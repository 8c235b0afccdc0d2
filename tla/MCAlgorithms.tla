----------------------------- MODULE MCAlgorithms -----------------------------
(* The bounded inputs. *)
EXTENDS Algorithms, TLC

CONSTANTS n1, n2, w1, r1, r2, c1, c2, out

MCBuildInputs ==
  LET Created(t, x) == [u \in Times |-> IF u = t THEN x ELSE None]
      Changed(t, x, y) == [u \in Times |-> IF u = t THEN x ELSE IF u = LastTime THEN y ELSE None]
  IN {(n1 :> a) @@ (n2 :> b) @@ (w1 :> w) @@ (r1 :> r) @@ (r2 :> [u \in Times |-> None]) :
        a \in Histories({c1, c2, out}), b \in {Created(1, c1), Changed(1, c2, c1)},
        w \in Histories({{n1}, {n1, n2}}), r \in {Created(2, {w1, n2}), Changed(1, {n1, w1}, {w1})}}

MCCorners == {1, 5, 7, 9} \X {5, 7, 8}
MCLayoutInputs == {S \in SUBSET MCCorners : Cardinality(S) \in {0, 3}}

(* Rows with kids, and the data in which at most one of them has changed. *)
Body(v, kids) == [v |-> v, kids |-> kids]
Tables ==
  {(n1 :> Body(1, {})) @@ (n2 :> b) @@ (w1 :> w) @@ (r1 :> r) @@ (r2 :> q) :
     b \in {None, Body(1, {})}, w \in {None, Body(1, {n1}), Body(1, {n1, n2})},
     r \in {Body(1, {n1}), Body(1, {w1}), Body(1, {w1, r2}), Body(1, {n1, r2})},
     q \in {None, Body(1, {}), Body(1, {w1}), Body(1, {r1}), Body(1, {r1, w1})}}
Kids(i) ==
  CASE i \in Nodes -> {{}}
    [] i \in Ways -> {{n1}, {n2}}
    [] i \in Relations -> {{}, {n1}, {w1, r1}}
Changes(t) == UNION {{[t EXCEPT ![i] = x] : x \in {None} \cup {Body(2, s) : s \in Kids(i)}} : i \in Ids}
MCDatas == UNION {{[then |-> t, now |-> u] : u \in {t} \cup Changes(t)} : t \in Tables}
===============================================================================
