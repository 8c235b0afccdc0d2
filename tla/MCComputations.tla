--------------------------- MODULE MCComputations ---------------------------
(* The bounded programs and expressions. *)
EXTENDS Computations, MCAlgorithms

MCOrder == <<n1, n2, r1, r2, w1>>

(* Data in which everything has changed but one node, and the programs: a  *)
(* statement, a block or another statement, one more, out.                 *)
MCProgramDatas ==
  {[then |-> (n1 :> Body(1, {})) @@ (n2 :> None) @@ (w1 :> Body(1, {n1}))
               @@ (r1 :> Body(1, {n1, w1})) @@ (r2 :> Body(1, {r1})),
    now |-> (n1 :> Body(1, {})) @@ (n2 :> Body(1, {})) @@ (w1 :> Body(2, {n1, n2}))
               @@ (r1 :> Body(2, {w1})) @@ (r2 :> None)]}

Statements ==
  {[k |-> "query", ids |-> {w1}, out |-> "_"],
   [k |-> "query", ids |-> {r1, r2}, out |-> "a"],
   [k |-> "filter", kind |-> "r", in |-> "a", types |-> Nodes \cup Ways, out |-> "_"],
   [k |-> "from", first |-> "_", ins |-> {"_", "a"}, types |-> Ids, out |-> "a"],
   [k |-> "item", in |-> "a", out |-> "_"],
   [k |-> "recurse", op |-> ">", in |-> "_", out |-> "_"],
   [k |-> "recurse", op |-> "<", in |-> "_", out |-> "a"]}
Ask(ids, name) == [k |-> "query", ids |-> ids, out |-> name]
Out(name) == [k |-> "out", in |-> name]
Blocks ==
  {[k |-> "union", body |-> <<s, t>>, out |-> o] : s, t \in Statements, o \in {"_"}}
  \cup {[k |-> "difference", first |-> s, second |-> t, out |-> o] : s, t \in Statements, o \in {"_"}}
  \cup {[k |-> "foreach", in |-> "a", out |-> o, body |-> <<s, Out("_")>>] :
           s \in Statements, o \in {"_", "a"}}
  \cup {[k |-> "retro", t |-> "then", body |-> <<s, t, Out("_")>>] : s, t \in Statements}
  \cup {[k |-> "if", then |-> <<s>>, otherwise |-> <<t>>] : s, t \in Statements}
MCPrograms ==
  {<<Ask({w1, r1}, "_"), [k |-> "recurse", op |-> ">", in |-> "_", out |-> "a"], s, Out("_"), Out("a")>> : s \in Blocks}
  \cup {<<s, b, t, Out("_")>> : s, t \in Statements, b \in Blocks}

(* Expressions of at most two operators one in the other over the leaves,  *)
(* and three of some; the values are nothing, 0, 2, 0 in other words, a    *)
(* word, "inf" and digits that only Python reads.                          *)
Word == Value(NoNumber, "word")
LongZero == Value(0, "0.0")
Infinity == Value(Inf, "inf")
Digits == [Value(NoNumber, "digits") EXCEPT !.py = 2 * Unit]
Values == {Empty, Plain(0), Plain(2 * Unit), LongZero, Word, Infinity, Digits}
Leaves == {Lit(v) : v \in Values} \cup {Tag, Call("version", << >>)}
Operators == UNION {Levels[l] : l \in DOMAIN Levels}
Over(S, T) ==
  {Bin(op, a, b) : op \in Operators, a \in S, b \in T} \cup {Unary(op, a) : op \in {"!", "-"}, a \in S}
Small == {Lit(Plain(2 * Unit)), Lit(LongZero), Tag}
Shallow ==
  Over(Leaves, Leaves) \cup {Call(f, <<a>>) : f \in {"number", "is_number"}, a \in Leaves}
  \cup {SetCount, Call("is_tag", << >>), Call("count_members", << >>)}
  \cup {Agg("sum", Tag), Bin("+", SetCount, Tag)}
  \cup {Ternary(c, a, b) : c \in Leaves, a, b \in Small}
Inner == Over(Small, {Lit(Plain(2 * Unit)), Tag}) \cup {Ternary(Tag, Tag, Lit(LongZero))}
MCExprs ==
  Leaves \cup Shallow \cup Over(Inner, Small) \cup Over(Small, Inner)
  \cup {Ternary(x, Tag, Tag) : x \in Inner} \cup {Ternary(Tag, x, Tag) : x \in Inner}
  \cup {Ternary(Tag, Tag, x) : x \in Inner} \cup {Call(f, <<x>>) : f \in {"number", "is_number"}, x \in Inner}
MCEvalRows ==
  {[id |-> 1, tag |-> v, version |-> Plain(2 * Unit), members |-> 2 * Unit] : v \in Values \cup {NoNumber}}
  \cup {[id |-> 1, tag |-> v, version |-> NoNumber, members |-> 2 * Unit] : v \in {NoNumber, LongZero}}
=============================================================================
