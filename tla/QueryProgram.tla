----------------------------- MODULE QueryProgram -----------------------------
(***************************************************************************)
(* How a query program runs (engine/planner.py, engine/setops.py, foreach  *)
(* and if in engine/evalfilter.py, retro and the two passes of [diff:] in  *)
(* engine/attic.py).                                                       *)
(*                                                                         *)
(* A statement is a record with its kind in the field k.  The run keeps    *)
(* the tables of the named sets, the snapshot, the tables that blocks have *)
(* put aside, and what is left to do: the statements still to execute,     *)
(* and the ends of the blocks around them.                                 *)
(***************************************************************************)
EXTENDS Recursion, Job, Sequences, SequencesExt

CONSTANT Order  \* the elements by type and id

(* Names are those of the tables: a name that is absent was never set. *)
Assign(sets, name, rows) == [n \in DOMAIN sets \cup {name} |-> IF n = name THEN rows ELSE sets[n]]

(* materialize: one row for each element, any of them where they differ.   *)
Materialized(rows) ==
  {S \in SUBSET rows : IdsOf(S) = IdsOf(rows) /\ \A q, r \in S : q.id = r.id => q = r}

(* The elements of a set by type and id. *)
InOrder(rows) == SelectSeq(Order, LAMBDA i : i \in IdsOf(rows))

-----------------------------------------------------------------------------
(* What the simple statements read and compute.  x is a run or a stand-in  *)
(* with the fields data, wide, snap and sets.                              *)

Inputs(st) ==
  CASE st.k = "from" -> st.ins
    [] st.k \in {"recurse", "filter", "item", "out", "foreach"} -> {st.in}
    [] OTHER -> {}

(* _recurse_filter_ids_table. *)
FilterIds(x, st) ==
  LET rows == x.sets[st.in] IN
    CASE st.kind = "w" -> ForwardHop({r \in rows : r.id \in Ways}, {})
      [] st.kind = "r" -> ForwardHop({r \in rows : r.id \in Relations}, Ids)
      [] st.kind = "bn" -> BackwardHop(x.data, x.snap, x.wide, rows, Nodes)
      [] st.kind = "bw" -> BackwardHop(x.data, x.snap, x.wide, rows, Ways)
      [] st.kind = "br" -> BackwardHop(x.data, x.snap, x.wide, rows, Relations)

(* execute_recurse. *)
Recursed(x, st) ==
  LET rows == x.sets[st.in] IN
    CASE st.op = ">" -> Forward(x.data, x.snap, x.wide, rows)
      [] st.op = "<" -> Backward(x.data, x.snap, x.wide, rows)
      [] st.op = ">>" -> Transitive(x.data, x.snap, x.wide, TRUE, rows)
      [] st.op = "<<" -> Transitive(x.data, x.snap, x.wide, FALSE, rows)

(* build_from_set_select: the rows of the first set whose element is in    *)
(* all of them.                                                            *)
FromSets(x, st) ==
  {r \in x.sets[st.first] : r.id \in st.types /\ \A n \in st.ins : r.id \in IdsOf(x.sets[n])}

(* execute_query from ids, through a recursion filter or from other sets,  *)
(* execute_item, execute_recurse.                                          *)
Computed(x, st) ==
  CASE st.k = "query" -> Hydrate(x.data, x.snap, st.ids)
    [] st.k = "filter" -> Hydrate(x.data, x.snap, FilterIds(x, st) \cap st.types)
    [] st.k = "from" -> FromSets(x, st)
    [] st.k = "item" -> x.sets[st.in]
    [] st.k = "recurse" -> Recursed(x, st)

Simple == {"query", "filter", "from", "item", "recurse"}

Printed(rows) == {[id |-> r.id, v |-> r.v] : r \in rows}

-----------------------------------------------------------------------------
(* The run. *)

Next1 == Head(job.todo)
Running(k) == At("running") /\ job.todo # << >> /\ Next1.k = k
Then(sts) == sts \o Tail(job.todo)

(* _require_set: the error ends the program, and its elements are dropped. *)
IsMissing == \E n \in Inputs(Next1) : n \notin DOMAIN job.sets
Fails == [job EXCEPT !.stage = "done", !.failed = TRUE, !.out = << >>, !.todo = << >>]

RequireSet ==
  /\ At("running") /\ job.todo # << >>
  /\ IsMissing
  /\ job' = Fails

ExecuteSimple ==
  /\ At("running") /\ job.todo # << >> /\ Next1.k \in Simple
  /\ ~IsMissing
  /\ \E rows \in Materialized(Computed(job, Next1)) :
       job' = [job EXCEPT !.sets = Assign(@, Next1.out, rows), !.todo = Tail(@)]

ExecuteOut ==
  /\ Running("out") /\ ~IsMissing
  /\ job' = [job EXCEPT !.out = Append(@, Printed(job.sets[Next1.in])), !.todo = Tail(@)]

(* Mutant: the output sets are copied after the last part. *)
CapturedLate(sts) == sts \o [i \in DOMAIN sts |-> [k |-> "capture", in |-> sts[i].out]]

(* execute_union and execute_difference: each part is executed, and what   *)
(* it has put in its output set is copied, before the next part.           *)
Captured(sts) == FlattenSeq([i \in DOMAIN sts |-> <<sts[i], [k |-> "capture", in |-> sts[i].out]>>])

ExecuteUnion ==
  /\ Running("union")
  /\ job' = [job EXCEPT
       !.aside = <<[parts |-> << >>]>> \o @,
       !.todo = Then(Captured(Next1.body) \o <<[k |-> "unite", out |-> Next1.out]>>)]

ExecuteDifference ==
  /\ Running("difference")
  /\ job' = [job EXCEPT
       !.aside = <<[parts |-> << >>]>> \o @,
       !.todo = Then(Captured(<<Next1.first, Next1.second>>)
                       \o <<[k |-> "subtract", out |-> Next1.out]>>)]

Capture ==
  /\ Running("capture")
  /\ job' = [job EXCEPT !.aside[1].parts = Append(@, job.sets[Next1.in]), !.todo = Tail(@)]

Part(i) == job.aside[1].parts[i]

EndBlock(rows) ==
  \E one \in Materialized(rows) :
    job' = [job EXCEPT !.sets = Assign(@, Next1.out, one), !.aside = Tail(@), !.todo = Tail(@)]

Unite == Running("unite") /\ EndBlock(UNION {Part(i) : i \in DOMAIN job.aside[1].parts})

Subtract == Running("subtract") /\ EndBlock({r \in Part(1) : r.id \notin IdsOf(Part(2))})

(* _run_foreach: over a copy of the set, whatever the body does to it. *)
ExecuteForeach ==
  /\ Running("foreach") /\ ~IsMissing
  /\ job' = [job EXCEPT
       !.aside = <<[copy |-> job.sets[Next1.in]]>> \o @,
       !.todo = Then(<<[k |-> "each", in |-> Next1.in, left |-> InOrder(job.sets[Next1.in]),
                        body |-> Next1.body, out |-> Next1.out]>>)]

EachRow(i) == {r \in job.aside[1].copy : r.id = i}

ExecuteEach ==
  /\ Running("each") /\ Next1.left # << >>
  /\ job' = [job EXCEPT
       !.sets = Assign(@, Next1.out, EachRow(Head(Next1.left))),
       !.todo = Next1.body \o Then(<<[Next1 EXCEPT !.left = Tail(@)]>>)]

EndForeach ==
  /\ Running("each") /\ Next1.left = << >>
  /\ job' = [job EXCEPT !.aside = Tail(@), !.todo = Tail(@)]

(* _run_if on a condition about the default set: that it is not empty. *)
ExecuteIf ==
  /\ Running("if")
  /\ job' = [job EXCEPT !.todo = Then(IF job.sets["_"] # {} THEN Next1.then ELSE Next1.otherwise)]

(* execute_retro: all tables are saved, the body reads the snapshot. *)
ExecuteRetro ==
  /\ Running("retro")
  /\ job' = [job EXCEPT
       !.aside = <<[sets |-> job.sets, snap |-> job.snap]>> \o @,
       !.snap = Next1.t,
       !.todo = Then(Next1.body \o <<[k |-> "restore"]>>)]

(* restore_sets: sets the body made are emptied. *)
Restored(saved) == [n \in DOMAIN job.sets |-> IF n \in DOMAIN saved THEN saved[n] ELSE {}]

EndRetro ==
  /\ Running("restore")
  /\ job' = [job EXCEPT !.sets = Restored(job.aside[1].sets), !.snap = job.aside[1].snap,
                        !.aside = Tail(@), !.todo = Tail(@)]

-----------------------------------------------------------------------------
(* run_program_body: the default set is emptied, other tables are as they  *)
(* are.                                                                    *)
Started(prog, data, wide, mode, sets) ==
  [stage |-> "running", prog |-> prog, data |-> data, wide |-> wide, mode |-> mode,
   sets |-> Assign(sets, "_", {}), aside |-> << >>, todo |-> prog, out |-> << >>,
   before |-> << >>, failed |-> FALSE,
   snap |-> IF mode = "now" THEN "now" ELSE "then"]

(* A plain run, one with [date:], the first pass of [diff:]. *)
RunProgram(progs, datas, wides) ==
  /\ job = NoInput
  /\ \E prog \in progs, data \in datas, wide \in wides, mode \in {"now", "date", "diff"} :
       job' = Started(prog, data, wide, mode, [n \in {} |-> {}])

IsOver == At("running") /\ job.todo = << >>

(* Mutant: the default set of the first pass is still there. *)
SecondPassKeeps ==
  [Started(job.prog, job.data, job.wide, "diff", job.sets)
     EXCEPT !.snap = "last", !.before = job.out, !.mode = "diffed", !.sets = job.sets]

(* run_diff_program: the program again, on the same cursor. *)
SecondPass ==
  [Started(job.prog, job.data, job.wide, "diff", job.sets)
     EXCEPT !.snap = "last", !.before = job.out, !.mode = "diffed"]

RunSecondPass == IsOver /\ job.mode = "diff" /\ job' = SecondPass

EndProgram == IsOver /\ job.mode # "diff" /\ job' = [job EXCEPT !.stage = "done"]

ExecuteStatement ==
  \/ RequireSet \/ ExecuteSimple \/ ExecuteOut \/ ExecuteUnion \/ ExecuteDifference
  \/ Capture \/ Unite \/ Subtract \/ ExecuteForeach \/ ExecuteEach \/ EndForeach
  \/ ExecuteIf \/ ExecuteRetro \/ EndRetro \/ RunSecondPass \/ EndProgram

-----------------------------------------------------------------------------
(* What a program means: no tables, no stack, no snapshot variable; each   *)
(* statement maps an environment to the environments it may lead to.       *)

Env(data, wide, snap) ==
  [data |-> data, wide |-> wide, snap |-> snap, sets |-> [n \in {"_"} |-> {}],
   out |-> << >>, failed |-> FALSE]

With(x, name, rows) == {[x EXCEPT !.sets = Assign(@, name, one)] : one \in Materialized(rows)}

RECURSIVE Meaning(_, _), Meanings(_, _), PartValues(_, _), ForEach(_, _, _, _)

(* The environments after a sequence of statements. *)
Meanings(sts, x) ==
  IF sts = << >> \/ x.failed THEN {x}
  ELSE UNION {Meanings(Tail(sts), y) : y \in Meaning(Head(sts), x)}

(* After the parts of a block: the environment and each part's value. *)
PartValues(sts, x) ==
  IF sts = << >> \/ x.failed THEN {<<x, << >> >>}
  ELSE UNION {{<<p[1], <<IF y.failed THEN {} ELSE y.sets[Head(sts).out]>> \o p[2]>> :
                 p \in PartValues(Tail(sts), y)} : y \in Meaning(Head(sts), x)}

ForEach(rows, ids, st, x) ==
  IF ids = << >> \/ x.failed THEN {x}
  ELSE UNION {ForEach(rows, Tail(ids), st, z) :
                z \in UNION {Meanings(st.body, y) :
                               y \in With(x, st.out, {r \in rows : r.id = Head(ids)})}}

Meaning(st, x) ==
  IF \E n \in Inputs(st) : n \notin DOMAIN x.sets THEN {[x EXCEPT !.failed = TRUE]}
  ELSE CASE st.k \in Simple -> With(x, st.out, Computed(x, st))
         [] st.k = "out" -> {[x EXCEPT !.out = Append(@, Printed(x.sets[st.in]))]}
         [] st.k = "union" ->
              UNION {IF p[1].failed THEN {p[1]}
                     ELSE With(p[1], st.out, UNION {p[2][i] : i \in DOMAIN p[2]}) :
                       p \in PartValues(st.body, x)}
         [] st.k = "difference" ->
              UNION {IF p[1].failed THEN {p[1]}
                     ELSE With(p[1], st.out, {r \in p[2][1] : r.id \notin IdsOf(p[2][2])}) :
                       p \in PartValues(<<st.first, st.second>>, x)}
         [] st.k = "foreach" -> ForEach(x.sets[st.in], InOrder(x.sets[st.in]), st, x)
         [] st.k = "if" -> Meanings(IF x.sets["_"] # {} THEN st.then ELSE st.otherwise, x)
         [] st.k = "retro" ->
              {[x EXCEPT !.out = y.out, !.failed = y.failed,
                         !.sets = [n \in DOMAIN y.sets |->
                                     IF n \in DOMAIN x.sets THEN x.sets[n] ELSE {}]] :
                 y \in Meanings(st.body, [x EXCEPT !.snap = st.t])}

Answers(snap) == Meanings(job.prog, Env(job.data, job.wide, snap))

(* A program's answer is what its statements mean, whatever names its      *)
(* blocks reuse: a part of a union or a difference counts with its value   *)
(* when it was executed, foreach visits the set it was given, and nothing  *)
(* of a retro block is seen after it, its snapshot included; a set that    *)
(* was never set is an error.  That retro is block-local is what the       *)
(* docstring of execute_retro says (planner.py:387-395); docs/api.md:267   *)
(* and docs/m4-contracts.md:206-207 still say the opposite of its sets.    *)
ProgramMeansIt ==
  At("done") /\ job.mode # "diffed" =>
    \E a \in Answers(IF job.mode = "now" THEN "now" ELSE "then") :
      /\ a.failed = job.failed
      /\ ~a.failed => a.out = job.out

(* The second pass of a [diff:] answers as a run of its own: tables left   *)
(* by the first pass are not read, but where a run of its own would have   *)
(* ended in an error.                                                      *)
PassesStandAlone ==
  At("done") /\ job.mode = "diffed" =>
    \E a \in Answers("last") : a.failed \/ (~job.failed /\ a.out = job.out)
=============================================================================
