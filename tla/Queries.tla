------------------------------- MODULE Queries -------------------------------
(***************************************************************************)
(* Query programs and evaluator expressions, on bounded inputs: a step     *)
(* takes a program or an expression, or executes the next statement.       *)
(***************************************************************************)
EXTENDS QueryProgram, Evaluator

CONSTANTS
  Programs,      \* query programs
  ProgramDatas,  \* and the data they run on
  Exprs,         \* evaluator expressions
  EvalRows       \* and the rows they are asked of

TakeProgram == RunProgram(Programs, ProgramDatas, {FALSE})

-----------------------------------------------------------------------------
(* Evaluator expressions. *)

TakeExpr ==
  /\ job = NoInput
  /\ \E e \in Exprs : job' = [stage |-> "expr", e |-> e]

(* The parser gives back every expression written with the least brackets  *)
(* (Parser: precedence and associativity).                                 *)
ParsesBack == At("expr") => IsReadBack(job.e)

(* SQL and Python evaluate an expression alike (compile_element against    *)
(* evaluate_set).                                                          *)
EvaluatorsAgree == At("expr") => \A row \in EvalRows : IsOneValue(job.e, row)

-----------------------------------------------------------------------------
QueriesNext == TakeProgram \/ ExecuteStatement \/ TakeExpr
=============================================================================
