--------------------------------- MODULE Job ---------------------------------
(* One computation: its input, and the stage it has reached. *)
CONSTANT NoInput  \* no input yet

VARIABLE job

At(stage) == job # NoInput /\ job.stage = stage
=============================================================================
