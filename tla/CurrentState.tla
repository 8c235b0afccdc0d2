---------------------------- MODULE CurrentState ----------------------------
(***************************************************************************)
(* What the dataset promises whoever asks for an element by its id: the    *)
(* place and the diff of its last change, as if every diff had been        *)
(* applied to one table of elements as soon as it was fetched.             *)
(***************************************************************************)
EXTENDS Naturals

CONSTANTS
  Ids,      \* elements of one type
  Cells,    \* cells of the quadtree
  NoCell,   \* SQL NULL: no cell
  Same,     \* in a diff: the element does not occur
  MaxSeq    \* bound: diffs

VARIABLES
  current,  \* id -> cell and diff of its current row
  seq,      \* the last diff applied
  diff      \* what that diff did to each element

Absent == [cell |-> NoCell, seq |-> 0]
Diffs == [Ids -> Cells \cup {NoCell, Same}]

(* The table after diff d, which is number s: a cell puts the element      *)
(* there, NoCell deletes it.                                               *)
After(d, s, i) ==
  CASE d[i] = Same -> current[i]
    [] d[i] = NoCell -> Absent
    [] OTHER -> [cell |-> d[i], seq |-> s]

Init ==
  /\ current \in [Ids -> {[cell |-> c, seq |-> 0] : c \in Cells \cup {NoCell}}]
  /\ seq = 0
  /\ diff = [i \in Ids |-> Same]

Apply ==
  /\ seq < MaxSeq
  /\ seq' = seq + 1
  /\ diff' \in Diffs
  /\ current' = [i \in Ids |-> After(diff', seq', i)]

Spec == Init /\ [][Apply]_<<current, seq, diff>>
=============================================================================
