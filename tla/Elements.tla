------------------------------- MODULE Elements -------------------------------
(* The elements of the data and the value that stands for nothing. *)
CONSTANTS
  Nodes, Ways, Relations,  \* elements
  None                     \* nothing

Ids == Nodes \cup Ways \cup Relations
=============================================================================
