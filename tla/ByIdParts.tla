------------------------------ MODULE ByIdParts ------------------------------
(***************************************************************************)
(* The by-id files of one element type: those of the current rows and      *)
(* those of the history, how a build splits them by id, what a compaction  *)
(* makes of them (build/compact.py) and which of them a read of an id      *)
(* opens (engine/catalog.py, update/updater.py).                           *)
(*                                                                         *)
(* A list of parts is a function from positions to the sets of ids in the  *)
(* files.  Only the order of positions counts: a compaction that drops an  *)
(* empty file leaves a gap instead of numbering the files again.           *)
(***************************************************************************)
EXTENDS Integers, FiniteSets

CONSTANTS
  PartIds,   \* ids of elements
  MaxParts   \* bound: parts a build makes

ASSUME PartsAssumption == PartIds \subseteq Int /\ IsFiniteSet(PartIds) /\ MaxParts \in Nat

VARIABLES
  table,    \* parts of the current rows
  rows,     \* the ids that have a current row
  begun,    \* the root has a history
  history,  \* its parts
  past      \* the ids that have a state in it

partsVars == <<table, rows, begun, history, past>>

-----------------------------------------------------------------------------
MinId(S) == CHOOSE m \in S : \A k \in S : m <= k
MaxId(S) == CHOOSE m \in S : \A k \in S : k <= m

AllIds(parts) == UNION {parts[i] : i \in DOMAIN parts}

(* range_bounds: parts are not empty and their id ranges do not meet. *)
IsParted(parts) ==
  /\ \A i \in DOMAIN parts : parts[i] # {}
  /\ \A i, j \in DOMAIN parts : i < j => MaxId(parts[i]) < MinId(parts[j])

NoParts == [i \in {} |-> {}]
Partings == UNION {[1..n -> SUBSET PartIds] : n \in 0..MaxParts}

(* Mutant: an id between two parts goes to the higher one, one above all   *)
(* of them to the first.                                                   *)
TargetPartNext(parts, id) ==
  LET above == {i \in DOMAIN parts : id <= MaxId(parts[i])} IN
    IF above # {} THEN MinId(above) ELSE MinId(DOMAIN parts)

(* _assign_target_parts: the part whose range has the id, else the nearest *)
(* lower one, else the first.                                              *)
TargetPart(parts, id) ==
  LET holding == {i \in DOMAIN parts : id \in MinId(parts[i])..MaxId(parts[i])}
      lower == {i \in DOMAIN parts : MaxId(parts[i]) < id}
  IN IF holding # {} THEN CHOOSE i \in holding : TRUE
     ELSE IF lower # {} THEN CHOOSE i \in lower : \A j \in lower : MaxId(parts[j]) <= MaxId(parts[i])
     ELSE MinId(DOMAIN parts)

(* One part, none if there is nothing to put into it. *)
Single(ids) == [i \in {j \in {1} : ids # {}} |-> ids]

(* A part to which the tiers' winners assign none is linked as it is; any  *)
(* other is written without the winners and with the live ones assigned.   *)
Rewritten(parts, live, gone, i) ==
  IF \E id \in live \cup gone : TargetPart(parts, id) = i
    THEN (parts[i] \ (live \cup gone)) \cup {id \in live : TargetPart(parts, id) = i}
    ELSE parts[i]

(* _compact_byid_table: parts without a row are dropped. *)
CompactTable(parts, live, gone) ==
  IF DOMAIN parts = {} THEN Single(live)
  ELSE [i \in {j \in DOMAIN parts : Rewritten(parts, live, gone, j) # {}} |->
          Rewritten(parts, live, gone, i)]

(* _byid_part_ranges: part i owns the ids from its first to that of the    *)
(* next part; the first and the last part own the ends.                    *)
Owners(parts, id) ==
  {i \in DOMAIN parts :
     LET later == {j \in DOMAIN parts : j > i} IN
       /\ i # MinId(DOMAIN parts) => id >= MinId(parts[i])
       /\ later # {} => id < MinId(parts[MinId(later)])}

(* _compact_history_type: a part, and the tiers' states of the ids it      *)
(* owns.                                                                   *)
CompactHistory(parts, stated) ==
  IF DOMAIN parts = {} THEN Single(stated)
  ELSE [i \in DOMAIN parts |-> parts[i] \cup {id \in stated : i \in Owners(parts, id)}]

(* parts_for_range and _select_parts. *)
PartsForRange(parts, lo, hi) ==
  {i \in DOMAIN parts : MaxId(parts[i]) >= lo /\ MinId(parts[i]) <= hi}

-----------------------------------------------------------------------------
PartsInit ==
  /\ table \in Partings
  /\ IsParted(table)
  /\ rows = AllIds(table)
  /\ begun = FALSE
  /\ history = NoParts
  /\ past = {}

(* history init copies the parts of the table; history build makes its own *)
(* from whatever has a version, which includes all that is there.          *)
StartHistory ==
  /\ ~begun
  /\ begun' = TRUE
  /\ \E parts \in {table} \cup Partings :
       /\ IsParted(parts)
       /\ rows \subseteq AllIds(parts)
       /\ history' = parts
       /\ past' = AllIds(parts)
  /\ UNCHANGED <<table, rows>>

(* A compaction: live and gone are the ids the delta tiers hold, stated    *)
(* those the history tiers hold, which each run writes beside them.        *)
Compact(live, gone, stated) ==
  /\ table' = CompactTable(table, live, gone)
  /\ rows' = (rows \ gone) \cup live
  /\ history' = IF begun THEN CompactHistory(history, stated) ELSE history
  /\ past' = IF begun THEN past \cup stated ELSE past
  /\ UNCHANGED begun

CompactSome ==
  \E live \in SUBSET PartIds :
    \E gone \in SUBSET (PartIds \ live) :
      \E stated \in SUBSET (live \cup gone) : Compact(live, gone, stated)

PartsNext == StartHistory \/ CompactSome
PartsSpec == PartsInit /\ [][PartsNext]_partsVars

-----------------------------------------------------------------------------
PartsTypeOK ==
  /\ rows \in SUBSET PartIds /\ past \in SUBSET PartIds
  /\ begun \in BOOLEAN
  /\ \A parts \in {table, history} :
       /\ parts \in [DOMAIN parts -> SUBSET PartIds]
       /\ DOMAIN parts \subseteq Nat /\ IsFiniteSet(DOMAIN parts)

(* A read of one id opens the one file that has it. *)
IsFound(parts, id) ==
  \E i \in DOMAIN parts : id \in parts[i] /\ PartsForRange(parts, id, id) = {i}

(* Every id, also one nobody has seen, has one owner, and no other part    *)
(* has the id (the docstring of _byid_part_ranges).                        *)
HasOneOwner(parts, id) ==
  \E i \in DOMAIN parts : Owners(parts, id) = {i} /\ \A j \in DOMAIN parts : id \in parts[j] => j = i

(* However many compactions follow each other, wherever the ids of the     *)
(* tiers lie: the parts hold the ids they should and keep their ranges     *)
(* apart, a read finds every id in the one file it opens, and the history  *)
(* of an id is in one file (_compact_byid_table, _compact_history_type,    *)
(* parts_for_range).                                                       *)
CompactionKeepsParts ==
  /\ IsParted(table) /\ AllIds(table) = rows
  /\ IsParted(history) /\ AllIds(history) = past
  /\ \A id \in rows : IsFound(table, id)
  /\ \A id \in past : IsFound(history, id)
  /\ past # {} => \A id \in PartIds : HasOneOwner(history, id)
=============================================================================
