------------------------------ MODULE HistoryRows ------------------------------
(***************************************************************************)
(* How history rows are ordered and the state at an instant is picked from *)
(* them (history/schema.py and _lead_valid_to in build/compact.py).  A row *)
(* is a record with at least the fields id, version, minor, from           *)
(* (valid_from), live (visible) and cell.                                  *)
(***************************************************************************)
EXTENDS Naturals

(* _lead_valid_to: r is before s in ORDER BY valid_from, visible DESC,     *)
(* version, minor.                                                         *)
Precedes(r, s) ==
  \/ r.from < s.from
  \/ r.from = s.from /\ r.live /\ ~s.live
  \/ r.from = s.from /\ r.live = s.live /\ r.version < s.version
  \/ r.from = s.from /\ r.live = s.live /\ r.version = s.version /\ r.minor < s.minor

(* validity_predicate on rows with a valid_to: the next state of the same  *)
(* id in the same file has not begun.                                      *)
Valid(rows, t) ==
  {r \in rows : r.from <= t
                /\ ~ \E s \in rows : s.id = r.id /\ Precedes(r, s) /\ s.from <= t}

(* STATE_ORDER_SQL: valid_from DESC, visible DESC, version DESC, minor DESC. *)
IsNewer(r, s) ==
  \/ r.from > s.from
  \/ r.from = s.from /\ r.live /\ ~s.live
  \/ r.from = s.from /\ r.live = s.live /\ r.version > s.version
  \/ r.from = s.from /\ r.live = s.live /\ r.version = s.version /\ r.minor > s.minor

(* state_at_sql: the first row of each id. *)
StateAt(rows) == {r \in rows : ~ \E s \in rows : s.id = r.id /\ IsNewer(s, r)}

(* The rows in the files of one cell. *)
InCell(rows, c) == {r \in rows : r.cell = c}
=============================================================================
