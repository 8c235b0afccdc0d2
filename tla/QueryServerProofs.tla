--------------------------- MODULE QueryServerProofs ---------------------------
(***************************************************************************)
(* Proofs about QueryServer, for any set of requests and clients and any   *)
(* limits.  SlotsInv is inductive: only Accept and Release change the      *)
(* slots, each by one element of one client; every other step leaves who   *)
(* holds a slot alone (QuietStep).  RemarkInv, that an interrupt always    *)
(* follows its reason, makes the remarks true.                             *)
(***************************************************************************)
EXTENDS QueryServer, FiniteSetTheorems, TLAPS

(* The slots a client holds are finitely many. *)
LEMMA HeldFinite ==
  ASSUME SlotsInv
  PROVE  /\ IsFiniteSet(running) /\ Cardinality(running) \in Nat
         /\ \A i \in Ips : IsFiniteSet(Held(i)) /\ Cardinality(Held(i)) \in Nat
  <1>1. running \in SUBSET Requests /\ IsFiniteSet(Requests)
    BY ServerAssumption DEF SlotsInv, TypeOK
  <1>2. IsFiniteSet(running)
    BY <1>1, FS_Subset
  <1>3. ASSUME NEW i \in Ips PROVE IsFiniteSet(Held(i))
    BY <1>2, FS_Subset DEF Held
  <1> QED BY <1>2, <1>3, FS_CardinalityType

LEMMA InitSlots == Init => SlotsInv
  <1> SUFFICES ASSUME Init PROVE SlotsInv
    OBVIOUS
  <1>1. TypeOK
    BY DEF Init, TypeOK
  <1>2. \A i \in Ips : Held(i) = {}
    BY DEF Init, Held
  <1>3. Cardinality({}) = 0
    BY FS_EmptySet
  <1> QED BY <1>1, <1>2, <1>3, ServerAssumption DEF Init, SlotsInv

(* A step that moves no request into or out of the served ones. *)
LEMMA QuietStep ==
  ASSUME SlotsInv, TypeOK', UNCHANGED <<ip, running, ipCounts>>,
         \A r \in Requests : pc'[r] \in {"new", "done"} <=> pc[r] \in {"new", "done"}
  PROVE  SlotsInv'
  <1>1. \A i \in Ips : Held(i)' = Held(i)
    BY DEF Held
  <1> QED BY <1>1 DEF SlotsInv

LEMMA AcceptSlots ==
  ASSUME SlotsInv, NEW r \in Requests, Accept(r)
  PROVE  SlotsInv'
  <1>1. PICK i \in Ips : /\ HasSlot(i)
                         /\ ip' = [ip EXCEPT ![r] = i]
                         /\ ipCounts' = [ipCounts EXCEPT ![i] = @ + 1]
    BY DEF Accept
  <1>2. r \notin running /\ pc[r] = "new"
    BY DEF Accept, SlotsInv
  <1>3. TypeOK'
    <2>1. ip' \in [Requests -> Ips \cup {NoIp}]
      BY <1>1 DEF SlotsInv, TypeOK
    <2>2. ipCounts' \in [Ips -> Nat]
      <3>1. ipCounts \in [Ips -> Nat] /\ ipCounts[i] \in Nat
        BY DEF SlotsInv, TypeOK
      <3>2. ipCounts[i] + 1 \in Nat
        BY <3>1
      <3> QED BY <3>1, <3>2, <1>1
    <2>3. running' \subseteq Requests
      BY DEF Accept, SlotsInv, TypeOK
    <2> QED BY <2>1, <2>2, <2>3 DEF Accept, Goto, token, kills, SlotsInv, TypeOK
  <1>4. \A q \in Requests : q \in running' <=> pc'[q] \notin {"new", "done"}
    BY <1>2 DEF Accept, Goto, SlotsInv, TypeOK
  <1>5. \A q \in running : ip'[q] = ip[q]
    BY <1>1, <1>2 DEF SlotsInv, TypeOK
  <1>6. ip'[r] = i
    BY <1>1 DEF SlotsInv, TypeOK
  <1>7. Held(i)' = Held(i) \cup {r} /\ r \notin Held(i)
    BY <1>2, <1>5, <1>6 DEF Accept, Held
  <1>8. \A j \in Ips \ {i} : Held(j)' = Held(j)
    BY <1>2, <1>5, <1>6 DEF Accept, Held
  <1>9. Cardinality(Held(i))' = Cardinality(Held(i)) + 1
    BY <1>7, HeldFinite, FS_AddElement
  <1>10. Cardinality(running') = Cardinality(running) + 1
    BY <1>2, HeldFinite, FS_AddElement DEF Accept
  <1>11. \A j \in Ips : ipCounts'[j] = Cardinality(Held(j))' /\ ipCounts'[j] <= SlotsPerIp
    <2>1. ipCounts'[i] = Cardinality(Held(i))' /\ ipCounts'[i] <= SlotsPerIp
      <3>1. ipCounts'[i] = ipCounts[i] + 1 /\ ipCounts[i] < SlotsPerIp /\ ipCounts[i] \in Nat
        BY <1>1 DEF HasSlot, SlotsInv, TypeOK
      <3>2. ipCounts[i] = Cardinality(Held(i))
        BY DEF SlotsInv
      <3> QED BY <3>1, <3>2, <1>9, ServerAssumption
    <2>2. ASSUME NEW j \in Ips \ {i}
          PROVE  ipCounts'[j] = Cardinality(Held(j))' /\ ipCounts'[j] <= SlotsPerIp
      BY <1>1, <1>8 DEF SlotsInv, TypeOK
    <2> QED BY <2>1, <2>2
  <1>12. Cardinality(running') <= MaxConcurrent
    BY <1>1, <1>10, HeldFinite, ServerAssumption DEF HasSlot
  <1>13. \A q \in running' : ip'[q] \in Ips
    BY <1>5, <1>6 DEF Accept, SlotsInv
  <1> QED BY <1>3, <1>4, <1>11, <1>12, <1>13 DEF SlotsInv

LEMMA ReleaseSlots ==
  ASSUME SlotsInv, NEW r \in Requests, Release(r)
  PROVE  SlotsInv'
  <1>0. PICK i \in Ips : i = ip[r]
    BY DEF Release, SlotsInv
  <1>1. r \in running /\ r \in Held(i)
    BY <1>0 DEF Release, SlotsInv, Held
  <1>2. Held(i)' = Held(i) \ {r}
    BY DEF Release, Held
  <1>3. \A j \in Ips \ {i} : Held(j)' = Held(j)
    BY <1>0 DEF Release, Held
  <1>4. Cardinality(Held(i))' = Cardinality(Held(i)) - 1
    BY <1>1, <1>2, HeldFinite, FS_RemoveElement
  <1>5. Cardinality(Held(i)) # 0 /\ ipCounts[i] = Cardinality(Held(i))
    BY <1>1, HeldFinite, FS_EmptySet DEF SlotsInv
  <1>6. ipCounts' = [ipCounts EXCEPT ![i] = @ - 1] /\ ipCounts[i] - 1 \in Nat
    BY <1>0, <1>5, HeldFinite DEF Release
  <1>7. Cardinality(running') = Cardinality(running) - 1
    BY <1>1, HeldFinite, FS_RemoveElement DEF Release
  <1>8. ipCounts' \in [Ips -> Nat]
    BY <1>6 DEF SlotsInv, TypeOK
  <1>9. TypeOK'
    BY <1>8 DEF Release, Goto, token, kills, SlotsInv, TypeOK
  <1>10. \A q \in Requests : q \in running' <=> pc'[q] \notin {"new", "done"}
    BY DEF Release, Goto, SlotsInv, TypeOK
  <1>11. ASSUME NEW j \in Ips
         PROVE  ipCounts'[j] = Cardinality(Held(j))' /\ ipCounts'[j] <= SlotsPerIp
    <2>1. CASE j = i
      <3>1. ipCounts'[i] = ipCounts[i] - 1
        BY <1>1, <1>6 DEF SlotsInv, TypeOK
      <3>2. ipCounts[i] <= SlotsPerIp /\ ipCounts[i] \in Nat
        BY <1>1 DEF SlotsInv, TypeOK
      <3>3. ipCounts'[i] <= SlotsPerIp
        BY <3>1, <3>2, ServerAssumption
      <3>4. ipCounts'[i] = Cardinality(Held(i))'
        BY <3>1, <1>4, <1>5
      <3> QED BY <2>1, <3>3, <3>4
    <2>2. CASE j # i
      BY <2>2, <1>3, <1>6 DEF SlotsInv, TypeOK
    <2> QED BY <2>1, <2>2
  <1>12. Cardinality(running') <= MaxConcurrent
    BY <1>7, HeldFinite, ServerAssumption DEF SlotsInv
  <1>13. \A q \in running' : ip'[q] \in Ips
    BY DEF Release, SlotsInv
  <1> QED BY <1>9, <1>10, <1>11, <1>12, <1>13 DEF SlotsInv

LEMMA RejectSlots ==
  ASSUME SlotsInv, NEW r \in Requests, Reject(r)
  PROVE  SlotsInv'
  <1>1. r \notin running
    BY DEF Reject, SlotsInv
  <1>2. TypeOK'
    BY DEF Reject, Goto, slots, token, kills, SlotsInv, TypeOK
  <1>3. \A q \in running : ip'[q] = ip[q]
    BY <1>1 DEF Reject, SlotsInv, TypeOK
  <1>4. \A i \in Ips : Held(i)' = Held(i)
    BY <1>3 DEF Reject, Held, slots
  <1>5. \A q \in Requests : q \in running' <=> pc'[q] \notin {"new", "done"}
    BY <1>1 DEF Reject, Goto, slots, SlotsInv, TypeOK
  <1> QED BY <1>2, <1>3, <1>4, <1>5 DEF Reject, slots, SlotsInv

(* The steps of a run, its timer and its token. *)
LEMMA RunSlots ==
  ASSUME SlotsInv, NEW r \in Requests,
         \/ Bind(r) \/ SetUp(r) \/ StatementStarts(r) \/ StatementEnds(r)
         \/ StatementInterrupted(r) \/ RunCompletes(r) \/ Close(r) \/ Unbind(r)
         \/ EngineFails(r) \/ RunFails(r)
  PROVE  SlotsInv'
  <1> USE DEF SlotsInv, TypeOK, Goto, slots, token, kills
  <1>1. CASE Bind(r)
    BY <1>1, QuietStep DEF Bind
  <1>2. CASE SetUp(r)
    BY <1>2, QuietStep DEF SetUp
  <1>3. CASE StatementStarts(r)
    BY <1>3, QuietStep DEF StatementStarts
  <1>4. CASE StatementEnds(r)
    BY <1>4, QuietStep DEF StatementEnds
  <1>5. CASE StatementInterrupted(r)
    BY <1>5, QuietStep DEF StatementInterrupted, Finish
  <1>6. CASE RunCompletes(r)
    BY <1>6, QuietStep DEF RunCompletes, Finish
  <1>7. CASE Close(r)
    BY <1>7, QuietStep DEF Close
  <1>8. CASE Unbind(r)
    BY <1>8, QuietStep DEF Unbind
  <1>9. CASE EngineFails(r)
    BY <1>9, QuietStep DEF EngineFails
  <1>10. CASE RunFails(r)
    BY <1>10, QuietStep DEF RunFails, Finish
  <1> QED BY <1>1, <1>2, <1>3, <1>4, <1>5, <1>6, <1>7, <1>8, <1>9, <1>10

LEMMA StopSlots ==
  ASSUME SlotsInv,
         \/ \E r \in Requests : TimerFires(r) \/ TimerInterrupts(r) \/ Cancel(r)
         \/ \E i \in Ips : KillMyQueries(i)
  PROVE  SlotsInv'
  <1> USE DEF SlotsInv, TypeOK, slots, token, kills
  <1>1. ASSUME NEW r \in Requests, TimerFires(r) PROVE SlotsInv'
    BY <1>1, QuietStep DEF TimerFires
  <1>2. ASSUME NEW r \in Requests, TimerInterrupts(r) PROVE SlotsInv'
    BY <1>2, QuietStep DEF TimerInterrupts
  <1>3. ASSUME NEW r \in Requests, Cancel(r) PROVE SlotsInv'
    BY <1>3, QuietStep DEF Cancel
  <1>4. ASSUME NEW i \in Ips, KillMyQueries(i) PROVE SlotsInv'
    BY <1>4, QuietStep DEF KillMyQueries, Held
  <1> QED BY <1>1, <1>2, <1>3, <1>4

LEMMA NextSlots ==
  ASSUME SlotsInv, [Next]_vars
  PROVE  SlotsInv'
  <1>1. ASSUME NEW r \in Requests, RequestStep(r) PROVE SlotsInv'
    BY <1>1, AcceptSlots, RejectSlots, ReleaseSlots, RunSlots, StopSlots
       DEF RequestStep, RunStep
  <1>2. ASSUME NEW i \in Ips, KillMyQueries(i) PROVE SlotsInv'
    BY <1>2, StopSlots
  <1>3. CASE UNCHANGED vars
    BY <1>3, QuietStep DEF vars, slots, token, kills, SlotsInv, TypeOK
  <1> QED BY <1>1, <1>2, <1>3 DEF Next

(* The slot counts are exact and both limits hold, for any number of       *)
(* requests and clients (_try_acquire, _release).                          *)
THEOREM SlotsSafe == Spec => []SlotsInv
  <1>1. Init => SlotsInv
    BY InitSlots
  <1>2. SlotsInv /\ [Next]_vars => SlotsInv'
    BY NextSlots
  <1> QED BY <1>1, <1>2, PTL DEF Spec

LEMMA NotLess == \A m, n \in Nat : m < n \/ m >= n
  OBVIOUS

(* Only Reject answers "rate limited", and it has found no slot. *)
LEMMA StepLocksOut ==
  ASSUME SlotsInv, Next, NEW r \in Requests,
         answer[r] = "none", answer'[r] = "rate limited"
  PROVE  Cardinality(Held(ip'[r])) >= SlotsPerIp \/ Cardinality(running) >= MaxConcurrent
  <1>1. ASSUME NEW q \in Requests, RequestStep(q), ~Reject(q) PROVE FALSE
    BY <1>1 DEF RequestStep, RunStep, Accept, EngineFails, RunFails, Bind, SetUp,
                StatementStarts, StatementEnds, StatementInterrupted, RunCompletes, Finish,
                Close, Unbind, Release, TimerFires, TimerInterrupts, Cancel,
                SlotsInv, TypeOK
  <1>2. ASSUME NEW i \in Ips, KillMyQueries(i) PROVE FALSE
    BY <1>2 DEF KillMyQueries
  <1>3. PICK q \in Requests : Reject(q)
    BY <1>1, <1>2 DEF Next
  <1>4. q = r
    BY <1>3 DEF Reject, SlotsInv, TypeOK
  <1>5. PICK i \in Ips : ~HasSlot(i) /\ ip'[r] = i
    BY <1>3, <1>4 DEF Reject, SlotsInv, TypeOK
  <1>6. ipCounts[i] = Cardinality(Held(i)) /\ ipCounts[i] \in Nat
    BY DEF SlotsInv, TypeOK
  <1>7. Held(ip'[r]) = Held(i)
    BY <1>5 DEF Held
  <1>8. Cardinality(Held(i)) >= SlotsPerIp \/ Cardinality(running) >= MaxConcurrent
    <2>1. Cardinality(running) \in Nat
      BY HeldFinite
    <2>2. ~(Cardinality(running) < MaxConcurrent) \/ ~(ipCounts[i] < SlotsPerIp)
      BY <1>5 DEF HasSlot
    <2>3. SlotsPerIp \in Nat /\ MaxConcurrent \in Nat
      BY ServerAssumption
    <2> QED BY <1>6, <2>1, <2>2, <2>3, NotLess
  <1> QED BY <1>7, <1>8

(* No run, however it ended, leaves a count behind that turns its client   *)
(* away (the finally of _handle_interpreter).                              *)
THEOREM NobodyLockedOut == Spec => NeverLocksOut
  <1>1. SlotsInv /\ [Next]_vars => [TurnedAwayWhenFull]_vars
    BY StepLocksOut DEF TurnedAwayWhenFull
  <1> QED BY <1>1, SlotsSafe, PTL DEF Spec, NeverLocksOut

-----------------------------------------------------------------------------
(* Remarks. *)

(* A new request's address is set once, before anybody can cancel it. *)
LEMMA ArrivalRemarks ==
  ASSUME SlotsInv, RemarkInv, NEW r \in Requests, Accept(r) \/ Reject(r)
  PROVE  RemarkInv'
  <1>1. pc[r] = "new" /\ ~cancelled[r] /\ r \notin toCancel /\ answer[r] # "aborted"
    BY DEF Accept, Reject, RemarkInv, RemarkIsTrue
  <1>2. \A q \in Requests \ {r} : ip'[q] = ip[q] /\ pc'[q] = pc[q] /\ answer'[q] = answer[q]
    BY DEF Accept, Reject, Goto, SlotsInv, TypeOK
  <1>3. answer'[r] \in {answer[r], "rate limited"}
    BY DEF Accept, Reject, SlotsInv, TypeOK
  <1>4. UNCHANGED <<bound, cancelled, interrupted, timer, timedOut, toCancel, killers>>
    BY DEF Accept, Reject, token, kills
  <1> QED BY <1>1, <1>2, <1>3, <1>4 DEF RemarkInv, RemarkIsTrue

(* A run's own steps: the remark is chosen where the interrupt is caught.  *)
LEMMA RunRemarks ==
  ASSUME SlotsInv, RemarkInv, NEW r \in Requests, RunStep(r) \/ EngineFails(r) \/ RunFails(r)
  PROVE  RemarkInv'
  <1> USE DEF SlotsInv, TypeOK, RemarkInv, RemarkIsTrue, Goto, slots, token, kills
  <1>1. CASE Bind(r)
    BY <1>1 DEF Bind
  <1>2. CASE SetUp(r)
    BY <1>2 DEF SetUp
  <1>3. CASE StatementStarts(r)
    BY <1>3 DEF StatementStarts
  <1>4. CASE StatementEnds(r)
    BY <1>4 DEF StatementEnds
  <1>5. CASE StatementInterrupted(r)
    BY <1>5 DEF StatementInterrupted, Finish
  <1>6. CASE RunCompletes(r)
    BY <1>6 DEF RunCompletes, Finish
  <1>7. CASE RunFails(r)
    BY <1>7 DEF RunFails, Finish
  <1>8. CASE Close(r)
    BY <1>8 DEF Close
  <1>9. CASE Unbind(r)
    BY <1>9 DEF Unbind
  <1>10. CASE Release(r)
    BY <1>10 DEF Release
  <1>11. CASE EngineFails(r)
    BY <1>11 DEF EngineFails
  <1> QED BY <1>1, <1>2, <1>3, <1>4, <1>5, <1>6, <1>7, <1>8, <1>9, <1>10, <1>11 DEF RunStep

(* The timer and kill_my_queries: the reason before the interrupt. *)
LEMMA StopRemarks ==
  ASSUME SlotsInv, RemarkInv,
         \/ \E r \in Requests : TimerFires(r) \/ TimerInterrupts(r) \/ Cancel(r)
         \/ \E i \in Ips : KillMyQueries(i)
  PROVE  RemarkInv'
  <1> USE DEF SlotsInv, TypeOK, RemarkInv, RemarkIsTrue, slots, token, kills
  <1>1. ASSUME NEW r \in Requests, TimerFires(r) PROVE RemarkInv'
    BY <1>1 DEF TimerFires
  <1>2. ASSUME NEW r \in Requests, TimerInterrupts(r) PROVE RemarkInv'
    BY <1>2 DEF TimerInterrupts
  <1>3. ASSUME NEW r \in Requests, Cancel(r) PROVE RemarkInv'
    BY <1>3 DEF Cancel
  <1>4. ASSUME NEW i \in Ips, KillMyQueries(i) PROVE RemarkInv'
    BY <1>4 DEF KillMyQueries, Held
  <1> QED BY <1>1, <1>2, <1>3, <1>4

LEMMA NextRemarks ==
  ASSUME SlotsInv, RemarkInv, [Next]_vars
  PROVE  RemarkInv'
  <1>1. ASSUME NEW r \in Requests, RequestStep(r) PROVE RemarkInv'
    BY <1>1, ArrivalRemarks, RunRemarks, StopRemarks DEF RequestStep
  <1>2. ASSUME NEW i \in Ips, KillMyQueries(i) PROVE RemarkInv'
    BY <1>2, StopRemarks
  <1>3. CASE UNCHANGED vars
    BY <1>3 DEF vars, slots, token, kills, RemarkInv, RemarkIsTrue
  <1> QED BY <1>1, <1>2, <1>3 DEF Next

(* However kills, timers and statements interleave, a run that says it was *)
(* killed was killed by its own client and one that says it timed out did  *)
(* (the InterruptException handler of run_program).                        *)
THEOREM RemarksAreTrue == Spec => []RemarkIsTrue
  <1>1. Init => RemarkInv
    BY DEF Init, RemarkInv, RemarkIsTrue
  <1>2. SlotsInv /\ RemarkInv /\ [Next]_vars => RemarkInv'
    BY NextRemarks
  <1>3. RemarkInv => RemarkIsTrue
    BY DEF RemarkInv
  <1> QED BY <1>1, <1>2, <1>3, SlotsSafe, PTL DEF Spec
=============================================================================
