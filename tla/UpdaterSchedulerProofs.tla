----------------------- MODULE UpdaterSchedulerProofs -----------------------
(***************************************************************************)
(* SchedulerInv is an inductive invariant of UpdaterScheduler, for any     *)
(* number of admin requests and container requests, with or without        *)
(* evictions and failing calls.  It falls into two halves that do not      *)
(* disturb each other: what the Durable Object keeps and what the          *)
(* container keeps.                                                        *)
(***************************************************************************)
EXTENDS UpdaterScheduler, TLAPS

(* The Durable Object's half of SchedulerInv: the stored flag covers the   *)
(* only invocation past the entry check of runOnce, there is an alarm only *)
(* while the schedule is wanted, and then it is lost in one way only.      *)
ObjectInv ==
  /\ OneInvocation
  /\ StopSticks
  /\ AlarmSurvives
  /\ (call["alarm"] = "marked" => scheduled)

(* The container's half: `_running` and the runs in progress. *)
ContainerInv == RunsNeverOverlap /\ LockMatchesRun

(* A Durable Object that has never run and a container that has just       *)
(* started satisfy the invariant (EMPTY_STATE of updater.ts).              *)
LEMMA SchedulerInit == Init => SchedulerInv
BY DEF Init, Callers, SchedulerInv, TypeOK, CallState, RequestState, OneInvocation,
       RunsNeverOverlap, LockMatchesRun, StopSticks, AlarmSurvives, Active, Working, GateOpen

(* Every step keeps every variable in its type. *)
LEMMA TypeStep == ASSUME TypeOK, [Next]_vars PROVE TypeOK'
<1> USE DEF TypeOK, CallState, RequestState, Callers
<1>1. CASE HandleStart
  BY <1>1 DEF HandleStart
<1>2. CASE HandleStop
  BY <1>2 DEF HandleStop
<1>3. CASE AlarmFires
  BY <1>3 DEF AlarmFires, BeginRun, canStartRun
<1>4. CASE AlarmFallsDue
  BY <1>4 DEF AlarmFallsDue
<1>5. CASE ObjectRestarts
  BY <1>5 DEF ObjectRestarts
<1>6. ASSUME NEW c \in Admins, HandleRunNow(c) PROVE TypeOK'
  BY <1>6 DEF HandleRunNow, BeginRun, canStartRun
<1>7. ASSUME NEW c \in Callers, EndRun(c) PROVE TypeOK'
  BY <1>7 DEF EndRun
<1>8. ASSUME NEW c \in Callers, CallThrows(c) PROVE TypeOK'
  BY <1>8 DEF CallThrows
<1>9. ASSUME NEW c \in Callers, NEW s \in Slots, ArmAndCall(c, s) PROVE TypeOK'
  BY <1>9 DEF ArmAndCall
<1>10. ASSUME NEW s \in Slots, RunEndpoint(s) PROVE TypeOK'
  BY <1>10 DEF RunEndpoint, objectVars
<1>11. ASSUME NEW s \in Slots, RunLockedEnds(s) PROVE TypeOK'
  <2>1. PICK outcome \in {"done", "failed"} : request' = [request EXCEPT ![s] = outcome]
    BY <1>11 DEF RunLockedEnds
  <2> QED BY <1>11, <2>1 DEF RunLockedEnds, objectVars
<1>12. ASSUME NEW s \in Slots, AnswerDropped(s) PROVE TypeOK'
  BY <1>12 DEF AnswerDropped, objectVars
<1>13. CASE ContainerRestarts
  BY <1>13 DEF ContainerRestarts, objectVars
<1>14. CASE UNCHANGED vars
  BY <1>14 DEF vars
<1> QED BY <1>1, <1>2, <1>3, <1>4, <1>5, <1>6, <1>7, <1>8, <1>9, <1>10, <1>11, <1>12, <1>13, <1>14 DEF Next, Container

(* Every step preserves the Durable Object's half; the container's steps   *)
(* leave its variables alone.                                              *)
LEMMA ObjectStep == ASSUME TypeOK, ObjectInv, [Next]_vars PROVE ObjectInv'
<1> USE DEF TypeOK, CallState, Callers, ObjectInv, OneInvocation, StopSticks, AlarmSurvives, Active, GateOpen
<1>1. CASE HandleStart
  BY <1>1 DEF HandleStart
<1>2. CASE HandleStop
  BY <1>2 DEF HandleStop
<1>3. CASE AlarmFires
  BY <1>3 DEF AlarmFires, BeginRun, canStartRun
<1>4. CASE AlarmFallsDue
  BY <1>4 DEF AlarmFallsDue
<1>5. CASE ObjectRestarts
  BY <1>5 DEF ObjectRestarts
<1>6. ASSUME NEW c \in Admins, HandleRunNow(c) PROVE ObjectInv'
  <2>1. CASE running
    <3>1. UNCHANGED <<running, call, alarm, scheduled, lost>>
      BY <1>6, <2>1 DEF HandleRunNow, BeginRun, canStartRun
    <3> QED BY <3>1
  <2>2. CASE ~running
    <3>1. running' /\ call' = [call EXCEPT ![c] = "marked"] /\ UNCHANGED <<alarm, scheduled, lost>>
      BY <1>6, <2>2 DEF HandleRunNow, BeginRun, canStartRun
    <3> QED BY <2>2, <3>1, SchedulerAssumption
  <2> QED BY <2>1, <2>2
<1>7. ASSUME NEW c \in Callers, EndRun(c) PROVE ObjectInv'
  BY <1>7 DEF EndRun
<1>8. ASSUME NEW c \in Callers, CallThrows(c) PROVE ObjectInv'
  BY <1>8 DEF CallThrows
<1>9. ASSUME NEW c \in Callers, NEW s \in Slots, ArmAndCall(c, s) PROVE ObjectInv'
  BY <1>9 DEF ArmAndCall
<1>10. ASSUME NEW s \in Slots, RunEndpoint(s) PROVE ObjectInv'
  BY <1>10 DEF RunEndpoint, objectVars
<1>11. ASSUME NEW s \in Slots, RunLockedEnds(s) PROVE ObjectInv'
  BY <1>11 DEF RunLockedEnds, objectVars
<1>12. ASSUME NEW s \in Slots, AnswerDropped(s) PROVE ObjectInv'
  BY <1>12 DEF AnswerDropped, objectVars
<1>13. CASE ContainerRestarts
  BY <1>13 DEF ContainerRestarts, objectVars
<1>14. CASE UNCHANGED vars
  BY <1>14 DEF vars
<1> QED BY <1>1, <1>2, <1>3, <1>4, <1>5, <1>6, <1>7, <1>8, <1>9, <1>10, <1>11, <1>12, <1>13, <1>14 DEF Next, Container

(* Every step preserves the container's half; the object's steps only put  *)
(* requests in and take answers out.                                       *)
LEMMA ContainerStep == ASSUME TypeOK, ContainerInv, [Next]_vars PROVE ContainerInv'
<1> USE DEF TypeOK, RequestState, ContainerInv, RunsNeverOverlap, LockMatchesRun, Working
<1>1. CASE HandleStart
  BY <1>1 DEF HandleStart
<1>2. CASE HandleStop
  BY <1>2 DEF HandleStop
<1>3. CASE AlarmFires
  BY <1>3 DEF AlarmFires, BeginRun, canStartRun
<1>4. CASE AlarmFallsDue
  BY <1>4 DEF AlarmFallsDue
<1>5. CASE ObjectRestarts
  BY <1>5 DEF ObjectRestarts
<1>6. ASSUME NEW c \in Admins, HandleRunNow(c) PROVE ContainerInv'
  BY <1>6 DEF HandleRunNow, BeginRun, canStartRun
<1>7. ASSUME NEW c \in Callers, EndRun(c) PROVE ContainerInv'
  BY <1>7 DEF EndRun
<1>8. ASSUME NEW c \in Callers, CallThrows(c) PROVE ContainerInv'
  BY <1>8 DEF CallThrows
<1>9. ASSUME NEW c \in Callers, NEW s \in Slots, ArmAndCall(c, s) PROVE ContainerInv'
  BY <1>9 DEF ArmAndCall
<1>10. ASSUME NEW s \in Slots, RunEndpoint(s) PROVE ContainerInv'
  BY <1>10 DEF RunEndpoint, objectVars
<1>11. ASSUME NEW s \in Slots, RunLockedEnds(s) PROVE ContainerInv'
  BY <1>11 DEF RunLockedEnds, objectVars
<1>12. ASSUME NEW s \in Slots, AnswerDropped(s) PROVE ContainerInv'
  BY <1>12 DEF AnswerDropped, objectVars
<1>13. CASE ContainerRestarts
  BY <1>13 DEF ContainerRestarts, objectVars
<1>14. CASE UNCHANGED vars
  BY <1>14 DEF vars
<1> QED BY <1>1, <1>2, <1>3, <1>4, <1>5, <1>6, <1>7, <1>8, <1>9, <1>10, <1>11, <1>12, <1>13, <1>14 DEF Next, Container

(* SchedulerInv holds in every reachable state of the scheduler and the    *)
(* container's /run endpoint.                                              *)
THEOREM SchedulerSafe == Spec => []SchedulerInv
<1>1. SchedulerInv /\ [Next]_vars => SchedulerInv'
  BY TypeStep, ObjectStep, ContainerStep DEF SchedulerInv, ObjectInv, ContainerInv
<1> QED BY SchedulerInit, <1>1, PTL DEF Spec

(* Runs never overlap in the container, whatever the object has given up   *)
(* on.                                                                     *)
THEOREM SchedulerRuns == Spec => []RunsNeverOverlap
BY SchedulerSafe, PTL DEF SchedulerInv

(* The variables keep their types. *)
THEOREM SchedulerTypes == Spec => []TypeOK
BY SchedulerSafe, PTL DEF SchedulerInv

(* `_running` of the container tells the truth. *)
THEOREM SchedulerLock == Spec => []LockMatchesRun
BY SchedulerSafe, PTL DEF SchedulerInv

(* One invocation at a time is past the entry check of runOnce. *)
THEOREM SchedulerEntry == Spec => []OneInvocation
BY SchedulerSafe, PTL DEF SchedulerInv

(* Stopping the scheduler is final. *)
THEOREM SchedulerStop == Spec => []StopSticks
BY SchedulerSafe, PTL DEF SchedulerInv

(* The schedule is lost in one way only. *)
THEOREM SchedulerAlarm == Spec => []AlarmSurvives
BY SchedulerSafe, PTL DEF SchedulerInv

(* Without admin requests and evictions: a recorded run is the alarm       *)
(* handler's own, so the alarm never meets one.                            *)
OwnRun == ~lost /\ (running => call["alarm"] # "idle")

(* A schedule driven by alarms alone never loses its alarm, although calls *)
(* fail and the container restarts.                                        *)
THEOREM AlarmsAreNeverLost ==
  ASSUME Admins = {}, ~ObjectEvicts
  PROVE  Spec => []~lost
<1> USE DEF Callers
<1>1. Init => OwnRun
  BY DEF Init, OwnRun
<1>2. ASSUME SchedulerInv, OwnRun, [Next]_vars PROVE OwnRun'
  <2> USE DEF SchedulerInv, TypeOK, OwnRun
  <2>1. CASE HandleStart
    BY <1>2, <2>1 DEF HandleStart
  <2>2. CASE HandleStop
    BY <1>2, <2>2 DEF HandleStop
  <2>3. CASE AlarmFires
    BY <1>2, <2>3 DEF AlarmFires, BeginRun, canStartRun
  <2>4. CASE AlarmFallsDue
    BY <1>2, <2>4 DEF AlarmFallsDue
  <2>5. ASSUME NEW c \in Callers, EndRun(c) PROVE OwnRun'
    BY <1>2, <2>5 DEF EndRun
  <2>6. ASSUME NEW c \in Callers, CallThrows(c) PROVE OwnRun'
    BY <1>2, <2>6 DEF CallThrows
  <2>7. ASSUME NEW c \in Callers, NEW s \in Slots, ArmAndCall(c, s) PROVE OwnRun'
    BY <1>2, <2>7 DEF ArmAndCall
  <2>8. CASE Container
    BY <1>2, <2>8 DEF Container, ContainerRestarts, RunEndpoint, RunLockedEnds, AnswerDropped, objectVars
  <2>9. CASE UNCHANGED vars
    BY <1>2, <2>9 DEF vars
  <2> QED BY <1>2, <2>1, <2>2, <2>3, <2>4, <2>5, <2>6, <2>7, <2>8, <2>9 DEF Next, ObjectRestarts
<1>3. OwnRun => ~lost
  BY DEF OwnRun
<1> QED BY SchedulerSafe, <1>1, <1>2, <1>3, PTL DEF Spec
=============================================================================
