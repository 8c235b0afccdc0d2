-------------------------- MODULE UpdaterScheduler --------------------------
(***************************************************************************)
(* The minutely schedule: the `UpdaterScheduler` Durable Object            *)
(* (deploy/cloudflare/src/updater.ts) that owns the alarm and the          *)
(* persisted `running` flag, and the `/run` endpoint of the updater        *)
(* container it drives (src/osmpq/update/server.py).                       *)
(*                                                                         *)
(* An invocation of the object is the alarm handler or one admin `run`     *)
(* request.  Between two awaited storage operations the object accepts no  *)
(* other event, but it may be evicted; while it waits for the container    *)
(* every other event may be delivered.  The container request is separate  *)
(* from the invocation that sent it: it survives the invocation.           *)
(***************************************************************************)
EXTENDS Naturals, FiniteSets

CONSTANTS
  Admins,       \* concurrent admin `run` requests
  Slots,        \* container requests outstanding at the same time (a bound)
  ObjectEvicts, \* the platform may evict the Durable Object mid-run
  CallFails     \* containerFetch may fail while the container works on

ASSUME SchedulerAssumption ==
  /\ IsFiniteSet(Slots)
  /\ "alarm" \notin Admins
  /\ ObjectEvicts \in BOOLEAN
  /\ CallFails \in BOOLEAN

Callers == Admins \cup {"alarm"}

VARIABLES
  running,    \* SchedulerState.running, in the object's storage
  alarm,      \* storage alarm: "none", "armed" (in the future) or "due"
  call,       \* caller -> progress of its runOnce invocation
  slotOf,     \* caller -> container request it waits for
  request,    \* slot -> state of that request inside the container
  busy,       \* the container's module-level `_running`
  scheduled,  \* history: an alarm was set by an admin after the last `stop`
  lost        \* history: an alarm met a recorded run; none was set since

vars == <<running, alarm, call, slotOf, request, busy, scheduled, lost>>
objectVars == <<running, alarm, call, slotOf, scheduled, lost>>

CallState == {"idle", "marked", "waiting"}
RequestState == {"free", "sent", "working", "done", "conflict", "failed"}

TypeOK ==
  /\ running \in BOOLEAN
  /\ alarm \in {"none", "armed", "due"}
  /\ call \in [Callers -> CallState]
  /\ slotOf \in [Callers -> Slots]
  /\ request \in [Slots -> RequestState]
  /\ busy \in BOOLEAN
  /\ scheduled \in BOOLEAN
  /\ lost \in BOOLEAN

Init ==
  /\ running = FALSE
  /\ alarm = "none"
  /\ call = [c \in Callers |-> "idle"]
  /\ slotOf \in {[c \in Callers |-> s] : s \in Slots}
  /\ request = [s \in Slots |-> "free"]
  /\ busy = FALSE
  /\ scheduled = FALSE
  /\ lost = FALSE

(* Events are delivered only while no storage operation is outstanding. *)
GateOpen == \A c \in Callers : call[c] # "marked"

(* A request some live invocation still waits for. *)
Awaited(s) == \E c \in Callers : call[c] = "waiting" /\ slotOf[c] = s

(* Mutant: the stored flag is not consulted. *)
canStartRunAlways == TRUE

canStartRun == ~running

-----------------------------------------------------------------------------
(* The Durable Object. *)

(* Admin `start`: arm an alarm for now unless one is set. *)
HandleStart ==
  /\ GateOpen
  /\ alarm' = IF alarm = "none" THEN "due" ELSE alarm
  /\ scheduled' = TRUE
  /\ lost' = FALSE
  /\ UNCHANGED <<running, call, slotOf, request, busy>>

(* Admin `stop`: delete the alarm; a run in flight is left alone. *)
HandleStop ==
  /\ GateOpen
  /\ alarm' = "none"
  /\ scheduled' = FALSE
  /\ lost' = FALSE
  /\ UNCHANGED <<running, call, slotOf, request, busy>>

(* Entry of runOnce: read the stored state, return if a run is recorded as *)
(* in flight, otherwise record this one.                                   *)
BeginRun(c) ==
  IF canStartRun
  THEN /\ running' = TRUE
       /\ call' = [call EXCEPT ![c] = "marked"]
  ELSE UNCHANGED <<running, call>>

(* The platform delivers the alarm: it is consumed, alarm() runs runOnce.  *)
(* alarm() is never invoked concurrently with itself.                      *)
AlarmFires ==
  /\ GateOpen
  /\ alarm = "due"
  /\ call["alarm"] = "idle"
  /\ alarm' = "none"
  /\ BeginRun("alarm")
  /\ lost' = (lost \/ ~canStartRun)
  /\ UNCHANGED <<slotOf, request, busy, scheduled>>

(* Admin `run`. *)
HandleRunNow(c) ==
  /\ GateOpen
  /\ c \in Admins
  /\ call[c] = "idle"
  /\ BeginRun(c)
  /\ UNCHANGED <<alarm, slotOf, request, busy, scheduled, lost>>

(* Mutant: no alarm is armed when the run starts. *)
ArmAndCallLater(c, s) ==
  /\ call[c] = "marked"
  /\ request[s] = "free"
  /\ call' = [call EXCEPT ![c] = "waiting"]
  /\ slotOf' = [slotOf EXCEPT ![c] = s]
  /\ request' = [request EXCEPT ![s] = "sent"]
  /\ scheduled' = TRUE /\ lost' = FALSE
  /\ UNCHANGED <<running, alarm, busy>>

(* setAlarm(started + 60 s), then POST /run to the container. *)
ArmAndCall(c, s) ==
  /\ call[c] = "marked"
  /\ request[s] = "free"
  /\ alarm' = "armed"
  /\ call' = [call EXCEPT ![c] = "waiting"]
  /\ slotOf' = [slotOf EXCEPT ![c] = s]
  /\ request' = [request EXCEPT ![s] = "sent"]
  /\ scheduled' = TRUE /\ lost' = FALSE
  /\ UNCHANGED <<running, busy>>

(* Mutant: the end of a run arms the alarm (again). *)
EndRunArms(c) ==
  /\ GateOpen
  /\ call[c] = "waiting"
  /\ request[slotOf[c]] \in {"done", "conflict", "failed"}
  /\ running' = FALSE
  /\ alarm' = "armed"
  /\ call' = [call EXCEPT ![c] = "idle"]
  /\ request' = [request EXCEPT ![slotOf[c]] = "free"]
  /\ UNCHANGED <<slotOf, busy, scheduled, lost>>

(* Mutant: only a summary ends the wait. *)
EndRunDone(c) ==
  /\ GateOpen
  /\ call[c] = "waiting"
  /\ request[slotOf[c]] = "done"
  /\ running' = FALSE
  /\ call' = [call EXCEPT ![c] = "idle"]
  /\ request' = [request EXCEPT ![slotOf[c]] = "free"]
  /\ UNCHANGED <<alarm, slotOf, busy, scheduled, lost>>

(* The answer (a summary, a 409 or a 500) reaches the waiting invocation,  *)
(* which records the outcome and clears the stored flag.                   *)
EndRun(c) ==
  /\ GateOpen
  /\ call[c] = "waiting"
  /\ request[slotOf[c]] \in {"done", "conflict", "failed"}
  /\ running' = FALSE
  /\ call' = [call EXCEPT ![c] = "idle"]
  /\ request' = [request EXCEPT ![slotOf[c]] = "free"]
  /\ UNCHANGED <<alarm, slotOf, busy, scheduled, lost>>

(* containerFetch rejects while the request is still in the container: the *)
(* catch branch records the error and clears the stored flag.              *)
CallThrows(c) ==
  /\ CallFails
  /\ GateOpen
  /\ call[c] = "waiting"
  /\ running' = FALSE
  /\ call' = [call EXCEPT ![c] = "idle"]
  /\ UNCHANGED <<alarm, slotOf, request, busy, scheduled, lost>>

(* The platform evicts the object: invocations vanish, storage stays.  An  *)
(* alarm handler interrupted before it re-armed is delivered again.        *)
ObjectRestarts ==
  /\ ObjectEvicts
  /\ \E c \in Callers : call[c] # "idle"
  /\ alarm' = IF alarm = "none" /\ call["alarm"] = "marked" THEN "due" ELSE alarm
  /\ call' = [c \in Callers |-> "idle"]
  /\ UNCHANGED <<running, slotOf, request, busy, scheduled, lost>>

(* Sixty seconds pass. *)
AlarmFallsDue ==
  /\ alarm = "armed"
  /\ alarm' = "due"
  /\ UNCHANGED <<running, call, slotOf, request, busy, scheduled, lost>>

-----------------------------------------------------------------------------
(* The updater container. *)

(* Mutant: the endpoint starts a run without looking at the flag. *)
RunEndpointUnlocked(s) ==
  /\ request[s] = "sent"
  /\ request' = [request EXCEPT ![s] = "working"]
  /\ busy' = TRUE
  /\ UNCHANGED objectVars

(* run_endpoint, under `_lock`: 409 while a run is in progress. *)
RunEndpoint(s) ==
  /\ request[s] = "sent"
  /\ IF busy
     THEN /\ request' = [request EXCEPT ![s] = "conflict"]
          /\ UNCHANGED busy
     ELSE /\ request' = [request EXCEPT ![s] = "working"]
          /\ busy' = TRUE
  /\ UNCHANGED objectVars

(* _run_locked ends, with a summary or an exception; `finally` clears the  *)
(* flag either way.                                                        *)
RunLockedEnds(s) ==
  /\ request[s] = "working"
  /\ busy' = FALSE
  /\ \E outcome \in {"done", "failed"} : request' = [request EXCEPT ![s] = outcome]
  /\ UNCHANGED objectVars

(* The answer to a request nobody waits for any more is dropped. *)
AnswerDropped(s) ==
  /\ request[s] \in {"done", "conflict", "failed"}
  /\ ~Awaited(s)
  /\ request' = [request EXCEPT ![s] = "free"]
  /\ UNCHANGED <<objectVars, busy>>

(* The container is recycled: its process, flag and runs are gone; waiting *)
(* invocations see the connection fail.                                    *)
ContainerRestarts ==
  /\ CallFails
  /\ \E s \in Slots : request[s] \in {"sent", "working"}
  /\ busy' = FALSE
  /\ request' = [s \in Slots |->
                   CASE request[s] = "free" -> "free"
                     [] Awaited(s) -> "failed"
                     [] OTHER -> "free"]
  /\ UNCHANGED objectVars

-----------------------------------------------------------------------------
Container ==
  \/ ContainerRestarts
  \/ \E s \in Slots : RunEndpoint(s) \/ RunLockedEnds(s) \/ AnswerDropped(s)

Next ==
  \/ HandleStart
  \/ HandleStop
  \/ AlarmFires
  \/ AlarmFallsDue
  \/ ObjectRestarts
  \/ \E c \in Admins : HandleRunNow(c)
  \/ \E c \in Callers : EndRun(c) \/ CallThrows(c)
  \/ \E c \in Callers, s \in Slots : ArmAndCall(c, s)
  \/ Container

(* Time passes, the platform delivers due alarms, awaited calls return and *)
(* the container answers; nobody has to start, stop or evict anything.     *)
Fairness ==
  /\ WF_vars(AlarmFallsDue)
  /\ WF_vars(AlarmFires)
  /\ \A c \in Callers : WF_vars(EndRun(c)) /\ WF_vars(\E s \in Slots : ArmAndCall(c, s))
  /\ \A s \in Slots : WF_vars(RunEndpoint(s)) /\ WF_vars(RunLockedEnds(s)) /\ WF_vars(AnswerDropped(s))

Spec == Init /\ [][Next]_vars
FairSpec == Spec /\ Fairness

-----------------------------------------------------------------------------
(* Properties. *)

Working == {s \in Slots : request[s] = "working"}
Active == {c \in Callers : call[c] # "idle"}

(* Two run_once calls never overlap in the container, even when the object *)
(* has given up on the first one and sends a second `/run`: the 409 of     *)
(* run_endpoint is the second line of defence.                             *)
RunsNeverOverlap == \A s, t \in Working : s = t

(* `_running` is set exactly while some run_once is executing: it is       *)
(* released on every way out of _run_locked, so no 409 is answered for a   *)
(* run that is over.                                                       *)
LockMatchesRun == busy <=> (Working # {})

(* `running` never races with itself: at most one invocation is past the   *)
(* entry check of runOnce, and the stored flag is set for as long as it    *)
(* is, although events are delivered while it waits for the container.     *)
OneInvocation ==
  /\ \A c, d \in Active : c = d
  /\ Active # {} => running

(* Once the operator has stopped the scheduler, no run in flight at that   *)
(* moment, nor its end, brings the alarm back.                             *)
StopSticks == ~scheduled => alarm = "none"

(* A scheduler that was started and not stopped has an alarm to come, or   *)
(* the alarm's handler is about to set one.  The only way to lose the      *)
(* schedule is an alarm that comes while a run is recorded as in flight    *)
(* and is used up by the early return of runOnce: beside an admin's run    *)
(* that takes over a minute, or ever after an eviction during a run.       *)
AlarmSurvives == scheduled /\ ~lost /\ alarm = "none" => call["alarm"] = "marked"

(* A started scheduler keeps starting runs until it is stopped or has lost *)
(* its alarm so, whatever calls fail and whatever the container does.      *)
KeepsRunning == []<>(~scheduled \/ lost \/ ~GateOpen)

(* The inductive invariant behind the safety properties: what the object   *)
(* and the container know of each other's state.                           *)
SchedulerInv ==
  /\ TypeOK
  /\ OneInvocation
  /\ RunsNeverOverlap
  /\ LockMatchesRun
  /\ StopSticks
  /\ AlarmSurvives
  /\ (call["alarm"] = "marked" => scheduled)
=============================================================================
