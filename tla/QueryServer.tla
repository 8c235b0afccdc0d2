----------------------------- MODULE QueryServer -----------------------------
(***************************************************************************)
(* One server process of the query API (server.py) and the life of a run   *)
(* in it (Engine.run_program in engine/executor.py): the slots per client  *)
(* and per process, the cancel token that kill_my_queries reaches from     *)
(* another thread, the timer of the timeout, and the cursor both of them   *)
(* interrupt.                                                              *)
(*                                                                         *)
(* A run is a sequence of DuckDB statements.  DuckDB is external:          *)
(* interrupt() sets a flag on the cursor, a statement clears it when it    *)
(* starts and may end with InterruptException while it is set.             *)
(***************************************************************************)
EXTENDS Naturals, FiniteSets

CONSTANTS
  Requests,       \* requests to /api/interpreter whose query parses
  Ips,            \* client addresses
  NoIp,           \* a request that has not arrived
  SlotsPerIp,     \* OSMPQ_SLOTS_PER_IP
  MaxConcurrent   \* OSMPQ_MAX_CONCURRENT

ASSUME ServerAssumption ==
  /\ IsFiniteSet(Requests)
  /\ NoIp \notin Ips
  /\ SlotsPerIp \in Nat /\ MaxConcurrent \in Nat

VARIABLES
  ip,           \* request -> client address
  running,      \* _running: the requests that hold a slot
  ipCounts,     \* _ip_counts: address -> slots held, 0 for no entry
  pc,           \* request -> where its run is
  bound,        \* request -> the token holds the run's cursor
  cancelled,    \* request -> CancelToken._cancelled
  interrupted,  \* request -> DuckDB's flag on the run's cursor
  timer,        \* request -> the timer: "off", "armed", "fired"
  timedOut,     \* request -> timed_out_flag
  answer,       \* request -> what the client gets
  toCancel,     \* requests that a kill handler listed and has yet to cancel
  killers       \* addresses that called kill_my_queries

slots == <<running, ipCounts>>
token == <<bound, cancelled>>
kills == <<toCancel, killers>>
vars == <<ip, slots, pc, token, interrupted, timer, timedOut, answer, kills>>

TypeOK ==
  /\ ip \in [Requests -> Ips \cup {NoIp}]
  /\ running \subseteq Requests
  /\ ipCounts \in [Ips -> Nat]
  /\ pc \in [Requests -> {"new", "accepted", "bound", "between", "statement",
                          "finished", "closed", "returned", "done"}]
  /\ bound \in [Requests -> BOOLEAN]
  /\ cancelled \in [Requests -> BOOLEAN]
  /\ interrupted \in [Requests -> BOOLEAN]
  /\ timer \in [Requests -> {"off", "armed", "fired"}]
  /\ timedOut \in [Requests -> BOOLEAN]
  /\ answer \in [Requests -> {"none", "complete", "timed out", "aborted", "error", "rate limited"}]
  /\ toCancel \subseteq Requests
  /\ killers \subseteq Ips

Init ==
  /\ ip = [r \in Requests |-> NoIp]
  /\ running = {}
  /\ ipCounts = [i \in Ips |-> 0]
  /\ pc = [r \in Requests |-> "new"]
  /\ bound = [r \in Requests |-> FALSE]
  /\ cancelled = [r \in Requests |-> FALSE]
  /\ interrupted = [r \in Requests |-> FALSE]
  /\ timer = [r \in Requests |-> "off"]
  /\ timedOut = [r \in Requests |-> FALSE]
  /\ answer = [r \in Requests |-> "none"]
  /\ toCancel = {}
  /\ killers = {}

Goto(r, place) == pc' = [pc EXCEPT ![r] = place]
Held(i) == {r \in running : ip[r] = i}

-----------------------------------------------------------------------------
(* Slots. *)

(* Mutant: the limit per address is checked with >. *)
HasSlotOneMore(i) == Cardinality(running) < MaxConcurrent /\ ipCounts[i] <= SlotsPerIp

(* _try_acquire's two checks, under _slots_lock. *)
HasSlot(i) == Cardinality(running) < MaxConcurrent /\ ipCounts[i] < SlotsPerIp

Accept(r) ==
  /\ pc[r] = "new"
  /\ \E i \in Ips :
       /\ HasSlot(i)
       /\ ip' = [ip EXCEPT ![r] = i]
       /\ ipCounts' = [ipCounts EXCEPT ![i] = @ + 1]
  /\ running' = running \cup {r}
  /\ Goto(r, "accepted")
  /\ UNCHANGED <<token, interrupted, timer, timedOut, answer, kills>>

(* HTTP 429. *)
Reject(r) ==
  /\ pc[r] = "new"
  /\ \E i \in Ips : ~HasSlot(i) /\ ip' = [ip EXCEPT ![r] = i]
  /\ answer' = [answer EXCEPT ![r] = "rate limited"]
  /\ Goto(r, "done")
  /\ UNCHANGED <<slots, token, interrupted, timer, timedOut, kills>>

(* Mutant: the address keeps its count. *)
ReleaseKeepsCount(r) ==
  /\ pc[r] = "returned"
  /\ running' = running \ {r}
  /\ Goto(r, "done")
  /\ UNCHANGED <<ip, ipCounts, token, interrupted, timer, timedOut, answer, kills>>

(* _release, in the handler's finally; the answer goes out. *)
Release(r) ==
  /\ pc[r] = "returned"
  /\ running' = running \ {r}
  /\ ipCounts' = [ipCounts EXCEPT ![ip[r]] = @ - 1]
  /\ Goto(r, "done")
  /\ UNCHANGED <<ip, token, interrupted, timer, timedOut, answer, kills>>

-----------------------------------------------------------------------------
(* Engine.run_program, in a worker thread. *)

(* get_engine or the cursor fails: nothing is bound yet. *)
EngineFails(r) ==
  /\ pc[r] = "accepted"
  /\ answer' = [answer EXCEPT ![r] = "error"]
  /\ Goto(r, "returned")
  /\ UNCHANGED <<ip, slots, token, interrupted, timer, timedOut, kills>>

(* CancelToken._bind: a cancellation that came first is applied now. *)
Bind(r) ==
  /\ pc[r] = "accepted"
  /\ bound' = [bound EXCEPT ![r] = TRUE]
  /\ interrupted' = [interrupted EXCEPT ![r] = cancelled[r]]
  /\ Goto(r, "bound")
  /\ UNCHANGED <<ip, slots, cancelled, timer, timedOut, answer, kills>>

(* _setup_connection is a statement on the cursor; then the timer starts. *)
SetUp(r) ==
  /\ pc[r] = "bound"
  /\ interrupted' = [interrupted EXCEPT ![r] = FALSE]
  /\ timer' = [timer EXCEPT ![r] = "armed"]
  /\ Goto(r, "between")
  /\ UNCHANGED <<ip, slots, token, timedOut, answer, kills>>

(* The planner issues the next statement. *)
StatementStarts(r) ==
  /\ pc[r] = "between"
  /\ interrupted' = [interrupted EXCEPT ![r] = FALSE]
  /\ Goto(r, "statement")
  /\ UNCHANGED <<ip, slots, token, timer, timedOut, answer, kills>>

StatementEnds(r) ==
  /\ pc[r] = "statement"
  /\ Goto(r, "between")
  /\ UNCHANGED <<ip, slots, token, interrupted, timer, timedOut, answer, kills>>

(* The run is over: timer.cancel(), which does not call back a timer that  *)
(* has fired.                                                              *)
Finish(r, result) ==
  /\ answer' = [answer EXCEPT ![r] = result]
  /\ timer' = [timer EXCEPT ![r] = IF @ = "armed" THEN "off" ELSE @]
  /\ Goto(r, "finished")
  /\ UNCHANGED <<ip, slots, token, interrupted, timedOut, kills>>

(* The last statement has ended. *)
RunCompletes(r) == pc[r] = "between" /\ Finish(r, "complete")

(* InterruptException: the remark tells the timer from a kill. *)
StatementInterrupted(r) ==
  /\ pc[r] = "statement" /\ interrupted[r]
  /\ Finish(r, IF timedOut[r] THEN "timed out" ELSE "aborted")

(* UnsupportedError, RuntimeQueryError or another exception, in            *)
(* _setup_connection too.                                                  *)
RunFails(r) == pc[r] \in {"bound", "between", "statement"} /\ Finish(r, "error")

(* con.close(): the flag goes with the cursor. *)
Close(r) ==
  /\ pc[r] = "finished"
  /\ interrupted' = [interrupted EXCEPT ![r] = FALSE]
  /\ Goto(r, "closed")
  /\ UNCHANGED <<ip, slots, token, timer, timedOut, answer, kills>>

Unbind(r) ==
  /\ pc[r] = "closed"
  /\ bound' = [bound EXCEPT ![r] = FALSE]
  /\ Goto(r, "returned")
  /\ UNCHANGED <<ip, slots, cancelled, interrupted, timer, timedOut, answer, kills>>

-----------------------------------------------------------------------------
(* The timer's thread: the flag first, then the interrupt, which a closed  *)
(* cursor answers with an exception that is dropped.                       *)

HasCursor(r) == pc[r] \in {"bound", "between", "statement", "finished"}

TimerFires(r) ==
  /\ timer[r] = "armed"
  /\ timer' = [timer EXCEPT ![r] = "fired"]
  /\ timedOut' = [timedOut EXCEPT ![r] = TRUE]
  /\ UNCHANGED <<ip, slots, pc, token, interrupted, answer, kills>>

TimerInterrupts(r) ==
  /\ timer[r] = "fired"
  /\ timer' = [timer EXCEPT ![r] = "off"]
  /\ interrupted' = [interrupted EXCEPT ![r] = @ \/ HasCursor(r)]
  /\ UNCHANGED <<ip, slots, pc, token, timedOut, answer, kills>>

-----------------------------------------------------------------------------
(* kill_my_queries, in a thread of its own. *)

(* Mutant: the queries are not filtered by address. *)
KillEveryone(i) ==
  /\ toCancel' = toCancel \cup running
  /\ killers' = killers \cup {i}
  /\ UNCHANGED <<ip, slots, pc, token, interrupted, timer, timedOut, answer>>

(* _running_for_ip, under _slots_lock; the tokens are cancelled after it.  *)
KillMyQueries(i) ==
  /\ toCancel' = toCancel \cup Held(i)
  /\ killers' = killers \cup {i}
  /\ UNCHANGED <<ip, slots, pc, token, interrupted, timer, timedOut, answer>>

(* CancelToken.cancel *)
Cancel(r) ==
  /\ r \in toCancel
  /\ toCancel' = toCancel \ {r}
  /\ cancelled' = [cancelled EXCEPT ![r] = TRUE]
  /\ interrupted' = [interrupted EXCEPT ![r] = @ \/ (bound[r] /\ HasCursor(r))]
  /\ UNCHANGED <<ip, slots, pc, bound, timer, timedOut, answer, killers>>

-----------------------------------------------------------------------------
RunStep(r) ==
  \/ Bind(r) \/ SetUp(r)
  \/ StatementStarts(r) \/ StatementEnds(r) \/ StatementInterrupted(r)
  \/ RunCompletes(r) \/ Close(r) \/ Unbind(r) \/ Release(r)

RequestStep(r) ==
  \/ Accept(r) \/ Reject(r)
  \/ EngineFails(r) \/ RunFails(r)
  \/ RunStep(r)
  \/ TimerFires(r) \/ TimerInterrupts(r)
  \/ Cancel(r)

Next == (\E r \in Requests : RequestStep(r)) \/ (\E i \in Ips : KillMyQueries(i))

Spec == Init /\ [][Next]_vars

-----------------------------------------------------------------------------
(* Properties. *)

(* The counts per address are the slots really held, and neither limit is  *)
(* ever exceeded (_try_acquire, _release).                                 *)
SlotsInv ==
  /\ TypeOK
  /\ \A r \in Requests : r \in running <=> pc[r] \notin {"new", "done"}
  /\ \A r \in running : ip[r] \in Ips
  /\ \A i \in Ips : ipCounts[i] = Cardinality(Held(i)) /\ ipCounts[i] <= SlotsPerIp
  /\ Cardinality(running) <= MaxConcurrent

(* The requests a step turns away find their client's slots, or the        *)
(* process's, taken.                                                       *)
TurnedAwayWhenFull ==
  \A r \in Requests :
    answer[r] = "none" /\ answer'[r] = "rate limited" =>
      Cardinality(Held(ip'[r])) >= SlotsPerIp \/ Cardinality(running) >= MaxConcurrent

(* A client is turned away only while its own queries, or the process's,   *)
(* fill their slots: no failed, killed or timed-out run locks it out       *)
(* (_try_acquire, the finally of _handle_interpreter).                     *)
NeverLocksOut == [][TurnedAwayWhenFull]_vars

(* A run says it was killed only if its own client asked for that, and     *)
(* that it timed out only if its timer fired (the InterruptException       *)
(* handler of run_program).                                                *)
RemarkIsTrue ==
  \A r \in Requests :
    /\ answer[r] = "aborted" => cancelled[r] /\ ip[r] \in killers
    /\ answer[r] = "timed out" => timedOut[r]

(* The inductive invariant behind RemarkIsTrue: whatever can interrupt a   *)
(* cursor has left its reason first, and the reason is about the request   *)
(* itself, which keeps its address from then on (TimerFires sets the flag  *)
(* before the interrupt, CancelToken.cancel before the cursor's).          *)
RemarkInv ==
  /\ RemarkIsTrue
  /\ \A r \in Requests :
       /\ interrupted[r] => cancelled[r] \/ timedOut[r]
       /\ timer[r] = "fired" => timedOut[r]
       /\ cancelled[r] \/ r \in toCancel => ip[r] \in killers /\ pc[r] # "new"
=============================================================================
