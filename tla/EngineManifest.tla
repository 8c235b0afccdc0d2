---------------------------- MODULE EngineManifest ----------------------------
(***************************************************************************)
(* How the query engine follows the dataset root: the manifest it loads    *)
(* when it is built, the check of manifest/LATEST at most once an interval *)
(* on whichever request comes first (refresh_manifest_if_due), and the     *)
(* manifest each run captures                                              *)
(* (engine/executor.py, engine/catalog.py, server.py).                     *)
(*                                                                         *)
(* A manifest is its number: manifest/<n>.json is immutable once LATEST    *)
(* names it (DatasetRoot).  Threads are the workers that serve queries,    *)
(* /healthz and /api/timestamp; the two attribute assignments of a refresh *)
(* and every read of the root are steps of their own.                      *)
(***************************************************************************)
EXTENDS Naturals

CONSTANTS
  Threads,      \* worker threads of the server process
  NoThread,     \* _manifest_refresh_lock is free
  MaxManifest   \* bound: the last number the updater publishes

ASSUME EngineAssumption ==
  /\ NoThread \notin Threads
  /\ MaxManifest \in Nat \ {0}

VARIABLES
  latest,    \* the number in manifest/LATEST
  built,     \* "no", "loading" (manifest loaded, LATEST not read yet), "yes"
  number,    \* _manifest_number, 0 for None
  manifest,  \* the manifest in use
  due,       \* the interval has passed since _last_manifest_check
  lock,      \* holder of _manifest_refresh_lock
  pc,        \* thread -> where it is
  now,       \* thread -> was a check due when it read the clock?
  text,      \* thread -> latest_text
  loaded,    \* thread -> new_manifest
  run        \* thread -> manifest captured by its run

engine == <<built, number, manifest>>
local == <<now, text, loaded, run>>
vars == <<latest, engine, due, lock, pc, local>>

Numbers == 0..MaxManifest

TypeOK ==
  /\ latest \in 1..MaxManifest
  /\ built \in {"no", "loading", "yes"}
  /\ number \in Numbers /\ manifest \in Numbers
  /\ due \in BOOLEAN
  /\ lock \in Threads \cup {NoThread}
  /\ pc \in [Threads -> {"idle", "check", "read", "load", "label", "swap", "capture", "run"}]
  /\ now \in [Threads -> BOOLEAN]
  /\ text \in [Threads -> Numbers]
  /\ loaded \in [Threads -> Numbers]
  /\ run \in [Threads -> Numbers]

Init ==
  /\ latest = 1
  /\ built = "no" /\ number = 0 /\ manifest = 0
  /\ due = FALSE
  /\ lock = NoThread
  /\ pc = [t \in Threads |-> "idle"]
  /\ now = [t \in Threads |-> FALSE]
  /\ text = [t \in Threads |-> 0]
  /\ loaded = [t \in Threads |-> 0]
  /\ run = [t \in Threads |-> 0]

-----------------------------------------------------------------------------
(* The environment. *)

(* An updater run publishes the next manifest. *)
Publish ==
  /\ latest < MaxManifest
  /\ latest' = latest + 1
  /\ UNCHANGED <<engine, due, lock, pc, local>>

(* OSMPQ_MANIFEST_REFRESH_SECONDS have passed since the last check. *)
IntervalPasses ==
  /\ built = "yes" /\ ~due
  /\ due' = TRUE
  /\ UNCHANGED <<latest, engine, lock, pc, local>>

-----------------------------------------------------------------------------
(* Engine.__init__. *)

BuildLoads ==
  /\ built = "no"
  /\ built' = "loading"
  /\ manifest' = latest
  /\ UNCHANGED <<latest, number, due, lock, pc, local>>

(* A second read of LATEST, for the label; its failure leaves None. *)
BuildLabels ==
  /\ built = "loading"
  /\ built' = "yes"
  /\ number' \in {latest, 0}
  /\ UNCHANGED <<latest, manifest, due, lock, pc, local>>

-----------------------------------------------------------------------------
(* refresh_manifest_if_due, then the run, in thread t. *)

Goto(t, place) == pc' = [pc EXCEPT ![t] = place]

(* A request comes in; the clock is read before the lock is taken. *)
Request(t) ==
  /\ built = "yes" /\ pc[t] = "idle"
  /\ now' = [now EXCEPT ![t] = due]
  /\ Goto(t, "check")
  /\ UNCHANGED <<latest, engine, due, lock, text, loaded, run>>

CheckEarly(t) ==
  /\ pc[t] = "check" /\ lock = NoThread /\ ~now[t]
  /\ Goto(t, "capture")
  /\ UNCHANGED <<latest, engine, due, lock, local>>

(* Mutant: the check is not made under the lock. *)
CheckDueUnlocked(t) ==
  /\ pc[t] = "check" /\ now[t]
  /\ lock' = t
  /\ due' = FALSE
  /\ Goto(t, "read")
  /\ UNCHANGED <<latest, engine, local>>

(* _last_manifest_check moves on, so the clock readings of the threads     *)
(* that wait for the lock are too early now.                               *)
CheckDue(t) ==
  /\ pc[t] = "check" /\ lock = NoThread /\ now[t]
  /\ lock' = t
  /\ due' = FALSE
  /\ now' = [u \in Threads |-> FALSE]
  /\ Goto(t, "read")
  /\ UNCHANGED <<latest, engine, text, loaded, run>>

(* refresh_manifest_if_due returns: the lock is free, its locals are gone. *)
Return(t) ==
  /\ lock' = NoThread
  /\ text' = [text EXCEPT ![t] = 0]
  /\ loaded' = [loaded EXCEPT ![t] = 0]
  /\ Goto(t, "capture")
  /\ UNCHANGED <<latest, built, due, now, run>>

ReadUnchanged(t) ==
  /\ pc[t] = "read" /\ latest = number
  /\ Return(t)
  /\ UNCHANGED <<number, manifest>>

ReadChanged(t) ==
  /\ pc[t] = "read" /\ latest # number
  /\ text' = [text EXCEPT ![t] = latest]
  /\ Goto(t, "load")
  /\ UNCHANGED <<latest, engine, due, lock, now, loaded, run>>

(* The root cannot be read, by the check or by load_manifest. *)
RootUnreadable(t) ==
  /\ pc[t] \in {"read", "load"}
  /\ Return(t)
  /\ UNCHANGED <<number, manifest>>

(* load_manifest reads LATEST again and takes the manifest it names now. *)
LoadManifest(t) ==
  /\ pc[t] = "load"
  /\ loaded' = [loaded EXCEPT ![t] = latest]
  /\ Goto(t, "label")
  /\ UNCHANGED <<latest, engine, due, lock, now, text, run>>

(* Mutant: the label is read again after the manifest. *)
SetNumberLate(t) ==
  /\ pc[t] = "label"
  /\ number' = latest
  /\ Goto(t, "swap")
  /\ UNCHANGED <<latest, built, manifest, due, lock, local>>

SetNumber(t) ==
  /\ pc[t] = "label"
  /\ number' = text[t]
  /\ Goto(t, "swap")
  /\ UNCHANGED <<latest, built, manifest, due, lock, local>>

SetManifest(t) ==
  /\ pc[t] = "swap"
  /\ manifest' = loaded[t]
  /\ Return(t)
  /\ UNCHANGED number

(* run_program: the manifest is captured once. *)
Capture(t) ==
  /\ pc[t] = "capture"
  /\ run' = [run EXCEPT ![t] = manifest]
  /\ Goto(t, "run")
  /\ UNCHANGED <<latest, engine, due, lock, now, text, loaded>>

(* The run is over; the number in its answer's header is the engine's by   *)
(* then, not the run's.                                                    *)
Answer(t) ==
  /\ pc[t] = "run"
  /\ Goto(t, "idle")
  /\ UNCHANGED <<latest, engine, due, lock, local>>

Refresh(t) ==
  \/ CheckEarly(t) \/ CheckDue(t)
  \/ ReadUnchanged(t) \/ ReadChanged(t) \/ RootUnreadable(t)
  \/ LoadManifest(t) \/ SetNumber(t) \/ SetManifest(t)

Next ==
  \/ Publish \/ IntervalPasses
  \/ BuildLoads \/ BuildLabels
  \/ \E t \in Threads : Request(t) \/ Refresh(t) \/ Capture(t) \/ Answer(t)

Spec == Init /\ [][Next]_vars

(* Time passes, the process starts, requests keep coming and are served.   *)
(* A thread that waits for the lock gets it in the end, and the root does  *)
(* not stay unreadable: a check or a load that is tried again and again    *)
(* succeeds.                                                               *)
Fairness ==
  /\ WF_vars(IntervalPasses)
  /\ WF_vars(BuildLoads) /\ WF_vars(BuildLabels)
  /\ \A t \in Threads :
       /\ WF_vars(Request(t))
       /\ SF_vars(CheckEarly(t) \/ CheckDue(t))
       /\ SF_vars(ReadUnchanged(t) \/ ReadChanged(t))
       /\ SF_vars(LoadManifest(t))
       /\ WF_vars(SetNumber(t) \/ SetManifest(t) \/ Capture(t) \/ Answer(t))

FairSpec == Spec /\ Fairness

-----------------------------------------------------------------------------
(* Properties. *)

(* A thread is between the check and the swap exactly when it holds the    *)
(* lock; what it has loaded is at least as new as the text it compared and *)
(* as the manifest in use, and never ahead of the root                     *)
(* (Engine.refresh_manifest_if_due).                                       *)
RefreshInv ==
  /\ TypeOK
  /\ manifest <= latest /\ number <= latest
  /\ \A t \in Threads :
       /\ pc[t] \in {"read", "load", "label", "swap"} <=> lock = t
       /\ pc[t] \in {"load", "label", "swap"} => text[t] <= latest
       /\ pc[t] \in {"label", "swap"} =>
            text[t] <= loaded[t] /\ manifest <= loaded[t] /\ loaded[t] <= latest
       /\ run[t] <= manifest
  /\ built = "no" => manifest = 0
  /\ built # "yes" => \A t \in Threads : pc[t] = "idle"

(* The engine never goes back to an older manifest, however the refreshes  *)
(* of several threads interleave: a query that starts after another was    *)
(* answered sees at least the data that one saw.                           *)
ServedNeverRegresses == [][manifest' >= manifest]_vars

(* Once LATEST differs from the number the engine last compared with, the  *)
(* engine comes to serve it or a later one, through failed reads and       *)
(* commits that land during a refresh.                                     *)
CatchesUp ==
  \A n \in 1..MaxManifest :
    (built = "yes" /\ latest = n /\ number # n) ~> manifest >= n
=============================================================================
