-------------------------- MODULE EngineManifestProofs --------------------------
(***************************************************************************)
(* Proofs about EngineManifest, for any number of threads and manifests.   *)
(* RefreshInv is inductive; that the engine never goes back follows from   *)
(* what it says of the thread that is about to swap the manifest.          *)
(***************************************************************************)
EXTENDS EngineManifest, TLAPS

LEMMA InitRefresh == Init => RefreshInv
  <1> SUFFICES ASSUME Init PROVE RefreshInv
    OBVIOUS
  <1>1. TypeOK
    <2>1. 1 \in 1..MaxManifest /\ 0 \in Numbers
      BY EngineAssumption DEF Numbers
    <2> QED BY <2>1 DEF Init, TypeOK
  <1>2. manifest <= latest /\ number <= latest
    BY DEF Init
  <1>3. ASSUME NEW t \in Threads
        PROVE  pc[t] = "idle" /\ lock # t /\ run[t] <= manifest
    BY <1>3, EngineAssumption DEF Init
  <1> QED BY <1>1, <1>2, <1>3 DEF RefreshInv, Init

(* Steps of the environment and of Engine.__init__. *)
LEMMA EnvironmentRefresh ==
  ASSUME RefreshInv, Publish \/ IntervalPasses \/ BuildLoads \/ BuildLabels
  PROVE  RefreshInv'
  <1>1. CASE Publish
    BY <1>1, EngineAssumption DEF Publish, RefreshInv, TypeOK, Numbers, engine, local
  <1>2. CASE IntervalPasses
    BY <1>2 DEF IntervalPasses, RefreshInv, TypeOK, Numbers, engine, local
  <1>3. CASE BuildLoads
    <2>1. TypeOK'
      BY <1>3, EngineAssumption DEF BuildLoads, RefreshInv, TypeOK, Numbers, local
    <2>2. ASSUME NEW t \in Threads
          PROVE  pc'[t] = "idle" /\ lock' # t /\ run'[t] <= manifest'
      BY <1>3, <2>2 DEF BuildLoads, RefreshInv, TypeOK, Numbers, local
    <2> QED BY <1>3, <2>1, <2>2 DEF BuildLoads, RefreshInv, TypeOK, Numbers, local
  <1>4. CASE BuildLabels
    BY <1>4, EngineAssumption DEF BuildLabels, RefreshInv, TypeOK, Numbers, local
  <1> QED BY <1>1, <1>2, <1>3, <1>4

(* Steps of thread t before it holds the lock and after it gave it up. *)
LEMMA UnlockedRefresh ==
  ASSUME RefreshInv, NEW t \in Threads,
         Request(t) \/ CheckEarly(t) \/ CheckDue(t) \/ Capture(t) \/ Answer(t)
  PROVE  RefreshInv'
  <1>1. CASE Request(t)
    BY <1>1, EngineAssumption DEF Request, Goto, RefreshInv, TypeOK, Numbers, engine
  <1>2. CASE CheckEarly(t)
    BY <1>2, EngineAssumption DEF CheckEarly, Goto, RefreshInv, TypeOK, Numbers, engine, local
  <1>3. CASE CheckDue(t)
    BY <1>3, EngineAssumption DEF CheckDue, Goto, RefreshInv, TypeOK, Numbers, engine
  <1>4. CASE Capture(t)
    BY <1>4, EngineAssumption DEF Capture, Goto, RefreshInv, TypeOK, Numbers, engine
  <1>5. CASE Answer(t)
    BY <1>5, EngineAssumption DEF Answer, Goto, RefreshInv, TypeOK, Numbers, engine, local
  <1> QED BY <1>1, <1>2, <1>3, <1>4, <1>5

(* Steps of thread t under the lock. *)
LEMMA LockedRefresh ==
  ASSUME RefreshInv, NEW t \in Threads,
         \/ ReadUnchanged(t) \/ ReadChanged(t) \/ RootUnreadable(t)
         \/ LoadManifest(t) \/ SetNumber(t) \/ SetManifest(t)
  PROVE  RefreshInv'
  <1>1. CASE ReadUnchanged(t)
    BY <1>1, EngineAssumption DEF ReadUnchanged, Return, Goto, RefreshInv, TypeOK, Numbers
  <1>2. CASE ReadChanged(t)
    BY <1>2, EngineAssumption DEF ReadChanged, Goto, RefreshInv, TypeOK, Numbers, engine
  <1>3. CASE RootUnreadable(t)
    BY <1>3, EngineAssumption DEF RootUnreadable, Return, Goto, RefreshInv, TypeOK, Numbers
  <1>4. CASE LoadManifest(t)
    BY <1>4, EngineAssumption DEF LoadManifest, Goto, RefreshInv, TypeOK, Numbers, engine
  <1>5. CASE SetNumber(t)
    BY <1>5, EngineAssumption DEF SetNumber, Goto, RefreshInv, TypeOK, Numbers, local
  <1>6. CASE SetManifest(t)
    <2>1. TypeOK'
      BY <1>6, EngineAssumption DEF SetManifest, Return, Goto, RefreshInv, TypeOK, Numbers
    <2>2. manifest' <= latest' /\ number' <= latest'
      BY <1>6 DEF SetManifest, Return, RefreshInv
    <2>3. ASSUME NEW u \in Threads
          PROVE  pc'[u] \notin {"read", "load", "label", "swap"} /\ lock' # u
      BY <1>6, <2>3, EngineAssumption DEF SetManifest, Return, Goto, RefreshInv, TypeOK
    <2>4. ASSUME NEW u \in Threads
          PROVE  run'[u] <= manifest'
      BY <1>6, <2>4 DEF SetManifest, Return, RefreshInv, TypeOK, Numbers
    <2>5. built' = "yes"
      BY <1>6 DEF SetManifest, Return, RefreshInv, TypeOK
    <2> QED BY <2>1, <2>2, <2>3, <2>4, <2>5 DEF RefreshInv
  <1> QED BY <1>1, <1>2, <1>3, <1>4, <1>5, <1>6

LEMMA NextRefresh ==
  ASSUME RefreshInv, [Next]_vars
  PROVE  RefreshInv'
  <1>1. CASE Publish \/ IntervalPasses \/ BuildLoads \/ BuildLabels
    BY <1>1, EnvironmentRefresh
  <1>2. ASSUME NEW t \in Threads, Request(t) \/ Refresh(t) \/ Capture(t) \/ Answer(t)
        PROVE  RefreshInv'
    BY <1>2, UnlockedRefresh, LockedRefresh DEF Refresh
  <1>3. CASE UNCHANGED vars
    BY <1>3 DEF vars, engine, local, RefreshInv, TypeOK, Numbers
  <1> QED BY <1>1, <1>2, <1>3 DEF Next

(* A refresh in progress is the only one, and what it is about to install  *)
(* is neither older than what is in use nor ahead of the root              *)
(* (Engine.refresh_manifest_if_due).                                       *)
THEOREM RefreshSafe == Spec => []RefreshInv
  <1>1. Init => RefreshInv
    BY InitRefresh
  <1>2. RefreshInv /\ [Next]_vars => RefreshInv'
    BY NextRefresh
  <1> QED BY <1>1, <1>2, PTL DEF Spec

(* Only BuildLoads and SetManifest assign the manifest. *)
LEMMA StepNeverRegresses ==
  ASSUME RefreshInv, Next
  PROVE  manifest' >= manifest
  <1> USE DEF RefreshInv, TypeOK, Numbers
  <1>1. CASE Publish \/ IntervalPasses \/ BuildLoads \/ BuildLabels
    BY <1>1, EngineAssumption DEF Publish, IntervalPasses, BuildLoads, BuildLabels, engine
  <1>2. ASSUME NEW t \in Threads, Request(t) \/ Capture(t) \/ Answer(t)
        PROVE  manifest' >= manifest
    BY <1>2 DEF Request, Capture, Answer, engine
  <1>3. ASSUME NEW t \in Threads, Refresh(t)
        PROVE  manifest' >= manifest
    BY <1>3 DEF Refresh, CheckEarly, CheckDue, ReadUnchanged, ReadChanged,
                RootUnreadable, LoadManifest, SetNumber, SetManifest, engine
  <1> QED BY <1>1, <1>2, <1>3 DEF Next

(* The engine never serves an older manifest than before (the swap of      *)
(* Engine.manifest under _manifest_refresh_lock).                          *)
THEOREM ServesForwardOnly == Spec => ServedNeverRegresses
  <1>1. RefreshInv /\ [Next]_vars => [manifest' >= manifest]_vars
    BY StepNeverRegresses
  <1> QED BY <1>1, RefreshSafe, PTL DEF Spec, ServedNeverRegresses
=============================================================================
