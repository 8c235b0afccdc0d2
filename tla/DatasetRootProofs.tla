-------------------------- MODULE DatasetRootProofs --------------------------
(***************************************************************************)
(* RootInv is an inductive invariant of DatasetRoot for every number of    *)
(* updaters, parts, diffs, manifests and versions, when the operator lets  *)
(* a run in flight end before maintenance and gc keeps two manifests or    *)
(* more.  LatestComplete is one of its conjuncts; with PublishedBehind,    *)
(* which keeps writers off published names, published objects never change.*)
(***************************************************************************)
EXTENDS DatasetRoot, FiniteSetTheorems, TLAPS

-----------------------------------------------------------------------------
(* Facts about manifests and files. *)

(* A file of a manifest is one part of its base or of its delta version    *)
(* (Manifest.all_paths).                                                   *)
LEMMA FilesOfDef ==
  ASSUME NEW m, NEW f
  PROVE  f \in FilesOf(m) <=> \E v \in {0, m.ver}, p \in Parts : f = <<m.gen, v, p>>
BY DEF FilesOf

LEMMA FilesArePaths ==
  ASSUME NEW m \in Manifests
  PROVE  FilesOf(m) \subseteq Paths
BY RootAssumption DEF FilesOf, Manifests, Paths, Versions

(* A step that leaves LATEST, its manifest and its files in place keeps    *)
(* LATEST complete.                                                        *)
LEMMA LatestStable ==
  ASSUME LatestComplete, latest' = latest, latest \in listed',
         manifest'[latest] = manifest[latest],
         FilesOf(manifest[latest]) \subseteq present',
         \A f \in FilesOf(manifest[latest]) : data'[f] = data[f]
  PROVE  LatestComplete'
<1> DEFINE m == manifest[latest]
<1> HIDE DEF m
<1>1. Complete(m) /\ FilesOf(m) \subseteq present' /\ \A f \in FilesOf(m) : data'[f] = data[f]
  BY DEF m, LatestComplete
<1>2. FilesOf(m)' = FilesOf(m) /\ m' = m
  BY DEF m, FilesOf
<1>3. \A p \in Parts : View(m, p)' = View(m, p)
  <2> SUFFICES ASSUME NEW p \in Parts PROVE View(m, p)' = View(m, p)
    OBVIOUS
  <2>1. <<m.gen, 0, p>> \in FilesOf(m) /\ <<m.gen, m.ver, p>> \in FilesOf(m)
    BY FilesOfDef
  <2> QED BY <1>1, <1>2, <2>1 DEF View
<1>4. Complete(m)'
  BY <1>1, <1>2, <1>3 DEF Complete
<1> QED BY <1>4 DEF m, LatestComplete, Exists

-----------------------------------------------------------------------------
(* Type correctness. *)

(* A freshly built root is well typed. *)
LEMMA TypeInit == Init => TypeOK
<1>1. FirstManifest \in Manifests
  BY RootAssumption DEF FirstManifest, Manifests, Numbers, Versions, Seqs
<1>2. {<<1, 0, p>> : p \in Parts} \subseteq Paths
  BY RootAssumption DEF Paths, Numbers, Versions
<1>3. 1 \in Numbers
  BY RootAssumption DEF Numbers
<1>4. IdleWriter \in Writer({"idle", "tiers", "number", "json", "latest"})
  BY <1>1, <1>3 DEF IdleWriter, Writer
<1>5. IdleWriter \in Writer({"idle", "cells", "json", "latest"})
  BY <1>1, <1>3 DEF IdleWriter, Writer
<1>6. IdleGc \in [pc : {"idle", "scan", "files", "manifests"},
                 older : SUBSET Numbers, refs : SUBSET Paths, doomed : SUBSET Paths]
  BY DEF IdleGc
<1>7. [f \in Paths |-> {}] \in [Paths -> SUBSET Nat]
  OBVIOUS
<1> SUFFICES ASSUME Init PROVE TypeOK
  OBVIOUS
<1>8. present \subseteq Paths /\ data \in [Paths -> SUBSET Nat] /\ listed \subseteq Numbers
  BY <1>2, <1>3, <1>7 DEF Init
<1>9. manifest \in [Numbers -> Manifests] /\ latest \in Numbers /\ paused \in BOOLEAN
  BY <1>1, <1>3 DEF Init
<1>10. up \in [Updaters -> Writer({"idle", "tiers", "number", "json", "latest"})]
  BY <1>4 DEF Init
<1> QED BY <1>5, <1>6, <1>8, <1>9, <1>10 DEF Init, TypeOK

(* Every step of a run keeps every variable in its type. *)
LEMMA TypeRun ==
  ASSUME TypeOK, NEW u \in Updaters, Run(u)
  PROVE  TypeOK'
<1> USE DEF TypeOK
<1>0. FirstManifest \in Manifests /\ 1 \in Numbers
  BY RootAssumption DEF FirstManifest, Manifests, Numbers, Versions, Seqs
<1>1. CASE RunStarts(u)
  <2>1. PICK last \in Seqs :
          LET man == manifest[latest]
              empty == man.ver = 0 /\ Applied(last) = Applied(man.seq)
          IN /\ last > man.seq
             /\ empty \/ man.ver < MaxVersion
             /\ up' = [up EXCEPT ![u] =
                   [pc |-> IF empty THEN "number" ELSE "tiers",
                    man |-> man,
                    new |-> [gen |-> man.gen,
                             ver |-> IF empty THEN man.ver ELSE NewVersion(man),
                             seq |-> last],
                    todo |-> IF empty THEN {} ELSE Parts,
                    number |-> latest]]
    BY <1>1 DEF RunStarts
  <2> DEFINE man == manifest[latest]
             empty == man.ver = 0 /\ Applied(last) = Applied(man.seq)
             new == [gen |-> man.gen, ver |-> IF empty THEN man.ver ELSE NewVersion(man), seq |-> last]
             w == [pc |-> IF empty THEN "number" ELSE "tiers", man |-> man, new |-> new,
                   todo |-> IF empty THEN {} ELSE Parts, number |-> latest]
  <2>2. man \in Manifests
    OBVIOUS
  <2>3. new \in Manifests
    BY <2>1, <2>2, RootAssumption DEF Manifests, Versions, NewVersion
  <2>4. w \in Writer({"idle", "tiers", "number", "json", "latest"})
    BY <2>2, <2>3 DEF Writer
  <2>5. up' = [up EXCEPT ![u] = w]
    BY <2>1
  <2> QED BY <1>1, <2>4, <2>5 DEF RunStarts, store
<1>2. ASSUME NEW p \in Parts, RunWritesTier(u, p) PROVE TypeOK'
  <2>1. up[u].new \in Manifests /\ up[u].man \in Manifests
    BY DEF Writer
  <2>2. <<up[u].new.gen, up[u].new.ver, p>> \in Paths
    BY <2>1 DEF Manifests, Paths
  <2>3. Merged(up[u], p) \in SUBSET Nat
    <3>1. <<up[u].man.gen, up[u].man.ver, p>> \in Paths
      BY <2>1 DEF Manifests, Paths
    <3> QED BY <3>1, RootAssumption DEF Merged, Applied
  <2>4. up' \in [Updaters -> Writer({"idle", "tiers", "number", "json", "latest"})]
    BY <1>2 DEF RunWritesTier, Writer
  <2> QED BY <1>2, <2>2, <2>3, <2>4 DEF RunWritesTier, PutFile
<1>3. CASE RunPicksNumber(u)
  BY <1>3, RootAssumption DEF RunPicksNumber, Writer, Numbers, store
<1>4. CASE RunWritesManifest(u)
  BY <1>4 DEF RunWritesManifest, PutManifest, Writer
<1>5. CASE RunWritesLatest(u)
  BY <1>0, <1>5 DEF RunWritesLatest, PutLatest, Writer, IdleWriter
<1>6. CASE RunAborts(u)
  BY <1>0, <1>6 DEF RunAborts, Writer, IdleWriter, store
<1> QED BY <1>1, <1>2, <1>3, <1>4, <1>5, <1>6 DEF Run

(* So does every step of compaction, gc and the operator. *)
LEMMA TypeMaintenance ==
  ASSUME TypeOK, Compact \/ Gc \/ PauseScheduler \/ ResumeScheduler
  PROVE  TypeOK'
<1> USE DEF TypeOK
<1>0. FirstManifest \in Manifests /\ 1 \in Numbers
  BY RootAssumption DEF FirstManifest, Manifests, Numbers, Versions, Seqs
<1>1. CASE CompactStarts
  <2>1. manifest[latest] \in Manifests /\ latest + 1 \in Numbers
    BY <1>1, RootAssumption DEF CompactStarts, Numbers
  <2>2. Compacted(latest, manifest[latest]) \in Manifests
    BY <2>1, RootAssumption DEF Compacted, Manifests, Versions
  <2> QED BY <1>1, <2>1, <2>2 DEF CompactStarts, Writer, store
<1>2. ASSUME NEW p \in Parts, CompactWritesPart(p) PROVE TypeOK'
  <2>1. comp.new \in Manifests /\ comp.man \in Manifests
    BY DEF Writer
  <2>2. <<comp.new.gen, 0, p>> \in Paths
    BY <2>1, RootAssumption DEF Manifests, Paths, Versions
  <2>3. View(comp.man, p) \in SUBSET Nat
    BY <2>1, RootAssumption DEF Manifests, Paths, Versions, View
  <2>4. comp' \in Writer({"idle", "cells", "json", "latest"})
    BY <1>2 DEF CompactWritesPart, Writer
  <2> QED BY <1>2, <2>2, <2>3, <2>4 DEF CompactWritesPart, PutFile
<1>3. CASE CompactWritesManifest
  BY <1>3 DEF CompactWritesManifest, PutManifest, Writer
<1>4. CASE CompactWritesLatest
  BY <1>0, <1>4 DEF CompactWritesLatest, PutLatest, Writer, IdleWriter
<1>5. CASE CompactAborts
  BY <1>0, <1>5 DEF CompactAborts, Writer, IdleWriter, store
<1>6. CASE GcScans
  <2>1. \A n \in Newest : FilesOf(manifest[n]) \subseteq Paths
    BY FilesArePaths DEF Newest
  <2>2. UNION {FilesOf(manifest[n]) : n \in Newest} \subseteq Paths
    BY <2>1
  <2> QED BY <1>6, <2>2 DEF GcScans, store
<1>7. CASE GcLists
  BY <1>7 DEF GcLists, store
<1>8. CASE GcDeletesFile
  BY <1>8 DEF GcDeletesFile
<1>9. CASE GcFilesDone
  BY <1>9 DEF GcFilesDone, store
<1>10. CASE GcDeletesManifest
  BY <1>0, <1>10 DEF GcDeletesManifest
<1>11. CASE GcEnds
  BY <1>11 DEF GcEnds, IdleGc, store
<1>12. CASE PauseScheduler \/ ResumeScheduler
  BY <1>12 DEF PauseScheduler, ResumeScheduler, store
<1> QED
  BY <1>1, <1>2, <1>3, <1>4, <1>5, <1>6, <1>7, <1>8, <1>9, <1>10, <1>11, <1>12
  DEF Compact, Gc

(* Every variable of the dataset root keeps its type, whatever the         *)
(* operator does.                                                          *)
THEOREM RootTypes == Spec => []TypeOK
<1>1. TypeOK /\ UNCHANGED vars => TypeOK'
  BY DEF TypeOK, vars, store
<1>2. TypeOK /\ [Next]_vars => TypeOK'
  BY <1>1, TypeRun, TypeMaintenance DEF Next
<1> QED BY TypeInit, <1>2, PTL DEF Spec

-----------------------------------------------------------------------------
(* The inductive invariant. *)

(* A freshly built root satisfies the invariant. *)
LEMMA RootInit == Init => RootInv
<1> SUFFICES ASSUME Init PROVE RootInv
  OBVIOUS
<1>1. TypeOK
  BY TypeInit
<1>2. manifest[latest] = FirstManifest
  BY <1>1 DEF Init, TypeOK
<1>3. FilesOf(FirstManifest) = present
  BY DEF Init, FilesOf, FirstManifest
<1>4. ASSUME NEW p \in Parts PROVE View(FirstManifest, p) = Applied(0)
  <2>1. <<1, 0, p>> \in Paths
    BY <1>1, <1>3, FilesOfDef DEF TypeOK, FirstManifest
  <2>2. Applied(0) = {}
    BY DEF Applied
  <2> QED BY <2>1, <2>2 DEF View, FirstManifest, Init
<1>5. LatestComplete
  BY <1>2, <1>3, <1>4 DEF LatestComplete, Exists, Complete, FirstManifest, Init
<1>6. OneWriter
  BY DEF OneWriter, Init, IdleWriter, IdleGc
<1>7. NumbersInv
  BY <1>2 DEF NumbersInv, Init, FirstManifest
<1> QED BY <1>1, <1>5, <1>6, <1>7 DEF RootInv, Init, IdleWriter, IdleGc

(* More diffs have been applied at a later sequence. *)
LEMMA AppliedGrows ==
  ASSUME NEW a \in Nat, NEW b \in Nat, a < b
  PROVE  Applied(a) \subseteq Applied(b)
BY DEF Applied

(* While a run is at work nobody else is. *)
LEMMA RunIsAlone ==
  ASSUME RootInv, NEW u \in Updaters, Run(u)
  PROVE  /\ comp.pc = "idle" /\ gc.pc = "idle"
         /\ \A w \in Updaters \ {u} : up[w].pc = "idle"
<1>1. CASE RunStarts(u)
  BY <1>1 DEF RunStarts, NoRunInFlight, RootInv, OneWriter
<1>2. CASE up[u].pc # "idle"
  BY <1>2 DEF NoRunInFlight, RootInv, OneWriter
<1> QED
  BY <1>1, <1>2
  DEF Run, RunWritesTier, RunPicksNumber, RunWritesManifest, RunWritesLatest, RunAborts

(* So a step of a run preserves the invariant if it preserves the parts    *)
(* that concern the store and the run itself.                              *)
LEMMA RunFrame ==
  ASSUME RootInv, NEW u \in Updaters, Run(u), LatestComplete', NumbersInv',
         up'[u].pc # "idle" => RunInv(up[u])',
         \A w \in Updaters \ {u} : up'[w] = up[w],
         UNCHANGED <<comp, gc, paused>>
  PROVE  RootInv'
<1>1. TypeOK'
  BY TypeRun DEF RootInv
<1>2. OneWriter'
  BY RunIsAlone DEF OneWriter
<1>3. \A w \in Updaters : up'[w].pc # "idle" => RunInv(up[w])'
  <2> SUFFICES ASSUME NEW w \in Updaters, up'[w].pc # "idle" PROVE RunInv(up[w])'
    OBVIOUS
  <2>1. w = u
    BY RunIsAlone
  <2> QED BY <2>1
<1>4. comp'.pc = "idle" /\ gc'.pc = "idle"
  BY RunIsAlone
<1> QED BY <1>1, <1>2, <1>3, <1>4 DEF RootInv

(* run_once reads the manifest behind LATEST and plans a version above it. *)
LEMMA RunStartsKeeps ==
  ASSUME RootInv, NEW u \in Updaters, RunStarts(u)
  PROVE  RootInv'
<1>1. LatestComplete' /\ NumbersInv'
  BY DEF RunStarts, store, RootInv, LatestComplete, NumbersInv, Exists, Complete, View, FilesOf
<1>2. RunInv(up[u])'
  <2>1. PICK last \in Seqs :
          LET man == manifest[latest]
              empty == man.ver = 0 /\ Applied(last) = Applied(man.seq)
          IN /\ last > man.seq
             /\ up' = [up EXCEPT ![u] =
                   [pc |-> IF empty THEN "number" ELSE "tiers",
                    man |-> man,
                    new |-> [gen |-> man.gen,
                             ver |-> IF empty THEN man.ver ELSE NewVersion(man),
                             seq |-> last],
                    todo |-> IF empty THEN {} ELSE Parts,
                    number |-> latest]]
    BY DEF RunStarts
  <2>2. up \in [Updaters -> Writer({"idle", "tiers", "number", "json", "latest"})]
    BY DEF RootInv, TypeOK
  <2>3. UNCHANGED <<manifest, latest>>
    BY DEF RunStarts, store
  <2>4. CASE manifest[latest].ver = 0 /\ Applied(last) = Applied(manifest[latest].seq)
    BY <2>1, <2>2, <2>3, <2>4 DEF RunInv, Applied
  <2>5. CASE ~(manifest[latest].ver = 0 /\ Applied(last) = Applied(manifest[latest].seq))
    BY <2>1, <2>2, <2>3, <2>5 DEF RunInv, Applied, NewVersion
  <2> QED BY <2>4, <2>5
<1>3. Run(u) /\ UNCHANGED <<comp, gc, paused>> /\ \A w \in Updaters \ {u} : up'[w] = up[w]
  BY DEF RunStarts, Run, RootInv, TypeOK
<1> QED BY <1>1, <1>2, <1>3, RunFrame

(* Writing a file of the new version does not touch the published ones. *)
LEMMA RunWritesTierKeeps ==
  ASSUME RootInv, NEW u \in Updaters, NEW p \in Parts, RunWritesTier(u, p)
  PROVE  RootInv'
<1> DEFINE w == up[u]
           f == <<w.new.gen, w.new.ver, p>>
<1>1. /\ up \in [Updaters -> Writer({"idle", "tiers", "number", "json", "latest"})]
      /\ w \in Writer({"idle", "tiers", "number", "json", "latest"})
      /\ w.man \in Manifests /\ w.new \in Manifests
      /\ data \in [Paths -> SUBSET Nat]
  BY DEF RootInv, TypeOK, Writer
<1>2. w.pc = "tiers" /\ p \in w.todo /\ RunInv(w)
  BY DEF RunWritesTier, RootInv
<1>3. /\ w.man = manifest[latest] /\ w.new.gen = w.man.gen /\ w.new.seq > w.man.seq
      /\ w.new.ver = w.man.ver + 1 /\ w.man.ver \in Nat
      /\ \A q \in Parts \ w.todo : /\ <<w.new.gen, w.new.ver, q>> \in present
                                   /\ data[<<w.new.gen, w.new.ver, q>>] = Merged(w, q)
  BY <1>1, <1>2 DEF RunInv, Manifests, Versions
<1>4. f \in Paths /\ \A q \in Parts : <<w.new.gen, w.new.ver, q>> \in Paths
  BY <1>1 DEF Manifests, Paths
<1>5. f \notin FilesOf(manifest[latest])
  BY <1>3, FilesOfDef
<1>6. /\ present' = present \cup {f}
      /\ data' = [data EXCEPT ![f] = Merged(w, p)]
      /\ UNCHANGED <<listed, manifest, latest, comp, gc, paused>>
      /\ up' = [up EXCEPT ![u].todo = @ \ {p}, ![u].pc = IF w.todo = {p} THEN "number" ELSE "tiers"]
  BY DEF RunWritesTier, PutFile
<1>7. LatestComplete'
  <2>1. \A g \in FilesOf(manifest[latest]) : data'[g] = data[g]
    BY <1>1, <1>5, <1>6, FilesArePaths DEF RootInv, TypeOK
  <2> QED BY <1>6, <2>1, LatestStable DEF RootInv, LatestComplete, Exists, Complete
<1>8. NumbersInv'
  BY <1>6 DEF RootInv, NumbersInv
<1>9. RunInv(up[u])'
  <2>1. /\ up'[u].man = w.man /\ up'[u].new = w.new /\ up'[u].todo = w.todo \ {p}
        /\ up'[u].pc = IF w.todo = {p} THEN "number" ELSE "tiers"
    BY <1>1, <1>6 DEF Writer
  <2>2. ASSUME NEW q \in Parts PROVE Merged(up[u], q)' = Merged(w, q)
    <3>1. CASE w.man.ver = 0
      BY <2>1, <3>1 DEF Merged, Applied
    <3>2. CASE w.man.ver # 0
      <4>1. <<w.man.gen, w.man.ver, q>> # f /\ <<w.man.gen, w.man.ver, q>> \in Paths
        BY <1>1, <1>3 DEF Manifests, Paths
      <4> QED BY <1>1, <1>6, <2>1, <3>2, <4>1 DEF Merged, Applied
    <3> QED BY <3>1, <3>2
  <2>3. ASSUME NEW q \in Parts \ up'[u].todo
        PROVE  /\ <<w.new.gen, w.new.ver, q>> \in present'
               /\ data'[<<w.new.gen, w.new.ver, q>>] = Merged(up[u], q)'
    <3>1. CASE q = p
      BY <1>1, <1>4, <1>6, <2>2, <3>1
    <3>2. CASE q # p
      <4>1. <<w.new.gen, w.new.ver, q>> # f /\ q \in Parts \ w.todo
        BY <2>1, <3>2
      <4> QED BY <1>1, <1>3, <1>4, <1>6, <2>2, <4>1
    <3> QED BY <3>1, <3>2
  <2>4. up'[u].pc # "tiers" => up'[u].todo = {}
    BY <2>1
  <2>5. up'[u].pc \notin {"json", "latest"} /\ manifest'[latest'] = manifest[latest]
    BY <1>6, <2>1
  <2>6. w.man = manifest[latest]
    BY <1>3
  <2> HIDE DEF w
  <2> QED BY <1>3, <2>1, <2>3, <2>4, <2>5, <2>6 DEF RunInv
<1>10. Run(u) /\ \A x \in Updaters \ {u} : up'[x] = up[x]
  BY <1>1, <1>6 DEF Run
<1> QED BY <1>6, <1>7, <1>8, <1>9, <1>10, RunFrame

(* Reading LATEST again gives the number after the manifest the run read. *)
LEMMA RunPicksNumberKeeps ==
  ASSUME RootInv, NEW u \in Updaters, RunPicksNumber(u)
  PROVE  RootInv'
<1>1. /\ up \in [Updaters -> Writer({"idle", "tiers", "number", "json", "latest"})]
      /\ up[u].pc = "number" /\ RunInv(up[u])
  BY DEF RootInv, TypeOK, RunPicksNumber
<1>2. LatestComplete' /\ NumbersInv'
  BY DEF RunPicksNumber, store, RootInv, LatestComplete, NumbersInv, Exists, Complete, View, FilesOf
<1>3. /\ up'[u].man = up[u].man /\ up'[u].new = up[u].new /\ up'[u].todo = up[u].todo
      /\ up'[u].pc = "json" /\ up'[u].number = latest + 1
      /\ UNCHANGED <<store, comp, gc, paused>>
      /\ \A w \in Updaters \ {u} : up'[w] = up[w]
  BY <1>1 DEF RunPicksNumber, Writer
<1>4. \A p \in Parts : Merged(up[u], p)' = Merged(up[u], p)
  BY <1>3 DEF Merged, Applied, store
<1>5. RunInv(up[u])'
  BY <1>1, <1>3, <1>4 DEF RunInv, Applied, store
<1> QED BY <1>2, <1>3, <1>5, RunFrame DEF Run

(* The first write of a commit goes above LATEST. *)
LEMMA RunWritesManifestKeeps ==
  ASSUME RootInv, NEW u \in Updaters, RunWritesManifest(u)
  PROVE  RootInv'
<1>1. /\ up \in [Updaters -> Writer({"idle", "tiers", "number", "json", "latest"})]
      /\ manifest \in [Numbers -> Manifests] /\ latest \in Numbers
      /\ up[u].number \in Numbers /\ up[u].pc = "json" /\ RunInv(up[u])
  BY DEF RootInv, TypeOK, Writer, RunWritesManifest
<1>2. up[u].number = latest + 1 /\ up[u].number # latest
  BY <1>1 DEF RunInv, Numbers
<1>3. /\ listed' = listed \cup {up[u].number}
      /\ manifest' = [manifest EXCEPT ![up[u].number] = up[u].new]
      /\ UNCHANGED <<present, data, latest, comp, gc, paused>>
  BY DEF RunWritesManifest, PutManifest
<1>4. /\ up'[u].man = up[u].man /\ up'[u].new = up[u].new /\ up'[u].todo = up[u].todo
      /\ up'[u].pc = "latest" /\ up'[u].number = up[u].number
      /\ \A w \in Updaters \ {u} : up'[w] = up[w]
  BY <1>1 DEF RunWritesManifest, Writer
<1>5. manifest'[latest] = manifest[latest]
  BY <1>1, <1>2, <1>3
<1>6. LatestComplete'
  BY <1>3, <1>5, LatestStable DEF RootInv, LatestComplete, Exists, Complete
<1>7. NumbersInv'
  BY <1>1, <1>2, <1>3, <1>5 DEF RootInv, NumbersInv, Numbers
<1>8. \A p \in Parts : Merged(up[u], p)' = Merged(up[u], p)
  BY <1>3, <1>4 DEF Merged, Applied
<1>9. Published(up[u])'
  BY <1>1, <1>3, <1>4 DEF Published
<1>10. RunInv(up[u])'
  BY <1>1, <1>2, <1>3, <1>4, <1>5, <1>8, <1>9 DEF RunInv, Applied
<1> QED BY <1>3, <1>4, <1>6, <1>7, <1>10, RunFrame DEF Run

(* What a finished run publishes is complete: base and merged deltas give  *)
(* exactly the diffs up to the new sequence.                               *)
LEMMA RunResultComplete ==
  ASSUME RootInv, NEW u \in Updaters, up[u].pc = "latest"
  PROVE  Complete(up[u].new)
<1> DEFINE m == up[u].man
           n == up[u].new
<1>1. /\ RunInv(up[u]) /\ m \in Manifests /\ n \in Manifests
  BY DEF RootInv, TypeOK, Writer
<1>2. /\ m = manifest[latest] /\ n.gen = m.gen /\ n.seq > m.seq /\ Complete(m)
      /\ m.seq \in Nat /\ n.seq \in Nat /\ m.ver \in Nat
  BY <1>1 DEF RunInv, RootInv, LatestComplete, Manifests, Seqs, Versions
<1>3. CASE n.ver = m.ver /\ Applied(n.seq) = Applied(m.seq)
  BY <1>2, <1>3 DEF Complete, FilesOf, View
<1>4. CASE /\ n.ver = m.ver + 1
           /\ \A p \in Parts : /\ <<n.gen, n.ver, p>> \in present
                               /\ data[<<n.gen, n.ver, p>>] = Merged(up[u], p)
  <2>1. FilesOf(n) \subseteq present
    <3> SUFFICES ASSUME NEW f \in FilesOf(n) PROVE f \in present
      OBVIOUS
    <3>1. PICK v \in {0, n.ver}, p \in Parts : f = <<n.gen, v, p>>
      BY FilesOfDef
    <3>2. CASE v = 0
      <4>1. f \in FilesOf(m)
        BY <1>2, <3>1, <3>2, FilesOfDef
      <4> QED BY <1>2, <4>1 DEF Complete
    <3>3. CASE v = n.ver
      BY <1>4, <3>1, <3>3
    <3> QED BY <3>1, <3>2, <3>3
  <2>2. ASSUME NEW p \in Parts PROVE View(n, p) = Applied(n.seq)
    <3>1. View(m, p) = Applied(m.seq) /\ Applied(m.seq) \subseteq Applied(n.seq)
      BY <1>2, AppliedGrows DEF Complete
    <3>2. View(m, p) = data[<<m.gen, 0, p>>] \cup data[<<m.gen, m.ver, p>>]
      BY DEF View
    <3>3. View(n, p) = data[<<m.gen, 0, p>>] \cup Merged(up[u], p)
      BY <1>2, <1>4 DEF View
    <3>4. CASE m.ver = 0
      <4>1. Merged(up[u], p) = Applied(n.seq) \ Applied(m.seq)
        BY <3>4 DEF Merged
      <4> QED BY <3>1, <3>2, <3>3, <3>4, <4>1
    <3>5. CASE m.ver # 0
      <4>1. Merged(up[u], p) = data[<<m.gen, m.ver, p>>] \cup (Applied(n.seq) \ Applied(m.seq))
        BY <3>5 DEF Merged
      <4> QED BY <3>1, <3>2, <3>3, <4>1
    <3> QED BY <3>4, <3>5
  <2> QED BY <2>1, <2>2 DEF Complete
<1> QED BY <1>1, <1>3, <1>4 DEF RunInv

(* The second write of a commit makes it the one readers see. *)
LEMMA RunWritesLatestKeeps ==
  ASSUME RootInv, NEW u \in Updaters, RunWritesLatest(u)
  PROVE  RootInv'
<1> DEFINE n == up[u].new
<1>1. /\ up \in [Updaters -> Writer({"idle", "tiers", "number", "json", "latest"})]
      /\ latest \in Numbers /\ manifest \in [Numbers -> Manifests]
      /\ listed \subseteq Numbers /\ n \in Manifests
      /\ up[u].pc = "latest" /\ RunInv(up[u])
  BY DEF RootInv, TypeOK, Writer, RunWritesLatest
<1>2. /\ up[u].number = latest + 1 /\ up[u].number \in listed
      /\ manifest[up[u].number] = n /\ n.gen = manifest[latest].gen
  BY <1>1 DEF RunInv, Published
<1>3. latest' = latest + 1 /\ UNCHANGED <<present, data, listed, manifest, comp, gc, paused>>
  BY <1>2 DEF RunWritesLatest, PutLatest
<1>4. Complete(n)
  BY <1>1, RunResultComplete
<1>5. Complete(manifest[latest])'
  BY <1>2, <1>3, <1>4 DEF Complete, FilesOf, View
<1>6. LatestComplete'
  BY <1>2, <1>3, <1>5 DEF LatestComplete, Exists
<1>7. NumbersInv'
  BY <1>1, <1>2, <1>3 DEF RootInv, NumbersInv, Numbers, Manifests
<1>8. up'[u].pc = "idle" /\ \A w \in Updaters \ {u} : up'[w] = up[w]
  BY <1>1 DEF RunWritesLatest, IdleWriter
<1> QED BY <1>3, <1>6, <1>7, <1>8, RunFrame DEF Run

(* A run that dies leaves LATEST as it was. *)
LEMMA RunAbortsKeeps ==
  ASSUME RootInv, NEW u \in Updaters, RunAborts(u)
  PROVE  RootInv'
<1>1. LatestComplete' /\ NumbersInv'
  BY DEF RunAborts, store, RootInv, LatestComplete, NumbersInv, Exists, Complete, View, FilesOf
<1>2. up'[u].pc = "idle" /\ \A w \in Updaters \ {u} : up'[w] = up[w]
  BY DEF RunAborts, IdleWriter, RootInv, TypeOK
<1>3. UNCHANGED <<comp, gc, paused>>
  BY DEF RunAborts
<1> QED BY <1>1, <1>2, <1>3, RunFrame DEF Run

-----------------------------------------------------------------------------
(* Compaction, with an operator who lets the run in flight end. *)

(* Reading LATEST once is enough: nobody moves it during compaction. *)
LEMMA CompactStartsKeeps ==
  ASSUME RootInv, Procedure = "waits", CompactStarts
  PROVE  RootInv'
<1>1. TypeOK'
  BY TypeMaintenance DEF RootInv, Compact
<1>2. UNCHANGED <<present, data, listed, manifest, latest, up, gc, paused>>
  BY DEF CompactStarts, store
<1>3. LatestComplete' /\ NumbersInv'
  BY <1>2 DEF RootInv, LatestComplete, NumbersInv, Exists, Complete, View, FilesOf
<1>4. OneWriter'
  BY <1>2 DEF RootInv, OneWriter, CompactStarts, MayMaintain, NoRunInFlight
<1>5. CompactInv'
  BY <1>2 DEF CompactInv, CompactStarts, Compacted
<1> QED BY <1>1, <1>2, <1>3, <1>4, <1>5
  DEF RootInv, CompactStarts, MayMaintain, NoRunInFlight

(* A step of a compaction under way preserves the invariant if it          *)
(* preserves the parts that concern the store and compaction itself.       *)
LEMMA CompactFrame ==
  ASSUME RootInv, Compact, comp.pc # "idle", LatestComplete', NumbersInv',
         comp'.pc # "idle" => CompactInv', UNCHANGED <<up, gc, paused>>
  PROVE  RootInv'
<1>1. TypeOK'
  BY TypeMaintenance DEF RootInv
<1>2. gc.pc = "idle" /\ paused /\ NoRunInFlight
  BY DEF RootInv, OneWriter
<1>3. OneWriter'
  BY <1>2 DEF OneWriter, NoRunInFlight
<1> QED BY <1>1, <1>2, <1>3 DEF RootInv, NoRunInFlight

(* A file of the new generation is not a file of the published one. *)
LEMMA CompactWritesPartKeeps ==
  ASSUME RootInv, NEW p \in Parts, CompactWritesPart(p)
  PROVE  RootInv'
<1> DEFINE f == <<comp.new.gen, 0, p>>
           m == manifest[latest]
<1>1. /\ comp \in Writer({"idle", "cells", "json", "latest"})
      /\ m \in Manifests /\ data \in [Paths -> SUBSET Nat] /\ latest \in Nat
      /\ comp.new \in Manifests /\ m.gen \in Nat
  BY DEF RootInv, TypeOK, Writer, Manifests, Numbers
<1>2. comp.pc = "cells" /\ p \in comp.todo /\ CompactInv
  BY DEF CompactWritesPart, RootInv
<1>3. comp.man = m /\ comp.new.gen = latest + 1 /\ m.gen <= latest
  BY <1>2 DEF CompactInv, Compacted, RootInv, NumbersInv
<1>4. \A q \in Parts : <<comp.new.gen, 0, q>> \in Paths
  BY <1>1, RootAssumption DEF Manifests, Paths, Versions
<1>5. f \notin FilesOf(m)
  <2>1. f[1] = latest + 1 /\ \A g \in FilesOf(m) : g[1] = m.gen
    BY <1>3 DEF FilesOf
  <2> QED BY <1>1, <1>3, <2>1
<1>6. /\ present' = present \cup {f}
      /\ data' = [data EXCEPT ![f] = View(m, p)]
      /\ UNCHANGED <<listed, manifest, latest, up, gc, paused>>
  BY <1>3 DEF CompactWritesPart, PutFile
<1>7. /\ comp'.man = comp.man /\ comp'.new = comp.new /\ comp'.number = comp.number
      /\ comp'.todo = comp.todo \ {p}
      /\ comp'.pc = IF comp.todo = {p} THEN "json" ELSE "cells"
  BY <1>1 DEF CompactWritesPart, Writer
<1>8. LatestComplete'
  <2>1. \A g \in FilesOf(m) : data'[g] = data[g]
    BY <1>1, <1>5, <1>6, FilesArePaths
  <2> QED BY <1>6, <2>1, LatestStable DEF RootInv, LatestComplete, Exists, Complete
<1>9. NumbersInv'
  BY <1>6 DEF RootInv, NumbersInv
<1>10. View(m, p) = Applied(m.seq)
  BY DEF RootInv, LatestComplete, Complete
<1>11. ASSUME NEW q \in Parts \ comp'.todo
       PROVE  /\ <<comp.new.gen, 0, q>> \in present'
              /\ data'[<<comp.new.gen, 0, q>>] = Applied(m.seq)
  <2>1. CASE q = p
    BY <1>1, <1>4, <1>6, <1>10, <2>1
  <2>2. CASE q # p
    <3>1. q \in Parts \ comp.todo /\ <<comp.new.gen, 0, q>> # f
      BY <1>7, <2>2
    <3>2. /\ <<comp.new.gen, 0, q>> \in present
          /\ data[<<comp.new.gen, 0, q>>] = Applied(m.seq)
      BY <1>2, <1>3, <3>1 DEF CompactInv
    <3> QED BY <1>1, <1>4, <1>6, <3>1, <3>2
  <2> QED BY <2>1, <2>2
<1>12. CompactInv'
  BY <1>2, <1>3, <1>6, <1>7, <1>11 DEF CompactInv, Compacted, Applied
<1>13. Compact /\ comp.pc # "idle"
  BY <1>2 DEF Compact
<1> QED BY <1>6, <1>8, <1>9, <1>12, <1>13, CompactFrame

(* Compaction's manifest goes above LATEST. *)
LEMMA CompactWritesManifestKeeps ==
  ASSUME RootInv, CompactWritesManifest
  PROVE  RootInv'
<1>1. /\ comp \in Writer({"idle", "cells", "json", "latest"}) /\ comp.pc = "json"
      /\ manifest \in [Numbers -> Manifests] /\ latest \in Numbers
      /\ comp.number \in Numbers /\ CompactInv
  BY DEF RootInv, TypeOK, Writer, CompactWritesManifest
<1>2. comp.number = latest + 1 /\ comp.number # latest
  BY <1>1 DEF CompactInv, Numbers
<1>3. /\ listed' = listed \cup {comp.number}
      /\ manifest' = [manifest EXCEPT ![comp.number] = comp.new]
      /\ UNCHANGED <<present, data, latest, up, gc, paused>>
  BY DEF CompactWritesManifest, PutManifest
<1>4. /\ comp'.man = comp.man /\ comp'.new = comp.new /\ comp'.todo = comp.todo
      /\ comp'.pc = "latest" /\ comp'.number = comp.number
  BY <1>1 DEF CompactWritesManifest, Writer
<1>5. manifest'[latest] = manifest[latest]
  BY <1>1, <1>2, <1>3
<1>6. LatestComplete'
  BY <1>3, <1>5, LatestStable DEF RootInv, LatestComplete, Exists, Complete
<1>7. NumbersInv'
  BY <1>1, <1>2, <1>3, <1>5 DEF RootInv, NumbersInv, Numbers
<1>8. Published(comp)'
  BY <1>1, <1>3, <1>4 DEF Published
<1>9. CompactInv'
  BY <1>1, <1>3, <1>4, <1>5, <1>8 DEF CompactInv, Compacted, Applied
<1>10. Compact /\ comp.pc # "idle"
  BY <1>1 DEF Compact
<1> QED BY <1>3, <1>6, <1>7, <1>9, <1>10, CompactFrame

(* The new generation is complete when LATEST moves to it. *)
LEMMA CompactWritesLatestKeeps ==
  ASSUME RootInv, CompactWritesLatest
  PROVE  RootInv'
<1> DEFINE n == comp.new
<1>1. /\ latest \in Numbers /\ comp.pc = "latest" /\ CompactInv /\ comp.todo = {}
      /\ manifest \in [Numbers -> Manifests] /\ listed \subseteq Numbers
  BY DEF RootInv, TypeOK, CompactWritesLatest, CompactInv
<1>2. /\ comp.number = latest + 1 /\ comp.number \in listed
      /\ manifest[comp.number] = n /\ n.gen = latest + 1 /\ n.ver = 0
      /\ n.seq = comp.man.seq
  BY <1>1 DEF CompactInv, Published, Compacted
<1>3. latest' = latest + 1 /\ UNCHANGED <<present, data, listed, manifest, up, gc, paused>>
  BY <1>2 DEF CompactWritesLatest, PutLatest
<1>4. \A p \in Parts : /\ <<n.gen, 0, p>> \in present
                       /\ data[<<n.gen, 0, p>>] = Applied(n.seq)
  BY <1>1, <1>2 DEF CompactInv
<1>5. Complete(n)
  BY <1>2, <1>4 DEF Complete, FilesOf, View
<1>6. Complete(manifest[latest])'
  BY <1>2, <1>3, <1>5 DEF Complete, FilesOf, View
<1>7. LatestComplete'
  BY <1>2, <1>3, <1>6 DEF LatestComplete, Exists
<1>8. NumbersInv'
  BY <1>1, <1>2, <1>3 DEF RootInv, NumbersInv, Numbers
<1>9. comp'.pc = "idle" /\ Compact /\ comp.pc # "idle"
  BY <1>1 DEF CompactWritesLatest, IdleWriter, Compact
<1> QED BY <1>3, <1>7, <1>8, <1>9, CompactFrame

(* A compaction that dies leaves LATEST as it was. *)
LEMMA CompactAbortsKeeps ==
  ASSUME RootInv, CompactAborts
  PROVE  RootInv'
<1>1. LatestComplete' /\ NumbersInv'
  BY DEF CompactAborts, store, RootInv, LatestComplete, NumbersInv, Exists, Complete, View, FilesOf
<1>2. comp'.pc = "idle" /\ Compact /\ comp.pc # "idle" /\ UNCHANGED <<up, gc, paused>>
  BY DEF CompactAborts, IdleWriter, Compact
<1> QED BY <1>1, <1>2, CompactFrame

-----------------------------------------------------------------------------
(* Garbage collection, keeping two manifests or more. *)

(* At most one manifest lies above LATEST, so LATEST is among the two      *)
(* newest and gc keeps it.                                                 *)
LEMMA LatestIsKept ==
  ASSUME RootInv, Keep >= 2
  PROVE  latest \in Newest
<1> DEFINE above == {m \in listed : m > latest}
<1>1. above \subseteq {latest + 1}
  <2>1. latest \in Nat /\ listed \subseteq Nat /\ \A n \in listed : n <= latest + 1
    BY DEF RootInv, NumbersInv, TypeOK, Numbers
  <2>2. \A n \in above : n = latest + 1
    BY <2>1
  <2> QED BY <2>2
<1>2. IsFiniteSet({latest + 1}) /\ Cardinality({latest + 1}) = 1
  BY FS_Singleton
<1>3. Cardinality(above) <= 1 /\ Cardinality(above) \in Nat
  BY <1>1, <1>2, FS_Subset, FS_CardinalityType
<1>4. Cardinality(above) < Keep
  BY <1>3, RootAssumption
<1>5. latest \in listed
  BY DEF RootInv, LatestComplete, Exists
<1> QED BY <1>4, <1>5 DEF Newest

(* gc reads the manifest behind LATEST among the ones it keeps. *)
LEMMA GcScansKeeps ==
  ASSUME RootInv, Procedure = "waits", Keep >= 2, GcScans
  PROVE  RootInv'
<1>1. TypeOK'
  BY TypeMaintenance DEF RootInv, Gc
<1>2. UNCHANGED <<present, data, listed, manifest, latest, up, comp, paused>>
  BY DEF GcScans, store
<1>3. LatestComplete' /\ NumbersInv'
  BY <1>2 DEF RootInv, LatestComplete, NumbersInv, Exists, Complete, View, FilesOf
<1>4. OneWriter'
  BY <1>2 DEF RootInv, OneWriter, GcScans, MayMaintain, NoRunInFlight
<1>5. gc' = [pc |-> "scan", older |-> listed \ Newest,
             refs |-> UNION {FilesOf(manifest[n]) : n \in Newest}, doomed |-> {}]
  BY DEF GcScans
<1>6. FilesOf(manifest[latest]) \subseteq gc'.refs /\ latest \notin gc'.older /\ gc'.pc = "scan"
  BY <1>5, LatestIsKept
<1>7. GcInv'
  BY <1>2, <1>6 DEF GcInv, FilesOf
<1> QED BY <1>1, <1>2, <1>3, <1>4, <1>7
  DEF RootInv, GcScans, MayMaintain, NoRunInFlight

(* A step of a gc under way preserves the invariant if it preserves the    *)
(* parts that concern the store and gc itself.                             *)
LEMMA GcFrame ==
  ASSUME RootInv, Gc, gc.pc # "idle", LatestComplete', NumbersInv',
         gc'.pc # "idle" => GcInv', UNCHANGED <<up, comp, paused>>
  PROVE  RootInv'
<1>1. TypeOK'
  BY TypeMaintenance DEF RootInv
<1>2. comp.pc = "idle" /\ paused /\ NoRunInFlight
  BY DEF RootInv, OneWriter
<1>3. OneWriter'
  BY <1>2 DEF OneWriter, NoRunInFlight
<1> QED BY <1>1, <1>2, <1>3 DEF RootInv, NoRunInFlight

(* The steps of gc that delete nothing. *)
LEMMA GcPlansKeeps ==
  ASSUME RootInv, GcLists \/ GcFilesDone \/ GcEnds
  PROVE  RootInv'
<1>1. UNCHANGED <<present, data, listed, manifest, latest, up, comp, paused>>
  BY DEF GcLists, GcFilesDone, GcEnds, store
<1>2. gc.pc # "idle" /\ Gc /\ GcInv
  BY DEF GcLists, GcFilesDone, GcEnds, Gc, RootInv
<1>3. LatestComplete' /\ NumbersInv'
  BY <1>1 DEF RootInv, LatestComplete, NumbersInv, Exists, Complete, View, FilesOf
<1>4. gc \in [pc : {"idle", "scan", "files", "manifests"},
              older : SUBSET Numbers, refs : SUBSET Paths, doomed : SUBSET Paths]
  BY DEF RootInv, TypeOK
<1>5. gc'.pc # "idle" => GcInv'
  <2>1. CASE GcLists
    <3>1. gc'.pc = "files" /\ gc'.older = gc.older /\ gc'.doomed = present \ gc.refs
      BY <1>4, <2>1 DEF GcLists
    <3>2. FilesOf(manifest[latest]) \subseteq gc.refs
      BY <1>2, <2>1 DEF GcInv, GcLists
    <3> QED BY <1>1, <1>2, <3>1, <3>2 DEF GcInv, FilesOf
  <2>2. CASE GcFilesDone
    BY <1>1, <1>2, <1>4, <2>2 DEF GcInv, GcFilesDone
  <2>3. CASE GcEnds
    BY <2>3 DEF GcEnds, IdleGc
  <2> QED BY <2>1, <2>2, <2>3
<1> QED BY <1>1, <1>2, <1>3, <1>5, GcFrame

(* A file gc deletes is not one of those behind LATEST. *)
LEMMA GcDeletesFileKeeps ==
  ASSUME RootInv, GcDeletesFile
  PROVE  RootInv'
<1> DEFINE m == manifest[latest]
<1>1. PICK f \in gc.doomed : /\ present' = present \ {f}
                             /\ data' = [data EXCEPT ![f] = {}]
                             /\ gc' = [gc EXCEPT !.doomed = @ \ {f}]
  BY DEF GcDeletesFile
<1>2. /\ UNCHANGED <<listed, manifest, latest, up, comp, paused>>
      /\ gc.pc = "files" /\ Gc /\ GcInv
  BY DEF GcDeletesFile, Gc, RootInv
<1>3. /\ gc \in [pc : {"idle", "scan", "files", "manifests"},
                 older : SUBSET Numbers, refs : SUBSET Paths, doomed : SUBSET Paths]
      /\ data \in [Paths -> SUBSET Nat] /\ m \in Manifests
  BY DEF RootInv, TypeOK
<1>4. f \notin FilesOf(m)
  BY <1>2 DEF GcInv
<1>5. FilesOf(m) \subseteq present' /\ \A g \in FilesOf(m) : data'[g] = data[g]
  BY <1>1, <1>3, <1>4, FilesArePaths DEF RootInv, LatestComplete, Complete
<1>6. LatestComplete'
  BY <1>2, <1>5, LatestStable DEF RootInv, LatestComplete, Exists
<1>7. NumbersInv'
  BY <1>2 DEF RootInv, NumbersInv
<1>8. gc'.pc = "files" /\ gc'.older = gc.older /\ gc'.doomed = gc.doomed \ {f}
  BY <1>1, <1>2, <1>3
<1>9. GcInv'
  BY <1>2, <1>8 DEF GcInv, FilesOf
<1> QED BY <1>2, <1>6, <1>7, <1>9, GcFrame

(* A manifest gc deletes is not the one behind LATEST. *)
LEMMA GcDeletesManifestKeeps ==
  ASSUME RootInv, GcDeletesManifest
  PROVE  RootInv'
<1>1. PICK n \in gc.older : /\ listed' = listed \ {n}
                            /\ manifest' = [manifest EXCEPT ![n] = FirstManifest]
                            /\ gc' = [gc EXCEPT !.older = @ \ {n}]
  BY DEF GcDeletesManifest
<1>2. /\ UNCHANGED <<present, data, latest, up, comp, paused>>
      /\ gc.pc = "manifests" /\ Gc /\ GcInv
  BY DEF GcDeletesManifest, Gc, RootInv
<1>3. /\ gc \in [pc : {"idle", "scan", "files", "manifests"},
                 older : SUBSET Numbers, refs : SUBSET Paths, doomed : SUBSET Paths]
      /\ manifest \in [Numbers -> Manifests] /\ latest \in Numbers
  BY DEF RootInv, TypeOK
<1>4. n # latest
  BY <1>2 DEF GcInv
<1>5. manifest'[latest] = manifest[latest] /\ latest \in listed'
  BY <1>1, <1>3, <1>4 DEF RootInv, LatestComplete, Exists
<1>6. LatestComplete'
  BY <1>2, <1>5, LatestStable DEF RootInv, LatestComplete, Complete
<1>7. NumbersInv'
  BY <1>1, <1>2, <1>5 DEF RootInv, NumbersInv
<1>8. gc'.pc = "manifests" /\ gc'.older = gc.older \ {n}
  BY <1>1, <1>2, <1>3
<1>9. GcInv'
  BY <1>2, <1>8 DEF GcInv
<1> QED BY <1>2, <1>6, <1>7, <1>9, GcFrame

-----------------------------------------------------------------------------
(* The operator's own steps change nothing but the scheduler. *)
LEMMA OperatorKeeps ==
  ASSUME RootInv, PauseScheduler \/ ResumeScheduler
  PROVE  RootInv'
<1>1. TypeOK'
  BY TypeMaintenance DEF RootInv
<1>2. UNCHANGED <<present, data, listed, manifest, latest, up, comp, gc>>
  BY DEF PauseScheduler, ResumeScheduler, store
<1>3. LatestComplete' /\ NumbersInv'
  BY <1>2 DEF RootInv, LatestComplete, NumbersInv, Exists, Complete, View, FilesOf
<1>4. OneWriter'
  BY <1>2 DEF RootInv, OneWriter, NoRunInFlight, PauseScheduler, ResumeScheduler
<1>5. \A u \in Updaters : up'[u].pc # "idle" => RunInv(up[u])'
  BY <1>2 DEF RootInv, RunInv, Published, Merged, Applied
<1>6. comp'.pc # "idle" => CompactInv'
  BY <1>2 DEF RootInv, CompactInv, Published, Compacted, Applied
<1>7. gc'.pc # "idle" => GcInv'
  BY <1>2 DEF RootInv, GcInv, FilesOf
<1> QED BY <1>1, <1>3, <1>4, <1>5, <1>6, <1>7 DEF RootInv

(* Every step keeps the invariant. *)
LEMMA RootNext ==
  ASSUME RootInv, Procedure = "waits", Keep >= 2, Next
  PROVE  RootInv'
<1>1. ASSUME NEW u \in Updaters, Run(u) PROVE RootInv'
  BY <1>1, RunStartsKeeps, RunWritesTierKeeps, RunPicksNumberKeeps, RunWritesManifestKeeps,
     RunWritesLatestKeeps, RunAbortsKeeps
  DEF Run
<1>2. CASE Compact
  BY <1>2, CompactStartsKeeps, CompactWritesPartKeeps, CompactWritesManifestKeeps,
     CompactWritesLatestKeeps, CompactAbortsKeeps
  DEF Compact
<1>3. CASE Gc
  BY <1>3, GcScansKeeps, GcPlansKeeps, GcDeletesFileKeeps, GcDeletesManifestKeeps DEF Gc
<1>4. CASE PauseScheduler \/ ResumeScheduler
  BY <1>4, OperatorKeeps
<1> QED BY <1>1, <1>2, <1>3, <1>4 DEF Next

(* Between any two store operations of runs, compaction and gc, wherever   *)
(* any of them was interrupted, the dataset root satisfies RootInv.        *)
THEOREM RootSafe ==
  ASSUME Procedure = "waits", Keep >= 2
  PROVE  Spec => []RootInv
<1>1. RootInv /\ UNCHANGED vars => RootInv'
  <2> SUFFICES ASSUME RootInv, UNCHANGED vars PROVE RootInv'
    OBVIOUS
  <2>1. UNCHANGED <<present, data, listed, manifest, latest, up, comp, gc, paused>>
    BY DEF vars, store
  <2>2. TypeOK' /\ LatestComplete' /\ NumbersInv' /\ OneWriter'
    BY <2>1 DEF RootInv, TypeOK, LatestComplete, NumbersInv, OneWriter, NoRunInFlight, Exists,
                Complete, View, FilesOf
  <2>3. \A u \in Updaters : up'[u].pc # "idle" => RunInv(up[u])'
    BY <2>1 DEF RootInv, RunInv, Published, Merged, Applied
  <2>4. comp'.pc # "idle" => CompactInv'
    BY <2>1 DEF RootInv, CompactInv, Published, Compacted, Applied
  <2>5. gc'.pc # "idle" => GcInv'
    BY <2>1 DEF RootInv, GcInv, FilesOf
  <2> QED BY <2>2, <2>3, <2>4, <2>5 DEF RootInv
<1>2. RootInv /\ [Next]_vars => RootInv'
  BY <1>1, RootNext
<1> QED BY RootInit, <1>2, PTL DEF Spec

(* LATEST always names a manifest all of whose files exist and show        *)
(* exactly the diffs up to its replication_sequence.                       *)
THEOREM LatestAlwaysComplete ==
  ASSUME Procedure = "waits", Keep >= 2
  PROVE  Spec => []LatestComplete
<1>1. RootInv => LatestComplete
  BY DEF RootInv
<1> QED BY RootSafe, <1>1, PTL

(* No commit takes the dataset back to an earlier replication_sequence. *)
THEOREM SeqOnlyGrows ==
  ASSUME Procedure = "waits", Keep >= 2
  PROVE  Spec => SeqNeverRegresses
<1> DEFINE Grows == manifest[latest].seq <= manifest[latest]'.seq
<1>1. ASSUME RootInv, Next PROVE Grows
  <2>1. /\ manifest \in [Numbers -> Manifests] /\ latest \in Numbers
        /\ manifest[latest].seq \in Nat
    BY <1>1 DEF RootInv, TypeOK, Manifests, Seqs
  <2>2. ASSUME manifest'[latest'] = manifest[latest] PROVE Grows
    BY <2>1, <2>2
  <2>3. ASSUME NEW u \in Updaters, RunWritesManifest(u) PROVE Grows
    <3>1. up[u].number = latest + 1 /\ up[u].number # latest
      BY <1>1, <2>1, <2>3 DEF RootInv, RunInv, RunWritesManifest, Numbers
    <3> QED BY <2>1, <2>2, <2>3, <3>1 DEF RunWritesManifest, PutManifest
  <2>4. ASSUME NEW u \in Updaters, RunWritesLatest(u) PROVE Grows
    <3>1. /\ up[u].man = manifest[latest] /\ up[u].new.seq > up[u].man.seq
          /\ manifest[up[u].number] = up[u].new
      BY <1>1, <2>4 DEF RootInv, RunInv, RunWritesLatest, Published
    <3>2. up[u].new.seq \in Nat
      BY <1>1 DEF RootInv, TypeOK, Writer, Manifests, Seqs
    <3> QED BY <2>1, <2>4, <3>1, <3>2 DEF RunWritesLatest, PutLatest
  <2>5. CASE CompactWritesManifest
    <3>1. comp.number = latest + 1 /\ comp.number # latest
      BY <1>1, <2>1, <2>5 DEF RootInv, CompactInv, CompactWritesManifest, Numbers
    <3> QED BY <2>1, <2>2, <2>5, <3>1 DEF CompactWritesManifest, PutManifest
  <2>6. CASE CompactWritesLatest
    <3>1. manifest[comp.number].seq = manifest[latest].seq
      BY <1>1, <2>6 DEF RootInv, CompactInv, CompactWritesLatest, Published, Compacted
    <3> QED BY <2>1, <2>6, <3>1 DEF CompactWritesLatest, PutLatest
  <2>7. CASE GcDeletesManifest
    <3>1. PICK n \in gc.older : manifest' = [manifest EXCEPT ![n] = FirstManifest]
      BY <2>7 DEF GcDeletesManifest
    <3>2. n # latest /\ latest' = latest
      BY <1>1, <2>7 DEF RootInv, GcInv, GcDeletesManifest
    <3> QED BY <2>1, <2>2, <3>1, <3>2
  <2>8. CASE UNCHANGED <<manifest, latest>>
    BY <2>2, <2>8
  <2> QED BY <1>1, <2>3, <2>4, <2>5, <2>6, <2>7, <2>8
      DEF Next, Run, Compact, Gc, RunStarts, RunWritesTier, RunPicksNumber, RunAborts,
          CompactStarts, CompactWritesPart, CompactAborts, GcScans, GcLists, GcDeletesFile,
          GcFilesDone, GcEnds, PauseScheduler, ResumeScheduler, PutFile, store
<1>2. RootInv /\ [Next]_vars => [Grows]_vars
  BY <1>1
<1> QED BY RootSafe, <1>2, PTL DEF Spec, SeqNeverRegresses
-----------------------------------------------------------------------------
(* Published manifests and files are immutable. *)

LEMMA ManifestTyped ==
  ASSUME RootInv, NEW n \in listed
  PROVE  /\ n \in Numbers /\ n \in Nat /\ latest \in Nat /\ latest \in Numbers
         /\ manifest \in [Numbers -> Manifests]
         /\ manifest[n] \in Manifests /\ manifest[n].gen \in Nat /\ manifest[n].ver \in Nat
         /\ manifest[latest] \in Manifests
         /\ manifest[latest].gen \in Nat /\ manifest[latest].ver \in Nat
<1>1. n \in Numbers /\ latest \in Numbers /\ manifest \in [Numbers -> Manifests]
  BY DEF RootInv, TypeOK
<1>2. manifest[n] \in Manifests /\ manifest[latest] \in Manifests
  BY <1>1
<1> QED BY <1>1, <1>2 DEF Manifests, Numbers, Versions

(* A step that moves neither LATEST nor a published manifest. *)
LEMMA BehindStable ==
  ASSUME RootInv, PublishedBehind, latest' = latest,
         \A n \in listed' : n <= latest => n \in listed /\ manifest'[n] = manifest[n],
         manifest'[latest] = manifest[latest]
  PROVE  PublishedBehind'
BY DEF PublishedBehind

LEMMA BehindNext ==
  ASSUME RootInv, PublishedBehind, Next
  PROVE  PublishedBehind'
<1>1. latest \in Numbers /\ latest \in Nat /\ manifest \in [Numbers -> Manifests] /\ latest \in listed
  BY DEF RootInv, TypeOK, LatestComplete, Exists, Numbers
<1>2. ASSUME NEW k \in Numbers, k = latest + 1, NEW m, PutManifest(k, m) PROVE PublishedBehind'
  <2>1. \A n \in listed' : n <= latest => n \in listed /\ manifest'[n] = manifest[n]
    BY <1>1, <1>2 DEF PutManifest, RootInv, TypeOK
  <2>2. latest' = latest /\ manifest'[latest] = manifest[latest]
    BY <1>1, <1>2 DEF PutManifest
  <2> QED BY <2>1, <2>2, BehindStable
<1>3. ASSUME NEW k \in Numbers, k = latest + 1, PutLatest(k),
             manifest[k].gen \in Nat, manifest[k].ver \in Nat,
             \/ manifest[k].gen > manifest[latest].gen
             \/ /\ manifest[k].gen = manifest[latest].gen
                /\ manifest[k].ver >= manifest[latest].ver
      PROVE  PublishedBehind'
  <2> SUFFICES ASSUME NEW n \in listed, n <= k
               PROVE  /\ manifest[n].gen <= manifest[k].gen
                      /\ manifest[n].gen = manifest[k].gen => manifest[n].ver <= manifest[k].ver
    BY <1>3 DEF PublishedBehind, PutLatest
  <2>1. /\ n \in Nat /\ manifest[n].gen \in Nat /\ manifest[n].ver \in Nat
        /\ manifest[latest].gen \in Nat /\ manifest[latest].ver \in Nat
    BY ManifestTyped
  <2>2. CASE n = k
    BY <2>1, <2>2
  <2>3. CASE n # k
    <3>1. n <= latest
      BY <1>1, <1>3, <2>1, <2>3
    <3>2. /\ manifest[n].gen <= manifest[latest].gen
          /\ manifest[n].gen = manifest[latest].gen => manifest[n].ver <= manifest[latest].ver
      BY <3>1 DEF PublishedBehind
    <3> QED BY <1>3, <2>1, <3>2
  <2> QED BY <2>2, <2>3
<1>4. ASSUME NEW u \in Updaters, RunWritesManifest(u) PROVE PublishedBehind'
  <2>1. up[u].number = latest + 1 /\ up[u].number \in Numbers
    BY <1>4 DEF RootInv, RunInv, RunWritesManifest, TypeOK, Writer
  <2> QED BY <1>2, <1>4, <2>1 DEF RunWritesManifest
<1>5. ASSUME NEW u \in Updaters, RunWritesLatest(u) PROVE PublishedBehind'
  <2>1. /\ up[u].number = latest + 1 /\ up[u].number \in Numbers
        /\ manifest[up[u].number] = up[u].new /\ up[u].new.gen = manifest[latest].gen
        /\ up[u].new.ver = manifest[latest].ver \/ up[u].new.ver = manifest[latest].ver + 1
    BY <1>5 DEF RootInv, RunInv, RunWritesLatest, TypeOK, Writer, Published
  <2>2. manifest[latest].gen \in Nat /\ manifest[latest].ver \in Nat
    BY <1>1, ManifestTyped
  <2> QED BY <1>3, <1>5, <2>1, <2>2 DEF RunWritesLatest
<1>6. CASE CompactWritesManifest
  <2>1. comp.number = latest + 1 /\ comp.number \in Numbers
    BY <1>6 DEF RootInv, CompactInv, CompactWritesManifest, TypeOK, Writer
  <2> QED BY <1>2, <1>6, <2>1 DEF CompactWritesManifest
<1>7. CASE CompactWritesLatest
  <2>1. /\ comp.number = latest + 1 /\ comp.number \in Numbers
        /\ manifest[comp.number].gen = latest + 1 /\ manifest[comp.number].ver = 0
        /\ manifest[latest].gen <= latest
    BY <1>7 DEF RootInv, CompactInv, CompactWritesLatest, TypeOK, Writer, Published, Compacted,
                NumbersInv
  <2>2. manifest[latest].gen \in Nat
    BY <1>1, ManifestTyped
  <2>3. manifest[comp.number].gen > manifest[latest].gen
    BY <1>1, <2>1, <2>2
  <2> QED BY <1>1, <1>3, <1>7, <2>1, <2>3 DEF CompactWritesLatest
<1>8. CASE GcDeletesManifest
  <2>1. PICK d \in gc.older : listed' = listed \ {d} /\ manifest' = [manifest EXCEPT ![d] = FirstManifest]
    BY <1>8 DEF GcDeletesManifest
  <2>2. d # latest /\ latest' = latest
    BY <1>8 DEF RootInv, GcInv, GcDeletesManifest
  <2>3. \A n \in listed' : n \in listed /\ manifest'[n] = manifest[n]
    BY <1>1, <2>1 DEF RootInv, TypeOK
  <2>4. manifest'[latest] = manifest[latest]
    BY <1>1, <2>1, <2>2
  <2> QED BY <2>2, <2>3, <2>4, BehindStable
<1>9. CASE UNCHANGED <<listed, manifest, latest>>
  BY <1>9 DEF PublishedBehind
<1> QED BY <1>4, <1>5, <1>6, <1>7, <1>8, <1>9
    DEF Next, Run, Compact, Gc, RunStarts, RunWritesTier, RunPicksNumber, RunAborts,
        CompactStarts, CompactWritesPart, CompactAborts, GcScans, GcLists, GcDeletesFile,
        GcFilesDone, GcEnds, PauseScheduler, ResumeScheduler, PutFile, store

(* A published manifest is never replaced, and the files it names keep     *)
(* their content for as long as they exist, whatever runs, compaction and  *)
(* gc do (write_manifest, _write_tiers, compact, gc).                      *)
THEOREM PublishedNeverChanges ==
  ASSUME Procedure = "waits", Keep >= 2
  PROVE  Spec => PublishedIsImmutable
<1> DEFINE Inv == RootInv /\ PublishedBehind
           Kept == \A n \in listed :
                     n <= latest =>
                       /\ n \in listed' => manifest'[n] = manifest[n]
                       /\ \A f \in FilesOf(manifest[n]) : f \in present' => data'[f] = data[f]
<1>1. Init => PublishedBehind
  <2>1. 1 \in Numbers
    BY RootAssumption DEF Numbers
  <2> QED BY <2>1 DEF Init, PublishedBehind, FirstManifest
<1>2. PublishedBehind /\ UNCHANGED vars => PublishedBehind'
  BY DEF PublishedBehind, vars, store
<1>3. Spec => []Inv
  <2>1. RootInv /\ PublishedBehind /\ [Next]_vars => PublishedBehind'
    BY <1>2, BehindNext
  <2> QED BY <1>1, <2>1, RootSafe, PTL DEF Spec
<1>4. ASSUME Inv, Next PROVE Kept
  <2>1. latest \in Numbers /\ latest \in Nat /\ manifest \in [Numbers -> Manifests]
        /\ data \in [Paths -> SUBSET Nat]
    BY <1>4 DEF RootInv, TypeOK, Numbers
  <2>2. ASSUME NEW k, k = latest + 1, NEW m, PutManifest(k, m) PROVE Kept
    <3> SUFFICES ASSUME NEW n \in listed, n <= latest
                 PROVE  /\ n \in listed' => manifest'[n] = manifest[n]
                        /\ \A f \in FilesOf(manifest[n]) : f \in present' => data'[f] = data[f]
      OBVIOUS
    <3>1. n \in Numbers /\ n # k
      BY <1>4, <2>1, <2>2, ManifestTyped
    <3> QED BY <2>1, <2>2, <3>1 DEF PutManifest
  <2>3. ASSUME NEW g, NEW v, NEW p \in Parts, NEW content, PutFile(<<g, v, p>>, content),
               \A n \in listed : n <= latest =>
                 manifest[n].gen # g \/ (v # 0 /\ manifest[n].ver # v)
        PROVE  Kept
    <3> SUFFICES ASSUME NEW n \in listed, n <= latest, NEW f \in FilesOf(manifest[n])
                 PROVE  data'[f] = data[f]
      BY <2>3 DEF PutFile
    <3>1. PICK w \in {0, manifest[n].ver}, q \in Parts : f = <<manifest[n].gen, w, q>>
      BY FilesOfDef
    <3>2. f # <<g, v, p>>
      BY <2>3, <3>1
    <3>3. f \in Paths
      BY <1>4, ManifestTyped, FilesArePaths
    <3> QED BY <2>1, <2>3, <3>2, <3>3 DEF PutFile
  <2>4. ASSUME NEW u \in Updaters, NEW p \in Parts, RunWritesTier(u, p) PROVE Kept
    <3> DEFINE w == up[u]
    <3>1. /\ w.new.gen = manifest[latest].gen /\ w.new.ver = manifest[latest].ver + 1
      BY <1>4, <2>4 DEF RootInv, RunInv, RunWritesTier
    <3>2. ASSUME NEW n \in listed, n <= latest
          PROVE  manifest[n].gen # w.new.gen \/ (w.new.ver # 0 /\ manifest[n].ver # w.new.ver)
      <4>1. manifest[n].gen \in Nat /\ manifest[n].ver \in Nat /\ manifest[latest].ver \in Nat
        BY <1>4, ManifestTyped
      <4>2. manifest[n].gen = manifest[latest].gen => manifest[n].ver <= manifest[latest].ver
        BY <1>4, <3>2 DEF PublishedBehind
      <4> QED BY <3>1, <4>1, <4>2
    <3> QED BY <2>3, <2>4, <3>2 DEF RunWritesTier
  <2>5. ASSUME NEW p \in Parts, CompactWritesPart(p) PROVE Kept
    <3>1. comp.new.gen = latest + 1 /\ manifest[latest].gen <= latest
      BY <1>4, <2>5 DEF RootInv, CompactInv, CompactWritesPart, Compacted, NumbersInv
    <3>2. ASSUME NEW n \in listed, n <= latest PROVE manifest[n].gen # comp.new.gen
      <4>1. manifest[n].gen \in Nat /\ manifest[latest].gen \in Nat
        BY <1>4, ManifestTyped
      <4>2. manifest[n].gen <= manifest[latest].gen
        BY <1>4, <3>2 DEF PublishedBehind
      <4> QED BY <2>1, <3>1, <4>1, <4>2
    <3> QED BY <2>3, <2>5, <3>2 DEF CompactWritesPart
  <2>6. ASSUME NEW u \in Updaters, RunWritesManifest(u) PROVE Kept
    BY <1>4, <2>2, <2>6 DEF RootInv, RunInv, RunWritesManifest
  <2>7. CASE CompactWritesManifest
    BY <1>4, <2>2, <2>7 DEF RootInv, CompactInv, CompactWritesManifest
  <2>8. CASE GcDeletesFile
    <3>1. PICK d \in gc.doomed : present' = present \ {d} /\ data' = [data EXCEPT ![d] = {}]
      BY <2>8 DEF GcDeletesFile
    <3>2. UNCHANGED <<listed, manifest>>
      BY <2>8 DEF GcDeletesFile
    <3>3. \A f \in Paths : f \in present' => data'[f] = data[f]
      BY <2>1, <3>1
    <3>4. \A n \in listed : FilesOf(manifest[n]) \subseteq Paths
      BY <1>4, ManifestTyped, FilesArePaths
    <3> QED BY <3>2, <3>3, <3>4
  <2>9. CASE GcDeletesManifest
    <3>1. PICK d \in gc.older : listed' = listed \ {d} /\ manifest' = [manifest EXCEPT ![d] = FirstManifest]
      BY <2>9 DEF GcDeletesManifest
    <3>2. UNCHANGED <<present, data>>
      BY <2>9 DEF GcDeletesManifest
    <3>3. \A n \in listed : n \in Numbers
      BY <1>4, ManifestTyped
    <3> QED BY <2>1, <3>1, <3>2, <3>3
  <2>10. CASE UNCHANGED <<present, data, listed, manifest>>
    BY <2>10
  <2> QED BY <1>4, <2>4, <2>5, <2>6, <2>7, <2>8, <2>9, <2>10
      DEF Next, Run, Compact, Gc, RunStarts, RunPicksNumber, RunWritesLatest, RunAborts,
          CompactStarts, CompactWritesLatest, CompactAborts, GcScans, GcLists,
          GcFilesDone, GcEnds, PauseScheduler, ResumeScheduler, PutLatest, store
<1>5. Inv /\ [Next]_vars => [Kept]_vars
  BY <1>4
<1> HIDE DEF Inv, Kept
<1>6. Spec => [][Kept]_vars
  BY <1>3, <1>5, PTL DEF Spec
<1> QED BY <1>6 DEF PublishedIsImmutable, Kept
=============================================================================
