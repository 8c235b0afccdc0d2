----------------------------- MODULE DatasetRoot -----------------------------
(***************************************************************************)
(* The dataset root as its writers share it: data files, one manifest per  *)
(* number and the LATEST pointer (src/osmpq/layout/manifest.py,            *)
(* src/osmpq/store.py), written by updater runs (update/updater.py behind  *)
(* the /run lock of update/server.py), by compaction (build/compact.py)    *)
(* and by garbage collection (build/gc.py).                                *)
(*                                                                         *)
(* Data is abstracted to sequence numbers: the content of a file is the    *)
(* set of replication diffs whose rows it holds.  A generation's base and  *)
(* a version of its rolling deltas each have one file per part (by id,     *)
(* spatial, ...), written one after the other; the split of the deltas     *)
(* into hour, day and week is the subject of DeltaTiers.                   *)
(***************************************************************************)
EXTENDS Naturals, FiniteSets

CONSTANTS
  Updaters,    \* updater runs that may be requested at the same time
  Parts,       \* the files one generation or one delta version consists of
  Relevant,    \* the diffs that hold rows inside the root's extent
  MaxSeq,      \* bound: diffs published upstream
  MaxNumber,   \* bound: manifest numbers (and so generations)
  MaxVersion,  \* bound: delta versions of one generation
  Keep,        \* gc --keep
  WithGc,      \* osmpq gc is run at all
  Procedure    \* what the operator does before `osmpq compact` or `osmpq gc`:
               \*   "stops": stops the scheduler (docs/m3-runbook.md section 10)
               \*   "waits": stops it and lets the run in flight end

ASSUME RootAssumption ==
  /\ MaxSeq \in Nat
  /\ MaxNumber \in Nat \ {0}
  /\ MaxVersion \in Nat
  /\ Keep \in Nat
  /\ Relevant \subseteq Nat
  /\ WithGc \in BOOLEAN
  /\ Procedure \in {"stops", "waits"}

Numbers == 1..MaxNumber
Versions == 0..MaxVersion          \* version 0 is the base of the generation
Seqs == 0..MaxSeq
Paths == Numbers \X Versions \X Parts
Manifests == [gen : Numbers, ver : Versions, seq : Seqs]

VARIABLES
  present,   \* the data files that exist
  data,      \* path -> diffs its rows come from
  listed,    \* numbers n for which manifest/<n>.json exists
  manifest,  \* number -> content of manifest/<n>.json
  latest,    \* manifest/LATEST
  up,        \* updater -> local state of its run_once
  comp,      \* local state of compact()
  gc,        \* local state of gc()
  paused     \* the operator has stopped the scheduler

store == <<present, data, listed, manifest, latest>>
vars == <<store, up, comp, gc, paused>>

-----------------------------------------------------------------------------
(* Manifests and the files they name. *)

FilesOf(m) == {<<m.gen, v, p>> : v \in {0, m.ver}, p \in Parts}

(* What a reader of part p sees through manifest m: base plus deltas. *)
View(m, p) == data[<<m.gen, 0, p>>] \cup data[<<m.gen, m.ver, p>>]

Applied(seq) == Relevant \cap 1..seq

Complete(m) ==
  /\ FilesOf(m) \subseteq present
  /\ \A p \in Parts : View(m, p) = Applied(m.seq)

Exists == latest \in listed

-----------------------------------------------------------------------------
(* A writer keeps the manifest it loaded, the one it will publish, the     *)
(* parts it still has to write and the number it will publish under.       *)

FirstManifest == [gen |-> 1, ver |-> 0, seq |-> 0]
Writer(pcs) == [pc : pcs, man : Manifests, new : Manifests, todo : SUBSET Parts, number : Numbers]
IdleWriter == [pc |-> "idle", man |-> FirstManifest, new |-> FirstManifest, todo |-> {}, number |-> 1]
IdleGc == [pc |-> "idle", older |-> {}, refs |-> {}, doomed |-> {}]

TypeOK ==
  /\ present \subseteq Paths
  /\ data \in [Paths -> SUBSET Nat]
  /\ listed \subseteq Numbers
  /\ manifest \in [Numbers -> Manifests]
  /\ latest \in Numbers
  /\ up \in [Updaters -> Writer({"idle", "tiers", "number", "json", "latest"})]
  /\ comp \in Writer({"idle", "cells", "json", "latest"})
  /\ gc \in [pc : {"idle", "scan", "files", "manifests"},
             older : SUBSET Numbers, refs : SUBSET Paths, doomed : SUBSET Paths]
  /\ paused \in BOOLEAN

(* A freshly built root: generation 1, no deltas, manifest 1. *)
Init ==
  /\ present = {<<1, 0, p>> : p \in Parts}
  /\ data = [f \in Paths |-> {}]
  /\ listed = {1}
  /\ manifest = [n \in Numbers |-> FirstManifest]
  /\ latest = 1
  /\ up = [u \in Updaters |-> IdleWriter]
  /\ comp = IdleWriter
  /\ gc = IdleGc
  /\ paused = FALSE

-----------------------------------------------------------------------------
(* One store write each: write_bytes and upload_file replace an object as  *)
(* a whole.                                                                *)

PutFile(f, content) ==
  /\ present' = present \cup {f}
  /\ data' = [data EXCEPT ![f] = content]
  /\ UNCHANGED <<listed, manifest, latest>>

PutManifest(n, m) ==
  /\ listed' = listed \cup {n}
  /\ manifest' = [manifest EXCEPT ![n] = m]
  /\ UNCHANGED <<present, data, latest>>

PutLatest(n) ==
  /\ latest' = n
  /\ UNCHANGED <<present, data, listed, manifest>>

-----------------------------------------------------------------------------
(* osmpq update: run_once. *)

NoRunInFlight == \A u \in Updaters : up[u].pc = "idle"

(* Mutant: the new rows go into the version already published. *)
NewVersionInPlace(m) == IF m.ver = 0 THEN 1 ELSE m.ver

(* Every rewrite of the rolling deltas gets a version of its own. *)
NewVersion(m) == m.ver + 1

(* load_latest and fetch_range: a batch of consecutive diffs after the     *)
(* manifest's replication_sequence.  A batch none of whose rows survive    *)
(* the extent filter writes no tier version on a root without deltas; with *)
(* deltas it rewrites them as a new version with the same rows.            *)
RunStarts(u) ==
  /\ up[u].pc = "idle"
  /\ NoRunInFlight
  /\ ~paused
  /\ Exists
  /\ \E last \in Seqs :
       LET man == manifest[latest]
           empty == man.ver = 0 /\ Applied(last) = Applied(man.seq)
       IN
       /\ last > man.seq
       /\ empty \/ man.ver < MaxVersion
       /\ up' = [up EXCEPT ![u] =
                   [pc |-> IF empty THEN "number" ELSE "tiers",
                    man |-> man,
                    new |-> [gen |-> man.gen,
                             ver |-> IF empty THEN man.ver ELSE NewVersion(man),
                             seq |-> last],
                    todo |-> IF empty THEN {} ELSE Parts,
                    number |-> latest]]
  /\ UNCHANGED <<store, comp, gc, paused>>

(* The batch merged into the previous version of the rolling deltas. *)
Merged(w, p) ==
  (IF w.man.ver = 0 THEN {} ELSE data[<<w.man.gen, w.man.ver, p>>])
    \cup (Applied(w.new.seq) \ Applied(w.man.seq))

(* _write_tiers (and the upload for an s3:// root): one file of the new    *)
(* version.                                                                *)
RunWritesTier(u, p) ==
  /\ up[u].pc = "tiers"
  /\ p \in up[u].todo
  /\ FilesOf(up[u].man) \subseteq present
  /\ PutFile(<<up[u].new.gen, up[u].new.ver, p>>, Merged(up[u], p))
  /\ up' = [up EXCEPT ![u].todo = @ \ {p},
                      ![u].pc = IF up[u].todo = {p} THEN "number" ELSE "tiers"]
  /\ UNCHANGED <<comp, gc, paused>>

(* next_manifest_number: LATEST is read again here. *)
RunPicksNumber(u) ==
  /\ up[u].pc = "number"
  /\ latest < MaxNumber
  /\ up' = [up EXCEPT ![u].number = latest + 1, ![u].pc = "json"]
  /\ UNCHANGED <<store, comp, gc, paused>>

(* write_manifest, first write. *)
RunWritesManifest(u) ==
  /\ up[u].pc = "json"
  /\ PutManifest(up[u].number, up[u].new)
  /\ up' = [up EXCEPT ![u].pc = "latest"]
  /\ UNCHANGED <<comp, gc, paused>>

(* write_manifest, second write; the run returns and the lock is released. *)
RunWritesLatest(u) ==
  /\ up[u].pc = "latest"
  /\ PutLatest(up[u].number)
  /\ up' = [up EXCEPT ![u] = IdleWriter]
  /\ UNCHANGED <<comp, gc, paused>>

(* An exception, or the container is recycled: what is written stays. *)
RunAborts(u) ==
  /\ up[u].pc # "idle"
  /\ up' = [up EXCEPT ![u] = IdleWriter]
  /\ UNCHANGED <<store, comp, gc, paused>>

-----------------------------------------------------------------------------
(* The operator (docs/m3-runbook.md section 10). *)

PauseScheduler ==
  /\ ~paused
  /\ paused' = TRUE
  /\ UNCHANGED <<store, up, comp, gc>>

ResumeScheduler ==
  /\ paused
  /\ comp.pc = "idle" /\ gc.pc = "idle"
  /\ paused' = FALSE
  /\ UNCHANGED <<store, up, comp, gc>>

MayMaintain ==
  /\ comp.pc = "idle" /\ gc.pc = "idle"
  /\ paused
  /\ Procedure = "waits" => NoRunInFlight

-----------------------------------------------------------------------------
(* osmpq compact. *)

(* Mutant: the new generation's manifest starts over at sequence 0. *)
CompactedRestarts(n, m) == [gen |-> n + 1, ver |-> 0, seq |-> 0]

(* The manifest compaction publishes: the generation is named after the    *)
(* number, the deltas are gone, the sequence is that of the manifest read. *)
Compacted(n, m) == [gen |-> n + 1, ver |-> 0, seq |-> m.seq]

(* LATEST and its manifest are read once; the new generation and the       *)
(* manifest number both come from that reading.                            *)
CompactStarts ==
  /\ MayMaintain
  /\ Exists
  /\ latest < MaxNumber
  /\ comp' = [pc |-> "cells", man |-> manifest[latest],
              new |-> Compacted(latest, manifest[latest]),
              todo |-> Parts, number |-> latest + 1]
  /\ UNCHANGED <<store, up, gc, paused>>

(* One part of the new generation: the base rows with the deltas folded in *)
(* (an untouched file is hardlinked, which gives the same content).        *)
CompactWritesPart(p) ==
  /\ comp.pc = "cells"
  /\ p \in comp.todo
  /\ FilesOf(comp.man) \subseteq present
  /\ PutFile(<<comp.new.gen, 0, p>>, View(comp.man, p))
  /\ comp' = [comp EXCEPT !.todo = @ \ {p},
                          !.pc = IF comp.todo = {p} THEN "json" ELSE "cells"]
  /\ UNCHANGED <<up, gc, paused>>

CompactWritesManifest ==
  /\ comp.pc = "json"
  /\ PutManifest(comp.number, comp.new)
  /\ comp' = [comp EXCEPT !.pc = "latest"]
  /\ UNCHANGED <<up, gc, paused>>

CompactWritesLatest ==
  /\ comp.pc = "latest"
  /\ PutLatest(comp.number)
  /\ comp' = IdleWriter
  /\ UNCHANGED <<up, gc, paused>>

CompactAborts ==
  /\ comp.pc # "idle"
  /\ comp' = IdleWriter
  /\ UNCHANGED <<store, up, gc, paused>>

-----------------------------------------------------------------------------
(* osmpq gc (local roots). *)

(* Mutant: one manifest fewer is kept. *)
NewestOffByOne == {n \in listed : Cardinality({m \in listed : m > n}) + 1 < Keep}

(* The newest Keep manifests by number; LATEST plays no part in it. *)
Newest == {n \in listed : Cardinality({m \in listed : m > n}) < Keep}

(* List the manifests and read the ones to keep. *)
GcScans ==
  /\ WithGc
  /\ MayMaintain
  /\ gc' = [pc |-> "scan", older |-> listed \ Newest,
            refs |-> UNION {FilesOf(manifest[n]) : n \in Newest}, doomed |-> {}]
  /\ UNCHANGED <<store, up, comp, paused>>

(* Walk the root for files no kept manifest references. *)
GcLists ==
  /\ gc.pc = "scan"
  /\ gc' = [gc EXCEPT !.pc = "files", !.doomed = present \ gc.refs]
  /\ UNCHANGED <<store, up, comp, paused>>

GcDeletesFile ==
  /\ gc.pc = "files"
  /\ \E f \in gc.doomed :
       /\ present' = present \ {f}
       /\ data' = [data EXCEPT ![f] = {}]
       /\ gc' = [gc EXCEPT !.doomed = @ \ {f}]
  /\ UNCHANGED <<listed, manifest, latest, up, comp, paused>>

GcFilesDone ==
  /\ gc.pc = "files"
  /\ gc.doomed = {}
  /\ gc' = [gc EXCEPT !.pc = "manifests"]
  /\ UNCHANGED <<store, up, comp, paused>>

GcDeletesManifest ==
  /\ gc.pc = "manifests"
  /\ \E n \in gc.older :
       /\ listed' = listed \ {n}
       /\ manifest' = [manifest EXCEPT ![n] = FirstManifest]
       /\ gc' = [gc EXCEPT !.older = @ \ {n}]
  /\ UNCHANGED <<present, data, latest, up, comp, paused>>

(* Done, or interrupted anywhere. *)
GcEnds ==
  /\ gc.pc # "idle"
  /\ gc' = IdleGc
  /\ UNCHANGED <<store, up, comp, paused>>

-----------------------------------------------------------------------------
Run(u) ==
  \/ RunStarts(u)
  \/ \E p \in Parts : RunWritesTier(u, p)
  \/ RunPicksNumber(u)
  \/ RunWritesManifest(u)
  \/ RunWritesLatest(u)
  \/ RunAborts(u)

Compact ==
  \/ CompactStarts
  \/ \E p \in Parts : CompactWritesPart(p)
  \/ CompactWritesManifest
  \/ CompactWritesLatest
  \/ CompactAborts

Gc ==
  \/ GcScans
  \/ GcLists
  \/ GcDeletesFile
  \/ GcFilesDone
  \/ GcDeletesManifest
  \/ GcEnds

Next ==
  \/ \E u \in Updaters : Run(u)
  \/ Compact
  \/ Gc
  \/ PauseScheduler
  \/ ResumeScheduler

Spec == Init /\ [][Next]_vars

-----------------------------------------------------------------------------
(* Properties. *)

(* Whatever writers are doing and wherever they were interrupted, LATEST   *)
(* names a manifest that exists, every file it names exists, and through   *)
(* it every part shows exactly the diffs up to its replication_sequence:   *)
(* none lost, none early (updater.run_once, compact, gc).                  *)
LatestComplete == Exists /\ Complete(manifest[latest])

(* Publishing never takes the dataset back: the replication_sequence       *)
(* behind LATEST only grows, so no diff is fetched and applied twice.      *)
SeqNeverRegresses == [][manifest[latest].seq <= manifest[latest]'.seq]_vars

(* "Objects are immutable": a manifest once published is never replaced,   *)
(* and the files it names keep their content for as long as they exist, so *)
(* an engine that loaded it stays consistent (docs/design.md section 4.1). *)
PublishedIsImmutable ==
  [][\A n \in listed :
       n <= latest =>
         /\ n \in listed' => manifest'[n] = manifest[n]
         /\ \A f \in FilesOf(manifest[n]) : f \in present' => data'[f] = data[f]]_vars

-----------------------------------------------------------------------------
(* The inductive invariant behind these properties, for an operator who    *)
(* waits and gc --keep 2 or more.                                          *)

(* At most one writer is at work on the root. *)
OneWriter ==
  /\ \A u, w \in Updaters : up[u].pc # "idle" /\ up[w].pc # "idle" => u = w
  /\ comp.pc # "idle" \/ gc.pc # "idle" => paused /\ NoRunInFlight
  /\ comp.pc = "idle" \/ gc.pc = "idle"

(* An interrupted commit leaves at most one manifest above LATEST, and no  *)
(* generation named after a later number is in use.                        *)
NumbersInv ==
  /\ \A n \in listed : n <= latest + 1
  /\ manifest[latest].gen <= latest

Published(w) == w.number \in listed /\ manifest[w.number] = w.new

(* A run works from the manifest behind LATEST, towards a version above    *)
(* the one published; the parts it has finished are already right.         *)
RunInv(w) ==
  /\ w.man = manifest[latest]
  /\ w.new.gen = w.man.gen
  /\ w.new.seq > w.man.seq
  /\ \/ w.new.ver = w.man.ver /\ Applied(w.new.seq) = Applied(w.man.seq) /\ w.pc # "tiers"
     \/ /\ w.new.ver = w.man.ver + 1
        /\ \A p \in Parts \ w.todo :
             /\ <<w.new.gen, w.new.ver, p>> \in present
             /\ data[<<w.new.gen, w.new.ver, p>>] = Merged(w, p)
  /\ w.pc # "tiers" => w.todo = {}
  /\ w.pc \in {"json", "latest"} => w.number = latest + 1
  /\ w.pc = "latest" => Published(w)

CompactInv ==
  /\ comp.man = manifest[latest]
  /\ comp.number = latest + 1
  /\ comp.new = Compacted(latest, comp.man)
  /\ \A p \in Parts \ comp.todo :
       /\ <<comp.new.gen, 0, p>> \in present
       /\ data[<<comp.new.gen, 0, p>>] = Applied(comp.man.seq)
  /\ comp.pc # "cells" => comp.todo = {}
  /\ comp.pc = "latest" => Published(comp)

(* gc never has the manifest behind LATEST or one of its files in hand. *)
GcInv ==
  /\ latest \notin gc.older
  /\ gc.pc = "scan" => FilesOf(manifest[latest]) \subseteq gc.refs
  /\ gc.pc = "files" => gc.doomed \cap FilesOf(manifest[latest]) = {}

(* What holds between any two steps of any writer: LATEST is complete and  *)
(* whoever is at work has a consistent picture of it.                      *)
RootInv ==
  /\ TypeOK
  /\ LatestComplete
  /\ OneWriter
  /\ NumbersInv
  /\ \A u \in Updaters : up[u].pc # "idle" => RunInv(up[u])
  /\ comp.pc # "idle" => CompactInv
  /\ gc.pc # "idle" => GcInv
(* No published manifest is ahead of LATEST's in generation or, in its     *)
(* generation, in delta version: what a writer names next is new.          *)
PublishedBehind ==
  \A n \in listed :
    n <= latest =>
      /\ manifest[n].gen <= manifest[latest].gen
      /\ manifest[n].gen = manifest[latest].gen => manifest[n].ver <= manifest[latest].ver
=============================================================================
