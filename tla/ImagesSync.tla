----------------------------- MODULE ImagesSync -----------------------------
(***************************************************************************)
(* The artwork directory: sync/images_sync.rs (protocol v1),               *)
(* sync/images_v2_sync.rs and images_v2_io.rs (protocol v2), and the       *)
(* pointer of images_meta.rs that both write.                              *)
(*                                                                         *)
(* A file is a tier of the artwork, and its content the version that last  *)
(* changed it: 0 stands for any other bytes.  A release carries a delta    *)
(* against the release before it and, now and then, a new baseline.  The   *)
(* publisher may withdraw its latest release, and lose an asset.  A run    *)
(* holds the lease of the directory; it is awaited by a request that may   *)
(* be dropped, and the process may be killed at any step.  The cache of    *)
(* downloaded archives is left out: what it holds is hashed before use.    *)
(***************************************************************************)
EXTENDS Integers, FiniteSets, SequencesExt

CONSTANTS
  Tiers,        \* files of an artwork; "original" is wanted on request only
  Kinds,        \* the protocols a release may carry
  Wants,        \* the values of ORIGINAL_IMAGE of the instances
  Changes,      \* bound of the model: what a release may change
  MaxVersion,   \* bound of the model: releases
  Dirs,         \* bound of the model: directories below .releases at a time
  FaultKinds,   \* among "kill", "drop", "disk", "damage", "loss" (of an asset)
  MaxFaults,    \* bound of the model: faults
  MaxRollbacks  \* bound of the model: withdrawn releases

Version == 0..MaxVersion
Protocol == {"v1", "v2"}
Content == [Tiers -> Version]

VARIABLES
  releases,   \* everything published so far, in the order of the versions
  calm,       \* from here on the network and the disk work
  faults,
  dirs,       \* the directories below .releases
  meta,       \* .images_meta.json
  run         \* the run that holds the lease

vars == <<releases, calm, faults, dirs, meta, run>>
world == <<releases, calm, faults>>

Release == [carries : Kinds, live : BOOLEAN, content : Content,
            prev : [Protocol -> Version],   \* 0: the release is a baseline
            base : [Protocol -> Version],
            lost : BOOLEAN]                 \* its delta asset is not there
Dir == [at : {"none", "staging", "formal"}, kind : Protocol,
        version : Version,                  \* of its index.json, 0 without one
        files : Content]
Empty == [at |-> "none", kind |-> "v1", version |-> 0, files |-> [f \in Tiers |-> 0]]
Meta == [dir : Dirs \cup {0}, kind : Protocol, base : Version,
         current : Version, original : BOOLEAN]
NoMeta == [dir |-> 0, kind |-> "v1", base |-> 0, current |-> 0, original |-> FALSE]
Run == [pc : {"idle", "list", "index1", "stage1", "apply1", "verify1", "point1",
              "clean2", "index2", "walk2", "stage2", "reuse2", "back2", "apply2",
              "publish2", "point2", "sweep"},
        original : BOOLEAN,
        tag : Version,          \* the release the run brings in
        after : Version,        \* deltas after this version are applied
        prior : Dirs \cup {0},  \* the generation that was active
        chain : Seq(1..MaxVersion),  \* the deltas to apply, oldest first
        walked : Version,       \* v2: the chain reaches back to this release
        base : BOOLEAN,         \* the baseline is applied first
        dir : Dirs \cup {0},    \* the candidate
        kept : SUBSET Tiers,    \* v2: taken from the active generation
        wrote : Content,        \* v2: verified members that were extracted
        dropped : BOOLEAN]      \* nobody awaits the run any more
Resting == [pc |-> "idle", original |-> FALSE, tag |-> 0, after |-> 0, prior |-> 0,
            chain |-> <<>>, walked |-> 0, base |-> FALSE, dir |-> 0,
            kept |-> {}, wrote |-> [f \in Tiers |-> 0], dropped |-> FALSE]

TypeOK ==
  /\ releases \in Seq(Release) /\ Len(releases) <= MaxVersion
  /\ calm \in BOOLEAN
  /\ faults \in 0..MaxFaults
  /\ dirs \in [Dirs -> Dir]
  /\ meta \in Meta
  /\ run \in Run

Init ==
  /\ releases = <<>>
  /\ calm = FALSE
  /\ faults = 0
  /\ dirs = [d \in Dirs |-> Empty]
  /\ meta = NoMeta
  /\ run = Resting

-----------------------------------------------------------------------------
(* The publisher, the network and the disk.                                *)

Largest(S) == Max(S \cup {0})
Live(k) == {v \in DOMAIN releases : releases[v].live /\ k \in releases[v].carries}
Latest(k) == Largest(Live(k))

\* A release is built on the latest one, and its deltas on the latest release
\* of each protocol.  A run looks at nothing newer than its tag, so releases
\* that appear while it goes on may as well appear after it.
Publish(carries, change, rebase) ==
  /\ Len(releases) < MaxVersion /\ ~calm /\ run.pc = "idle"
  /\ LET v == Len(releases) + 1
         head == Largest(Live("v1") \cup Live("v2"))
         prev == [k \in Protocol |->
                    IF k \in carries /\ ~rebase THEN Latest(k) ELSE 0]
     IN releases' = Append(releases,
          [carries |-> carries, live |-> TRUE,
           content |-> [f \in Tiers |->
                          IF head = 0 \/ f \in change THEN v
                          ELSE releases[head].content[f]],
           prev |-> prev,
           base |-> [k \in Protocol |->
                       IF prev[k] = 0 THEN v ELSE releases[prev[k]].base[k]],
           lost |-> FALSE])
  /\ UNCHANGED <<calm, faults, dirs, meta, run>>

Withdraw ==
  /\ ~calm
  /\ Cardinality({v \in DOMAIN releases : ~releases[v].live}) < MaxRollbacks
  /\ LET head == Largest(Live("v1") \cup Live("v2"))
     IN /\ head > 1
        /\ releases' = [releases EXCEPT ![head].live = FALSE]
  /\ UNCHANGED <<calm, faults, dirs, meta, run>>

Fault(kind) ==
  /\ kind \in FaultKinds
  /\ ~calm /\ faults < MaxFaults /\ faults' = faults + 1

LoseAsset(v) ==
  /\ Fault("loss")
  /\ releases' = [releases EXCEPT ![v].lost = TRUE]
  /\ UNCHANGED <<calm, dirs, meta, run>>

Damage(f) ==
  /\ Fault("damage")
  /\ meta.dir # 0 /\ dirs[meta.dir].files[f] # 0
  /\ dirs' = [dirs EXCEPT ![meta.dir].files[f] = 0]
  /\ UNCHANGED <<releases, calm, meta, run>>

\* The process is killed: the kernel releases the lease, what is on disk stays.
Crash ==
  /\ Fault("kill")
  /\ run.pc # "idle"
  /\ run' = Resting
  /\ UNCHANGED <<releases, calm, dirs, meta>>

\* The request is dropped at an await.  A v1 run ends there; the candidate of a
\* v2 run is removed by a task that keeps the lease, and a worker goes on.
Drop ==
  /\ Fault("drop")
  /\ run.pc # "idle" /\ ~run.dropped
  /\ run' = IF run.pc \in {"publish2", "point2"} THEN [run EXCEPT !.dropped = TRUE]
            ELSE IF run.dir # 0 /\ run.pc \in {"reuse2", "back2", "apply2", "sweep"}
            THEN [run EXCEPT !.pc = "sweep", !.dropped = TRUE]
            ELSE Resting
  /\ UNCHANGED <<releases, calm, dirs, meta>>

Calm ==
  /\ ~calm /\ calm' = TRUE
  /\ UNCHANGED <<releases, faults, dirs, meta, run>>

-----------------------------------------------------------------------------
(* What every run reads (images_meta.rs).                                  *)

\* A generation is a directory with an index.json.
Active == IF meta.dir # 0 /\ dirs[meta.dir].at = "formal" THEN meta.dir ELSE 0
Wanted == IF run.original THEN Tiers ELSE Tiers \ {"original"}
\* The groups the active generation was synchronized with.
SameGroups == meta # NoMeta /\ meta.original = run.original

Delta(k, v) ==
  IF releases[v].prev[k] = 0 THEN {}
  ELSE {f \in Tiers : releases[v].content[f] # releases[releases[v].prev[k]].content[f]}

Step(pc) == run' = [run EXCEPT !.pc = pc]
Finish == run' = Resting
\* offline_or_no_data: the active generation stays.
GiveUp == Finish /\ UNCHANGED dirs
\* A failed run removes its candidate first.
Abandon == Finish /\ dirs' = [dirs EXCEPT ![run.dir] = Empty]
Sweep == Step("sweep") /\ UNCHANGED dirs

Free == {d \in Dirs : dirs[d].at = "none"}
Stage(kind, files) ==
  [at |-> "staging", kind |-> kind, version |-> 0, files |-> files]

\* The trees a prune may find: all but the active one and hidden ones.  They
\* are older than a day or not.
Prunable(keep) == {d \in Dirs : dirs[d].at = "formal" /\ d # keep}
Pruned(ds, gone) == [d \in Dirs |-> IF d \in gone THEN Empty ELSE ds[d]]

-----------------------------------------------------------------------------
(* Choosing the protocol (sync_images_with_source, sync_images_locked).    *)

\* The lease is taken: nobody else runs, and no task of a dropped run either.
Begin(original) ==
  /\ run.pc = "idle"
  /\ run' = [Resting EXCEPT !.pc = "list", !.original = original]
  /\ UNCHANGED <<world, dirs, meta>>

\* The protocol of this run: once v2 is active, v1 is never looked at again.
Chooses(v1, v2) ==
  LET activeV2 == meta.kind = "v2"
  IN IF v2 # 0 /\ (activeV2 \/ v2 >= v1) THEN "v2"
     ELSE IF activeV2 \/ v1 = 0 THEN "none" ELSE "v1"

UpToDate1(tag) == meta.current = tag /\ Active # 0 /\ SameGroups

List ==
  /\ run.pc = "list"
  /\ \/ ~calm /\ Finish
     \/ LET choice == Chooses(Latest("v1"), Latest("v2"))
            tag == IF choice = "none" THEN 0 ELSE Latest(choice)
        IN run' = IF choice = "none" \/ (choice = "v1" /\ UpToDate1(tag)) THEN Resting
                  ELSE [run EXCEPT !.tag = tag,
                                   !.pc = IF choice = "v1" THEN "index1" ELSE "clean2"]
  /\ UNCHANGED <<world, dirs, meta>>

-----------------------------------------------------------------------------
(* A v1 run (sync_images_locked).                                          *)

\* The prior generation is on the same baseline and not ahead of the index.
SameBaseline(tag) ==
  /\ Active # 0 /\ SameGroups
  /\ meta.base = releases[tag].base["v1"]
  /\ meta.current <= tag

\* enumerate_delta_chain, and of it what is newer than the starting point.
DeltaChain(base, tag, after) ==
  SetToSortSeq({v \in Live("v1") : base < v /\ v <= tag /\ v > after}, <)

\* index.json of the tag; an incomplete chain ends the run before a download.
Index1 ==
  /\ run.pc = "index1"
  /\ \/ ~calm /\ Finish
     \/ /\ ~releases[run.tag].live /\ Finish
     \/ /\ releases[run.tag].live
        /\ LET fast == SameBaseline(run.tag)
               base == releases[run.tag].base["v1"]
               after == IF fast THEN meta.current ELSE base
               chain == DeltaChain(base, run.tag, after)
           IN run' = IF \E i \in DOMAIN chain : releases[chain[i]].lost THEN Resting
                     ELSE [run EXCEPT !.pc = "stage1", !.after = after, !.chain = chain,
                                      !.base = ~fast, !.prior = Active]
  /\ UNCHANGED <<world, dirs, meta>>

\* The candidate: a copy of the prior generation, or the baseline shards of the
\* wanted groups.  A mirror may serve other bytes.
Stage1 ==
  /\ run.pc = "stage1"
  /\ \/ (~calm \/ Free = {}) /\ GiveUp
     \/ /\ Free # {}
        /\ \E bad \in IF calm \/ ~run.base THEN {{}} ELSE SUBSET Wanted :
             LET base == releases[run.tag].base["v1"]
                 shards == [f \in Tiers |-> IF f \in Wanted \ bad
                                            THEN releases[base].content[f] ELSE 0]
             IN dirs' = [dirs EXCEPT ![Min(Free)] = Stage("v1",
                          IF run.base THEN shards ELSE dirs[run.prior].files)]
        /\ run' = [run EXCEPT !.pc = "apply1", !.dir = Min(Free)]
  /\ UNCHANGED <<world, meta>>

\* The next delta, over what is there.
Apply1 ==
  /\ run.pc = "apply1"
  /\ \/ run.chain = <<>> /\ Step("verify1") /\ UNCHANGED dirs
     \/ /\ run.chain # <<>>
        /\ LET v == Head(run.chain)
           IN \/ (~calm \/ ~releases[v].live \/ releases[v].lost) /\ Abandon
              \/ /\ releases[v].live /\ ~releases[v].lost
                 /\ \E bad \in IF calm THEN {{}} ELSE SUBSET Delta("v1", v) :
                      dirs' = [dirs EXCEPT ![run.dir].files =
                        [f \in Tiers |-> IF f \in bad THEN 0
                                         ELSE IF f \in Delta("v1", v)
                                         THEN releases[v].content[f] ELSE @[f]]]
                 /\ run' = [run EXCEPT !.chain = Tail(@)]
  /\ UNCHANGED <<world, meta>>

\* verify_variant_hashes: a wanted file that is not there is a mismatch.
Verified1(files, tag) == \A f \in Wanted : files[f] = releases[tag].content[f]

\* Hashes, index.json, then the rename.
Verify1 ==
  /\ run.pc = "verify1"
  /\ \/ ~calm /\ Abandon
     \/ ~Verified1(dirs[run.dir].files, run.tag) /\ Abandon
     \/ /\ Verified1(dirs[run.dir].files, run.tag)
        /\ dirs' = [dirs EXCEPT ![run.dir].at = "formal", ![run.dir].version = run.tag]
        /\ Step("point1")
  /\ UNCHANGED <<world, meta>>

Points(kind) == [dir |-> run.dir, kind |-> kind, base |-> releases[run.tag].base[kind],
                 current |-> run.tag, original |-> run.original]

\* The pointer, then the prune; a pointer that cannot be written leaves the
\* new tree behind.
Point1 ==
  /\ run.pc = "point1"
  /\ \/ Fault("disk") /\ UNCHANGED <<dirs, meta>>
     \/ /\ meta' = Points("v1")
        /\ \E gone \in {{}, Prunable(run.dir)} : dirs' = Pruned(dirs, gone)
        /\ UNCHANGED faults
  /\ Finish
  /\ UNCHANGED <<releases, calm>>

-----------------------------------------------------------------------------
(* A v2 run (run_selected).                                                *)

UpToDate2(tag) ==
  Active # 0 /\ SameGroups /\ meta.kind = "v2" /\ meta.current = tag

\* Fault: candidates of killed runs stay.
FaultCleaned == dirs

\* cleanup_staging: what a killed run of this protocol left behind.
Cleaned ==
  [d \in Dirs |-> IF dirs[d].at = "staging" /\ dirs[d].kind = "v2" THEN Empty ELSE dirs[d]]

\* cleanup_old: trees of this protocol, when an active one is known.
Orphans ==
  IF Active = 0 THEN {} ELSE {d \in Prunable(Active) : dirs[d].kind = "v2"}

Clean2 ==
  /\ run.pc = "clean2"
  /\ \/ ~calm /\ GiveUp
     \/ /\ \E gone \in {{}, Orphans} : dirs' = Pruned(Cleaned, gone)
        /\ IF UpToDate2(run.tag) THEN Finish ELSE Step("index2")
  /\ UNCHANGED <<world, meta>>

\* Fault: an older release replaces what is installed.
FaultDowngrade(tag) == FALSE

Downgrade(tag) ==
  Active # 0 /\ dirs[Active].kind = "v2" /\ dirs[Active].version > tag

\* The active version, if the deltas since then may be all that is needed.
IncrementalFrom(tag) ==
  IF /\ Active # 0 /\ dirs[Active].kind = "v2" /\ SameGroups
     /\ releases[dirs[Active].version].base["v2"] = releases[tag].base["v2"]
     /\ dirs[Active].version < tag
  THEN dirs[Active].version ELSE 0

Index2 ==
  /\ run.pc = "index2"
  /\ \/ (~calm \/ ~releases[run.tag].live \/ Downgrade(run.tag)) /\ Finish
     \/ /\ releases[run.tag].live /\ ~Downgrade(run.tag)
        /\ LET from == IncrementalFrom(run.tag)
           IN run' = [run EXCEPT !.pc = IF from = 0 THEN "stage2" ELSE "walk2",
                                 !.after = from, !.prior = Active,
                                 !.chain = <<run.tag>>, !.walked = run.tag]
  /\ UNCHANGED <<world, dirs, meta>>

\* Chain::walk: one predecessor more, until the baseline or the stop.
Walk(stop, next, fails) ==
  LET before == releases[run.walked].prev["v2"]
  IN \/ /\ before = 0 \/ before = stop
        /\ Step(next)
     \/ /\ before # 0 /\ before # stop
        /\ \/ (~calm \/ ~releases[before].live) /\ fails
           \/ /\ releases[before].live
              /\ run' = [run EXCEPT !.chain = <<before>> \o @, !.walked = before]

Walk2 ==
  /\ run.pc = "walk2"
  /\ Walk(run.after, "stage2", Finish)
  /\ UNCHANGED <<world, dirs, meta>>

Stage2 ==
  /\ run.pc = "stage2"
  /\ \/ (~calm \/ Free = {}) /\ GiveUp
     \/ /\ Free # {}
        /\ dirs' = [dirs EXCEPT ![Min(Free)] = Stage("v2", Empty.files)]
        /\ run' = [run EXCEPT !.pc = "reuse2", !.dir = Min(Free)]
  /\ UNCHANGED <<world, meta>>

\* What the deltas of the chain contain, of the wanted groups.
Produced == {f \in Wanted : \E i \in DOMAIN run.chain : f \in Delta("v2", run.chain[i])}

\* Deltas suffice only if every other target was reused.
Suffice(kept) == run.after # 0 /\ Wanted \subseteq kept \cup Produced

\* The files of the active generation with the hash of the target.
Reusable(tag) ==
  {f \in Wanted : run.prior # 0 /\ dirs[run.prior].files[f] = releases[tag].content[f]}

Reuse2 ==
  /\ run.pc = "reuse2"
  /\ \/ ~calm /\ Sweep
     \/ LET kept == Reusable(run.tag)
        IN /\ dirs' = [dirs EXCEPT ![run.dir].files =
                         [f \in Tiers |-> IF f \in kept THEN dirs[run.prior].files[f] ELSE @[f]]]
           /\ run' = [run EXCEPT !.kept = kept, !.base = ~Suffice(kept),
                                 !.pc = IF Suffice(kept) THEN "apply2" ELSE "back2"]
  /\ UNCHANGED <<world, meta>>

Back2 ==
  /\ run.pc = "back2"
  /\ Walk(0, "apply2", Step("sweep"))
  /\ UNCHANGED <<world, dirs, meta>>

\* The members of an archive that are extracted; without one it is not fetched.
Needed(files) == (files \cap Wanted) \ run.kept

\* Archives are hashed before, members while they are extracted.
Extract(v, files) ==
  /\ dirs' = [dirs EXCEPT ![run.dir].files =
       [f \in Tiers |-> IF f \in Needed(files) THEN releases[v].content[f] ELSE @[f]]]
  /\ run' = [run EXCEPT
       !.wrote = [f \in Tiers |-> IF f \in Needed(files) THEN releases[v].content[f] ELSE @[f]],
       !.chain = IF run.base THEN @ ELSE Tail(@),
       !.base = FALSE]

\* Every target was preserved, or its last written member is the right one.
Complete2 == \A f \in Wanted \ run.kept : run.wrote[f] = releases[run.tag].content[f]

Apply2 ==
  /\ run.pc = "apply2"
  /\ LET v == IF run.base THEN releases[run.tag].base["v2"] ELSE Head(run.chain)
         files == IF run.base THEN Tiers ELSE Delta("v2", v)
         there == run.base \/ (releases[v].live /\ ~releases[v].lost)
     IN \/ /\ run.base \/ run.chain # <<>>
           /\ Needed(files) = {} \/ there
           /\ Extract(v, files)
        \/ /\ run.base \/ run.chain # <<>>
           /\ Needed(files) # {} /\ (~calm \/ ~there)
           /\ Sweep
        \/ /\ ~run.base /\ run.chain = <<>>
           /\ IF Complete2 THEN Step("publish2") ELSE Step("sweep")
           /\ UNCHANGED dirs
  /\ UNCHANGED <<world, meta>>

\* One blocking task: index.json and rename, then pointer and prune.
Publish2 ==
  /\ run.pc = "publish2"
  /\ \/ ~calm /\ Sweep
     \/ /\ dirs' = [dirs EXCEPT ![run.dir].at = "formal", ![run.dir].version = run.tag]
        /\ Step("point2")
  /\ UNCHANGED <<world, meta>>

Point2 ==
  /\ run.pc = "point2"
  /\ \/ ~calm /\ Sweep /\ UNCHANGED meta
     \/ /\ meta' = Points("v2")
        /\ \E gone \in {{}, Prunable(run.dir)} : dirs' = Pruned(dirs, gone)
        /\ Finish
  /\ UNCHANGED world

Swept == [dirs EXCEPT ![run.dir] = Empty]

\* Candidate::cleanup, also in the task of a dropped run.
Remove2 ==
  /\ run.pc = "sweep"
  /\ \/ dirs' = Swept /\ UNCHANGED faults
     \/ Fault("disk") /\ UNCHANGED dirs
  /\ Finish
  /\ UNCHANGED <<releases, calm, meta>>

-----------------------------------------------------------------------------
RunStep ==
  \/ List \/ Index1 \/ Stage1 \/ Apply1 \/ Verify1 \/ Point1
  \/ Clean2 \/ Index2 \/ Walk2 \/ Stage2 \/ Reuse2 \/ Back2 \/ Apply2
  \/ Publish2 \/ Point2 \/ Remove2

Next ==
  \/ \E carries \in Kinds, change \in Changes, rebase \in BOOLEAN :
       Publish(carries, change, rebase)
  \/ Withdraw \/ Crash \/ Drop
  \/ \E v \in DOMAIN releases : LoseAsset(v)
  \/ \E f \in Tiers : Damage(f)
  \/ \E original \in Wants : Begin(original)
  \/ RunStep

Spec == Init /\ [][Next]_vars

\* The schedule starts run after run, and a run goes on while it is awaited or
\* its task is.  Nothing is assumed of the publisher; faults end.
FairSpec ==
  /\ Init /\ [][Next \/ Calm]_vars /\ WF_vars(Calm) /\ WF_vars(RunStep)
  /\ \A original \in Wants : WF_vars(Begin(original))

-----------------------------------------------------------------------------
(* Properties.                                                             *)

\* The pointer always names a complete tree of its own version: no prune,
\* cleanup, failed or dropped run removes it or changes its index.
PointerResolves ==
  meta.dir # 0 => LET d == dirs[meta.dir]
                  IN d.at = "formal" /\ d.version = meta.current /\ d.kind = meta.kind

\* A generation is activated only with every wanted file as its index says:
\* whatever is missing, served wrong, damaged or withdrawn on the way.
ActivatesComplete ==
  meta' # meta =>
       \A f \in IF meta'.original THEN Tiers ELSE Tiers \ {"original"} :
         dirs'[meta'.dir].files[f] = releases[meta'.current].content[f]

\* With v2 active the data never goes back: neither to v1 nor to an older
\* version, even when the newer release was withdrawn.
NeverBack ==
  meta.kind = "v2" => meta'.kind = "v2" /\ meta'.current >= meta.current

\* The files of the active generation are changed by nobody but the disk: a run
\* works on its own candidate, whoever dropped or killed the one before.
ActiveIsImmutable ==
  meta.dir # 0 /\ dirs'[meta.dir] # dirs[meta.dir] =>
       \/ faults' = faults + 1
       \/ meta'.dir # meta.dir

Serves(tag) == Active # 0 /\ meta.current = tag

\* A v1 run copies the active tree as it is: a file that the disk has damaged
\* there fails the check of every run, until a delta brings it anew or another
\* baseline comes.
Stuck(tag) ==
  /\ Active # 0 /\ meta.base = releases[tag].base["v1"] /\ meta.current < tag
  /\ \E f \in Tiers :
       /\ dirs[Active].files[f] # releases[meta.current].content[f]
       /\ \A v \in Live("v1") : meta.current < v /\ v <= tag => f \notin Delta("v1", v)

\* Once faults end, the directory comes to the latest release and stays there.
Converges == <>[](Latest("v1") # 0 => Serves(Latest("v1")) \/ Stuck(Latest("v1")))

ConvergesV2 == <>[](Latest("v2") # 0 => Active # 0 /\ meta.current >= Latest("v2"))

\* Candidates of killed and dropped v2 runs do not stay; those of v1 runs do.
Tidy == []<>(\A d \in Dirs : dirs[d].kind = "v2" => dirs[d].at # "staging")

=============================================================================
