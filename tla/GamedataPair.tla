---------------------------- MODULE GamedataPair ----------------------------
(***************************************************************************)
(* The paired activation of game data: sync/release.rs (download one       *)
(* archive), sync/pair.rs (extract it into a generation tree, publish the  *)
(* pair), the prune of sync/activation.rs, and the readers of              *)
(* storage/generation.rs and app/json.rs.                                  *)
(*                                                                         *)
(* One synchronizer at a time holds .gamedata-pair.lock (see               *)
(* ActivationLock); it may be killed between any two writes of the disk,   *)
(* and the disk stays as it is.  An action is what happens between two     *)
(* such writes.  A release is a number, a tree is its content and whether  *)
(* it is older than the retention (24 h).                                  *)
(***************************************************************************)
EXTENDS Integers, FiniteSets

CONSTANTS
  MaxRelease,  \* bound of the model: releases published upstream
  Slots,       \* bound of the model: generation trees of one archive at a time
  Mirrors,     \* is a download mirror configured?
  Yanks,       \* may the latest release be withdrawn upstream?
  Aliased,     \* is the data root reached through an alias (a symbolic link, or
               \* Windows, where realpaths are spelled \\?\C:\...)?
  MaxFaults,   \* bound of the model: kills, failed writes and lost archives
  Settles      \* do the network and the disk ever work for good?

ASSUME ConstantsAssumption ==
  /\ MaxRelease \in Nat \ {0}
  /\ IsFiniteSet(Slots) /\ Slots \subseteq Nat \ {0}
  /\ {Mirrors, Yanks, Aliased, Settles} \subseteq BOOLEAN /\ MaxFaults \in Nat

Archives == {"excel", "levels"}
Root == Slots \cup {0}  \* 0 is the local root itself, the legacy layout

\* What a commit_sha can be.
None == <<"none", 0>>
Legacy == <<"legacy", 0>>
Unknown == <<"unknown", 0>>        \* blind download of "latest"
Release(n) == <<"release", n>>
LocalHash(n) == <<"local", n>>     \* local-<sha256 of the zip>
Labels == {None, Legacy, Unknown} \cup {Release(n) : n \in 1..MaxRelease}
          \cup {LocalHash(n) : n \in 1..MaxRelease}

NoZip == 0      \* missing, or not a valid archive
NoTree == [content |-> -1, old |-> FALSE]
LegacyTree == [content |-> 0, old |-> FALSE]

VARIABLES
  latest,   \* the newest release listed upstream
  calm,     \* from here on the network and the disk work
  faults,
  disk,     \* per archive: the zip, release_meta, extract_meta, the trees
  pair,     \* .gamedata_pair.json
  pc, at, force, result

vars == <<latest, calm, faults, disk, pair, pc, at, force, result>>
world == <<latest, calm, faults>>

Disk == [zip : 0..MaxRelease,
         meta : Labels,          \* release_meta.json: commit_sha ...
         fresh : BOOLEAN,        \* ... and fetched_at within the TTL
         sha : Labels,           \* extract_meta.json: commit_sha ...
         root : Root,            \* ... and data_root
         trees : [Root -> [content : -1..MaxRelease, old : BOOLEAN]]]
Pair == [sha : Labels, excel : Root, levels : Root]
NoPair == [sha |-> None, excel |-> 0, levels |-> 0]
Statuses == {"updated", "up_to_date", "offline_fallback", "no_data"}
\* What a step of the synchronizer hands to the next one.
Result == [status : Statuses, sha : Labels, root : Root]
NoResult == [status |-> "no_data", sha |-> None, root |-> 0]

TypeOK ==
  /\ latest \in 1..MaxRelease
  /\ calm \in BOOLEAN
  /\ faults \in 0..MaxFaults
  /\ disk \in [Archives -> Disk]
  /\ pair \in Pair
  /\ pc \in {"idle", "release", "stamp", "decide", "extract", "publish", "save"}
  /\ at \in Archives
  /\ force \in BOOLEAN
  /\ result \in Result

\* A new volume, or one in the layout before generations (files in the roots).
Init ==
  /\ latest = 1
  /\ calm = FALSE
  /\ faults = 0
  /\ \E legacy \in {NoTree, LegacyTree} :
       disk = [a \in Archives |->
         [zip |-> NoZip, meta |-> None, fresh |-> FALSE, sha |-> None, root |-> 0,
          trees |-> [r \in Root |-> IF r = 0 THEN legacy ELSE NoTree]]]
  /\ pair = NoPair
  /\ pc = "idle"
  /\ at = "excel"
  /\ force = FALSE
  /\ result = NoResult

-----------------------------------------------------------------------------
(* Readers of the disk.                                                    *)

Exists(a, r) == disk[a].trees[r] # NoTree

\* load_extract_meta: None unless its directory exists.
Extracted(a) == disk[a].sha # None /\ Exists(a, disk[a].root)
ExtractedSha(a) == IF Extracted(a) THEN disk[a].sha ELSE None
ActiveRoot(a) == IF Extracted(a) THEN disk[a].root ELSE 0

\* load_gamedata_pair: None unless both roots hold the required files.
PairValid == pair # NoPair /\ Exists("excel", pair.excel) /\ Exists("levels", pair.levels)

SameGeneration == ExtractedSha("excel") # None /\ ExtractedSha("excel") = ExtractedSha("levels")

\* save_gamedata_pair
WritePair(sha) ==
  pair' = [sha |-> sha, excel |-> ActiveRoot("excel"), levels |-> ActiveRoot("levels")]

\* Faults: the comparison ignores the order of releases; a newer upstream
\* release is never installed.
FaultDowngrades(local, upstream) == local = Release(upstream)
FaultNeverUpdates(local, upstream) == local # None

\* release_up_to_date: no downgrade; labels that do not parse must be equal.
UpToDate(local, upstream) ==
  IF local[1] = "release" THEN local[2] >= upstream ELSE FALSE

\* Fault: only the lock is taken, nothing is touched.
FaultNoTouch(trees, r) == trees

\* utimes(now): the tree is young again.
Touch(trees, r) == [trees EXCEPT ![r].old = FALSE]

\* Fault: the keep set is not consulted.
FaultIgnoresKeep(trees, keep) ==
  [r \in Root |-> IF r # 0 /\ trees[r].old THEN NoTree ELSE trees[r]]

\* The keep set holds realpaths, the candidates are spelled as configured.
RealPaths(roots) == IF Aliased THEN {} ELSE roots

\* prune_release_trees: what is not kept goes once it is past the retention.
Prune(trees, keep) ==
  [r \in Root |-> IF r # 0 /\ r \notin keep /\ trees[r].old THEN NoTree ELSE trees[r]]

-----------------------------------------------------------------------------
(* sync_release_archive_pair, from the lock to the first archive.          *)

\* initialize_gamedata_pair rebuilds a missing pair from the extract metas;
\* then the roots of the pair are touched.
Start(forced) ==
  /\ pc = "idle"
  /\ LET rebuilt ==
           IF PairValid THEN pair
           ELSE IF ExtractedSha("excel") = None /\ ExtractedSha("levels") = None
                   /\ Exists("excel", 0) /\ Exists("levels", 0)
             THEN [sha |-> Legacy, excel |-> 0, levels |-> 0]
           ELSE IF SameGeneration
             THEN [sha |-> ExtractedSha("excel"),
                   excel |-> ActiveRoot("excel"), levels |-> ActiveRoot("levels")]
           ELSE pair
         usable == /\ rebuilt # NoPair
                   /\ Exists("excel", rebuilt.excel) /\ Exists("levels", rebuilt.levels)
     IN /\ pair' = rebuilt
        /\ disk' = IF usable
             THEN [disk EXCEPT !["excel"].trees = Touch(@, rebuilt.excel),
                               !["levels"].trees = Touch(@, rebuilt.levels)]
             ELSE disk
  /\ pc' = "release"
  /\ at' = "excel"
  /\ force' = forced
  /\ UNCHANGED <<world, result>>

-----------------------------------------------------------------------------
(* sync_release_locked for the archive `at`.                               *)

Here == disk[at]
ZipOk == Here.zip # NoZip
Answer(status, sha) ==
  /\ result' = [status |-> status, sha |-> sha, root |-> 0]
  /\ pc' = "decide"
  /\ UNCHANGED <<world, pair, at, force>>

UseCache ==
  /\ pc = "release"
  /\ ~force /\ Here.meta # None /\ ZipOk /\ Here.fresh
  /\ Answer("up_to_date", Here.meta)
  /\ UNCHANGED disk

AsksUpstream == pc = "release" /\ ~(~force /\ Here.meta # None /\ ZipOk /\ Here.fresh)

\* Fault: without a listing the installed archive is assumed to be there.
FaultAlwaysFallsBack ==
  /\ AsksUpstream
  /\ ~calm
  /\ Answer("offline_fallback", Here.meta)
  /\ UNCHANGED disk

\* No listing: what is installed is kept; a recorded release is not replaced
\* blindly; without mirrors there is nothing to try.
Offline ==
  /\ AsksUpstream
  /\ ~calm
  /\ Answer(IF ZipOk THEN "offline_fallback" ELSE "no_data", Here.meta)
  /\ UNCHANGED disk

\* The archive is in place; release_meta.json is not written yet.
Download(content, label) ==
  /\ disk' = [disk EXCEPT ![at].zip = content]
  /\ result' = [status |-> "updated", sha |-> label, root |-> 0]
  /\ pc' = "stamp"
  /\ UNCHANGED <<world, pair, at, force>>

\* The download failed: the old archive and its record are kept.  Or only the
\* record could not be written, and the archive is the new one.
DownloadFails(content) ==
  /\ result' = [status |-> IF ZipOk THEN "offline_fallback" ELSE "no_data",
                sha |-> IF ZipOk THEN Here.meta ELSE None, root |-> 0]
  /\ pc' = "decide"
  /\ \/ ~calm /\ UNCHANGED <<disk, faults>>
     \/ /\ faults < MaxFaults
        /\ faults' = faults + 1
        /\ disk' = [disk EXCEPT ![at].zip = content]
  /\ UNCHANGED <<latest, calm, pair, at, force>>

\* No listing and nothing recorded: "latest" is downloaded through a mirror.
BlindDownload ==
  /\ AsksUpstream
  /\ ~calm
  /\ Mirrors /\ ~ZipOk /\ Here.meta[1] # "release"
  /\ Download(latest, Unknown) \/ DownloadFails(latest)

\* A recorded release is newer than upstream and its archive is missing.
RefuseDowngrade ==
  /\ AsksUpstream
  /\ ~ZipOk /\ Here.meta[1] = "release" /\ Here.meta[2] > latest
  /\ Answer("no_data", Here.meta)
  /\ UNCHANGED disk

Current ==
  /\ AsksUpstream
  /\ ZipOk /\ UpToDate(Here.meta, latest)
  /\ disk' = [disk EXCEPT ![at].fresh = TRUE]
  /\ Answer("up_to_date", Here.meta)

Update ==
  /\ AsksUpstream
  /\ ~(~ZipOk /\ Here.meta[1] = "release" /\ Here.meta[2] > latest)
  /\ ~(ZipOk /\ UpToDate(Here.meta, latest))
  /\ Download(latest, Release(latest)) \/ DownloadFails(latest)

\* save_release_meta, after the rename.
Stamp ==
  /\ pc = "stamp"
  /\ disk' = [disk EXCEPT ![at].meta = result.sha, ![at].fresh = TRUE]
  /\ pc' = "decide"
  /\ UNCHANGED <<world, pair, at, force, result>>

-----------------------------------------------------------------------------
(* sync_release_archive_locked: decide, extract, publish.                  *)

NextArchive ==
  IF at = "excel" THEN at' = "levels" /\ pc' = "release"
                  ELSE UNCHANGED at /\ pc' = "save"

\* Prune, then: is the archive extracted again?  Always after a download,
\* otherwise when what was extracted is missing or has another label.
Decide ==
  /\ pc = "decide"
  /\ LET pruned == Prune(Here.trees, RealPaths({ActiveRoot(at)}))
     IN /\ disk' = [disk EXCEPT ![at].trees = pruned]
        /\ IF /\ result.status # "no_data"
              /\ \/ result.status = "updated"
                 \/ pruned[ActiveRoot(at)] = NoTree
                 \/ ExtractedSha(at) = None
                 \/ result.sha # None /\ ExtractedSha(at) # result.sha
             THEN pc' = "extract" /\ UNCHANGED at
             ELSE NextArchive
  /\ UNCHANGED <<world, pair, force, result>>

\* The archive is left alone: the source guard refuses its directory, or its
\* .activation.lock is not obtained within the budget.
SkipArchive ==
  /\ pc = "release"
  /\ ~calm
  /\ NextArchive
  /\ UNCHANGED <<world, disk, pair, force, result>>

\* archive_activation_sha
ActivationSha == IF result.sha # None THEN result.sha ELSE LocalHash(Here.zip)

\* The name of a tree ends in a random suffix: a new one is never the tree that
\* extract_meta.json names, even if that tree is gone.
FreeSlots == {r \in Slots : ~Exists(at, r) /\ r # disk[at].root}

\* Staging, then the second look at extract_meta, then the rename of the
\* staged tree.  A failure (or a full disk) drops the staging directory.
Extract ==
  /\ pc = "extract"
  /\ \/ /\ ExtractedSha(at) = ActivationSha
        /\ NextArchive
        /\ UNCHANGED <<disk, result>>
     \/ \E r \in FreeSlots :
          /\ ExtractedSha(at) # ActivationSha
          /\ \A s \in FreeSlots : r <= s
          /\ disk' = [disk EXCEPT ![at].trees[r] = [content |-> Here.zip, old |-> FALSE]]
          /\ result' = [result EXCEPT !.sha = ActivationSha, !.root = r]
          /\ pc' = "publish"
          /\ UNCHANGED at
     \/ /\ ~calm \/ FreeSlots = {}
        /\ NextArchive
        /\ UNCHANGED <<disk, result>>
  /\ UNCHANGED <<world, pair, force>>

\* The generation left behind is touched, extract_meta.json switches, and
\* trees past the retention are pruned.  Or the record cannot be written, or
\* the synchronizer gets no further than the record.
Publish ==
  /\ pc = "publish"
  /\ LET left == ActiveRoot(at)
         trees == IF left # 0 /\ ~Aliased THEN Touch(Here.trees, left) ELSE Here.trees
         keep == RealPaths({left}) \cup {result.root}
     IN \/ /\ disk' = [disk EXCEPT ![at].sha = result.sha, ![at].root = result.root,
                                   ![at].trees = Prune(trees, keep)]
           /\ UNCHANGED faults
        \/ /\ faults < MaxFaults
           /\ faults' = faults + 1
           /\ \/ disk' = [disk EXCEPT ![at].trees = trees]
              \/ disk' = [disk EXCEPT ![at].sha = result.sha, ![at].root = result.root,
                                      ![at].trees = trees]
  /\ NextArchive
  /\ UNCHANGED <<latest, calm, pair, force, result>>

\* Fault: the pair is published whatever the two generations are.
FaultPublishesMixed ==
  /\ pc = "save"
  /\ IF Extracted("excel") /\ Extracted("levels")
       THEN WritePair(ExtractedSha("excel")) ELSE UNCHANGED pair
  /\ pc' = "idle"
  /\ UNCHANGED <<world, disk, at, force, result>>

\* The pair switches when both archives are at one commit_sha.
SavePair ==
  /\ pc = "save"
  /\ IF SameGeneration THEN WritePair(ExtractedSha("excel")) ELSE UNCHANGED pair
  /\ pc' = "idle"
  /\ at' = "excel"
  /\ force' = FALSE
  /\ result' = NoResult
  /\ UNCHANGED <<world, disk>>

-----------------------------------------------------------------------------
(* The environment.                                                        *)

\* The synchronizer is killed.
Kill ==
  /\ pc # "idle" /\ ~calm /\ faults < MaxFaults
  /\ faults' = faults + 1
  /\ pc' = "idle"
  /\ at' = "excel"
  /\ force' = FALSE
  /\ result' = NoResult
  /\ UNCHANGED <<latest, calm, disk, pair>>

\* A stored archive is deleted or damaged.
LoseZip(a) ==
  /\ pc = "idle" /\ ~calm /\ faults < MaxFaults
  /\ disk[a].zip # NoZip
  /\ faults' = faults + 1
  /\ disk' = [disk EXCEPT ![a].zip = NoZip]
  /\ UNCHANGED <<latest, calm, pair, pc, at, force, result>>

\* An hour, or a day, without synchronization.
Hour ==
  /\ pc = "idle"
  /\ disk' = [a \in Archives |-> [disk[a] EXCEPT !.fresh = FALSE]]
  /\ UNCHANGED <<world, pair, pc, at, force, result>>

Day ==
  /\ pc = "idle"
  /\ disk' = [a \in Archives |-> [disk[a] EXCEPT !.fresh = FALSE,
        !.trees = [r \in Root |-> IF Exists(a, r) /\ r # 0
                                    THEN [@[r] EXCEPT !.old = TRUE] ELSE @[r]]]]
  /\ UNCHANGED <<world, pair, pc, at, force, result>>

NewRelease ==
  /\ latest < MaxRelease /\ ~calm
  /\ latest' = latest + 1
  /\ UNCHANGED <<calm, faults, disk, pair, pc, at, force, result>>

Yank ==
  /\ Yanks /\ latest > 1 /\ ~calm
  /\ latest' = latest - 1
  /\ UNCHANGED <<calm, faults, disk, pair, pc, at, force, result>>

Calm ==
  /\ Settles /\ ~calm
  /\ calm' = TRUE
  /\ UNCHANGED <<latest, faults, disk, pair, pc, at, force, result>>

-----------------------------------------------------------------------------
Sync ==
  \/ UseCache \/ Offline \/ BlindDownload \/ RefuseDowngrade \/ Current \/ Update
  \/ SkipArchive \/ Stamp \/ Decide \/ Extract \/ Publish \/ SavePair

Next ==
  \/ \E forced \in BOOLEAN : Start(forced)
  \/ Sync
  \/ Kill \/ (\E a \in Archives : LoseZip(a))
  \/ Hour \/ Day \/ NewRelease \/ Yank \/ Calm

(* The worker polls again and again without force_check, more rarely than  *)
(* the TTL of the cache: time passes between two rounds.                   *)
Fairness == WF_vars(Start(FALSE)) /\ WF_vars(Sync) /\ SF_vars(Hour)

Spec == Init /\ [][Next]_vars /\ Fairness

-----------------------------------------------------------------------------
(* Properties.                                                             *)

(* The published pair never dangles: no prune, of either archive, takes a  *)
(* tree that .gamedata_pair.json names, although each prune only knows     *)
(* the active tree of its own archive.                                     *)
PairRootsExist ==
  pair # NoPair => Exists("excel", pair.excel) /\ Exists("levels", pair.levels)

(* activation.rs, archive_activation_sha: "zip exists (checked by caller)": *)
(* the branches of the decision tree that lead to an extraction all have   *)
(* an archive, or the task would panic.                                    *)
ExtractHasArchive ==
  pc \in {"decide", "extract"} /\ result.status # "no_data" => ZipOk

Content(a, r) == disk[a].trees[r].content

(* The two trees of the published pair come from one release.              *)
PairIsOneGeneration ==
  pair # NoPair => Content("excel", pair.excel) = Content("levels", pair.levels)

(* An installed release is never replaced by an older one, whatever the    *)
(* upstream lists and whatever is lost locally.                            *)
NoDowngrade ==
  [][\A a \in Archives : disk[a].sha[1] = "release" /\ disk'[a].sha # disk[a].sha
       => disk'[a].sha[1] = "release" /\ disk'[a].sha[2] > disk[a].sha[2]]_vars

(* What the readers resolve: the pair, or each archive's active root.      *)
Served(a) ==
  Content(a, IF PairValid THEN (IF a = "excel" THEN pair.excel ELSE pair.levels)
                          ELSE ActiveRoot(a))

(* Data that was served stays served, whatever fails, is killed, is lost   *)
(* or is pruned: "queries are never interrupted" (data-and-sync.md).       *)
KeepsServing ==
  [][\A a \in Archives : Served(a) # -1 => Served(a)' # -1]_vars

(* When the network and the disk work again, the pair reaches the release  *)
(* upstream and stays there, from every state faults may have left; unless *)
(* an archive holds a release that was withdrawn, and waits for its like.  *)
Withdrawn(a) == \E label \in {disk[a].meta, disk[a].sha} :
  label[1] = "release" /\ label[2] > latest
Converges ==
  (calm /\ pc = "idle" /\ \A a \in Archives : ~Withdrawn(a))
    ~> [](pair.sha = Release(latest))

(* primitives.rs, prune_old_trees: "Delete non-kept entries": the tree an  *)
(* archive is using survives that archive's own prune, which is told to    *)
(* keep it (sync_release_archive_locked, pair.rs).                         *)
KeptTreeStays ==
  [][pc = "decide" /\ Extracted(at) => Exists(at, disk[at].root)']_vars

(* The synchronizer implements a pointer that only moves forward: until    *)
(* something fails, the pair goes from one whole release to a newer one;   *)
(* after that it is still never withdrawn.                                 *)
Pointer == INSTANCE GenerationPointer WITH
  Last <- MaxRelease,
  excel <- IF pair = NoPair THEN -1 ELSE Content("excel", pair.excel),
  levels <- IF pair = NoPair THEN -1 ELSE Content("levels", pair.levels),
  whole <- faults = 0
ImplementsPointer == Pointer!Spec
=============================================================================
