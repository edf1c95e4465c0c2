---------------------------- MODULE ReleaseFetch ----------------------------
(***************************************************************************)
(* One archive from the release page to its place: sync/discovery.rs (what *)
(* a tag says, which release is the newest, a walk over the pages),        *)
(* sync/transport.rs (a request tries the direct address, then mirrors),   *)
(* sync/validation.rs (is the story pack whole), and sync/release.rs (the  *)
(* decision, the download, the manifest, the record).                      *)
(*                                                                         *)
(* Releases are published and withdrawn between any two requests; a mirror *)
(* may serve what it cached of another release.  The bytes of a release    *)
(* are its place in Plan.  A walk over the pages, for the chain of image   *)
(* deltas, goes on beside the archive.                                     *)
(***************************************************************************)
EXTENDS Integers, FiniteSets, FiniteSetsExt

CONSTANTS
  Plan,       \* sequence of releases in the order they are published:
              \* [ns, vid, rev, draft, manifest, pack]
  PerPage,    \* releases on a page (100 in the code)
  MaxPages,   \* pages a walk reads (20 in the code); 0: nobody walks
  Mirrors,    \* number of configured mirrors
  Verify,     \* the dataset's verifyManifest
  Start,      \* the version a walk has to reach (apply_after)
  Withdraws,  \* may releases be withdrawn?
  MaxKills    \* bound of the model

Releases == DOMAIN Plan
Candidates == 0..Mirrors   \* the direct address, then each mirror

VARIABLES
  shown,    \* releases listed upstream
  last,     \* the release published last
  disk,     \* [zip, meta, fresh, temps]: the archive, release_meta.json, .tmp files
  run,      \* the synchronizer: [pc, force, tag, got, candidate, claim]
  walk,     \* list_releases_paginated: [pc, page, got, from]
  kills
vars == <<shown, last, disk, run, walk, kills>>

NoZip == 0
\* A commit_sha: absent, "unknown" (a blind download), or the suffix of a tag.
NoMeta == <<"none">>
Unknown == <<"unknown">>

\* tag_suffix: data-<vid> -> <vid>, datarev-<vid>-r<N> -> <vid>-r<N>
TagSuffix(r) == IF Plan[r].ns = "data" THEN <<"vid", Plan[r].vid>>
                ELSE <<"vid-r", Plan[r].vid, Plan[r].rev>>

\* parse_data_tag: only the two data namespaces are data.
IsData(r) == Plan[r].ns \in {"data", "datarev"}
ParseDataTag(r) == <<Plan[r].vid, IF Plan[r].ns = "data" THEN 1 ELSE Plan[r].rev>>

\* parse_release_suffix; "unknown" is a sentinel.
Parses(sha) == sha[1] \in {"vid", "vid-r"}
ParseReleaseSuffix(sha) == <<sha[2], IF sha[1] = "vid" THEN 1 ELSE sha[3]>>

\* is_newer(a, b): b is the newer one.
IsNewer(a, b) == IF a[1] # b[1] THEN b[1] > a[1] ELSE b[2] > a[2]

Page(n) == LET before == {r \in shown : Cardinality({s \in shown : s > r}) < (n - 1) * PerPage}
               upto == {r \in shown : Cardinality({s \in shown : s > r}) < n * PerPage}
           IN upto \ before

\* latest_data_release on the first page: {} when there is none, or when two
\* releases claim one identity.
Eligible(page) == {r \in page : IsData(r) /\ ~Plan[r].draft}
Duplicate(page) == \E r, s \in Eligible(page) : r # s /\ ParseDataTag(r) = ParseDataTag(s)
LatestData(page) == {r \in Eligible(page) :
  \A s \in Eligible(page) : ~IsNewer(ParseDataTag(r), ParseDataTag(s))}

\* validate_storyjson_zip: both base files, and every chapter that the review
\* table or the supplement names; a table that cannot be read is an error.
Complete(pack) ==
  /\ {"review_table", "storyinfo"} \subseteq pack.entries
  /\ pack.table # {"unreadable"} /\ pack.table \subseteq pack.entries
  /\ "supplement" \in pack.entries =>
       pack.supplement # {"unreadable"} /\ pack.supplement \subseteq pack.entries
Torn == -1     \* what is left of an interrupted transfer
ZipOk(content) == content \in Releases /\ Complete(Plan[content].pack)

\* release_up_to_date
UpToDate(local, upstream) ==
  IF Parses(local) /\ Parses(upstream)
  THEN ~IsNewer(ParseReleaseSuffix(local), ParseReleaseSuffix(upstream))
  ELSE local = upstream

Idle == [pc |-> "idle", force |-> FALSE, tag |-> 0, got |-> NoZip, candidate |-> 0]
NoWalk == [pc |-> "idle", page |-> 0, got |-> {}, from |-> {}]
Init ==
  /\ shown = {} /\ last = 0
  /\ disk = [zip |-> NoZip, meta |-> NoMeta, fresh |-> FALSE, temps |-> 0]
  /\ run = Idle
  /\ walk = NoWalk
  /\ kills = 0

-----------------------------------------------------------------------------
(* sync_release_locked up to the download.                                 *)

Begin(force) ==
  /\ run.pc = "idle"
  /\ LET cached == ~force /\ disk.meta # NoMeta /\ ZipOk(disk.zip) /\ disk.fresh
     IN run' = IF cached THEN Idle ELSE [Idle EXCEPT !.pc = "list"]
  /\ UNCHANGED <<shown, last, disk, walk, kills>>

ListFails ==
  /\ run.pc = "list"
  /\ run' = IF ZipOk(disk.zip) \/ Parses(disk.meta) \/ Mirrors = 0 THEN Idle
            ELSE [run EXCEPT !.pc = "download", !.tag = 0, !.candidate = 0]
  /\ UNCHANGED <<shown, last, disk, walk, kills>>

\* Fault: a recorded release with a lost archive may be replaced by an older one.
FaultDowngrades(sha) == FALSE

\* A recorded release outranks a missing archive.
Downgrades(sha) ==
  /\ disk.meta # NoMeta /\ ~ZipOk(disk.zip) /\ Parses(disk.meta)
  /\ IsNewer(ParseReleaseSuffix(sha), ParseReleaseSuffix(disk.meta))

List ==
  /\ run.pc = "list"
  /\ \/ Duplicate(Page(1)) /\ run' = Idle /\ UNCHANGED disk
     \/ /\ ~Duplicate(Page(1)) /\ Eligible(Page(1)) # {}
        /\ \E r \in LatestData(Page(1)) :
             IF Downgrades(TagSuffix(r)) THEN run' = Idle /\ UNCHANGED disk
             ELSE IF disk.meta # NoMeta /\ ZipOk(disk.zip) /\ UpToDate(disk.meta, TagSuffix(r))
             THEN run' = Idle /\ disk' = [disk EXCEPT !.fresh = TRUE]
             ELSE /\ run' = [run EXCEPT !.pc = "download", !.tag = r, !.candidate = 0]
                  /\ UNCHANGED disk
  /\ UNCHANGED <<shown, last, walk, kills>>

-----------------------------------------------------------------------------
(* One request: candidates in turn.                                        *)

\* "Latest" is whatever was published last, of any namespace.
Named == IF run.tag # 0 THEN run.tag ELSE IF shown = {} THEN 0 ELSE Max(shown)

\* A timeout, a refused connection or a server error goes to the next one.
NextCandidate ==
  /\ run.pc \in {"download", "manifest"} /\ run.candidate < Mirrors
  /\ run' = [run EXCEPT !.candidate = @ + 1]
  /\ UNCHANGED <<shown, last, disk, walk, kills>>

\* The error path of download_release_asset removes the temporary file.
Abort ==
  /\ run' = Idle
  /\ disk' = [disk EXCEPT !.temps = @ - (IF run.pc = "download" THEN 0 ELSE 1)]
  /\ UNCHANGED <<shown, last, walk, kills>>

\* No candidate is left, or the direct address answers 4xx.
RequestFails ==
  /\ run.pc \in {"download", "manifest"}
  /\ run.candidate = Mirrors \/ run.candidate = 0
  /\ Abort

\* The direct address has the asset of the release as long as it is listed; a
\* mirror may have that of any release.  The stream may break off.
Served == IF run.candidate = 0 THEN {Named} \cap shown ELSE 1..last
Download ==
  /\ run.pc = "download"
  /\ \E content \in Served \cup {Torn} :
       /\ disk' = [disk EXCEPT !.temps = @ + 1]
       /\ run' = [run EXCEPT !.pc = "check", !.got = content]
  /\ UNCHANGED <<shown, last, walk, kills>>

Check ==
  /\ run.pc = "check"
  /\ IF ~ZipOk(run.got) THEN Abort
     ELSE /\ run' = [run EXCEPT !.pc = IF Verify THEN "manifest" ELSE "rename", !.candidate = 0]
          /\ UNCHANGED <<shown, last, disk, walk, kills>>

\* A direct 404: the release is older than manifests, unless it is a revision.
ManifestAbsent(r) == Plan[r].ns # "datarev"

\* verify_release_manifest: of the tag (version and revision), of these bytes.
Matches(r, content) ==
  /\ run.tag # 0 => Plan[r].manifest # "other"
  /\ content = r

Manifest ==
  /\ run.pc = "manifest" /\ run.candidate = 0
  /\ IF Named = 0 \/ Named \notin shown \/ Plan[Named].manifest = "none"
     THEN IF run.tag = 0 \/ ManifestAbsent(run.tag)
          THEN run' = [run EXCEPT !.pc = "rename"] /\ UNCHANGED <<shown, last, disk, walk, kills>>
          ELSE Abort
     ELSE IF Matches(Named, run.got)
          THEN run' = [run EXCEPT !.pc = "rename"] /\ UNCHANGED <<shown, last, disk, walk, kills>>
          ELSE Abort

\* A mirror has the manifest of the address it is asked for, or nothing.
MirroredManifest ==
  /\ run.pc = "manifest" /\ run.candidate > 0
  /\ Named # 0 /\ Plan[Named].manifest # "none"
  /\ IF Matches(Named, run.got)
     THEN run' = [run EXCEPT !.pc = "rename"] /\ UNCHANGED <<shown, last, disk, walk, kills>>
     ELSE Abort

Rename ==
  /\ run.pc = "rename"
  /\ disk' = [disk EXCEPT !.zip = run.got, !.temps = @ - 1]
  /\ run' = [run EXCEPT !.pc = "save"]
  /\ UNCHANGED <<shown, last, walk, kills>>

Save ==
  /\ run.pc = "save"
  /\ disk' = [disk EXCEPT !.meta = IF run.tag = 0 THEN Unknown ELSE TagSuffix(run.tag),
                          !.fresh = TRUE]
  /\ run' = Idle
  /\ UNCHANGED <<shown, last, walk, kills>>

-----------------------------------------------------------------------------
(* list_releases_paginated, until a page reaches Start.                    *)

BeginWalk ==
  /\ walk.pc = "idle" /\ MaxPages > 0
  /\ walk' = [pc |-> "page", page |-> 1, got |-> {}, from |-> shown]
  /\ UNCHANGED <<shown, last, disk, run, kills>>

\* A page with a match, or a short one, ends the walk.
Ends(page) == (\E r \in page : r <= Start) \/ Cardinality(page) < PerPage

ReadPage ==
  /\ walk.pc = "page"
  /\ LET page == Page(walk.page)
     IN walk' = IF Ends(page) THEN [walk EXCEPT !.pc = "done", !.got = @ \cup page]
                ELSE IF walk.page = MaxPages THEN NoWalk
                ELSE [walk EXCEPT !.page = @ + 1, !.got = @ \cup page]
  /\ UNCHANGED <<shown, last, disk, run, kills>>

PageFails == walk.pc = "page" /\ walk' = NoWalk /\ UNCHANGED <<shown, last, disk, run, kills>>
EndWalk == walk.pc = "done" /\ walk' = NoWalk /\ UNCHANGED <<shown, last, disk, run, kills>>

-----------------------------------------------------------------------------
(* The environment.                                                        *)

Publish ==
  /\ last + 1 \in Releases
  /\ last' = last + 1 /\ shown' = shown \cup {last + 1}
  /\ UNCHANGED <<disk, run, walk, kills>>

Withdraw(r) ==
  /\ Withdraws
  /\ shown' = shown \ {r}
  /\ UNCHANGED <<last, disk, run, walk, kills>>

Kill ==
  /\ kills < MaxKills /\ run.pc # "idle"
  /\ kills' = kills + 1 /\ run' = Idle
  /\ UNCHANGED <<shown, last, disk, walk>>

LoseZip ==
  /\ kills < MaxKills /\ run.pc = "idle" /\ disk.zip # NoZip
  /\ kills' = kills + 1 /\ disk' = [disk EXCEPT !.zip = NoZip]
  /\ UNCHANGED <<shown, last, run, walk>>

Age == disk' = [disk EXCEPT !.fresh = FALSE] /\ UNCHANGED <<shown, last, run, walk, kills>>

Next ==
  \/ \E force \in BOOLEAN : Begin(force)
  \/ ListFails \/ List \/ NextCandidate \/ RequestFails \/ Download \/ Check
  \/ Manifest \/ MirroredManifest \/ Rename \/ Save
  \/ BeginWalk \/ ReadPage \/ PageFails \/ EndWalk
  \/ Publish \/ (\E r \in shown : Withdraw(r)) \/ Kill \/ LoseZip \/ Age
Spec == Init /\ [][Next]_vars

-----------------------------------------------------------------------------
(* Properties.                                                             *)

TypeOK ==
  /\ shown \subseteq 1..last /\ last \in {0} \cup Releases /\ kills \in 0..MaxKills
  /\ disk.zip \in {NoZip} \cup Releases /\ disk.temps \in 0..(MaxKills + 1)
  /\ run.pc \in {"idle", "list", "download", "check", "manifest", "rename", "save"}
  /\ run.tag \in {0} \cup Releases /\ run.candidate \in Candidates
  /\ walk.pc \in {"idle", "page", "done"} /\ walk.page \in 0..MaxPages

(* What is in place is a whole story pack: every chapter its tables name   *)
(* is in it, whatever a mirror served.  (validation.rs; the readers rely   *)
(* on it.)                                                                 *)
InstalledIsWhole == disk.zip # NoZip => Complete(Plan[disk.zip].pack)

(* A recorded revision, which must carry a manifest, was compared with it: *)
(* the archive beside the record has its bytes.  Or a synchronizer has put *)
(* a newer release in place and not recorded it, killed or not; and these  *)
(* are that release's bytes, unless it was one without a manifest.         *)
RecordIsTrue ==
  \A r \in Releases :
    Verify /\ Plan[r].ns = "datarev" /\ disk.meta = TagSuffix(r) /\ disk.zip # NoZip =>
      \/ disk.zip = r
      \/ \E t \in 1..last : /\ IsData(t) /\ IsNewer(ParseDataTag(r), ParseDataTag(t))
                           /\ (disk.zip = t \/ Plan[t].ns = "data")

(* A recorded release is never replaced by an older one, whatever is       *)
(* withdrawn upstream, lost here or killed, and never by a blind download. *)
NeverBack ==
  Parses(disk.meta) /\ disk'.meta # disk.meta =>
    /\ Parses(disk'.meta)
    /\ IsData(CHOOSE r \in Releases : TagSuffix(r) = disk'.meta)
    /\ LET old == ParseReleaseSuffix(disk.meta)
           new == ParseReleaseSuffix(disk'.meta)
       IN new[1] > old[1] \/ (new[1] = old[1] /\ new[2] >= old[2])

(* A temporary file outlives the synchronizer only when it is killed.      *)
TempsAreAccounted ==
  disk.temps <= kills + (IF run.pc \in {"check", "manifest", "rename"} THEN 1 ELSE 0)

(* A walk that returns a list has every release from Start on that was     *)
(* listed when it began, although releases are published between pages and *)
(* shift the rest.  (A release withdrawn meanwhile shifts them the other   *)
(* way, and the walk misses one.)                                          *)
HistoryIsComplete ==
  walk.pc = "done" => \A r \in walk.from : r > Start => r \in walk.got
=============================================================================
