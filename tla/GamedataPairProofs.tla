------------------------- MODULE GamedataPairProofs -------------------------
(***************************************************************************)
(* Proofs about the paired activation, for any number of releases, trees,  *)
(* faults and withdrawn releases: the state keeps its type, an extraction  *)
(* always has an archive, the published pair never dangles, an installed   *)
(* release is never replaced by an older one, and without mirrors the      *)
(* activation implements GenerationPointer.                                *)
(***************************************************************************)
EXTENDS GamedataPair, TLAPS

Tree == [content : -1..MaxRelease, old : BOOLEAN]

(* Storing a well-typed value in one field of one archive keeps the type.  *)
LEMMA DiskUpdate ==
  ASSUME NEW d \in [Archives -> Disk], NEW a \in Archives
  PROVE  /\ \A z \in 0..MaxRelease : [d EXCEPT ![a].zip = z] \in [Archives -> Disk]
         /\ \A m \in Labels, f \in BOOLEAN :
              [d EXCEPT ![a].meta = m, ![a].fresh = f] \in [Archives -> Disk]
         /\ \A f \in BOOLEAN : [d EXCEPT ![a].fresh = f] \in [Archives -> Disk]
         /\ \A t \in [Root -> Tree] : [d EXCEPT ![a].trees = t] \in [Archives -> Disk]
         /\ \A s \in Labels, r \in Root, t \in [Root -> Tree] :
              [d EXCEPT ![a].sha = s, ![a].root = r, ![a].trees = t] \in [Archives -> Disk]
<1>1. \A z \in 0..MaxRelease : [d EXCEPT ![a].zip = z] \in [Archives -> Disk]
  BY DEF Disk
<1>2. \A m \in Labels, f \in BOOLEAN :
        [d EXCEPT ![a].meta = m, ![a].fresh = f] \in [Archives -> Disk]
  BY DEF Disk
<1>3. \A f \in BOOLEAN : [d EXCEPT ![a].fresh = f] \in [Archives -> Disk]
  BY DEF Disk
<1>4. \A t \in [Root -> Tree] : [d EXCEPT ![a].trees = t] \in [Archives -> Disk]
  BY DEF Disk, Tree
<1>5. \A s \in Labels, r \in Root, t \in [Root -> Tree] :
        [d EXCEPT ![a].sha = s, ![a].root = r, ![a].trees = t] \in [Archives -> Disk]
  <2> TAKE s \in Labels, r \in Root, t \in [Root -> Tree]
  <2>1. [d[a] EXCEPT !.sha = s] \in Disk
    BY DEF Disk
  <2>2. [[d[a] EXCEPT !.sha = s] EXCEPT !.root = r] \in Disk
    BY <2>1 DEF Disk
  <2>3. [[[d[a] EXCEPT !.sha = s] EXCEPT !.root = r] EXCEPT !.trees = t] \in Disk
    BY <2>2 DEF Disk, Tree
  <2> QED BY <2>3
<1> QED BY <1>1, <1>2, <1>3, <1>4, <1>5

(* Touching and pruning return trees; pruning keeps every young tree and   *)
(* every kept one, and touching only makes a tree young.                   *)
LEMMA TreeOperators ==
  ASSUME NEW t \in [Root -> Tree], NEW r \in Root, NEW keep
  PROVE  /\ Touch(t, r) \in [Root -> Tree]
         /\ Prune(t, keep) \in [Root -> Tree]
         /\ \A s \in Root : Touch(t, r)[s].content = t[s].content
         /\ \A s \in Root : ~t[s].old => ~Touch(t, r)[s].old
         /\ ~Touch(t, r)[r].old
         /\ \A s \in Root : ~t[s].old => Prune(t, keep)[s] = t[s]
         /\ \A s \in Root : s \in keep \/ s = 0 => Prune(t, keep)[s] = t[s]
         /\ \A s \in Root : Prune(t, keep)[s] \in {t[s], NoTree}
<1>0. \A s \in Root : t[s] \in Tree
  OBVIOUS
<1>t. NoTree \in Tree
  BY ConstantsAssumption DEF Tree, NoTree
<1>1. Touch(t, r) = [s \in Root |-> IF s = r THEN [t[s] EXCEPT !.old = FALSE] ELSE t[s]]
  BY DEF Touch
<1>2. \A s \in Root : /\ [t[s] EXCEPT !.old = FALSE] \in Tree
                      /\ [t[s] EXCEPT !.old = FALSE].content = t[s].content
                      /\ ~[t[s] EXCEPT !.old = FALSE].old
  BY <1>0 DEF Tree
<1>3. Touch(t, r) \in [Root -> Tree]
  BY <1>0, <1>1, <1>2
<1>4. \A s \in Root : Touch(t, r)[s].content = t[s].content
  BY <1>1, <1>2
<1>5. \A s \in Root : ~t[s].old => ~Touch(t, r)[s].old
  BY <1>1, <1>2
<1>6. ~Touch(t, r)[r].old
  BY <1>1, <1>2
<1>7. Prune(t, keep) \in [Root -> Tree]
  BY <1>0, <1>t DEF Prune
<1>8. \A s \in Root : ~t[s].old => Prune(t, keep)[s] = t[s]
  BY DEF Prune
<1>9. \A s \in Root : s \in keep \/ s = 0 => Prune(t, keep)[s] = t[s]
  BY DEF Prune
<1>10. \A s \in Root : Prune(t, keep)[s] \in {t[s], NoTree}
  BY DEF Prune
<1> QED BY <1>3, <1>4, <1>5, <1>6, <1>7, <1>8, <1>9, <1>10

-----------------------------------------------------------------------------
(* Types.  The label local-<hash> needs an archive to hash, so the type is *)
(* inductive only if every extraction has one; a download waiting for its  *)
(* record has one too.                                                     *)
TypeInv ==
  /\ TypeOK
  /\ ExtractHasArchive
  /\ pc \in {"stamp", "extract"} => ZipOk

(* Every label of a release, and every fixed label, is a label.            *)
LEMMA LabelTypes ==
  /\ {None, Legacy, Unknown} \subseteq Labels
  /\ \A n \in 1..MaxRelease : Release(n) \in Labels /\ LocalHash(n) \in Labels
BY DEF Labels

(* What is extracted, and where, are a label and a root.                   *)
LEMMA ActiveTypes ==
  ASSUME TypeOK, NEW a \in Archives
  PROVE  /\ ExtractedSha(a) \in Labels
         /\ ActiveRoot(a) \in Root
         /\ disk[a].trees \in [Root -> Tree]
         /\ disk[a] \in Disk
BY LabelTypes DEF TypeOK, Disk, ExtractedSha, ActiveRoot, Root, Tree

(* A download leaves an archive, a failed one the old archive or the new.  *)
LEMMA DownloadType ==
  ASSUME TypeInv, pc = "release",
         NEW content \in 1..MaxRelease, NEW label \in Labels,
         Download(content, label) \/ DownloadFails(content)
  PROVE  TypeInv'
<1>1. /\ Here \in Disk
      /\ [disk EXCEPT ![at].zip = content] \in [Archives -> Disk]
      /\ [disk EXCEPT ![at].zip = content][at].zip = content
      /\ content # NoZip
  <2>1. content \in 0..MaxRelease /\ content # NoZip
    BY ConstantsAssumption DEF NoZip
  <2>2. disk \in [Archives -> Disk] /\ at \in Archives
    BY DEF TypeInv, TypeOK
  <2>3. disk[at] \in Disk
    BY <2>2
  <2>4. [disk EXCEPT ![at].zip = content] \in [Archives -> Disk]
    BY <2>1, <2>2, DiskUpdate
  <2>5. [disk EXCEPT ![at].zip = content][at].zip = content
    BY <2>2, <2>3 DEF Disk
  <2> QED BY <2>1, <2>3, <2>4, <2>5 DEF Here
<1>2. /\ UNCHANGED <<latest, calm, pair, at, force>>
      /\ faults' \in 0..MaxFaults
  BY ConstantsAssumption DEF Download, DownloadFails, world, TypeInv, TypeOK
<1>3. CASE Download(content, label)
  <2>1. result' \in Result /\ pc' = "stamp"
    BY <1>3, ConstantsAssumption DEF Download, Result, Statuses, Root
  <2>2. ZipOk'
    BY <1>1, <1>2, <1>3 DEF Download, ZipOk, Here
  <2> QED BY <1>1, <1>2, <1>3, <2>1, <2>2 DEF Download, TypeInv, TypeOK, ExtractHasArchive
<1>4. CASE DownloadFails(content)
  <2>1. Here.meta \in Labels /\ None \in Labels
    BY <1>1, LabelTypes DEF Disk
  <2>2. result' \in Result /\ pc' = "decide"
    BY <1>4, <2>1 DEF DownloadFails, Result, Statuses, Root
  <2>3. disk' \in [Archives -> Disk]
    BY <1>1, <1>4 DEF DownloadFails, TypeInv, TypeOK
  <2>4. result'.status # "no_data" => ZipOk'
    BY <1>1, <1>2, <1>4 DEF DownloadFails, ZipOk, Here
  <2> QED BY <1>2, <2>2, <2>3, <2>4 DEF TypeInv, TypeOK, ExtractHasArchive
<1> QED BY <1>3, <1>4

(* Answers without a download: the record is a label, and there is an      *)
(* archive whenever the answer is not "no_data".                           *)
LEMMA AnswerType ==
  ASSUME TypeInv, NEW status \in Statuses, Answer(status, Here.meta),
         disk' \in [Archives -> Disk], disk'[at].zip = disk[at].zip,
         status # "no_data" => ZipOk
  PROVE  TypeInv'
<1>1. Here.meta \in Labels
  BY DEF TypeInv, TypeOK, Here, Disk
<1>2. result' \in Result /\ result'.status = status /\ pc' = "decide"
  BY <1>1 DEF Answer, Result, Root
<1>3. UNCHANGED <<latest, calm, faults, pair, at, force>>
  BY DEF Answer, world
<1>4. ZipOk' = ZipOk
  BY <1>3 DEF ZipOk, Here
<1> QED BY <1>2, <1>3, <1>4 DEF TypeInv, TypeOK, ExtractHasArchive

(* Every step keeps the types.                                             *)
LEMMA TypeStep == TypeInv /\ [Next]_vars => TypeInv'
<1> SUFFICES ASSUME TypeInv, [Next]_vars PROVE TypeInv'
  OBVIOUS
<1> USE DEF TypeInv
<1>t. /\ TypeOK /\ ExtractHasArchive /\ (pc \in {"stamp", "extract"} => ZipOk)
      /\ disk \in [Archives -> Disk] /\ at \in Archives
      /\ Here \in Disk /\ Here.meta \in Labels
  BY DEF TypeOK, Here, Disk
<1>l. {"excel", "levels"} \subseteq Archives /\ 0 \in Root /\ None \in Labels /\ Legacy \in Labels
  BY LabelTypes DEF Archives, Root
<1>r. \A b \in BOOLEAN, a \in Archives : [disk EXCEPT ![a].fresh = b][at].zip = disk[at].zip
  BY <1>t DEF Disk
<1>1. ASSUME NEW forced \in BOOLEAN, Start(forced) PROVE TypeInv'
  <2>1. pair' \in Pair
    <3>1. /\ ExtractedSha("excel") \in Labels
          /\ ActiveRoot("excel") \in Root /\ ActiveRoot("levels") \in Root
      BY <1>l, <1>t, ActiveTypes
    <3> QED BY <1>1, <1>l, <1>t, <3>1 DEF Start, Pair, TypeOK
  <2>2. disk' \in [Archives -> Disk]
    <3> DEFINE e == Touch(disk["excel"].trees, pair'.excel)
               l == Touch(disk["levels"].trees, pair'.levels)
               d == [disk EXCEPT !["excel"].trees = e]
    <3>1. e \in [Root -> Tree] /\ l \in [Root -> Tree]
      BY <1>l, <1>t, <2>1, ActiveTypes, TreeOperators DEF Pair
    <3>2. d \in [Archives -> Disk]
      BY <1>l, <1>t, <3>1, DiskUpdate
    <3>3. [d EXCEPT !["levels"].trees = l] \in [Archives -> Disk]
      BY <1>l, <3>1, <3>2, DiskUpdate
    <3>4. disk' = [d EXCEPT !["levels"].trees = l] \/ disk' = disk
      BY <1>1, <1>l, <1>t DEF Start
    <3> QED BY <1>t, <3>3, <3>4
  <2> QED BY <1>1, <1>l, <1>t, <2>1, <2>2 DEF Start, world, TypeOK, ExtractHasArchive
<1>2. CASE UseCache
  BY <1>2, <1>t, AnswerType DEF UseCache, Statuses
<1>3. CASE Offline
  BY <1>3, <1>t, AnswerType DEF Offline, Statuses
<1>4. CASE BlindDownload
  <2>1. latest \in 1..MaxRelease /\ Unknown \in Labels
    BY LabelTypes, <1>t DEF TypeOK
  <2> QED BY <1>4, <1>t, <2>1, DownloadType DEF BlindDownload, AsksUpstream
<1>5. CASE RefuseDowngrade
  BY <1>5, <1>t, AnswerType DEF RefuseDowngrade, Statuses
<1>6. CASE Current
  BY <1>6, <1>t, <1>r, DiskUpdate, AnswerType DEF Current, Statuses
<1>7. CASE Update
  <2>1. latest \in 1..MaxRelease /\ Release(latest) \in Labels
    BY LabelTypes, <1>t DEF TypeOK
  <2> QED BY <1>7, <1>t, <2>1, DownloadType DEF Update, AsksUpstream
<1>8. CASE Stamp
  <2>1. result.sha \in Labels
    BY <1>t DEF TypeOK, Result
  <2>2. disk' \in [Archives -> Disk] /\ disk'[at].zip = disk[at].zip
    <3> DEFINE d == [disk EXCEPT ![at].meta = result.sha, ![at].fresh = TRUE]
    <3>1. d \in [Archives -> Disk]
      BY <1>t, <2>1, DiskUpdate
    <3>2. d[at].zip = disk[at].zip
      BY <1>t DEF Disk
    <3> QED BY <1>8, <3>1, <3>2 DEF Stamp
  <2>3. ZipOk'
    BY <1>8, <1>t, <2>2 DEF Stamp, ZipOk, Here
  <2> QED BY <1>8, <1>t, <2>2, <2>3 DEF Stamp, world, TypeOK, ExtractHasArchive
<1>9. CASE Decide
  <2>1. Prune(disk[at].trees, RealPaths({ActiveRoot(at)})) \in [Root -> Tree]
    BY <1>l, <1>t, ActiveTypes, TreeOperators
  <2>2. disk' \in [Archives -> Disk] /\ disk'[at].zip = disk[at].zip
    <3> DEFINE p == Prune(disk[at].trees, RealPaths({ActiveRoot(at)}))
    <3>1. [disk EXCEPT ![at].trees = p] \in [Archives -> Disk]
      BY <1>t, <2>1, DiskUpdate
    <3>2. [disk EXCEPT ![at].trees = p][at].zip = disk[at].zip
      BY <1>t DEF Disk
    <3>3. disk' = [disk EXCEPT ![at].trees = p]
      BY <1>9 DEF Decide, Here
    <3> QED BY <3>1, <3>2, <3>3
  <2>3. CASE pc' = "extract" /\ UNCHANGED at /\ result.status # "no_data"
    <3>1. ZipOk'
      BY <1>9, <1>t, <2>2, <2>3 DEF Decide, ExtractHasArchive, ZipOk, Here
    <3> QED BY <1>9, <1>t, <2>2, <2>3, <3>1 DEF Decide, world, TypeOK, ExtractHasArchive
  <2>4. CASE NextArchive
    BY <1>9, <1>l, <1>t, <2>2, <2>4 DEF Decide, NextArchive, world, TypeOK, ExtractHasArchive
  <2> QED BY <1>9, <2>3, <2>4 DEF Decide
<1>10. CASE Extract
  <2>1. CASE NextArchive /\ UNCHANGED <<disk, result>>
    BY <1>10, <1>l, <1>t, <2>1 DEF Extract, NextArchive, world, TypeOK, ExtractHasArchive
  <2>2. ASSUME NEW r \in FreeSlots,
               disk' = [disk EXCEPT ![at].trees[r] = [content |-> Here.zip, old |-> FALSE]],
               result' = [result EXCEPT !.sha = ActivationSha, !.root = r],
               pc' = "publish", UNCHANGED at
        PROVE  TypeInv'
    <3>1. r \in Root
      BY DEF FreeSlots, Root
    <3>2. [disk[at].trees EXCEPT ![r] = [content |-> Here.zip, old |-> FALSE]] \in [Root -> Tree]
      BY <1>t, <3>1, ActiveTypes DEF Disk, Tree
    <3>3. disk' \in [Archives -> Disk]
      BY <1>t, <2>2, <3>2, DiskUpdate
    <3>4. ActivationSha \in Labels
      <4>1. CASE result.sha # None
        BY <4>1, <1>t DEF ActivationSha, TypeOK, Result
      <4>2. CASE result.sha = None
        <5>1. Here.zip \in 1..MaxRelease
          <6>1. Here.zip \in 0..MaxRelease
            BY <1>t DEF Disk
          <6>2. ZipOk
            BY <1>10, <1>t DEF Extract
          <6> QED BY <6>1, <6>2, ConstantsAssumption DEF ZipOk, NoZip
        <5> QED BY <4>2, <5>1, LabelTypes DEF ActivationSha
      <4> QED BY <4>1, <4>2
    <3>5. result' \in Result
      BY <1>t, <2>2, <3>1, <3>4 DEF TypeOK, Result
    <3> QED BY <1>10, <1>t, <2>2, <3>3, <3>5 DEF Extract, world, TypeOK, ExtractHasArchive
  <2> QED BY <1>10, <2>1, <2>2 DEF Extract
<1>11. CASE Publish
  <2>1. result.sha \in Labels /\ result.root \in Root
    BY <1>t DEF TypeOK, Result
  <2>2. /\ ActiveRoot(at) \in Root
        /\ Here.trees \in [Root -> Tree]
    BY <1>t, ActiveTypes DEF Here
  <2> DEFINE left == ActiveRoot(at)
             u == IF left # 0 /\ ~Aliased THEN Touch(Here.trees, left) ELSE Here.trees
             t == Prune(u, RealPaths({left}) \cup {result.root})
  <2>3. u \in [Root -> Tree] /\ t \in [Root -> Tree]
    <3>1. u \in [Root -> Tree]
      BY <2>2, TreeOperators
    <3> HIDE DEF u
    <3> QED BY <1>l, <3>1, TreeOperators
  <2>4. disk' \in [Archives -> Disk]
    <3> HIDE DEF u, t
    <3>1. /\ [disk EXCEPT ![at].sha = result.sha, ![at].root = result.root, ![at].trees = t]
               \in [Archives -> Disk]
          /\ [disk EXCEPT ![at].trees = u] \in [Archives -> Disk]
          /\ [disk EXCEPT ![at].sha = result.sha, ![at].root = result.root, ![at].trees = u]
               \in [Archives -> Disk]
      BY <1>t, <2>1, <2>3, DiskUpdate
    <3> QED BY <1>11, <3>1 DEF Publish, u, t
  <2>5. faults' \in 0..MaxFaults
    BY <1>11, <1>t, ConstantsAssumption DEF Publish, TypeOK
  <2> QED BY <1>11, <1>l, <1>t, <2>4, <2>5 DEF Publish, NextArchive, TypeOK, ExtractHasArchive
<1>12. CASE SavePair
  <2>1. /\ ExtractedSha("excel") \in Labels
        /\ ActiveRoot("excel") \in Root /\ ActiveRoot("levels") \in Root
    BY <1>l, <1>t, ActiveTypes
  <2>2. pair' \in Pair
    BY <1>12, <1>t, <2>1 DEF SavePair, WritePair, Pair, TypeOK
  <2>3. NoResult \in Result
    BY <1>l DEF NoResult, Result, Statuses
  <2> QED BY <1>12, <1>l, <1>t, <2>2, <2>3 DEF SavePair, world, TypeOK, ExtractHasArchive
<1>13. CASE Kill
  <2>1. NoResult \in Result
    BY <1>l DEF NoResult, Result, Statuses
  <2>2. faults' \in 0..MaxFaults
    BY <1>13, <1>t, ConstantsAssumption DEF Kill, TypeOK
  <2> QED BY <1>13, <1>l, <1>t, <2>1, <2>2 DEF Kill, TypeOK, ExtractHasArchive
<1>14. ASSUME NEW a \in Archives, LoseZip(a) PROVE TypeInv'
  <2>1. disk' \in [Archives -> Disk]
    <3>1. NoZip \in 0..MaxRelease
      BY ConstantsAssumption DEF NoZip
    <3>2. [disk EXCEPT ![a].zip = NoZip] \in [Archives -> Disk]
      BY <1>t, <3>1, DiskUpdate
    <3> QED BY <1>14, <3>2 DEF LoseZip
  <2>2. faults' \in 0..MaxFaults
    BY <1>14, <1>t, ConstantsAssumption DEF LoseZip, TypeOK
  <2> QED BY <1>14, <1>t, <2>1, <2>2 DEF LoseZip, TypeOK, ExtractHasArchive
<1>15. CASE Hour
  <2>1. disk' \in [Archives -> Disk]
    BY <1>15, <1>t DEF Hour, Disk
  <2> QED BY <1>15, <1>t, <2>1 DEF Hour, world, TypeOK, ExtractHasArchive
<1>16. CASE Day
  <2>1. \A a \in Archives : disk[a] \in Disk /\ disk[a].trees \in [Root -> Tree]
    BY <1>t, ActiveTypes
  <2>2. \A t \in Tree : [t EXCEPT !.old = TRUE] \in Tree
    BY DEF Tree
  <2>3. \A a \in Archives :
          [r \in Root |-> IF Exists(a, r) /\ r # 0 THEN [disk[a].trees[r] EXCEPT !.old = TRUE]
                          ELSE disk[a].trees[r]] \in [Root -> Tree]
    BY <2>1, <2>2
  <2>4. \A e \in Disk : \A t \in [Root -> Tree] :
          [e EXCEPT !.fresh = FALSE, !.trees = t] \in Disk
    BY DEF Disk, Tree
  <2>5. disk' \in [Archives -> Disk]
    BY <1>16, <2>1, <2>3, <2>4 DEF Day
  <2> QED BY <1>16, <1>t, <2>5 DEF Day, world, TypeOK, ExtractHasArchive
<1>17. CASE NewRelease \/ Yank
  <2>1. latest' \in 1..MaxRelease
    BY <1>17, <1>t, ConstantsAssumption DEF NewRelease, Yank, TypeOK
  <2> QED BY <1>17, <1>t, <2>1 DEF NewRelease, Yank, TypeOK, ExtractHasArchive, ZipOk, Here
<1>18. CASE Calm
  BY <1>18, <1>t DEF Calm, TypeOK, ExtractHasArchive, ZipOk, Here
<1>19. CASE UNCHANGED vars
  BY <1>19, <1>t DEF vars, TypeOK, ExtractHasArchive, ZipOk, Here
<1>20. CASE SkipArchive
  BY <1>20, <1>l, <1>t DEF SkipArchive, NextArchive, world, TypeOK, ExtractHasArchive, ZipOk, Here
<1> QED BY <1>1, <1>2, <1>3, <1>4, <1>5, <1>6, <1>7, <1>8, <1>9, <1>10, <1>11, <1>12, <1>13,
           <1>14, <1>15, <1>16, <1>17, <1>18, <1>19, <1>20 DEF Next, Sync

(* The initial state has its type.                                         *)
LEMMA TypeInit == Init => TypeInv
<1> SUFFICES ASSUME Init PROVE TypeInv
  OBVIOUS
<1>1. /\ NoTree \in Tree /\ LegacyTree \in Tree
      /\ 0 \in Root /\ None \in Labels /\ NoZip \in 0..MaxRelease
      /\ "excel" \in Archives
  BY LabelTypes, ConstantsAssumption DEF NoTree, LegacyTree, Tree, Root, NoZip, Archives
<1>2. disk \in [Archives -> Disk]
  BY <1>1 DEF Init, Disk, Tree
<1>3. result \in Result /\ pair \in Pair
  BY <1>1 DEF Init, NoResult, NoPair, Result, Pair, Statuses
<1>4. latest \in 1..MaxRelease /\ faults \in 0..MaxFaults
  BY ConstantsAssumption DEF Init
<1>5. pc = "idle" /\ at \in Archives /\ force \in BOOLEAN /\ calm \in BOOLEAN
  BY <1>1 DEF Init
<1> QED BY <1>2, <1>3, <1>4, <1>5 DEF TypeInv, TypeOK, ExtractHasArchive

(* Every reachable state has its type, and sync_release_archive_locked     *)
(* never extracts, or hashes, an archive that is not there.                *)
THEOREM TypeCorrect == Spec => [](TypeOK /\ ExtractHasArchive)
<1>1. Init => TypeInv
  BY TypeInit
<1>2. TypeInv => TypeOK /\ ExtractHasArchive
  BY DEF TypeInv
<1> QED BY <1>1, <1>2, TypeStep, PTL DEF Spec

-----------------------------------------------------------------------------
(* The published pair.                                                     *)

(* A tree that is not there has no age.                                    *)
Shape ==
  \A a \in Archives, r \in Root : Content(a, r) = -1 => ~disk[a].trees[r].old

(* The tree about to be published is there and has a label.                *)
Staged == pc = "publish" => result.sha # None /\ Exists(at, result.root)

(* The trees of the pair are there; during a synchronization they are also *)
(* young, because Start touched them, and no prune takes a young tree.     *)
Safe(a, r) ==
  Exists(a, r) /\ (pc # "idle" => ~disk[a].trees[r].old)
PairSafe == pair # NoPair => Safe("excel", pair.excel) /\ Safe("levels", pair.levels)

PairInv == TypeInv /\ Shape /\ Staged /\ PairSafe

(* With an age in shape, a tree is there exactly when it has a content.    *)
LEMMA TreeExists ==
  \A t \in Tree : (t.content = -1 => ~t.old) => (t # NoTree <=> t.content # -1)
<1> SUFFICES ASSUME NEW t \in Tree, t.content = -1 => ~t.old
             PROVE  t # NoTree <=> t.content # -1
  OBVIOUS
<1>1. t = [content |-> t.content, old |-> t.old] /\ t.old \in BOOLEAN
  BY DEF Tree
<1>2. NoTree.content = -1
  BY DEF NoTree
<1>3. ASSUME t.content = -1 PROVE t = NoTree
  <2>1. t.old = FALSE
    BY <1>1, <1>3
  <2> QED BY <1>1, <1>3, <2>1 DEF NoTree
<1> QED BY <1>2, <1>3

(* A step that leaves the pair alone keeps it safe, if it takes none of    *)
(* its trees and, unless the synchronizer rests, ages none of them.        *)
LEMMA KeepsPair ==
  ASSUME PairInv, TypeInv', Shape', UNCHANGED pair,
         pc = "idle" => pc' = "idle",
         \A a \in Archives, r \in Root :
           /\ Exists(a, r) /\ (pc # "idle" => ~disk[a].trees[r].old) => Exists(a, r)'
           /\ pc # "idle" /\ ~disk[a].trees[r].old => ~(disk[a].trees[r].old)'
  PROVE  PairSafe'
<1>1. {"excel", "levels"} \subseteq Archives
  BY DEF Archives
<1>2. pair.excel \in Root /\ pair.levels \in Root
  BY DEF PairInv, TypeInv, TypeOK, Pair
<1>3. \A a \in Archives, r \in Root : Safe(a, r) => Safe(a, r)'
  BY DEF Safe
<1> QED BY <1>1, <1>2, <1>3 DEF PairInv, PairSafe

(* What is extracted is where the extract_meta says, or the local root.    *)
LEMMA ActiveExists ==
  ASSUME TypeOK, NEW a \in Archives, ExtractedSha(a) # None
  PROVE  Exists(a, ActiveRoot(a))
BY DEF ExtractedSha, ActiveRoot, Extracted

(* Most steps do not touch a tree.                                         *)
LEMMA SameTrees ==
  ASSUME PairInv, TypeInv', UNCHANGED pair,
         pc = "idle" => pc' = "idle",
         \A a \in Archives : disk'[a].trees = disk[a].trees,
         pc' # "publish" \/ UNCHANGED <<pc, at, result>>
  PROVE  PairInv'
<1>1. at \in Archives
  BY DEF PairInv, TypeInv, TypeOK
<1>2. \A a \in Archives, r \in Root : Exists(a, r)' <=> Exists(a, r)
  BY DEF Exists
<1>3. \A a \in Archives, r \in Root : disk[a].trees[r]' = disk[a].trees[r]
  OBVIOUS
<1>4. Shape'
  BY <1>3 DEF PairInv, Shape, Content
<1>5. Staged'
  BY <1>1 DEF PairInv, Staged, Exists
<1>6. PairSafe'
  BY <1>2, <1>3, <1>4, KeepsPair
<1> QED BY <1>4, <1>5, <1>6 DEF PairInv

(* A step that rewrites the trees of `at` only, and of those keeps every   *)
(* young one and gives no age to a missing one, keeps the pair safe.       *)
LEMMA RewritesTrees ==
  ASSUME PairInv, TypeInv', UNCHANGED <<pair>>, pc # "idle",
         NEW t \in [Root -> Tree], disk'[at].trees = t,
         \A a \in Archives \ {at} : disk'[a].trees = disk[a].trees,
         \A r \in Root : t[r].content = -1 => ~t[r].old,
         \A r \in Root : Exists(at, r) /\ ~disk[at].trees[r].old
                           => t[r] # NoTree /\ ~t[r].old
  PROVE  Shape' /\ PairSafe'
<1>1. at \in Archives
  BY DEF PairInv, TypeInv, TypeOK
<1>2. Shape'
  <2> SUFFICES ASSUME NEW a \in Archives, NEW r \in Root, Content(a, r)' = -1
               PROVE  ~(disk[a].trees[r].old)'
    BY DEF Shape
  <2>1. CASE a = at
    BY <2>1 DEF Content
  <2>2. CASE a # at
    BY <2>2 DEF Content, PairInv, Shape
  <2> QED BY <2>1, <2>2
<1>3. {"excel", "levels"} \subseteq Archives
  BY DEF Archives
<1>4. pair.excel \in Root /\ pair.levels \in Root
  BY DEF PairInv, TypeInv, TypeOK, Pair
<1>5. ASSUME NEW a \in Archives, NEW r \in Root, Safe(a, r) PROVE Safe(a, r)'
  <2>1. CASE a = at
    BY <1>5, <2>1 DEF Safe, Exists
  <2>2. CASE a # at
    BY <1>5, <2>2 DEF Safe, Exists
  <2> QED BY <2>1, <2>2
<1> QED BY <1>2, <1>3, <1>4, <1>5 DEF PairInv, PairSafe

(* Every step keeps the pair safe.                                         *)
LEMMA PairStep == PairInv /\ [Next]_vars => PairInv'
<1> SUFFICES ASSUME PairInv, [Next]_vars PROVE PairInv'
  OBVIOUS
<1>i. TypeInv /\ TypeOK /\ Shape /\ Staged /\ PairSafe
  BY DEF PairInv, TypeInv
<1>j. TypeInv' /\ TypeOK'
  BY <1>i, TypeStep DEF TypeInv
<1>l. {"excel", "levels"} \subseteq Archives /\ 0 \in Root
  BY DEF Archives, Root
<1>t. /\ disk \in [Archives -> Disk] /\ at \in Archives /\ Here \in Disk
      /\ \A a \in Archives : disk[a] \in Disk /\ disk[a].trees \in [Root -> Tree]
  BY <1>i, ActiveTypes DEF TypeOK, Here
<1>p. pair.excel \in Root /\ pair.levels \in Root /\ pair'.excel \in Root /\ pair'.levels \in Root
  BY <1>i, <1>j DEF TypeOK, Pair
<1>e. \A a \in Archives, r \in Root : Exists(a, r) <=> Content(a, r) # -1
  <2>1. \A a \in Archives, r \in Root : disk[a].trees[r] \in Tree
    BY <1>t
  <2> QED BY <1>i, <2>1, TreeExists DEF Shape, Content, Exists
<1>f. Shape' => \A a \in Archives, r \in Root : Exists(a, r)' <=> Content(a, r)' # -1
  <2>1. disk' \in [Archives -> Disk]
    BY <1>j DEF TypeOK
  <2>2. \A a \in Archives, r \in Root : disk'[a].trees[r] \in Tree
    BY <2>1 DEF Disk, Tree
  <2> QED BY <2>2, TreeExists DEF Shape, Content, Exists
<1>n. NoTree.content = -1 /\ ~NoTree.old
  BY DEF NoTree
<1>o. \A t \in [Root -> Tree], r \in Root :
        /\ Touch(t, r) \in [Root -> Tree]
        /\ \A s \in Root : Touch(t, r)[s].content = t[s].content
        /\ \A s \in Root : ~t[s].old => ~Touch(t, r)[s].old
        /\ ~Touch(t, r)[r].old
  BY TreeOperators
<1>1. ASSUME NEW forced \in BOOLEAN, Start(forced) PROVE PairInv'
  <2> DEFINE usable == /\ pair' # NoPair
                       /\ Exists("excel", pair'.excel) /\ Exists("levels", pair'.levels)
             e == Touch(disk["excel"].trees, pair'.excel)
             l == Touch(disk["levels"].trees, pair'.levels)
  <2>1. disk' = IF usable THEN [disk EXCEPT !["excel"].trees = e, !["levels"].trees = l]
                          ELSE disk
    BY <1>1 DEF Start
  <2>2. pair' # NoPair => usable
    <3>1. PairValid => usable
      BY <1>1 DEF Start, PairValid
    <3>2. CASE ~PairValid /\ pair' = pair
      BY <1>i, <3>2 DEF PairSafe, Safe, PairValid
    <3>3. CASE pair' = [sha |-> Legacy, excel |-> 0, levels |-> 0] /\ Exists("excel", 0) /\ Exists("levels", 0)
      BY <3>3
    <3>4. CASE /\ SameGeneration
               /\ pair' = [sha |-> ExtractedSha("excel"),
                           excel |-> ActiveRoot("excel"), levels |-> ActiveRoot("levels")]
      <4>1. Exists("excel", ActiveRoot("excel")) /\ Exists("levels", ActiveRoot("levels"))
        BY <1>i, <1>l, <3>4, ActiveExists DEF SameGeneration
      <4> QED BY <3>4, <4>1
    <3> QED BY <1>1, <3>1, <3>2, <3>3, <3>4 DEF Start
  <2>3. CASE usable
    <3>1. /\ e \in [Root -> Tree] /\ l \in [Root -> Tree]
          /\ \A s \in Root : e[s].content = disk["excel"].trees[s].content
          /\ \A s \in Root : l[s].content = disk["levels"].trees[s].content
          /\ \A s \in Root : ~disk["excel"].trees[s].old => ~e[s].old
          /\ \A s \in Root : ~disk["levels"].trees[s].old => ~l[s].old
          /\ ~e[pair'.excel].old /\ ~l[pair'.levels].old
      <4>1. /\ e \in [Root -> Tree]
            /\ \A s \in Root : e[s].content = disk["excel"].trees[s].content
            /\ \A s \in Root : ~disk["excel"].trees[s].old => ~e[s].old
            /\ ~e[pair'.excel].old
        BY <1>l, <1>t, <1>p, <1>o
      <4>2. /\ l \in [Root -> Tree]
            /\ \A s \in Root : l[s].content = disk["levels"].trees[s].content
            /\ \A s \in Root : ~disk["levels"].trees[s].old => ~l[s].old
            /\ ~l[pair'.levels].old
        BY <1>l, <1>t, <1>p, <1>o
      <4> QED BY <4>1, <4>2
    <3>2. disk'["excel"].trees = e /\ disk'["levels"].trees = l
      BY <1>l, <1>t, <2>1, <2>3 DEF Disk
    <3>3. Shape'
      BY <1>i, <3>1, <3>2 DEF Shape, Content, Archives
    <3>4. \A a \in Archives, r \in Root : Exists(a, r)' <=> Content(a, r)' # -1
      BY <1>f, <3>3
    <3>5. PairSafe'
      <4>1. Exists("excel", pair.excel)' /\ Exists("levels", pair.levels)'
        BY <1>e, <1>l, <1>p, <2>3, <3>1, <3>2, <3>4 DEF Content
      <4>2. ~(disk["excel"].trees[pair.excel].old)' /\ ~(disk["levels"].trees[pair.levels].old)'
        BY <3>1, <3>2
      <4> QED BY <4>1, <4>2 DEF PairSafe, Safe
    <3> QED BY <1>1, <1>j, <3>3, <3>5 DEF Start, PairInv, Staged
  <2>4. CASE ~usable
    <3>1. disk' = disk /\ pc' = "release" /\ pair' = NoPair
      BY <1>1, <2>1, <2>2, <2>4 DEF Start
    <3> QED BY <1>i, <1>j, <3>1 DEF PairInv, Shape, Staged, PairSafe, Content
  <2> QED BY <2>3, <2>4
<1>2. CASE \/ UseCache \/ Offline \/ BlindDownload \/ RefuseDowngrade \/ Current \/ Update
  <2>1. UNCHANGED pair /\ pc' # "publish" /\ pc = "release"
    BY <1>2 DEF UseCache, Offline, BlindDownload, RefuseDowngrade, Current, Update, AsksUpstream,
                Answer, Download, DownloadFails
  <2>2. \/ UNCHANGED disk
        \/ \E z : disk' = [disk EXCEPT ![at].zip = z]
        \/ disk' = [disk EXCEPT ![at].fresh = TRUE]
    BY <1>2 DEF UseCache, Offline, BlindDownload, RefuseDowngrade, Current, Update,
                Download, DownloadFails
  <2>3. \A a \in Archives : disk'[a].trees = disk[a].trees
    <3>1. ASSUME NEW z, disk' = [disk EXCEPT ![at].zip = z]
          PROVE  \A a \in Archives : disk'[a].trees = disk[a].trees
      BY <1>t, <3>1 DEF Disk
    <3>2. ASSUME disk' = [disk EXCEPT ![at].fresh = TRUE]
          PROVE  \A a \in Archives : disk'[a].trees = disk[a].trees
      BY <1>t, <3>2 DEF Disk
    <3> QED BY <2>2, <3>1, <3>2
  <2> QED BY <1>j, <2>1, <2>3, SameTrees
<1>3. CASE Stamp
  <2>1. \A a \in Archives : disk'[a].trees = disk[a].trees
    BY <1>3, <1>t DEF Stamp, Disk
  <2> QED BY <1>3, <1>j, <2>1, SameTrees DEF Stamp
<1>4. CASE Decide
  <2> DEFINE t == Prune(disk[at].trees, RealPaths({ActiveRoot(at)}))
  <2>1. disk' = [disk EXCEPT ![at].trees = t]
    BY <1>4 DEF Decide, Here
  <2>2. disk'[at].trees = t /\ \A a \in Archives \ {at} : disk'[a].trees = disk[a].trees
    BY <1>t, <2>1 DEF Disk
  <2>3. /\ t \in [Root -> Tree]
        /\ \A s \in Root : ~disk[at].trees[s].old => t[s] = disk[at].trees[s]
        /\ \A s \in Root : t[s] \in {disk[at].trees[s], NoTree}
    BY <1>l, <1>t, TreeOperators
  <2>4. \A r \in Root : t[r].content = -1 => ~t[r].old
    BY <1>i, <1>n, <1>t, <2>3 DEF Shape, Content
  <2>5. UNCHANGED pair /\ pc # "idle" /\ pc' # "publish"
    BY <1>4 DEF Decide, NextArchive
  <2>6. \A r \in Root : Exists(at, r) /\ ~disk[at].trees[r].old => t[r] # NoTree /\ ~t[r].old
    BY <2>3 DEF Exists
  <2>7. Shape' /\ PairSafe'
    BY <1>j, <2>2, <2>3, <2>4, <2>5, <2>6, RewritesTrees
  <2> QED BY <1>j, <2>5, <2>7 DEF PairInv, Staged
<1>5. CASE Extract
  <2>1. CASE NextArchive /\ UNCHANGED <<disk, result>>
    BY <1>5, <1>j, <2>1, SameTrees DEF Extract, NextArchive
  <2>2. ASSUME NEW r \in FreeSlots,
               disk' = [disk EXCEPT ![at].trees[r] = [content |-> Here.zip, old |-> FALSE]],
               result' = [result EXCEPT !.sha = ActivationSha, !.root = r],
               pc' = "publish", UNCHANGED at
        PROVE  PairInv'
    <3> DEFINE n == [content |-> Here.zip, old |-> FALSE]
               t == [disk[at].trees EXCEPT ![r] = n]
    <3>1. r \in Root /\ ~Exists(at, r)
      BY DEF FreeSlots, Root
    <3>2. n \in Tree /\ n.content # -1 /\ ~n.old /\ n # NoTree
      <4>1. Here.zip \in 0..MaxRelease
        BY <1>t DEF Disk
      <4> QED BY <1>n, <4>1, ConstantsAssumption DEF Tree
    <3>3. t \in [Root -> Tree]
      BY <1>t, <3>1, <3>2
    <3>4. disk'[at].trees = t /\ \A a \in Archives \ {at} : disk'[a].trees = disk[a].trees
      BY <1>t, <2>2 DEF Disk
    <3>5. \A s \in Root : t[s] = IF s = r THEN n ELSE disk[at].trees[s]
      BY <1>t, <3>1
    <3>6. \A s \in Root : t[s].content = -1 => ~t[s].old
      BY <1>i, <1>t, <3>2, <3>5 DEF Shape, Content
    <3>7. \A s \in Root : Exists(at, s) /\ ~disk[at].trees[s].old => t[s] # NoTree /\ ~t[s].old
      BY <3>1, <3>5 DEF Exists
    <3>8. UNCHANGED pair /\ pc # "idle"
      BY <1>5 DEF Extract
    <3>9. Shape' /\ PairSafe'
      BY <1>j, <3>3, <3>4, <3>6, <3>7, <3>8, RewritesTrees
    <3>10. result'.sha # None /\ result'.root = r
      <4>1. ActivationSha # None
        BY DEF ActivationSha, LocalHash, None
      <4> QED BY <1>i, <2>2, <4>1 DEF TypeOK, Result
    <3>11. Exists(at, result.root)'
      BY <2>2, <3>1, <3>2, <3>4, <3>5, <3>10 DEF Exists
    <3> QED BY <1>j, <3>9, <3>10, <3>11 DEF PairInv, Staged
  <2> QED BY <1>5, <2>1, <2>2 DEF Extract
<1>6. CASE Publish
  <2> DEFINE left == ActiveRoot(at)
             u == IF left # 0 /\ ~Aliased THEN Touch(Here.trees, left) ELSE Here.trees
             t == Prune(u, RealPaths({left}) \cup {result.root})
  <2>3. left \in Root /\ Here.trees = disk[at].trees
    BY <1>i, <1>t, ActiveTypes DEF Here
  <2>4. /\ u \in [Root -> Tree]
        /\ \A s \in Root : u[s].content = disk[at].trees[s].content
        /\ \A s \in Root : ~disk[at].trees[s].old => ~u[s].old
    <3>1. CASE left # 0 /\ ~Aliased
      BY <1>t, <2>3, <3>1, <1>o
    <3>2. CASE ~(left # 0 /\ ~Aliased)
      BY <1>t, <2>3, <3>2
    <3> QED BY <3>1, <3>2
  <2>5. /\ t \in [Root -> Tree]
        /\ \A s \in Root : ~u[s].old => t[s] = u[s]
        /\ \A s \in Root : t[s] \in {u[s], NoTree}
    BY <1>l, <2>4, TreeOperators
  <2> HIDE DEF t, u
  <2>1. \/ disk' = [disk EXCEPT ![at].sha = result.sha, ![at].root = result.root, ![at].trees = t]
        \/ disk' = [disk EXCEPT ![at].trees = u]
        \/ disk' = [disk EXCEPT ![at].sha = result.sha, ![at].root = result.root, ![at].trees = u]
    BY <1>6 DEF Publish, t, u
  <2>6. \A s \in Root : (t[s].content = -1 => ~t[s].old) /\ (u[s].content = -1 => ~u[s].old)
    BY <1>i, <1>n, <1>t, <2>4, <2>5 DEF Shape, Content
  <2>7. ASSUME NEW s \in Root, Exists(at, s), ~disk[at].trees[s].old
        PROVE  t[s] # NoTree /\ ~t[s].old /\ u[s] # NoTree /\ ~u[s].old
    <3>1. disk[at].trees[s].content # -1
      BY <1>e, <1>t, <2>7 DEF Content
    <3>2. t[s] = u[s] /\ ~u[s].old /\ u[s].content # -1
      BY <2>4, <2>5, <2>7, <3>1
    <3> QED BY <1>n, <3>2
  <2>8. UNCHANGED pair /\ pc # "idle" /\ pc' # "publish"
    BY <1>6 DEF Publish, NextArchive
  <2>9. /\ disk'[at].trees = t \/ disk'[at].trees = u
        /\ \A a \in Archives \ {at} : disk'[a].trees = disk[a].trees
    BY <1>t, <2>1 DEF Disk
  <2>10. Shape' /\ PairSafe'
    <3>1. CASE disk'[at].trees = t
      BY <1>j, <2>5, <2>6, <2>7, <2>8, <2>9, <3>1, RewritesTrees
    <3>2. CASE disk'[at].trees = u
      BY <1>j, <2>4, <2>6, <2>7, <2>8, <2>9, <3>2, RewritesTrees
    <3> QED BY <2>9, <3>1, <3>2
  <2> QED BY <1>j, <2>8, <2>10 DEF PairInv, Staged
<1>7. CASE SavePair
  <2>1. UNCHANGED disk /\ pc' = "idle"
    BY <1>7 DEF SavePair
  <2>2. \A a, r : (Exists(a, r) <=> disk[a].trees[r] # NoTree) /\ (Exists(a, r)' <=> Exists(a, r))
    BY <2>1 DEF Exists
  <2>3. CASE SameGeneration
    <3>1. Exists("excel", ActiveRoot("excel")) /\ Exists("levels", ActiveRoot("levels"))
      BY <1>i, <1>l, <2>3, ActiveExists DEF SameGeneration
    <3>2. pair'.excel = ActiveRoot("excel") /\ pair'.levels = ActiveRoot("levels")
      BY <1>7, <2>3 DEF SavePair, WritePair
    <3>3. Exists("excel", pair'.excel) /\ Exists("levels", pair'.levels)
      BY <3>1, <3>2
    <3>4. PairSafe'
      BY <2>1, <3>3 DEF PairSafe, Safe, Exists
    <3> QED BY <1>i, <1>j, <2>1, <3>4 DEF PairInv, Shape, Staged, Content
  <2>4. CASE ~SameGeneration
    <3>1. UNCHANGED pair
      BY <1>7, <2>4 DEF SavePair
    <3> QED BY <1>i, <1>j, <2>1, <3>1, SameTrees
  <2> QED BY <2>3, <2>4
<1>8. CASE Kill
  BY <1>8, <1>j, SameTrees DEF Kill
<1>9. ASSUME NEW a \in Archives, LoseZip(a) PROVE PairInv'
  <2>1. \A b \in Archives : disk'[b].trees = disk[b].trees
    BY <1>9, <1>t DEF LoseZip, Disk
  <2> QED BY <1>9, <1>j, <2>1, SameTrees DEF LoseZip
<1>10. CASE Hour
  <2>1. \A b \in Archives : disk'[b].trees = disk[b].trees
    BY <1>10, <1>t DEF Hour, Disk
  <2> QED BY <1>10, <1>j, <2>1, SameTrees DEF Hour
<1>11. CASE Day
  <2>1. \A a \in Archives, r \in Root :
          disk'[a].trees[r] = IF Exists(a, r) /\ r # 0 THEN [disk[a].trees[r] EXCEPT !.old = TRUE]
                                                       ELSE disk[a].trees[r]
    BY <1>11, <1>t DEF Day, Disk
  <2>2. \A a \in Archives, r \in Root : disk[a].trees[r] \in Tree
    BY <1>t
  <2>3. \A a \in Archives, r \in Root : Content(a, r)' = Content(a, r)
    BY <2>1, <2>2 DEF Content, Tree
  <2>4. ASSUME NEW a \in Archives, NEW r \in Root, Content(a, r)' = -1
        PROVE  ~(disk[a].trees[r].old)'
    <3>1. Content(a, r) = -1 /\ ~Exists(a, r)
      BY <1>e, <2>3, <2>4
    <3>2. disk'[a].trees[r] = disk[a].trees[r]
      BY <2>1, <3>1
    <3> QED BY <1>i, <3>1, <3>2 DEF Shape
  <2>5. Shape'
    BY <2>4 DEF Shape
  <2>6. \A a \in Archives, r \in Root : Exists(a, r)' <=> Exists(a, r)
    <3>1. \A a \in Archives, r \in Root : Exists(a, r)' <=> Content(a, r)' # -1
      BY <1>f, <2>5
    <3> QED BY <1>e, <2>3, <3>1
  <2>7. UNCHANGED pair /\ pc = "idle" /\ pc' = "idle"
    BY <1>11 DEF Day
  <2>8. PairSafe'
    BY <1>i, <1>l, <1>p, <2>6, <2>7 DEF PairSafe, Safe
  <2> QED BY <1>j, <2>5, <2>7, <2>8 DEF PairInv, Staged
<1>12. CASE NewRelease \/ Yank \/ Calm
  BY <1>12, <1>j, SameTrees DEF NewRelease, Yank, Calm
<1>13. CASE UNCHANGED vars
  BY <1>13, <1>j, SameTrees DEF vars
<1>14. CASE SkipArchive
  BY <1>14, <1>j, SameTrees DEF SkipArchive, NextArchive
<1> QED BY <1>1, <1>2, <1>3, <1>4, <1>5, <1>6, <1>7, <1>8, <1>9, <1>10, <1>11, <1>12, <1>13, <1>14
        DEF Next, Sync

(* The inductive invariant of the pair.                                   *)
LEMMA PairInit == Init => PairInv
<1> SUFFICES ASSUME Init PROVE PairInv
  OBVIOUS
<1>1. TypeInv
  BY TypeInit
<1>2. \A a \in Archives, r \in Root : ~disk[a].trees[r].old
  BY DEF Init, NoTree, LegacyTree
<1> QED BY <1>1, <1>2 DEF Init, PairInv, Shape, Staged, PairSafe

LEMMA PairInductive == Spec => []PairInv
BY PairInit, PairStep, PTL DEF Spec

(* sync_release_archive_pair touches the pair's trees before anything is   *)
(* pruned: whatever is killed, fails or is withdrawn, the published pair   *)
(* names trees that are there.                                             *)
THEOREM PairNeverDangles == Spec => []PairRootsExist
<1>1. PairInv => PairRootsExist
  BY DEF PairInv, PairSafe, Safe, PairRootsExist
<1> QED BY <1>1, PairInductive, PTL

-----------------------------------------------------------------------------
(* What is served stays served.                                            *)

(* A published pair is never taken back.                                   *)
LEMMA PairStays == PairInv /\ [Next]_vars /\ pair # NoPair => pair' # NoPair
<1> SUFFICES ASSUME PairInv, [Next]_vars, pair # NoPair PROVE pair' # NoPair
  OBVIOUS
<1>1. CASE UNCHANGED pair
  BY <1>1
<1>2. CASE SameGeneration /\ WritePair(ExtractedSha("excel"))
  BY <1>2 DEF SameGeneration, WritePair, NoPair
<1>3. ASSUME NEW forced \in BOOLEAN, Start(forced) PROVE pair' # NoPair
  BY <1>3 DEF Start, NoPair, Legacy, None, SameGeneration
<1> QED BY <1>1, <1>2, <1>3 DEF Next, Sync, UseCache, Offline, BlindDownload, RefuseDowngrade,
     Current, Update, SkipArchive, Download, DownloadFails, Answer, Stamp, Decide, Extract, Publish, SavePair,
     Kill, LoseZip, Hour, Day, NewRelease, Yank, Calm, vars

(* The active root of an archive keeps a content when its record does not  *)
(* change and neither the active root nor the local root is emptied.       *)
LEMMA ActiveKept ==
  ASSUME PairInv, PairInv', NEW a \in Archives,
         disk'[a].sha = disk[a].sha, disk'[a].root = disk[a].root,
         \A r \in {0, ActiveRoot(a)} : Content(a, r) # -1 => Content(a, r)' # -1,
         Content(a, ActiveRoot(a)) # -1
  PROVE  Content(a, ActiveRoot(a))' # -1
<1>1. disk[a].root \in Root /\ 0 \in Root
  BY DEF PairInv, TypeInv, TypeOK, Disk, Root
<1>2. NoTree.content = -1
  BY DEF NoTree
<1>3. CASE Extracted(a)'
  <2>1. ActiveRoot(a)' = disk[a].root
    BY <1>3 DEF ActiveRoot
  <2>2. (disk[a].trees[disk[a].root])' # NoTree
    BY <1>3 DEF Extracted, Exists
  <2>3. disk'[a].trees[disk[a].root] \in Tree
    BY <1>1 DEF PairInv, TypeInv, TypeOK, Disk, Tree
  <2>4. disk'[a].trees[disk[a].root].content = -1 => ~disk'[a].trees[disk[a].root].old
    BY <1>1 DEF PairInv, Shape, Content
  <2> QED BY <2>1, <2>2, <2>3, <2>4, TreeExists DEF Content
<1>4. CASE ~Extracted(a)'
  <2>1. ActiveRoot(a)' = 0
    BY <1>4 DEF ActiveRoot
  <2>2. CASE Extracted(a)
    <3>1. ActiveRoot(a) = disk[a].root
      BY <2>2 DEF ActiveRoot
    <3>2. Content(a, disk[a].root)' # -1
      BY <3>1
    <3>3. Extracted(a)'
      BY <1>2, <2>2, <3>2 DEF Extracted, Exists, Content
    <3> QED BY <1>4, <3>3
  <2>3. CASE ~Extracted(a)
    BY <2>1, <2>3 DEF ActiveRoot, Content
  <2> QED BY <2>2, <2>3
<1> QED BY <1>3, <1>4

(* Whatever the step, an active root with a content is followed by one, if *)
(* the keep set of a prune names the trees as the directory listing does.  *)
LEMMA ActiveStep ==
  ASSUME ~Aliased, PairInv, PairInv', [Next]_vars, NEW a \in Archives, Content(a, ActiveRoot(a)) # -1
  PROVE  Content(a, ActiveRoot(a))' # -1
<1>t. /\ disk \in [Archives -> Disk] /\ at \in Archives /\ Here = disk[at]
      /\ \A b \in Archives : disk[b] \in Disk /\ disk[b].trees \in [Root -> Tree]
  BY ActiveTypes DEF PairInv, TypeInv, TypeOK, Here
<1>r. 0 \in Root /\ ActiveRoot(a) \in Root /\ ActiveRoot(at) \in Root
  BY <1>t, ActiveTypes DEF PairInv, TypeInv, Root
<1>p. pair'.excel \in Root /\ pair'.levels \in Root
  BY DEF PairInv, TypeInv, TypeOK, Pair
<1>q. \A keep : \A t \in [Root -> Tree], s \in Root :
        s \in keep \/ s = 0 => Prune(t, keep)[s] = t[s]
  BY TreeOperators
<1>k. ASSUME disk'[a].sha = disk[a].sha, disk'[a].root = disk[a].root,
             \A r \in {0, ActiveRoot(a)} :
               disk[a].trees[r].content # -1 => disk'[a].trees[r].content # -1
      PROVE  Content(a, ActiveRoot(a))' # -1
  BY <1>k, ActiveKept DEF Content
<1>1. ASSUME NEW forced \in BOOLEAN, Start(forced) PROVE Content(a, ActiveRoot(a))' # -1
  <2> DEFINE e == Touch(disk["excel"].trees, pair'.excel)
             l == Touch(disk["levels"].trees, pair'.levels)
  <2>1. \/ UNCHANGED disk
        \/ disk' = [disk EXCEPT !["excel"].trees = e, !["levels"].trees = l]
    BY <1>1 DEF Start
  <2>2. \A t \in [Root -> Tree], r, s \in Root : Touch(t, r)[s].content = t[s].content
    BY TreeOperators
  <2>3. \A s \in Root : /\ e[s].content = disk["excel"].trees[s].content
                        /\ l[s].content = disk["levels"].trees[s].content
    BY <1>t, <1>p, <2>2 DEF Archives
  <2>4. CASE disk' = [disk EXCEPT !["excel"].trees = e, !["levels"].trees = l]
    <3>1. CASE a = "excel"
      <4>1. /\ disk'[a].sha = disk[a].sha /\ disk'[a].root = disk[a].root
            /\ disk'[a].trees = e
        BY <1>t, <2>4, <3>1 DEF Disk, Archives
      <4> QED BY <1>k, <1>r, <2>3, <3>1, <4>1
    <3>2. CASE a = "levels"
      <4>1. /\ disk'[a].sha = disk[a].sha /\ disk'[a].root = disk[a].root
            /\ disk'[a].trees = l
        BY <1>t, <2>4, <3>2 DEF Disk, Archives
      <4> QED BY <1>k, <1>r, <2>3, <3>2, <4>1
    <3> QED BY <3>1, <3>2 DEF Archives
  <2> QED BY <1>k, <2>1, <2>4
<1>2. CASE \/ UNCHANGED disk
           \/ \E z : disk' = [disk EXCEPT ![at].zip = z]
           \/ \E b : disk' = [disk EXCEPT ![at].fresh = b]
           \/ \E m, b : disk' = [disk EXCEPT ![at].meta = m, ![at].fresh = b]
           \/ \E b \in Archives : \E z : disk' = [disk EXCEPT ![b].zip = z]
           \/ Hour
  <2>1. /\ disk'[a].sha = disk[a].sha /\ disk'[a].root = disk[a].root
        /\ disk'[a].trees = disk[a].trees
    <3>1. CASE Hour
      BY <1>t, <3>1 DEF Hour, Disk
    <3>2. ASSUME NEW b \in Archives, NEW z, disk' = [disk EXCEPT ![b].zip = z]
          PROVE  /\ disk'[a].sha = disk[a].sha /\ disk'[a].root = disk[a].root
                 /\ disk'[a].trees = disk[a].trees
      BY <1>t, <3>2 DEF Disk
    <3>3. ASSUME NEW b, disk' = [disk EXCEPT ![at].fresh = b]
          PROVE  /\ disk'[a].sha = disk[a].sha /\ disk'[a].root = disk[a].root
                 /\ disk'[a].trees = disk[a].trees
      BY <1>t, <3>3 DEF Disk
    <3>4. ASSUME NEW m, NEW b, disk' = [disk EXCEPT ![at].meta = m, ![at].fresh = b]
          PROVE  /\ disk'[a].sha = disk[a].sha /\ disk'[a].root = disk[a].root
                 /\ disk'[a].trees = disk[a].trees
      BY <1>t, <3>4 DEF Disk
    <3> QED BY <1>2, <1>t, <3>1, <3>2, <3>3, <3>4
  <2> QED BY <1>k, <2>1
<1>3. CASE Decide
  <2> DEFINE t == Prune(disk[at].trees, RealPaths({ActiveRoot(at)}))
  <2>1. disk' = [disk EXCEPT ![at].trees = t]
    BY <1>3 DEF Decide, Here
  <2>2. /\ disk'[a].sha = disk[a].sha /\ disk'[a].root = disk[a].root
        /\ disk'[a].trees = IF a = at THEN t ELSE disk[a].trees
    BY <1>t, <2>1 DEF Disk
  <2>3. t[0] = disk[at].trees[0] /\ t[ActiveRoot(at)] = disk[at].trees[ActiveRoot(at)]
    <3>1. disk[at].trees \in [Root -> Tree]
      BY <1>t
    <3>2. \A s \in Root :
            s \in RealPaths({ActiveRoot(at)}) \/ s = 0 => t[s] = disk[at].trees[s]
      BY <3>1, <1>q
    <3> QED BY <1>r, <3>2 DEF RealPaths
  <2> QED BY <1>k, <2>2, <2>3
<1>4. CASE Extract
  <2>1. ASSUME NEW r \in FreeSlots,
               disk' = [disk EXCEPT ![at].trees[r] = [content |-> Here.zip, old |-> FALSE]]
        PROVE  Content(a, ActiveRoot(a))' # -1
    <3>1. Here.zip # -1
      BY <1>t, ConstantsAssumption DEF Disk
    <3>2. /\ disk'[a].sha = disk[a].sha /\ disk'[a].root = disk[a].root
          /\ \A s \in Root : disk'[a].trees[s] =
               IF a = at /\ s = r THEN [content |-> Here.zip, old |-> FALSE] ELSE disk[a].trees[s]
      BY <1>t, <2>1 DEF Disk
    <3> QED BY <1>k, <1>r, <3>1, <3>2
  <2>2. CASE UNCHANGED disk
    BY <1>k, <2>2
  <2> QED BY <1>4, <2>1, <2>2 DEF Extract
<1>5. CASE Publish
  <2> DEFINE left == ActiveRoot(at)
             u == IF left # 0 /\ ~Aliased THEN Touch(disk[at].trees, left) ELSE disk[at].trees
             t == Prune(u, RealPaths({left}) \cup {result.root})
  <2>1. u \in [Root -> Tree] /\ \A s \in Root : u[s].content = disk[at].trees[s].content
    <3>1. \A v \in [Root -> Tree], r, s \in Root :
            Touch(v, r) \in [Root -> Tree] /\ Touch(v, r)[s].content = v[s].content
      BY TreeOperators
    <3>2. CASE left # 0 /\ ~Aliased
      <4>1. u = Touch(disk[at].trees, left) /\ disk[at].trees \in [Root -> Tree]
        BY <1>t, <3>2
      <4> QED BY <1>r, <3>1, <4>1
    <3>3. CASE ~(left # 0 /\ ~Aliased)
      BY <1>t, <3>3
    <3> QED BY <3>2, <3>3
  <2>2. \A s \in Root : s = result.root \/ s = 0 => t[s] = u[s]
    BY <1>q, <2>1
  <2> HIDE DEF u, t
  <2>3. \/ disk' = [disk EXCEPT ![at].sha = result.sha, ![at].root = result.root, ![at].trees = t]
        \/ disk' = [disk EXCEPT ![at].trees = u]
        \/ disk' = [disk EXCEPT ![at].sha = result.sha, ![at].root = result.root, ![at].trees = u]
    BY <1>5, <1>t DEF Publish, u, t
  <2>4. CASE a # at
    <3>1. disk'[a] = disk[a]
      BY <1>t, <2>3, <2>4
    <3> QED BY <1>k, <3>1
  <2>5. CASE a = at /\ disk' = [disk EXCEPT ![at].trees = u]
    <3>1. disk'[a].sha = disk[a].sha /\ disk'[a].root = disk[a].root /\ disk'[a].trees = u
      BY <1>t, <2>5 DEF Disk
    <3> QED BY <1>k, <1>r, <2>1, <2>5, <3>1
  <2>6. ASSUME NEW v \in {t, u}, a = at,
               disk' = [disk EXCEPT ![at].sha = result.sha, ![at].root = result.root,
                                    ![at].trees = v]
        PROVE  Content(a, ActiveRoot(a))' # -1
    <3>1. disk'[a].sha = result.sha /\ disk'[a].root = result.root /\ disk'[a].trees = v
      BY <1>t, <2>6 DEF Disk
    <3>2. result.root \in Root /\ result.sha # None
      BY <1>5 DEF Publish, PairInv, Staged, TypeInv, TypeOK, Result
    <3>3. disk[at].trees[result.root].content # -1
      <4>1. disk[at].trees[result.root] # NoTree
        BY <1>5 DEF Publish, PairInv, Staged, Exists
      <4>2. disk[at].trees[result.root] \in Tree
        BY <1>t, <3>2
      <4>3. disk[at].trees[result.root].content = -1 => ~disk[at].trees[result.root].old
        BY <1>t, <3>2 DEF PairInv, Shape, Content
      <4> QED BY <4>1, <4>2, <4>3, TreeExists
    <3>4. (disk[a].trees[disk[a].root])'.content # -1
      BY <2>1, <2>2, <2>6, <3>1, <3>2, <3>3
    <3>5. Extracted(a)'
      BY <3>1, <3>2, <3>4 DEF Extracted, Exists, NoTree
    <3> QED BY <3>4, <3>5 DEF ActiveRoot, Content
  <2> QED BY <2>3, <2>4, <2>5, <2>6
<1>6. CASE Day
  <2>1. /\ disk'[a].sha = disk[a].sha /\ disk'[a].root = disk[a].root
        /\ \A r \in Root :
             disk'[a].trees[r] = IF Exists(a, r) /\ r # 0 THEN [disk[a].trees[r] EXCEPT !.old = TRUE]
                                                          ELSE disk[a].trees[r]
    <3>1. /\ disk'[a].sha = disk[a].sha /\ disk'[a].root = disk[a].root
          /\ disk'[a].trees = [r \in Root |->
               IF Exists(a, r) /\ r # 0 THEN [disk[a].trees[r] EXCEPT !.old = TRUE]
                                        ELSE disk[a].trees[r]]
      BY <1>6, <1>t DEF Day, Disk
    <3> QED BY <3>1
  <2>2. \A r \in Root : disk[a].trees[r] \in Tree
    BY <1>t
  <2>3. \A r \in Root : disk'[a].trees[r].content = disk[a].trees[r].content
    BY <2>1, <2>2 DEF Tree
  <2> QED BY <1>k, <1>r, <2>1, <2>3
<1>7. CASE \/ UseCache \/ Offline \/ BlindDownload \/ RefuseDowngrade \/ Current \/ Update
           \/ SkipArchive \/ Stamp \/ SavePair \/ Kill \/ NewRelease \/ Yank \/ Calm
  BY <1>2, <1>7 DEF UseCache, Offline, BlindDownload, RefuseDowngrade, Current, Update, Download,
     DownloadFails, SkipArchive, Stamp, SavePair, Kill, NewRelease, Yank, Calm
<1>8. ASSUME NEW b \in Archives, LoseZip(b) PROVE Content(a, ActiveRoot(a))' # -1
  BY <1>2, <1>8 DEF LoseZip
<1>9. CASE UNCHANGED vars
  BY <1>2, <1>9 DEF vars
<1> QED BY <1>1, <1>2, <1>3, <1>4, <1>5, <1>6, <1>7, <1>8, <1>9 DEF Next, Sync

(* Queries are never interrupted: whatever fails, is killed, is lost or is *)
(* pruned, an archive whose data resolve to a tree keeps resolving to one, *)
(* provided the data root is not reached through an alias.                 *)
THEOREM DataStaysServed == ASSUME ~Aliased PROVE Spec => KeepsServing
<1>1. PairInv /\ PairInv' /\ [Next]_vars
        => [\A a \in Archives : Served(a) # -1 => Served(a)' # -1]_vars
  <2> SUFFICES ASSUME PairInv, PairInv', [Next]_vars, NEW a \in Archives, Served(a) # -1
               PROVE  Served(a)' # -1
    OBVIOUS
  <2>1. CASE PairValid'
    <3>1. pair'.excel \in Root /\ pair'.levels \in Root
      BY DEF PairInv, TypeInv, TypeOK, Pair
    <3>2. ASSUME NEW b \in Archives, NEW r \in Root, Exists(b, r)'
          PROVE  Content(b, r)' # -1
      <4>1. disk'[b].trees[r] \in Tree
        BY DEF PairInv, TypeInv, TypeOK, Disk, Tree
      <4>2. disk'[b].trees[r].content = -1 => ~disk'[b].trees[r].old
        BY DEF PairInv, Shape, Content
      <4> QED BY <3>2, <4>1, <4>2, TreeExists DEF Exists, Content
    <3>3. Content("excel", pair.excel)' # -1 /\ Content("levels", pair.levels)' # -1
      BY <2>1, <3>1, <3>2 DEF PairValid, Archives
    <3>4. CASE a = "excel"
      BY <2>1, <3>3, <3>4 DEF Served
    <3>5. CASE a = "levels"
      BY <2>1, <3>3, <3>5 DEF Served
    <3> QED BY <3>4, <3>5 DEF Archives
  <2>2. CASE ~PairValid'
    <3>1. pair' = NoPair
      BY <2>2 DEF PairInv, PairSafe, Safe, PairValid
    <3>2. pair = NoPair
      BY <3>1, PairStays
    <3>3. Content(a, ActiveRoot(a)) # -1
      BY <3>2 DEF Served, PairValid
    <3>4. Content(a, ActiveRoot(a))' # -1
      BY <3>3, ActiveStep
    <3> QED BY <2>2, <3>4 DEF Served
  <2> QED BY <2>1, <2>2
<1>2. Spec => [][Next]_vars
  BY PTL DEF Spec
<1> QED BY <1>1, <1>2, PairInductive, PTL DEF KeepsServing

-----------------------------------------------------------------------------
(* What the records of the paired activation say: an installed release is  *)
(* never replaced by an older one, and until something fails a label tells *)
(* the content, so that the pair moves from one whole release to a newer   *)
(* one and the synchronizer implements GenerationPointer.                  *)

IsRelease(label) == label[1] = "release"

(* release_meta.json runs ahead of extract_meta.json: what is handed to an *)
(* extraction is the record of the archive, and a record only grows.       *)
RecordsAhead ==
  \A a \in Archives : IsRelease(disk[a].sha)
    => IsRelease(disk[a].meta) /\ disk[a].meta[2] >= disk[a].sha[2]
HandedOver ==
  /\ pc = "stamp" /\ IsRelease(Here.meta)
       => IsRelease(result.sha) /\ result.sha[2] >= Here.meta[2]
  /\ pc \in {"decide", "extract"} /\ result.status # "no_data" => result.sha = Here.meta
  /\ pc = "extract" => result.status # "no_data"
  /\ pc = "publish" /\ (IsRelease(Here.meta) \/ IsRelease(result.sha)) => result.sha = Here.meta

LabelInv == TypeInv /\ RecordsAhead /\ HandedOver

(* Until something fails, and without blind downloads, a label tells the   *)
(* content: of the archive, of the extracted tree, of the tree about to be *)
(* published.                                                              *)
ZipMatches(a) ==
  \/ pc = "stamp" /\ a = at
  \/ disk[a].meta = None /\ disk[a].zip = NoZip
  \/ disk[a].zip # NoZip /\ disk[a].meta = Release(disk[a].zip)
TreeMatches(a) ==
  \/ disk[a].sha = None
  \/ /\ IsRelease(disk[a].sha)
     /\ Exists(a, disk[a].root) => Content(a, disk[a].root) = disk[a].sha[2]
HandedMatches ==
  /\ pc \in {"stamp", "publish"} => ZipOk /\ result.sha = Release(Here.zip)
  /\ pc = "publish" => Content(at, result.root) = Here.zip
  /\ pc = "publish" => Here.meta = Release(Here.zip)
PairMatches ==
  pair # NoPair =>
    /\ Content("excel", pair.excel) = Content("levels", pair.levels)
    /\ \A a \in Archives :
         \/ Content("excel", pair.excel) = 0
         \/ IsRelease(disk[a].sha) /\ disk[a].sha[2] >= Content("excel", pair.excel)
Whole ==
  faults = 0 =>
    /\ \A a \in Archives : ZipMatches(a) /\ TreeMatches(a)
    /\ HandedMatches
    /\ PairMatches
LegacyRoots == \A a \in Archives : Content(a, 0) \in {-1, 0}

PointerInv == PairInv /\ LabelInv /\ LegacyRoots /\ Whole

-----------------------------------------------------------------------------
(* No downgrade.                                                           *)

(* The two letters of a label are where they should be. *)
LEMMA LabelParts ==
  /\ \A n \in 1..MaxRelease : IsRelease(Release(n)) /\ Release(n)[2] = n
  /\ ~IsRelease(None) /\ ~IsRelease(Unknown) /\ ~IsRelease(Legacy)
  /\ \A label \in Labels : IsRelease(label) => \E n \in 1..MaxRelease : label = Release(n)
  /\ \A n \in 1..MaxRelease : Release(n) # None
BY ConstantsAssumption DEF IsRelease, Release, None, Unknown, Legacy, Labels, LocalHash

(* A step that changes no record and hands over nothing new. *)
LEMMA SameRecords ==
  ASSUME LabelInv, TypeInv',
         \A a \in Archives : disk'[a].sha = disk[a].sha /\ disk'[a].meta = disk[a].meta,
         \/ pc' \in {"idle", "release", "save"}
         \/ UNCHANGED <<pc, at, result>>
  PROVE  LabelInv'
<1>1. at \in Archives
  BY DEF LabelInv, TypeInv, TypeOK
<1>2. RecordsAhead'
  BY DEF LabelInv, RecordsAhead
<1>3. HandedOver'
  BY <1>1 DEF LabelInv, HandedOver, Here
<1> QED BY <1>2, <1>3 DEF LabelInv

(* What is answered without a download is the record of the archive. *)
LEMMA AnswerLabels ==
  ASSUME LabelInv, TypeInv', NEW status, Answer(status, Here.meta),
         \A a \in Archives : disk'[a].sha = disk[a].sha /\ disk'[a].meta = disk[a].meta
  PROVE  LabelInv'
<1>1. at \in Archives /\ at' = at /\ pc' = "decide" /\ result'.sha = Here.meta
  BY DEF LabelInv, TypeInv, TypeOK, Answer
<1>2. RecordsAhead'
  BY DEF LabelInv, RecordsAhead
<1>3. HandedOver'
  BY <1>1 DEF HandedOver, Here
<1> QED BY <1>2, <1>3 DEF LabelInv

(* A download is of a release that is not behind the record. *)
LEMMA DownloadLabels ==
  ASSUME LabelInv, TypeInv', NEW content, NEW label,
         Download(content, label) \/ DownloadFails(content),
         IsRelease(Here.meta) => IsRelease(label) /\ label[2] >= Here.meta[2]
  PROVE  LabelInv'
<1>1. at \in Archives /\ at' = at /\ disk \in [Archives -> Disk]
  BY DEF LabelInv, TypeInv, TypeOK, Download, DownloadFails
<1>2. \A a \in Archives : disk'[a].sha = disk[a].sha /\ disk'[a].meta = disk[a].meta
  <2>1. disk' = disk \/ disk' = [disk EXCEPT ![at].zip = content]
    BY DEF Download, DownloadFails
  <2>2. CASE disk' = [disk EXCEPT ![at].zip = content]
    BY <1>1, <2>2 DEF Disk
  <2> QED BY <2>1, <2>2
<1>3. RecordsAhead'
  BY <1>2 DEF LabelInv, RecordsAhead
<1>4. HandedOver'
  <2>1. CASE Download(content, label)
    BY <2>1, <1>1, <1>2 DEF Download, HandedOver, Here
  <2>2. CASE DownloadFails(content)
    <3>1. pc' = "decide" /\ (result'.status # "no_data" => result'.sha = Here.meta)
      BY <2>2 DEF DownloadFails
    <3> QED BY <3>1, <1>1, <1>2 DEF HandedOver, Here
  <2> QED BY <2>1, <2>2
<1> QED BY <1>3, <1>4 DEF LabelInv

(* Every step keeps the record ahead. *)
LEMMA LabelStep == LabelInv /\ [Next]_vars => LabelInv'
<1> SUFFICES ASSUME LabelInv, [Next]_vars PROVE LabelInv'
  OBVIOUS
<1>i. TypeInv /\ TypeOK /\ RecordsAhead /\ HandedOver
  BY DEF LabelInv, TypeInv
<1>j. TypeInv'
  BY <1>i, TypeStep
<1>t. disk \in [Archives -> Disk] /\ at \in Archives /\ Here = disk[at] /\ Here.meta \in Labels
  BY <1>i DEF TypeOK, Here, Disk
<1>k. ASSUME NEW a \in Archives,
             \/ disk' = disk
             \/ \E f : disk' = [disk EXCEPT ![a].fresh = f]
             \/ \E z : disk' = [disk EXCEPT ![a].zip = z]
             \/ \E t : disk' = [disk EXCEPT ![a].trees = t]
      PROVE  \A b \in Archives : disk'[b].sha = disk[b].sha /\ disk'[b].meta = disk[b].meta
  <2>1. ASSUME NEW f, disk' = [disk EXCEPT ![a].fresh = f]
        PROVE  \A b \in Archives : disk'[b].sha = disk[b].sha /\ disk'[b].meta = disk[b].meta
    BY <1>t, <2>1 DEF Disk
  <2>2. ASSUME NEW z, disk' = [disk EXCEPT ![a].zip = z]
        PROVE  \A b \in Archives : disk'[b].sha = disk[b].sha /\ disk'[b].meta = disk[b].meta
    BY <1>t, <2>2 DEF Disk
  <2>3. ASSUME NEW t, disk' = [disk EXCEPT ![a].trees = t]
        PROVE  \A b \in Archives : disk'[b].sha = disk[b].sha /\ disk'[b].meta = disk[b].meta
    BY <1>t, <2>3 DEF Disk
  <2> QED BY <1>k, <2>1, <2>2, <2>3
<1>1. ASSUME NEW forced \in BOOLEAN, Start(forced) PROVE LabelInv'
  <2>1. ASSUME NEW e, NEW l, disk' = [disk EXCEPT !["excel"].trees = e, !["levels"].trees = l]
        PROVE  \A b \in Archives : disk'[b].sha = disk[b].sha /\ disk'[b].meta = disk[b].meta
    BY <1>t, <2>1 DEF Disk, Archives
  <2>2. \A b \in Archives : disk'[b].sha = disk[b].sha /\ disk'[b].meta = disk[b].meta
    BY <1>1, <2>1 DEF Start
  <2> QED BY <1>1, <1>j, <2>2, SameRecords DEF Start
<1>2. CASE UseCache \/ Offline \/ RefuseDowngrade \/ Current
  <2>1. \E status : Answer(status, Here.meta)
    BY <1>2 DEF UseCache, Offline, RefuseDowngrade, Current
  <2>2. disk' = disk \/ disk' = [disk EXCEPT ![at].fresh = TRUE]
    BY <1>2 DEF UseCache, Offline, RefuseDowngrade, Current
  <2> QED BY <1>j, <1>k, <1>t, <2>1, <2>2, AnswerLabels
<1>3. CASE BlindDownload
  BY <1>3, <1>j, DownloadLabels DEF BlindDownload, IsRelease
<1>4. CASE Update
  <2>1. latest \in 1..MaxRelease /\ IsRelease(Release(latest)) /\ Release(latest)[2] = latest
    BY <1>i, LabelParts DEF TypeOK
  <2>2. IsRelease(Here.meta) => latest >= Here.meta[2]
    <3> SUFFICES ASSUME IsRelease(Here.meta) PROVE latest >= Here.meta[2]
      OBVIOUS
    <3>1. PICK n \in 1..MaxRelease : Here.meta[2] = n
      BY <1>t, LabelParts
    <3>2. CASE ZipOk
      BY <1>4, <2>1, <3>1, <3>2 DEF Update, UpToDate, IsRelease
    <3>3. CASE ~ZipOk
      BY <1>4, <2>1, <3>1, <3>3 DEF Update, IsRelease
    <3> QED BY <3>2, <3>3
  <2> QED BY <1>4, <1>j, <2>1, <2>2, DownloadLabels DEF Update
<1>5. CASE Stamp
  <2>1. /\ disk'[at].sha = disk[at].sha /\ disk'[at].meta = result.sha
        /\ \A b \in Archives \ {at} : disk'[b] = disk[b]
    BY <1>5, <1>t DEF Stamp, Disk
  <2>2. pc' = "decide" /\ result' = result /\ at' = at
    BY <1>5 DEF Stamp
  <2>3. RecordsAhead'
    <3>1. ASSUME IsRelease(disk[at].sha)
          PROVE  IsRelease(result.sha) /\ result.sha[2] >= disk[at].sha[2]
      <4>1. /\ IsRelease(Here.meta) /\ Here.meta[2] >= disk[at].sha[2]
            /\ IsRelease(result.sha) /\ result.sha[2] >= Here.meta[2]
        BY <1>5, <1>i, <1>t, <3>1 DEF Stamp, RecordsAhead, HandedOver
      <4>2. \A label \in Labels : IsRelease(label) => label[2] \in Nat
        BY LabelParts
      <4>3. disk[at].sha \in Labels /\ result.sha \in Labels
        BY <1>i, <1>t DEF TypeOK, Disk, Result
      <4> QED BY <1>t, <3>1, <4>1, <4>2, <4>3
    <3> QED BY <1>i, <2>1, <3>1 DEF RecordsAhead
  <2>4. HandedOver'
    BY <1>t, <2>1, <2>2 DEF HandedOver, Here
  <2> QED BY <1>j, <2>3, <2>4 DEF LabelInv
<1>6. CASE Decide
  <2>1. \A b \in Archives : disk'[b].sha = disk[b].sha /\ disk'[b].meta = disk[b].meta
    BY <1>6, <1>k, <1>t DEF Decide
  <2>2. CASE pc' = "extract" /\ UNCHANGED at /\ result.status # "no_data"
    <3>1. HandedOver'
      BY <1>6, <1>i, <1>t, <2>1, <2>2 DEF Decide, HandedOver, Here
    <3>2. RecordsAhead'
      BY <1>i, <2>1 DEF RecordsAhead
    <3> QED BY <1>j, <3>1, <3>2 DEF LabelInv
  <2>3. CASE NextArchive
    BY <1>j, <2>1, <2>3, SameRecords DEF NextArchive
  <2> QED BY <1>6, <2>2, <2>3 DEF Decide
<1>7. CASE Extract
  <2>1. CASE NextArchive /\ UNCHANGED disk
    BY <1>j, <2>1, SameRecords DEF NextArchive
  <2>2. ASSUME NEW r \in FreeSlots,
               disk' = [disk EXCEPT ![at].trees[r] = [content |-> Here.zip, old |-> FALSE]],
               result' = [result EXCEPT !.sha = ActivationSha, !.root = r],
               pc' = "publish", UNCHANGED at
        PROVE  LabelInv'
    <3>1. \A b \in Archives : disk'[b].sha = disk[b].sha /\ disk'[b].meta = disk[b].meta
      BY <2>2, <1>t DEF Disk
    <3>2. result'.sha = ActivationSha
      BY <1>i, <2>2 DEF TypeOK, Result
    <3>3. IsRelease(Here.meta) \/ IsRelease(ActivationSha) => ActivationSha = Here.meta
      <4>1. result.sha = Here.meta
        BY <1>7, <1>i DEF Extract, HandedOver
      <4> QED BY <4>1 DEF ActivationSha, IsRelease, None, LocalHash
    <3>4. HandedOver'
      BY <1>t, <2>2, <3>1, <3>2, <3>3 DEF HandedOver, Here
    <3>5. RecordsAhead'
      BY <1>i, <3>1 DEF RecordsAhead
    <3> QED BY <1>j, <3>4, <3>5 DEF LabelInv
  <2> QED BY <1>7, <2>1, <2>2 DEF Extract
<1>8. CASE Publish
  <2>1. pc = "publish" /\ pc' \in {"release", "save"}
    BY <1>8 DEF Publish, NextArchive
  <2>2. \/ \E t : disk' = [disk EXCEPT ![at].sha = result.sha, ![at].root = result.root,
                                       ![at].trees = t]
        \/ \E t : disk' = [disk EXCEPT ![at].trees = t]
    BY <1>8 DEF Publish
  <2>3. ASSUME NEW t, disk' = [disk EXCEPT ![at].sha = result.sha, ![at].root = result.root,
                                           ![at].trees = t]
        PROVE  LabelInv'
    <3>1. /\ disk'[at].sha = result.sha /\ disk'[at].meta = Here.meta
          /\ \A b \in Archives \ {at} : disk'[b] = disk[b]
      BY <2>3, <1>t DEF Disk
    <3>2. IsRelease(result.sha) => IsRelease(Here.meta) /\ result.sha = Here.meta
      BY <1>i, <2>1 DEF HandedOver
    <3>3. IsRelease(result.sha) => result.sha[2] \in Nat
      BY <1>t, <3>2, LabelParts
    <3>4. RecordsAhead'
      BY <1>i, <3>1, <3>2, <3>3 DEF RecordsAhead
    <3>5. HandedOver'
      BY <2>1 DEF HandedOver
    <3> QED BY <1>j, <3>4, <3>5 DEF LabelInv
  <2>4. ASSUME NEW t, disk' = [disk EXCEPT ![at].trees = t] PROVE LabelInv'
    BY <1>j, <1>k, <1>t, <2>1, <2>4, SameRecords
  <2> QED BY <2>2, <2>3, <2>4
<1>9. CASE SavePair \/ Kill \/ NewRelease \/ Yank \/ Calm \/ SkipArchive \/ UNCHANGED vars
  <2>1. \A b \in Archives : disk'[b].sha = disk[b].sha /\ disk'[b].meta = disk[b].meta
    BY <1>9 DEF SavePair, Kill, NewRelease, Yank, Calm, SkipArchive, vars
  <2>2. pc' \in {"idle", "release", "save"} \/ UNCHANGED <<pc, at, result>>
    BY <1>9 DEF SavePair, Kill, NewRelease, Yank, Calm, SkipArchive, NextArchive, vars
  <2> QED BY <1>j, <2>1, <2>2, SameRecords
<1>10. ASSUME NEW b \in Archives, LoseZip(b) PROVE LabelInv'
  BY <1>10, <1>j, <1>k, SameRecords DEF LoseZip
<1>11. CASE Hour \/ Day
  <2>1. \A b \in Archives : disk'[b].sha = disk[b].sha /\ disk'[b].meta = disk[b].meta
    <3>1. CASE Hour
      BY <1>t, <3>1 DEF Hour, Disk
    <3>2. CASE Day
      BY <1>t, <3>2 DEF Day, Disk
    <3> QED BY <1>11, <3>1, <3>2
  <2> QED BY <1>11, <1>j, <2>1, SameRecords DEF Hour, Day
<1> QED BY <1>1, <1>2, <1>3, <1>4, <1>5, <1>6, <1>7, <1>8, <1>9, <1>10, <1>11 DEF Next, Sync

LEMMA LabelInductive == Spec => []LabelInv
<1>1. Init => LabelInv
  <2> SUFFICES ASSUME Init PROVE LabelInv
    OBVIOUS
  <2>1. TypeInv
    BY TypeInit
  <2>2. \A a \in Archives : disk[a].sha = None
    BY DEF Init
  <2> QED BY <2>1, <2>2, LabelParts DEF Init, LabelInv, RecordsAhead, HandedOver
<1> QED BY <1>1, LabelStep, PTL DEF Spec

(* Only Publish writes extract_meta.json. *)
LEMMA RecordStep ==
  ASSUME LabelInv, [Next]_vars, NEW a \in Archives, disk'[a].sha # disk[a].sha
  PROVE  pc = "publish" /\ a = at /\ disk'[a].sha = result.sha
<1>t. disk \in [Archives -> Disk] /\ at \in Archives
  BY DEF LabelInv, TypeInv, TypeOK
<1>1. CASE Publish
  <2>1. \/ \E t : disk' = [disk EXCEPT ![at].sha = result.sha, ![at].root = result.root,
                                       ![at].trees = t]
        \/ \E t : disk' = [disk EXCEPT ![at].trees = t]
    BY <1>1 DEF Publish
  <2>2. ASSUME NEW t, disk' = [disk EXCEPT ![at].sha = result.sha, ![at].root = result.root,
                                           ![at].trees = t]
        PROVE  a = at /\ disk'[a].sha = result.sha
    BY <1>t, <2>2 DEF Disk
  <2>3. ASSUME NEW t, disk' = [disk EXCEPT ![at].trees = t] PROVE FALSE
    BY <1>t, <2>3 DEF Disk
  <2> QED BY <1>1, <2>1, <2>2, <2>3 DEF Publish
<1>k. ASSUME NEW b \in Archives,
             \/ disk' = disk
             \/ \E f : disk' = [disk EXCEPT ![b].fresh = f]
             \/ \E z : disk' = [disk EXCEPT ![b].zip = z]
             \/ \E m, f : disk' = [disk EXCEPT ![b].meta = m, ![b].fresh = f]
             \/ \E t : disk' = [disk EXCEPT ![b].trees = t]
      PROVE  FALSE
  <2>1. ASSUME NEW f, disk' = [disk EXCEPT ![b].fresh = f] PROVE FALSE
    BY <1>t, <2>1 DEF Disk
  <2>2. ASSUME NEW z, disk' = [disk EXCEPT ![b].zip = z] PROVE FALSE
    BY <1>t, <2>2 DEF Disk
  <2>3. ASSUME NEW t, disk' = [disk EXCEPT ![b].trees = t] PROVE FALSE
    BY <1>t, <2>3 DEF Disk
  <2>4. ASSUME NEW m, NEW f, disk' = [disk EXCEPT ![b].meta = m, ![b].fresh = f] PROVE FALSE
    BY <1>t, <2>4 DEF Disk
  <2> QED BY <1>k, <2>1, <2>2, <2>3, <2>4
<1>2. CASE UseCache \/ Offline \/ BlindDownload \/ RefuseDowngrade \/ Current \/ Update \/ Stamp
  <2>1. \/ disk' = disk
        \/ \E f : disk' = [disk EXCEPT ![at].fresh = f]
        \/ \E z : disk' = [disk EXCEPT ![at].zip = z]
        \/ \E m, f : disk' = [disk EXCEPT ![at].meta = m, ![at].fresh = f]
    BY <1>2 DEF UseCache, Offline, BlindDownload, RefuseDowngrade, Current, Update, Stamp,
                Download, DownloadFails
  <2> QED BY <1>k, <1>t, <2>1
<1>3. CASE Decide
  BY <1>3, <1>k, <1>t DEF Decide
<1>4. CASE Extract
  <2>1. ASSUME NEW r \in FreeSlots,
               disk' = [disk EXCEPT ![at].trees[r] = [content |-> Here.zip, old |-> FALSE]]
        PROVE  FALSE
    BY <1>t, <2>1 DEF Disk
  <2> QED BY <1>4, <1>k, <1>t, <2>1 DEF Extract
<1>5. CASE SavePair \/ Kill \/ NewRelease \/ Yank \/ Calm \/ SkipArchive \/ UNCHANGED vars
  BY <1>5, <1>k, <1>t DEF SavePair, Kill, NewRelease, Yank, Calm, SkipArchive, vars
<1>6. ASSUME NEW b \in Archives, LoseZip(b) PROVE FALSE
  BY <1>6, <1>k DEF LoseZip
<1>7. CASE Hour
  BY <1>7, <1>t DEF Hour, Disk
<1>8. CASE Day
  BY <1>8, <1>t DEF Day, Disk
<1>9. ASSUME NEW forced \in BOOLEAN, Start(forced) PROVE FALSE
  <2>1. ASSUME NEW e, NEW l, disk' = [disk EXCEPT !["excel"].trees = e, !["levels"].trees = l]
        PROVE  FALSE
    BY <1>t, <2>1 DEF Disk, Archives
  <2> QED BY <1>9, <2>1 DEF Start
<1> QED BY <1>1, <1>2, <1>3, <1>4, <1>5, <1>6, <1>7, <1>8, <1>9 DEF Next, Sync

(* The record that is checked before a download is the one it replaces.     *)
LEMMA RecordGrows ==
  ASSUME LabelInv, [Next]_vars, NEW a \in Archives, IsRelease(disk[a].sha),
         disk'[a].sha # disk[a].sha
  PROVE  IsRelease(disk'[a].sha) /\ disk'[a].sha[2] > disk[a].sha[2]
<1>1. pc = "publish" /\ a = at /\ disk'[a].sha = result.sha
  BY RecordStep
<1>2. IsRelease(Here.meta) /\ Here.meta[2] >= disk[a].sha[2] /\ result.sha = Here.meta
  BY <1>1 DEF LabelInv, RecordsAhead, HandedOver, Here
<1>3. disk[a].sha \in Labels /\ Here.meta \in Labels
  BY <1>1 DEF LabelInv, TypeInv, TypeOK, Here, Disk
<1>4. PICK n \in 1..MaxRelease : disk[a].sha = Release(n)
  BY <1>3, LabelParts
<1>5. PICK m \in 1..MaxRelease : Here.meta = Release(m)
  BY <1>2, <1>3, LabelParts
<1>6. n # m /\ m >= n
  BY <1>1, <1>2, <1>4, <1>5, LabelParts
<1> QED BY <1>1, <1>2, <1>4, <1>5, <1>6, LabelParts

(* release_up_to_date compares with release_meta.json, which never falls    *)
(* behind what is extracted: no interleaving of syncs, withdrawn releases,  *)
(* kills and lost archives installs an older release over a newer one.      *)
THEOREM NeverOlder == Spec => NoDowngrade
<1>1. LabelInv /\ [Next]_vars
        => [\A a \in Archives : disk[a].sha[1] = "release" /\ disk'[a].sha # disk[a].sha
              => disk'[a].sha[1] = "release" /\ disk'[a].sha[2] > disk[a].sha[2]]_vars
  BY RecordGrows DEF IsRelease
<1>2. Spec => [][Next]_vars
  BY PTL DEF Spec
<1> QED BY <1>1, <1>2, LabelInductive, PTL DEF NoDowngrade

-----------------------------------------------------------------------------
(* A label tells the content.                                              *)

(* What a step does to a tree: nothing that shows, or it is pruned, or it  *)
(* is new and about to be published.                                       *)
NewTree(a, r) ==
  /\ pc = "extract" /\ pc' = "publish" /\ a = at /\ at' = at
  /\ r \in FreeSlots /\ result'.root = r /\ result'.sha = ActivationSha
  /\ Content(a, r)' = Here.zip
  /\ \A s \in Root \ {r} : Content(a, s)' = Content(a, s)

TreeGoes(a, r) ==
  \/ Content(a, r)' = Content(a, r)
  \/ ~Exists(a, r)'
  \/ NewTree(a, r)

LEMMA TreeStep ==
  ASSUME PairInv, PairInv', [Next]_vars, NEW a \in Archives, NEW r \in Root
  PROVE  TreeGoes(a, r)
<1>t. /\ disk \in [Archives -> Disk] /\ at \in Archives /\ Here = disk[at]
      /\ \A b \in Archives : disk[b] \in Disk /\ disk[b].trees \in [Root -> Tree]
  BY ActiveTypes DEF PairInv, TypeInv, TypeOK, Here
<1>r. 0 \in Root
  BY DEF Root
<1>k. ASSUME disk'[a].trees[r].content = disk[a].trees[r].content PROVE TreeGoes(a, r)
  BY <1>k DEF Content, TreeGoes
<1>p. ASSUME NEW t \in [Root -> Tree], NEW keep, disk'[a].trees = Prune(t, keep),
             t[r].content = disk[a].trees[r].content
      PROVE  TreeGoes(a, r)
  <2>1. Prune(t, keep)[r] \in {t[r], NoTree}
    BY <1>r, TreeOperators
  <2> QED BY <1>k, <1>p, <2>1 DEF Exists, TreeGoes
<1>1. CASE \/ UNCHANGED disk
           \/ \E b \in Archives : \E z : disk' = [disk EXCEPT ![b].zip = z]
           \/ \E f : disk' = [disk EXCEPT ![at].fresh = f]
           \/ \E m, f : disk' = [disk EXCEPT ![at].meta = m, ![at].fresh = f]
  <2>1. ASSUME NEW b \in Archives, NEW z, disk' = [disk EXCEPT ![b].zip = z]
        PROVE  disk'[a].trees = disk[a].trees
    BY <1>t, <2>1 DEF Disk
  <2>2. ASSUME NEW f, disk' = [disk EXCEPT ![at].fresh = f]
        PROVE  disk'[a].trees = disk[a].trees
    BY <1>t, <2>2 DEF Disk
  <2>3. ASSUME NEW m, NEW f, disk' = [disk EXCEPT ![at].meta = m, ![at].fresh = f]
        PROVE  disk'[a].trees = disk[a].trees
    BY <1>t, <2>3 DEF Disk
  <2> QED BY <1>1, <1>k, <2>1, <2>2, <2>3
<1>2. ASSUME NEW forced \in BOOLEAN, Start(forced) PROVE TreeGoes(a, r)
  <2> DEFINE e == Touch(disk["excel"].trees, pair'.excel)
             l == Touch(disk["levels"].trees, pair'.levels)
  <2>1. UNCHANGED disk \/ disk' = [disk EXCEPT !["excel"].trees = e, !["levels"].trees = l]
    BY <1>2 DEF Start
  <2>2. \A t \in [Root -> Tree], s \in Root : Touch(t, s)[r].content = t[r].content
    BY TreeOperators
  <2>3. pair'.excel \in Root /\ pair'.levels \in Root
    BY DEF PairInv, TypeInv, TypeOK, Pair
  <2>4. e[r].content = disk["excel"].trees[r].content /\ l[r].content = disk["levels"].trees[r].content
    BY <1>t, <2>2, <2>3 DEF Archives
  <2> HIDE DEF e, l
  <2>5. CASE disk' = [disk EXCEPT !["excel"].trees = e, !["levels"].trees = l]
    <3>1. /\ a = "excel" => disk'[a].trees = e
          /\ a = "levels" => disk'[a].trees = l
      BY <1>t, <2>5 DEF Disk, Archives
    <3> QED BY <1>k, <2>4, <3>1 DEF Archives
  <2> QED BY <1>1, <2>1, <2>5
<1>3. CASE Decide
  <2>1. disk' = [disk EXCEPT ![at].trees = Prune(Here.trees, RealPaths({ActiveRoot(at)}))]
    BY <1>3 DEF Decide
  <2>2. IF a = at THEN disk'[a].trees = Prune(disk[a].trees, RealPaths({ActiveRoot(at)}))
                  ELSE disk'[a].trees = disk[a].trees
    BY <1>t, <2>1 DEF Disk
  <2> QED BY <1>k, <1>p, <1>t, <2>2
<1>4. CASE Extract
  <2>1. ASSUME NEW s \in FreeSlots,
               disk' = [disk EXCEPT ![at].trees[s] = [content |-> Here.zip, old |-> FALSE]],
               result' = [result EXCEPT !.sha = ActivationSha, !.root = s],
               pc' = "publish", UNCHANGED at
        PROVE  TreeGoes(a, r)
    <3>1. s \in Root
      BY DEF FreeSlots, Root
    <3>2. \A q \in Root : disk'[a].trees[q] =
             IF a = at /\ q = s THEN [content |-> Here.zip, old |-> FALSE] ELSE disk[a].trees[q]
      BY <1>t, <2>1, <3>1 DEF Disk
    <3>3. result'.root = s /\ result'.sha = ActivationSha
      BY <2>1 DEF PairInv, TypeInv, TypeOK, Result
    <3>4. CASE a = at /\ r = s
      <4>1. Content(a, r)' = Here.zip /\ \A q \in Root \ {r} : Content(a, q)' = Content(a, q)
        BY <3>2, <3>4 DEF Content
      <4> QED BY <1>4, <2>1, <3>3, <3>4, <4>1 DEF Extract, NewTree, TreeGoes
    <3> QED BY <1>k, <3>2, <3>4
  <2> QED BY <1>4, <1>1, <2>1 DEF Extract
<1>5. CASE Publish
  <2> DEFINE left == ActiveRoot(at)
             u == IF left # 0 /\ ~Aliased THEN Touch(Here.trees, left) ELSE Here.trees
             t == Prune(u, RealPaths({left}) \cup {result.root})
  <2>1. u \in [Root -> Tree] /\ u[r].content = disk[at].trees[r].content
    <3>1. ActiveRoot(at) \in Root /\ Here.trees \in [Root -> Tree]
      BY <1>t, ActiveTypes DEF PairInv, TypeInv
    <3>2. Touch(Here.trees, left) \in [Root -> Tree] /\ Touch(Here.trees, left)[r].content = Here.trees[r].content
      BY <3>1, TreeOperators
    <3> QED BY <1>t, <3>1, <3>2
  <2> HIDE DEF u
  <2>2. \/ disk' = [disk EXCEPT ![at].sha = result.sha, ![at].root = result.root, ![at].trees = t]
        \/ disk' = [disk EXCEPT ![at].trees = u]
        \/ disk' = [disk EXCEPT ![at].sha = result.sha, ![at].root = result.root, ![at].trees = u]
    BY <1>5 DEF Publish, u
  <2>3. IF a = at THEN disk'[a].trees \in {t, u} ELSE disk'[a].trees = disk[a].trees
    <3> HIDE DEF t
    <3> QED BY <1>t, <2>2 DEF Disk
  <2> QED BY <1>k, <1>p, <2>1, <2>3
<1>6. CASE Hour
  BY <1>6, <1>k, <1>t DEF Hour, Disk
<1>7. CASE Day
  <2>1. disk'[a].trees = [s \in Root |-> IF Exists(a, s) /\ s # 0
                                          THEN [disk[a].trees[s] EXCEPT !.old = TRUE]
                                          ELSE disk[a].trees[s]]
    BY <1>7, <1>t DEF Day, Disk
  <2>2. disk[a].trees[r] \in Tree
    BY <1>t
  <2> QED BY <1>k, <2>1, <2>2 DEF Tree
<1>8. CASE \/ UseCache \/ Offline \/ BlindDownload \/ RefuseDowngrade \/ Current \/ Update
           \/ SkipArchive \/ Stamp \/ SavePair \/ Kill \/ NewRelease \/ Yank \/ Calm \/ UNCHANGED vars
  BY <1>8, <1>1, <1>t DEF UseCache, Offline, BlindDownload, RefuseDowngrade, Current, Update, Download,
     DownloadFails, SkipArchive, Stamp, SavePair, Kill, NewRelease, Yank, Calm, vars
<1>9. ASSUME NEW b \in Archives, LoseZip(b) PROVE TreeGoes(a, r)
  BY <1>9, <1>1 DEF LoseZip
<1>10. ASSUME Sync PROVE TreeGoes(a, r)
  BY <1>3, <1>4, <1>5, <1>8, <1>10 DEF Sync
<1> QED BY <1>2, <1>6, <1>7, <1>8, <1>9, <1>10 DEF Next

(* A tree that is there has a content, one that is not has none. *)
LEMMA ContentTells ==
  ASSUME PairInv, NEW a \in Archives, NEW r \in Root
  PROVE  /\ Exists(a, r) <=> Content(a, r) # -1
         /\ Content(a, r) \in -1..MaxRelease
<1>1. disk[a].trees[r] \in Tree
  BY DEF PairInv, TypeInv, TypeOK, Disk, Tree
<1>2. disk[a].trees[r].content = -1 => ~disk[a].trees[r].old
  BY DEF PairInv, Shape, Content
<1> QED BY <1>1, <1>2, TreeExists DEF Exists, Content, Tree

(* The trees of a pair that stays keep their content. *)
LEMMA PairContent ==
  ASSUME PairInv, PairInv', [Next]_vars, pair' = pair, pair # NoPair
  PROVE  /\ Content("excel", pair.excel)' = Content("excel", pair.excel)
         /\ Content("levels", pair.levels)' = Content("levels", pair.levels)
<1>1. pair.excel \in Root /\ pair.levels \in Root /\ "excel" \in Archives /\ "levels" \in Archives
  BY DEF PairInv, TypeInv, TypeOK, Pair, Archives
<1>2. Exists("excel", pair.excel) /\ Exists("levels", pair.levels)
  BY DEF PairInv, PairSafe, Safe
<1>3. Exists("excel", pair.excel)' /\ Exists("levels", pair.levels)'
  BY DEF PairInv, PairSafe, Safe
<1>4. ~NewTree("excel", pair.excel) /\ ~NewTree("levels", pair.levels)
  BY <1>2 DEF NewTree, FreeSlots
<1>5. Content("excel", pair.excel)' = Content("excel", pair.excel)
  <2>1. PICK r \in Root : r = pair.excel
    BY <1>1
  <2>2. Content("excel", r)' = Content("excel", r) \/ NewTree("excel", r)
    BY <1>1, <1>3, <2>1, TreeStep DEF TreeGoes
  <2> QED BY <1>4, <2>1, <2>2
<1>6. Content("levels", pair.levels)' = Content("levels", pair.levels)
  <2>1. PICK r \in Root : r = pair.levels
    BY <1>1
  <2>2. Content("levels", r)' = Content("levels", r) \/ NewTree("levels", r)
    BY <1>1, <1>3, <2>1, TreeStep DEF TreeGoes
  <2> QED BY <1>4, <2>1, <2>2
<1> QED BY <1>5, <1>6

(* Records only grow, so a pair that stays is never ahead of them. *)
LEMMA PairStaysMatched ==
  ASSUME PointerInv, PairInv', [Next]_vars, faults = 0, pair' = pair
  PROVE  PairMatches'
<1> SUFFICES ASSUME pair # NoPair PROVE PairMatches'
  BY DEF PairMatches
<1>1. PairMatches /\ PairInv /\ LabelInv
  BY DEF PointerInv, Whole
<1>2. /\ Content("excel", pair.excel)' = Content("excel", pair.excel)
      /\ Content("levels", pair.levels)' = Content("levels", pair.levels)
  BY <1>1, PairContent
<1>3. ASSUME NEW a \in Archives, IsRelease(disk[a].sha), disk[a].sha[2] >= Content("excel", pair.excel)
      PROVE  IsRelease(disk'[a].sha) /\ disk'[a].sha[2] >= Content("excel", pair.excel)
  <2>1. CASE disk'[a].sha = disk[a].sha
    BY <1>3, <2>1
  <2>2. CASE disk'[a].sha # disk[a].sha
    <3>1. IsRelease(disk'[a].sha) /\ disk'[a].sha[2] > disk[a].sha[2]
      BY <1>1, <1>3, <2>2, RecordGrows
    <3>2. disk[a].sha \in Labels /\ disk'[a].sha \in Labels
      BY DEF PointerInv, PairInv, TypeInv, TypeOK, Disk
    <3>3. disk[a].sha[2] \in Nat /\ disk'[a].sha[2] \in Nat
      BY <1>3, <3>1, <3>2, LabelParts
    <3>4. Content("excel", pair.excel) \in Int
      BY <1>1, ContentTells DEF PairInv, TypeInv, TypeOK, Pair, Archives
    <3> QED BY <1>3, <3>1, <3>3, <3>4
  <2> QED BY <2>1, <2>2
<1> QED BY <1>1, <1>2, <1>3 DEF PairMatches

(* Steps that leave the records of every archive and its zip alone. *)
LEMMA ArchivesStayMatched ==
  ASSUME PointerInv, PairInv', [Next]_vars, faults = 0,
         \A a \in Archives : /\ disk'[a].sha = disk[a].sha /\ disk'[a].root = disk[a].root
                             /\ disk'[a].meta = disk[a].meta /\ disk'[a].zip = disk[a].zip,
         pc = "stamp" => pc' = "stamp" /\ at' = at
  PROVE  \A a \in Archives : (ZipMatches(a))' /\ (TreeMatches(a))'
<1> TAKE a \in Archives
<1>1. ZipMatches(a) /\ TreeMatches(a) /\ PairInv /\ disk[a].root \in Root
  BY DEF PointerInv, Whole, PairInv, TypeInv, TypeOK, Disk
<1>2. (ZipMatches(a))'
  BY <1>1 DEF ZipMatches
<1>3. PICK r \in Root : r = disk[a].root
  BY <1>1
<1>4. \/ disk'[a].trees[disk[a].root].content = Content(a, disk[a].root)
      \/ disk'[a].trees[disk[a].root] = NoTree
  <2>1. ~NewTree(a, r)
    BY <1>3 DEF NewTree, FreeSlots
  <2>2. \/ disk'[a].trees[r].content = disk[a].trees[r].content
        \/ disk'[a].trees[r] = NoTree
    BY <1>1, <2>1, TreeStep DEF TreeGoes, Content, Exists
  <2> QED BY <1>3, <2>2 DEF Content
<1>5. disk'[a].trees[disk[a].root] # NoTree => disk[a].trees[disk[a].root] # NoTree
  <2>1. PairInv' => (disk'[a].trees[disk[a].root] # NoTree <=> disk'[a].trees[disk[a].root].content # -1)
    <3>1. disk'[a].trees[disk[a].root] \in Tree
      BY <1>1 DEF PairInv, TypeInv, TypeOK, Disk, Tree
    <3>2. disk'[a].trees[disk[a].root].content = -1 => ~disk'[a].trees[disk[a].root].old
      BY <1>1 DEF PairInv, Shape, Content
    <3> QED BY <3>1, <3>2, TreeExists
  <2>2. disk[a].trees[disk[a].root] # NoTree <=> Content(a, disk[a].root) # -1
    BY <1>1, ContentTells DEF Exists
  <2> QED BY <1>4, <2>1, <2>2
<1>6. (TreeMatches(a))'
  BY <1>1, <1>4, <1>5 DEF TreeMatches, Exists, Content
<1> QED BY <1>2, <1>6

(* The roots of the layout before generations are never written.           *)
LEMMA LegacyStep ==
  ASSUME PointerInv, PairInv', [Next]_vars
  PROVE  LegacyRoots'
<1> SUFFICES ASSUME NEW a \in Archives PROVE Content(a, 0)' \in {-1, 0}
  BY DEF LegacyRoots
<1>1. PICK r \in Root : r = 0
  BY DEF Root
<1>2. ~NewTree(a, r)
  BY <1>1, ConstantsAssumption DEF NewTree, FreeSlots
<1>3. Content(a, r)' = Content(a, r) \/ ~Exists(a, r)'
  BY <1>2, TreeStep DEF TreeGoes, PointerInv
<1>4. Content(a, r) \in {-1, 0}
  BY <1>1 DEF PointerInv, LegacyRoots
<1>5. ~Exists(a, r)' => Content(a, r)' = -1
  BY DEF Exists, Content, NoTree
<1> QED BY <1>1, <1>3, <1>4, <1>5

(* What fails is counted. *)
LEMMA FaultsCount ==
  ASSUME TypeInv, [Next]_vars, faults' = 0
  PROVE  /\ faults = 0
         /\ ~Kill
         /\ \A a \in Archives : ~LoseZip(a)
<1>1. faults \in Nat
  BY ConstantsAssumption DEF TypeInv, TypeOK
<1>2. faults' = faults \/ faults' = faults + 1
  <2>1. ASSUME Sync PROVE faults' = faults \/ faults' = faults + 1
    BY <2>1 DEF Sync, UseCache, Offline, BlindDownload, RefuseDowngrade, Current, Update, Answer,
       Download, DownloadFails, SkipArchive, Stamp, Decide, Extract, Publish, SavePair, world
  <2> QED BY <2>1 DEF Next, Start, Kill, LoseZip, Hour, Day, NewRelease, Yank, Calm, world, vars
<1>3. ~Kill /\ \A a \in Archives : ~LoseZip(a)
  BY <1>1 DEF Kill, LoseZip
<1> QED BY <1>1, <1>2, <1>3

(* A pair made of the active trees of one generation is of one release. *)
LEMMA NewPairMatches ==
  ASSUME PointerInv, PairInv', faults = 0, pc # "stamp", SameGeneration,
         pair' = [sha |-> ExtractedSha("excel"),
                  excel |-> ActiveRoot("excel"), levels |-> ActiveRoot("levels")],
         \A a \in Archives : disk'[a].sha = disk[a].sha /\ disk'[a].root = disk[a].root,
         \A a \in Archives : (TreeMatches(a))'
  PROVE  PairMatches'
<1> DEFINE s == ExtractedSha("excel")
<1>1. s # None /\ ExtractedSha("levels") = s
  BY DEF SameGeneration
<1>2. \A a \in Archives : /\ ExtractedSha(a) = s /\ Extracted(a)
                          /\ disk[a].sha = s /\ ActiveRoot(a) = disk[a].root
  BY <1>1 DEF Archives, ExtractedSha, ActiveRoot
<1>3. pair' # NoPair /\ pair'.excel = disk'["excel"].root /\ pair'.levels = disk'["levels"].root
  BY <1>1, <1>2 DEF NoPair, Archives
<1> HIDE DEF s
<1>4. Exists("excel", pair.excel)' /\ Exists("levels", pair.levels)'
  BY <1>3 DEF PairInv, PairSafe, Safe
<1>5. \A a \in Archives : disk'[a].sha = s
  BY <1>2
<1>6. /\ IsRelease(s)
      /\ Content("excel", pair.excel)' = s[2]
      /\ Content("levels", pair.levels)' = s[2]
  BY <1>1, <1>3, <1>4, <1>5 DEF TreeMatches, Exists, Content, Archives
<1>7. s[2] \in Nat
  <2>1. s \in Labels
    BY <1>2 DEF PointerInv, PairInv, TypeInv, TypeOK, Disk, Archives
  <2> QED BY <1>6, <2>1, LabelParts
<1> QED BY <1>5, <1>6, <1>7 DEF PairMatches

(* Until something fails, every step keeps labels and contents together. *)
LEMMA WholeStep ==
  ASSUME ~Mirrors, PointerInv, PairInv', LabelInv', [Next]_vars
  PROVE  Whole'
<1> SUFFICES ASSUME faults' = 0
             PROVE  /\ \A a \in Archives : (ZipMatches(a))' /\ (TreeMatches(a))'
                    /\ HandedMatches'
                    /\ PairMatches'
  BY DEF Whole
<1>i. /\ PairInv /\ TypeInv /\ TypeOK /\ LabelInv /\ LegacyRoots
      /\ faults = 0 /\ HandedMatches /\ PairMatches
      /\ \A a \in Archives : ZipMatches(a) /\ TreeMatches(a)
      /\ ~Kill /\ \A a \in Archives : ~LoseZip(a)
  BY FaultsCount DEF PointerInv, PairInv, TypeInv, Whole
<1>t. disk \in [Archives -> Disk] /\ at \in Archives /\ Here = disk[at]
  BY <1>i DEF TypeOK, Here
<1>e. "excel" \in Archives /\ "levels" \in Archives
  BY DEF Archives
<1>p. ASSUME pair' = pair PROVE PairMatches'
  BY <1>i, <1>p, PairStaysMatched
<1>k. ASSUME NEW b \in Archives,
             \/ disk' = disk
             \/ \E f : disk' = [disk EXCEPT ![b].fresh = f]
             \/ \E t : disk' = [disk EXCEPT ![b].trees = t],
             pc = "stamp" => pc' = "stamp" /\ at' = at
      PROVE  \A a \in Archives : (ZipMatches(a))' /\ (TreeMatches(a))'
  <2>1. ASSUME NEW f, disk' = [disk EXCEPT ![b].fresh = f]
        PROVE  \A a \in Archives : /\ disk'[a].sha = disk[a].sha /\ disk'[a].root = disk[a].root
                                   /\ disk'[a].meta = disk[a].meta /\ disk'[a].zip = disk[a].zip
    BY <1>t, <2>1 DEF Disk
  <2>2. ASSUME NEW t, disk' = [disk EXCEPT ![b].trees = t]
        PROVE  \A a \in Archives : /\ disk'[a].sha = disk[a].sha /\ disk'[a].root = disk[a].root
                                   /\ disk'[a].meta = disk[a].meta /\ disk'[a].zip = disk[a].zip
    BY <1>t, <2>2 DEF Disk
  <2>3. \A a \in Archives : /\ disk'[a].sha = disk[a].sha /\ disk'[a].root = disk[a].root
                            /\ disk'[a].meta = disk[a].meta /\ disk'[a].zip = disk[a].zip
    BY <1>k, <2>1, <2>2
  <2> QED BY <1>i, <1>k, <2>3, ArchivesStayMatched
<1>h. ASSUME pc' \notin {"stamp", "publish"} PROVE HandedMatches'
  BY <1>h DEF HandedMatches
<1>1. ASSUME NEW forced \in BOOLEAN, Start(forced)
      PROVE  /\ \A a \in Archives : (ZipMatches(a))' /\ (TreeMatches(a))'
             /\ HandedMatches' /\ PairMatches'
  <2>1. ASSUME NEW e, NEW l, disk' = [disk EXCEPT !["excel"].trees = e, !["levels"].trees = l]
        PROVE  \A a \in Archives : /\ disk'[a].sha = disk[a].sha /\ disk'[a].root = disk[a].root
                                   /\ disk'[a].meta = disk[a].meta /\ disk'[a].zip = disk[a].zip
    BY <1>t, <2>1 DEF Disk, Archives
  <2>2. \A a \in Archives : /\ disk'[a].sha = disk[a].sha /\ disk'[a].root = disk[a].root
                            /\ disk'[a].meta = disk[a].meta /\ disk'[a].zip = disk[a].zip
    BY <1>1, <2>1 DEF Start
  <2>3. pc = "idle" /\ pc' = "release"
    BY <1>1 DEF Start
  <2>4. \A a \in Archives : (ZipMatches(a))' /\ (TreeMatches(a))'
    BY <1>i, <2>2, <2>3, ArchivesStayMatched
  <2>5. \/ pair' = pair
        \/ pair' = [sha |-> Legacy, excel |-> 0, levels |-> 0]
        \/ /\ SameGeneration
           /\ pair' = [sha |-> ExtractedSha("excel"),
                       excel |-> ActiveRoot("excel"), levels |-> ActiveRoot("levels")]
    BY <1>1 DEF Start
  <2>6. ASSUME pair' = [sha |-> Legacy, excel |-> 0, levels |-> 0] PROVE PairMatches'
    <3>1. pair' # NoPair /\ pair'.excel = 0 /\ pair'.levels = 0
      BY <2>6 DEF NoPair, Legacy, None
    <3>2. Exists("excel", pair.excel)' /\ Exists("levels", pair.levels)'
      BY <3>1 DEF PairInv, PairSafe, Safe
    <3>3. disk'["excel"].trees[0].content \in {-1, 0} /\ disk'["levels"].trees[0].content \in {-1, 0}
      BY <1>e, LegacyStep DEF LegacyRoots, Content
    <3>4. disk'["excel"].trees[0].content # -1 /\ disk'["levels"].trees[0].content # -1
      <4>1. 0 \in Root
        BY DEF Root
      <4>2. \A a \in Archives : disk'[a].trees[0] \in Tree
        BY <4>1 DEF PairInv, TypeInv, TypeOK, Disk, Tree
      <4>3. \A a \in Archives : disk'[a].trees[0].content = -1 => ~disk'[a].trees[0].old
        BY <4>1 DEF PairInv, Shape, Content
      <4> QED BY <1>e, <3>1, <3>2, <4>2, <4>3, TreeExists DEF Exists
    <3> QED BY <3>1, <3>3, <3>4 DEF PairMatches, Content
  <2>7. PairMatches'
    BY <1>i, <1>p, <2>2, <2>3, <2>4, <2>5, <2>6, NewPairMatches
  <2> QED BY <1>h, <2>3, <2>4, <2>7
<1>2. CASE UseCache \/ Offline \/ RefuseDowngrade \/ Current \/ Decide
  <2>1. \/ disk' = disk
        \/ \E f : disk' = [disk EXCEPT ![at].fresh = f]
        \/ \E t : disk' = [disk EXCEPT ![at].trees = t]
    BY <1>2 DEF UseCache, Offline, RefuseDowngrade, Current, Decide
  <2>2. pc # "stamp" /\ pc' \notin {"stamp", "publish"} /\ pair' = pair
    BY <1>2 DEF UseCache, AsksUpstream, Offline, RefuseDowngrade, Current, Decide, Answer, NextArchive
  <2> QED BY <1>h, <1>k, <1>p, <1>t, <2>1, <2>2
<1>3. CASE Update
  <2>1. CASE Download(latest, Release(latest))
    <3>1. /\ disk'[at].zip = latest
          /\ \A a \in Archives : /\ disk'[a].sha = disk[a].sha /\ disk'[a].root = disk[a].root
                                 /\ disk'[a].meta = disk[a].meta /\ disk'[a].trees = disk[a].trees
                                 /\ a # at => disk'[a].zip = disk[a].zip
      BY <1>t, <2>1 DEF Download, Disk
    <3>2. /\ pc = "release" /\ pc' = "stamp" /\ at' = at /\ pair' = pair
          /\ result'.sha = Release(latest)
      BY <1>3, <2>1 DEF Update, AsksUpstream, Download
    <3>3. latest # NoZip
      BY <1>i, ConstantsAssumption DEF TypeOK, NoZip
    <3>4. \A a \in Archives : (ZipMatches(a))'
      BY <1>i, <3>1, <3>2 DEF ZipMatches
    <3>5. \A a \in Archives : (TreeMatches(a))'
      BY <1>i, <3>1 DEF TreeMatches, Exists, Content
    <3>6. HandedMatches'
      BY <1>t, <3>1, <3>2, <3>3 DEF HandedMatches, ZipOk, Here
    <3> QED BY <1>p, <3>2, <3>4, <3>5, <3>6
  <2>2. CASE DownloadFails(latest)
    <3>1. disk' = disk /\ pc # "stamp" /\ pc' \notin {"stamp", "publish"} /\ pair' = pair
      BY <1>3, <1>i, <2>2 DEF Update, AsksUpstream, DownloadFails
    <3> QED BY <1>h, <1>k, <1>p, <1>t, <3>1
  <2> QED BY <1>3, <2>1, <2>2 DEF Update
<1>4. CASE Stamp
  <2>1. /\ disk'[at].meta = result.sha
        /\ \A a \in Archives : /\ disk'[a].sha = disk[a].sha /\ disk'[a].root = disk[a].root
                               /\ disk'[a].zip = disk[a].zip /\ disk'[a].trees = disk[a].trees
                               /\ a # at => disk'[a].meta = disk[a].meta
    BY <1>4, <1>t DEF Stamp, Disk
  <2>2. pc = "stamp" /\ pc' = "decide" /\ at' = at /\ pair' = pair
    BY <1>4 DEF Stamp
  <2>3. disk[at].zip # NoZip /\ result.sha = Release(disk[at].zip)
    BY <1>i, <1>t, <2>2 DEF HandedMatches, ZipOk
  <2>4. \A a \in Archives : (ZipMatches(a))'
    BY <1>i, <2>1, <2>2, <2>3 DEF ZipMatches
  <2>5. \A a \in Archives : (TreeMatches(a))'
    BY <1>i, <2>1 DEF TreeMatches, Exists, Content
  <2> QED BY <1>h, <1>p, <2>2, <2>4, <2>5
<1>5. CASE Extract
  <2>1. pc = "extract" /\ pair' = pair
    BY <1>5 DEF Extract
  <2>2. CASE NextArchive /\ UNCHANGED disk
    <3>1. pc' \notin {"stamp", "publish"}
      BY <2>2 DEF NextArchive
    <3> QED BY <1>h, <1>k, <1>p, <1>t, <2>1, <2>2, <3>1
  <2>3. ASSUME NEW r \in FreeSlots,
               disk' = [disk EXCEPT ![at].trees[r] = [content |-> Here.zip, old |-> FALSE]],
               result' = [result EXCEPT !.sha = ActivationSha, !.root = r],
               pc' = "publish", UNCHANGED at
        PROVE  /\ \A a \in Archives : (ZipMatches(a))' /\ (TreeMatches(a))'
               /\ HandedMatches' /\ PairMatches'
    <3>1. /\ \A a \in Archives : /\ disk'[a].sha = disk[a].sha /\ disk'[a].root = disk[a].root
                                 /\ disk'[a].meta = disk[a].meta /\ disk'[a].zip = disk[a].zip
          /\ disk'[at].trees[r].content = disk[at].zip
      <4>1. r \in Root
        BY DEF FreeSlots, Root
      <4> QED BY <1>t, <2>3, <4>1 DEF Disk
    <3>2. result'.sha = ActivationSha /\ result'.root = r
      BY <1>i, <2>3 DEF TypeOK, Result
    <3>3. disk[at].zip # NoZip /\ disk[at].meta = Release(disk[at].zip)
      BY <1>i, <1>t, <2>1 DEF TypeInv, ZipOk, ZipMatches
    <3>4. ActivationSha = Release(disk[at].zip)
      <4>1. result.sha = Here.meta
        BY <1>i, <2>1 DEF LabelInv, HandedOver
      <4> QED BY <1>t, <3>3, <4>1 DEF ActivationSha, Release, None
    <3>5. HandedMatches'
      BY <1>t, <2>3, <3>1, <3>2, <3>3, <3>4 DEF HandedMatches, ZipOk, Here, Content
    <3>6. \A a \in Archives : (ZipMatches(a))' /\ (TreeMatches(a))'
      BY <1>i, <2>1, <3>1, ArchivesStayMatched
    <3> QED BY <1>p, <2>1, <3>5, <3>6
  <2> QED BY <1>5, <2>2, <2>3 DEF Extract
<1>6. CASE Publish
  <2>1. pc = "publish" /\ pc' \notin {"stamp", "publish"} /\ pair' = pair
    BY <1>6 DEF Publish, NextArchive
  <2>2. \E t : disk' = [disk EXCEPT ![at].sha = result.sha, ![at].root = result.root, ![at].trees = t]
    BY <1>6, <1>i DEF Publish
  <2>3. /\ disk'[at].sha = result.sha /\ disk'[at].root = result.root
        /\ \A a \in Archives : /\ disk'[a].meta = disk[a].meta /\ disk'[a].zip = disk[a].zip
                               /\ a # at => disk'[a] = disk[a]
    BY <1>t, <2>2 DEF Disk
  <2>4. /\ result.sha = Release(disk[at].zip) /\ disk[at].zip # NoZip
        /\ Content(at, result.root) = disk[at].zip
    BY <1>i, <1>t, <2>1 DEF HandedMatches, ZipOk
  <2>5. \A a \in Archives : (ZipMatches(a))'
    BY <1>i, <2>1, <2>3 DEF ZipMatches
  <2>6. ASSUME NEW a \in Archives, a = at PROVE (TreeMatches(a))'
    <3>1. PICK r \in Root : r = result.root
      BY <1>i DEF TypeOK, Result
    <3>2. ~NewTree(a, r)
      BY <2>1 DEF NewTree
    <3>3. \/ disk'[a].trees[r].content = disk[a].trees[r].content
          \/ disk'[a].trees[r] = NoTree
      BY <1>i, <3>2, TreeStep DEF TreeGoes, Content, Exists
    <3>4. disk'[a].trees[r] # NoTree => disk'[a].trees[r].content = disk[a].zip
      BY <2>4, <2>6, <3>1, <3>3 DEF Content
    <3>5. IsRelease(result.sha) /\ result.sha[2] = disk[a].zip
      BY <2>4, <2>6 DEF IsRelease, Release
    <3>6. disk'[a].sha = result.sha /\ disk'[a].root = r
      BY <2>3, <2>6, <3>1
    <3> QED BY <3>4, <3>5, <3>6 DEF TreeMatches, Exists, Content
  <2>7. ASSUME NEW a \in Archives, a # at PROVE (TreeMatches(a))'
    <3>1. disk'[a] = disk[a] /\ TreeMatches(a)
      BY <1>i, <2>3, <2>7
    <3> QED BY <3>1 DEF TreeMatches, Exists, Content
  <2>8. \A a \in Archives : (TreeMatches(a))'
    BY <2>6, <2>7
  <2> QED BY <1>h, <1>p, <2>1, <2>5, <2>8
<1>7. CASE SavePair
  <2>1. pc = "save" /\ pc' = "idle" /\ UNCHANGED disk
    BY <1>7 DEF SavePair
  <2>2. \A a \in Archives : (ZipMatches(a))' /\ (TreeMatches(a))'
    BY <1>k, <1>t, <2>1
  <2>3. \/ pair' = pair
        \/ /\ SameGeneration
           /\ pair' = [sha |-> ExtractedSha("excel"),
                       excel |-> ActiveRoot("excel"), levels |-> ActiveRoot("levels")]
    BY <1>7 DEF SavePair, WritePair
  <2>4. PairMatches'
    BY <1>i, <1>p, <2>1, <2>2, <2>3, NewPairMatches
  <2> QED BY <1>h, <2>1, <2>2, <2>4
<1>8. CASE SkipArchive
  <2>1. pc = "release" /\ pc' \notin {"stamp", "publish"} /\ pair' = pair /\ disk' = disk
    BY <1>8 DEF SkipArchive, NextArchive
  <2> QED BY <1>h, <1>k, <1>p, <1>t, <2>1
<1>9. CASE NewRelease \/ Yank \/ Calm \/ UNCHANGED vars
  <2>1. UNCHANGED <<disk, pair, pc, at, result>>
    BY <1>9 DEF NewRelease, Yank, Calm, vars
  <2>2. HandedMatches'
    BY <1>i, <2>1 DEF HandedMatches, ZipOk, Here, Content
  <2> QED BY <1>k, <1>p, <1>t, <2>1, <2>2
<1>10. CASE Hour \/ Day
  <2>1. \A a \in Archives : /\ disk'[a].sha = disk[a].sha /\ disk'[a].root = disk[a].root
                            /\ disk'[a].meta = disk[a].meta /\ disk'[a].zip = disk[a].zip
    <3>1. CASE Hour
      BY <1>t, <3>1 DEF Hour, Disk
    <3>2. CASE Day
      BY <1>t, <3>2 DEF Day, Disk
    <3> QED BY <1>10, <3>1, <3>2
  <2>2. pc = "idle" /\ pc' = "idle" /\ pair' = pair
    BY <1>10 DEF Hour, Day
  <2>3. \A a \in Archives : (ZipMatches(a))' /\ (TreeMatches(a))'
    BY <1>i, <2>1, <2>2, ArchivesStayMatched
  <2> QED BY <1>h, <1>p, <2>2, <2>3
<1>11. ~BlindDownload
  BY DEF BlindDownload
<1> QED BY <1>i, <1>1, <1>2, <1>3, <1>4, <1>5, <1>6, <1>7, <1>8, <1>9, <1>10, <1>11 DEF Next, Sync

(* The strengthening is inductive as long as nothing is downloaded blindly. *)
LEMMA PointerInductive == ASSUME ~Mirrors PROVE Spec => []PointerInv
<1>1. Init => PointerInv
  <2> SUFFICES ASSUME Init PROVE PointerInv
    OBVIOUS
  <2>1. /\ \A a \in Archives : disk[a].zip = NoZip /\ disk[a].meta = None /\ disk[a].sha = None
        /\ \A a \in Archives : disk[a].trees[0] \in {NoTree, LegacyTree}
        /\ pc = "idle" /\ pair = NoPair
    BY DEF Init, Root
  <2>2. LabelInv
    BY <2>1, TypeInit, LabelParts DEF LabelInv, RecordsAhead, HandedOver
  <2>3. LegacyRoots
    BY <2>1 DEF LegacyRoots, Content, NoTree, LegacyTree
  <2>4. Whole
    BY <2>1 DEF Whole, ZipMatches, TreeMatches, HandedMatches, PairMatches
  <2>5. PairInv
    BY PairInit
  <2> QED BY <2>2, <2>3, <2>4, <2>5 DEF PointerInv
<1>2. PointerInv /\ [Next]_vars => PointerInv'
  <2> SUFFICES ASSUME PointerInv, [Next]_vars PROVE PointerInv'
    OBVIOUS
  <2>1. PairInv'
    BY PairStep DEF PointerInv
  <2>2. LabelInv'
    BY LabelStep DEF PointerInv
  <2> QED BY <2>1, <2>2, LegacyStep, WholeStep DEF PointerInv
<1> QED BY <1>1, <1>2, PTL DEF Spec

-----------------------------------------------------------------------------
(* The pointer of GenerationPointer.                                       *)

PointerExcel == IF pair = NoPair THEN -1 ELSE Content("excel", pair.excel)
PointerLevels == IF pair = NoPair THEN -1 ELSE Content("levels", pair.levels)

(* Both halves of a published pair hold something. *)
LEMMA PublishedContents ==
  PairInv /\ pair # NoPair => PointerExcel \in 0..MaxRelease /\ PointerLevels \in 0..MaxRelease
<1> SUFFICES ASSUME PairInv, pair # NoPair
             PROVE  PointerExcel \in 0..MaxRelease /\ PointerLevels \in 0..MaxRelease
  OBVIOUS
<1>1. /\ pair.excel \in Root /\ pair.levels \in Root
      /\ "excel" \in Archives /\ "levels" \in Archives
  BY DEF PairInv, TypeInv, TypeOK, Pair, Archives
<1>2. Exists("excel", pair.excel) /\ Exists("levels", pair.levels)
  BY DEF PairInv, PairSafe, Safe
<1>3. MaxRelease \in Nat
  BY ConstantsAssumption
<1>4. /\ Content("excel", pair.excel) # -1 /\ Content("excel", pair.excel) \in -1..MaxRelease
      /\ Content("levels", pair.levels) # -1 /\ Content("levels", pair.levels) \in -1..MaxRelease
  BY <1>1, <1>2, ContentTells
<1> QED BY <1>3, <1>4 DEF PointerExcel, PointerLevels

(* Only the start of a synchronization, when there is no pair, and its end *)
(* write the pair; neither is a failure.                                   *)
LEMMA PairSwitch ==
  ASSUME PairInv, [Next]_vars, pair' # pair
  PROVE  /\ faults' = faults
         /\ pair = NoPair \/ (SavePair /\ SameGeneration)
<1>1. PairValid \/ pair = NoPair
  BY DEF PairInv, PairSafe, Safe, PairValid
<1>2. ASSUME NEW forced \in BOOLEAN, Start(forced) PROVE faults' = faults /\ pair = NoPair
  BY <1>1, <1>2 DEF Start, world
<1>3. CASE SavePair
  BY <1>3 DEF SavePair, world
<1>4. ASSUME Sync PROVE SavePair
  BY <1>4 DEF Sync, UseCache, Offline, BlindDownload, RefuseDowngrade, Current, Update, SkipArchive,
     Download, DownloadFails, Answer, Stamp, Decide, Extract, Publish
<1> QED BY <1>2, <1>3, <1>4 DEF Next, Kill, LoseZip, Hour, Day, NewRelease, Yank, Calm, vars

(* Until something fails the pair never switches to an older release. *)
LEMMA SwitchGoesForward ==
  ASSUME PointerInv, faults = 0, pair # NoPair, SavePair, SameGeneration
  PROVE  PointerExcel' >= PointerExcel
<1> DEFINE s == ExtractedSha("excel")
<1>1. s # None /\ Extracted("excel") /\ disk["excel"].sha = s /\ ActiveRoot("excel") = disk["excel"].root
  BY DEF SameGeneration, ExtractedSha, ActiveRoot
<1>2. pair' # NoPair /\ pair'.excel = disk["excel"].root /\ disk' = disk
  BY <1>1 DEF SavePair, WritePair, NoPair
<1> HIDE DEF s
<1>3. TreeMatches("excel") /\ PairMatches /\ PairInv
  BY DEF PointerInv, Whole, Archives
<1>4. IsRelease(s) /\ Content("excel", disk["excel"].root) = s[2]
  BY <1>1, <1>3 DEF TreeMatches, Extracted
<1>5. s \in Labels
  BY <1>1, <1>3 DEF PairInv, TypeInv, TypeOK, Disk, Archives
<1>6. s[2] \in 1..MaxRelease
  BY <1>4, <1>5, LabelParts
<1>7. PointerExcel' = s[2]
  BY <1>2, <1>4 DEF PointerExcel, Content
<1>8. PointerExcel = 0 \/ s[2] >= PointerExcel
  BY <1>1, <1>3 DEF PairMatches, PointerExcel, Archives
<1> QED BY <1>6, <1>7, <1>8

(* Every step is one of the pointer's, or does not show. *)
LEMMA PointerStep ==
  ASSUME PointerInv, PointerInv', [Next]_vars
  PROVE  \/ UNCHANGED <<PointerExcel, PointerLevels, faults = 0>>
         \/ (faults = 0)' = FALSE /\ UNCHANGED <<PointerExcel, PointerLevels>>
         \/ /\ faults # 0 /\ UNCHANGED (faults = 0)
            /\ PointerExcel' \in 0..MaxRelease /\ PointerLevels' \in 0..MaxRelease
         \/ /\ faults = 0 /\ UNCHANGED (faults = 0)
            /\ PointerExcel' \in 0..MaxRelease /\ PointerExcel' > PointerExcel
            /\ PointerLevels' = PointerExcel'
<1>i. PairInv /\ PairInv'
  BY DEF PointerInv
<1>1. CASE pair' = pair
  <2>1. PointerExcel' = PointerExcel /\ PointerLevels' = PointerLevels
    BY <1>i, <1>1, PairContent DEF PointerExcel, PointerLevels
  <2>2. faults \in Nat /\ faults' \in Nat
    BY <1>i, ConstantsAssumption DEF PairInv, TypeInv, TypeOK
  <2>3. faults' = 0 => faults = 0
    BY <1>i, FaultsCount DEF PairInv
  <2> QED BY <2>1, <2>2, <2>3
<1>2. CASE pair' # pair
  <2>1. faults' = faults /\ (pair = NoPair \/ (SavePair /\ SameGeneration))
    BY <1>i, <1>2, PairSwitch
  <2>2. pair' # NoPair
    BY <1>i, <1>2, PairStays
  <2>3. PointerExcel' \in 0..MaxRelease /\ PointerLevels' \in 0..MaxRelease
    <3>1. (PairInv /\ pair # NoPair
             => PointerExcel \in 0..MaxRelease /\ PointerLevels \in 0..MaxRelease)'
      BY PublishedContents, PTL
    <3> QED BY <1>i, <2>2, <3>1
  <2>4. ASSUME faults = 0 PROVE PointerExcel' = PointerLevels' /\ PointerExcel' >= PointerExcel
    <3>1. PointerExcel' = PointerLevels'
      <4>1. PairMatches'
        BY <2>1, <2>4 DEF PointerInv, Whole
      <4> QED BY <2>2, <4>1 DEF PairMatches, PointerExcel, PointerLevels
    <3>2. CASE pair = NoPair
      BY <2>3, <3>1, <3>2 DEF PointerExcel
    <3>3. CASE pair # NoPair
      BY <2>1, <2>4, <3>1, <3>3, SwitchGoesForward
    <3> QED BY <3>1, <3>2, <3>3
  <2>5. ASSUME faults = 0, PointerExcel' = PointerExcel PROVE PointerLevels' = PointerLevels
    <3>1. PairMatches /\ pair # NoPair
      BY <2>3, <2>5 DEF PointerInv, Whole, PointerExcel
    <3>2. PointerExcel = PointerLevels
      BY <3>1 DEF PairMatches, PointerExcel, PointerLevels
    <3> QED BY <2>4, <2>5, <3>2
  <2>6. PointerExcel \in Int
    <3>1. CASE pair = NoPair
      BY <3>1 DEF PointerExcel
    <3>2. CASE pair # NoPair
      BY <1>i, <3>2, PublishedContents
    <3> QED BY <3>1, <3>2
  <2> QED BY <2>1, <2>3, <2>4, <2>5, <2>6
<1> QED BY <1>1, <1>2

(* The synchronizer implements the pointer: until something fails, and as  *)
(* long as nothing is downloaded without a listing, both halves of the pair *)
(* switch together to a newer release; after a failure something is still  *)
(* published (sync_release_archive_pair).                                  *)
THEOREM PairIsAPointer == ASSUME ~Mirrors PROVE Spec => ImplementsPointer
<1>1. Init => Pointer!Init
  BY DEF Init, Pointer!Init
<1>2. PointerInv /\ PointerInv' /\ [Next]_vars
        => [Pointer!Next]_<<IF pair = NoPair THEN -1 ELSE Content("excel", pair.excel),
                            IF pair = NoPair THEN -1 ELSE Content("levels", pair.levels),
                            faults = 0>>
  <2> SUFFICES ASSUME PointerInv, PointerInv', [Next]_vars
               PROVE  [Pointer!Next]_<<PointerExcel, PointerLevels, faults = 0>>
    BY DEF PointerExcel, PointerLevels
  <2>1. CASE UNCHANGED <<PointerExcel, PointerLevels, faults = 0>>
    BY <2>1
  <2>2. CASE (faults = 0)' = FALSE /\ UNCHANGED <<PointerExcel, PointerLevels>>
    BY <2>2 DEF Pointer!Next, Pointer!Tear, PointerExcel, PointerLevels
  <2>3. CASE /\ faults # 0 /\ UNCHANGED (faults = 0)
             /\ PointerExcel' \in 0..MaxRelease /\ PointerLevels' \in 0..MaxRelease
    BY <2>3 DEF Pointer!Next, Pointer!Republish, PointerExcel, PointerLevels
  <2>4. CASE /\ faults = 0 /\ UNCHANGED (faults = 0)
             /\ PointerExcel' \in 0..MaxRelease /\ PointerExcel' > PointerExcel
             /\ PointerLevels' = PointerExcel'
    BY <2>4 DEF Pointer!Next, Pointer!Publish, PointerExcel, PointerLevels
  <2> QED BY <2>1, <2>2, <2>3, <2>4, PointerStep
<1> QED BY <1>1, <1>2, PointerInductive, PTL DEF Spec, ImplementsPointer, Pointer!Spec
=============================================================================
