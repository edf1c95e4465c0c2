-------------------------- MODULE ImagesSyncProofs --------------------------
(***************************************************************************)
(* Proofs about the artwork directory, for any number of tiers, releases,  *)
(* directories and faults.                                                 *)
(***************************************************************************)
EXTENDS ImagesSync, SequenceTheorems, WellFoundedInduction, TLAPS

(* Versions are numbered, and so are the directories; 0 is none of them.   *)
Numbered == MaxVersion \in Nat /\ Dirs \subseteq Nat \ {0}

-----------------------------------------------------------------------------
(* Least and largest elements.                                             *)

LEMMA Least ==
  ASSUME NEW T \in SUBSET Nat, T # {}
  PROVE  \E x \in T : \A y \in T : x <= y
<1> DEFINE Before == OpToRel(<, Nat)
<1>1. IsWellFoundedOn(Before, Nat)
  BY NatLessThanWellFounded
<1>2. \A x, y \in Nat : y < x => <<y, x>> \in Before
  BY DEF OpToRel
<1> HIDE DEF Before
<1>3. PICK x \in T : \A y \in T : ~(<<y, x>> \in Before)
  BY <1>1, WFMin
<1>4. \A y \in T : ~(y < x)
  BY <1>2, <1>3
<1> QED BY <1>4

LEMMA FreeIsFree == ASSUME Numbered, Free # {} PROVE Min(Free) \in Free
<1>1. Free \in SUBSET Nat
  BY DEF Free, Numbered
<1>2. \E x \in Free : \A y \in Free : x <= y
  BY <1>1, Least
<1> QED BY <1>2 DEF Min

LEMMA LargestIsOne ==
  ASSUME NEW n \in Nat, NEW S \in SUBSET (1..n)
  PROVE  Largest(S) \in S \cup {0}
<1> DEFINE T == S \cup {0}
           Distances == {n - x : x \in T}
<1>1. Distances \in SUBSET Nat /\ Distances # {}
  OBVIOUS
<1>2. PICK x \in T : \A y \in T : n - x <= n - y
  <2>1. \E d \in Distances : \A e \in Distances : d <= e
    <3> HIDE DEF Distances
    <3> QED BY <1>1, Least
  <2> QED BY <2>1
<1>3. \A y \in T : x >= y
  BY <1>2
<1> HIDE DEF T
<1>4. Max(T) \in T
  BY <1>3 DEF Max
<1> QED BY <1>4 DEF Largest, T

LEMMA LatestIsLive ==
  ASSUME releases \in Seq(Release), NEW k
  PROVE  Latest(k) \in Nat /\ Latest(k) \in {0} \cup DOMAIN releases
<1>1. DOMAIN releases = 1..Len(releases) /\ Len(releases) \in Nat
  OBVIOUS
<1>2. Live(k) \in SUBSET (1..Len(releases))
  BY <1>1 DEF Live
<1>3. Latest(k) \in Live(k) \cup {0}
  BY <1>1, <1>2, LargestIsOne DEF Latest
<1> QED BY <1>1, <1>2, <1>3

-----------------------------------------------------------------------------
(* The inductive invariant.                                                *)

(* What records there are.                                                 *)
Tree(d) ==
  /\ DOMAIN d = {"at", "kind", "version", "files"}
  /\ d.version \in Nat /\ DOMAIN d.files = Tiers
Shape ==
  /\ releases \in Seq(Release)
  /\ DOMAIN dirs = Dirs /\ \A d \in Dirs : Tree(dirs[d])
  /\ DOMAIN meta = {"dir", "kind", "base", "current", "original"}
  /\ meta.dir \in Dirs \cup {0} /\ meta.current \in Nat
  /\ DOMAIN run = {"pc", "original", "tag", "after", "prior", "chain", "walked", "base", "dir",
                   "kept", "wrote", "dropped"}
  /\ run.dir \in Dirs \cup {0} /\ run.tag \in Nat /\ DOMAIN run.wrote = Tiers

(* A run with a release to bring in, and one with a candidate, which is    *)
(* never the tree the pointer names.                                       *)
First == {"index1", "stage1", "apply1", "verify1", "point1"}
Second == {"clean2", "index2", "walk2", "stage2", "reuse2", "back2", "apply2", "publish2", "point2"}
Candidate ==
  /\ run.pc \in First \cup Second \cup {"idle", "list", "sweep"}
  /\ run.pc \in First \cup Second => run.tag \in DOMAIN releases
  /\ run.pc = "stage1" => run.base \/ run.prior \in Dirs
  /\ run.pc \in {"apply1", "verify1", "point1"} =>
       run.dir \in Dirs \ {meta.dir} /\ dirs[run.dir].kind = "v1"
  /\ run.pc \in {"reuse2", "back2", "apply2", "publish2", "point2"} =>
       run.dir \in Dirs \ {meta.dir} /\ dirs[run.dir].kind = "v2"
  /\ run.pc = "sweep" => run.dir \in Dirs \ {meta.dir}
  /\ run.pc \in {"point1", "point2"} =>
       dirs[run.dir].at = "formal" /\ dirs[run.dir].version = run.tag

(* What the candidate holds: of v2 what was kept, which is right, and what *)
(* was written; when it is renamed, every wanted file of the release.      *)
Right(f) == dirs[run.dir].files[f] = releases[run.tag].content[f]
Holds ==
  /\ run.pc \in {"list"} \cup First \cup {"clean2", "index2", "walk2", "stage2", "reuse2"} =>
       run.wrote = [f \in Tiers |-> 0]
  /\ run.pc = "reuse2" => \A f \in Tiers : dirs[run.dir].files[f] = 0
  /\ run.pc \in {"back2", "apply2"} =>
       /\ run.kept \subseteq Tiers /\ \A f \in run.kept : Right(f)
       /\ \A f \in Tiers \ run.kept : dirs[run.dir].files[f] = run.wrote[f]
  /\ run.pc \in {"point1", "publish2", "point2"} => \A f \in Wanted : Right(f)

(* With v2 active no run brings in v1 or an older version.                 *)
Forward ==
  meta.kind = "v2" =>
    /\ meta.dir # 0 /\ run.pc \notin First
    /\ run.pc \in Second \ {"clean2", "index2"} => run.tag >= meta.current

ImagesInv == Shape /\ Candidate /\ Holds /\ Forward /\ PointerResolves

LEMMA ImagesInit == ASSUME Numbered PROVE Init => ImagesInv
<1> SUFFICES ASSUME Init PROVE ImagesInv
  OBVIOUS
<1>1. Shape
  BY DEF Init, Shape, Tree, Empty, NoMeta, Resting
<1>2. Candidate /\ Holds /\ Forward /\ PointerResolves
  BY DEF Init, Candidate, Holds, Forward, PointerResolves, NoMeta, Resting, First, Second
<1> QED BY <1>1, <1>2 DEF ImagesInv

-----------------------------------------------------------------------------
(* The publisher, the network and the disk.                                *)

(* Releases are added, withdrawn and lost, and never changed.              *)
Kept(v) == v \in DOMAIN releases' /\ releases'[v].content = releases[v].content

LEMMA ReleasesStay ==
  ASSUME Shape, releases' \in Seq(Release), Candidate, Holds, Forward, PointerResolves,
         \A v \in DOMAIN releases : Kept(v), UNCHANGED <<dirs, meta, run>>
  PROVE  ImagesInv'
<1>1. Shape'
  BY DEF Shape
<1>2. Candidate'
  BY DEF Candidate, Kept
<1>3. Holds'
  BY DEF Candidate, Holds, Right, Kept, Wanted, First, Second
<1>4. Forward' /\ PointerResolves'
  BY DEF Forward, PointerResolves
<1> QED BY <1>1, <1>2, <1>3, <1>4 DEF ImagesInv

LEMMA Marked ==
  ASSUME releases \in Seq(Release), NEW v \in DOMAIN releases,
         \/ releases' = [releases EXCEPT ![v].live = FALSE]
         \/ releases' = [releases EXCEPT ![v].lost = TRUE]
  PROVE  releases' \in Seq(Release) /\ \A w \in DOMAIN releases : Kept(w)
<1>1. releases[v] \in Release /\ v \in 1..Len(releases)
  OBVIOUS
<1>2. PICK r \in Release : releases' = [releases EXCEPT ![v] = r] /\ r.content = releases[v].content
  <2>1. [releases[v] EXCEPT !.live = FALSE] \in Release /\ [releases[v] EXCEPT !.lost = TRUE] \in Release
    BY <1>1 DEF Release
  <2>2. /\ [releases[v] EXCEPT !.live = FALSE].content = releases[v].content
        /\ [releases[v] EXCEPT !.lost = TRUE].content = releases[v].content
    BY <1>1 DEF Release
  <2>3. \/ releases' = [releases EXCEPT ![v] = [releases[v] EXCEPT !.live = FALSE]]
        \/ releases' = [releases EXCEPT ![v] = [releases[v] EXCEPT !.lost = TRUE]]
    OBVIOUS
  <2> QED BY <2>1, <2>2, <2>3
<1>3. /\ releases' \in Seq(Release) /\ Len(releases') = Len(releases)
      /\ \A w \in 1..Len(releases) : releases'[w] = IF w = v THEN r ELSE releases[w]
  BY <1>1, <1>2, ExceptSeq
<1> QED BY <1>1, <1>2, <1>3 DEF Kept

LEMMA PublishKeeps ==
  ASSUME Numbered, ImagesInv, NEW carries \in Kinds, NEW change, NEW rebase,
         Publish(carries, change, rebase)
  PROVE  ImagesInv'
<1> DEFINE v == Len(releases) + 1
           head == Largest(Live("v1") \cup Live("v2"))
           prev == [k \in Protocol |-> IF k \in carries /\ ~rebase THEN Latest(k) ELSE 0]
           content == [f \in Tiers |-> IF head = 0 \/ f \in change THEN v
                                       ELSE releases[head].content[f]]
           base == [k \in Protocol |-> IF prev[k] = 0 THEN v ELSE releases[prev[k]].base[k]]
           release == [carries |-> carries, live |-> TRUE, content |-> content, prev |-> prev,
                       base |-> base, lost |-> FALSE]
<1>1. releases \in Seq(Release) /\ Len(releases) \in Nat /\ DOMAIN releases = 1..Len(releases)
  BY DEF ImagesInv, Shape
<1>2. v \in Version /\ releases' = Append(releases, release) /\ UNCHANGED <<dirs, meta, run>>
  BY <1>1 DEF Publish, Version, Numbered
<1>3. \A w \in DOMAIN releases : releases[w] \in Release /\ w \in Version
  <2>1. \A w \in 1..Len(releases) : releases[w] \in Release
    BY <1>1
  <2>2. \A w \in 1..Len(releases) : w \in Version
    BY <1>1, <1>2 DEF Version, Numbered
  <2> QED BY <1>1, <2>1, <2>2
<1>4. head \in {0} \cup DOMAIN releases
  <2>1. Live("v1") \cup Live("v2") \in SUBSET (1..Len(releases))
    BY <1>1 DEF Live
  <2> QED BY <1>1, <2>1, LargestIsOne
<1>5. content \in Content
  BY <1>2, <1>3, <1>4 DEF Content, Release
<1>6. prev \in [Protocol -> Version] /\ \A k \in Protocol : prev[k] \in {0} \cup DOMAIN releases
  <2>1. 0 \in Version
    BY DEF Version, Numbered
  <2> QED BY <1>1, <1>3, <2>1, LatestIsLive
<1>7. base \in [Protocol -> Version]
  <2> HIDE DEF prev
  <2> QED BY <1>2, <1>3, <1>6 DEF Release
<1>8. release \in Release
  <2> HIDE DEF prev, base, content
  <2> QED BY <1>5, <1>6, <1>7 DEF Release
<1> HIDE DEF release
<1>9. releases' \in Seq(Release) /\ \A w \in DOMAIN releases : Kept(w)
  BY <1>1, <1>2, <1>8, AppendProperties DEF Kept
<1> QED BY <1>2, <1>9, ReleasesStay DEF ImagesInv

LEMMA WithdrawKeeps == ASSUME Numbered, ImagesInv, Withdraw PROVE ImagesInv'
<1>1. PICK v : v > 1 /\ v = Largest(Live("v1") \cup Live("v2")) /\ releases' = [releases EXCEPT ![v].live = FALSE]
  BY DEF Withdraw
<1>2. releases \in Seq(Release) /\ Len(releases) \in Nat /\ DOMAIN releases = 1..Len(releases)
  BY DEF ImagesInv, Shape
<1>3. v \in DOMAIN releases
  <2>1. Live("v1") \cup Live("v2") \in SUBSET (1..Len(releases))
    BY <1>2 DEF Live
  <2>2. v \in {0} \cup (1..Len(releases))
    BY <1>1, <1>2, <2>1, LargestIsOne
  <2> QED BY <1>1, <1>2, <2>2
<1>4. releases' \in Seq(Release) /\ \A w \in DOMAIN releases : Kept(w)
  BY <1>1, <1>2, <1>3, Marked
<1> QED BY <1>4, ReleasesStay DEF Withdraw, ImagesInv

LEMMA LoseKeeps ==
  ASSUME ImagesInv, NEW v \in DOMAIN releases, LoseAsset(v)
  PROVE  ImagesInv'
<1>1. releases' = [releases EXCEPT ![v].lost = TRUE] /\ UNCHANGED <<dirs, meta, run>>
  BY DEF LoseAsset
<1>2. releases' \in Seq(Release) /\ \A w \in DOMAIN releases : Kept(w)
  BY <1>1, Marked DEF ImagesInv, Shape
<1> QED BY <1>1, <1>2, ReleasesStay DEF ImagesInv

(* Damage falls on the active generation, a candidate is another one.      *)
LEMMA DamageKeeps == ASSUME ImagesInv, NEW f \in Tiers, Damage(f) PROVE ImagesInv'
<1>1. /\ meta.dir \in Dirs /\ UNCHANGED <<releases, meta, run>>
      /\ dirs' = [dirs EXCEPT ![meta.dir].files[f] = 0]
  BY DEF Damage, ImagesInv, Shape
<1>2. /\ DOMAIN dirs' = Dirs /\ \A d \in Dirs \ {meta.dir} : dirs'[d] = dirs[d]
      /\ Tree(dirs'[meta.dir])
      /\ dirs'[meta.dir].at = dirs[meta.dir].at /\ dirs'[meta.dir].kind = dirs[meta.dir].kind
      /\ dirs'[meta.dir].version = dirs[meta.dir].version
  BY <1>1 DEF ImagesInv, Shape, Tree
<1>3. Shape'
  BY <1>1, <1>2 DEF ImagesInv, Shape
<1>4. Candidate' /\ Forward' /\ PointerResolves'
  BY <1>1, <1>2 DEF ImagesInv, Candidate, Forward, PointerResolves
<1>5. Holds'
  BY <1>1, <1>2 DEF ImagesInv, Candidate, Holds, Right, Wanted, First, Second
<1> QED BY <1>3, <1>4, <1>5 DEF ImagesInv

-----------------------------------------------------------------------------
(* Steps of a run.  What leaves the candidate and the pointer alone:       *)

LEMMA RestingKeeps ==
  ASSUME ImagesInv, run' = Resting, UNCHANGED <<releases, dirs, meta>>
  PROVE  ImagesInv'
<1>1. Shape'
  BY DEF ImagesInv, Shape, Resting
<1>2. Candidate' /\ Holds' /\ Forward' /\ PointerResolves'
  BY DEF ImagesInv, Candidate, Holds, Forward, PointerResolves, Resting, First, Second
<1> QED BY <1>1, <1>2 DEF ImagesInv

(* A candidate that is given up is removed. *)
LEMMA AbandonKeeps ==
  ASSUME ImagesInv, run.dir \in Dirs \ {meta.dir}, run' = Resting, UNCHANGED <<releases, meta>>,
         dirs' = [dirs EXCEPT ![run.dir] = Empty]
  PROVE  ImagesInv'
<1>1. Shape'
  BY DEF ImagesInv, Shape, Resting, Tree, Empty
<1>2. Candidate' /\ Holds' /\ Forward' /\ PointerResolves'
  BY DEF ImagesInv, Shape, Candidate, Holds, Forward, PointerResolves, Resting, First, Second
<1> QED BY <1>1, <1>2 DEF ImagesInv

LEMMA SweepKeeps ==
  ASSUME ImagesInv, run.dir \in Dirs \ {meta.dir}, UNCHANGED <<releases, dirs, meta>>,
         run' = [run EXCEPT !.pc = "sweep"] \/ run' = [run EXCEPT !.pc = "sweep", !.dropped = TRUE]
  PROVE  ImagesInv'
<1>1. Shape' /\ run'.pc = "sweep" /\ run'.dir = run.dir
  BY DEF ImagesInv, Shape
<1>2. Candidate' /\ Holds' /\ Forward' /\ PointerResolves'
  BY <1>1 DEF ImagesInv, Candidate, Holds, Forward, PointerResolves, First, Second
<1> QED BY <1>1, <1>2 DEF ImagesInv

LEMMA DropKeeps == ASSUME ImagesInv, Drop PROVE ImagesInv'
<1>1. UNCHANGED <<releases, dirs, meta>>
  BY DEF Drop
<1>2. CASE run' = Resting
  BY <1>1, <1>2, RestingKeeps
<1>3. CASE run.pc \in {"publish2", "point2"} /\ run' = [run EXCEPT !.dropped = TRUE]
  <2>1. Shape' /\ run'.pc = run.pc /\ run'.dir = run.dir /\ run'.tag = run.tag /\ run'.original = run.original
    BY <1>1, <1>3 DEF ImagesInv, Shape
  <2>2. Candidate' /\ Holds' /\ Forward' /\ PointerResolves'
    BY <1>1, <1>3, <2>1
       DEF ImagesInv, Candidate, Holds, Right, Wanted, Forward, PointerResolves, First, Second
  <2> QED BY <2>1, <2>2 DEF ImagesInv
<1>4. CASE run.pc \in {"reuse2", "back2", "apply2", "sweep"}
           /\ run' = [run EXCEPT !.pc = "sweep", !.dropped = TRUE]
  BY <1>1, <1>4, SweepKeeps DEF ImagesInv, Candidate
<1> QED BY <1>2, <1>3, <1>4 DEF Drop

LEMMA BeginKeeps == ASSUME ImagesInv, NEW original, Begin(original) PROVE ImagesInv'
<1>1. run' = [Resting EXCEPT !.pc = "list", !.original = original] /\ UNCHANGED <<releases, dirs, meta>>
  BY DEF Begin, world
<1>2. Shape' /\ run'.pc = "list" /\ run'.wrote = [f \in Tiers |-> 0]
  BY <1>1 DEF ImagesInv, Shape, Resting
<1>3. Candidate' /\ Holds' /\ Forward' /\ PointerResolves'
  BY <1>1, <1>2 DEF ImagesInv, Candidate, Holds, Forward, PointerResolves, First, Second
<1> QED BY <1>2, <1>3 DEF ImagesInv

LEMMA ListKeeps == ASSUME ImagesInv, List PROVE ImagesInv'
<1> DEFINE choice == Chooses(Latest("v1"), Latest("v2"))
           tag == IF choice = "none" THEN 0 ELSE Latest(choice)
<1>1. UNCHANGED <<releases, dirs, meta>>
  BY DEF List, world
<1>2. CASE run' = Resting
  BY <1>1, <1>2, RestingKeeps
<1>3. CASE /\ choice # "none"
           /\ run' = [run EXCEPT !.tag = tag, !.pc = IF choice = "v1" THEN "index1" ELSE "clean2"]
  <2>1. tag \in Nat /\ tag \in {0} \cup DOMAIN releases
    BY <1>3, LatestIsLive DEF ImagesInv, Shape
  <2>2. choice \in {"v1", "v2"} /\ tag # 0 /\ (meta.kind = "v2" => choice = "v2")
    BY <1>3 DEF Chooses
  <2>3. /\ Shape' /\ run'.tag = tag /\ run'.wrote = run.wrote
        /\ run'.pc = IF choice = "v1" THEN "index1" ELSE "clean2"
    <3> HIDE DEF tag, choice
    <3> QED BY <1>1, <1>3, <2>1, <2>2 DEF ImagesInv, Shape
  <2> HIDE DEF tag, choice
  <2>4. Candidate'
    BY <1>1, <2>1, <2>2, <2>3 DEF Candidate, First, Second
  <2>5. Holds'
    BY <1>1, <2>1, <2>2, <2>3 DEF List, ImagesInv, Holds
  <2>6. Forward' /\ PointerResolves'
    BY <1>1, <2>2, <2>3 DEF ImagesInv, Forward, PointerResolves, First, Second
  <2> QED BY <2>3, <2>4, <2>5, <2>6 DEF ImagesInv
<1> QED BY <1>2, <1>3 DEF List, Finish

LEMMA Index1Keeps == ASSUME ImagesInv, Index1 PROVE ImagesInv'
<1>1. run.pc = "index1" /\ UNCHANGED <<releases, dirs, meta>>
  BY DEF Index1, world
<1>2. CASE run' = Resting
  BY <1>1, <1>2, RestingKeeps
<1> DEFINE after == IF SameBaseline(run.tag) THEN meta.current ELSE releases[run.tag].base["v1"]
           chain == DeltaChain(releases[run.tag].base["v1"], run.tag, after)
<1>3. CASE run' = [run EXCEPT !.pc = "stage1", !.after = after, !.chain = chain,
                              !.base = ~SameBaseline(run.tag), !.prior = Active]
  <2> HIDE DEF after, chain
  <2>1. /\ Shape' /\ run'.pc = "stage1" /\ run'.tag = run.tag /\ run'.wrote = run.wrote
        /\ run'.base = ~SameBaseline(run.tag) /\ run'.prior = Active
    BY <1>1, <1>3 DEF ImagesInv, Shape
  <2>3. run'.base \/ run'.prior \in Dirs
    BY <2>1 DEF SameBaseline, Active, ImagesInv, Shape
  <2>2. Candidate' /\ Holds' /\ Forward' /\ PointerResolves'
    BY <1>1, <2>1, <2>3 DEF ImagesInv, Candidate, Holds, Forward, PointerResolves, First, Second
  <2> QED BY <2>1, <2>2 DEF ImagesInv
<1> QED BY <1>2, <1>3 DEF Index1, Finish

(* The pointer names a formal tree, so a free directory is another one.    *)
LEMMA StageKeeps ==
  ASSUME Numbered, ImagesInv, Free # {}, UNCHANGED <<releases, meta>>, NEW k, NEW files, NEW pc,
         \/ run.pc = "stage1" /\ k = "v1" /\ pc = "apply1"
         \/ run.pc = "stage2" /\ k = "v2" /\ pc = "reuse2",
         DOMAIN files = Tiers, k = "v2" => files = [f \in Tiers |-> 0],
         dirs' = [dirs EXCEPT ![Min(Free)] = Stage(k, files)],
         run' = [run EXCEPT !.pc = pc, !.dir = Min(Free)]
  PROVE  ImagesInv'
<1> DEFINE d == Min(Free)
<1>1. d \in Dirs \ {meta.dir} /\ d \in Nat
  BY FreeIsFree DEF Free, ImagesInv, PointerResolves, Numbered
<1> HIDE DEF d
<1>2. /\ DOMAIN dirs' = Dirs /\ dirs'[d] = Stage(k, files)
      /\ \A e \in Dirs \ {d} : dirs'[e] = dirs[e]
  BY <1>1 DEF d, ImagesInv, Shape
<1>3. /\ run'.pc = pc /\ run'.dir = d /\ run'.tag = run.tag /\ run'.wrote = run.wrote
      /\ DOMAIN run' = DOMAIN run
  BY DEF d, ImagesInv, Shape
<1>4. Tree(Stage(k, files)) /\ Stage(k, files).kind = k /\ Stage(k, files).files = files
  BY DEF Stage, Tree
<1>5. Shape'
  BY <1>1, <1>2, <1>3, <1>4 DEF ImagesInv, Shape
<1>6. Candidate'
  BY <1>1, <1>2, <1>3, <1>4 DEF ImagesInv, Candidate, First, Second
<1>7. Holds'
  BY <1>1, <1>2, <1>3, <1>4 DEF ImagesInv, Holds, First
<1>8. Forward'
  BY <1>1, <1>3 DEF ImagesInv, Forward, First, Second
<1>9. PointerResolves'
  BY <1>1, <1>2 DEF ImagesInv, Shape, PointerResolves
<1> QED BY <1>5, <1>6, <1>7, <1>8, <1>9 DEF ImagesInv

LEMMA Stage1Keeps == ASSUME Numbered, ImagesInv, Stage1 PROVE ImagesInv'
<1>1. run.pc = "stage1" /\ UNCHANGED <<releases, meta>>
  BY DEF Stage1, world
<1>2. CASE run' = Resting /\ UNCHANGED dirs
  BY <1>1, <1>2, RestingKeeps
<1>3. ASSUME Free # {}, run' = [run EXCEPT !.pc = "apply1", !.dir = Min(Free)],
             NEW files, DOMAIN files = Tiers, dirs' = [dirs EXCEPT ![Min(Free)] = Stage("v1", files)]
      PROVE  ImagesInv'
  <2>1. "v1" = "v2" => files = [f \in Tiers |-> 0]
    OBVIOUS
  <2> QED BY <1>1, <1>3, <2>1, StageKeeps
<1>4. run.base \/ DOMAIN dirs[run.prior].files = Tiers
  BY <1>1 DEF ImagesInv, Candidate, Shape, Tree
<1>5. ASSUME ~(run' = Resting /\ UNCHANGED dirs)
      PROVE  /\ Free # {} /\ run' = [run EXCEPT !.pc = "apply1", !.dir = Min(Free)]
             /\ \E files : DOMAIN files = Tiers /\ dirs' = [dirs EXCEPT ![Min(Free)] = Stage("v1", files)]
  <2>1. /\ Free # {} /\ run' = [run EXCEPT !.pc = "apply1", !.dir = Min(Free)]
        /\ \E bad : dirs' = [dirs EXCEPT ![Min(Free)] = Stage("v1",
             IF run.base THEN [f \in Tiers |-> IF f \in Wanted \ bad
                               THEN releases[releases[run.tag].base["v1"]].content[f] ELSE 0]
             ELSE dirs[run.prior].files)]
    BY <1>5 DEF Stage1, GiveUp, Finish
  <2> QED BY <1>4, <2>1
<1> QED BY <1>2, <1>3, <1>5

(* A step that changes the files of the candidate, and not what it is.     *)
LEMMA FilesKeep ==
  ASSUME ImagesInv, UNCHANGED <<releases, meta>>, NEW files, DOMAIN files = Tiers,
         run.dir \in Dirs \ {meta.dir},
         dirs' = [dirs EXCEPT ![run.dir].files = files],
         DOMAIN run' = DOMAIN run, run'.dir = run.dir, run'.tag = run.tag,
         run'.original = run.original, DOMAIN run'.wrote = Tiers,
         \/ run.pc = "apply1" /\ run'.pc = "apply1"
         \/ /\ run.pc \in {"reuse2", "apply2"} /\ run'.pc \in {"back2", "apply2"}
            /\ \A f \in run'.kept : files[f] = releases[run.tag].content[f] /\ f \in Tiers
            /\ \A f \in Tiers \ run'.kept : files[f] = run'.wrote[f],
         run'.pc \in First => run'.wrote = run.wrote
  PROVE  ImagesInv'
<1>1. /\ DOMAIN dirs' = Dirs /\ \A e \in Dirs \ {run.dir} : dirs'[e] = dirs[e]
      /\ Tree(dirs'[run.dir]) /\ dirs'[run.dir].kind = dirs[run.dir].kind
      /\ dirs'[run.dir].at = dirs[run.dir].at /\ dirs'[run.dir].version = dirs[run.dir].version
      /\ dirs'[run.dir].files = files
  BY DEF ImagesInv, Shape, Tree
<1>2. Shape'
  BY <1>1 DEF ImagesInv, Shape
<1>3. Candidate'
  BY <1>1 DEF ImagesInv, Candidate, First, Second
<1>4. Holds'
  BY <1>1 DEF ImagesInv, Holds, Right, First
<1>5. Forward'
  BY DEF ImagesInv, Forward, First, Second
<1>6. PointerResolves'
  BY <1>1 DEF ImagesInv, Shape, PointerResolves
<1> QED BY <1>2, <1>3, <1>4, <1>5, <1>6 DEF ImagesInv

LEMMA Apply1Keeps == ASSUME ImagesInv, Apply1 PROVE ImagesInv'
<1>1. /\ run.pc = "apply1" /\ UNCHANGED <<releases, meta>> /\ run.dir \in Dirs \ {meta.dir}
  BY DEF Apply1, world, ImagesInv, Candidate
<1>2. CASE run' = [run EXCEPT !.pc = "verify1"] /\ UNCHANGED dirs
  <2>1. /\ Shape' /\ run'.pc = "verify1" /\ run'.tag = run.tag /\ run'.wrote = run.wrote
        /\ run'.dir = run.dir
    BY <1>1, <1>2 DEF ImagesInv, Shape
  <2>2. Candidate' /\ Holds' /\ Forward' /\ PointerResolves'
    BY <1>1, <1>2, <2>1 DEF ImagesInv, Candidate, Holds, Forward, PointerResolves, First, Second
  <2> QED BY <2>1, <2>2 DEF ImagesInv
<1>3. CASE run' = Resting /\ dirs' = [dirs EXCEPT ![run.dir] = Empty]
  BY <1>1, <1>3, AbandonKeeps
<1>4. ASSUME NEW files, DOMAIN files = Tiers, dirs' = [dirs EXCEPT ![run.dir].files = files],
             run' = [run EXCEPT !.chain = Tail(run.chain)]
      PROVE  ImagesInv'
  <2>1. /\ DOMAIN run' = DOMAIN run /\ run'.dir = run.dir /\ run'.tag = run.tag
        /\ run'.original = run.original /\ run'.wrote = run.wrote /\ run'.pc = "apply1"
    BY <1>1, <1>4 DEF ImagesInv, Shape
  <2> QED BY <1>1, <1>4, <2>1, FilesKeep DEF ImagesInv, Shape
<1>5. ASSUME NEW bad,
             dirs' = [dirs EXCEPT ![run.dir].files =
               [f \in Tiers |-> IF f \in bad THEN 0
                                ELSE IF f \in Delta("v1", Head(run.chain))
                                THEN releases[Head(run.chain)].content[f] ELSE @[f]]]
      PROVE  \E files : DOMAIN files = Tiers /\ dirs' = [dirs EXCEPT ![run.dir].files = files]
  <2> DEFINE files == [f \in Tiers |-> IF f \in bad THEN 0
                        ELSE IF f \in Delta("v1", Head(run.chain))
                        THEN releases[Head(run.chain)].content[f] ELSE dirs[run.dir].files[f]]
  <2>1. DOMAIN files = Tiers /\ dirs' = [dirs EXCEPT ![run.dir].files = files]
    BY <1>5
  <2> QED BY <2>1
<1> QED BY <1>2, <1>3, <1>4, <1>5 DEF Apply1, Abandon, Finish, Step

LEMMA Verify1Keeps == ASSUME ImagesInv, Verify1 PROVE ImagesInv'
<1>1. /\ run.pc = "verify1" /\ UNCHANGED <<releases, meta>> /\ run.dir \in Dirs \ {meta.dir}
  BY DEF Verify1, world, ImagesInv, Candidate
<1>2. CASE run' = Resting /\ dirs' = [dirs EXCEPT ![run.dir] = Empty]
  BY <1>1, <1>2, AbandonKeeps
<1>3. CASE /\ Verified1(dirs[run.dir].files, run.tag)
           /\ dirs' = [dirs EXCEPT ![run.dir].at = "formal", ![run.dir].version = run.tag]
           /\ run' = [run EXCEPT !.pc = "point1"]
  <2>1. /\ DOMAIN dirs' = Dirs /\ \A e \in Dirs \ {run.dir} : dirs'[e] = dirs[e]
        /\ Tree(dirs'[run.dir]) /\ dirs'[run.dir].kind = dirs[run.dir].kind
        /\ dirs'[run.dir].at = "formal" /\ dirs'[run.dir].version = run.tag
        /\ dirs'[run.dir].files = dirs[run.dir].files
    BY <1>1, <1>3 DEF ImagesInv, Shape, Tree
  <2>2. /\ DOMAIN run' = DOMAIN run /\ run'.pc = "point1" /\ run'.tag = run.tag
        /\ run'.wrote = run.wrote /\ run'.dir = run.dir /\ run'.original = run.original
    BY <1>3 DEF ImagesInv, Shape
  <2>3. Shape'
    BY <1>1, <2>1, <2>2 DEF ImagesInv, Shape
  <2>4. Candidate' /\ Forward' /\ PointerResolves'
    BY <1>1, <2>1, <2>2 DEF ImagesInv, Shape, Candidate, Forward, PointerResolves, First, Second
  <2>5. Holds'
    BY <1>1, <1>3, <2>1, <2>2 DEF ImagesInv, Holds, Right, Verified1, Wanted, First
  <2> QED BY <2>3, <2>4, <2>5 DEF ImagesInv
<1> QED BY <1>2, <1>3 DEF Verify1, Abandon, Finish, Step

(* The pointer moves to the candidate, and what is pruned is neither.      *)
LEMMA PointKeeps ==
  ASSUME Numbered, ImagesInv, UNCHANGED releases, run' = Resting, NEW k, NEW gone,
         gone \subseteq Prunable(run.dir),
         meta' = Points(k), dirs' = Pruned(dirs, gone),
         \/ run.pc = "point1" /\ k = "v1"
         \/ run.pc = "point2" /\ k = "v2"
  PROVE  ImagesInv'
<1>1. /\ run.dir \in Dirs \ {meta.dir} /\ run.tag \in Nat /\ dirs[run.dir].kind = k
      /\ dirs[run.dir].at = "formal" /\ dirs[run.dir].version = run.tag
  BY DEF ImagesInv, Candidate, Shape
<1>2. DOMAIN dirs' = Dirs /\ dirs'[run.dir] = dirs[run.dir] /\ \A d \in Dirs : Tree(dirs'[d])
  BY <1>1 DEF Pruned, Prunable, ImagesInv, Shape, Tree, Empty
<1>3. /\ meta'.dir = run.dir /\ meta'.current = run.tag /\ meta'.kind = k
      /\ DOMAIN meta' = {"dir", "kind", "base", "current", "original"}
  BY DEF Points
<1>4. Shape'
  BY <1>1, <1>2, <1>3 DEF ImagesInv, Shape, Resting
<1>5. PointerResolves'
  BY <1>1, <1>2, <1>3 DEF PointerResolves
<1>6. Candidate' /\ Holds' /\ Forward'
  BY <1>1, <1>3 DEF Numbered, Candidate, Holds, Forward, Resting, First, Second
<1> QED BY <1>4, <1>5, <1>6 DEF ImagesInv

LEMMA Point1Keeps == ASSUME Numbered, ImagesInv, Point1 PROVE ImagesInv'
<1>1. run.pc = "point1" /\ run' = Resting /\ UNCHANGED releases
  BY DEF Point1, Finish
<1>2. CASE UNCHANGED <<dirs, meta>>
  BY <1>1, <1>2, RestingKeeps
<1>3. ASSUME meta' = Points("v1"), NEW gone, gone \in {{}, Prunable(run.dir)}, dirs' = Pruned(dirs, gone)
      PROVE  ImagesInv'
  <2>1. gone \subseteq Prunable(run.dir)
    BY <1>3
  <2> QED BY <1>1, <1>3, <2>1, PointKeeps
<1> QED BY <1>2, <1>3 DEF Point1

(* Cleanup before a v2 run: the tree the pointer names is neither a staging *)
(* tree nor an orphan.                                                     *)
LEMMA Clean2Keeps == ASSUME ImagesInv, Clean2 PROVE ImagesInv'
<1>1. run.pc = "clean2" /\ UNCHANGED <<releases, meta>>
  BY DEF Clean2, world
<1>2. CASE run' = Resting /\ UNCHANGED dirs
  BY <1>1, <1>2, RestingKeeps
<1>3. CASE /\ \E gone \in {{}, Orphans} : dirs' = Pruned(Cleaned, gone)
           /\ run' = Resting \/ run' = [run EXCEPT !.pc = "index2"]
  <2>1. /\ DOMAIN dirs' = Dirs /\ \A d \in Dirs : Tree(dirs'[d])
        /\ meta.dir # 0 => dirs'[meta.dir] = dirs[meta.dir]
    BY <1>3 DEF Pruned, Cleaned, Orphans, Prunable, Active, PointerResolves, ImagesInv, Shape, Tree, Empty
  <2>2. PointerResolves'
    BY <1>1, <2>1 DEF ImagesInv, PointerResolves
  <2>3. CASE run' = Resting
    <3>1. Shape'
      BY <1>1, <2>1, <2>3 DEF ImagesInv, Shape, Resting
    <3>2. Candidate' /\ Holds' /\ Forward'
      BY <1>1, <2>3 DEF ImagesInv, Candidate, Holds, Forward, Resting, First, Second
    <3> QED BY <2>2, <3>1, <3>2 DEF ImagesInv
  <2>4. CASE run' = [run EXCEPT !.pc = "index2"]
    <3>1. Shape' /\ run'.pc = "index2" /\ run'.tag = run.tag /\ run'.wrote = run.wrote
      BY <1>1, <2>1, <2>4 DEF ImagesInv, Shape
    <3>2. Candidate' /\ Holds' /\ Forward'
      BY <1>1, <3>1 DEF ImagesInv, Candidate, Holds, Forward, First, Second
    <3> QED BY <2>2, <3>1, <3>2 DEF ImagesInv
  <2> QED BY <1>3, <2>3, <2>4
<1> QED BY <1>2, <1>3 DEF Clean2, GiveUp, Finish, Step

(* With v2 active the run goes on only with a release that is not older.   *)
LEMMA Index2Keeps == ASSUME ImagesInv, Index2 PROVE ImagesInv'
<1>1. run.pc = "index2" /\ UNCHANGED <<releases, dirs, meta>>
  BY DEF Index2, world
<1>2. CASE run' = Resting
  BY <1>1, <1>2, RestingKeeps
<1> DEFINE from == IncrementalFrom(run.tag)
           pc == IF from = 0 THEN "stage2" ELSE "walk2"
<1>3. CASE /\ ~Downgrade(run.tag)
           /\ run' = [run EXCEPT !.pc = pc, !.after = from, !.prior = Active,
                                 !.chain = <<run.tag>>, !.walked = run.tag]
  <2>1. pc \in {"stage2", "walk2"}
    OBVIOUS
  <2> HIDE DEF pc, from
  <2>2. Shape' /\ run'.pc = pc /\ run'.tag = run.tag /\ run'.wrote = run.wrote
    BY <1>1, <1>3 DEF ImagesInv, Shape
  <2>3. meta.kind = "v2" => run.tag >= meta.current
    BY <1>3 DEF Downgrade, Active, ImagesInv, Shape, Forward, PointerResolves, Tree
  <2>4. Candidate' /\ Holds' /\ Forward' /\ PointerResolves'
    BY <1>1, <2>1, <2>2, <2>3 DEF ImagesInv, Candidate, Holds, Forward, PointerResolves, First, Second
  <2> QED BY <2>2, <2>4 DEF ImagesInv
<1> QED BY <1>2, <1>3 DEF Index2, Finish

(* A walk changes the chain only. *)
LEMMA WalkKeeps ==
  ASSUME ImagesInv, run.pc \in {"walk2", "back2"}, UNCHANGED <<releases, dirs, meta>>,
         NEW pc, pc = run.pc \/ <<run.pc, pc>> \in {<<"walk2", "stage2">>, <<"back2", "apply2">>},
         NEW chain, NEW walked, run' = [run EXCEPT !.pc = pc, !.chain = chain, !.walked = walked]
  PROVE  ImagesInv'
<1>1. /\ Shape' /\ run'.pc = pc /\ run'.tag = run.tag /\ run'.wrote = run.wrote
      /\ run'.kept = run.kept /\ run'.dir = run.dir
  BY DEF ImagesInv, Shape
<1>2. Candidate' /\ Forward' /\ PointerResolves'
  BY <1>1 DEF ImagesInv, Candidate, Forward, PointerResolves, First, Second
<1>3. Holds'
  BY <1>1 DEF ImagesInv, Holds, Right, First
<1> QED BY <1>1, <1>2, <1>3 DEF ImagesInv

LEMMA Walk2Keeps == ASSUME ImagesInv, Walk2 PROVE ImagesInv'
<1>1. run.pc = "walk2" /\ UNCHANGED <<releases, dirs, meta>>
  BY DEF Walk2, world
<1>2. CASE run' = Resting
  BY <1>1, <1>2, RestingKeeps
<1>3. CASE run' = [run EXCEPT !.pc = "stage2"]
  <2>1. run' = [run EXCEPT !.pc = "stage2", !.chain = run.chain, !.walked = run.walked]
    BY <1>3 DEF ImagesInv, Shape
  <2> QED BY <1>1, <2>1, WalkKeeps
<1>4. CASE \E before : run' = [run EXCEPT !.chain = <<before>> \o run.chain, !.walked = before]
  <2>1. PICK before : run' = [run EXCEPT !.chain = <<before>> \o run.chain, !.walked = before]
    BY <1>4
  <2> DEFINE chain == <<before>> \o run.chain
  <2> HIDE DEF chain
  <2>2. run' = [run EXCEPT !.pc = run.pc, !.chain = chain, !.walked = before]
    BY <2>1 DEF ImagesInv, Shape, chain
  <2> QED BY <1>1, <2>2, WalkKeeps
<1> QED BY <1>2, <1>3, <1>4 DEF Walk2, Walk, Finish, Step

LEMMA Back2Keeps == ASSUME ImagesInv, Back2 PROVE ImagesInv'
<1>1. run.pc = "back2" /\ UNCHANGED <<releases, dirs, meta>> /\ run.dir \in Dirs \ {meta.dir}
  BY DEF Back2, world, ImagesInv, Candidate
<1>2. CASE run' = [run EXCEPT !.pc = "sweep"]
  BY <1>1, <1>2, SweepKeeps
<1>3. CASE run' = [run EXCEPT !.pc = "apply2"]
  <2>1. run' = [run EXCEPT !.pc = "apply2", !.chain = run.chain, !.walked = run.walked]
    BY <1>3 DEF ImagesInv, Shape
  <2> QED BY <1>1, <2>1, WalkKeeps
<1>4. CASE \E before : run' = [run EXCEPT !.chain = <<before>> \o run.chain, !.walked = before]
  <2>1. PICK before : run' = [run EXCEPT !.chain = <<before>> \o run.chain, !.walked = before]
    BY <1>4
  <2> DEFINE chain == <<before>> \o run.chain
  <2> HIDE DEF chain
  <2>2. run' = [run EXCEPT !.pc = run.pc, !.chain = chain, !.walked = before]
    BY <2>1 DEF ImagesInv, Shape, chain
  <2> QED BY <1>1, <2>2, WalkKeeps
<1> QED BY <1>2, <1>3, <1>4 DEF Back2, Walk, Step

LEMMA Stage2Keeps == ASSUME Numbered, ImagesInv, Stage2 PROVE ImagesInv'
<1>1. run.pc = "stage2" /\ UNCHANGED <<releases, meta>>
  BY DEF Stage2, world
<1>2. CASE run' = Resting /\ UNCHANGED dirs
  BY <1>1, <1>2, RestingKeeps
<1>3. CASE /\ Free # {} /\ run' = [run EXCEPT !.pc = "reuse2", !.dir = Min(Free)]
           /\ dirs' = [dirs EXCEPT ![Min(Free)] = Stage("v2", Empty.files)]
  <2>1. Empty.files = [f \in Tiers |-> 0]
    BY DEF Empty
  <2> QED BY <1>1, <1>3, <2>1, StageKeeps
<1> QED BY <1>2, <1>3 DEF Stage2, GiveUp, Finish

(* What is reused has the content the release wants.                       *)
LEMMA Reuse2Keeps == ASSUME ImagesInv, Reuse2 PROVE ImagesInv'
<1>1. run.pc = "reuse2" /\ UNCHANGED <<releases, meta>> /\ run.dir \in Dirs \ {meta.dir}
  BY DEF Reuse2, world, ImagesInv, Candidate
<1>2. CASE run' = [run EXCEPT !.pc = "sweep"] /\ UNCHANGED dirs
  BY <1>1, <1>2, SweepKeeps
<1> DEFINE kept == Reusable(run.tag)
           files == [f \in Tiers |-> IF f \in kept THEN dirs[run.prior].files[f]
                                     ELSE dirs[run.dir].files[f]]
           base == ~Suffice(kept)
           pc == IF Suffice(kept) THEN "apply2" ELSE "back2"
<1>3. CASE /\ dirs' = [dirs EXCEPT ![run.dir].files = files]
           /\ run' = [run EXCEPT !.kept = kept, !.base = base, !.pc = pc]
  <2>1. pc \in {"apply2", "back2"} /\ DOMAIN files = Tiers
    OBVIOUS
  <2>2. \A f \in kept : files[f] = releases[run.tag].content[f] /\ f \in Tiers
    BY DEF Reusable, Wanted
  <2>3. \A f \in Tiers \ kept : files[f] = run.wrote[f]
    BY <1>1 DEF ImagesInv, Holds
  <2> HIDE DEF kept, files, base, pc
  <2>4. /\ DOMAIN run' = DOMAIN run /\ run'.dir = run.dir /\ run'.tag = run.tag
        /\ run'.original = run.original /\ run'.wrote = run.wrote /\ run'.pc = pc /\ run'.kept = kept
    BY <1>3 DEF ImagesInv, Shape
  <2>5. run'.pc \notin First /\ DOMAIN run'.wrote = Tiers
    BY <2>1, <2>4 DEF First, ImagesInv, Shape
  <2> QED BY <1>1, <1>3, <2>1, <2>2, <2>3, <2>4, <2>5, FilesKeep, ZenonT(30)
<1> QED BY <1>2, <1>3 DEF Reuse2, Sweep, Step

(* What is extracted is what was not kept.                                 *)
LEMMA Apply2Keeps == ASSUME ImagesInv, Apply2 PROVE ImagesInv'
<1>1. run.pc = "apply2" /\ UNCHANGED <<releases, meta>> /\ run.dir \in Dirs \ {meta.dir}
  BY DEF Apply2, world, ImagesInv, Candidate
<1>2. CASE run' = [run EXCEPT !.pc = "sweep"] /\ UNCHANGED dirs
  BY <1>1, <1>2, SweepKeeps
<1>3. ASSUME NEW v, NEW members, Extract(v, members)
      PROVE  ImagesInv'
  <2> DEFINE needed == Needed(members)
             files == [f \in Tiers |-> IF f \in needed THEN releases[v].content[f]
                                       ELSE dirs[run.dir].files[f]]
             wrote == [f \in Tiers |-> IF f \in needed THEN releases[v].content[f] ELSE run.wrote[f]]
             chain == IF run.base THEN run.chain ELSE Tail(run.chain)
  <2>1. /\ dirs' = [dirs EXCEPT ![run.dir].files = files]
        /\ run' = [run EXCEPT !.wrote = wrote, !.chain = chain, !.base = FALSE]
    BY <1>1, <1>3 DEF Extract, ImagesInv, Shape, Tree
  <2>2. DOMAIN files = Tiers /\ DOMAIN wrote = Tiers
    OBVIOUS
  <2>3. \A f \in run.kept : f \notin needed
    BY DEF Needed
  <2> HIDE DEF needed
  <2>4. /\ \A f \in Tiers \cap run.kept : files[f] = releases[run.tag].content[f]
        /\ \A f \in Tiers \ run.kept : files[f] = wrote[f]
    BY <1>1, <2>3 DEF ImagesInv, Holds, Right
  <2> HIDE DEF files, wrote, chain
  <2>5. /\ DOMAIN run' = DOMAIN run /\ run'.dir = run.dir /\ run'.tag = run.tag
        /\ run'.original = run.original /\ run'.wrote = wrote /\ run'.pc = "apply2"
        /\ run'.kept = run.kept
    BY <1>1, <2>1 DEF ImagesInv, Shape
  <2>6. run'.pc \notin First
    BY <2>5 DEF First
  <2>7. run.kept \subseteq Tiers
    BY <1>1 DEF ImagesInv, Holds
  <2> QED BY <1>1, <2>1, <2>2, <2>4, <2>5, <2>6, <2>7, FilesKeep
<1>4. CASE Complete2 /\ run' = [run EXCEPT !.pc = "publish2"] /\ UNCHANGED dirs
  <2>1. /\ Shape' /\ run'.pc = "publish2" /\ run'.tag = run.tag /\ run'.dir = run.dir
        /\ run'.original = run.original
    BY <1>1, <1>4 DEF ImagesInv, Shape
  <2>2. Candidate' /\ Forward' /\ PointerResolves'
    BY <1>1, <1>4, <2>1 DEF ImagesInv, Candidate, Forward, PointerResolves, First, Second
  <2>3. \A f \in Wanted : Right(f)
    BY <1>1, <1>4 DEF ImagesInv, Holds, Complete2, Wanted, Right
  <2>4. Holds'
    BY <1>1, <1>4, <2>1, <2>3 DEF Holds, Right, Wanted, First
  <2> QED BY <2>1, <2>2, <2>4 DEF ImagesInv
<1> QED BY <1>2, <1>3, <1>4 DEF Apply2, Sweep, Step

LEMMA Publish2Keeps == ASSUME ImagesInv, Publish2 PROVE ImagesInv'
<1>1. /\ run.pc = "publish2" /\ UNCHANGED <<releases, meta>> /\ run.dir \in Dirs \ {meta.dir}
  BY DEF Publish2, world, ImagesInv, Candidate
<1>2. CASE run' = [run EXCEPT !.pc = "sweep"] /\ UNCHANGED dirs
  BY <1>1, <1>2, SweepKeeps
<1>3. CASE /\ dirs' = [dirs EXCEPT ![run.dir].at = "formal", ![run.dir].version = run.tag]
           /\ run' = [run EXCEPT !.pc = "point2"]
  <2>1. /\ DOMAIN dirs' = Dirs /\ \A e \in Dirs \ {run.dir} : dirs'[e] = dirs[e]
        /\ Tree(dirs'[run.dir]) /\ dirs'[run.dir].kind = dirs[run.dir].kind
        /\ dirs'[run.dir].at = "formal" /\ dirs'[run.dir].version = run.tag
        /\ dirs'[run.dir].files = dirs[run.dir].files
    BY <1>1, <1>3 DEF ImagesInv, Shape, Tree
  <2>2. /\ DOMAIN run' = DOMAIN run /\ run'.pc = "point2" /\ run'.tag = run.tag
        /\ run'.wrote = run.wrote /\ run'.dir = run.dir /\ run'.original = run.original
    BY <1>3 DEF ImagesInv, Shape
  <2>3. Shape'
    BY <1>1, <2>1, <2>2 DEF ImagesInv, Shape
  <2>4. Candidate' /\ Forward' /\ PointerResolves'
    BY <1>1, <2>1, <2>2 DEF ImagesInv, Shape, Candidate, Forward, PointerResolves, First, Second
  <2>5. Holds'
    BY <1>1, <2>1, <2>2 DEF ImagesInv, Holds, Right, Wanted, First
  <2> QED BY <2>3, <2>4, <2>5 DEF ImagesInv
<1> QED BY <1>2, <1>3 DEF Publish2, Sweep, Step

LEMMA Point2Keeps == ASSUME Numbered, ImagesInv, Point2 PROVE ImagesInv'
<1>1. run.pc = "point2" /\ UNCHANGED releases /\ run.dir \in Dirs \ {meta.dir}
  BY DEF Point2, world, ImagesInv, Candidate
<1>2. CASE run' = [run EXCEPT !.pc = "sweep"] /\ UNCHANGED <<dirs, meta>>
  BY <1>1, <1>2, SweepKeeps
<1>3. ASSUME meta' = Points("v2"), run' = Resting,
             NEW gone, gone \in {{}, Prunable(run.dir)}, dirs' = Pruned(dirs, gone)
      PROVE  ImagesInv'
  <2>1. gone \subseteq Prunable(run.dir)
    BY <1>3
  <2> QED BY <1>1, <1>3, <2>1, PointKeeps
<1> QED BY <1>2, <1>3 DEF Point2, Sweep, Step, Finish

LEMMA Remove2Keeps == ASSUME ImagesInv, Remove2 PROVE ImagesInv'
<1>1. /\ run.pc = "sweep" /\ UNCHANGED <<releases, meta>> /\ run.dir \in Dirs \ {meta.dir}
      /\ run' = Resting
  BY DEF Remove2, Finish, ImagesInv, Candidate
<1>2. dirs' = [dirs EXCEPT ![run.dir] = Empty] \/ UNCHANGED dirs
  BY DEF Remove2, Swept
<1> QED BY <1>1, <1>2, AbandonKeeps, RestingKeeps

-----------------------------------------------------------------------------
(* The invariant is inductive.                                             *)

LEMMA ImagesStep == ASSUME Numbered, ImagesInv, [Next]_vars PROVE ImagesInv'
<1>1. ASSUME UNCHANGED vars PROVE ImagesInv'
  BY <1>1 DEF vars, ImagesInv, Shape, Candidate, Holds, Right, Wanted, Forward, PointerResolves
<1>2. ASSUME Crash PROVE ImagesInv'
  BY <1>2, RestingKeeps DEF Crash
<1>3. ASSUME RunStep PROVE ImagesInv'
  BY <1>3, ListKeeps, Index1Keeps, Stage1Keeps, Apply1Keeps, Verify1Keeps, Point1Keeps,
     Clean2Keeps, Index2Keeps, Walk2Keeps, Stage2Keeps, Reuse2Keeps, Back2Keeps, Apply2Keeps,
     Publish2Keeps, Point2Keeps, Remove2Keeps DEF RunStep
<1> QED
  BY <1>1, <1>2, <1>3, PublishKeeps, WithdrawKeeps, DropKeeps, LoseKeeps, DamageKeeps, BeginKeeps
     DEF Next

LEMMA ImagesAlways == ASSUME Numbered PROVE Spec => []ImagesInv
<1>1. Init => ImagesInv
  BY ImagesInit
<1>2. ImagesInv /\ [Next]_vars => ImagesInv'
  BY ImagesStep
<1> QED BY <1>1, <1>2, PTL DEF Spec

-----------------------------------------------------------------------------
(* What the directory promises.                                            *)

(* The pointer of images_meta.rs names a complete tree of its own version  *)
(* and protocol after every step of both runs (images_sync.rs,             *)
(* images_v2_sync.rs), whatever was killed, dropped, damaged, withdrawn or *)
(* could not be written.                                                   *)
THEOREM PointerAlwaysResolves == ASSUME Numbered PROVE Spec => []PointerResolves
<1>1. ImagesInv => PointerResolves
  BY DEF ImagesInv
<1> QED BY <1>1, ImagesAlways, PTL

(* What a step of the pointer finds: the candidate, complete.              *)
LEMMA Activation ==
  ASSUME ImagesInv, [Next]_vars, meta' # meta
  PROVE  /\ UNCHANGED releases /\ run.pc \in {"point1", "point2"}
         /\ meta'.kind = (IF run.pc = "point1" THEN "v1" ELSE "v2")
         /\ meta'.dir = run.dir /\ meta'.current = run.tag /\ meta'.original = run.original
         /\ run.dir \in Dirs \ {meta.dir} /\ dirs'[run.dir] = dirs[run.dir]
<1>1. Point1 \/ Point2
  BY DEF Next, RunStep, vars, world, Publish, Withdraw, LoseAsset, Damage, Crash, Drop, Begin, List,
         Index1, Stage1, Apply1, Verify1, Clean2, Index2, Walk2, Stage2, Reuse2, Back2, Apply2,
         Publish2, Remove2
<1>2. PICK kind \in Protocol : meta' = Points(kind) /\ kind = (IF run.pc = "point1" THEN "v1" ELSE "v2")
  BY <1>1 DEF Point1, Point2, Protocol
<1>3. \E gone : gone \subseteq Prunable(run.dir) /\ dirs' = Pruned(dirs, gone)
  BY <1>1 DEF Point1, Point2
<1>4. run.dir \in Dirs \ {meta.dir} /\ run.pc \in {"point1", "point2"} /\ UNCHANGED releases
  BY <1>1 DEF Point1, Point2, world, ImagesInv, Candidate
<1> QED BY <1>2, <1>3, <1>4 DEF Points, Pruned, Prunable

(* An activation (point_at of images_sync.rs, the publish task of          *)
(* images_v2_sync.rs) finds every wanted file as the index of the release  *)
(* says: of v1 because the candidate was verified, of v2 because what was  *)
(* neither kept nor written right ends the run before.                     *)
THEOREM ActivationsAreComplete == ASSUME Numbered PROVE Spec => [][ActivatesComplete]_vars
<1>1. ImagesInv /\ [Next]_vars => [ActivatesComplete]_vars
  <2> SUFFICES ASSUME ImagesInv, [Next]_vars, meta' # meta PROVE ActivatesComplete
    BY DEF ActivatesComplete, vars
  <2>1. \A f \in Wanted : dirs[run.dir].files[f] = releases[run.tag].content[f]
    BY Activation DEF ImagesInv, Holds, Right
  <2> QED BY <2>1, Activation DEF ActivatesComplete, Wanted
<1> QED BY <1>1, ImagesAlways, PTL DEF Spec

(* With v2 active the choice of the protocol, the refusal of a downgrade   *)
(* (run_selected) and the lease keep the pointer from going back, even to  *)
(* follow a withdrawal.                                                    *)
THEOREM ArtworkNeverGoesBack == ASSUME Numbered PROVE Spec => [][NeverBack]_vars
<1>1. ImagesInv /\ [Next]_vars => [NeverBack]_vars
  <2> SUFFICES ASSUME ImagesInv, [Next]_vars, meta.kind = "v2"
               PROVE  meta'.kind = "v2" /\ meta'.current >= meta.current
    BY DEF NeverBack
  <2>1. CASE meta' = meta
    BY <2>1 DEF ImagesInv, Shape
  <2>2. CASE meta' # meta
    BY <2>2, Activation DEF ImagesInv, Forward, First, Second
  <2> QED BY <2>1, <2>2
<1> QED BY <1>1, ImagesAlways, PTL DEF Spec

(* A v1 or v2 run writes to its candidate and removes what the pointer     *)
(* does not name (cleanup_staging, cleanup_old, prune): only the disk      *)
(* changes the files of the active generation.                             *)
THEOREM ActiveStaysAsItIs == ASSUME Numbered PROVE Spec => [][ActiveIsImmutable]_vars
<1>1. ImagesInv /\ [Next]_vars => [ActiveIsImmutable]_vars
  <2> SUFFICES ASSUME ImagesInv, Next, meta.dir # 0, meta'.dir = meta.dir
               PROVE  dirs'[meta.dir] = dirs[meta.dir] \/ faults' = faults + 1
    BY DEF ActiveIsImmutable, vars
  <2>1. meta.dir \in Dirs /\ dirs[meta.dir].at = "formal" /\ meta.dir = Active
    BY DEF ImagesInv, Shape, PointerResolves, Active
  <2>2. ASSUME NEW f \in Tiers, Damage(f) PROVE faults' = faults + 1
    BY <2>2 DEF Damage, Fault
  <2>3. ASSUME Stage1 \/ Stage2 PROVE dirs'[meta.dir] = dirs[meta.dir]
    <3>1. CASE UNCHANGED dirs
      BY <3>1
    <3>2. CASE Free # {} /\ \E tree : dirs' = [dirs EXCEPT ![Min(Free)] = tree]
      <4>1. Min(Free) # meta.dir
        BY <2>1, <3>2, FreeIsFree DEF Free
      <4> QED BY <2>1, <3>2, <4>1 DEF ImagesInv, Shape
    <3> QED BY <2>3, <3>1, <3>2 DEF Stage1, Stage2, GiveUp
  <2>4. ASSUME Clean2 PROVE dirs'[meta.dir] = dirs[meta.dir]
    <3>1. CASE UNCHANGED dirs
      BY <3>1
    <3>2. CASE \E gone \in {{}, Orphans} : dirs' = Pruned(Cleaned, gone)
      <4>1. meta.dir \notin Orphans /\ Cleaned[meta.dir] = dirs[meta.dir]
        BY <2>1 DEF Orphans, Prunable, Cleaned
      <4> QED BY <2>1, <3>2, <4>1 DEF Pruned
    <3> QED BY <2>4, <3>1, <3>2 DEF Clean2, GiveUp
  <2>5. ASSUME Apply1 \/ Verify1 \/ Reuse2 \/ Apply2 \/ Publish2 \/ Remove2
        PROVE  dirs'[meta.dir] = dirs[meta.dir]
    <3>1. run.dir \in Dirs \ {meta.dir}
      BY <2>5 DEF Apply1, Verify1, Reuse2, Apply2, Publish2, Remove2, ImagesInv, Candidate
    <3> QED BY <2>5, <3>1 DEF Apply1, Verify1, Reuse2, Apply2, Publish2, Remove2, Extract, Abandon,
               Sweep, Swept, ImagesInv, Shape
  <2>6. ASSUME Point1 \/ Point2 PROVE dirs'[meta.dir] = dirs[meta.dir]
    <3>1. meta' = meta
      BY Activation
    <3>2. meta.dir # run.dir
      BY <2>6 DEF Point1, Point2, ImagesInv, Candidate
    <3> QED BY <2>6, <3>1, <3>2 DEF Point1, Point2, Points, Sweep, ImagesInv, Shape
  <2>7. ASSUME UNCHANGED dirs PROVE dirs'[meta.dir] = dirs[meta.dir]
    BY <2>7
  <2> QED BY <2>2, <2>3, <2>4, <2>5, <2>6, <2>7
          DEF Next, RunStep, world, Publish, Withdraw, LoseAsset, Crash, Drop, Begin, List, Index1,
              Index2, Walk2, Back2
<1> QED BY <1>1, ImagesAlways, PTL DEF Spec
=============================================================================
