-------------------------- MODULE DataStateProofs --------------------------
(***************************************************************************)
(* Proofs about the snapshots, for any number of callers, generations and  *)
(* files that fail to open.                                                *)
(***************************************************************************)
EXTENDS DataState, SequenceTheorems, TLAPS

Counted == MaxGeneration \in Nat /\ MaxFaults \in Nat

-----------------------------------------------------------------------------
(* The inductive invariant.                                                *)

Entry == Content \cup (Content \X Content \X SUBSET Content)
Waiting == {"lookup", "lock", "active", "previous", "open", "pair", "excel", "levels", "story",
            "store"}
Calls == [pc : {"idle", "sign", "recheck", "done"} \cup Waiting, sig : Seq(Entry),
          tries : Seq(Content), from : Content, view : View, then : Then]

Shape ==
  /\ pair \in Content /\ excel \in Content /\ levels \in Content /\ story \in Content
  /\ active \in Content /\ previous \in Content /\ files \subseteq Content
  /\ writing \in {"idle", "previous", "active", "prune"}
  /\ faults \in 0..MaxFaults
  /\ DOMAIN cache = {"sig", "view"} /\ cache.view \in View /\ cache.sig \in Seq(Entry)
  /\ call \in [Callers -> Calls]

(* A synchronizer of this source writes the trees before the pair, and a   *)
(* database file before the pointers; what is active and what was active   *)
(* before it exists.  Data of another source is in bound directories only. *)
PairWorld ==
  "pair" \notin bound => pair <= levels /\ levels <= excel /\ excel <= MaxGeneration
StoryWorld == "story" \notin bound => story # Foreign
DatabaseWorld ==
  "database" \notin bound =>
    /\ active <= MaxGeneration /\ files \subseteq 0..MaxGeneration
    /\ \A g \in {active, active - 1} : g >= 1 => g \in files
    /\ writing \in {"previous", "active"} => active < MaxGeneration /\ active + 1 \in files
    /\ previous = IF writing = "active" \/ active = 0 THEN active ELSE active - 1
World == Shape /\ PairWorld /\ StoryWorld /\ DatabaseWorld

(* Nobody else has bound what this backend reads; no file failed to open.  *)
JsonMine == backend = "json" /\ "pair" \notin bound /\ "story" \notin bound
DatabaseMine == backend # "json" /\ "database" \notin bound /\ faults = 0

(* What a call has signed is not older than what was there when it began,  *)
(* and what it resolves is not older than what it has signed.              *)
Signing(v) ==
  /\ v.pc = "sign" => Len(v.sig) < Len(Tokens)
  /\ v.pc \in Waiting => Len(v.sig) = Len(Tokens)
PairOf(view, first) == view.excel = view.levels /\ view.excel \in first..pair
FromPair(v) ==
  /\ backend = "json" => v.pc \notin {"active", "previous", "open"}
  /\ JsonMine =>
       /\ v.pc # "idle" => v.then.pair <= pair
       /\ v.pc \in {"sign"} \cup Waiting /\ Len(v.sig) > 0 => v.sig[1] \in v.then.pair..pair
       /\ v.pc \in {"excel", "levels", "story", "store"} /\ v.sig[1] # 0 => v.from \in v.sig[1]..pair
       /\ v.pc \in {"levels", "story", "store"} /\ v.sig[1] # 0 => v.view.excel = v.from
       /\ v.pc \in {"story", "store"} /\ v.sig[1] # 0 => v.view.levels = v.from
       /\ v.pc \in {"recheck", "done"} /\ v.then.pair # 0 => PairOf(v.view, v.then.pair)

(* A database may be gone when two more have been activated.               *)
Near(first) == first # 0 /\ active < first + 2
FromDatabase(v) ==
  DatabaseMine =>
    /\ v.pc # "idle" => v.then.active <= active
    /\ v.pc \in {"sign"} \cup Waiting /\ Len(v.sig) > 0 => v.sig[1] \in v.then.active..active
    /\ v.pc \in {"previous", "open"} /\ Near(v.sig[1]) =>
         v.tries # <<>> /\ Head(v.tries) \in v.sig[1]..active
    /\ v.pc \in {"pair", "excel", "levels", "story"} => ~Near(v.sig[1])
    /\ v.pc = "store" /\ Near(v.sig[1]) => v.view.db \in v.sig[1]..active
    /\ v.pc \in {"recheck", "done"} /\ Near(v.then.active) => v.view.db \in v.then.active..active

(* A view with data of another source is on its way to the second look.    *)
Ours(view) ==
  /\ Foreign \notin {view.excel, view.levels, view.story}
  /\ view.db = Foreign => "database" \in bound /\ backend # "json"
Local(v) ==
  /\ v.from = Foreign => "pair" \in bound
  /\ Ours(v.view) /\ (v.pc = "done" => v.view.db # Foreign)

Knows(v) == Signing(v) /\ FromPair(v) /\ FromDatabase(v) /\ Local(v)

(* The cache holds what was resolved after its signature was read.         *)
Cached(entry) ==
  /\ Ours(entry.view)
  /\ entry.sig # <<>> =>
       /\ JsonMine => /\ entry.sig[1] \in 0..pair
                      /\ entry.sig[1] # 0 => PairOf(entry.view, entry.sig[1])
       /\ DatabaseMine => /\ entry.sig[1] \in 0..active
                          /\ Near(entry.sig[1]) => entry.view.db \in entry.sig[1]..active

SnapshotInv == World /\ Cached(cache) /\ \A c \in Callers : Knows(call[c])

LEMMA QuietKnows == ASSUME Counted PROVE Quiet \in Calls /\ Knows(Quiet) /\ NoView \in View
<1>1. 0 \in Content /\ 0 # Foreign /\ 0 \in 0..MaxFaults
  BY DEF Counted, Content, Bundle, Foreign
<1>2. NoView \in View /\ NoThen \in Then
  BY <1>1 DEF NoView, View, NoThen, Then
<1>3. Quiet \in Calls /\ Quiet.pc = "idle" /\ Quiet.from = 0 /\ Quiet.view = NoView
  <2>1. <<>> \in Seq(Entry) /\ <<>> \in Seq(Content)
    OBVIOUS
  <2> QED BY <1>1, <1>2, <2>1 DEF Quiet, Calls
<1>4. Knows(Quiet)
  BY <1>1, <1>3 DEF Knows, Signing, FromPair, FromDatabase, Local, Ours, NoView, Waiting
<1> QED BY <1>2, <1>3, <1>4

LEMMA SnapshotInit == ASSUME Counted PROVE Init => SnapshotInv
<1> SUFFICES ASSUME Init PROVE SnapshotInv
  OBVIOUS
<1>1. 0 \in Content /\ 0 # Foreign /\ 0 \in 0..MaxFaults /\ 0 <= MaxGeneration
  BY DEF Counted, Content, Bundle, Foreign
<1>2. Shape
  BY <1>1, QuietKnows DEF Init, Shape, NoCache
<1>3. PairWorld /\ StoryWorld /\ DatabaseWorld
  BY <1>1 DEF Init, PairWorld, StoryWorld, DatabaseWorld
<1>4. Cached(cache)
  BY <1>1 DEF Init, NoCache, NoView, Cached, Ours
<1>5. \A c \in Callers : Knows(call[c])
  BY QuietKnows DEF Init
<1> QED BY <1>2, <1>3, <1>4, <1>5 DEF SnapshotInv, World

(* The first entry of a signature.                                         *)
LEMMA FirstToken ==
  ASSUME Shape
  PROVE  /\ Len(Tokens) \in {3, 6} /\ DOMAIN Tokens = 1..Len(Tokens)
         /\ FileToken(Tokens[1]) = (IF backend = "json" THEN pair ELSE active)
         /\ \A k \in 1..Len(Tokens) : FileToken(Tokens[k]) \in Entry
<1>1. /\ FileToken("pair") = pair /\ FileToken("excel") = excel /\ FileToken("levels") = levels
      /\ FileToken("active") = active /\ FileToken("previous") = previous
      /\ FileToken("paths") = <<active, previous, files \cap {active, previous}>>
  BY DEF FileToken
<1>2. \A t \in Token : FileToken(t) \in Entry
  BY <1>1 DEF Shape, Entry, Token
<1>3. /\ Len(Tokens) \in {3, 6} /\ DOMAIN Tokens = 1..Len(Tokens)
      /\ Tokens[1] = (IF backend = "json" THEN "pair" ELSE "active")
      /\ \A k \in 1..Len(Tokens) : Tokens[k] \in Token
  <2>1. CASE backend = "json"
    <3>1. Tokens = <<"pair", "excel", "levels">>
      BY <2>1 DEF Tokens
    <3>2. \A k \in 1..3 : k = 1 \/ k = 2 \/ k = 3
      OBVIOUS
    <3> QED BY <2>1, <3>1, <3>2 DEF Token
  <2>2. CASE backend = "sqlite"
    <3>1. Tokens = <<"active", "previous", "paths">>
      BY <2>2 DEF Tokens
    <3>2. \A k \in 1..3 : k = 1 \/ k = 2 \/ k = 3
      OBVIOUS
    <3> QED BY <2>2, <3>1, <3>2 DEF Token
  <2>3. CASE backend \notin {"json", "sqlite"}
    <3>1. Tokens = <<"active", "previous", "paths", "pair", "excel", "levels">>
      BY <2>3 DEF Tokens
    <3>2. \A k \in 1..6 : k = 1 \/ k = 2 \/ k = 3 \/ k = 4 \/ k = 5 \/ k = 6
      OBVIOUS
    <3> QED BY <2>3, <3>1, <3>2 DEF Token
  <2> QED BY <2>1, <2>2, <2>3
<1> QED BY <1>1, <1>2, <1>3

LEMMA OwnedIsMine ==
  Owned <=> IF backend = "json" THEN "pair" \notin bound /\ "story" \notin bound
            ELSE "database" \notin bound
BY DEF Owned, DataRoots

LEMMA NoCacheHolds == ASSUME Counted PROVE Cached(NoCache)
BY DEF Counted, Cached, NoCache, NoView, Ours, Foreign

-----------------------------------------------------------------------------
(* What moves, moves forward.                                              *)

LEMMA MoveKeeps ==
  ASSUME Counted, SnapshotInv, UNCHANGED <<config, cache, call, faults>>, World',
         bound \subseteq bound', JsonMine' => pair <= pair', DatabaseMine' => active <= active'
  PROVE  SnapshotInv'
<1>1. /\ pair \in Nat /\ pair' \in Nat /\ active \in Nat /\ active' \in Nat
      /\ (JsonMine' => JsonMine) /\ (DatabaseMine' => DatabaseMine) /\ backend' = backend
      /\ cache' = cache
  BY DEF SnapshotInv, World, Shape, Content, Bundle, Counted, JsonMine, DatabaseMine, config
<1>2. Cached(cache)'
  <2>1. PICK e : e = cache /\ e = cache' /\ Cached(e)
    BY <1>1 DEF SnapshotInv
  <2>2. Ours(e.view)'
    BY <1>1, <2>1 DEF Cached, Ours
  <2>3. ASSUME e.sig # <<>>, JsonMine'
        PROVE  e.sig[1] \in 0..pair' /\ (e.sig[1] # 0 => PairOf(e.view, e.sig[1])')
    <3>1. JsonMine /\ pair <= pair'
      BY <1>1, <2>3
    <3>2. e.sig[1] \in 0..pair /\ (e.sig[1] # 0 => PairOf(e.view, e.sig[1]))
      <4>1. Cached(e) /\ e.sig # <<>>
        BY <2>1, <2>3
      <4> QED BY <3>1, <4>1 DEF Cached
    <3>3. \A z \in 0..pair : z \in 0..pair' /\ z..pair \subseteq z..pair'
      BY <1>1, <3>1
    <3> QED BY <3>2, <3>3 DEF PairOf
  <2>4. ASSUME e.sig # <<>>, DatabaseMine'
        PROVE  /\ e.sig[1] \in 0..active'
               /\ Near(e.sig[1])' => e.view.db \in e.sig[1]..active'
    <3>1. DatabaseMine /\ active <= active'
      BY <1>1, <2>4
    <3>2. /\ e.sig[1] \in 0..active
          /\ Near(e.sig[1]) => e.view.db \in e.sig[1]..active
      <4>1. Cached(e) /\ e.sig # <<>>
        BY <2>1, <2>4
      <4> QED BY <3>1, <4>1 DEF Cached
    <3>3. \A z \in 0..active : z \in 0..active' /\ z..active \subseteq z..active'
                               /\ (Near(z)' => Near(z))
      BY <1>1, <3>1 DEF Near
    <3> QED BY <3>2, <3>3
  <2> QED BY <2>1, <2>2, <2>3, <2>4 DEF Cached
<1>3. ASSUME NEW c \in Callers PROVE Knows(call[c])'
  <2>1. PICK v \in Calls : v = call[c] /\ v = call'[c] /\ Knows(v)
    BY DEF SnapshotInv, World, Shape
  <2>2. v.then.pair \in Nat /\ v.then.active \in Nat
    BY DEF Calls, Then, Content, Bundle, Counted
  <2>3. Signing(v)'
    BY <2>1 DEF Knows, Signing, Tokens, config
  <2>4. FromPair(v)'
    BY <1>1, <2>1, <2>2 DEF Knows, FromPair, PairOf
  <2>5. FromDatabase(v)'
    <3> SUFFICES ASSUME DatabaseMine' PROVE FromDatabase(v)'
      BY DEF FromDatabase
    <3>1. DatabaseMine /\ active <= active' /\ FromDatabase(v)
      BY <1>1, <2>1 DEF Knows
    <3>2. v.pc \in {"sign"} \cup Waiting /\ Len(v.sig) > 0 =>
            v.sig[1] \in v.then.active..active /\ (Near(v.sig[1])' => Near(v.sig[1]))
      BY <1>1, <2>2, <3>1 DEF FromDatabase, Near
    <3>3. Near(v.then.active)' => Near(v.then.active)
      BY <1>1, <2>2, <3>1 DEF Near
    <3>4. v.pc \in Waiting => Len(v.sig) > 0
      BY <2>1, FirstToken DEF Knows, Signing, SnapshotInv, World
    <3>5. v.pc # "idle" => v.then.active <= active'
      BY <1>1, <2>2, <3>1 DEF FromDatabase
    <3>6. \A z : z \in 0..active => z \in 0..active'
      BY <1>1, <3>1
    <3>7. v.pc \in {"sign"} \cup Waiting /\ Len(v.sig) > 0 => v.sig[1] \in v.then.active..active'
      BY <1>1, <2>2, <3>1, <3>2
    <3>8. v.pc \in {"previous", "open"} /\ Near(v.sig[1])' =>
            v.tries # <<>> /\ Head(v.tries) \in v.sig[1]..active'
      BY <1>1, <2>2, <3>1, <3>2, <3>4 DEF FromDatabase, Waiting
    <3>9. v.pc \in {"pair", "excel", "levels", "story"} => ~Near(v.sig[1])'
      BY <3>1, <3>2, <3>4 DEF FromDatabase, Waiting
    <3>10. v.pc = "store" /\ Near(v.sig[1])' => v.view.db \in v.sig[1]..active'
      BY <1>1, <2>2, <3>1, <3>2, <3>4 DEF FromDatabase, Waiting
    <3>11. v.pc \in {"recheck", "done"} /\ Near(v.then.active)' => v.view.db \in v.then.active..active'
      BY <1>1, <2>2, <3>1, <3>3 DEF FromDatabase
    <3> QED BY <3>5, <3>7, <3>8, <3>9, <3>10, <3>11 DEF FromDatabase
  <2>6. Local(v)'
    BY <1>1, <2>1 DEF Knows, Local, Ours
  <2> QED BY <2>1, <2>3, <2>4, <2>5, <2>6 DEF Knows
<1> QED BY <1>2, <1>3 DEF SnapshotInv

LEMMA PublishKeeps == ASSUME Counted, SnapshotInv, Publish PROVE SnapshotInv'
<1>1. UNCHANGED <<config, cache, call, faults>> /\ bound \subseteq bound'
  BY DEF Publish, ExtractExcel, ExtractLevels, SavePair, SwapStory, WriteDatabase, Bind, ForeignPublish
<1>2. /\ MaxGeneration \in Nat /\ Content = 0..MaxGeneration + 2 /\ Foreign = MaxGeneration + 1
      /\ {pair, excel, levels, story, active, previous} \subseteq Content /\ files \subseteq Content
      /\ writing \in {"idle", "previous", "active", "prune"}
      /\ PairWorld /\ StoryWorld /\ DatabaseWorld
  BY DEF Counted, Content, Bundle, Foreign, SnapshotInv, World, Shape
<1>3. ASSUME {pair', excel', levels', story', active', previous'} \subseteq Content,
             files' \subseteq Content, writing' \in {"idle", "previous", "active", "prune"},
             PairWorld', StoryWorld', DatabaseWorld',
             JsonMine' => pair <= pair', DatabaseMine' => active <= active'
      PROVE  SnapshotInv'
  <2>1. Shape'
    BY <1>1, <1>3 DEF Shape, SnapshotInv, World
  <2> QED BY <1>1, <1>3, <2>1, MoveKeeps DEF World
<1>4. ASSUME ExtractExcel \/ ExtractLevels \/ SavePair \/ SwapStory PROVE SnapshotInv'
  <2>1. UNCHANGED <<active, previous, files, writing, bound>>
    BY <1>4 DEF ExtractExcel, ExtractLevels, SavePair, SwapStory, database
  <2>2. {pair', excel', levels', story'} \subseteq Content
    BY <1>2, <1>4 DEF ExtractExcel, ExtractLevels, SavePair, SwapStory, Mine, PairWorld
  <2>3. PairWorld' /\ StoryWorld' /\ pair <= pair'
    BY <1>2, <1>4 DEF ExtractExcel, ExtractLevels, SavePair, SwapStory, Mine, PairWorld, StoryWorld
  <2>4. DatabaseWorld' /\ active <= active'
    BY <1>2, <2>1 DEF DatabaseWorld
  <2> QED BY <1>2, <1>3, <2>1, <2>2, <2>3, <2>4
<1>5. ASSUME WriteDatabase PROVE SnapshotInv'
  <2>1. UNCHANGED <<pair, excel, levels, story, bound>> /\ "database" \notin bound
    BY <1>5 DEF WriteDatabase, json, Mine
  <2>2. PairWorld' /\ StoryWorld' /\ pair <= pair'
    BY <1>2, <2>1 DEF PairWorld, StoryWorld
  <2>3. CASE /\ writing = "idle" /\ active < MaxGeneration /\ files' = files \cup {active + 1}
             /\ writing' = "previous" /\ UNCHANGED <<active, previous>>
    <3>1. active \in 0..MaxGeneration /\ files \subseteq 0..MaxGeneration
      BY <1>2, <2>1 DEF DatabaseWorld
    <3>2. files' \subseteq 0..MaxGeneration /\ files \subseteq files' /\ active + 1 \in files'
      BY <1>2, <2>3, <3>1
    <3>3. files' \subseteq Content
      BY <1>2, <3>2
    <3>4. \A g \in {active, active - 1} : g >= 1 => g \in files'
      BY <1>2, <2>1, <3>2 DEF DatabaseWorld
    <3>5. DatabaseWorld'
      BY <1>2, <2>1, <2>3, <3>1, <3>2, <3>4 DEF DatabaseWorld
    <3> QED BY <1>2, <1>3, <2>1, <2>2, <2>3, <3>3, <3>5
  <2>4. CASE /\ writing = "previous" /\ previous' = active /\ writing' = "active"
             /\ UNCHANGED <<active, files>>
    <3>1. DatabaseWorld'
      BY <1>2, <2>1, <2>4 DEF DatabaseWorld
    <3> QED BY <1>2, <1>3, <2>1, <2>2, <2>4, <3>1
  <2>5. CASE /\ writing = "active" /\ active' = active + 1 /\ writing' = "prune"
             /\ UNCHANGED <<previous, files>>
    <3>1. DatabaseWorld' /\ active' \in Content /\ active <= active'
      BY <1>2, <2>1, <2>5 DEF DatabaseWorld
    <3> QED BY <1>2, <1>3, <2>1, <2>2, <2>5, <3>1
  <2>6. CASE /\ writing = "prune" /\ files' = files \cap {active, previous} /\ writing' = "idle"
             /\ UNCHANGED <<active, previous>>
    <3>1. DatabaseWorld'
      BY <1>2, <2>1, <2>6 DEF DatabaseWorld
    <3> QED BY <1>2, <1>3, <2>1, <2>2, <2>6, <3>1
  <2> QED BY <1>5, <2>3, <2>4, <2>5, <2>6 DEF WriteDatabase
<1>6. ASSUME NEW unit \in Bindable, Bind(unit) PROVE SnapshotInv'
  <2>1. /\ UNCHANGED <<pair, excel, levels, story, active, previous, files, writing>>
        /\ bound \subseteq bound'
    BY <1>1, <1>6 DEF Bind, json, database
  <2>2. PairWorld' /\ StoryWorld' /\ DatabaseWorld' /\ pair <= pair' /\ active <= active'
    BY <1>2, <2>1 DEF PairWorld, StoryWorld, DatabaseWorld
  <2> QED BY <1>2, <1>3, <2>1, <2>2
<1>7. ASSUME NEW unit \in Bindable, ForeignPublish(unit) PROVE SnapshotInv'
  <2>1. writing' = writing /\ bound' = bound /\ unit \in bound
    BY <1>7 DEF ForeignPublish, json, database
  <2>5. Foreign \in Content /\ 0 \in Content
    BY <1>2
  <2>6. /\ excel' \in {excel, Foreign} /\ levels' \in {levels, Foreign} /\ pair' \in {pair, 0, Foreign}
        /\ story' \in {story, Foreign} /\ active' \in {active, Foreign} /\ previous' = previous
        /\ files' \in {files, {Foreign}}
    BY <1>7 DEF ForeignPublish, json, database
  <2>2. /\ unit # "pair" => UNCHANGED <<pair, excel, levels>>
        /\ unit # "story" => UNCHANGED story
        /\ unit # "database" => UNCHANGED <<active, previous, files, writing>>
    BY <1>7 DEF ForeignPublish, json, database
  <2>3. PairWorld' /\ StoryWorld' /\ DatabaseWorld'
    BY <1>2, <2>1, <2>2 DEF PairWorld, StoryWorld, DatabaseWorld
  <2>4. (JsonMine' => pair <= pair') /\ (DatabaseMine' => active <= active')
    BY <1>2, <2>1, <2>2 DEF JsonMine, DatabaseMine
  <2>7. {pair', excel', levels', story', active', previous'} \subseteq Content /\ files' \subseteq Content
    BY <1>2, <2>5, <2>6
  <2> QED BY <1>2, <1>3, <2>1, <2>3, <2>4, <2>7
<1> QED BY <1>4, <1>5, <1>6, <1>7 DEF Publish

-----------------------------------------------------------------------------
(* A step of a call changes what this call knows.                          *)

LEMMA CallerKeeps ==
  ASSUME Counted, SnapshotInv, NEW c \in Callers, NEW u \in Calls, call' = [call EXCEPT ![c] = u],
         UNCHANGED <<config, bound, json, database, faults>>,
         DOMAIN cache' = {"sig", "view"}, cache'.view \in View, cache'.sig \in Seq(Entry),
         Cached(cache'), Knows(u)
  PROVE  SnapshotInv'
<1>1. UNCHANGED <<backend, bundle, bound, pair, excel, levels, story, active, previous, files, writing, faults>>
  BY DEF config, json, database
<1>2. call'[c] = u /\ \A d \in Callers \ {c} : call'[d] = call[d]
  BY DEF SnapshotInv, World, Shape
<1>3. World'
  BY <1>1 DEF SnapshotInv, World, Shape, PairWorld, StoryWorld, DatabaseWorld
<1>4. Cached(cache)'
  <2>1. PICK entry : entry = cache' /\ Cached(entry)
    OBVIOUS
  <2> QED BY <1>1, <2>1 DEF Cached, Ours, PairOf, Near, JsonMine, DatabaseMine
<1>5. ASSUME NEW d \in Callers PROVE Knows(call[d])'
  <2>1. PICK v : v = call'[d] /\ Knows(v)
    BY <1>2 DEF SnapshotInv
  <2> QED BY <1>1, <2>1 DEF Knows, Signing, Tokens, FromPair, FromDatabase, Local, Ours, PairOf, Near,
             JsonMine, DatabaseMine
<1> QED BY <1>3, <1>4, <1>5 DEF SnapshotInv

(* With the cache as it is. *)
LEMMA LookKeeps ==
  ASSUME Counted, SnapshotInv, NEW c \in Callers, NEW u \in Calls, call' = [call EXCEPT ![c] = u],
         UNCHANGED <<config, bound, json, database, faults, cache>>, Knows(u)
  PROVE  SnapshotInv'
BY CallerKeeps DEF SnapshotInv, World, Shape

(* What there is to know about a caller before its step.                   *)
LEMMA Facts ==
  ASSUME Counted, SnapshotInv, NEW c \in Callers
  PROVE  /\ call[c] \in Calls /\ Knows(call[c]) /\ World /\ Cached(cache)
         /\ MaxGeneration \in Nat /\ Content = 0..MaxGeneration + 2
         /\ Foreign = MaxGeneration + 1 /\ Bundle = MaxGeneration + 2
         /\ pair \in Content /\ excel \in Content /\ levels \in Content /\ story \in Content
         /\ active \in Content /\ previous \in Content /\ files \subseteq Content
         /\ call[c].then \in Then /\ call[c].then.pair \in Nat /\ call[c].then.active \in Nat
         /\ call[c].view \in View /\ call[c].from \in Content
         /\ call[c].sig \in Seq(Entry) /\ call[c].tries \in Seq(Content)
         /\ call[c].pc \in Waiting => Len(call[c].sig) > 0
<1>1. /\ call[c] \in Calls /\ Knows(call[c]) /\ World /\ Cached(cache)
      /\ MaxGeneration \in Nat /\ Content = 0..MaxGeneration + 2
      /\ Foreign = MaxGeneration + 1 /\ Bundle = MaxGeneration + 2
  BY DEF Counted, SnapshotInv, World, Shape, Content, Foreign, Bundle
<1>2. call[c].pc \in Waiting => Len(call[c].sig) > 0
  BY <1>1, FirstToken DEF Knows, Signing, World
<1>3. /\ call[c].then \in Then /\ call[c].view \in View /\ call[c].from \in Content
      /\ call[c].sig \in Seq(Entry) /\ call[c].tries \in Seq(Content)
  BY <1>1 DEF Calls
<1>4. call[c].then.pair \in Nat /\ call[c].then.active \in Nat
  BY <1>1, <1>3 DEF Then
<1> QED BY <1>1, <1>2, <1>3, <1>4 DEF World, Shape

LEMMA CallKeeps == ASSUME Counted, SnapshotInv, NEW c \in Callers, Call(c) PROVE SnapshotInv'
<1> DEFINE then == [pair |-> pair, story |-> story, active |-> active, faults |-> faults]
           pc == IF Owned THEN "sign" ELSE "done"
           u == [Quiet EXCEPT !.pc = pc, !.then = then]
<1>1. /\ call' = [call EXCEPT ![c] = u] /\ cache' = (IF Owned THEN cache ELSE NoCache)
      /\ UNCHANGED <<config, bound, json, database, faults>>
  BY DEF Call
<1>2. World /\ Cached(cache) /\ pair \in Nat /\ active \in Nat
  BY Facts
<1>3. then \in Then
  BY <1>2 DEF Then, World, Shape
<1>4. /\ u \in Calls /\ u.pc = pc /\ u.then = then /\ u.sig = <<>> /\ u.from = 0 /\ u.view = NoView
      /\ pc \in {"sign", "done"}
  BY <1>3, QuietKnows DEF Calls, Quiet
<1> HIDE DEF u
<1>5. pc = "done" => ~JsonMine /\ ~DatabaseMine
  BY OwnedIsMine DEF JsonMine, DatabaseMine
<1>6. then.pair = pair /\ then.active = active
  OBVIOUS
<1> HIDE DEF pc, then
<1>7. Signing(u)
  BY <1>2, <1>4, FirstToken DEF Signing, World, Waiting
<1>8. FromPair(u) /\ FromDatabase(u)
  BY <1>2, <1>4, <1>5, <1>6 DEF FromPair, FromDatabase, Waiting
<1>9. Local(u)
  BY <1>4 DEF Local, Ours, NoView, Foreign, Counted
<1>10. /\ Cached(cache') /\ DOMAIN cache' = {"sig", "view"} /\ cache'.view \in View
       /\ cache'.sig \in Seq(Entry)
  <2>1. CASE cache' = cache
    BY <1>2, <2>1 DEF World, Shape
  <2>2. CASE cache' = NoCache
    <3>1. NoCache = [sig |-> <<>>, view |-> NoView] /\ <<>> \in Seq(Entry)
      BY DEF NoCache
    <3> QED BY <2>2, <3>1, NoCacheHolds, QuietKnows
  <2> QED BY <1>1, <2>1, <2>2
<1> QED BY <1>1, <1>4, <1>7, <1>8, <1>9, <1>10, CallerKeeps DEF Knows

(* The first entry is read first, the others are more of the same.         *)
LEMMA SignKeeps == ASSUME Counted, SnapshotInv, NEW c \in Callers, Sign(c) PROVE SnapshotInv'
<1> DEFINE v == call[c]
           k == Len(v.sig) + 1
           sig == Append(v.sig, FileToken(Tokens[k]))
           pc == IF Len(sig) = Len(Tokens) THEN "lookup" ELSE "sign"
           u == [v EXCEPT !.sig = sig, !.pc = pc]
<1>1. v \in Calls /\ v.sig \in Seq(Entry) /\ Knows(v) /\ World /\ v.then.pair \in Nat /\ v.then.active \in Nat
      /\ pair \in Nat /\ active \in Nat
  BY Facts
<1>2. /\ v.pc = "sign" /\ UNCHANGED <<config, bound, json, database, cache, faults>>
  BY DEF Sign
<1>3. call' = [call EXCEPT ![c] = u]
  BY <1>1 DEF Sign, SnapshotInv, World, Shape
<1>4. Len(v.sig) \in Nat /\ Len(v.sig) < Len(Tokens) /\ Len(Tokens) \in {3, 6}
  BY <1>1, <1>2, FirstToken DEF Knows, Signing, World
<1>5. FileToken(Tokens[k]) \in Entry
  BY <1>1, <1>4, FirstToken DEF World
<1>6. /\ sig \in Seq(Entry) /\ Len(sig) = k
      /\ sig[1] = (IF Len(v.sig) = 0 THEN FileToken(Tokens[1]) ELSE v.sig[1])
  BY <1>1, <1>4, <1>5, AppendProperties
<1>7. /\ u \in Calls /\ u.pc = pc /\ u.sig = sig /\ u.then = v.then /\ u.view = v.view
      /\ u.from = v.from /\ u.tries = v.tries /\ pc \in {"sign", "lookup"}
      /\ pc = "sign" => Len(sig) # Len(Tokens)
      /\ pc = "lookup" => Len(sig) = Len(Tokens)
  BY <1>1, <1>6 DEF Calls, Waiting
<1>8. FileToken(Tokens[1]) = IF backend = "json" THEN pair ELSE active
  BY <1>1, FirstToken DEF World
<1> HIDE DEF u, pc, sig
<1>9. Signing(u)
  BY <1>4, <1>6, <1>7 DEF Signing, Waiting
<1>10. FromPair(u)
  BY <1>1, <1>2, <1>4, <1>6, <1>7, <1>8 DEF Knows, FromPair, JsonMine
<1>11. FromDatabase(u)
  BY <1>1, <1>2, <1>4, <1>6, <1>7, <1>8 DEF Knows, FromDatabase, DatabaseMine
<1>12. Local(u)
  BY <1>1, <1>7 DEF Knows, Local
<1> QED BY <1>2, <1>3, <1>7, <1>9, <1>10, <1>11, <1>12, LookKeeps DEF Knows

(* A hit is as fresh as its signature.                                     *)
LEMMA ResolvedKeeps ==
  ASSUME Counted, SnapshotInv, NEW c \in Callers, call[c].pc # "idle",
         NEW view \in View, Ours(view), Resolved(c, view),
         JsonMine /\ call[c].then.pair # 0 => PairOf(view, call[c].then.pair),
         DatabaseMine /\ Near(call[c].then.active) => view.db \in call[c].then.active..active,
         UNCHANGED <<config, bound, json, database, faults>>,
         DOMAIN cache' = {"sig", "view"}, cache'.view \in View, cache'.sig \in Seq(Entry),
         Cached(cache')
  PROVE  SnapshotInv'
<1> DEFINE u == [Quiet EXCEPT !.pc = "recheck", !.view = view, !.then = call[c].then]
<1>1. call[c].then \in Then /\ Knows(call[c])
  BY Facts
<1>2. /\ u \in Calls /\ u.pc = "recheck" /\ u.view = view /\ u.then = call[c].then /\ u.from = 0
  BY <1>1, QuietKnows DEF Calls, Quiet
<1>3. call' = [call EXCEPT ![c] = u]
  BY DEF Resolved
<1> HIDE DEF u
<1>4. Signing(u) /\ Local(u)
  BY <1>2 DEF Signing, Local, Waiting, Foreign, Counted
<1>5. FromPair(u) /\ FromDatabase(u)
  BY <1>1, <1>2 DEF Knows, FromPair, FromDatabase, Waiting
<1> QED BY <1>2, <1>3, <1>4, <1>5, CallerKeeps DEF Knows

LEMMA HitKeeps ==
  ASSUME Counted, SnapshotInv, NEW c \in Callers, call[c].pc \in Waiting, Hit(c),
         Resolved(c, cache.view), UNCHANGED <<config, bound, json, database, cache, faults>>
  PROVE  SnapshotInv'
<1>1. /\ Knows(call[c]) /\ Cached(cache) /\ cache.sig = call[c].sig /\ Len(call[c].sig) > 0
      /\ call[c].sig # <<>> /\ cache.view \in View /\ Ours(cache.view)
      /\ call[c].then.pair \in Nat /\ call[c].then.active \in Nat /\ pair \in Nat /\ active \in Nat
  <2>1. Len(call[c].sig) > 0 /\ call[c].sig \in Seq(Entry)
    BY Facts
  <2> QED BY <2>1, Facts DEF Hit, Cached, World, Shape
<1>2. JsonMine => call[c].sig[1] \in call[c].then.pair..pair
  BY <1>1 DEF Knows, FromPair
<1>3. DatabaseMine => call[c].sig[1] \in call[c].then.active..active
  BY <1>1 DEF Knows, FromDatabase
<1>4. JsonMine /\ call[c].then.pair # 0 => PairOf(cache.view, call[c].then.pair)
  BY <1>1, <1>2 DEF Cached, PairOf
<1>5. DatabaseMine /\ Near(call[c].then.active) => cache.view.db \in call[c].then.active..active
  BY <1>1, <1>3 DEF Cached, Near
<1>6. DOMAIN cache' = {"sig", "view"} /\ cache'.view \in View /\ cache'.sig \in Seq(Entry) /\ Cached(cache')
  BY Facts DEF World, Shape
<1> QED BY <1>1, <1>4, <1>5, <1>6, ResolvedKeeps DEF Waiting

-----------------------------------------------------------------------------
(* What a call that resolves a view has to show of its next step.          *)

LEMMA WaitKeeps ==
  ASSUME Counted, SnapshotInv, NEW c \in Callers, call[c].pc \in Waiting,
         NEW u \in Calls, call' = [call EXCEPT ![c] = u], u.pc \in Waiting,
         u.sig = call[c].sig, u.then = call[c].then,
         Ours(u.view), u.from = Foreign => "pair" \in bound,
         backend = "json" => u.pc \notin {"active", "previous", "open"},
         JsonMine /\ u.sig[1] # 0 =>
           /\ u.pc \in {"excel", "levels", "story", "store"} => u.from \in u.sig[1]..pair
           /\ u.pc \in {"levels", "story", "store"} => u.view.excel = u.from
           /\ u.pc \in {"story", "store"} => u.view.levels = u.from,
         DatabaseMine /\ Near(u.sig[1]) =>
           /\ u.pc \in {"previous", "open"} => u.tries # <<>> /\ Head(u.tries) \in u.sig[1]..active
           /\ u.pc \notin {"pair", "excel", "levels", "story"}
           /\ u.pc = "store" => u.view.db \in u.sig[1]..active,
         UNCHANGED <<config, bound, json, database, faults, cache>>
  PROVE  SnapshotInv'
<1> DEFINE v == call[c]
<1>1. Knows(v) /\ Len(v.sig) > 0 /\ v.pc \notin {"idle", "sign", "recheck", "done"}
      /\ u.pc \notin {"idle", "sign", "recheck", "done"}
  BY Facts DEF Waiting
<1>2. Signing(u)
  BY <1>1 DEF Knows, Signing
<1>3. FromPair(u)
  BY <1>1 DEF Knows, FromPair
<1>4. FromDatabase(u)
  BY <1>1 DEF Knows, FromDatabase
<1>5. Local(u)
  BY <1>1 DEF Local
<1> QED BY <1>2, <1>3, <1>4, <1>5, LookKeeps DEF Knows

LEMMA LookupKeeps == ASSUME Counted, SnapshotInv, NEW c \in Callers, Lookup(c) PROVE SnapshotInv'
<1>1. /\ call[c].pc = "lookup" /\ call[c].pc \in Waiting
      /\ UNCHANGED <<config, bound, json, database, cache, faults>>
  BY DEF Lookup, Waiting
<1>2. CASE Hit(c)
  BY <1>1, <1>2, HitKeeps DEF Lookup
<1>3. CASE ~Hit(c)
  <2> DEFINE u == [call[c] EXCEPT !.pc = "lock"]
  <2>1. call[c] \in Calls /\ Knows(call[c]) /\ World
    BY Facts
  <2>2. call' = [call EXCEPT ![c] = u]
    BY <1>3, <2>1 DEF Lookup, Goto, World, Shape
  <2>3. /\ u \in Calls /\ u.pc = "lock" /\ u.sig = call[c].sig /\ u.then = call[c].then
        /\ u.view = call[c].view /\ u.from = call[c].from
    BY <2>1 DEF Calls, Waiting
  <2> HIDE DEF u
  <2> QED BY <1>1, <2>1, <2>2, <2>3, WaitKeeps DEF Knows, Local, Waiting
<1> QED BY <1>2, <1>3

LEMMA LockKeeps == ASSUME Counted, SnapshotInv, NEW c \in Callers, Lock(c) PROVE SnapshotInv'
<1>1. /\ call[c].pc = "lock" /\ call[c].pc \in Waiting
      /\ UNCHANGED <<config, bound, json, database, cache, faults>>
  BY DEF Lock, Waiting
<1>2. CASE Hit(c)
  BY <1>1, <1>2, HitKeeps DEF Lock
<1>3. CASE ~Hit(c)
  <2> DEFINE pc == IF backend = "json" THEN "pair" ELSE "active"
             u == [call[c] EXCEPT !.pc = pc]
  <2>1. call[c] \in Calls /\ Knows(call[c]) /\ World
    BY Facts
  <2>2. call' = [call EXCEPT ![c] = u]
    BY <1>3, <2>1 DEF Lock, Goto, World, Shape
  <2>3. /\ u \in Calls /\ u.pc = pc /\ u.sig = call[c].sig /\ u.then = call[c].then
        /\ u.view = call[c].view /\ u.from = call[c].from
    BY <2>1 DEF Calls, Waiting
  <2>4. /\ pc \in {"pair", "active"} /\ (backend = "json" => pc = "pair")
        /\ (DatabaseMine => pc = "active")
    BY DEF DatabaseMine
  <2> HIDE DEF u, pc
  <2> QED BY <1>1, <2>1, <2>2, <2>3, <2>4, WaitKeeps DEF Knows, Local, Waiting
<1> QED BY <1>2, <1>3

(* The file that is active now is the first candidate.                     *)
LEMMA ReadActiveKeeps ==
  ASSUME Counted, SnapshotInv, NEW c \in Callers, ReadActive(c) PROVE SnapshotInv'
<1> DEFINE tries == IF active = 0 THEN <<>> ELSE <<active>>
           u == [call[c] EXCEPT !.pc = "previous", !.tries = tries]
<1>1. /\ call[c] \in Calls /\ Knows(call[c]) /\ World /\ active \in Content /\ active \in Nat
      /\ call[c].pc = "active" /\ call[c].pc \in Waiting /\ Len(call[c].sig) > 0
      /\ UNCHANGED <<config, bound, json, database, cache, faults>>
  BY Facts DEF ReadActive, Waiting
<1>2. call' = [call EXCEPT ![c] = u]
  BY <1>1 DEF ReadActive, World, Shape
<1>3. /\ tries \in Seq(Content)
      /\ active # 0 => tries # <<>> /\ Head(tries) = active
  BY <1>1
<1>4. /\ u \in Calls /\ u.pc = "previous" /\ u.tries = tries /\ u.sig = call[c].sig
      /\ u.then = call[c].then /\ u.view = call[c].view /\ u.from = call[c].from
  BY <1>1, <1>3 DEF Calls, Waiting
<1> HIDE DEF u, tries
<1>5. DatabaseMine /\ Near(u.sig[1]) => u.tries # <<>> /\ Head(u.tries) \in u.sig[1]..active
  <2>1. call[c].then.active \in Nat
    BY Facts
  <2>2. DatabaseMine => u.sig[1] \in call[c].then.active..active
    BY <1>1, <1>4 DEF Knows, FromDatabase
  <2> QED BY <1>1, <1>3, <1>4, <2>1, <2>2 DEF Near
<1>6. backend # "json"
  BY <1>1 DEF Knows, FromPair
<1> QED BY <1>1, <1>2, <1>4, <1>5, <1>6, WaitKeeps DEF Knows, Local, Waiting, JsonMine

LEMMA ReadPreviousKeeps ==
  ASSUME Counted, SnapshotInv, NEW c \in Callers, ReadPrevious(c) PROVE SnapshotInv'
<1> DEFINE v == call[c]
           second == IF previous = 0 THEN <<>> ELSE <<previous>>
           third == IF bundle = "database" THEN <<Bundle>> ELSE <<>>
           tries == v.tries \o second \o third
           u == [v EXCEPT !.pc = "open", !.tries = tries]
<1>1. /\ v \in Calls /\ Knows(v) /\ World /\ previous \in Content /\ Bundle \in Content
      /\ v.pc = "previous" /\ v.pc \in Waiting /\ v.tries \in Seq(Content)
      /\ UNCHANGED <<config, bound, json, database, cache, faults>>
  BY Facts DEF ReadPrevious, Waiting
<1>2. call' = [call EXCEPT ![c] = u]
  BY <1>1 DEF ReadPrevious, World, Shape
<1>3. /\ tries \in Seq(Content)
      /\ v.tries # <<>> => tries # <<>> /\ Head(tries) = Head(v.tries)
  <2>1. second \in Seq(Content) /\ third \in Seq(Content)
    BY <1>1
  <2> HIDE DEF second, third
  <2>2. second \o third \in Seq(Content)
    BY <2>1, ConcatProperties
  <2>3. v.tries \o second \in Seq(Content)
    BY <1>1, <2>1, ConcatProperties
  <2>4. PICK w : w = v.tries \o second
    OBVIOUS
  <2>5. tries \in Seq(Content)
    BY <2>1, <2>3, ConcatProperties
  <2>6. ASSUME v.tries # <<>> PROVE tries # <<>> /\ Head(tries) = Head(v.tries)
    <3>1. Len(v.tries) \in Nat /\ Len(v.tries) > 0
      BY <1>1, <2>6
    <3>2. Len(w) >= Len(v.tries) /\ w[1] = v.tries[1] /\ w \in Seq(Content)
      BY <1>1, <2>1, <2>3, <2>4, <3>1
    <3>3. tries = w \o third
      BY <2>4
    <3>4. Len(tries) > 0 /\ tries[1] = w[1]
      BY <2>1, <3>1, <3>2, <3>3
    <3> QED BY <2>5, <3>1, <3>2, <3>4
  <2> QED BY <2>5, <2>6
<1>4. /\ u \in Calls /\ u.pc = "open" /\ u.tries = tries /\ u.sig = v.sig
      /\ u.then = v.then /\ u.view = v.view /\ u.from = v.from
  BY <1>1, <1>3 DEF Calls, Waiting
<1> HIDE DEF u, tries
<1>5. DatabaseMine /\ Near(u.sig[1]) => u.tries # <<>> /\ Head(u.tries) \in u.sig[1]..active
  BY <1>1, <1>3, <1>4 DEF Knows, FromDatabase
<1>6. backend # "json"
  BY <1>1 DEF Knows, FromPair
<1> QED BY <1>1, <1>2, <1>4, <1>5, <1>6, WaitKeeps DEF Knows, Local, Waiting, JsonMine

(* A file that fails to open says nothing of the others.                   *)
LEMMA FaultKeeps ==
  ASSUME Counted, SnapshotInv, NEW c \in Callers, NEW tries \in Seq(Content),
         call' = [call EXCEPT ![c].tries = tries], faults < MaxFaults, faults' = faults + 1,
         UNCHANGED <<config, bound, json, database, cache>>
  PROVE  SnapshotInv'
<1>1. /\ UNCHANGED <<backend, bundle, bound, pair, excel, levels, story, active, previous, files, writing>>
      /\ World /\ faults \in 0..MaxFaults /\ MaxFaults \in Nat /\ cache' = cache
  BY DEF config, json, database, Counted, SnapshotInv, World, Shape
<1>2. faults' \in 0..MaxFaults /\ faults' # 0 /\ ~DatabaseMine' /\ (JsonMine' <=> JsonMine)
  BY <1>1 DEF DatabaseMine, JsonMine
<1>3. call' \in [Callers -> Calls]
  BY <1>1 DEF World, Shape, Calls
<1>4. World'
  BY <1>1, <1>2, <1>3 DEF World, Shape, PairWorld, StoryWorld, DatabaseWorld
<1>5. Cached(cache)'
  <2>1. PICK entry : entry = cache /\ entry = cache' /\ Cached(entry)
    BY <1>1 DEF SnapshotInv
  <2> QED BY <1>1, <1>2, <2>1 DEF Cached, Ours, PairOf
<1>6. ASSUME NEW d \in Callers PROVE Knows(call[d])'
  <2>1. PICK v \in Calls : v = call[d] /\ Knows(v)
    BY DEF SnapshotInv, World, Shape
  <2>2. PICK w \in Calls : w = call'[d]
    BY <1>3
  <2>3. w.pc = v.pc /\ w.sig = v.sig /\ w.from = v.from /\ w.view = v.view /\ w.then = v.then
    BY <1>1, <2>1, <2>2 DEF World, Shape, Calls
  <2>4. Signing(w)' /\ Local(w)'
    BY <1>1, <2>1, <2>3 DEF Knows, Signing, Local, Ours, Tokens
  <2>5. FromPair(w)'
    BY <1>1, <1>2, <2>1, <2>3 DEF Knows, FromPair, PairOf
  <2>6. FromDatabase(w)'
    BY <1>2 DEF FromDatabase
  <2> QED BY <2>2, <2>4, <2>5, <2>6 DEF Knows
<1> QED BY <1>4, <1>5, <1>6 DEF SnapshotInv

(* What is not older than the signature has not been removed: at most one  *)
(* more has been activated, and both are kept.                             *)
LEMMA OpenKeeps == ASSUME Counted, SnapshotInv, NEW c \in Callers, Open(c) PROVE SnapshotInv'
<1> DEFINE v == call[c]
           g == Head(v.tries)
           rest == Tail(v.tries)
<1>1. /\ v \in Calls /\ Knows(v) /\ World /\ v.tries \in Seq(Content) /\ v.sig \in Seq(Entry)
      /\ v.pc = "open" /\ v.pc \in Waiting /\ Len(v.sig) > 0 /\ v.tries # <<>>
      /\ files \subseteq Content /\ v.then.active \in Nat /\ active \in Nat
      /\ MaxGeneration \in Nat /\ Content = 0..MaxGeneration + 2
      /\ Foreign = MaxGeneration + 1 /\ Bundle = MaxGeneration + 2
      /\ UNCHANGED <<config, bound, json, database, cache>>
  <2>1. /\ v.pc = "open" /\ v.tries # <<>> /\ UNCHANGED <<config, bound, json, database, cache>>
    BY DEF Open
  <2> QED BY <2>1, Facts, SMTT(30) DEF Waiting
<1>2. g \in Content /\ rest \in Seq(Content)
  <2>1. v.tries \in Seq(Content) /\ v.tries # <<>>
    BY <1>1
  <2> QED BY <2>1
<1>3. backend # "json"
  BY <1>1 DEF Knows, FromPair
<1>4. /\ DatabaseMine => v.sig[1] \in v.then.active..active
      /\ DatabaseMine /\ Near(v.sig[1]) => g \in v.sig[1]..active
  BY <1>1 DEF Knows, FromDatabase
<1> HIDE DEF g, rest
<1>5. ASSUME g \in files \cup {Bundle}, Set(c, "store", [NoView EXCEPT !.db = g]), UNCHANGED faults
      PROVE  SnapshotInv'
  <2> DEFINE view == [NoView EXCEPT !.db = g]
             u == [v EXCEPT !.pc = "store", !.view = view]
  <2>1. call' = [call EXCEPT ![c] = u]
    BY <1>1, <1>5 DEF Set, World, Shape
  <2>2. /\ view \in View /\ view.db = g /\ view.excel = 0 /\ view.levels = 0 /\ view.story = 0
    <3>1. 0 \in Content
      BY <1>1
    <3> QED BY <1>2, <3>1 DEF View, NoView
  <2>3. /\ u \in Calls /\ u.pc = "store" /\ u.view = view /\ u.sig = v.sig /\ u.then = v.then
        /\ u.from = v.from
    BY <1>1, <2>2 DEF Calls, Waiting
  <2> HIDE DEF u, view
  <2>4. "database" \notin bound => g # Foreign
    BY <1>1, <1>5 DEF World, DatabaseWorld
  <2>5. Ours(u.view)
    BY <1>1, <1>3, <2>2, <2>3, <2>4 DEF Ours
  <2> QED BY <1>1, <1>3, <1>4, <1>5, <2>1, <2>2, <2>3, <2>5, WaitKeeps DEF Knows, Local, Waiting, JsonMine
<1>6. ASSUME g \notin files \cup {Bundle}, call' = [call EXCEPT ![c].tries = rest], UNCHANGED faults
      PROVE  SnapshotInv'
  <2> DEFINE u == [v EXCEPT !.tries = rest]
  <2>1. call' = [call EXCEPT ![c] = u]
    BY <1>1, <1>6 DEF World, Shape
  <2>2. /\ u \in Calls /\ u.pc = "open" /\ u.view = v.view /\ u.sig = v.sig /\ u.then = v.then
        /\ u.from = v.from
    BY <1>1, <1>2 DEF Calls
  <2> HIDE DEF u
  <2>3. ~(DatabaseMine /\ Near(v.sig[1]))
    <3> SUFFICES ASSUME DatabaseMine, Near(v.sig[1]) PROVE FALSE
      OBVIOUS
    <3>1. v.sig[1] \in Nat /\ v.sig[1] # 0 /\ active < v.sig[1] + 2 /\ g \in v.sig[1]..active
      BY <1>1, <1>4 DEF Near
    <3>2. g \in {active, active - 1} /\ g >= 1
      BY <1>1, <3>1, SMTT(30)
    <3>3. g \in files
      BY <1>1, <3>2 DEF World, DatabaseWorld, DatabaseMine
    <3> QED BY <1>6, <3>3
  <2> QED BY <1>1, <1>3, <1>6, <2>1, <2>2, <2>3, WaitKeeps DEF Knows, Local, Waiting, JsonMine
<1>7. ASSUME faults < MaxFaults, faults' = faults + 1, call' = [call EXCEPT ![c].tries = rest]
      PROVE  SnapshotInv'
  BY <1>1, <1>2, <1>7, FaultKeeps
<1> QED BY <1>5, <1>6, <1>7 DEF Open, g, rest

(* Without a candidate the active database cannot be near.                 *)
LEMMA FallbackKeeps ==
  ASSUME Counted, SnapshotInv, NEW c \in Callers, Fallback(c) PROVE SnapshotInv'
<1> DEFINE v == call[c]
           pc == IF backend = "default" THEN "pair" ELSE "store"
           u == [v EXCEPT !.pc = pc]
<1>1. /\ v \in Calls /\ Knows(v) /\ World /\ v.pc = "open" /\ v.pc \in Waiting /\ v.tries = <<>>
      /\ UNCHANGED <<config, bound, json, database, cache, faults>>
  BY Facts DEF Fallback, Waiting
<1>2. call' = [call EXCEPT ![c] = u]
  BY <1>1 DEF Fallback, Goto, World, Shape
<1>3. /\ u \in Calls /\ u.pc = pc /\ u.view = v.view /\ u.sig = v.sig /\ u.then = v.then
      /\ u.from = v.from /\ pc \in {"pair", "store"}
  BY <1>1 DEF Calls, Waiting
<1> HIDE DEF u, pc
<1>4. backend # "json" /\ ~(DatabaseMine /\ Near(u.sig[1]))
  BY <1>1, <1>3 DEF Knows, FromPair, FromDatabase
<1> QED BY <1>1, <1>2, <1>3, <1>4, WaitKeeps DEF Knows, Local, Waiting, JsonMine

(* The pair that is read now is not older than the signature.              *)
LEMMA ReadPairKeeps ==
  ASSUME Counted, SnapshotInv, NEW c \in Callers, ReadPair(c) PROVE SnapshotInv'
<1> DEFINE v == call[c]
           u == [v EXCEPT !.pc = "excel", !.from = pair]
<1>1. /\ v \in Calls /\ Knows(v) /\ World /\ v.pc = "pair" /\ v.pc \in Waiting /\ Len(v.sig) > 0
      /\ pair \in Content /\ pair \in Nat /\ v.then.pair \in Nat /\ MaxGeneration \in Nat
      /\ levels \in Nat /\ excel \in Nat /\ Foreign = MaxGeneration + 1
      /\ UNCHANGED <<config, bound, json, database, cache, faults>>
  BY Facts DEF ReadPair, Waiting
<1>2. call' = [call EXCEPT ![c] = u]
  BY <1>1 DEF ReadPair, World, Shape
<1>3. /\ u \in Calls /\ u.pc = "excel" /\ u.view = v.view /\ u.sig = v.sig /\ u.then = v.then
      /\ u.from = pair
  BY <1>1 DEF Calls, Waiting
<1> HIDE DEF u
<1>4. JsonMine => u.from \in u.sig[1]..pair
  BY <1>1, <1>3 DEF Knows, FromPair, Waiting
<1>5. u.from = Foreign => "pair" \in bound
  BY <1>1, <1>3 DEF World, PairWorld
<1>6. ~(DatabaseMine /\ Near(u.sig[1]))
  BY <1>1, <1>3 DEF Knows, FromDatabase
<1>7. Ours(u.view)
  BY <1>1, <1>3 DEF Knows, Local
<1> QED BY <1>1, <1>2, <1>3, <1>4, <1>5, <1>6, <1>7, WaitKeeps DEF Waiting

(* Each of the two roots is of the pair that was read, if there is one.    *)
LEMMA RootIsOurs ==
  ASSUME Counted, SnapshotInv, NEW c \in Callers, call[c].pc \in Waiting,
         NEW meta \in {excel, levels}, NEW g, g = Or(Root(c, meta))
  PROVE  /\ g \in Content /\ g # Foreign
         /\ call[c].from # 0 /\ "pair" \notin bound => g = call[c].from
<1>1. /\ MaxGeneration \in Nat /\ Content = 0..MaxGeneration + 2 /\ Foreign = MaxGeneration + 1
      /\ Bundle = MaxGeneration + 2 /\ meta \in Content /\ call[c].from \in Content
      /\ (call[c].from = Foreign => "pair" \in bound) /\ excel \in Nat /\ levels \in Nat
      /\ World
  BY Facts DEF Knows, Local
<1>2. "pair" \notin bound => meta # Foreign
  BY <1>1 DEF World, PairWorld
<1> QED BY <1>1, <1>2 DEF Or, Root

LEMMA ReadExcelKeeps ==
  ASSUME Counted, SnapshotInv, NEW c \in Callers, ReadExcel(c) PROVE SnapshotInv'
<1> DEFINE v == call[c]
<1>1. PICK g : g = Or(Root(c, excel))
  OBVIOUS
<1> DEFINE view == [NoView EXCEPT !.excel = g]
           u == [v EXCEPT !.pc = "levels", !.view = view]
<1>2. /\ v \in Calls /\ Knows(v) /\ World /\ v.pc = "excel" /\ v.pc \in Waiting /\ Len(v.sig) > 0
      /\ 0 \in Content /\ 0 # Foreign /\ v.then.pair \in Nat /\ pair \in Nat
      /\ UNCHANGED <<config, bound, json, database, cache, faults>>
  BY Facts DEF ReadExcel, Waiting
<1>3. /\ g \in Content /\ g # Foreign /\ (v.from # 0 /\ "pair" \notin bound => g = v.from)
  BY <1>1, <1>2, RootIsOurs
<1>4. call' = [call EXCEPT ![c] = u]
  BY <1>1, <1>2 DEF ReadExcel, Set, World, Shape
<1>5. /\ view \in View /\ view.excel = g /\ view.db = 0 /\ view.levels = 0 /\ view.story = 0
  BY <1>2, <1>3 DEF View, NoView
<1>6. /\ u \in Calls /\ u.pc = "levels" /\ u.view = view /\ u.sig = v.sig /\ u.then = v.then
      /\ u.from = v.from
  BY <1>2, <1>5 DEF Calls, Waiting
<1> HIDE DEF u, view
<1>7. Ours(u.view)
  BY <1>2, <1>3, <1>5, <1>6 DEF Ours
<1>8. JsonMine /\ u.sig[1] # 0 => u.from \in u.sig[1]..pair /\ u.view.excel = u.from
  <2> SUFFICES ASSUME JsonMine, u.sig[1] # 0 PROVE u.from \in u.sig[1]..pair /\ u.view.excel = u.from
    OBVIOUS
  <2>1. v.from \in v.sig[1]..pair /\ v.sig[1] \in v.then.pair..pair
    BY <1>2, <1>6 DEF Knows, FromPair, Waiting
  <2>2. v.from # 0
    BY <1>2, <1>6, <2>1
  <2> QED BY <1>3, <1>5, <1>6, <2>1, <2>2 DEF JsonMine
<1>9. ~(DatabaseMine /\ Near(u.sig[1]))
  BY <1>2, <1>6 DEF Knows, FromDatabase
<1> QED BY <1>2, <1>4, <1>6, <1>7, <1>8, <1>9, WaitKeeps DEF Knows, Local, Waiting

LEMMA ReadLevelsKeeps ==
  ASSUME Counted, SnapshotInv, NEW c \in Callers, ReadLevels(c) PROVE SnapshotInv'
<1> DEFINE v == call[c]
<1>1. PICK g : g = Or(Root(c, levels))
  OBVIOUS
<1> DEFINE view == [v.view EXCEPT !.levels = g]
           u == [v EXCEPT !.pc = "story", !.view = view]
<1>2. /\ v \in Calls /\ Knows(v) /\ World /\ v.pc = "levels" /\ v.pc \in Waiting /\ Len(v.sig) > 0
      /\ v.view \in View /\ v.then.pair \in Nat /\ pair \in Nat
      /\ UNCHANGED <<config, bound, json, database, cache, faults>>
  BY Facts DEF ReadLevels, Waiting
<1>3. /\ g \in Content /\ g # Foreign /\ (v.from # 0 /\ "pair" \notin bound => g = v.from)
  BY <1>1, <1>2, RootIsOurs
<1>4. call' = [call EXCEPT ![c] = u]
  BY <1>1, <1>2 DEF ReadLevels, Set, World, Shape
<1>5. /\ view \in View /\ view.levels = g /\ view.excel = v.view.excel /\ view.db = v.view.db
      /\ view.story = v.view.story
  BY <1>2, <1>3 DEF View
<1>6. /\ u \in Calls /\ u.pc = "story" /\ u.view = view /\ u.sig = v.sig /\ u.then = v.then
      /\ u.from = v.from
  BY <1>2, <1>5 DEF Calls, Waiting
<1> HIDE DEF u, view
<1>7. Ours(u.view)
  BY <1>2, <1>3, <1>5, <1>6 DEF Knows, Local, Ours
<1>8. JsonMine /\ u.sig[1] # 0 =>
        u.from \in u.sig[1]..pair /\ u.view.excel = u.from /\ u.view.levels = u.from
  <2> SUFFICES ASSUME JsonMine, u.sig[1] # 0
               PROVE  u.from \in u.sig[1]..pair /\ u.view.excel = u.from /\ u.view.levels = u.from
    OBVIOUS
  <2>1. v.from \in v.sig[1]..pair /\ v.sig[1] \in v.then.pair..pair /\ v.view.excel = v.from
    BY <1>2, <1>6 DEF Knows, FromPair, Waiting
  <2>2. v.from # 0
    BY <1>2, <1>6, <2>1
  <2> QED BY <1>3, <1>5, <1>6, <2>1, <2>2 DEF JsonMine
<1>9. ~(DatabaseMine /\ Near(u.sig[1]))
  BY <1>2, <1>6 DEF Knows, FromDatabase
<1> QED BY <1>2, <1>4, <1>6, <1>7, <1>8, <1>9, WaitKeeps DEF Knows, Local, Waiting

LEMMA ReadStoryKeeps ==
  ASSUME Counted, SnapshotInv, NEW c \in Callers, ReadStory(c) PROVE SnapshotInv'
<1> DEFINE v == call[c]
<1>1. PICK g : g = Or(IF "story" \in bound THEN 0 ELSE story)
  OBVIOUS
<1> DEFINE view == [v.view EXCEPT !.story = g]
           u == [v EXCEPT !.pc = "store", !.view = view]
<1>2. /\ v \in Calls /\ Knows(v) /\ World /\ v.pc = "story" /\ v.pc \in Waiting /\ Len(v.sig) > 0
      /\ v.view \in View /\ story \in Content /\ MaxGeneration \in Nat
      /\ Content = 0..MaxGeneration + 2 /\ Foreign = MaxGeneration + 1 /\ Bundle = MaxGeneration + 2
      /\ UNCHANGED <<config, bound, json, database, cache, faults>>
  BY Facts DEF ReadStory, Waiting
<1>3. g \in Content /\ g # Foreign
  <2>1. "story" \notin bound => story # Foreign
    BY <1>2 DEF World, StoryWorld
  <2>2. g \in {0, story, Bundle} /\ (g = story => g \in {0, Bundle} \/ "story" \notin bound)
    BY <1>1 DEF Or
  <2>3. 0 # Foreign /\ Bundle # Foreign /\ 0 \in Content /\ Bundle \in Content /\ story \in Content
    BY <1>2
  <2> QED BY <2>1, <2>2, <2>3
<1>4. call' = [call EXCEPT ![c] = u]
  BY <1>1, <1>2 DEF ReadStory, Set, World, Shape
<1>5. /\ view \in View /\ view.story = g /\ view.excel = v.view.excel /\ view.db = v.view.db
      /\ view.levels = v.view.levels
  BY <1>2, <1>3 DEF View
<1>6. /\ u \in Calls /\ u.pc = "store" /\ u.view = view /\ u.sig = v.sig /\ u.then = v.then
      /\ u.from = v.from
  BY <1>2, <1>5 DEF Calls, Waiting
<1> HIDE DEF u, view
<1>7. Ours(u.view)
  BY <1>2, <1>3, <1>5, <1>6 DEF Knows, Local, Ours
<1>8. JsonMine /\ u.sig[1] # 0 =>
        u.from \in u.sig[1]..pair /\ u.view.excel = u.from /\ u.view.levels = u.from
  BY <1>2, <1>5, <1>6 DEF Knows, FromPair, Waiting
<1>9. ~(DatabaseMine /\ Near(u.sig[1]))
  BY <1>2, <1>6 DEF Knows, FromDatabase
<1> QED BY <1>2, <1>4, <1>6, <1>7, <1>8, <1>9, WaitKeeps DEF Knows, Local, Waiting

(* What is stored was resolved after its signature was read.               *)
LEMMA StoreKeeps == ASSUME Counted, SnapshotInv, NEW c \in Callers, Store(c) PROVE SnapshotInv'
<1> DEFINE v == call[c]
<1>1. /\ v.pc = "store" /\ cache' = [sig |-> v.sig, view |-> v.view] /\ Resolved(c, v.view)
      /\ UNCHANGED <<config, bound, json, database, faults>>
  BY DEF Store
<1>2. /\ Knows(v) /\ Len(v.sig) > 0 /\ v.sig \in Seq(Entry) /\ v.view \in View /\ Ours(v.view)
      /\ v.then.pair \in Nat /\ v.then.active \in Nat /\ pair \in Nat /\ active \in Nat
  BY <1>1, Facts DEF Knows, Local, Waiting
<1>3. JsonMine => /\ v.sig[1] \in v.then.pair..pair
                  /\ v.sig[1] # 0 => PairOf(v.view, v.sig[1])
  BY <1>1, <1>2 DEF Knows, FromPair, PairOf, Waiting
<1>4. DatabaseMine => /\ v.sig[1] \in v.then.active..active
                      /\ Near(v.sig[1]) => v.view.db \in v.sig[1]..active
  BY <1>1, <1>2 DEF Knows, FromDatabase, Waiting
<1>5. Cached(cache')
  <2>1. PICK entry : entry = cache' /\ entry.sig = v.sig /\ entry.view = v.view
    BY <1>1
  <2>2. Ours(entry.view)
    BY <1>2, <2>1
  <2>3. JsonMine => /\ entry.sig[1] \in 0..pair
                    /\ entry.sig[1] # 0 => PairOf(entry.view, entry.sig[1])
    BY <1>2, <1>3, <2>1
  <2>4. DatabaseMine => /\ entry.sig[1] \in 0..active
                        /\ Near(entry.sig[1]) => entry.view.db \in entry.sig[1]..active
    BY <1>2, <1>4, <2>1
  <2> QED BY <2>1, <2>2, <2>3, <2>4 DEF Cached
<1>6. JsonMine /\ v.then.pair # 0 => PairOf(v.view, v.then.pair)
  BY <1>2, <1>3 DEF PairOf
<1>7. DatabaseMine /\ Near(v.then.active) => v.view.db \in v.then.active..active
  BY <1>2, <1>4, SMTT(30) DEF Near
<1> QED BY <1>1, <1>2, <1>5, <1>6, <1>7, ResolvedKeeps

(* What belongs to another source by now is not handed out.                *)
LEMMA RecheckKeeps == ASSUME Counted, SnapshotInv, NEW c \in Callers, Recheck(c) PROVE SnapshotInv'
<1> DEFINE v == call[c]
<1>1. /\ v.pc = "recheck" /\ v \in Calls /\ Knows(v) /\ World
      /\ UNCHANGED <<config, bound, json, database, faults>>
  BY Facts DEF Recheck
<1>2. ASSUME Owned, Goto(c, "done"), UNCHANGED cache PROVE SnapshotInv'
  <2> DEFINE u == [v EXCEPT !.pc = "done"]
  <2>1. call' = [call EXCEPT ![c] = u]
    BY <1>1, <1>2 DEF Goto, World, Shape
  <2>2. /\ u \in Calls /\ u.pc = "done" /\ u.view = v.view /\ u.then = v.then /\ u.from = v.from
    BY <1>1 DEF Calls
  <2> HIDE DEF u
  <2>3. Signing(u) /\ FromPair(u)
    BY <1>1, <2>2 DEF Knows, Signing, FromPair, Waiting
  <2>4. FromDatabase(u)
    BY <1>1, <2>2 DEF Knows, FromDatabase, Waiting
  <2>5. Local(u)
    BY <1>1, <1>2, <2>2, OwnedIsMine DEF Knows, Local, Ours
  <2> QED BY <1>1, <1>2, <2>1, <2>2, <2>3, <2>4, <2>5, LookKeeps DEF Knows
<1>3. ASSUME ~Owned, cache' = NoCache, Set(c, "done", NoView) PROVE SnapshotInv'
  <2> DEFINE u == [v EXCEPT !.pc = "done", !.view = NoView]
  <2>1. call' = [call EXCEPT ![c] = u]
    BY <1>1, <1>3 DEF Set, World, Shape
  <2>2. /\ u \in Calls /\ u.pc = "done" /\ u.view = NoView /\ u.then = v.then /\ u.from = v.from
    BY <1>1, QuietKnows DEF Calls
  <2> HIDE DEF u
  <2>3. ~JsonMine /\ ~DatabaseMine
    BY <1>3, OwnedIsMine DEF JsonMine, DatabaseMine
  <2>4. Signing(u) /\ FromPair(u) /\ FromDatabase(u)
    BY <2>2, <2>3 DEF Signing, FromPair, FromDatabase, Waiting
  <2>5. Local(u)
    BY <1>1, <2>2 DEF Knows, Local, Ours, NoView, Foreign, Counted
  <2>6. DOMAIN cache' = {"sig", "view"} /\ cache'.view \in View /\ cache'.sig \in Seq(Entry)
    <3>1. NoCache = [sig |-> <<>>, view |-> NoView] /\ <<>> \in Seq(Entry)
      BY DEF NoCache
    <3> QED BY <1>3, <3>1, QuietKnows
  <2> QED BY <1>1, <1>3, <2>1, <2>2, <2>4, <2>5, <2>6, NoCacheHolds, CallerKeeps DEF Knows
<1> QED BY <1>2, <1>3 DEF Recheck

LEMMA ReturnKeeps == ASSUME Counted, SnapshotInv, NEW c \in Callers, Return(c) PROVE SnapshotInv'
BY QuietKnows, LookKeeps DEF Return

LEMMA SnapshotStep == ASSUME Counted PROVE SnapshotInv /\ [Next]_vars => SnapshotInv'
<1> SUFFICES ASSUME SnapshotInv, [Next]_vars PROVE SnapshotInv'
  OBVIOUS
<1>1. ASSUME NEW c \in Callers, Snapshot(c) PROVE SnapshotInv'
  BY <1>1, CallKeeps, SignKeeps, LookupKeeps, LockKeeps, ReadActiveKeeps, ReadPreviousKeeps,
     OpenKeeps, FallbackKeeps, ReadPairKeeps, ReadExcelKeeps, ReadLevelsKeeps, ReadStoryKeeps,
     StoreKeeps, RecheckKeeps, ReturnKeeps DEF Snapshot
<1>2. CASE Publish
  BY <1>2, PublishKeeps
<1>3. CASE UNCHANGED vars
  <2>1. /\ UNCHANGED <<config, cache, call, faults>> /\ bound' = bound
        /\ UNCHANGED <<pair, excel, levels, story, active, previous, files, writing>>
    BY <1>3 DEF vars, json, database
  <2>2. World'
    BY <2>1 DEF SnapshotInv, World, Shape, PairWorld, StoryWorld, DatabaseWorld, config
  <2>3. pair <= pair' /\ active <= active'
    BY <2>1 DEF SnapshotInv, World, Shape, Content, Bundle, Counted
  <2> QED BY <2>1, <2>2, <2>3, MoveKeeps
<1> QED BY <1>1, <1>2, <1>3 DEF Next

(* What a call has signed and resolved stays no older than what was there  *)
(* when it began, whatever the synchronizers (app.rs) publish meanwhile.   *)
THEOREM SnapshotAlways == ASSUME Counted PROVE Spec => []SnapshotInv
BY SnapshotInit, SnapshotStep, PTL DEF Spec

-----------------------------------------------------------------------------
(* What a call is served (app.rs, app/json.rs).                            *)

(* Data of another source is never served, whenever it took the directory: *)
(* snapshot looks again after it resolved and cached the view.             *)
THEOREM NothingForeignServed == ASSUME Counted PROVE Spec => []NothingForeign
<1>1. SnapshotInv => NothingForeign
  BY DEF SnapshotInv, Knows, Local, Ours, NothingForeign, Answered
<1> QED BY <1>1, SnapshotAlways, PTL

(* A call that began after a pair was activated is served both archives of *)
(* that pair, or of one later pair: activation_signature is read before    *)
(* the view, and resolve_view reads the pair record once for both roots.   *)
THEOREM PairsAreFresh == ASSUME Counted PROVE Spec => []PairIsFresh
<1>1. SnapshotInv => PairIsFresh
  <2> SUFFICES ASSUME SnapshotInv, NEW c \in Callers, Answered(c), backend = "json",
                      call[c].then.pair # 0, Unbound("pair"), Unbound("story")
               PROVE  /\ call[c].view.excel = call[c].view.levels
                      /\ call[c].view.excel \in call[c].then.pair .. MaxGeneration
    BY DEF PairIsFresh
  <2>1. JsonMine /\ FromPair(call[c]) /\ call[c].pc = "done"
    BY DEF JsonMine, Unbound, Answered, SnapshotInv, Knows
  <2>2. PairOf(call[c].view, call[c].then.pair)
    BY <2>1 DEF FromPair
  <2>3. pair <= MaxGeneration /\ pair \in Nat
    BY DEF SnapshotInv, World, Shape, PairWorld, Unbound, Content, Bundle, Counted
  <2>4. call[c].then.pair \in Nat
    BY DEF SnapshotInv, World, Shape, Calls, Then, Content, Bundle, Counted
  <2> QED BY <2>2, <2>3, <2>4 DEF PairOf, Counted
<1> QED BY <1>1, SnapshotAlways, PTL

(* A call that began after a database was activated is served by it or by  *)
(* a later one, unless two more were activated meanwhile: candidates and   *)
(* resolve_database_view, against the retention of the synchronizer.       *)
THEOREM DatabasesAreFresh == ASSUME Counted PROVE Spec => []DatabaseIsFresh
<1>1. SnapshotInv => DatabaseIsFresh
  <2> SUFFICES ASSUME SnapshotInv, NEW c \in Callers, Answered(c), backend # "json",
                      call[c].then.active # 0, Unbound("database"), faults = 0,
                      active < call[c].then.active + 2
               PROVE  call[c].view.db \in call[c].then.active .. MaxGeneration
    BY DEF DatabaseIsFresh
  <2>1. DatabaseMine /\ FromDatabase(call[c]) /\ call[c].pc = "done" /\ Near(call[c].then.active)
    BY DEF DatabaseMine, Unbound, Answered, SnapshotInv, Knows, Near
  <2>2. call[c].view.db \in call[c].then.active..active
    BY <2>1 DEF FromDatabase
  <2>3. active <= MaxGeneration /\ active \in Nat
    BY DEF SnapshotInv, World, Shape, DatabaseWorld, Unbound, Content, Bundle, Counted
  <2>4. call[c].then.active \in Nat
    BY DEF SnapshotInv, World, Shape, Calls, Then, Content, Bundle, Counted
  <2> QED BY <2>2, <2>3, <2>4 DEF Counted
<1> QED BY <1>1, SnapshotAlways, PTL

(* As long as the files have the signature of the cached view, the view is *)
(* what they name: a view resolved too early is not found again.           *)
THEOREM CacheIsTrue == ASSUME Counted PROVE Spec => []CacheTellsTheFiles
<1>1. SnapshotInv => CacheTellsTheFiles
  <2> DEFINE now == [k \in 1..Len(Tokens) |-> FileToken(Tokens[k])]
  <2> SUFFICES ASSUME SnapshotInv, cache.sig = now, faults = 0, bound = {}
               PROVE  /\ backend # "json" /\ active # 0 => cache.view.db = active
                      /\ backend = "json" /\ pair # 0 =>
                           cache.view.excel = pair /\ cache.view.levels = pair
    BY DEF CacheTellsTheFiles
  <2>1. Len(Tokens) \in {3, 6} /\ FileToken(Tokens[1]) = (IF backend = "json" THEN pair ELSE active)
    BY FirstToken DEF SnapshotInv, World
  <2>2. now[1] = FileToken(Tokens[1]) /\ now # <<>>
    BY <2>1
  <2>3. cache.sig # <<>> /\ cache.sig[1] = (IF backend = "json" THEN pair ELSE active)
    BY <2>1, <2>2
  <2>4. active \in Nat /\ pair \in Nat /\ Cached(cache)
    BY DEF SnapshotInv, World, Shape, Content, Bundle, Counted
  <2> HIDE DEF now
  <2>5. ASSUME backend # "json", active # 0 PROVE cache.view.db = active
    <3>1. DatabaseMine /\ Near(active)
      BY <2>4, <2>5 DEF DatabaseMine, Near
    <3> QED BY <2>3, <2>4, <2>5, <3>1 DEF Cached
  <2>6. ASSUME backend = "json", pair # 0 PROVE cache.view.excel = pair /\ cache.view.levels = pair
    <3>1. JsonMine
      BY <2>6 DEF JsonMine
    <3> QED BY <2>3, <2>4, <2>6, <3>1 DEF Cached, PairOf
  <2> QED BY <2>5, <2>6
<1> QED BY <1>1, SnapshotAlways, PTL
=============================================================================
