----------------------------- MODULE DataState -----------------------------
(***************************************************************************)
(* The snapshot cache (app.rs, app/json.rs): a query takes one view of the *)
(* data for its whole call.  The view is resolved from pointer files that  *)
(* synchronizers, possibly of other processes, replace at any moment, and  *)
(* is cached under a signature of those files.  The signature is read      *)
(* file by file, and before the lock under which the view is resolved.     *)
(*                                                                         *)
(* A directory that was empty may be bound by a process of another source, *)
(* which then fills it: its data must never be served here.                *)
(*                                                                         *)
(* A generation is a number; a file is the generation it names, and its    *)
(* identity (path_token) is that number too, since a replacement is always *)
(* a new inode.                                                            *)
(***************************************************************************)
EXTENDS Integers, Sequences, FiniteSets

CONSTANTS
  Callers,         \* concurrent tool calls
  Backends,        \* subset of {"json", "sqlite", "default"}
  Bundles,         \* subset of {"none", "json", "database"}
  MaxGeneration,   \* bound of the model: generations published per data set
  Units,           \* data sets that move in this instance
  Bindable,        \* those another source may bind
  MaxFaults        \* bound of the model: database files that fail to open

Foreign == MaxGeneration + 1   \* whatever the other source publishes
Bundle == MaxGeneration + 2    \* read-only data of the installation
Content == 0..Bundle           \* 0: absent

VARIABLES
  backend, bundle,             \* the configuration of this process
  bound,                       \* the units that belong to another source
  pair, excel, levels, story,  \* pair record, two extract records, the archive
  active, previous, files,     \* database pointers, and the files there are
  writing,                     \* where the database synchronizer is
  cache, writer,               \* the cached view and who holds its write lock
  call,                        \* per caller: where it is, and what it works with
  faults

config == <<backend, bundle>>
json == <<pair, excel, levels, story>>
database == <<active, previous, files, writing>>
vars == <<config, bound, json, database, cache, writer, call, faults>>

NoView == [db |-> 0, excel |-> 0, levels |-> 0, story |-> 0]
View == [db : Content, excel : Content, levels : Content, story : Content]
Token == {"active", "previous", "paths", "pair", "excel", "levels"}
NoCache == [sig |-> <<>>, view |-> NoView]
\* What held when the call began (for the properties).
Then == [pair : Content, story : Content, active : Content, faults : 0..MaxFaults]
NoThen == [pair |-> 0, story |-> 0, active |-> 0, faults |-> 0]
Quiet == [pc |-> "idle", sig |-> <<>>, tries |-> <<>>, from |-> 0, view |-> NoView,
          then |-> NoThen]

Tokens == IF backend = "json" THEN <<"pair", "excel", "levels">>
          ELSE IF backend = "sqlite" THEN <<"active", "previous", "paths">>
          ELSE <<"active", "previous", "paths", "pair", "excel", "levels">>

TypeOK ==
  /\ backend \in Backends /\ bundle \in Bundles
  /\ bound \subseteq Bindable
  /\ {pair, excel, levels, story, active, previous} \subseteq Content
  /\ files \subseteq Content
  /\ writing \in {"idle", "previous", "active", "prune"}
  /\ cache.view \in View /\ Len(cache.sig) \in {0, Len(Tokens)}
  /\ writer \subseteq Callers
  /\ \A c \in Callers :
       /\ call[c].pc \in {"idle", "sign", "lookup", "lock", "active", "previous", "open", "pair",
                          "excel", "levels", "story", "store", "recheck", "done"}
       /\ call[c].view \in View
       /\ call[c].then \in Then
       /\ Len(call[c].sig) <= Len(Tokens) /\ Len(call[c].tries) <= 3
       /\ call[c].from \in Content
  /\ faults \in 0..MaxFaults

Init ==
  /\ backend \in Backends /\ bundle \in Bundles
  /\ bound = {}
  /\ pair = 0 /\ excel = 0 /\ levels = 0 /\ story = 0
  /\ active = 0 /\ previous = 0 /\ files = {} /\ writing = "idle"
  /\ cache = NoCache /\ writer = {}
  /\ call = [c \in Callers |-> Quiet]
  /\ faults = 0

-----------------------------------------------------------------------------
(* What a caller reads.                                                    *)

FileToken(t) ==
  CASE t = "active" -> active
    [] t = "previous" -> previous
    [] t = "paths" -> <<active, previous, files \cap {active, previous}>>
    [] t = "pair" -> pair
    [] t = "excel" -> excel
    [] t = "levels" -> levels

\* verify_data: the roots this backend reads.
DataRoots == IF backend = "json" THEN {"pair", "story"} ELSE {"database"}
Owned == bound \cap DataRoots = {}

\* What the files say now.
Activated(meta) == IF pair # 0 THEN pair ELSE meta
Or(value) == IF value = 0 /\ bundle = "json" THEN Bundle ELSE value
Goto(c, pc) == call' = [call EXCEPT ![c].pc = pc]
Set(c, pc, view) == call' = [call EXCEPT ![c].pc = pc, ![c].view = view]
Resolved(c, view) == call' = [call EXCEPT ![c] = [Quiet EXCEPT !.pc = "recheck", !.view = view,
                                                               !.then = call[c].then]]

-----------------------------------------------------------------------------
(* One call of snapshot.                                                   *)

\* verify_data; a cached view is dropped when a root belongs to another.
Call(c) ==
  /\ call[c].pc = "idle"
  /\ Owned \/ writer = {}
  /\ call' = [call EXCEPT ![c] =
       [Quiet EXCEPT !.pc = IF Owned THEN "sign" ELSE "done",
          !.then = [pair |-> pair, story |-> story, active |-> active, faults |-> faults]]]
  /\ cache' = IF Owned THEN cache ELSE NoCache
  /\ UNCHANGED <<config, bound, json, database, writer, faults>>

\* activation_signature, one file after the other.
Sign(c) ==
  /\ call[c].pc = "sign"
  /\ LET sig == Append(call[c].sig, FileToken(Tokens[Len(call[c].sig) + 1])) IN
       call' = [call EXCEPT ![c].sig = sig,
                            ![c].pc = IF Len(sig) = Len(Tokens) THEN "lookup" ELSE "sign"]
  /\ UNCHANGED <<config, bound, json, database, cache, writer, faults>>

Hit(c) == cache.sig = call[c].sig

\* Under the read lock.
Lookup(c) ==
  /\ call[c].pc = "lookup" /\ writer = {}
  /\ IF Hit(c) THEN Resolved(c, cache.view) ELSE Goto(c, "lock")
  /\ UNCHANGED <<config, bound, json, database, cache, writer, faults>>

\* Under the write lock: somebody else may have resolved it in between.
Lock(c) ==
  /\ call[c].pc = "lock" /\ writer = {}
  /\ IF Hit(c) THEN Resolved(c, cache.view) /\ UNCHANGED writer
     ELSE /\ Goto(c, IF backend = "json" THEN "pair" ELSE "active")
          /\ writer' = {c}
  /\ UNCHANGED <<config, bound, json, database, cache, faults>>

\* candidates: the two pointers, then the database of the installation.
ReadActive(c) ==
  /\ call[c].pc = "active"
  /\ call' = [call EXCEPT ![c].pc = "previous",
                          ![c].tries = IF active = 0 THEN <<>> ELSE <<active>>]
  /\ UNCHANGED <<config, bound, json, database, cache, writer, faults>>

ReadPrevious(c) ==
  /\ call[c].pc = "previous"
  /\ call' = [call EXCEPT ![c].pc = "open",
       ![c].tries = @ \o (IF previous = 0 THEN <<>> ELSE <<previous>>)
                      \o (IF bundle = "database" THEN <<Bundle>> ELSE <<>>)]
  /\ UNCHANGED <<config, bound, json, database, cache, writer, faults>>

\* resolve_database_view: the first candidate that can be opened.
Open(c) ==
  /\ call[c].pc = "open" /\ call[c].tries # <<>>
  /\ LET g == Head(call[c].tries)
         rest == Tail(call[c].tries)
     IN \/ /\ g \in files \cup {Bundle}
           /\ Set(c, "store", [NoView EXCEPT !.db = g])
           /\ UNCHANGED faults
        \/ /\ g \notin files \cup {Bundle}
           /\ call' = [call EXCEPT ![c].tries = rest]
           /\ UNCHANGED faults
        \/ /\ g \in files /\ faults < MaxFaults
           /\ faults' = faults + 1
           /\ call' = [call EXCEPT ![c].tries = rest]
  /\ UNCHANGED <<config, bound, json, database, cache, writer>>

Fallback(c) ==
  /\ call[c].pc = "open" /\ call[c].tries = <<>>
  /\ Goto(c, IF backend = "default" THEN "pair" ELSE "store")
  /\ UNCHANGED <<config, bound, json, database, cache, writer, faults>>

\* json::resolve_view: the pair record is read once, for both roots ...
ReadPair(c) ==
  /\ call[c].pc = "pair"
  /\ call' = [call EXCEPT ![c].pc = "excel", ![c].from = pair]
  /\ UNCHANGED <<config, bound, json, database, cache, writer, faults>>

\* ... an extract record only without it; the owner is verified after the files.
Root(c, meta) ==
  IF "pair" \in bound THEN 0
  ELSE IF call[c].from # 0 THEN call[c].from ELSE meta

ReadExcel(c) ==
  /\ call[c].pc = "excel"
  /\ Set(c, "levels", [NoView EXCEPT !.excel = Or(Root(c, excel))])
  /\ UNCHANGED <<config, bound, json, database, cache, writer, faults>>

ReadLevels(c) ==
  /\ call[c].pc = "levels"
  /\ Set(c, "story", [call[c].view EXCEPT !.levels = Or(Root(c, levels))])
  /\ UNCHANGED <<config, bound, json, database, cache, writer, faults>>

ReadStory(c) ==
  /\ call[c].pc = "story"
  /\ Set(c, "store", [call[c].view EXCEPT
                        !.story = Or(IF "story" \in bound THEN 0 ELSE story)])
  /\ UNCHANGED <<config, bound, json, database, cache, writer, faults>>

Store(c) ==
  /\ call[c].pc = "store"
  /\ cache' = [sig |-> call[c].sig, view |-> call[c].view]
  /\ writer' = {}
  /\ Resolved(c, call[c].view)
  /\ UNCHANGED <<config, bound, json, database, faults>>

\* Fault: the second verification is left out.
FaultNoRecheck(c) ==
  /\ call[c].pc = "recheck"
  /\ Goto(c, "done")
  /\ UNCHANGED <<config, bound, json, database, cache, writer, faults>>

\* verify_data again: the directory may have been bound in between.
Recheck(c) ==
  /\ call[c].pc = "recheck"
  /\ IF Owned THEN Goto(c, "done") /\ UNCHANGED cache
     ELSE /\ writer = {}
          /\ cache' = NoCache
          /\ Set(c, "done", NoView)
  /\ UNCHANGED <<config, bound, json, database, writer, faults>>

Return(c) ==
  /\ call[c].pc = "done"
  /\ call' = [call EXCEPT ![c] = Quiet]
  /\ UNCHANGED <<config, bound, json, database, cache, writer, faults>>

-----------------------------------------------------------------------------
(* The synchronizers, in the order of their writes.                        *)

Mine(unit) == unit \in Units \ bound

ExtractExcel ==
  /\ Mine("pair") /\ excel = pair /\ excel < MaxGeneration
  /\ excel' = excel + 1
  /\ UNCHANGED <<config, bound, pair, levels, story, database, cache, writer, call, faults>>

ExtractLevels ==
  /\ Mine("pair") /\ levels < excel
  /\ levels' = excel
  /\ UNCHANGED <<config, bound, pair, excel, story, database, cache, writer, call, faults>>

SavePair ==
  /\ Mine("pair") /\ excel = levels /\ pair < excel
  /\ pair' = excel
  /\ UNCHANGED <<config, bound, excel, levels, story, database, cache, writer, call, faults>>

SwapStory ==
  /\ Mine("story") /\ story < MaxGeneration
  /\ story' = story + 1
  /\ UNCHANGED <<config, bound, pair, excel, levels, database, cache, writer, call, faults>>

\* A database file, "previous", "active", and the removal of what neither names.
WriteDatabase ==
  /\ Mine("database")
  /\ \/ /\ writing = "idle" /\ active < MaxGeneration
        /\ files' = files \cup {active + 1} /\ writing' = "previous"
        /\ UNCHANGED <<active, previous>>
     \/ /\ writing = "previous"
        /\ previous' = active /\ writing' = "active"
        /\ UNCHANGED <<active, files>>
     \/ /\ writing = "active"
        /\ active' = active + 1 /\ writing' = "prune"
        /\ UNCHANGED <<previous, files>>
     \/ /\ writing = "prune"
        /\ files' = files \cap {active, previous} /\ writing' = "idle"
        /\ UNCHANGED <<active, previous>>
  /\ UNCHANGED <<config, bound, json, cache, writer, call, faults>>

\* Another source binds an empty directory (its marker comes first) ...
Bind(unit) ==
  /\ unit \in Bindable \ bound
  /\ CASE unit = "pair" -> excel = 0 /\ levels = 0
       [] unit = "story" -> story = 0
       [] unit = "database" -> files = {} /\ writing = "idle"
  /\ bound' = bound \cup {unit}
  /\ UNCHANGED <<config, json, database, cache, writer, call, faults>>

\* ... and publishes into it.
ForeignPublish(unit) ==
  /\ unit \in bound
  /\ \/ /\ unit = "pair" /\ pair # Foreign
        /\ excel' = Foreign /\ levels' = Foreign /\ pair' = IF excel = Foreign THEN Foreign ELSE 0
        /\ UNCHANGED <<story, database>>
     \/ /\ unit = "story" /\ story # Foreign
        /\ story' = Foreign
        /\ UNCHANGED <<pair, excel, levels, database>>
     \/ /\ unit = "database" /\ active # Foreign
        /\ active' = Foreign /\ files' = {Foreign}
        /\ UNCHANGED <<json, previous, writing>>
  /\ UNCHANGED <<config, bound, cache, writer, call, faults>>

-----------------------------------------------------------------------------
Snapshot(c) ==
  \/ Call(c) \/ Sign(c) \/ Lookup(c) \/ Lock(c) \/ ReadActive(c) \/ ReadPrevious(c) \/ Open(c)
  \/ Fallback(c) \/ ReadPair(c) \/ ReadExcel(c) \/ ReadLevels(c) \/ ReadStory(c) \/ Store(c)
  \/ Recheck(c) \/ Return(c)

Publish ==
  \/ ExtractExcel \/ ExtractLevels \/ SavePair \/ SwapStory \/ WriteDatabase
  \/ \E unit \in Bindable : Bind(unit) \/ ForeignPublish(unit)

Next == (\E c \in Callers : Snapshot(c)) \/ Publish

(* A call that began goes on, and gets the lock in its turn.               *)
Fairness == \A c \in Callers : SF_vars(Snapshot(c) /\ call[c].pc # "idle")

Spec == Init /\ [][Next]_vars /\ Fairness

-----------------------------------------------------------------------------
(* Properties.                                                             *)

Answered(c) == call[c].pc = "done"
Unbound(unit) == unit \notin bound

(* A cached view is what the files say, as long as they have the signature *)
(* under which it is cached: nothing was cached that was resolved before   *)
(* the signature became true.                                              *)
CacheTellsTheFiles ==
  LET now == [k \in 1..Len(Tokens) |-> FileToken(Tokens[k])]
  IN cache.sig = now /\ faults = 0 /\ bound = {} =>
       /\ backend # "json" /\ active # 0 => cache.view.db = active
       /\ backend = "json" /\ pair # 0 => cache.view.excel = pair /\ cache.view.levels = pair

(* A call that began after a pair was activated sees that generation or a  *)
(* later one, and the same one of both archives.                           *)
PairIsFresh ==
  \A c \in Callers :
    Answered(c) /\ backend = "json" /\ call[c].then.pair # 0 /\ Unbound("pair")
    /\ Unbound("story")
      => /\ call[c].view.excel = call[c].view.levels
         /\ call[c].view.excel \in call[c].then.pair .. MaxGeneration

(* A call that began after a database was activated is served by that      *)
(* database or a later one; only when two more are activated while it runs *)
(* may the file it set out to open be gone.                                *)
DatabaseIsFresh ==
  \A c \in Callers :
    Answered(c) /\ backend # "json" /\ call[c].then.active # 0 /\ Unbound("database")
    /\ faults = 0 /\ active < call[c].then.active + 2
      => call[c].view.db \in call[c].then.active .. MaxGeneration

(* Data of another source is never served, whenever the directory was      *)
(* bound (app.rs: "Recheck after resolving/caching files").                *)
NothingForeign ==
  \A c \in Callers :
    Answered(c) => Foreign \notin {call[c].view.db, call[c].view.excel,
                                   call[c].view.levels, call[c].view.story}

(* Every call ends, whoever holds the lock of the cache.                   *)
CallsReturn == \A c \in Callers : call[c].pc # "idle" ~> call[c].pc = "idle"

(* What the module comment says of every data set ("sync publishes new     *)
(* pointers and later calls take the new snapshot"), for the story archive.*)
StoryIsFresh ==
  \A c \in Callers :
    Answered(c) /\ backend = "json" /\ call[c].then.story # 0 /\ bound = {}
      => call[c].view.story >= call[c].then.story /\ call[c].view.story # Bundle

(* What the administration guide says of the default backend: once the     *)
(* database is ready, new requests are served by it.  This one began after *)
(* the activation and nothing failed while it ran.                         *)
ReadyDatabaseServes ==
  \A c \in Callers :
    Answered(c) /\ backend = "default" /\ call[c].then.active # 0 /\ bound = {}
    /\ faults = call[c].then.faults /\ active < call[c].then.active + 2
      => call[c].view.db \in call[c].then.active .. MaxGeneration
=============================================================================
