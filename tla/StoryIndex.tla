----------------------------- MODULE StoryIndex -----------------------------
(***************************************************************************)
(* The story archive as a ZIP file (domain/story/search.rs, memoir.rs,     *)
(* storage/store.rs): two caches shared by all calls of the process, the   *)
(* search index and the dictionary of characters, each under a descriptor  *)
(* of the file (path, size, time).  A synchronizer replaces the file at    *)
(* any moment; a call opens it when it first reads, some time after the    *)
(* descriptor, and keeps the handle to its end.                            *)
(*                                                                         *)
(* A look at the archive may fail.  Some failures end the call; a chapter  *)
(* or a supplement that could not be found is left out instead, and a      *)
(* dictionary that could not be read is empty.  Both are then cached.      *)
(*                                                                         *)
(* An archive is the number of its replacement; so is its descriptor.      *)
(***************************************************************************)
EXTENDS Naturals, Sequences, FiniteSets, SequencesExt

CONSTANTS
  Callers,       \* tool calls, each with a store of its own
  Readers,       \* threads that read the chapters of an index (at most four)
  Chapters,      \* archive -> its chapters in order: "good", "added" (named by the
                 \* supplement alone) or "skip" (missing or malformed)
  MaxFaults      \* bound of the model: looks at the archive that fail

Archives == DOMAIN Chapters
Kinds == {"search", "memoir"}

VARIABLES
  archive,   \* the file at the path
  index,     \* INDEX_CACHE: [under, of, chapters, lost], under = 0 when empty
  holder,    \* who holds its mutex
  dict,      \* CHARDICT_CACHE: [under, of], of = 0 when it is an empty dictionary
  call,      \* per caller
  reader,    \* per reader: the chapter it reads, 0 when it has none
  next,      \* the next job to be taken
  results,   \* what the readers have completed: [ordinal, how]
  faults

vars == <<archive, index, holder, dict, call, reader, next, results, faults>>
build == <<reader, next, results>>

NoIndex == [under |-> 0, of |-> 0, chapters |-> <<>>, lost |-> {}]
Idle == [pc |-> "idle", kind |-> "search", then |-> 0, under |-> 0, open |-> 0,
         of |-> 0, chapters |-> <<>>, lost |-> {}]

Init ==
  /\ archive = 1
  /\ index = NoIndex /\ holder = {}
  /\ dict = [under |-> 0, of |-> 0]
  /\ call = [c \in Callers |-> Idle]
  /\ reader = [r \in Readers |-> 0] /\ next = 1 /\ results = {}
  /\ faults = 0

At(c, pc) == call[c].pc = pc
\* with_archive: the handle is opened once and stays.
Handle(c) == IF call[c].open = 0 THEN archive ELSE call[c].open
Fault == faults < MaxFaults /\ faults' = faults + 1
\* The chapters, by number, whose kind is one of these.
Ordinals(a, kinds) == {n \in DOMAIN Chapters[a] : Chapters[a][n] \in kinds}

-----------------------------------------------------------------------------
\* zip_descriptor, before any lock.
Begin(c, kind) ==
  /\ At(c, "idle")
  /\ call' = [call EXCEPT ![c] = [Idle EXCEPT !.pc = kind, !.kind = kind, !.then = archive,
                                              !.under = archive]]
  /\ UNCHANGED <<archive, index, holder, dict, build, faults>>

\* The mutex of the index is held while it is built.
Search(c) ==
  /\ At(c, "search") /\ holder = {}
  /\ IF index.under = call[c].under
     THEN /\ call' = [call EXCEPT ![c].pc = "answer", ![c].of = index.of,
                                  ![c].chapters = index.chapters, ![c].lost = index.lost]
          /\ UNCHANGED holder
     ELSE /\ call' = [call EXCEPT ![c].pc = "table"]
          /\ holder' = {c}
  /\ UNCHANGED <<archive, index, dict, build, faults>>

\* The event table names the chapters, without those of the supplement when
\* that cannot be read; the readers start, or there is no index.
Table(c) ==
  /\ At(c, "table")
  /\ \/ /\ \/ /\ call' = [call EXCEPT ![c].pc = "load", ![c].open = Handle(c)]
              /\ UNCHANGED faults
           \/ /\ Fault
              /\ call' = [call EXCEPT ![c].pc = "load", ![c].open = Handle(c),
                                      ![c].lost = Ordinals(Handle(c), {"added"})]
        /\ reader' = [r \in Readers |-> 0] /\ next' = 1 /\ results' = {}
        /\ UNCHANGED holder
     \/ /\ Fault
        /\ call' = [call EXCEPT ![c] = Idle] /\ holder' = {}
        /\ UNCHANGED build
  /\ UNCHANGED <<archive, index, dict>>

Jobs(c) ==
  LET a == call[c].open
  IN SelectSeq([n \in DOMAIN Chapters[a] |-> n], LAMBDA n : n \notin call[c].lost)

\* fetch_add
Take(c, r) ==
  /\ At(c, "load") /\ reader[r] = 0 /\ next <= Len(Jobs(c))
  /\ reader' = [reader EXCEPT ![r] = Jobs(c)[next]]
  /\ next' = next + 1
  /\ UNCHANGED <<archive, index, holder, dict, call, results, faults>>

\* A chapter is read; it is not found, be it that looking for it failed (lost); or
\* reading what was found fails.
Complete(c, r) ==
  LET kind == Chapters[call[c].open][reader[r]]
      done(how) == results' = results \cup {[ordinal |-> reader[r], how |-> how]}
  IN /\ At(c, "load") /\ reader[r] # 0
     /\ \/ done(IF kind = "skip" THEN "skip" ELSE "good") /\ UNCHANGED faults
        \/ \E how \in {"lost", "fail"} : done(how) /\ Fault
     /\ reader' = [reader EXCEPT ![r] = 0]
     /\ UNCHANGED <<archive, index, holder, dict, call, next>>

\* What stays of the results, in order: what is missing or malformed is left out.
Kept(done) == SelectSeq(done, LAMBDA j : j.how \notin {"skip", "lost"})
InOrder == SetToSortSeq(results, LAMBDA a, b : a.ordinal < b.ordinal)
Lost(c) == call[c].lost \cup {j.ordinal : j \in {k \in results : k.how = "lost"}}

\* All readers are through: the first other failure is the failure of the build.
Join(c) ==
  LET kept == Kept(InOrder)
      failed == \E n \in DOMAIN kept : kept[n].how = "fail"
      chapters == [n \in DOMAIN kept |-> kept[n].ordinal]
  IN /\ At(c, "load") /\ next > Len(Jobs(c)) /\ \A r \in Readers : reader[r] = 0
     /\ holder' = {}
     /\ IF failed
        THEN UNCHANGED index /\ call' = [call EXCEPT ![c] = Idle]
        ELSE /\ index' = [under |-> call[c].under, of |-> call[c].open, chapters |-> chapters,
                        lost |-> Lost(c)]
             /\ call' = [call EXCEPT ![c].pc = "answer", ![c].of = call[c].open,
                                     ![c].chapters = chapters, ![c].lost = Lost(c)]
     /\ UNCHANGED <<archive, dict, build, faults>>

-----------------------------------------------------------------------------
(* load_char_dict: looked up and stored under its mutex, read outside.     *)

Known(c) == dict.under = call[c].under

\* With an empty dictionary the call is refused.
LookUp(c) ==
  /\ At(c, "memoir")
  /\ call' = IF ~Known(c) THEN [call EXCEPT ![c].pc = "read"]
             ELSE IF dict.of = 0 THEN [call EXCEPT ![c] = Idle]
             ELSE [call EXCEPT ![c].pc = "review", ![c].of = dict.of]
  /\ UNCHANGED <<archive, index, holder, dict, build, faults>>

\* read_char_dict: a test or a read that fails yields an empty dictionary.
Read(c) ==
  /\ At(c, "read")
  /\ \/ /\ call' = [call EXCEPT ![c].pc = "keep", ![c].open = Handle(c), ![c].of = Handle(c)]
        /\ UNCHANGED faults
     \/ Fault /\ call' = [call EXCEPT ![c].pc = "keep"]
  /\ UNCHANGED <<archive, index, holder, dict, build>>

Keep(c) ==
  /\ At(c, "keep")
  /\ dict' = IF dict.under = call[c].under THEN dict
             ELSE [under |-> call[c].under, of |-> call[c].of]
  /\ call' = IF call[c].of = 0 THEN [call EXCEPT ![c] = Idle]
             ELSE [call EXCEPT ![c].pc = "review"]
  /\ UNCHANGED <<archive, index, holder, build, faults>>

\* The review table that goes with the dictionary.
Review(c) ==
  /\ At(c, "review")
  /\ call' = [call EXCEPT ![c].pc = "answer", ![c].open = Handle(c)]
  /\ UNCHANGED <<archive, index, holder, dict, build, faults>>

Answer(c) ==
  /\ At(c, "answer")
  /\ call' = [call EXCEPT ![c] = Idle]
  /\ UNCHANGED <<archive, index, holder, dict, build, faults>>

Replace ==
  /\ archive + 1 \in Archives
  /\ archive' = archive + 1
  /\ UNCHANGED <<index, holder, dict, call, build, faults>>

Step(c) ==
  \/ Search(c) \/ Table(c) \/ Join(c) \/ LookUp(c) \/ Read(c) \/ Keep(c) \/ Review(c) \/ Answer(c)
  \/ \E r \in Readers : Take(c, r) \/ Complete(c, r)

Next ==
  \/ Replace
  \/ \E c \in Callers : Step(c) \/ \E kind \in Kinds : Begin(c, kind)

Spec == Init /\ [][Next]_vars

-----------------------------------------------------------------------------
(* Properties.                                                             *)

TypeOK ==
  /\ archive \in Archives
  /\ holder \subseteq Callers /\ Cardinality(holder) <= 1
  /\ index.under \in Archives \cup {0} /\ dict.under \in Archives \cup {0}
  /\ next \in Nat /\ reader \in [Readers -> Nat]
  /\ \A c \in Callers : call[c].pc \in {"idle", "search", "table", "load", "memoir", "read",
                                        "keep", "review", "answer"}

(* A search that answers has the chapters of one archive in order, however *)
(* its readers raced, no chapter twice, none left out but those a failed   *)
(* look hid from the call that built the index, and that archive is not    *)
(* older than the one there was when the call began.                       *)
IndexIsWhole ==
  \A c \in Callers : At(c, "answer") /\ call[c].kind = "search" =>
    LET jobs == Chapters[call[c].of]
        there == Ordinals(call[c].of, {"good", "added"}) \ call[c].lost
    IN /\ call[c].of >= call[c].then
       /\ call[c].chapters = SelectSeq([n \in DOMAIN jobs |-> n], LAMBDA n : n \in there)

(* Neither is the dictionary of a memoir call, nor its review table.       *)
MemoirIsFresh ==
  \A c \in Callers : At(c, "answer") /\ call[c].kind = "memoir" =>
    call[c].of >= call[c].then /\ call[c].open >= call[c].then

(* The code of an operator and the memoirs found by it are of one archive. *)
MemoirIsOneArchive ==
  \A c \in Callers : At(c, "answer") /\ call[c].kind = "memoir" => call[c].of = call[c].open
=============================================================================
