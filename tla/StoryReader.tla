---------------------------- MODULE StoryReader -----------------------------
(***************************************************************************)
(* The objects of a story database (domain/story/reader.rs, memoir.rs) and *)
(* the cache of its generation that keeps them (storage/objects.rs): the   *)
(* event table and the chapter summaries, each merged from two documents,  *)
(* the summaries of events and the dictionary of characters.  The cache    *)
(* loads strictly, under one lock for all keys; a call whose strict load   *)
(* failed reads again, leniently, past the cache.  A test or a read of the *)
(* database may fail at any time.  A failed test passes for an absent      *)
(* document, and the dictionary takes a failed read for one as well: what  *)
(* is loaded then lacks the document, and the cache keeps it.              *)
(*                                                                         *)
(* A document is the set of its ids; a merged object tells for each id the *)
(* document its entry is from.                                             *)
(***************************************************************************)
EXTENDS Naturals, Sequences, SequencesExt, FiniteSetsExt, TLC

CONSTANTS
  Callers,
  Documents,     \* document -> its ids; what is not in the domain is not there
  Overhead,      \* what an object is charged beside its entries
  Budget,        \* 8 MiB in the code
  MaxFaults      \* bound of the model: tests and reads that fail

Keys == {"events", "summaries", "titles", "characters"}
Sources == [events |-> <<"review", "supplement">>, summaries |-> <<"storyinfo", "summaries">>,
            titles |-> <<"event_summaries">>, characters |-> <<"chardict">>]
\* These must be there, the others are asked for first.
Required == {"review"}

VARIABLES
  entries,   \* the queue: [key, value, missed], the oldest first
  mutex,     \* who holds its lock
  call,      \* [pc, key, strict, n, value, missed, trouble]
  faults
vars == <<entries, mutex, call, faults>>

\* missed: documents that were taken for absent because asking for them failed.
\* trouble: another read failed in this call.
Empty == <<>>
Idle == [pc |-> "idle", key |-> "events", strict |-> TRUE, n |-> 1, value |-> Empty,
         missed |-> {}, trouble |-> FALSE]

Init ==
  /\ entries = <<>> /\ mutex = {}
  /\ call = [c \in Callers |-> Idle]
  /\ faults = 0

At(c, pc) == call[c].pc = pc
Source(c) == Sources[call[c].key][call[c].n]
Fault == faults < MaxFaults /\ faults' = faults + 1

\* The first document wins an event, the second one a summary.
Merge(key, value, document) ==
  LET its == [id \in Documents[document] |-> document]
  IN IF key = "summaries" THEN its @@ value ELSE value @@ its

Onward(c, value) ==
  LET last == call[c].n = Len(Sources[call[c].key])
  IN [call[c] EXCEPT !.value = value, !.n = IF last THEN @ ELSE @ + 1,
        !.pc = IF ~last THEN "read" ELSE IF call[c].strict THEN "keep" ELSE "answer"]

-----------------------------------------------------------------------------
\* build_stories_listing asks for the titles before it asks the cache.
Begin(c, key) ==
  /\ At(c, "idle")
  /\ \/ /\ call' = [call EXCEPT ![c] = [Idle EXCEPT !.key = key, !.pc =
                      IF key = "titles" /\ "event_summaries" \notin DOMAIN Documents
                      THEN "answer" ELSE "find"]]
        /\ UNCHANGED faults
     \/ /\ key = "titles" /\ Fault
        /\ call' = [call EXCEPT ![c] = [Idle EXCEPT !.key = key, !.pc = "answer",
                                           !.missed = {"event_summaries"}]]
  /\ UNCHANGED <<entries, mutex>>

\* get_or_load: a hit, or the lock is kept for the load.
Find(c) ==
  /\ At(c, "find") /\ mutex = {}
  /\ \/ \E n \in DOMAIN entries :
          /\ entries[n].key = call[c].key
          /\ call' = [call EXCEPT ![c].pc = "answer", ![c].value = entries[n].value,
                                  ![c].missed = entries[n].missed]
          /\ UNCHANGED mutex
     \/ /\ \A n \in DOMAIN entries : entries[n].key # call[c].key
        /\ call' = [call EXCEPT ![c].pc = "read"]
        /\ mutex' = {c}
  /\ UNCHANGED <<entries, faults>>

Read(c) ==
  /\ At(c, "read")
  /\ Source(c) \in DOMAIN Documents
  /\ call' = [call EXCEPT ![c] = Onward(c, Merge(call[c].key, call[c].value, Source(c)))]
  /\ UNCHANGED <<entries, mutex, faults>>

\* exists(..).unwrap_or(false): what cannot be tested is passed over as well.
Skip(c) ==
  /\ At(c, "read") /\ call[c].key # "titles" /\ Source(c) \notin Required
  /\ \/ /\ Source(c) \notin DOMAIN Documents /\ UNCHANGED faults
        /\ call' = [call EXCEPT ![c] = Onward(c, call[c].value)]
     \/ /\ Fault
        /\ call' = [call EXCEPT ![c] = [Onward(c, call[c].value) EXCEPT
                                                  !.missed = @ \cup {Source(c)}]]
  /\ UNCHANGED <<entries, mutex>>

\* Fault: a strict load takes what it gets.
FaultGivesUp(c) == Source(c) \in Required \/ call[c].key = "titles"

\* A strict load gives up; so does any load whose required document fails.
GivesUp(c) == call[c].strict \/ Source(c) \in Required \/ call[c].key = "titles"

ReadFails(c) ==
  LET hurt == [call[c] EXCEPT !.trouble = TRUE]
  IN /\ At(c, "read") /\ call[c].key # "characters" /\ Fault
     /\ call' = [call EXCEPT ![c] =
          IF ~GivesUp(c) THEN [Onward(c, call[c].value) EXCEPT !.trouble = TRUE]
          ELSE IF call[c].strict /\ call[c].key # "titles"
          THEN [hurt EXCEPT !.strict = FALSE, !.n = 1, !.value = Empty, !.missed = {}]
          ELSE [hurt EXCEPT !.pc = "failed", !.value = Empty]]
     /\ mutex' = IF GivesUp(c) THEN mutex \ {c} ELSE mutex
     /\ UNCHANGED entries

\* read_char_dict: what cannot be read is an empty dictionary, which is kept.
ReadsNothing(c) ==
  /\ At(c, "read") /\ call[c].key = "characters" /\ Fault
  /\ call' = [call EXCEPT ![c] = [Onward(c, call[c].value) EXCEPT !.missed = {Source(c)}]]
  /\ UNCHANGED <<entries, mutex>>

Charge(value) == Overhead + Cardinality(DOMAIN value)
Used(queue) == MapThenSumSet(LAMBDA n : Charge(queue[n].value), DOMAIN queue)

\* What stays when the oldest leave until the new one fits.
Room(queue, charge) ==
  LET fits == {n \in 0..Len(queue) :
                 Used(SubSeq(queue, n + 1, Len(queue))) + charge <= Budget}
  IN SubSeq(queue, Min(fits) + 1, Len(queue))

\* An object over the budget is answered and not kept.
Keep(c) ==
  LET charge == Charge(call[c].value)
      entry == [key |-> call[c].key, value |-> call[c].value, missed |-> call[c].missed]
  IN /\ At(c, "keep")
     /\ entries' = IF charge > Budget THEN entries ELSE Append(Room(entries, charge), entry)
     /\ mutex' = {}
     /\ call' = [call EXCEPT ![c].pc = "answer"]
     /\ UNCHANGED faults

Answer(c) ==
  /\ call[c].pc \in {"answer", "failed"}
  /\ call' = [call EXCEPT ![c] = Idle]
  /\ UNCHANGED <<entries, mutex, faults>>

Step(c) == Find(c) \/ Read(c) \/ Skip(c) \/ ReadFails(c) \/ ReadsNothing(c) \/ Keep(c) \/ Answer(c)
Next == \E c \in Callers : Step(c) \/ \E key \in Keys : Begin(c, key)

Spec == Init /\ [][Next]_vars

-----------------------------------------------------------------------------
(* Properties.                                                             *)

TypeOK ==
  /\ mutex \subseteq Callers /\ faults \in 0..MaxFaults
  /\ \A n \in DOMAIN entries : entries[n].key \in Keys
  /\ \A c \in Callers : call[c].pc \in {"idle", "find", "read", "keep", "answer", "failed"}

\* What a key stands for when some documents are not seen: review wins an
\* event, summaries.json a chapter.
Preferred == [events |-> "review", summaries |-> "summaries", titles |-> "event_summaries",
              characters |-> "chardict"]
Whole(key, missed) ==
  LET there == {d \in ToSet(Sources[key]) : d \in DOMAIN Documents \ missed}
  IN [id \in UNION {Documents[d] : d \in there} |->
        IF Preferred[key] \in there /\ id \in Documents[Preferred[key]] THEN Preferred[key]
        ELSE CHOOSE d \in there : id \in Documents[d]]

(* What the cache keeps is whole but for the documents taken for absent: a *)
(* failed read leaves no trace in it, in whatever call, except in the      *)
(* dictionary of characters, and the review table and the summaries of     *)
(* events are never the ones that are missing.                             *)
CacheIsWhole ==
  \A n \in DOMAIN entries :
    /\ entries[n].value = Whole(entries[n].key, entries[n].missed)
    /\ entries[n].missed \cap {"review", "event_summaries"} = {}

(* A call in which no other read failed is answered with the whole object, *)
(* but for the documents it, or the call that filled the cache, took for   *)
(* absent.                                                                 *)
AnswerIsWhole ==
  \A c \in Callers : At(c, "answer") /\ ~call[c].trouble =>
    call[c].value = Whole(call[c].key, call[c].missed)

(* The objects kept are within the budget, one for each key.               *)
BudgetHolds ==
  /\ Used(entries) <= Budget
  /\ \A m, n \in DOMAIN entries : entries[m].key = entries[n].key => m = n
=============================================================================
