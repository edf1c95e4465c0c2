--------------------------- MODULE ServingProofs ---------------------------
(***************************************************************************)
(* Proofs about what a client of the server can see: the wiki's rate       *)
(* limiter and the protocol.  The first part is about the limiter all      *)
(* calls to the wiki share: whatever the calls are, however many run at    *)
(* once, fail, are refused or dropped, two requests are an interval apart. *)
(* The second is about the session table and the stdio pipe, for every set *)
(* of clients and of message bodies, every timeout and every limit.        *)
(***************************************************************************)
EXTENDS WikiClient, Integers, Sequences, FiniteSets, SequenceTheorems, FiniteSetTheorems, TLAPS

(* A step of a call either takes a slot or settles the call.               *)
Fields == {"pc", "task", "slot", "step", "at", "pages", "names", "out", "more", "there"}
Shaped(record) == DOMAIN record = Fields
Effect(c) ==
  \/ \E record, step : Shaped(record) /\ Request(c, record, step)
  \/ \E record, verdict : /\ Shaped(record) /\ verdict \in {"idle", "done", "failed"}
                          /\ Settle(c, record, verdict)

LEMMA Shapes ==
  ASSUME NEW r, Shaped(r)
  PROVE  /\ \A names, out, at : Shaped([r EXCEPT !.names = names, !.out = out, !.at = at])
         /\ \A names : Shaped([r EXCEPT !.names = names])
         /\ \A out, pages : Shaped([r EXCEPT !.out = out, !.pages = pages])
         /\ \A at : Shaped([r EXCEPT !.at = at])
         /\ \A out : Shaped([r EXCEPT !.out = out])
         /\ \A out, more : Shaped([r EXCEPT !.out = out, !.more = more])
         /\ \A task, there, at : Shaped([r EXCEPT !.task = task, !.there = there, !.at = at])
<1>1. \A names, out, at : Shaped([r EXCEPT !.names = names, !.out = out, !.at = at])
  BY DEF Shaped
<1>2. \A names : Shaped([r EXCEPT !.names = names])
  BY DEF Shaped
<1>3. \A out, pages : Shaped([r EXCEPT !.out = out, !.pages = pages])
  BY DEF Shaped
<1>4. \A at : Shaped([r EXCEPT !.at = at])
  BY DEF Shaped
<1>5. \A out : Shaped([r EXCEPT !.out = out])
  BY DEF Shaped
<1>6. \A out, more : Shaped([r EXCEPT !.out = out, !.more = more])
  BY DEF Shaped
<1>7. \A task, there, at : Shaped([r EXCEPT !.task = task, !.there = there, !.at = at])
  BY DEF Shaped
<1> QED BY <1>1, <1>2, <1>3, <1>4, <1>5, <1>6, <1>7

LEMMA IdleShaped == Shaped(Idle)
BY DEF Shaped, Idle, Fields

(* Whatever an answer is, the call takes one more slot or is settled. *)
LEMMA SearchEffect ==
  ASSUME NEW c \in Callers, Shaped(call[c]), NEW names, NEW k, Search(c, names, k)
  PROVE  Effect(c)
<1> DEFINE j == Lookup(Fetched(call[c].task), k)
           seen == names \o Titles(call[c].task, k, j)
           record == [call[c] EXCEPT !.names = seen, !.out = Kept(call[c].task, seen), !.at = j]
<1>1. Settle(c, record, "done") \/ Request(c, record, "redirect")
  BY DEF Search
<1>2. Shaped(record)
  BY Shapes
<1> HIDE DEF record
<1> QED BY <1>1, <1>2 DEF Effect

LEMMA ResolvedEffect ==
  ASSUME NEW c \in Callers, Shaped(call[c]), NEW title, Resolved(c, title)
  PROVE  Effect(c)
<1> DEFINE seen == Append(call[c].names, title)
           record == [call[c] EXCEPT !.names = seen]
<1>1. Settle(c, record, "done") \/ Search(c, seen, call[c].at + 1)
  BY DEF Resolved
<1>2. Shaped(record)
  BY Shapes
<1> HIDE DEF record, seen
<1> QED BY <1>1, <1>2, SearchEffect DEF Effect

LEMMA ListedEffect ==
  ASSUME NEW c \in Callers, Shaped(call[c]), Listed(c)
  PROVE  Effect(c)
<1> DEFINE page == FilePage(call[c].task.operator, call[c].at)
           record == [call[c] EXCEPT !.out = @ \o page, !.pages = @ + 1]
           more == [record EXCEPT !.at = Nth(From(call[c].task.operator, @), PageSize + 1)]
<1>1. Request(c, record, "tree") \/ Settle(c, record, "failed") \/ Request(c, more, "page")
  BY DEF Listed
<1>2. Shaped(record)
  BY Shapes
<1>3. Shaped(more)
  <2> HIDE DEF record
  <2> QED BY <1>2, Shapes
<1> HIDE DEF record, more
<1> QED BY <1>1, <1>2, <1>3 DEF Effect

LEMMA AnswerEffect ==
  ASSUME NEW c \in Callers, Shaped(call[c]), Answer(c)
  PROVE  Effect(c)
<1>1. Shaped(call[c]) /\ \A out : Shaped([call[c] EXCEPT !.out = out])
  BY Shapes
<1>2. \A record, step : Shaped(record) /\ Request(c, record, step) => Effect(c)
  BY DEF Effect
<1>3. \A record : Shaped(record) /\ (Settle(c, record, "done") \/ Settle(c, record, "failed")) => Effect(c)
  BY DEF Effect
<1>4. ASSUME Artworks(c) PROVE Effect(c)
  <2> DEFINE listed == SelectSeq(call[c].out, LAMBDA f : Labelled(Files[f]))
  <2>1. \/ Settle(c, [call[c] EXCEPT !.out = listed], "done")
        \/ Settle(c, [call[c] EXCEPT !.out = listed], "failed")
    BY <1>4 DEF Artworks
  <2> HIDE DEF listed
  <2> QED BY <1>1, <1>3, <2>1
<1>5. ASSUME Tree(c) PROVE Effect(c)
  BY <1>1, <1>2, <1>3, <1>4, <1>5 DEF Tree
<1>6. ASSUME Downloaded(c) PROVE Effect(c)
  <2>1. \/ Settle(c, [call[c] EXCEPT !.out = <<call[c].task.file>>], "done")
        \/ Settle(c, [call[c] EXCEPT !.out = <<call[c].task.file>>], "failed")
    BY <1>6 DEF Downloaded
  <2> QED BY <1>1, <1>3, <2>1
<1>7. ASSUME NEW found \in BOOLEAN, GetLinks(c, found) PROVE Effect(c)
  <2> DEFINE record == [call[c] EXCEPT !.out = Take(Links, call[c].task.limit),
                                       !.more = Len(Links) > call[c].task.limit]
  <2>1. Settle(c, call[c], "failed") \/ Settle(c, record, "done")
    BY <1>7 DEF GetLinks
  <2>2. Shaped(record)
    BY Shapes
  <2> HIDE DEF record
  <2> QED BY <1>1, <1>3, <2>1, <2>2
<1>8. ASSUME NEW found \in BOOLEAN, ListSections(c, found) \/ GetCategories(c, found) \/ ReadPage(c)
      PROVE  Effect(c)
  BY <1>1, <1>3, <1>8 DEF ListSections, GetCategories, ReadPage
<1>9. ASSUME Read(c) PROVE Effect(c)
  <2>1. \/ Search(c, <<>>, 1) \/ Tree(c) \/ Request(c, call[c], "download")
        \/ Settle(c, call[c], "failed") \/ ReadPage(c)
        \/ \E found \in BOOLEAN : ListSections(c, found) \/ GetCategories(c, found) \/ GetLinks(c, found)
    BY <1>9 DEF Read
  <2>2. BOOLEAN = {TRUE, FALSE}
    OBVIOUS
  <2> QED BY <1>1, <1>2, <1>3, <1>5, <1>7, <1>8, <2>1, <2>2, SearchEffect
<1>10. \/ Resolved(c, Redirected(Fetched(call[c].task)[call[c].at].title))
       \/ Listed(c) \/ Tree(c) \/ Artworks(c) \/ Settle(c, call[c], "done") \/ Downloaded(c)
       \/ Read(c)
  BY DEF Answer
<1> QED BY <1>1, <1>3, <1>4, <1>5, <1>6, <1>9, <1>10, ResolvedEffect, ListedEffect

-----------------------------------------------------------------------------
(* The limiter: the slots of sleeping calls are an interval apart, not in  *)
(* the past, an interval after the last request and an interval before the *)
(* first slot nobody has taken.                                            *)
Sleeps(c) == call[c].pc = "sleep"
Apart(c, d) ==
  call[c].slot + Interval <= call[d].slot \/ call[d].slot + Interval <= call[c].slot
SlotInv ==
  /\ clock \in Nat /\ next \in Nat /\ last \in Nat
  /\ DOMAIN call = Callers /\ \A c \in Callers : Shaped(call[c])
  /\ last + Interval <= Later(clock, next)
  /\ \A c \in Callers : Sleeps(c) =>
       /\ call[c].slot \in Nat
       /\ clock <= call[c].slot
       /\ last + Interval <= call[c].slot
       /\ call[c].slot + Interval <= next
  /\ \A c, d \in Callers : Sleeps(c) /\ Sleeps(d) /\ c # d => Apart(c, d)

SlotsKept == SlotInv' /\ \A c \in Callers : Spaced(c)

(* A step changes one call, and a sleeping one only by its effect. *)
LEMMA SlotStep ==
  ASSUME Interval \in Nat, SlotInv, [Next]_wikiVars
  PROVE  SlotsKept
<1>1. ASSUME NEW c \in Callers, NEW record, NEW step, Shaped(record), Request(c, record, step)
      PROVE  SlotsKept
  <2> DEFINE slot == Later(clock, next)
             new == [record EXCEPT !.pc = "sleep", !.slot = slot, !.step = step]
  <2>1. Shaped(new) /\ new.pc = "sleep" /\ new.slot = slot
    BY <1>1 DEF Shaped, Fields
  <2>2. next' = slot + Interval /\ call' = [call EXCEPT ![c] = new] /\ clock' = clock /\ last' = last
    BY <1>1 DEF Request
  <2>3. slot \in Nat /\ clock <= slot /\ next <= slot /\ last + Interval <= slot
    BY DEF SlotInv, Later
  <2> HIDE DEF slot, new
  <2>4. /\ DOMAIN call' = Callers /\ call'[c] = new
        /\ \A d \in Callers : d # c => call'[d] = call[d]
    BY <2>2 DEF SlotInv
  <2>5. \A d \in Callers : d # c /\ Sleeps(d) => call[d].slot + Interval <= slot
    BY <2>3 DEF SlotInv
  <2>6. SlotInv'
    <3>1. last' + Interval <= Later(clock', next')
      BY <2>2, <2>3 DEF Later, SlotInv
    <3>2. ASSUME NEW d \in Callers, Sleeps(d)'
          PROVE  /\ call'[d].slot \in Nat /\ clock' <= call'[d].slot
                 /\ last' + Interval <= call'[d].slot /\ call'[d].slot + Interval <= next'
      <4>1. CASE d = c
        BY <2>1, <2>2, <2>3, <2>4, <4>1
      <4>2. CASE d # c
        BY <2>2, <2>3, <2>4, <2>5, <3>2, <4>2 DEF SlotInv, Sleeps
      <4> QED BY <4>1, <4>2
    <3>3. ASSUME NEW d \in Callers, NEW e \in Callers, Sleeps(d)', Sleeps(e)', d # e
          PROVE  Apart(d, e)'
      BY <2>1, <2>4, <2>5, <3>3 DEF SlotInv, Sleeps, Apart
    <3>4. \A d \in Callers : Shaped(call'[d])
      BY <2>1, <2>4 DEF SlotInv
    <3> QED BY <2>2, <2>3, <2>4, <3>1, <3>2, <3>3, <3>4 DEF SlotInv, Sleeps
  <2>7. ASSUME NEW d \in Callers PROVE Spaced(d)
    BY <2>1, <2>4 DEF Spaced
  <2> QED BY <2>6, <2>7 DEF SlotsKept
<1>2. ASSUME NEW c \in Callers, NEW record, NEW verdict \in {"idle", "done", "failed"},
             Shaped(record), Settle(c, record, verdict)
      PROVE  SlotsKept
  <2> DEFINE new == [record EXCEPT !.pc = verdict]
  <2>1. Shaped(new) /\ new.pc = verdict
    BY <1>2 DEF Shaped, Fields
  <2>2. call' = [call EXCEPT ![c] = new] /\ UNCHANGED <<clock, next, last>>
    BY <1>2 DEF Settle
  <2> HIDE DEF new
  <2>3. /\ DOMAIN call' = Callers /\ call'[c] = new
        /\ \A d \in Callers : d # c => call'[d] = call[d]
    BY <2>2 DEF SlotInv
  <2>4. \A d \in Callers : Sleeps(d)' => Sleeps(d) /\ d # c
    BY <2>1, <2>3 DEF Sleeps
  <2>5. SlotInv'
    BY <2>1, <2>2, <2>3, <2>4 DEF SlotInv, Apart, Later
  <2>6. ASSUME NEW d \in Callers PROVE Spaced(d)
    BY <2>1, <2>3 DEF Spaced
  <2> QED BY <2>5, <2>6 DEF SlotsKept
<1>3. ASSUME NEW c \in Callers, Effect(c) PROVE SlotsKept
  BY <1>1, <1>2, <1>3 DEF Effect
<1>4. ASSUME NEW c \in Callers, NEW task \in Tasks, Begin(c, task) PROVE SlotsKept
  <2> DEFINE record == [Idle EXCEPT !.task = task, !.there = wiki, !.at = 1]
  <2>1. Shaped(record)
    BY IdleShaped, Shapes
  <2>2. Settle(c, record, "failed") \/ Request(c, record, "page") \/ Request(c, record, "first")
    BY <1>4 DEF Begin
  <2> HIDE DEF record
  <2> QED BY <1>1, <1>2, <2>1, <2>2
<1>5. ASSUME NEW c \in Callers, Send(c) PROVE SlotsKept
  <2> DEFINE new == [call[c] EXCEPT !.pc = "sent"]
  <2>1. Shaped(new) /\ new.pc = "sent"
    <3>1. Shaped(call[c])
      BY DEF SlotInv
    <3> QED BY <3>1 DEF Shaped, Fields
  <2>2. /\ Sleeps(c) /\ clock >= call[c].slot /\ last' = clock
        /\ call' = [call EXCEPT ![c] = new] /\ UNCHANGED <<clock, next>>
    BY <1>5 DEF Send, Sleeps
  <2> HIDE DEF new
  <2>3. /\ DOMAIN call' = Callers /\ call'[c] = new
        /\ \A d \in Callers : d # c => call'[d] = call[d]
    BY <2>2 DEF SlotInv
  <2>4. \A d \in Callers : Sleeps(d)' => Sleeps(d) /\ d # c
    BY <2>1, <2>3 DEF Sleeps
  <2>5. clock = call[c].slot /\ last + Interval <= clock /\ clock + Interval <= next
    BY <2>2 DEF SlotInv
  <2>6. \A d \in Callers : Sleeps(d) /\ d # c => clock + Interval <= call[d].slot
    <3> SUFFICES ASSUME NEW d \in Callers, Sleeps(d), d # c PROVE clock + Interval <= call[d].slot
      OBVIOUS
    <3>1. Apart(c, d) /\ call[d].slot \in Nat /\ clock <= call[d].slot /\ clock \in Nat
      BY <2>2 DEF SlotInv
    <3> QED BY <2>5, <3>1 DEF Apart
  <2>7. SlotInv'
    <3>1. last' + Interval <= Later(clock', next')
      BY <2>2, <2>5 DEF SlotInv, Later
    <3> QED BY <2>1, <2>2, <2>3, <2>4, <2>6, <3>1 DEF SlotInv, Apart
  <2>8. ASSUME NEW d \in Callers PROVE Spaced(d)
    BY <2>3, <2>5 DEF Spaced
  <2> QED BY <2>7, <2>8 DEF SlotsKept
<1>6. ASSUME NEW c \in Callers, Refuse(c) PROVE SlotsKept
  <2>1. \/ Resolved(c, Fetched(call[c].task)[call[c].at].title)
        \/ Settle(c, call[c], "failed")
    BY <1>6 DEF Refuse
  <2>2. Shaped(call[c])
    BY DEF SlotInv
  <2>3. Effect(c)
    BY <2>1, <2>2, ResolvedEffect DEF Effect
  <2> QED BY <1>3, <2>3
<1>7. ASSUME NEW c \in Callers, Answer(c) PROVE SlotsKept
  <2>1. Effect(c)
    BY <1>7, AnswerEffect DEF SlotInv
  <2> QED BY <1>3, <2>1
<1>8. ASSUME NEW c \in Callers, Drop(c) PROVE SlotsKept
  <2>1. Settle(c, Idle, "idle")
    BY <1>8 DEF Drop
  <2> QED BY <1>2, <2>1, IdleShaped
<1>9. CASE Tick
  <2>1. /\ clock' = clock + 1 /\ UNCHANGED <<next, last, call>>
        /\ \A c \in Callers : Sleeps(c) => call[c].slot > clock
    BY <1>9 DEF Tick, Sleeps
  <2>2. SlotInv'
    <3>1. last' + Interval <= Later(clock', next')
      BY <2>1 DEF SlotInv, Later
    <3> QED BY <2>1, <3>1 DEF SlotInv, Sleeps, Apart
  <2>3. ASSUME NEW d \in Callers PROVE Spaced(d)
    BY <2>1 DEF Spaced
  <2> QED BY <2>2, <2>3 DEF SlotsKept
<1>10. ASSUME NEW f \in DOMAIN Files, Change(f) PROVE SlotsKept
  <2>1. /\ DOMAIN call' = Callers /\ UNCHANGED <<clock, next, last>>
        /\ \A c \in Callers : \E there : call'[c] = [call[c] EXCEPT !.there = there]
    BY <1>10 DEF Change
  <2>2. ASSUME NEW c \in Callers
        PROVE  /\ Shaped(call'[c]) /\ call'[c].pc = call[c].pc
               /\ call'[c].slot = call[c].slot
    <3>1. PICK there : call'[c] = [call[c] EXCEPT !.there = there]
      BY <2>1
    <3>2. Shaped(call[c])
      BY DEF SlotInv
    <3> QED BY <3>1, <3>2 DEF Shaped, Fields
  <2>3. \A c \in Callers : Sleeps(c)' <=> Sleeps(c)
    BY <2>2 DEF Sleeps
  <2>4. \A c, d \in Callers : Apart(c, d)' <=> Apart(c, d)
    BY <2>2 DEF Apart
  <2>5. SlotInv'
    BY <2>1, <2>2, <2>3, <2>4 DEF SlotInv, Later
  <2>6. ASSUME NEW d \in Callers PROVE Spaced(d)
    BY <2>2 DEF Spaced
  <2> QED BY <2>5, <2>6 DEF SlotsKept
<1>11. CASE UNCHANGED wikiVars
  BY <1>11 DEF wikiVars, SlotInv, Later, Sleeps, Apart, Spaced, SlotsKept
<1> QED BY <1>4, <1>5, <1>6, <1>7, <1>8, <1>9, <1>10, <1>11 DEF Next

(* client.rs 3-5: the slot is reserved before anything is awaited, so that *)
(* whoever sleeps, is dropped or comes back, two requests to the wiki are  *)
(* never less than an interval apart.                                      *)
THEOREM LimiterSpacesRequests == ASSUME Interval \in Nat PROVE Spec => RequestsAreSpaced
<1>1. Init => SlotInv
  BY IdleShaped DEF Init, SlotInv, Later, Sleeps, Idle
<1>2. SlotInv /\ [Next]_wikiVars => SlotInv'
  BY SlotStep DEF SlotsKept
<1>3. SlotInv /\ [Next]_wikiVars => [\A c \in Callers : Spaced(c)]_wikiVars
  BY SlotStep DEF SlotsKept
<1> QED BY <1>1, <1>2, <1>3, PTL DEF Spec, RequestsAreSpaced
-----------------------------------------------------------------------------
(* Sessions (protocol/http.rs, protocol/session.rs).  A body that is one   *)
(* message, and not a batch, has one; identifiers are numbers, 0 is none.  *)

CONSTANTS Clients, Bodies, Channels, Timeout, MaxSessions, Stdio
VARIABLES sessions, watch, known, request, metrics, inits, pipe
Wire == INSTANCE Protocol

Messages == [id : Nat, method : STRING, call : STRING, envelope : STRING]
Parsed ==
  /\ Timeout \in Nat /\ MaxSessions \in Nat
  /\ \A b \in Bodies : /\ b.single \in BOOLEAN /\ b.messages \in Seq(Messages)
                       /\ b.single => Len(b.messages) = 1

Names == Channels \cup {"none"}
States == [legacy : BOOLEAN, modern : BOOLEAN]
Replies == [id : Nat, code : Int, channel : Names]
Answers == Seq(Replies)
Lists == Seq(Messages)
Requests ==
  [pc : {"idle", "handle", "answered"}, era : {"legacy", "modern"}, session : Nat, fresh : BOOLEAN,
   asked : Names, body : Lists, at : Nat, state : States, channel : Names,
   answers : Answers, status : Nat]
Entries == [initialized : BOOLEAN, channel : Channels, idle : Nat]
Counts == [created : Nat, evicted : Nat, closed : Nat]
Created == 1..metrics.created

WireTypes ==
  /\ request \in [Clients -> Requests]
  /\ \A c \in Clients :
       /\ request[c].pc = "handle" => request[c].at > 0
       /\ request[c].session \in Created \cup {0}
       /\ request[c].era = "modern" => request[c].session = 0
       /\ request[c].pc = "handle" /\ request[c].era = "legacy" => request[c].session \in Created
  /\ metrics \in Counts
  /\ known \subseteq Created /\ DOMAIN sessions \subseteq Created
  /\ inits \in [Created -> Nat]
  /\ \A id \in DOMAIN sessions : sessions[id] \in Entries

(* The request that opened a session may still run: its session is not     *)
(* known to anybody else, and it holds the only initialize that counts.    *)
Opens(c) == request[c].pc = "handle" /\ request[c].era = "legacy" /\ request[c].fresh
Opening(c) ==
  /\ request[c].session \in Created \ known
  /\ Len(request[c].body) = 1 /\ request[c].body[1].method = "initialize"
  /\ request[c].at \in {1, 2}
  /\ request[c].at = 1 => ~request[c].state.legacy /\ inits[request[c].session] = 0
  /\ request[c].at = 2 => request[c].state.legacy
Joins(c) == request[c].pc = "handle" /\ request[c].era = "legacy" /\ ~request[c].fresh
Joining(c) == request[c].session \in known /\ request[c].state.legacy

SessionInv ==
  /\ \A id \in known \cap DOMAIN sessions : sessions[id].initialized
  /\ \A id \in Created : inits[id] <= 1
  /\ \A c \in Clients : (Opens(c) => Opening(c)) /\ (Joins(c) => Joining(c))
  /\ \A c, d \in Clients : Opens(c) /\ Opens(d) /\ request[c].session = request[d].session => c = d

LEMMA FreshTyped == Wire!Fresh \in States /\ ~Wire!Fresh.legacy /\ Wire!NoRequest \in Requests
                    /\ Wire!NoRequest.pc = "idle" /\ Wire!NoRequest.session = 0
BY DEF Wire!Fresh, Wire!NoRequest, States, Requests, Names, Messages, Replies, Answers, Lists

LEMMA HandleLegacyTyped ==
  ASSUME NEW state \in States, NEW m \in Messages, NEW channel \in Names
  PROVE  /\ Wire!HandleLegacy(state, m, channel).state \in States
         /\ Wire!HandleLegacy(state, m, channel).answer \in Seq(Replies)
         /\ Len(Wire!HandleLegacy(state, m, channel).answer) <= 1
         /\ \A i \in DOMAIN Wire!HandleLegacy(state, m, channel).answer :
              Wire!HandleLegacy(state, m, channel).answer[i].channel \in {"none", channel}
         /\ state.legacy => Wire!HandleLegacy(state, m, channel).state.legacy
         /\ IF m.method = "initialize"
            THEN IF state.legacy THEN Wire!HandleLegacy(state, m, channel).hint = "bad"
                 ELSE Wire!HandleLegacy(state, m, channel).hint = "ok"
                      /\ Wire!HandleLegacy(state, m, channel).state.legacy
            ELSE Wire!HandleLegacy(state, m, channel).hint # "bad"
<1> DEFINE done == Wire!HandleLegacy(state, m, channel)
<1>1. \A code \in Int, ch \in {"none", channel} :
        /\ Wire!Answered(m.id, code, ch) \in Seq(Replies)
        /\ Len(Wire!Answered(m.id, code, ch)) = 1
        /\ Wire!Answered(m.id, code, ch)[1].channel = ch
  BY DEF Wire!Answered, Replies, Names, Messages
<1>2. Wire!Nothing \in Seq(Replies) /\ Len(Wire!Nothing) = 0
  BY DEF Wire!Nothing
<1>3. done.answer = Wire!Nothing
      \/ \E code \in Int, ch \in {"none", channel} : done.answer = Wire!Answered(m.id, code, ch)
  <2>1. Wire!CallAnswer(m, channel) = Wire!Answered(m.id, 0, channel)
        \/ Wire!CallAnswer(m, channel) = Wire!Answered(m.id, -32603, "none")
        \/ Wire!CallAnswer(m, channel) = Wire!Answered(m.id, -32602, "none")
    BY DEF Wire!CallAnswer, Wire!Result, Wire!Error
  <2>2. \/ done.answer = Wire!Nothing \/ done.answer = Wire!CallAnswer(m, channel)
        \/ done.answer = Wire!Answered(m.id, -32600, "none")
        \/ done.answer = Wire!Answered(m.id, 0, "none")
        \/ done.answer = Wire!Answered(m.id, -32601, "none")
    BY DEF Wire!HandleLegacy, Wire!Result, Wire!Error
  <2> HIDE DEF done
  <2> QED BY <2>1, <2>2
<1>4. done.state \in States /\ (state.legacy => done.state.legacy)
  <2>1. done.state = state \/ done.state = [state EXCEPT !.legacy = TRUE]
    BY DEF Wire!HandleLegacy
  <2>2. [state EXCEPT !.legacy = TRUE] \in States /\ [state EXCEPT !.legacy = TRUE].legacy
    BY DEF States
  <2> HIDE DEF done
  <2> QED BY <2>1, <2>2
<1>5. IF m.method = "initialize"
      THEN IF state.legacy THEN done.hint = "bad" ELSE done.hint = "ok" /\ done.state.legacy
      ELSE done.hint # "bad"
  BY DEF Wire!HandleLegacy, States
<1> HIDE DEF done
<1>6. done.answer \in Seq(Replies) /\ Len(done.answer) <= 1
  <2>1. CASE done.answer = Wire!Nothing
    BY <2>1, <1>2
  <2>2. CASE \E code \in Int, ch \in {"none", channel} : done.answer = Wire!Answered(m.id, code, ch)
    <3>1. PICK code \in Int, ch \in {"none", channel} : done.answer = Wire!Answered(m.id, code, ch)
      BY <2>2
    <3>2. /\ Wire!Answered(m.id, code, ch) \in Seq(Replies)
          /\ Len(Wire!Answered(m.id, code, ch)) = 1
      BY <1>1
    <3> QED BY <3>1, <3>2
  <2> QED BY <1>3, <2>1, <2>2
<1>7. \A i \in DOMAIN done.answer : done.answer[i].channel \in {"none", channel}
  BY <1>1, <1>2, <1>3, <1>6
<1> QED BY <1>4, <1>5, <1>6, <1>7 DEF done

(* The three shapes of a request whose messages are handled next.          *)
InSession(id, body, state, channel, asked) ==
  [Wire!NoRequest EXCEPT !.pc = "handle", !.session = id, !.body = body, !.at = 1, !.state = state,
                         !.channel = channel, !.asked = asked, !.status = 200]
Initializes(id, body, channel) ==
  [Wire!NoRequest EXCEPT !.pc = "handle", !.session = id, !.fresh = TRUE, !.at = 1, !.body = body,
                         !.channel = channel, !.asked = channel, !.status = 200]
IsModern(body, channel) ==
  [Wire!NoRequest EXCEPT !.pc = "handle", !.era = "modern", !.body = body, !.at = 1,
                         !.channel = channel, !.asked = channel, !.status = 200]

LEMMA JoinPosted ==
  ASSUME NEW id \in Nat, NEW body \in Lists, NEW state \in States, NEW channel \in Names,
         NEW asked \in Names
  PROVE  LET r == InSession(id, body, state, channel, asked)
         IN /\ r \in Requests
            /\ r.pc = "handle" /\ r.era = "legacy" /\ r.session = id /\ ~r.fresh /\ r.at = 1
            /\ r.body = body /\ r.state = state /\ r.channel = channel /\ r.answers = <<>>
<1>1. PICK n \in Requests : n = Wire!NoRequest
  BY FreshTyped
<1>2. [n EXCEPT !.pc = "handle", !.session = id, !.body = body, !.at = 1, !.state = state,
                !.channel = channel, !.asked = asked, !.status = 200] \in Requests
  BY ZenonT(30) DEF Requests
<1> QED BY <1>1, <1>2 DEF InSession, Wire!NoRequest

LEMMA OpenPosted ==
  ASSUME NEW id \in Nat, NEW body \in Lists, NEW channel \in Names
  PROVE  LET r == Initializes(id, body, channel)
         IN /\ r \in Requests
            /\ r.pc = "handle" /\ r.era = "legacy" /\ r.session = id /\ r.fresh /\ r.at = 1
            /\ r.body = body /\ r.state = Wire!Fresh /\ r.channel = channel /\ r.answers = <<>>
<1>1. PICK n \in Requests : n = Wire!NoRequest
  BY FreshTyped
<1>2. [n EXCEPT !.pc = "handle", !.session = id, !.fresh = TRUE, !.at = 1, !.body = body,
                !.channel = channel, !.asked = channel, !.status = 200] \in Requests
  BY ZenonT(30) DEF Requests
<1> QED BY <1>1, <1>2 DEF Initializes, Wire!NoRequest

LEMMA ModernPosted ==
  ASSUME NEW body \in Lists, NEW channel \in Names
  PROVE  LET r == IsModern(body, channel)
         IN /\ r \in Requests
            /\ r.pc = "handle" /\ r.era = "modern" /\ r.session = 0 /\ r.at = 1
            /\ r.channel = channel /\ r.asked = channel /\ r.answers = <<>>
<1>1. PICK n \in Requests : n = Wire!NoRequest
  BY FreshTyped
<1>2. [n EXCEPT !.pc = "handle", !.era = "modern", !.body = body, !.at = 1,
                !.channel = channel, !.asked = channel, !.status = 200] \in Requests
  BY ZenonT(30) DEF Requests
<1> QED BY <1>1, <1>2 DEF IsModern, Wire!NoRequest

(* The four shapes a step gives a request whose messages are handled.      *)
Passed(n, k, a, code) == [n EXCEPT !.at = k, !.answers = a, !.status = code]
Handled(n, k, a, st) == [n EXCEPT !.at = k, !.answers = a, !.state = st]
Rejected(n, a) == [n EXCEPT !.pc = "answered", !.answers = a, !.status = 400]
Finished(n, code) == [n EXCEPT !.pc = "answered", !.status = code]

Same(r, n) ==
  r.era = n.era /\ r.session = n.session /\ r.fresh = n.fresh /\ r.body = n.body
  /\ r.channel = n.channel /\ r.asked = n.asked
OnChannel(a, channel) == \A i \in DOMAIN a : a[i].channel \in {"none", channel}

LEMMA Joined ==
  ASSUME NEW s \in Answers, NEW a \in Answers, NEW channel, OnChannel(s, channel), OnChannel(a, channel)
  PROVE  OnChannel(s \o a, channel)
BY DEF OnChannel, Answers

LEMMA PassedTyped ==
  ASSUME NEW n \in Requests, NEW k \in Nat, NEW a \in Answers, NEW code \in Nat
  PROVE  LET r == Passed(n, k, a, code)
         IN /\ r \in Requests /\ Same(r, n) /\ r.pc = n.pc /\ r.at = k /\ r.state = n.state
            /\ r.answers = a
<1>2. Passed(n, k, a, code) \in Requests
  BY DEF Passed, Requests
<1>3. Same(Passed(n, k, a, code), n)
  BY DEF Passed, Same, Requests
<1> QED BY <1>2, <1>3 DEF Passed, Requests

LEMMA HandledTyped ==
  ASSUME NEW n \in Requests, NEW k \in Nat, NEW a \in Answers, NEW st \in States
  PROVE  LET r == Handled(n, k, a, st)
         IN /\ r \in Requests /\ Same(r, n) /\ r.pc = n.pc /\ r.at = k /\ r.state = st
            /\ r.answers = a
<1>2. Handled(n, k, a, st) \in Requests
  BY DEF Handled, Requests
<1>3. Same(Handled(n, k, a, st), n)
  BY DEF Handled, Same, Requests
<1> QED BY <1>2, <1>3 DEF Handled, Requests

LEMMA RejectedTyped ==
  ASSUME NEW n \in Requests, NEW a \in Answers
  PROVE  LET r == Rejected(n, a)
         IN r \in Requests /\ Same(r, n) /\ r.pc = "answered" /\ r.at = n.at /\ r.answers = a
<1>0. PICK code \in Nat : code = 400
  OBVIOUS
<1>1. Rejected(n, a) \in Requests
  <2>1. [n EXCEPT !.pc = "answered", !.answers = a, !.status = code] \in Requests
    BY DEF Requests
  <2> QED BY <1>0, <2>1 DEF Rejected
<1>2. Same(Rejected(n, a), n)
  BY DEF Rejected, Same, Requests
<1> QED BY <1>1, <1>2 DEF Rejected, Requests

LEMMA FinishedTyped ==
  ASSUME NEW n \in Requests, NEW code \in Nat
  PROVE  LET r == Finished(n, code)
         IN /\ r \in Requests /\ Same(r, n) /\ r.pc = "answered" /\ r.at = n.at
            /\ r.answers = n.answers
<1>1. Finished(n, code) \in Requests
  BY DEF Finished, Requests
<1>2. Same(Finished(n, code), n)
  BY DEF Finished, Same, Requests
<1> QED BY <1>1, <1>2 DEF Finished, Requests

(* Handling a message or the end of a body moves one request on.           *)
Moves(c) ==
  \E r \in Requests :
    /\ request' = [request EXCEPT ![c] = r] /\ Same(r, request[c])
    /\ r.pc = "handle" => r.at = request[c].at + 1
    /\ request[c].state.legacy => r.pc = "answered" \/ r.state.legacy
    /\ OnChannel(request[c].answers, request[c].channel) => OnChannel(r.answers, request[c].channel)

LEMMA MessageTyped ==
  ASSUME Parsed, WireTypes, NEW c \in Clients, Wire!Handling(c)
  PROVE  Wire!Message(c) \in Messages /\ request[c] \in Requests
BY DEF Lists, Wire!Handling, Wire!Message, WireTypes, Requests

LEMMA ErrorTyped ==
  ASSUME NEW id \in Nat, NEW code \in Int
  PROVE  Wire!Error(id, code) \in Answers /\ \A channel : OnChannel(Wire!Error(id, code), channel)
BY DEF Wire!Error, Wire!Answered, Replies, Names, OnChannel, Answers

LEMMA ScalarMoves ==
  ASSUME Parsed, WireTypes, NEW c \in Clients, Wire!HandleScalar(c)
  PROVE  Moves(c) /\ UNCHANGED <<sessions, known, metrics, inits>>
<1>1. PICK n \in Requests : n = request[c]
  BY DEF WireTypes
<1>2. PICK code \in Nat : code = IF request[c].era = "modern" /\ request[c].status = 200 THEN 400
                                ELSE request[c].status
  BY <1>1 DEF Requests
<1>3. PICK a \in Answers : a = Wire!Error(0, -32600) /\ OnChannel(a, n.channel)
  BY ErrorTyped
<1>4. PICK all \in Answers, k \in Nat : all = n.answers \o a /\ k = n.at + 1
  <2>1. n.answers \in Answers /\ n.at \in Nat
    BY DEF Requests
  <2>2. n.answers \o a \in Answers
    BY <2>1 DEF Answers
  <2>3. n.at + 1 \in Nat
    BY <2>1
  <2> QED BY <2>2, <2>3
<1>5. request' = [request EXCEPT ![c] = Passed(n, k, all, code)]
  <2>1. request' = [request EXCEPT ![c].at = k, ![c].answers = all, ![c].status = code]
    BY <1>1, <1>2, <1>3, <1>4 DEF Wire!HandleScalar, WireTypes
  <2> QED BY <1>1, <2>1 DEF Passed, WireTypes
<1>6. /\ Passed(n, k, all, code) \in Requests /\ Same(Passed(n, k, all, code), n)
      /\ Passed(n, k, all, code).pc = n.pc /\ Passed(n, k, all, code).at = k
      /\ Passed(n, k, all, code).state = n.state /\ Passed(n, k, all, code).answers = all
  BY PassedTyped
<1>7. OnChannel(n.answers, n.channel) => OnChannel(all, n.channel)
  <2>1. n.answers \in Answers
    BY DEF Requests
  <2> QED BY <2>1, <1>3, <1>4, Joined
<1>8. UNCHANGED <<sessions, known, metrics, inits>>
  BY DEF Wire!HandleScalar
<1>9. Moves(c)
  BY <1>1, <1>4, <1>5, <1>6, <1>7 DEF Moves
<1> QED BY <1>8, <1>9

LEMMA HandleModernTyped ==
  ASSUME NEW m \in Messages, NEW channel \in Names
  PROVE  /\ Wire!HandleModern(m, channel).answer \in Answers
         /\ OnChannel(Wire!HandleModern(m, channel).answer, channel)
<1> DEFINE done == Wire!HandleModern(m, channel)
<1>1. \A code \in Int, ch \in {"none", channel} :
        /\ Wire!Answered(m.id, code, ch) \in Answers
        /\ OnChannel(Wire!Answered(m.id, code, ch), channel)
  BY DEF Wire!Answered, Replies, Names, Messages, Answers, OnChannel
<1>2. Wire!Nothing \in Answers /\ OnChannel(Wire!Nothing, channel)
  BY DEF Wire!Nothing, Answers, OnChannel
<1>3. \/ done.answer = Wire!Nothing
      \/ done.answer = Wire!CallAnswer(m, channel)
      \/ done.answer = Wire!Answered(m.id, -32602, "none")
      \/ done.answer = Wire!Answered(m.id, -32022, "none")
      \/ done.answer = Wire!Answered(m.id, 0, "none")
      \/ done.answer = Wire!Answered(m.id, -32601, "none")
  BY DEF Wire!HandleModern, Wire!Result, Wire!Error
<1>4. \/ Wire!CallAnswer(m, channel) = Wire!Answered(m.id, 0, channel)
      \/ Wire!CallAnswer(m, channel) = Wire!Answered(m.id, -32603, "none")
      \/ Wire!CallAnswer(m, channel) = Wire!Answered(m.id, -32602, "none")
  BY DEF Wire!CallAnswer, Wire!Result, Wire!Error
<1> HIDE DEF done
<1>5. done.answer = Wire!Nothing
      \/ \E code \in Int, ch \in {"none", channel} : done.answer = Wire!Answered(m.id, code, ch)
  BY <1>3, <1>4
<1> QED BY <1>1, <1>2, <1>5 DEF done

LEMMA ModernMoves ==
  ASSUME Parsed, WireTypes, NEW c \in Clients, Wire!HandleModernMessage(c)
  PROVE  Moves(c) /\ UNCHANGED <<sessions, known, metrics, inits>>
<1>1. PICK n \in Requests : n = request[c]
  BY DEF WireTypes
<1>2. Wire!Message(c) \in Messages
  BY MessageTyped DEF Wire!HandleModernMessage
<1>3. PICK a \in Answers : /\ a = Wire!HandleModern(Wire!Message(c), request[c].channel).answer
                           /\ OnChannel(a, n.channel)
  <2>1. request[c].channel \in Names
    BY <1>1 DEF Requests
  <2> QED BY <1>1, <1>2, <2>1, HandleModernTyped
<1>4. PICK code \in Nat : code = IF Wire!HandleModern(Wire!Message(c), request[c].channel).hint = "missing"
                                THEN 404 ELSE request[c].status
  BY <1>1 DEF Requests
<1>5. PICK all \in Answers, k \in Nat : all = n.answers \o a /\ k = n.at + 1
  <2>1. n.answers \in Answers /\ n.at \in Nat
    BY DEF Requests
  <2>2. n.answers \o a \in Answers
    BY <2>1 DEF Answers
  <2>3. n.at + 1 \in Nat
    BY <2>1
  <2> QED BY <2>2, <2>3
<1>6. request' = [request EXCEPT ![c] = Passed(n, k, all, code)]
  <2>1. request' = [request EXCEPT ![c].at = k, ![c].answers = all, ![c].status = code]
    BY <1>1, <1>3, <1>4, <1>5 DEF Wire!HandleModernMessage, WireTypes
  <2> QED BY <1>1, <2>1 DEF Passed, WireTypes
<1>7. /\ Passed(n, k, all, code) \in Requests /\ Same(Passed(n, k, all, code), n)
      /\ Passed(n, k, all, code).pc = n.pc /\ Passed(n, k, all, code).at = k
      /\ Passed(n, k, all, code).state = n.state /\ Passed(n, k, all, code).answers = all
  BY PassedTyped
<1>8. OnChannel(n.answers, n.channel) => OnChannel(all, n.channel)
  <2>1. n.answers \in Answers
    BY DEF Requests
  <2> QED BY <2>1, <1>3, <1>5, Joined
<1>9. UNCHANGED <<sessions, known, metrics, inits>>
  BY DEF Wire!HandleModernMessage
<1>10. Moves(c)
  BY <1>1, <1>5, <1>6, <1>7, <1>8 DEF Moves
<1> QED BY <1>9, <1>10

(* What an initialize does to the request and to its session.              *)
Initialized(c) ==
  LET asks == Wire!Message(c).method = "initialize"
  IN /\ request[c].state.legacy /\ asks => request'[c].pc = "answered" /\ inits' = inits
     /\ ~request[c].state.legacy /\ asks =>
          /\ request'[c].pc = "answered" \/ request'[c].state.legacy
          /\ inits' = [inits EXCEPT ![request[c].session] = @ + 1]
     /\ ~asks => inits' = inits

LEMMA LegacyMoves ==
  ASSUME Parsed, WireTypes, NEW c \in Clients, Wire!HandleLegacyMessage(c)
  PROVE  Moves(c) /\ Initialized(c) /\ UNCHANGED <<sessions, known, metrics>>
<1>1. PICK n \in Requests : n = request[c]
  BY DEF WireTypes
<1>2. PICK m \in Messages : m = Wire!Message(c)
  BY MessageTyped DEF Wire!HandleLegacyMessage
<1>3. n.channel \in Names /\ n.state \in States /\ n.answers \in Answers /\ n.at \in Nat
      /\ n.pc = "handle"
  BY <1>1 DEF Requests, Wire!HandleLegacyMessage, Wire!Handling
<1> DEFINE done == Wire!HandleLegacy(n.state, m, n.channel)
<1>4. /\ done.state \in States /\ done.answer \in Answers /\ OnChannel(done.answer, n.channel)
      /\ n.state.legacy => done.state.legacy
      /\ IF m.method = "initialize"
         THEN IF n.state.legacy THEN done.hint = "bad" ELSE done.hint = "ok" /\ done.state.legacy
         ELSE done.hint # "bad"
  BY <1>3, HandleLegacyTyped DEF Answers, OnChannel
<1>5. /\ request' = [request EXCEPT ![c] =
           IF done.hint = "bad" THEN [@ EXCEPT !.pc = "answered", !.answers = done.answer, !.status = 400]
           ELSE [@ EXCEPT !.at = request[c].at + 1, !.answers = request[c].answers \o done.answer,
                          !.state = done.state]]
      /\ inits' = IF m.method = "initialize" /\ done.hint = "ok"
                  THEN [inits EXCEPT ![n.session] = @ + 1] ELSE inits
      /\ UNCHANGED <<sessions, known, metrics>>
  BY <1>1, <1>2 DEF Wire!HandleLegacyMessage
<1> HIDE DEF done
<1>6. PICK a \in Answers, st \in States : a = done.answer /\ st = done.state
  BY <1>4
<1>7. CASE done.hint = "bad"
  <2>1. request' = [request EXCEPT ![c] = Rejected(n, a)]
    BY <1>1, <1>5, <1>6, <1>7 DEF Rejected
  <2>2. Rejected(n, a) \in Requests /\ Same(Rejected(n, a), n) /\ Rejected(n, a).pc = "answered"
        /\ Rejected(n, a).answers = a
    BY RejectedTyped
  <2>3. Moves(c)
    BY <1>1, <1>4, <1>6, <2>1, <2>2 DEF Moves
  <2>4. request'[c].pc = "answered" /\ inits' = inits
    BY <1>5, <1>7, <2>1, <2>2 DEF WireTypes
  <2>5. Initialized(c)
    BY <1>1, <1>2, <1>4, <1>7, <2>4 DEF Initialized
  <2> QED BY <1>5, <2>3, <2>5
<1>8. CASE done.hint # "bad"
  <2>1. PICK all \in Answers, k \in Nat : all = n.answers \o a /\ k = n.at + 1
    <3>1. n.answers \o a \in Answers
      BY <1>3 DEF Answers
    <3>2. n.at + 1 \in Nat
      BY <1>3
    <3> QED BY <3>1, <3>2
  <2>2. request' = [request EXCEPT ![c] = Handled(n, k, all, st)]
    <3>1. request' = [request EXCEPT ![c] =
            [request[c] EXCEPT !.at = request[c].at + 1, !.answers = request[c].answers \o done.answer,
                               !.state = done.state]]
      BY <1>5, <1>8
    <3>2. request[c].at + 1 = k /\ request[c].answers \o done.answer = all /\ done.state = st
      BY <1>1, <1>6, <2>1
    <3> QED BY <3>1, <3>2, <1>1 DEF Handled
  <2>3. /\ Handled(n, k, all, st) \in Requests /\ Same(Handled(n, k, all, st), n)
        /\ Handled(n, k, all, st).at = k /\ Handled(n, k, all, st).state = st
        /\ Handled(n, k, all, st).answers = all
    BY HandledTyped
  <2>4. OnChannel(n.answers, n.channel) => OnChannel(all, n.channel)
    BY <1>3, <1>4, <1>6, <2>1, Joined
  <2>5. Moves(c)
    BY <1>1, <1>4, <1>6, <2>1, <2>2, <2>3, <2>4 DEF Moves
  <2>6. request'[c].state = st
    BY <2>2, <2>3 DEF WireTypes
  <2>7. Initialized(c)
    BY <1>1, <1>2, <1>4, <1>5, <1>6, <1>8, <2>6 DEF Initialized
  <2> QED BY <1>5, <2>5, <2>7
<1> QED BY <1>7, <1>8

LEMMA FinishMoves ==
  ASSUME Parsed, WireTypes, NEW c \in Clients, Wire!Finish(c)
  PROVE  Moves(c) /\ request'[c].pc = "answered"
<1>1. PICK n \in Requests : n = request[c]
  BY DEF WireTypes
<1>2. PICK code \in Nat : code = IF request[c].answers = <<>> THEN 202 ELSE request[c].status
  BY <1>1 DEF Requests
<1>3. request' = [request EXCEPT ![c] = Finished(n, code)]
  <2>1. request' = [request EXCEPT ![c].pc = "answered", ![c].status = code]
    BY <1>2 DEF Wire!Finish
  <2> QED BY <1>1, <2>1 DEF Finished, WireTypes
<1>4. /\ Finished(n, code) \in Requests /\ Same(Finished(n, code), n) /\ Finished(n, code).pc = "answered"
      /\ Finished(n, code).answers = n.answers
  BY FinishedTyped
<1>5. request'[c].pc = "answered"
  BY <1>3, <1>4 DEF WireTypes
<1> QED BY <1>1, <1>3, <1>4, <1>5 DEF Moves

(* What the steps do to requests and sessions: a request is over, enters a *)
(* session, opens one, speaks without one, or ends; the table of sessions  *)
(* changes by itself.                                                      *)
Resets(c) ==
  /\ \E r \in Requests : /\ request' = [request EXCEPT ![c] = r]
                         /\ r.pc # "handle" /\ r.session = 0 /\ r.answers = <<>> /\ r.era = "legacy"
  /\ UNCHANGED <<sessions, known, metrics, inits>>
Retained(id) == sessions'[id] \in Entries /\ sessions'[id].initialized = sessions[id].initialized
                /\ sessions'[id].channel = sessions[id].channel
Enters(c) ==
  /\ \E r \in Requests :
       /\ request' = [request EXCEPT ![c] = r] /\ r.session \in known \cap DOMAIN sessions
       /\ r.pc = "handle" /\ r.era = "legacy" /\ ~r.fresh /\ r.at = 1 /\ r.answers = <<>>
       /\ r.state.legacy = sessions[r.session].initialized
       /\ r.channel = sessions[r.session].channel
  /\ DOMAIN sessions' = DOMAIN sessions /\ \A id \in DOMAIN sessions : Retained(id)
  /\ UNCHANGED <<known, metrics, inits>>
Creates(c) ==
  LET new == metrics.created + 1
  IN /\ \E r \in Requests :
          /\ request' = [request EXCEPT ![c] = r] /\ r.session = new
          /\ r.pc = "handle" /\ r.era = "legacy" /\ r.fresh /\ r.at = 1 /\ r.answers = <<>>
          /\ Len(r.body) = 1 /\ r.body[1].method = "initialize" /\ ~r.state.legacy
          /\ r.channel = sessions'[new].channel
     /\ DOMAIN sessions' = DOMAIN sessions \cup {new} /\ sessions'[new] \in Entries
     /\ \A id \in DOMAIN sessions : sessions'[id] = sessions[id]
     /\ inits' = [k \in Created \cup {new} |-> IF k = new THEN 0 ELSE inits[k]]
     /\ metrics' \in Counts /\ metrics'.created = new /\ known' = known
Speaks(c) ==
  /\ \E r \in Requests : /\ request' = [request EXCEPT ![c] = r] /\ r.era = "modern" /\ r.session = 0
                         /\ r.at = 1 /\ r.channel = r.asked /\ r.answers = <<>>
  /\ UNCHANGED <<sessions, known, metrics, inits>>
Advances(c) ==
  /\ Moves(c) /\ (request[c].era = "legacy" => Wire!Message(c).method = "scalar")
  /\ Wire!Handling(c) /\ UNCHANGED <<sessions, known, metrics, inits>>
Ends(c) ==
  /\ Moves(c) /\ request'[c].pc = "answered"
  /\ request[c].pc = "handle" /\ request[c].at > Len(request[c].body)
  /\ sessions' = IF request[c].era = "legacy" THEN Wire!WriteBack(c) ELSE sessions
  /\ known' = known \cup ({request[c].session} \ {0})
  /\ UNCHANGED <<metrics, inits>>
Ages ==
  /\ DOMAIN sessions' \subseteq DOMAIN sessions /\ \A id \in DOMAIN sessions' : Retained(id)
  /\ metrics' \in Counts /\ metrics'.created = metrics.created
  /\ UNCHANGED <<known, request, inits>>

LEMMA ResetsOf ==
  ASSUME WireTypes, NEW c \in Clients, UNCHANGED <<sessions, known, metrics, inits>>,
         (\E code \in Nat : Wire!Refuse(c, code)) \/ request' = [request EXCEPT ![c] = Wire!NoRequest]
  PROVE  Resets(c)
<1>1. CASE request' = [request EXCEPT ![c] = Wire!NoRequest]
  BY <1>1, FreshTyped DEF Resets, Wire!NoRequest
<1>2. ASSUME NEW code \in Nat, Wire!Refuse(c, code)
      PROVE  Resets(c)
  <2>1. PICK n \in Requests : n = Wire!NoRequest
    BY FreshTyped
  <2>2. Finished(n, code) \in Requests /\ Same(Finished(n, code), n) /\ Finished(n, code).pc = "answered"
        /\ Finished(n, code).answers = n.answers
    BY FinishedTyped
  <2>3. n.answers = <<>> /\ n.session = 0 /\ n.era = "legacy"
    BY <2>1 DEF Wire!NoRequest
  <2>4. request' = [request EXCEPT ![c] = Finished(n, code)]
    BY <1>2, <2>1 DEF Wire!Refuse, Finished
  <2> QED BY <2>2, <2>3, <2>4 DEF Resets, Same
<1> QED BY <1>1, <1>2

LEMMA EntersOf ==
  ASSUME Parsed, WireTypes, NEW c \in Clients, NEW body \in Bodies, NEW version, NEW id \in known \cup {0},
         NEW channel \in Channels, Wire!PostInSession(c, body, version, id, channel)
  PROVE  Enters(c)
<1> DEFINE state == [Wire!Fresh EXCEPT !.legacy = sessions[id].initialized]
           r == InSession(id, body.messages, state, sessions[id].channel, channel)
<1>1. id \in DOMAIN sessions /\ id \in Nat /\ sessions[id] \in Entries /\ id \in known
  BY DEF Wire!PostInSession, WireTypes, Created
<1>2. state \in States /\ state.legacy = sessions[id].initialized
  BY <1>1 DEF Wire!Fresh, States, Entries
<1>3. body.messages \in Lists /\ channel \in Names /\ sessions[id].channel \in Names
  BY <1>1 DEF Names, Lists, Entries, Parsed
<1>4. request' = [request EXCEPT ![c] = r] /\ UNCHANGED <<known, metrics, inits>>
      /\ sessions' = [sessions EXCEPT ![id].idle = 0]
  BY DEF Wire!PostInSession, InSession, Wire!Kept
<1> HIDE DEF state
<1>5. /\ r \in Requests
      /\ r.pc = "handle" /\ r.era = "legacy" /\ r.session = id /\ ~r.fresh /\ r.at = 1
      /\ r.state = state /\ r.channel = sessions[id].channel /\ r.answers = <<>>
  BY <1>1, <1>2, <1>3, JoinPosted
<1>6. DOMAIN sessions' = DOMAIN sessions /\ \A k \in DOMAIN sessions : Retained(k)
  BY <1>1, <1>4 DEF WireTypes, Retained, Entries
<1> HIDE DEF r
<1> QED BY <1>1, <1>2, <1>4, <1>5, <1>6 DEF Enters

LEMMA CreatesOf ==
  ASSUME Parsed, WireTypes, NEW c \in Clients, NEW body \in Bodies, NEW version, NEW id \in known \cup {0},
         NEW channel \in Channels, Wire!PostInitialize(c, body, version, id, channel)
  PROVE  Creates(c)
<1> DEFINE new == metrics.created + 1
           session == [initialized |-> FALSE, channel |-> channel, idle |-> 0]
           r == Initializes(new, body.messages, channel)
<1>1. /\ sessions' = [k \in DOMAIN sessions \cup {new} |-> IF k = new THEN session ELSE sessions[k]]
      /\ inits' = [k \in DOMAIN inits \cup {new} |-> IF k = new THEN 0 ELSE inits[k]]
      /\ request' = [request EXCEPT ![c] = r]
      /\ metrics' = [metrics EXCEPT !.created = @ + 1] /\ known' = known
      /\ Wire!IsInitialize(body)
  BY DEF Wire!PostInitialize, Initializes
<1>2. new \in Nat /\ new \notin DOMAIN sessions /\ DOMAIN inits = Created
  BY DEF WireTypes, Counts, Created
<1>3. metrics' \in Counts /\ metrics'.created = new
  BY <1>1, <1>2 DEF WireTypes, Counts
<1>4. session \in Entries /\ session.channel = channel
  BY DEF Entries
<1>5. body.messages \in Lists /\ channel \in Names /\ Len(body.messages) = 1
      /\ body.messages[1].method = "initialize"
  BY <1>1 DEF Names, Lists, Parsed, Wire!IsInitialize
<1> HIDE DEF session
<1>6. /\ r \in Requests
      /\ r.pc = "handle" /\ r.era = "legacy" /\ r.session = new /\ r.fresh /\ r.at = 1
      /\ r.body = body.messages /\ ~r.state.legacy /\ r.channel = channel /\ r.answers = <<>>
  <2> HIDE DEF new
  <2> QED BY <1>2, <1>5, OpenPosted, FreshTyped
<1> HIDE DEF r
<1>7. /\ DOMAIN sessions' = DOMAIN sessions \cup {new} /\ sessions'[new] = session
      /\ \A k \in DOMAIN sessions : sessions'[k] = sessions[k]
  <2> HIDE DEF new
  <2> QED BY <1>1, <1>2
<1>8. /\ request' = [request EXCEPT ![c] = r] /\ r.session = new
      /\ r.pc = "handle" /\ r.era = "legacy" /\ r.fresh /\ r.at = 1 /\ r.answers = <<>>
      /\ Len(r.body) = 1 /\ r.body[1].method = "initialize" /\ ~r.state.legacy
      /\ r.channel = sessions'[new].channel
  BY <1>1, <1>4, <1>5, <1>6, <1>7
<1> QED BY <1>1, <1>2, <1>3, <1>4, <1>6, <1>7, <1>8 DEF Creates

LEMMA SpeaksOf ==
  ASSUME Parsed, WireTypes, NEW c \in Clients, NEW body \in Bodies, NEW version, NEW method,
         NEW channel \in Channels, Wire!PostModern(c, body, version, method, channel)
  PROVE  Resets(c) \/ Speaks(c)
<1> DEFINE r == IsModern(body.messages, channel)
<1>1. body.messages \in Lists /\ channel \in Names
  BY DEF Names, Lists, Parsed
<1>2. /\ r \in Requests /\ r.era = "modern" /\ r.session = 0
      /\ r.at = 1 /\ r.channel = channel /\ r.asked = channel /\ r.answers = <<>>
  BY <1>1, ModernPosted
<1>3. Wire!Refuse(c, 400) \/ request' = [request EXCEPT ![c] = r]
  BY DEF Wire!PostModern, IsModern
<1>4. UNCHANGED <<sessions, known, metrics, inits>>
  BY DEF Wire!PostModern
<1> HIDE DEF r
<1> QED BY <1>2, <1>3, <1>4, ResetsOf DEF Speaks

LEMMA AgesOf ==
  ASSUME Parsed, WireTypes,
         \/ (\E id \in known : Wire!Delete(id)) \/ (\E id \in Wire!Ids : Wire!Watchdog(id))
         \/ Wire!Tick
         \/ \E body \in Bodies, channel \in Channels : Wire!Line(body, channel)
  PROVE  Ages
<1>1. ASSUME NEW id, sessions' = Wire!Gone(id)
      PROVE  DOMAIN sessions' \subseteq DOMAIN sessions /\ \A k \in DOMAIN sessions' : Retained(k)
  BY <1>1 DEF WireTypes, Retained, Wire!Gone
<1>2. ASSUME sessions' = sessions
      PROVE  DOMAIN sessions' \subseteq DOMAIN sessions /\ \A k \in DOMAIN sessions' : Retained(k)
  BY <1>2 DEF WireTypes, Retained
<1>3. ASSUME NEW id \in known, Wire!Delete(id) PROVE Ages
  <2>1. metrics' \in Counts /\ metrics'.created = metrics.created
    BY <1>3 DEF Wire!Delete, WireTypes, Counts
  <2> QED BY <1>3, <1>1, <2>1 DEF Wire!Delete, Ages
<1>4. ASSUME NEW id \in Wire!Ids, Wire!Watchdog(id) PROVE Ages
  <2>1. \/ UNCHANGED <<sessions, metrics>>
        \/ sessions' = Wire!Gone(id) /\ metrics' = [metrics EXCEPT !.evicted = @ + 1, !.closed = @ + 1]
    BY <1>4 DEF Wire!Watchdog
  <2>2. metrics' \in Counts /\ metrics'.created = metrics.created
    <3>1. metrics' = metrics \/ metrics' = [metrics EXCEPT !.evicted = @ + 1, !.closed = @ + 1]
      BY <2>1
    <3>2. metrics \in Counts
      BY DEF WireTypes
    <3>3. ASSUME NEW n \in Counts, NEW e \in Nat, NEW d \in Nat
          PROVE  /\ [n EXCEPT !.evicted = e, !.closed = d] \in Counts
                 /\ [n EXCEPT !.evicted = e, !.closed = d].created = n.created
      BY DEF Counts
    <3>4. metrics.evicted + 1 \in Nat /\ metrics.closed + 1 \in Nat
      BY <3>2 DEF Counts
    <3>5. PICK n \in Counts, e \in Nat, d \in Nat :
            n = metrics /\ e = metrics.evicted + 1 /\ d = metrics.closed + 1
      BY <3>2, <3>4
    <3>6. metrics' = n \/ metrics' = [n EXCEPT !.evicted = e, !.closed = d]
      BY <3>1, <3>5
    <3>7. [n EXCEPT !.evicted = e, !.closed = d] \in Counts
          /\ [n EXCEPT !.evicted = e, !.closed = d].created = n.created
      BY <3>3
    <3> QED BY <3>5, <3>6, <3>7
  <2>3. UNCHANGED <<known, request, inits>>
    BY <1>4 DEF Wire!Watchdog
  <2> QED BY <1>1, <1>2, <2>1, <2>2, <2>3 DEF Ages
<1>5. ASSUME Wire!Tick PROVE Ages
  <2>1. sessions' = [k \in DOMAIN sessions |-> [sessions[k] EXCEPT !.idle = @ + 1]]
        /\ UNCHANGED <<known, request, metrics, inits>>
    BY <1>5 DEF Wire!Tick
  <2>2. ASSUME NEW k \in DOMAIN sessions PROVE Retained(k)
    BY <2>1 DEF WireTypes, Retained, Entries
  <2> QED BY <2>1, <2>2 DEF Ages, WireTypes
<1>6. ASSUME NEW body \in Bodies, NEW channel \in Channels, Wire!Line(body, channel) PROVE Ages
  <2>1. UNCHANGED <<sessions, known, request, metrics, inits>>
    BY <1>6 DEF Wire!Line
  <2> QED BY <1>2, <2>1 DEF Ages, WireTypes
<1> QED BY <1>3, <1>4, <1>5, <1>6

LEMMA Effects ==
  ASSUME Parsed, WireTypes, [Wire!Next]_(Wire!vars)
  PROVE  \/ Ages
         \/ \E c \in Clients : \/ Resets(c) \/ Enters(c) \/ Creates(c) \/ Speaks(c) \/ Advances(c)
                               \/ Wire!HandleLegacyMessage(c) \/ Ends(c)
<1> DEFINE Effect1 == \/ Ages
                      \/ \E c \in Clients : \/ Resets(c) \/ Enters(c) \/ Creates(c) \/ Speaks(c)
                                            \/ Advances(c) \/ Wire!HandleLegacyMessage(c) \/ Ends(c)
<1>1. CASE UNCHANGED Wire!vars
  <2>1. Ages
    BY <1>1 DEF Wire!vars, Ages, WireTypes, Retained
  <2> QED BY <2>1
<1>2. ASSUME NEW c \in Clients, NEW body \in Bodies, NEW version, NEW id \in known \cup {0},
             NEW channel \in Channels,
             \/ Wire!PostInSession(c, body, version, id, channel)
             \/ Wire!PostOutside(c, body, version, id)
             \/ Wire!PostInitialize(c, body, version, id, channel)
             \/ \E method \in BOOLEAN : Wire!PostModern(c, body, version, method, channel)
             \/ version = "modern" /\ Wire!HeaderWithoutEnvelope(c, body)
      PROVE  Effect1
  <2>1. CASE Wire!PostInSession(c, body, version, id, channel)
    BY <2>1, EntersOf
  <2>2. CASE Wire!PostOutside(c, body, version, id)
    <3>1. \E code \in Nat : Wire!Refuse(c, code)
      BY <2>2 DEF Wire!PostOutside
    <3>2. UNCHANGED <<sessions, known, metrics, inits>>
      BY <2>2 DEF Wire!PostOutside
    <3> QED BY <3>1, <3>2, ResetsOf
  <2>3. CASE Wire!PostInitialize(c, body, version, id, channel)
    BY <2>3, CreatesOf
  <2>4. CASE \E method \in BOOLEAN : Wire!PostModern(c, body, version, method, channel)
    BY <2>4, SpeaksOf
  <2>5. CASE Wire!HeaderWithoutEnvelope(c, body)
    <3>1. Wire!Refuse(c, 400) /\ UNCHANGED <<sessions, known, metrics, inits>>
      BY <2>5 DEF Wire!HeaderWithoutEnvelope
    <3> QED BY <3>1, ResetsOf
  <2> QED BY <1>2, <2>1, <2>2, <2>3, <2>4, <2>5
<1>3. ASSUME NEW c \in Clients,
             \/ Wire!Unsound(c) \/ Wire!HandleScalar(c) \/ Wire!HandleModernMessage(c)
             \/ Wire!HandleLegacyMessage(c) \/ Wire!Finish(c) \/ Wire!Leave(c)
      PROVE  Effect1
  <2>1. CASE Wire!Unsound(c)
    <3>1. Wire!Refuse(c, 400) /\ UNCHANGED <<sessions, known, metrics, inits>>
      BY <2>1 DEF Wire!Unsound
    <3> QED BY <3>1, ResetsOf
  <2>2. CASE Wire!HandleScalar(c)
    <3>1. Wire!Handling(c) /\ Wire!Message(c).method = "scalar"
      BY <2>2 DEF Wire!HandleScalar
    <3> QED BY <2>2, <3>1, ScalarMoves DEF Advances
  <2>3. CASE Wire!HandleModernMessage(c)
    <3>1. Wire!Handling(c) /\ request[c].era = "modern"
      BY <2>3 DEF Wire!HandleModernMessage
    <3> QED BY <2>3, <3>1, ModernMoves DEF Advances
  <2>4. CASE Wire!HandleLegacyMessage(c)
    BY <2>4
  <2>5. CASE Wire!Finish(c)
    <3>1. /\ request[c].pc = "handle" /\ request[c].at > Len(request[c].body)
          /\ sessions' = IF request[c].era = "legacy" THEN Wire!WriteBack(c) ELSE sessions
          /\ known' = known \cup ({request[c].session} \ {0})
          /\ UNCHANGED <<metrics, inits>>
      BY <2>5 DEF Wire!Finish
    <3> QED BY <2>5, <3>1, FinishMoves DEF Ends
  <2>6. CASE Wire!Leave(c)
    <3>1. request' = [request EXCEPT ![c] = Wire!NoRequest] /\ UNCHANGED <<sessions, known, metrics, inits>>
      BY <2>6 DEF Wire!Leave
    <3> QED BY <3>1, ResetsOf
  <2> QED BY <1>3, <2>1, <2>2, <2>3, <2>4, <2>5, <2>6
<1>4. ASSUME \/ (\E id \in known : Wire!Delete(id)) \/ (\E id \in Wire!Ids : Wire!Watchdog(id))
             \/ Wire!Tick
             \/ \E body \in Bodies, channel \in Channels : Wire!Line(body, channel)
      PROVE  Effect1
  BY <1>4, AgesOf
<1>5. CASE Wire!Next
  BY <1>5, <1>2, <1>3, <1>4 DEF Wire!Next
<1> QED BY <1>1, <1>5

LEMMA TypesInit == ASSUME Parsed, Wire!Init PROVE WireTypes
<1>1. request \in [Clients -> Requests] /\ \A c \in Clients : request[c] = Wire!NoRequest
  BY FreshTyped DEF Wire!Init
<1>2. metrics \in Counts /\ Created = {}
  BY DEF Wire!Init, Created, Counts
<1>3. DOMAIN sessions = {} /\ inits \in [{} -> Nat] /\ known = {}
  BY DEF Wire!Init
<1>4. Wire!NoRequest.era = "legacy"
  BY DEF Wire!NoRequest
<1> QED BY <1>1, <1>2, <1>3, <1>4, FreshTyped DEF WireTypes

(* What WireTypes says of one request.                                     *)
Bound(r) ==
  /\ r \in Requests /\ r.session \in Created \cup {0}
  /\ r.pc = "handle" => r.at > 0
  /\ r.era = "modern" => r.session = 0
  /\ r.pc = "handle" /\ r.era = "legacy" => r.session \in Created

LEMMA TypesStep ==
  ASSUME Parsed, WireTypes, [Wire!Next]_(Wire!vars)
  PROVE  WireTypes'
<1>1. ASSUME NEW c \in Clients, NEW r \in Requests, Bound(r), request' = [request EXCEPT ![c] = r],
             UNCHANGED metrics, known' \subseteq Created, DOMAIN sessions' \subseteq Created,
             inits' \in [Created -> Nat], \A id \in DOMAIN sessions' : sessions'[id] \in Entries
      PROVE  WireTypes'
  <2>1. Created' = Created
    BY <1>1 DEF Created
  <2>2. request' \in [Clients -> Requests]
    BY <1>1 DEF WireTypes
  <2>3. ASSUME NEW d \in Clients
        PROVE  /\ request'[d].pc = "handle" => request'[d].at > 0
               /\ request'[d].session \in Created \cup {0}
               /\ request'[d].era = "modern" => request'[d].session = 0
               /\ request'[d].pc = "handle" /\ request'[d].era = "legacy" => request'[d].session \in Created
    <3>1. CASE d = c
      BY <1>1, <3>1 DEF WireTypes, Bound
    <3>2. CASE d # c
      BY <1>1, <3>2 DEF WireTypes
    <3> QED BY <3>1, <3>2
  <2> QED BY <1>1, <2>1, <2>2, <2>3 DEF WireTypes
<1>2. ASSUME NEW c \in Clients, Moves(c)
      PROVE  \E r \in Requests : request' = [request EXCEPT ![c] = r] /\ (request[c].pc = "handle" => Bound(r))
  <2>1. PICK r \in Requests : /\ request' = [request EXCEPT ![c] = r] /\ Same(r, request[c])
                              /\ r.pc = "handle" => r.at = request[c].at + 1
    BY <1>2 DEF Moves
  <2>2. request[c].at \in Nat
    BY DEF WireTypes, Requests
  <2>3. request[c].pc = "handle" => Bound(r)
    BY <2>1, <2>2 DEF Bound, Same, WireTypes
  <2> QED BY <2>1, <2>3
<1>3. ASSUME UNCHANGED <<sessions, known, metrics, inits>>
      PROVE  /\ UNCHANGED metrics /\ known' \subseteq Created /\ DOMAIN sessions' \subseteq Created
             /\ inits' \in [Created -> Nat] /\ \A id \in DOMAIN sessions' : sessions'[id] \in Entries
  BY <1>3 DEF WireTypes
<1>4. CASE Ages
  <2>1. Created' = Created
    BY <1>4 DEF Ages, Created
  <2>2. \A id \in DOMAIN sessions' : sessions'[id] \in Entries
    BY <1>4 DEF Ages, Retained
  <2> QED BY <1>4, <2>1, <2>2 DEF Ages, WireTypes
<1>5. ASSUME NEW c \in Clients, Resets(c) PROVE WireTypes'
  <2>1. PICK r \in Requests : /\ request' = [request EXCEPT ![c] = r]
                              /\ r.pc # "handle" /\ r.session = 0
    BY <1>5 DEF Resets
  <2>2. UNCHANGED <<sessions, known, metrics, inits>> /\ Bound(r)
    BY <1>5, <2>1 DEF Resets, Bound
  <2> QED BY <1>1, <1>3, <2>1, <2>2
<1>6. ASSUME NEW c \in Clients, Enters(c) PROVE WireTypes'
  <2>1. PICK r \in Requests :
          /\ request' = [request EXCEPT ![c] = r] /\ r.session \in known \cap DOMAIN sessions
          /\ r.era = "legacy" /\ r.at = 1
    BY <1>6 DEF Enters
  <2>2. Bound(r)
    BY <2>1 DEF Bound, WireTypes
  <2>3. /\ DOMAIN sessions' = DOMAIN sessions /\ \A id \in DOMAIN sessions : sessions'[id] \in Entries
        /\ UNCHANGED <<known, metrics, inits>>
    BY <1>6 DEF Enters, Retained
  <2> QED BY <1>1, <2>1, <2>2, <2>3 DEF WireTypes
<1>7. ASSUME NEW c \in Clients, Creates(c) PROVE WireTypes'
  <2> DEFINE new == metrics.created + 1
  <2>1. PICK r \in Requests :
          /\ request' = [request EXCEPT ![c] = r] /\ r.session = new
          /\ r.pc = "handle" /\ r.era = "legacy" /\ r.at = 1
    BY <1>7 DEF Creates
  <2>2. /\ DOMAIN sessions' = DOMAIN sessions \cup {new} /\ sessions'[new] \in Entries
        /\ \A id \in DOMAIN sessions : sessions'[id] = sessions[id]
        /\ inits' = [k \in Created \cup {new} |-> IF k = new THEN 0 ELSE inits[k]]
        /\ metrics' \in Counts /\ metrics'.created = new /\ known' = known
    BY <1>7 DEF Creates
  <2>3. metrics.created \in Nat
    BY DEF WireTypes, Counts
  <2>4. Created' = Created \cup {new} /\ new \notin Created
    BY <2>2, <2>3 DEF Created
  <2> HIDE DEF new
  <2>5. inits' \in [Created' -> Nat]
    BY <2>2, <2>4 DEF WireTypes
  <2>6. request' \in [Clients -> Requests]
    BY <2>1 DEF WireTypes
  <2>7. ASSUME NEW d \in Clients
        PROVE  /\ request'[d].pc = "handle" => request'[d].at > 0
               /\ request'[d].session \in Created' \cup {0}
               /\ request'[d].era = "modern" => request'[d].session = 0
               /\ request'[d].pc = "handle" /\ request'[d].era = "legacy" => request'[d].session \in Created'
    <3>1. CASE d = c
      BY <2>1, <2>4, <3>1 DEF WireTypes
    <3>2. CASE d # c
      BY <2>1, <2>4, <3>2 DEF WireTypes
    <3> QED BY <3>1, <3>2
  <2>8. /\ known' \subseteq Created' /\ DOMAIN sessions' \subseteq Created'
        /\ \A id \in DOMAIN sessions' : sessions'[id] \in Entries
    BY <2>2, <2>4 DEF WireTypes
  <2> QED BY <2>2, <2>5, <2>6, <2>7, <2>8 DEF WireTypes
<1>8. ASSUME NEW c \in Clients, Speaks(c) PROVE WireTypes'
  <2>1. PICK r \in Requests : /\ request' = [request EXCEPT ![c] = r] /\ r.era = "modern"
                              /\ r.session = 0 /\ r.at = 1
    BY <1>8 DEF Speaks
  <2>2. UNCHANGED <<sessions, known, metrics, inits>> /\ Bound(r)
    BY <1>8, <2>1 DEF Speaks, Bound
  <2> QED BY <1>1, <1>3, <2>1, <2>2
<1>9. ASSUME NEW c \in Clients, Advances(c) PROVE WireTypes'
  BY <1>9, <1>1, <1>2, <1>3 DEF Advances, Wire!Handling
<1>10. ASSUME NEW c \in Clients, Wire!HandleLegacyMessage(c) PROVE WireTypes'
  <2>1. Moves(c) /\ request[c].pc = "handle" /\ UNCHANGED <<sessions, known, metrics>>
    BY <1>10, LegacyMoves DEF Wire!HandleLegacyMessage, Wire!Handling
  <2>2. inits' \in [Created -> Nat]
    <3>1. request[c].session \in Created
      BY <1>10 DEF WireTypes, Wire!HandleLegacyMessage, Wire!Handling
    <3>2. inits' = inits \/ inits' = [inits EXCEPT ![request[c].session] = @ + 1]
      BY <1>10, LegacyMoves DEF Initialized
    <3> QED BY <3>1, <3>2 DEF WireTypes
  <2> QED BY <1>1, <1>2, <2>1, <2>2 DEF WireTypes
<1>11. ASSUME NEW c \in Clients, Ends(c) PROVE WireTypes'
  <2>1. PICK r \in Requests : request' = [request EXCEPT ![c] = r] /\ Bound(r)
    BY <1>2, <1>11 DEF Ends
  <2>2. known' \subseteq Created /\ UNCHANGED <<metrics, inits>>
    BY <1>11 DEF Ends, WireTypes
  <2>3. DOMAIN sessions' \subseteq Created /\ \A id \in DOMAIN sessions' : sessions'[id] \in Entries
    <3>1. request[c].state.legacy \in BOOLEAN
      BY DEF WireTypes, Requests, States
    <3>2. sessions' = sessions \/ sessions' = Wire!WriteBack(c)
      BY <1>11 DEF Ends
    <3> QED BY <3>1, <3>2 DEF Wire!WriteBack, WireTypes, Entries
  <2> QED BY <1>1, <2>1, <2>2, <2>3 DEF WireTypes
<1> QED BY <1>4, <1>5, <1>6, <1>7, <1>8, <1>9, <1>10, <1>11, Effects

(* The type invariant of the protocol, with the range of every identifier. *)
THEOREM WireTyped == ASSUME Parsed PROVE Wire!Spec => []WireTypes
<1>1. Wire!Init => WireTypes
  BY TypesInit
<1>2. WireTypes /\ [Wire!Next]_(Wire!vars) => WireTypes'
  BY TypesStep
<1> QED BY <1>1, <1>2, PTL DEF Wire!Spec

LEMMA SessionInit == ASSUME Parsed, Wire!Init PROVE SessionInv
<1>1. \A c \in Clients : request[c] = Wire!NoRequest
  BY DEF Wire!Init
<1>2. Created = {} /\ known = {}
  BY DEF Wire!Init, Created
<1> QED BY <1>1, <1>2, FreshTyped DEF SessionInv, Opens, Joins

(* The requests a step leaves alone keep what SessionInv says of them.     *)
LEMMA OthersKeep ==
  ASSUME WireTypes, SessionInv, NEW c \in Clients, NEW r, request' = [request EXCEPT ![c] = r],
         NEW d \in Clients, d # c, Created \subseteq Created',
         known \subseteq known', Opens(d) => request[d].session \notin known',
         Opens(d) => inits'[request[d].session] = inits[request[d].session]
  PROVE  (Opens(d) => Opening(d))' /\ (Joins(d) => Joining(d))'
<1>1. request'[d] = request[d]
  BY DEF WireTypes
<1>2. (Opens(d) => Opening(d)) /\ (Joins(d) => Joining(d))
  BY DEF SessionInv
<1>3. Opens(d)' = Opens(d) /\ Joins(d)' = Joins(d)
  BY <1>1 DEF Opens, Joins
<1>4. Opens(d) => Opening(d)'
  BY <1>1, <1>2 DEF Opening
<1>5. Joins(d) => Joining(d)'
  BY <1>1, <1>2 DEF Joining
<1> QED BY <1>3, <1>4, <1>5

LEMMA SessionStep ==
  ASSUME Parsed, WireTypes, SessionInv, [Wire!Next]_(Wire!vars)
  PROVE  SessionInv'
<1>0. /\ \A id \in known \cap DOMAIN sessions : sessions[id].initialized
      /\ \A id \in Created : inits[id] <= 1
      /\ \A c \in Clients : (Opens(c) => Opening(c)) /\ (Joins(c) => Joining(c))
      /\ \A c, d \in Clients : Opens(c) /\ Opens(d) /\ request[c].session = request[d].session => c = d
  BY DEF SessionInv
<1>1. ASSUME NEW c \in Clients, NEW r \in Requests, request' = [request EXCEPT ![c] = r],
             UNCHANGED <<known, inits>>, Created' = Created,
             \A id \in known \cap DOMAIN sessions' : id \in DOMAIN sessions /\ sessions'[id].initialized = sessions[id].initialized,
             Opens(c)' => Opens(c) /\ r.session = request[c].session,
             (Opens(c) => Opening(c))' /\ (Joins(c) => Joining(c))'
      PROVE  SessionInv'
  <2>1. \A id \in known' \cap DOMAIN sessions' : sessions'[id].initialized
    BY <1>0, <1>1
  <2>2. \A id \in Created' : inits'[id] <= 1
    BY <1>0, <1>1
  <2>3. \A d \in Clients : (Opens(d) => Opening(d))' /\ (Joins(d) => Joining(d))'
    <3> SUFFICES ASSUME NEW d \in Clients PROVE (Opens(d) => Opening(d))' /\ (Joins(d) => Joining(d))'
      OBVIOUS
    <3>1. d # c => (Opens(d) => request[d].session \notin known')
      BY <1>0, <1>1 DEF Opening
    <3> QED BY <1>1, <3>1, OthersKeep
  <2>4. \A d \in Clients : Opens(d)' => Opens(d) /\ request'[d].session = request[d].session
    BY <1>1 DEF WireTypes, Opens
  <2>5. \A d, e \in Clients : Opens(d)' /\ Opens(e)' /\ request'[d].session = request'[e].session => d = e
    BY <1>0, <2>4
  <2> QED BY <2>1, <2>2, <2>3, <2>5 DEF SessionInv
<1>2. ASSUME UNCHANGED <<sessions, known, metrics, inits>>
      PROVE  /\ UNCHANGED <<known, inits>> /\ Created' = Created
             /\ \A id \in known \cap DOMAIN sessions' : id \in DOMAIN sessions /\ sessions'[id].initialized = sessions[id].initialized
  BY <1>2 DEF Created
<1>3. CASE Ages
  <2>1. Created' = Created /\ UNCHANGED <<known, request, inits>>
    BY <1>3 DEF Ages, Created
  <2>2. \A id \in known' \cap DOMAIN sessions' : sessions'[id].initialized
    BY <1>0, <1>3 DEF Ages, Retained
  <2>3. \A c \in Clients : Opens(c)' = Opens(c) /\ Opening(c)' = Opening(c) /\ Joins(c)' = Joins(c) /\ Joining(c)' = Joining(c)
    BY <2>1 DEF Opens, Opening, Joins, Joining
  <2> QED BY <1>0, <2>1, <2>2, <2>3 DEF SessionInv
<1>4. ASSUME NEW c \in Clients, Resets(c) PROVE SessionInv'
  <2>1. PICK r \in Requests : request' = [request EXCEPT ![c] = r] /\ r.pc # "handle"
    BY <1>4 DEF Resets
  <2>2. ~Opens(c)' /\ ~Joins(c)'
    BY <2>1 DEF Opens, Joins, WireTypes
  <2>3. UNCHANGED <<sessions, known, metrics, inits>>
    BY <1>4 DEF Resets
  <2> QED BY <1>1, <1>2, <2>1, <2>2, <2>3
<1>5. ASSUME NEW c \in Clients, Enters(c) PROVE SessionInv'
  <2>1. PICK r \in Requests :
          /\ request' = [request EXCEPT ![c] = r] /\ r.session \in known \cap DOMAIN sessions
          /\ ~r.fresh /\ r.state.legacy = sessions[r.session].initialized
    BY <1>5 DEF Enters
  <2>2. UNCHANGED <<known, inits>> /\ Created' = Created
    BY <1>5 DEF Enters, Created
  <2>3. \A id \in known \cap DOMAIN sessions' : id \in DOMAIN sessions /\ sessions'[id].initialized = sessions[id].initialized
    BY <1>5 DEF Enters, Retained
  <2>4. request'[c] = r
    BY <2>1 DEF WireTypes
  <2>5. ~Opens(c)'
    BY <2>1, <2>4 DEF Opens
  <2>6. Joining(c)'
    BY <1>0, <2>1, <2>2, <2>4 DEF Joining
  <2> QED BY <1>1, <2>1, <2>2, <2>3, <2>5, <2>6
<1>6. ASSUME NEW c \in Clients, Creates(c) PROVE SessionInv'
  <2> DEFINE new == metrics.created + 1
  <2>1. PICK r \in Requests :
          /\ request' = [request EXCEPT ![c] = r] /\ r.session = new
          /\ r.fresh /\ r.at = 1
          /\ Len(r.body) = 1 /\ r.body[1].method = "initialize" /\ ~r.state.legacy
    BY <1>6 DEF Creates
  <2>2. /\ DOMAIN sessions' = DOMAIN sessions \cup {new}
        /\ \A id \in DOMAIN sessions : sessions'[id] = sessions[id]
        /\ inits' = [k \in Created \cup {new} |-> IF k = new THEN 0 ELSE inits[k]]
        /\ metrics'.created = new /\ known' = known
    BY <1>6 DEF Creates
  <2>3. metrics.created \in Nat
    BY DEF WireTypes, Counts
  <2>4. Created' = Created \cup {new} /\ new \notin Created
    BY <2>2, <2>3 DEF Created
  <2> HIDE DEF new
  <2>5. new \notin known /\ known \subseteq Created /\ \A d \in Clients : Opens(d) => request[d].session \in Created
    BY <2>4 DEF WireTypes, Opens
  <2>6. request'[c] = r /\ \A d \in Clients : d # c => request'[d] = request[d]
    BY <2>1 DEF WireTypes
  <2>7. Opening(c)' /\ ~Joins(c)'
    BY <2>1, <2>2, <2>4, <2>5, <2>6 DEF Opening, Joins
  <2>8. \A d \in Clients : (Opens(d) => Opening(d))' /\ (Joins(d) => Joining(d))'
    <3> SUFFICES ASSUME NEW d \in Clients, d # c PROVE (Opens(d) => Opening(d))' /\ (Joins(d) => Joining(d))'
      BY <2>7
    <3>1. Opens(d) => request[d].session \notin known'
      BY <1>0, <2>2 DEF Opening
    <3>2. Opens(d) => inits'[request[d].session] = inits[request[d].session]
      BY <2>2, <2>4, <2>5
    <3> QED BY <2>1, <2>2, <2>4, <3>1, <3>2, OthersKeep
  <2>9. \A id \in known' \cap DOMAIN sessions' : sessions'[id].initialized
    BY <1>0, <2>2, <2>5
  <2>10. \A id \in Created' : inits'[id] <= 1
    BY <1>0, <2>2, <2>4
  <2>11. \A d, e \in Clients : Opens(d)' /\ Opens(e)' /\ request'[d].session = request'[e].session => d = e
    <3>1. \A d \in Clients : d # c => Opens(d)' = Opens(d)
      BY <2>6 DEF Opens
    <3> QED BY <1>0, <2>1, <2>4, <2>5, <2>6, <3>1
  <2> QED BY <2>8, <2>9, <2>10, <2>11 DEF SessionInv
<1>7. ASSUME NEW c \in Clients, Speaks(c) PROVE SessionInv'
  <2>1. PICK r \in Requests : request' = [request EXCEPT ![c] = r] /\ r.era = "modern"
    BY <1>7 DEF Speaks
  <2>2. ~Opens(c)' /\ ~Joins(c)'
    BY <2>1 DEF Opens, Joins, WireTypes
  <2>3. UNCHANGED <<sessions, known, metrics, inits>>
    BY <1>7 DEF Speaks
  <2> QED BY <1>1, <1>2, <2>1, <2>2, <2>3
<1>8. ASSUME NEW c \in Clients, Advances(c) PROVE SessionInv'
  <2>1. PICK r \in Requests :
          /\ request' = [request EXCEPT ![c] = r] /\ Same(r, request[c])
          /\ request[c].state.legacy => r.pc = "answered" \/ r.state.legacy
    BY <1>8 DEF Advances, Moves
  <2>2. request'[c] = r /\ request[c].pc = "handle" /\ request[c].at \in Nat /\ request[c].at > 0
    BY <1>8, <2>1 DEF WireTypes, Advances, Wire!Handling, Requests
  <2>3. ~Opens(c)
    <3>1. ASSUME Opens(c) PROVE FALSE
      <4>1. Len(request[c].body) = 1 /\ request[c].body[1].method = "initialize"
        BY <1>0, <3>1 DEF Opening
      <4>2. request[c].at = 1
        BY <1>8, <2>2, <4>1 DEF Advances, Wire!Handling
      <4>3. request[c].body[request[c].at].method = "scalar"
        BY <1>8, <3>1 DEF Advances, Opens, Wire!Message
      <4> QED BY <4>1, <4>2, <4>3
    <3> QED BY <3>1
  <2>4. ~Opens(c)'
    BY <2>1, <2>2, <2>3 DEF Opens, Same
  <2>5. UNCHANGED <<sessions, known, metrics, inits>>
    BY <1>8 DEF Advances
  <2>6. Joins(c)' => Joining(c)'
    <3>1. r.era = request[c].era /\ r.session = request[c].session /\ r.fresh = request[c].fresh
      BY <2>1 DEF Same
    <3>2. ASSUME Joins(c)' PROVE Joining(c)'
      <4>1. Joins(c) /\ r.pc = "handle"
        BY <2>2, <3>1, <3>2 DEF Joins
      <4>2. request[c].session \in known /\ request[c].state.legacy
        BY <1>0, <4>1 DEF Joining
      <4> QED BY <2>1, <2>2, <2>5, <3>1, <4>1, <4>2 DEF Joining
    <3> QED BY <3>2
  <2> QED BY <1>1, <1>2, <2>1, <2>4, <2>5, <2>6
<1>9. ASSUME NEW c \in Clients, Wire!HandleLegacyMessage(c) PROVE SessionInv'
  <2>1. PICK r \in Requests :
          /\ request' = [request EXCEPT ![c] = r] /\ Same(r, request[c])
          /\ r.pc = "handle" => r.at = request[c].at + 1
          /\ request[c].state.legacy => r.pc = "answered" \/ r.state.legacy
    BY <1>9, LegacyMoves DEF Moves
  <2>2. request'[c] = r /\ request[c].pc = "handle" /\ request[c].era = "legacy"
        /\ request[c].at \in Nat /\ request[c].at <= Len(request[c].body)
        /\ request[c].fresh \in BOOLEAN /\ r.fresh = request[c].fresh
    BY <1>9, <2>1 DEF WireTypes, Wire!HandleLegacyMessage, Wire!Handling, Requests, Same
  <2>3. UNCHANGED <<sessions, known, metrics>> /\ Created' = Created
    BY <1>9, LegacyMoves DEF Created
  <2>4. \A id \in known \cap DOMAIN sessions' : id \in DOMAIN sessions /\ sessions'[id].initialized = sessions[id].initialized
    BY <2>3
  <2>5. Initialized(c)
    BY <1>9, LegacyMoves
  <2>6. CASE ~request[c].fresh
    <3>1. Joins(c) /\ request[c].session \in known /\ request[c].state.legacy
      BY <1>0, <2>2, <2>6 DEF Joins, Joining
    <3>2. inits' = inits
      BY <2>5, <3>1 DEF Initialized
    <3>3. ~Opens(c)' /\ (Joins(c)' => Joining(c)')
      BY <2>1, <2>2, <2>3, <2>6, <3>1 DEF Opens, Joins, Joining, Same
    <3> QED BY <1>1, <2>1, <2>3, <2>4, <3>2, <3>3
  <2>7. CASE request[c].fresh
    <3> DEFINE id == request[c].session
    <3>1. Opens(c) /\ Opening(c)
      BY <1>0, <2>2, <2>7 DEF Opens
    <3>2. request[c].at = 1 /\ Wire!Message(c).method = "initialize" /\ ~request[c].state.legacy
          /\ inits[id] = 0 /\ id \in Created \ known
      BY <2>2, <3>1 DEF Opening, Wire!Message
    <3>3. /\ r.pc = "answered" \/ r.state.legacy
          /\ inits' = [inits EXCEPT ![id] = @ + 1]
      BY <2>2, <2>5, <3>2 DEF Initialized
    <3>4. \A k \in Created : inits'[k] = IF k = id THEN 1 ELSE inits[k]
      BY <3>2, <3>3 DEF WireTypes
    <3>5. Opens(c)' => Opening(c)'
      BY <2>1, <2>2, <2>3, <3>1, <3>2, <3>3 DEF Opens, Opening, Same
    <3>6. ~Joins(c)'
      BY <2>2, <2>7 DEF Joins
    <3>7. \A d \in Clients : (Opens(d) => Opening(d))' /\ (Joins(d) => Joining(d))'
      <4> SUFFICES ASSUME NEW d \in Clients, d # c PROVE (Opens(d) => Opening(d))' /\ (Joins(d) => Joining(d))'
        BY <3>5, <3>6
      <4>1. Opens(d) => request[d].session \notin known' /\ request[d].session \in Created
                        /\ request[d].session # id
        BY <1>0, <2>3, <3>1 DEF Opening
      <4>2. Opens(d) => inits'[request[d].session] = inits[request[d].session]
        BY <3>4, <4>1
      <4> QED BY <2>1, <2>3, <4>1, <4>2, OthersKeep
    <3>8. \A k \in Created' : inits'[k] <= 1
      BY <1>0, <2>3, <3>4
    <3>9. \A k \in known' \cap DOMAIN sessions' : sessions'[k].initialized
      BY <1>0, <2>3
    <3>10. \A d \in Clients : Opens(d)' => Opens(d) /\ request'[d].session = request[d].session
      BY <2>1, <2>2, <3>1 DEF WireTypes, Opens, Same
    <3>11. \A d, e \in Clients : Opens(d)' /\ Opens(e)' /\ request'[d].session = request'[e].session => d = e
      BY <1>0, <3>10
    <3> QED BY <3>7, <3>8, <3>9, <3>11 DEF SessionInv
  <2> QED BY <2>2, <2>6, <2>7
<1>10. ASSUME NEW c \in Clients, Ends(c) PROVE SessionInv'
  <2>1. PICK r \in Requests : request' = [request EXCEPT ![c] = r]
    BY <1>10 DEF Ends, Moves
  <2>2. /\ request'[c].pc = "answered" /\ request[c].pc = "handle" /\ request[c].at > Len(request[c].body)
        /\ sessions' = IF request[c].era = "legacy" THEN Wire!WriteBack(c) ELSE sessions
        /\ known' = known \cup ({request[c].session} \ {0})
        /\ UNCHANGED <<metrics, inits>>
    BY <1>10 DEF Ends
  <2>3. /\ request[c].era \in {"legacy", "modern"} /\ request[c].fresh \in BOOLEAN
        /\ request[c].at \in Nat /\ request[c].session \in Created \cup {0}
        /\ request[c].era = "modern" => request[c].session = 0
    BY DEF WireTypes, Requests
  <2>4. Created' = Created
    BY <2>2 DEF Created
  <2>5. request[c].era = "legacy" => request[c].state.legacy
    <3>1. CASE Opens(c)
      BY <1>0, <2>2, <2>3, <3>1 DEF Opening
    <3>2. CASE Joins(c)
      BY <1>0, <3>2 DEF Joining
    <3> QED BY <2>2, <2>3, <3>1, <3>2 DEF Opens, Joins
  <2>6. \A id \in known' \cap DOMAIN sessions' : sessions'[id].initialized
    <3>1. CASE request[c].era = "modern"
      BY <1>0, <2>2, <2>3, <3>1
    <3>2. CASE request[c].era = "legacy"
      <4>1. sessions' = Wire!WriteBack(c) /\ DOMAIN sessions' = DOMAIN sessions
        BY <2>2, <3>2 DEF Wire!WriteBack
      <4>2. ASSUME NEW id \in DOMAIN sessions, id # request[c].session PROVE sessions'[id] = sessions[id]
        BY <4>1, <4>2 DEF Wire!WriteBack
      <4>3. ASSUME request[c].session \in DOMAIN sessions
            PROVE  sessions'[request[c].session].initialized
        <5>1. sessions[request[c].session] \in Entries
          BY <4>3 DEF WireTypes
        <5> QED BY <2>5, <3>2, <4>1, <4>3, <5>1 DEF Wire!WriteBack, Entries
      <4> QED BY <1>0, <2>2, <4>1, <4>2, <4>3
    <3> QED BY <2>3, <3>1, <3>2
  <2>7. ~Opens(c)' /\ ~Joins(c)'
    BY <2>2 DEF Opens, Joins
  <2>8. \A d \in Clients : (Opens(d) => Opening(d))' /\ (Joins(d) => Joining(d))'
    <3> SUFFICES ASSUME NEW d \in Clients, d # c PROVE (Opens(d) => Opening(d))' /\ (Joins(d) => Joining(d))'
      BY <2>7
    <3>1. Opens(d) => request[d].session \notin known'
      <4> SUFFICES ASSUME Opens(d) PROVE request[d].session \notin known'
        OBVIOUS
      <4>1. request[d].session \in Created \ known
        BY <1>0 DEF Opening
      <4>2. ASSUME request[d].session = request[c].session, request[c].session # 0
            PROVE  FALSE
        <5>1. request[c].era = "legacy"
          BY <2>3, <4>2
        <5>2. ~Joins(c)
          BY <1>0, <4>1, <4>2 DEF Joining
        <5>3. Opens(c)
          BY <2>2, <2>3, <5>1, <5>2 DEF Opens, Joins
        <5> QED BY <1>0, <4>2, <5>3
      <4> QED BY <2>2, <4>1, <4>2
    <3> QED BY <2>1, <2>2, <2>4, <3>1, OthersKeep
  <2>9. \A d \in Clients : Opens(d)' => Opens(d) /\ request'[d].session = request[d].session
    BY <2>1, <2>7 DEF WireTypes, Opens
  <2>10. \A d, e \in Clients : Opens(d)' /\ Opens(e)' /\ request'[d].session = request'[e].session => d = e
    BY <1>0, <2>9
  <2>11. \A id \in Created' : inits'[id] <= 1
    BY <1>0, <2>2, <2>4
  <2> QED BY <2>6, <2>8, <2>10, <2>11 DEF SessionInv
<1> QED BY <1>3, <1>4, <1>5, <1>6, <1>7, <1>8, <1>9, <1>10, Effects

(* A session of the old protocol is initialized by one message and never   *)
(* again: the server refuses a second initialize of a session it knows,    *)
(* and the request that opened one is alone with it (protocol/http.rs and  *)
(* handle_legacy_message of protocol/dispatch.rs).                         *)
THEOREM SessionInitializesOnce == ASSUME Parsed PROVE Wire!Spec => []Wire!OneInitialize
<1>1. Wire!Init => WireTypes /\ SessionInv
  BY TypesInit, SessionInit
<1>2. WireTypes /\ SessionInv /\ [Wire!Next]_(Wire!vars) => (WireTypes /\ SessionInv)'
  BY TypesStep, SessionStep
<1>3. WireTypes /\ SessionInv => Wire!OneInitialize
  BY DEF WireTypes, SessionInv, Wire!OneInitialize
<1> QED BY <1>1, <1>2, <1>3, PTL DEF Wire!Spec

(* What goes out in a session goes out on the channel of the session, and  *)
(* what goes out without one on the channel that was asked for.            *)
OnItsChannel(r, table) ==
  /\ OnChannel(r.answers, r.channel)
  /\ r.era = "modern" => r.channel = r.asked
  /\ r.era = "legacy" /\ r.session \in DOMAIN table => r.channel = table[r.session].channel
ChannelInv == \A c \in Clients : OnItsChannel(request[c], sessions)

LEMMA ChannelInit == ASSUME Parsed, Wire!Init PROVE ChannelInv
<1>1. ASSUME NEW c \in Clients PROVE OnItsChannel(request[c], sessions)
  <2>1. request[c] = Wire!NoRequest /\ DOMAIN sessions = {}
    BY DEF Wire!Init
  <2> QED BY <2>1 DEF OnItsChannel, OnChannel, Wire!NoRequest
<1> QED BY <1>1 DEF ChannelInv

LEMMA ChannelStep ==
  ASSUME Parsed, WireTypes, ChannelInv, [Wire!Next]_(Wire!vars)
  PROVE  ChannelInv'
<1>1. ASSUME NEW r \in Requests, OnItsChannel(r, sessions), r.session \in Created \cup {0},
             \A id \in DOMAIN sessions' \cap Created :
               id \in DOMAIN sessions /\ sessions'[id].channel = sessions[id].channel,
             0 \notin DOMAIN sessions'
      PROVE  OnItsChannel(r, sessions')
  BY <1>1 DEF OnItsChannel
<1>2. ASSUME NEW c \in Clients, NEW r \in Requests, request' = [request EXCEPT ![c] = r],
             OnItsChannel(r, sessions'),
             \A id \in DOMAIN sessions' \cap Created :
               id \in DOMAIN sessions /\ sessions'[id].channel = sessions[id].channel,
             0 \notin DOMAIN sessions'
      PROVE  ChannelInv'
  <2> SUFFICES ASSUME NEW d \in Clients PROVE OnItsChannel(request'[d], sessions')
    BY DEF ChannelInv
  <2>1. CASE d = c
    BY <1>2, <2>1 DEF WireTypes
  <2>2. CASE d # c
    <3>1. request'[d] = request[d] /\ request[d] \in Requests /\ request[d].session \in Created \cup {0}
      BY <1>2, <2>2 DEF WireTypes
    <3>2. OnItsChannel(request[d], sessions)
      BY DEF ChannelInv
    <3> QED BY <1>1, <1>2, <3>1, <3>2
  <2> QED BY <2>1, <2>2
<1>3. 0 \notin DOMAIN sessions'
  <2>1. WireTypes'
    BY TypesStep
  <2> QED BY <2>1 DEF WireTypes, Created
<1>4. ASSUME NEW c \in Clients, Moves(c), request[c].session \in DOMAIN sessions' => request[c].session \in DOMAIN sessions,
             \A id \in DOMAIN sessions' \cap Created :
               id \in DOMAIN sessions /\ sessions'[id].channel = sessions[id].channel
      PROVE  ChannelInv'
  <2>1. PICK r \in Requests :
          /\ request' = [request EXCEPT ![c] = r] /\ Same(r, request[c])
          /\ OnChannel(request[c].answers, request[c].channel) => OnChannel(r.answers, request[c].channel)
    BY <1>4 DEF Moves
  <2>2. OnItsChannel(request[c], sessions)
    BY DEF ChannelInv
  <2>3. OnItsChannel(r, sessions)
    BY <2>1, <2>2 DEF OnItsChannel, Same
  <2>4. r.session \in Created \cup {0}
    BY <2>1 DEF WireTypes, Same
  <2>5. OnItsChannel(r, sessions')
    BY <1>1, <1>3, <1>4, <2>3, <2>4
  <2> QED BY <1>2, <1>3, <1>4, <2>1, <2>5
<1>5. OnChannel(<<>>, "none") /\ \A channel : OnChannel(<<>>, channel)
  BY DEF OnChannel
<1>6. CASE Ages
  <2> SUFFICES ASSUME NEW c \in Clients PROVE OnItsChannel(request'[c], sessions')
    BY DEF ChannelInv
  <2>1. request'[c] = request[c] /\ request[c] \in Requests /\ request[c].session \in Created \cup {0}
        /\ OnItsChannel(request[c], sessions)
    BY <1>6 DEF Ages, WireTypes, ChannelInv
  <2> QED BY <1>1, <1>3, <1>6, <2>1 DEF Ages, Retained
<1>7. ASSUME NEW c \in Clients, Resets(c) PROVE ChannelInv'
  <2>1. PICK r \in Requests : /\ request' = [request EXCEPT ![c] = r]
                              /\ r.session = 0 /\ r.answers = <<>> /\ r.era = "legacy"
    BY <1>7 DEF Resets
  <2>2. OnItsChannel(r, sessions')
    BY <1>3, <1>5, <2>1 DEF OnItsChannel
  <2> QED BY <1>2, <1>3, <1>7, <2>1, <2>2 DEF Resets
<1>8. ASSUME NEW c \in Clients, Enters(c) PROVE ChannelInv'
  <2>1. PICK r \in Requests :
          /\ request' = [request EXCEPT ![c] = r] /\ r.session \in known \cap DOMAIN sessions
          /\ r.era = "legacy" /\ r.answers = <<>> /\ r.channel = sessions[r.session].channel
    BY <1>8 DEF Enters
  <2>2. \A id \in DOMAIN sessions' : id \in DOMAIN sessions /\ sessions'[id].channel = sessions[id].channel
    BY <1>8 DEF Enters, Retained
  <2>3. OnItsChannel(r, sessions')
    BY <1>5, <2>1, <2>2 DEF OnItsChannel
  <2> QED BY <1>2, <1>3, <2>1, <2>2, <2>3
<1>9. ASSUME NEW c \in Clients, Creates(c) PROVE ChannelInv'
  <2> DEFINE new == metrics.created + 1
  <2>1. PICK r \in Requests :
          /\ request' = [request EXCEPT ![c] = r] /\ r.session = new
          /\ r.era = "legacy" /\ r.answers = <<>> /\ r.channel = sessions'[new].channel
    BY <1>9 DEF Creates
  <2>2. DOMAIN sessions' = DOMAIN sessions \cup {new} /\ \A id \in DOMAIN sessions : sessions'[id] = sessions[id]
    BY <1>9 DEF Creates
  <2>3. new \notin Created
    BY DEF WireTypes, Counts, Created
  <2> HIDE DEF new
  <2>4. OnItsChannel(r, sessions')
    BY <1>5, <2>1 DEF OnItsChannel
  <2> QED BY <1>2, <1>3, <2>1, <2>2, <2>3, <2>4
<1>10. ASSUME NEW c \in Clients, Speaks(c) PROVE ChannelInv'
  <2>1. PICK r \in Requests : /\ request' = [request EXCEPT ![c] = r] /\ r.era = "modern"
                              /\ r.channel = r.asked /\ r.answers = <<>>
    BY <1>10 DEF Speaks
  <2>2. OnItsChannel(r, sessions')
    BY <1>5, <2>1 DEF OnItsChannel
  <2> QED BY <1>2, <1>3, <1>10, <2>1, <2>2 DEF Speaks
<1>11. ASSUME NEW c \in Clients, Advances(c) \/ Wire!HandleLegacyMessage(c) PROVE ChannelInv'
  <2>1. Moves(c) /\ sessions' = sessions
    BY <1>11, LegacyMoves DEF Advances
  <2> QED BY <1>4, <2>1
<1>12. ASSUME NEW c \in Clients, Ends(c) PROVE ChannelInv'
  <2>1. Moves(c) /\ (sessions' = sessions \/ sessions' = Wire!WriteBack(c))
    BY <1>12 DEF Ends
  <2>2. DOMAIN sessions' = DOMAIN sessions
        /\ \A id \in DOMAIN sessions : sessions'[id].channel = sessions[id].channel
    BY <2>1 DEF Wire!WriteBack, WireTypes, Entries
  <2> QED BY <1>4, <2>1, <2>2
<1> QED BY <1>6, <1>7, <1>8, <1>9, <1>10, <1>11, <1>12, Effects

(* What a tool answers in a session goes out on the channel the session    *)
(* was opened with, whatever the request itself asks for: neither a        *)
(* request that finds the session nor the state written back after the     *)
(* answer moves it (protocol/session.rs, protocol/http.rs).                *)
THEOREM SessionKeepsItsChannel == ASSUME Parsed PROVE Wire!Spec => []Wire!ChannelIsKept
<1>1. Wire!Init => WireTypes /\ ChannelInv
  BY TypesInit, ChannelInit
<1>2. WireTypes /\ ChannelInv /\ [Wire!Next]_(Wire!vars) => (WireTypes /\ ChannelInv)'
  BY TypesStep, ChannelStep
<1>3. WireTypes /\ ChannelInv => Wire!ChannelIsKept
  <2> SUFFICES ASSUME WireTypes, ChannelInv, NEW c \in Clients, NEW i \in DOMAIN request[c].answers,
                      request[c].answers[i].channel # "none"
               PROVE  IF request[c].era = "modern" THEN request[c].answers[i].channel = request[c].asked
                      ELSE request[c].session \in DOMAIN sessions
                             => request[c].answers[i].channel = sessions[request[c].session].channel
    BY DEF Wire!ChannelIsKept
  <2>1. request[c].answers[i].channel = request[c].channel
    BY DEF ChannelInv, OnItsChannel, OnChannel
  <2>2. request[c].era \in {"legacy", "modern"}
    BY DEF WireTypes, Requests
  <2> QED BY <2>1, <2>2 DEF ChannelInv, OnItsChannel
<1> QED BY <1>1, <1>2, <1>3, PTL DEF Wire!Spec

(* The book-keeping of sessions: a session has a watchdog that is due at   *)
(* its timeout, and created, less closed, is the size of the table.        *)
TableInv ==
  /\ \A id \in DOMAIN watch : watch[id] \in Nat
  /\ Timeout > 0 => \A id \in DOMAIN sessions :
       id \in DOMAIN watch /\ sessions[id].idle + watch[id] <= Timeout
  /\ metrics.created - metrics.closed = Cardinality(DOMAIN sessions)
  /\ metrics.evicted <= metrics.closed

LEMMA Countable ==
  ASSUME WireTypes
  PROVE  /\ IsFiniteSet(DOMAIN sessions)
         /\ \A id \in DOMAIN sessions : Cardinality(DOMAIN sessions \ {id}) = Cardinality(DOMAIN sessions) - 1
         /\ Cardinality(DOMAIN sessions \cup {metrics.created + 1}) = Cardinality(DOMAIN sessions) + 1
         /\ Cardinality(DOMAIN sessions) \in Nat
<1>1. metrics.created \in Nat /\ DOMAIN sessions \subseteq 1..metrics.created
  BY DEF WireTypes, Counts, Created
<1>2. IsFiniteSet(1..metrics.created)
  BY <1>1, FS_Interval
<1>3. IsFiniteSet(DOMAIN sessions)
  BY <1>1, <1>2, FS_Subset
<1>4. Cardinality(DOMAIN sessions) \in Nat
  BY <1>3, FS_CardinalityType
<1>5. \A id \in DOMAIN sessions : Cardinality(DOMAIN sessions \ {id}) = Cardinality(DOMAIN sessions) - 1
  BY <1>3, FS_RemoveElement
<1>6. metrics.created + 1 \notin DOMAIN sessions
  BY <1>1
<1>7. Cardinality(DOMAIN sessions \cup {metrics.created + 1}) = Cardinality(DOMAIN sessions) + 1
  BY <1>3, <1>6, FS_AddElement
<1> QED BY <1>3, <1>4, <1>5, <1>7

LEMMA TableInit == ASSUME Parsed, Wire!Init PROVE TableInv
<1>1. DOMAIN sessions = {} /\ DOMAIN watch = {}
  BY DEF Wire!Init
<1>2. metrics.created = 0 /\ metrics.closed = 0 /\ metrics.evicted = 0
  BY DEF Wire!Init
<1>3. Cardinality({}) = 0
  BY FS_EmptySet
<1> QED BY <1>1, <1>2, <1>3 DEF TableInv

LEMMA TableStep ==
  ASSUME Parsed, WireTypes, TableInv, [Wire!Next]_(Wire!vars)
  PROVE  TableInv'
<1>0. /\ \A id \in DOMAIN watch : watch[id] \in Nat
      /\ Timeout > 0 => \A id \in DOMAIN sessions :
           id \in DOMAIN watch /\ sessions[id].idle + watch[id] <= Timeout
      /\ metrics.created - metrics.closed = Cardinality(DOMAIN sessions)
      /\ metrics.evicted <= metrics.closed
      /\ Timeout \in Nat
      /\ metrics.created \in Nat /\ metrics.closed \in Nat /\ metrics.evicted \in Nat
      /\ \A id \in DOMAIN sessions : sessions[id].idle \in Nat
  BY DEF TableInv, Parsed, WireTypes, Counts, Entries
<1>1. ASSUME UNCHANGED <<watch, metrics>>, DOMAIN sessions' = DOMAIN sessions,
             \A id \in DOMAIN sessions : sessions'[id].idle \in Nat /\ sessions'[id].idle <= sessions[id].idle
      PROVE  TableInv'
  BY <1>0, <1>1 DEF TableInv
<1>2. ASSUME UNCHANGED <<watch, metrics, sessions>> PROVE TableInv'
  BY <1>0, <1>1, <1>2
<1>3. ASSUME NEW c \in Clients, NEW body \in Bodies, NEW version, NEW id \in known \cup {0},
             NEW channel \in Channels, Wire!PostInSession(c, body, version, id, channel)
      PROVE  TableInv'
  <2>1. id \in DOMAIN sessions /\ sessions' = [sessions EXCEPT ![id].idle = 0] /\ UNCHANGED <<watch, metrics>>
    BY <1>3 DEF Wire!PostInSession
  <2>2. DOMAIN sessions' = DOMAIN sessions
        /\ \A k \in DOMAIN sessions : sessions'[k].idle \in Nat /\ sessions'[k].idle <= sessions[k].idle
    BY <1>0, <2>1 DEF WireTypes, Entries
  <2> QED BY <1>1, <2>1, <2>2
<1>4. ASSUME NEW c \in Clients, NEW body \in Bodies, NEW version, NEW id \in known \cup {0},
             NEW channel \in Channels, Wire!PostInitialize(c, body, version, id, channel)
      PROVE  TableInv'
  <2> DEFINE new == metrics.created + 1
             session == [initialized |-> FALSE, channel |-> channel, idle |-> 0]
  <2>1. /\ sessions' = [k \in DOMAIN sessions \cup {new} |-> IF k = new THEN session ELSE sessions[k]]
        /\ watch' = IF Timeout = 0 THEN watch
                    ELSE [k \in DOMAIN watch \cup {new} |-> IF k = new THEN Timeout ELSE watch[k]]
        /\ metrics' = [metrics EXCEPT !.created = @ + 1]
    BY <1>4 DEF Wire!PostInitialize
  <2>2. metrics'.created = metrics.created + 1 /\ metrics'.closed = metrics.closed
        /\ metrics'.evicted = metrics.evicted
    BY <2>1 DEF WireTypes, Counts
  <2>3. session.idle = 0
    OBVIOUS
  <2> HIDE DEF session
  <2>4. DOMAIN sessions' = DOMAIN sessions \cup {new}
    BY <2>1
  <2>5. metrics'.created - metrics'.closed = Cardinality(DOMAIN sessions')
    BY <1>0, <2>2, <2>4, Countable
  <2> HIDE DEF new
  <2>6. \A k \in DOMAIN sessions' : sessions'[k].idle = IF k = new THEN 0 ELSE sessions[k].idle
    BY <2>1, <2>3
  <2>7. \A k \in DOMAIN watch' : watch'[k] \in Nat
    BY <1>0, <2>1
  <2>8. Timeout > 0 => DOMAIN watch' = DOMAIN watch \cup {new}
                       /\ \A k \in DOMAIN watch' : watch'[k] = IF k = new THEN Timeout ELSE watch[k]
    BY <1>0, <2>1
  <2>9. Timeout > 0 => \A k \in DOMAIN sessions' : k \in DOMAIN watch' /\ sessions'[k].idle + watch'[k] <= Timeout
    <3> SUFFICES ASSUME Timeout > 0, NEW k \in DOMAIN sessions'
                 PROVE  k \in DOMAIN watch' /\ sessions'[k].idle + watch'[k] <= Timeout
      OBVIOUS
    <3>1. CASE k = new
      BY <1>0, <2>6, <2>8, <3>1
    <3>2. CASE k # new
      BY <1>0, <2>4, <2>6, <2>8, <3>2
    <3> QED BY <3>1, <3>2
  <2> QED BY <1>0, <2>2, <2>5, <2>7, <2>9 DEF TableInv
<1>5. ASSUME NEW id, id \in DOMAIN sessions, sessions' = Wire!Gone(id),
             metrics'.created = metrics.created, metrics'.closed = metrics.closed + 1,
             metrics'.evicted <= metrics'.closed,
             watch' = watch \/ watch' = [k \in DOMAIN watch \ {id} |-> watch[k]]
      PROVE  TableInv'
  <2>1. DOMAIN sessions' = DOMAIN sessions \ {id} /\ \A k \in DOMAIN sessions' : sessions'[k] = sessions[k]
    BY <1>5 DEF Wire!Gone
  <2>2. metrics'.created - metrics'.closed = Cardinality(DOMAIN sessions')
    BY <1>0, <1>5, <2>1, Countable
  <2>3. /\ \A k \in DOMAIN watch' : watch'[k] \in Nat
        /\ \A k \in DOMAIN watch : k # id => k \in DOMAIN watch' /\ watch'[k] = watch[k]
    BY <1>0, <1>5
  <2>4. Timeout > 0 => \A k \in DOMAIN sessions' : k \in DOMAIN watch' /\ sessions'[k].idle + watch'[k] <= Timeout
    BY <1>0, <2>1, <2>3
  <2> QED BY <1>5, <2>2, <2>3, <2>4 DEF TableInv
<1>6. ASSUME NEW id \in known, Wire!Delete(id) PROVE TableInv'
  <2>1. id \in DOMAIN sessions /\ sessions' = Wire!Gone(id) /\ metrics' = [metrics EXCEPT !.closed = @ + 1]
        /\ watch' = watch
    BY <1>6 DEF Wire!Delete
  <2>2. metrics'.created = metrics.created /\ metrics'.closed = metrics.closed + 1
        /\ metrics'.evicted = metrics.evicted
    BY <2>1 DEF WireTypes, Counts
  <2> QED BY <1>0, <1>5, <2>1, <2>2
<1>7. ASSUME NEW id \in Wire!Ids, Wire!Watchdog(id) PROVE TableInv'
  <2>1. id \in DOMAIN watch /\ watch[id] = 0
    BY <1>7 DEF Wire!Watchdog
  <2>2. CASE id \in DOMAIN sessions /\ sessions[id].idle < Timeout
    <3>1. watch' = [watch EXCEPT ![id] = Wire!Remaining(id)] /\ UNCHANGED <<sessions, metrics>>
      BY <1>7, <2>2 DEF Wire!Watchdog
    <3>2. Wire!Remaining(id) = Timeout - sessions[id].idle
      BY DEF Wire!Remaining
    <3>3. DOMAIN watch' = DOMAIN watch
          /\ \A k \in DOMAIN watch : watch'[k] = IF k = id THEN Timeout - sessions[id].idle ELSE watch[k]
      BY <2>1, <3>1, <3>2
    <3>4. \A k \in DOMAIN watch' : watch'[k] \in Nat
      BY <1>0, <2>2, <3>3
    <3>5. Timeout > 0 => \A k \in DOMAIN sessions' : k \in DOMAIN watch' /\ sessions'[k].idle + watch'[k] <= Timeout
      <4> SUFFICES ASSUME Timeout > 0, NEW k \in DOMAIN sessions
                   PROVE  k \in DOMAIN watch /\ sessions[k].idle + watch'[k] <= Timeout
        BY <3>1, <3>3
      <4> QED BY <1>0, <3>3
    <3> QED BY <1>0, <3>1, <3>4, <3>5 DEF TableInv
  <2>3. CASE ~(id \in DOMAIN sessions /\ sessions[id].idle < Timeout)
    <3>1. watch' = [k \in DOMAIN watch \ {id} |-> watch[k]]
      BY <1>7, <2>3 DEF Wire!Watchdog
    <3>2. CASE id \in DOMAIN sessions
      <4>1. sessions' = Wire!Gone(id) /\ metrics' = [metrics EXCEPT !.evicted = @ + 1, !.closed = @ + 1]
        BY <1>7, <2>3, <3>2 DEF Wire!Watchdog
      <4>2. metrics'.created = metrics.created /\ metrics'.closed = metrics.closed + 1
            /\ metrics'.evicted = metrics.evicted + 1
        BY <4>1 DEF WireTypes, Counts
      <4> QED BY <1>0, <1>5, <3>1, <3>2, <4>1, <4>2
    <3>3. CASE id \notin DOMAIN sessions
      <4>1. UNCHANGED <<sessions, metrics>>
        BY <1>7, <2>3, <3>3 DEF Wire!Watchdog
      <4>2. /\ \A k \in DOMAIN watch' : watch'[k] \in Nat
            /\ \A k \in DOMAIN sessions : k \in DOMAIN watch => k \in DOMAIN watch' /\ watch'[k] = watch[k]
        BY <1>0, <3>1, <3>3
      <4> QED BY <1>0, <4>1, <4>2 DEF TableInv
    <3> QED BY <3>2, <3>3
  <2> QED BY <2>2, <2>3
<1>8. ASSUME Wire!Tick PROVE TableInv'
  <2>1. /\ \A id \in DOMAIN watch : watch[id] > 0
        /\ sessions' = [id \in DOMAIN sessions |-> [sessions[id] EXCEPT !.idle = @ + 1]]
        /\ watch' = [id \in DOMAIN watch |-> watch[id] - 1] /\ metrics' = metrics
    BY <1>8 DEF Wire!Tick
  <2>2. DOMAIN sessions' = DOMAIN sessions /\ \A id \in DOMAIN sessions : sessions'[id].idle = sessions[id].idle + 1
    BY <2>1 DEF WireTypes, Entries
  <2>3. DOMAIN watch' = DOMAIN watch
        /\ \A id \in DOMAIN watch : watch'[id] = watch[id] - 1 /\ watch'[id] \in Nat
    BY <1>0, <2>1
  <2>4. Timeout > 0 => \A k \in DOMAIN sessions' : k \in DOMAIN watch' /\ sessions'[k].idle + watch'[k] <= Timeout
    <3> SUFFICES ASSUME Timeout > 0, NEW k \in DOMAIN sessions
                 PROVE  k \in DOMAIN watch /\ sessions'[k].idle + watch'[k] <= Timeout
      BY <2>2, <2>3
    <3> QED BY <1>0, <2>2, <2>3
  <2> QED BY <1>0, <2>1, <2>2, <2>3, <2>4 DEF TableInv
<1>9. ASSUME NEW c \in Clients, Wire!Finish(c) PROVE TableInv'
  <2>1. UNCHANGED <<watch, metrics>> /\ (sessions' = sessions \/ sessions' = Wire!WriteBack(c))
    BY <1>9 DEF Wire!Finish
  <2>2. DOMAIN sessions' = DOMAIN sessions
        /\ \A k \in DOMAIN sessions : sessions'[k].idle = sessions[k].idle
    BY <2>1 DEF Wire!WriteBack, WireTypes, Entries
  <2> QED BY <1>0, <1>1, <2>1, <2>2
<1>10. ASSUME NEW c \in Clients,
              \/ Wire!Unsound(c) \/ Wire!HandleScalar(c) \/ Wire!HandleModernMessage(c)
              \/ Wire!HandleLegacyMessage(c) \/ Wire!Leave(c)
       PROVE  UNCHANGED <<watch, metrics, sessions>>
  <2>1. Wire!Unsound(c) => UNCHANGED <<watch, metrics, sessions>>
    BY DEF Wire!Unsound
  <2>2. Wire!HandleScalar(c) => UNCHANGED <<watch, metrics, sessions>>
    BY DEF Wire!HandleScalar
  <2>3. Wire!HandleModernMessage(c) => UNCHANGED <<watch, metrics, sessions>>
    BY DEF Wire!HandleModernMessage
  <2>4. Wire!HandleLegacyMessage(c) => UNCHANGED <<watch, metrics, sessions>>
    BY DEF Wire!HandleLegacyMessage
  <2>5. Wire!Leave(c) => UNCHANGED <<watch, metrics, sessions>>
    BY DEF Wire!Leave
  <2> QED BY <1>10, <2>1, <2>2, <2>3, <2>4, <2>5
<1>11. ASSUME NEW c \in Clients, NEW body \in Bodies, NEW version, NEW id, NEW channel, NEW method,
              \/ Wire!PostOutside(c, body, version, id)
              \/ Wire!PostModern(c, body, version, method, channel)
              \/ Wire!HeaderWithoutEnvelope(c, body)
       PROVE  UNCHANGED <<watch, metrics, sessions>>
  BY <1>11 DEF Wire!PostOutside, Wire!PostModern, Wire!HeaderWithoutEnvelope
<1>12. ASSUME NEW body \in Bodies, NEW channel \in Channels, Wire!Line(body, channel)
       PROVE  UNCHANGED <<watch, metrics, sessions>>
  BY <1>12 DEF Wire!Line
<1>13. CASE UNCHANGED Wire!vars
  BY <1>2, <1>13 DEF Wire!vars
<1>14. CASE Wire!Next
  BY <1>2, <1>3, <1>4, <1>6, <1>7, <1>8, <1>9, <1>10, <1>11, <1>12, <1>14 DEF Wire!Next
<1> QED BY <1>13, <1>14

(* An idle session is gone when its timeout has passed, for its watch is   *)
(* never behind; and created, less closed, is what is in the table,        *)
(* whatever order requests, closes and evictions come in                   *)
(* (protocol/session.rs).                                                  *)
THEOREM EvictionKeepsTime == ASSUME Parsed PROVE Wire!Spec => []Wire!EvictionIsTimely
<1>1. Wire!Init => WireTypes /\ TableInv
  BY TypesInit, TableInit
<1>2. WireTypes /\ TableInv /\ [Wire!Next]_(Wire!vars) => (WireTypes /\ TableInv)'
  BY TypesStep, TableStep
<1>3. WireTypes /\ TableInv => Wire!EvictionIsTimely
  <2>1. \A S : Wire!Cardinality(S) = Cardinality(S)
    BY DEF Wire!Cardinality, Cardinality
  <2> QED BY <2>1 DEF TableInv, Wire!EvictionIsTimely
<1> QED BY <1>1, <1>2, <1>3, PTL DEF Wire!Spec

(* Only a session that was idle for the whole timeout is evicted: a        *)
(* request that finds its session starts the time again                    *)
(* (protocol/session.rs).                                                  *)
THEOREM EvictionSparesTheBusy == ASSUME Parsed PROVE Wire!Spec => [][Wire!OnlyIdleIsEvicted]_(Wire!vars)
<1>1. ASSUME WireTypes, Wire!Next PROVE Wire!OnlyIdleIsEvicted
  <2>0. metrics \in Counts /\ metrics.evicted \in Nat /\ Timeout \in Nat
        /\ \A id \in DOMAIN sessions : sessions[id].idle \in Nat
    BY <1>1 DEF WireTypes, Counts, Entries, Parsed
  <2>1. ASSUME metrics' = metrics PROVE Wire!OnlyIdleIsEvicted
    BY <2>0, <2>1 DEF Wire!OnlyIdleIsEvicted
  <2>2. ASSUME NEW c, NEW body, NEW version, NEW id, NEW channel, Wire!PostInitialize(c, body, version, id, channel)
        PROVE  Wire!OnlyIdleIsEvicted
    <3>1. metrics' = [metrics EXCEPT !.created = @ + 1]
      BY <2>2 DEF Wire!PostInitialize
    <3>2. metrics'.evicted = metrics.evicted
      BY <2>0, <3>1 DEF Counts
    <3> QED BY <2>0, <3>2 DEF Wire!OnlyIdleIsEvicted
  <2>3. ASSUME NEW id \in known, Wire!Delete(id) PROVE Wire!OnlyIdleIsEvicted
    <3>1. metrics' = [metrics EXCEPT !.closed = @ + 1]
      BY <2>3 DEF Wire!Delete
    <3>2. metrics'.evicted = metrics.evicted
      BY <2>0, <3>1 DEF Counts
    <3> QED BY <2>0, <3>2 DEF Wire!OnlyIdleIsEvicted
  <2>4. ASSUME NEW id \in Wire!Ids, Wire!Watchdog(id) PROVE Wire!OnlyIdleIsEvicted
    <3>1. CASE id \in DOMAIN sessions /\ ~(sessions[id].idle < Timeout)
      <4>1. sessions' = Wire!Gone(id)
        BY <2>4, <3>1 DEF Wire!Watchdog
      <4>2. id \in DOMAIN sessions \ DOMAIN sessions'
        BY <3>1, <4>1 DEF Wire!Gone
      <4>3. sessions[id].idle >= Timeout
        BY <2>0, <3>1
      <4> QED BY <4>2, <4>3 DEF Wire!OnlyIdleIsEvicted
    <3>2. CASE ~(id \in DOMAIN sessions /\ ~(sessions[id].idle < Timeout))
      BY <2>1, <2>4, <3>2 DEF Wire!Watchdog
    <3> QED BY <3>1, <3>2
  <2>5. ASSUME NEW c \in Clients,
               \/ Wire!Unsound(c) \/ Wire!HandleScalar(c) \/ Wire!HandleModernMessage(c)
               \/ Wire!HandleLegacyMessage(c) \/ Wire!Finish(c) \/ Wire!Leave(c)
        PROVE  metrics' = metrics
    <3>1. Wire!Unsound(c) => metrics' = metrics
      BY DEF Wire!Unsound
    <3>2. Wire!HandleScalar(c) => metrics' = metrics
      BY DEF Wire!HandleScalar
    <3>3. Wire!HandleModernMessage(c) => metrics' = metrics
      BY DEF Wire!HandleModernMessage
    <3>4. Wire!HandleLegacyMessage(c) => metrics' = metrics
      BY DEF Wire!HandleLegacyMessage
    <3>5. Wire!Finish(c) \/ Wire!Leave(c) => metrics' = metrics
      BY DEF Wire!Finish, Wire!Leave
    <3> QED BY <2>5, <3>1, <3>2, <3>3, <3>4, <3>5
  <2>6. ASSUME NEW c \in Clients, NEW body \in Bodies, NEW version, NEW id, NEW channel, NEW method,
               \/ Wire!PostInSession(c, body, version, id, channel)
               \/ Wire!PostOutside(c, body, version, id)
               \/ Wire!PostModern(c, body, version, method, channel)
               \/ Wire!HeaderWithoutEnvelope(c, body)
        PROVE  metrics' = metrics
    BY <2>6 DEF Wire!PostInSession, Wire!PostOutside, Wire!PostModern, Wire!HeaderWithoutEnvelope
  <2>7. ASSUME Wire!Tick \/ \E body \in Bodies, channel \in Channels : Wire!Line(body, channel)
        PROVE  metrics' = metrics
    BY <2>7 DEF Wire!Tick, Wire!Line
  <2> QED BY <1>1, <2>1, <2>2, <2>3, <2>4, <2>5, <2>6, <2>7 DEF Wire!Next
<1>2. WireTypes /\ [Wire!Next]_(Wire!vars) => [Wire!OnlyIdleIsEvicted]_(Wire!vars)
  BY <1>1
<1>3. Wire!Spec => []WireTypes
  BY WireTyped
<1> QED BY <1>2, <1>3, PTL DEF Wire!Spec

(* The pipe: what has been answered there, and the state it was handled in. *)
EraKept(line) ==
  line.message.method = "initialize" /\ line.message.envelope = "none" /\ line.answer[1].code = 0
    => ~line.before.modern /\ ~line.before.legacy
Lines == [before : States, message : Messages, answer : Answers]
Heards == Seq(Lines)
PipeInv ==
  /\ pipe \in [state : States, out : Heards]
  /\ \A i \in DOMAIN pipe.out : EraKept(pipe.out[i])

LEMMA LineKept ==
  ASSUME NEW before \in States, NEW m \in Messages, NEW answer \in Answers,
         m.method = "initialize" /\ m.envelope = "none" /\ answer[1].code = 0
           => ~before.modern /\ ~before.legacy
  PROVE  /\ [before |-> before, message |-> m, answer |-> answer] \in Lines
         /\ EraKept([before |-> before, message |-> m, answer |-> answer])
BY DEF Lines, EraKept

LEMMA HeardKeeps ==
  ASSUME PipeInv, NEW m \in Messages, NEW channel \in Names
  PROVE  Wire!Heard(m, channel) = pipe
         \/ \E state \in States, line \in Lines :
              EraKept(line)
              /\ Wire!Heard(m, channel) = [pipe EXCEPT !.state = state, !.out = Append(pipe.out, line)]
<1>1. PICK state \in States : state = pipe.state
  BY DEF PipeInv
<1>2. pipe = [pipe EXCEPT !.state = state]
  BY <1>1 DEF PipeInv
<1> DEFINE after == Wire!HandleModern(m, channel)
           done == Wire!HandleLegacy(state, m, channel)
           Entry(answer) == [before |-> state, message |-> m, answer |-> answer]
<1>3. CASE m.method = "scalar"
  BY <1>3 DEF Wire!Heard
<1>4. CASE m.method # "scalar" /\ Wire!Enveloped(m)
  <2>1. PICK then \in States : then = [state EXCEPT !.modern = TRUE]
    BY DEF States
  <2>2. Wire!Heard(m, channel) = [pipe EXCEPT !.state.modern = TRUE, !.out = Append(pipe.out, Entry(after.answer))]
    BY <1>1, <1>4 DEF Wire!Heard
  <2>3. [pipe EXCEPT !.state.modern = TRUE] = [pipe EXCEPT !.state = then]
    BY <1>1, <2>1
  <2>4. Wire!Heard(m, channel) = [pipe EXCEPT !.state = then, !.out = Append(pipe.out, Entry(after.answer))]
    BY <1>1, <2>1, <2>2
  <2>5. after.answer \in Answers
    BY HandleModernTyped
  <2>6. m.envelope # "none"
    BY <1>4 DEF Wire!Enveloped
  <2> HIDE DEF after
  <2>7. Entry(after.answer) \in Lines /\ EraKept(Entry(after.answer))
    BY <2>5, <2>6, LineKept
  <2> QED BY <2>4, <2>7
<1>5. CASE m.method # "scalar" /\ ~Wire!Enveloped(m) /\ m.method = "initialize" /\ state.modern
  <2>1. PICK answer \in Answers : answer = Wire!Error(m.id, -32022)
    BY ErrorTyped DEF Messages
  <2>2. Wire!Heard(m, channel) = [pipe EXCEPT !.out = Append(pipe.out, Entry(answer))]
    BY <1>1, <1>5, <2>1 DEF Wire!Heard
  <2>3. Wire!Heard(m, channel) = [pipe EXCEPT !.state = state, !.out = Append(pipe.out, Entry(answer))]
    BY <1>2, <2>2 DEF PipeInv
  <2>4. answer[1].code = -32022
    BY <2>1 DEF Wire!Error, Wire!Answered
  <2>5. Entry(answer) \in Lines /\ EraKept(Entry(answer))
    BY <2>4, LineKept
  <2> QED BY <2>3, <2>5
<1>6. CASE m.method # "scalar" /\ ~Wire!Enveloped(m) /\ ~(m.method = "initialize" /\ state.modern)
  <2>1. Wire!Heard(m, channel) = [pipe EXCEPT !.state = done.state, !.out = Append(pipe.out, Entry(done.answer))]
    BY <1>1, <1>6 DEF Wire!Heard
  <2>2. done.answer \in Answers /\ done.state \in States
    BY HandleLegacyTyped DEF Answers
  <2>3. m.method = "initialize" /\ state.legacy => done.answer[1].code = -32600
    BY DEF Wire!HandleLegacy, Wire!Error, Wire!Answered
  <2>4. state.legacy \in BOOLEAN /\ state.modern \in BOOLEAN
    BY DEF States
  <2> HIDE DEF done
  <2>5. Entry(done.answer) \in Lines /\ EraKept(Entry(done.answer))
    BY <1>6, <2>2, <2>3, <2>4, LineKept
  <2> QED BY <2>1, <2>2, <2>5
<1> QED BY <1>3, <1>4, <1>5, <1>6

LEMMA PipeStep ==
  ASSUME Parsed, PipeInv, [Wire!Next]_(Wire!vars)
  PROVE  PipeInv'
<1>1. CASE pipe' = pipe
  BY <1>1 DEF PipeInv
<1>2. ASSUME NEW body \in Bodies, NEW channel \in Channels, Wire!Line(body, channel), pipe' # pipe
      PROVE  PipeInv'
  <2>1. PICK m \in Messages : m = body.messages[1] /\ channel \in Names
    BY <1>2 DEF Wire!Line, Parsed, Names
  <2>2. pipe' = Wire!Heard(m, channel)
    BY <1>2, <2>1 DEF Wire!Line
  <2>3. PICK state \in States, line \in Lines :
          /\ EraKept(line) /\ pipe' = [pipe EXCEPT !.state = state, !.out = Append(pipe.out, line)]
    <3>1. Wire!Heard(m, channel) = pipe
          \/ \E state \in States, line \in Lines :
               EraKept(line)
               /\ Wire!Heard(m, channel) = [pipe EXCEPT !.state = state, !.out = Append(pipe.out, line)]
      BY <2>1, HeardKeeps
    <3> QED BY <1>2, <2>2, <3>1
  <2>4. PICK out \in Heards : out = Append(pipe.out, line) /\ \A i \in DOMAIN out : EraKept(out[i])
    <3>1. pipe.out \in Seq(Lines) /\ \A i \in DOMAIN pipe.out : EraKept(pipe.out[i])
      BY DEF PipeInv, Heards
    <3>2. Append(pipe.out, line) \in Heards /\ \A i \in DOMAIN Append(pipe.out, line) :
            Append(pipe.out, line)[i] = line \/ (i \in DOMAIN pipe.out /\ Append(pipe.out, line)[i] = pipe.out[i])
      BY <3>1 DEF Heards
    <3> QED BY <2>3, <3>1, <3>2
  <2>5. pipe' = [pipe EXCEPT !.state = state, !.out = out]
    BY <2>3, <2>4
  <2>6. pipe' \in [state : States, out : Heards] /\ pipe'.out = out
    BY <2>5 DEF PipeInv
  <2> QED BY <2>4, <2>6 DEF PipeInv
<1>3. ASSUME NEW c \in Clients, NEW body \in Bodies, NEW version, NEW id, NEW channel, NEW method,
             \/ Wire!PostInSession(c, body, version, id, channel)
             \/ Wire!PostOutside(c, body, version, id)
             \/ Wire!PostInitialize(c, body, version, id, channel)
             \/ Wire!PostModern(c, body, version, method, channel)
             \/ Wire!HeaderWithoutEnvelope(c, body)
      PROVE  pipe' = pipe
  BY <1>3 DEF Wire!PostInSession, Wire!PostOutside, Wire!PostInitialize, Wire!PostModern,
              Wire!HeaderWithoutEnvelope
<1>4. ASSUME NEW c \in Clients,
             \/ Wire!Unsound(c) \/ Wire!HandleScalar(c) \/ Wire!HandleModernMessage(c)
             \/ Wire!HandleLegacyMessage(c) \/ Wire!Finish(c) \/ Wire!Leave(c)
      PROVE  pipe' = pipe
  <2>1. Wire!HandleScalar(c) => pipe' = pipe
    BY DEF Wire!HandleScalar
  <2>2. Wire!HandleModernMessage(c) => pipe' = pipe
    BY DEF Wire!HandleModernMessage
  <2>3. Wire!HandleLegacyMessage(c) => pipe' = pipe
    BY DEF Wire!HandleLegacyMessage
  <2>4. Wire!Unsound(c) \/ Wire!Finish(c) \/ Wire!Leave(c) => pipe' = pipe
    BY DEF Wire!Unsound, Wire!Finish, Wire!Leave
  <2> QED BY <1>4, <2>1, <2>2, <2>3, <2>4
<1>5. ASSUME Wire!Tick \/ (\E id \in known : Wire!Delete(id)) \/ (\E id \in Wire!Ids : Wire!Watchdog(id))
      PROVE  pipe' = pipe
  BY <1>5 DEF Wire!Tick, Wire!Delete, Wire!Watchdog
<1>6. CASE UNCHANGED Wire!vars
  BY <1>1, <1>6 DEF Wire!vars
<1>7. CASE Wire!Next
  BY <1>1, <1>2, <1>3, <1>4, <1>5, <1>7, SMTT(30) DEF Wire!Next
<1> QED BY <1>6, <1>7

(* After a message with an envelope no legacy initialize is accepted on    *)
(* the stdio pipe, and a legacy one only once                              *)
(* (handle_stdio_message of protocol/dispatch.rs).                         *)
THEOREM PipeStaysModern == ASSUME Parsed PROVE Wire!Spec => []Wire!PipeKeepsItsEra
<1>1. Wire!Init => PipeInv
  <2>1. ASSUME Wire!Init PROVE PipeInv
    <3>1. pipe = [state |-> Wire!Fresh, out |-> <<>>]
      BY <2>1 DEF Wire!Init
    <3>2. <<>> \in Heards /\ DOMAIN <<>> = {}
      BY DEF Heards
    <3> QED BY <3>1, <3>2, FreshTyped DEF PipeInv
  <2> QED BY <2>1
<1>2. PipeInv /\ [Wire!Next]_(Wire!vars) => PipeInv'
  BY PipeStep
<1>3. PipeInv => Wire!PipeKeepsItsEra
  BY DEF PipeInv, EraKept, Wire!PipeKeepsItsEra
<1> QED BY <1>1, <1>2, <1>3, PTL DEF Wire!Spec
=============================================================================
