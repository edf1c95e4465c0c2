------------------------------ MODULE Protocol ------------------------------
(***************************************************************************)
(* How requests reach the tools: protocol/http.rs (routing, eras, batches, *)
(* sessions), protocol/session.rs (the session table and its watchdogs),   *)
(* protocol/dispatch.rs (what a message does) and protocol/stdio.rs.       *)
(*                                                                         *)
(* A request over HTTP reads a copy of its session's state, handles its    *)
(* messages one by one, and writes the state back; other requests, the     *)
(* watchdog of the session and DELETE come in between.  Time is counted in *)
(* ticks; a watchdog that is due fires before time goes on.                *)
(***************************************************************************)
EXTENDS Integers, Sequences, FiniteSets

CONSTANTS
  Clients,      \* connections with one request at a time
  Bodies,       \* what they post: [single, messages]
  Channels,     \* output channels
  Timeout,      \* idle timeout in ticks; 0 disables eviction
  MaxSessions,  \* bound of the model
  Stdio         \* is there a connection over a pipe?

VARIABLES
  sessions,   \* id -> [initialized, channel, idle], the ids in the table
  watch,      \* id -> ticks until its watchdog wakes
  known,      \* ids handed out
  request,    \* client -> its request
  metrics,    \* [created, evicted, closed]
  inits,      \* id -> initialize requests that succeeded in it (ghost)
  pipe        \* the stdio connection: [state, out]
vars == <<sessions, watch, known, request, metrics, inits, pipe>>

Ids == 1..MaxSessions
\* ConnectionState::default
Fresh == [legacy |-> FALSE, modern |-> FALSE]
NoRequest == [pc |-> "idle", era |-> "legacy", session |-> 0, fresh |-> FALSE, asked |-> "none",
              body |-> <<>>, at |-> 0, state |-> Fresh, channel |-> "none", answers |-> <<>>,
              status |-> 0]

Init ==
  /\ sessions = << >> /\ watch = << >> /\ known = {}
  /\ request = [c \in Clients |-> NoRequest]
  /\ metrics = [created |-> 0, evicted |-> 0, closed |-> 0]
  /\ inits = << >>
  /\ pipe = [state |-> Fresh, out |-> <<>>]

-----------------------------------------------------------------------------
(* What a message does: [state, answer, hint].  A message is [id, method,  *)
(* envelope]; id 0: a notification; method "scalar": not an object.        *)

Answered(id, code, channel) == <<[id |-> id, code |-> code, channel |-> channel]>>
Nothing == <<>>
Result(id, channel) == Answered(id, 0, channel)
Error(id, code) == Answered(id, code, "none")

\* The params of tools/call: complete, or the first thing that is wrong with
\* them; "crash": the worker of the tool panics.
CallAnswer(m, channel) ==
  CASE m.call = "good" -> Result(m.id, channel)
    [] m.call = "crash" -> Error(m.id, -32603)
    [] OTHER -> Error(m.id, -32602)   \* params, name, arguments, unknown tool

HandleLegacy(state, m, channel) ==
  CASE m.method = "initialize" ->
         IF state.legacy THEN [state |-> state, answer |-> Error(m.id, -32600), hint |-> "bad"]
         ELSE [state |-> [state EXCEPT !.legacy = TRUE], answer |-> Result(m.id, "none"),
               hint |-> "ok"]
    [] m.method = "initialized" -> [state |-> state, answer |-> Nothing, hint |-> "ok"]
    [] m.method = "list" -> [state |-> state, answer |-> Result(m.id, "none"), hint |-> "ok"]
    [] m.method = "call" -> [state |-> state, answer |-> CallAnswer(m, channel), hint |-> "ok"]
    [] OTHER -> IF m.id = 0 THEN [state |-> state, answer |-> Nothing, hint |-> "ok"]
                ELSE [state |-> state, answer |-> Error(m.id, -32601), hint |-> "missing"]

HandleModern(m, channel) ==
  IF m.envelope \in {"none", "partial"} THEN [answer |-> Error(m.id, -32602), hint |-> "bad"]
  ELSE IF m.envelope = "other" THEN [answer |-> Error(m.id, -32022), hint |-> "bad"]
  ELSE IF m.method \in {"discover", "list"} THEN [answer |-> Result(m.id, "none"), hint |-> "ok"]
  ELSE IF m.method = "call" THEN [answer |-> CallAnswer(m, channel), hint |-> "ok"]
  ELSE IF m.method # "initialize" /\ m.id = 0 THEN [answer |-> Nothing, hint |-> "ok"]
  ELSE [answer |-> Error(m.id, -32601), hint |-> "missing"]

\* has_modern_envelope
Enveloped(m) == m.method # "scalar" /\ m.envelope # "none"
IsInitialize(body) == body.single /\ body.messages[1].method = "initialize"

-----------------------------------------------------------------------------
(* POST /mcp up to the session.  `version` is the MCP-Protocol-Version     *)
(* header: absent, of an older revision, or of the modern one.             *)

Refuse(c, code) == request' = [request EXCEPT ![c] =
  [NoRequest EXCEPT !.pc = "answered", !.status = code]]

Unsound(c) ==   \* wrong media type, accept header or JSON
  /\ request[c].pc = "idle"
  /\ Refuse(c, 400)
  /\ UNCHANGED <<sessions, watch, known, metrics, inits, pipe>>

\* One message with an envelope makes the whole body a modern one.
PostModern(c, body, version, method, channel) ==
  /\ request[c].pc = "idle" /\ \E i \in DOMAIN body.messages : Enveloped(body.messages[i])
  /\ IF version # "none" /\ ~method THEN Refuse(c, 400)
     ELSE request' = [request EXCEPT ![c] =
       [NoRequest EXCEPT !.pc = "handle", !.era = "modern", !.body = body.messages, !.at = 1,
                         !.channel = channel, !.asked = channel, !.status = 200]]
  /\ UNCHANGED <<sessions, watch, known, metrics, inits, pipe>>

Legacy(c, body, version) ==
  /\ request[c].pc = "idle" /\ \A i \in DOMAIN body.messages : ~Enveloped(body.messages[i])
  /\ version # "modern"

HeaderWithoutEnvelope(c, body) ==
  /\ request[c].pc = "idle" /\ \A i \in DOMAIN body.messages : ~Enveloped(body.messages[i])
  /\ Refuse(c, 400)
  /\ UNCHANGED <<sessions, watch, known, metrics, inits, pipe>>

\* The channel is the one the session was created with.
Kept(session, asked) == session.channel

\* A request in a session: its activity is noted and its state copied.
PostInSession(c, body, version, id, channel) ==
  /\ Legacy(c, body, version) /\ id \in DOMAIN sessions
  /\ sessions' = [sessions EXCEPT ![id].idle = 0]
  /\ request' = [request EXCEPT ![c] =
       [NoRequest EXCEPT !.pc = "handle", !.session = id, !.body = body.messages, !.at = 1,
                         !.state = [Fresh EXCEPT !.legacy = sessions[id].initialized],
                         !.channel = Kept(sessions[id], channel), !.asked = channel,
                         !.status = 200]]
  /\ UNCHANGED <<watch, known, metrics, inits, pipe>>

\* Without a session, or in one that is lost, only initialize goes on; and not
\* even that when the session is lost between `contains` and `touch`.
PostOutside(c, body, version, id) ==
  /\ Legacy(c, body, version) /\ id \notin DOMAIN sessions
  /\ id = 0 => ~IsInitialize(body)
  /\ Refuse(c, IF id = 0 THEN 400 ELSE 404)
  /\ UNCHANGED <<sessions, watch, known, metrics, inits, pipe>>

\* SessionTable::create with its watchdog.
PostInitialize(c, body, version, id, channel) ==
  /\ Legacy(c, body, version) /\ id \notin DOMAIN sessions /\ IsInitialize(body)
  /\ metrics.created < MaxSessions
  /\ LET new == metrics.created + 1
         session == [initialized |-> FALSE, channel |-> channel, idle |-> 0]
     IN /\ sessions' = [k \in DOMAIN sessions \cup {new} |-> IF k = new THEN session ELSE sessions[k]]
        /\ watch' = IF Timeout = 0 THEN watch
                    ELSE [k \in DOMAIN watch \cup {new} |-> IF k = new THEN Timeout ELSE watch[k]]
        /\ inits' = [k \in DOMAIN inits \cup {new} |-> IF k = new THEN 0 ELSE inits[k]]
        /\ request' = [request EXCEPT ![c] =
             [NoRequest EXCEPT !.pc = "handle", !.session = new, !.fresh = TRUE, !.at = 1,
                               !.body = body.messages, !.channel = channel, !.asked = channel,
                               !.status = 200]]
  /\ metrics' = [metrics EXCEPT !.created = @ + 1]
  /\ UNCHANGED <<known, pipe>>

-----------------------------------------------------------------------------
(* The messages of a body, one by one.                                     *)

Handling(c) == request[c].pc = "handle" /\ request[c].at <= Len(request[c].body)
Message(c) == request[c].body[request[c].at]

HandleScalar(c) ==
  /\ Handling(c) /\ Message(c).method = "scalar"
  /\ request' = [request EXCEPT ![c].at = @ + 1, ![c].answers = @ \o Error(0, -32600),
                   ![c].status = IF request[c].era = "modern" /\ @ = 200 THEN 400 ELSE @]
  /\ UNCHANGED <<sessions, watch, known, metrics, inits, pipe>>

\* Of the hints of a modern message only "missing" becomes a status.
HandleModernMessage(c) ==
  /\ Handling(c) /\ Message(c).method # "scalar" /\ request[c].era = "modern"
  /\ LET done == HandleModern(Message(c), request[c].channel)
     IN request' = [request EXCEPT ![c].at = @ + 1, ![c].answers = @ \o done.answer,
          ![c].status = IF done.hint = "missing" THEN 404 ELSE @]
  /\ UNCHANGED <<sessions, watch, known, metrics, inits, pipe>>

\* A second initialize ends the request with that error alone; the state is
\* not written back.
HandleLegacyMessage(c) ==
  /\ Handling(c) /\ Message(c).method # "scalar" /\ request[c].era = "legacy"
  /\ LET done == HandleLegacy(request[c].state, Message(c), request[c].channel)
         id == request[c].session
     IN /\ request' = [request EXCEPT ![c] =
             IF done.hint = "bad" THEN [@ EXCEPT !.pc = "answered", !.answers = done.answer, !.status = 400]
             ELSE [@ EXCEPT !.at = request[c].at + 1, !.answers = request[c].answers \o done.answer,
                            !.state = done.state]]
        /\ inits' = IF Message(c).method = "initialize" /\ done.hint = "ok"
                    THEN [inits EXCEPT ![id] = @ + 1] ELSE inits
  /\ UNCHANGED <<sessions, watch, known, metrics, pipe>>

\* Fault: the state of a new session is not written back.
FaultWriteBack(c) == sessions

\* set_state, if the session is still there.
WriteBack(c) ==
  IF request[c].session \in DOMAIN sessions
  THEN [sessions EXCEPT ![request[c].session].initialized = request[c].state.legacy]
  ELSE sessions

Finish(c) ==
  /\ request[c].pc = "handle" /\ request[c].at > Len(request[c].body)
  /\ sessions' = IF request[c].era = "legacy" THEN WriteBack(c) ELSE sessions
  /\ known' = known \cup ({request[c].session} \ {0})
  /\ request' = [request EXCEPT ![c].pc = "answered",
                   ![c].status = IF request[c].answers = <<>> THEN 202 ELSE @]
  /\ UNCHANGED <<watch, metrics, inits, pipe>>

\* The answer has been sent; or the client has gone, and the handler with it.
Leave(c) ==
  /\ request[c].pc # "idle"
  /\ request' = [request EXCEPT ![c] = NoRequest]
  /\ UNCHANGED <<sessions, watch, known, metrics, inits, pipe>>

-----------------------------------------------------------------------------
(* DELETE, the watchdogs, the pipe.  (GET opens an event stream on which   *)
(* nothing is ever sent, and changes nothing.)                             *)

Gone(id) == [k \in DOMAIN sessions \ {id} |-> sessions[k]]

Delete(id) ==
  /\ id \in DOMAIN sessions
  /\ sessions' = Gone(id)
  /\ metrics' = [metrics EXCEPT !.closed = @ + 1]
  /\ UNCHANGED <<watch, known, request, inits, pipe>>

Tick ==
  /\ Timeout > 0 /\ \A id \in DOMAIN watch : watch[id] > 0
  /\ \E id \in DOMAIN sessions : TRUE
  /\ sessions' = [id \in DOMAIN sessions |-> [sessions[id] EXCEPT !.idle = @ + 1]]
  /\ watch' = [id \in DOMAIN watch |-> watch[id] - 1]
  /\ UNCHANGED <<known, request, metrics, inits, pipe>>

Remaining(id) == Timeout - sessions[id].idle

Watchdog(id) ==
  /\ id \in DOMAIN watch /\ watch[id] = 0
  /\ IF id \in DOMAIN sessions /\ sessions[id].idle < Timeout
     THEN watch' = [watch EXCEPT ![id] = Remaining(id)] /\ UNCHANGED <<sessions, metrics>>
     ELSE /\ watch' = [k \in DOMAIN watch \ {id} |-> watch[k]]
          /\ IF id \in DOMAIN sessions
             THEN /\ sessions' = Gone(id)
                  /\ metrics' = [metrics EXCEPT !.evicted = @ + 1, !.closed = @ + 1]
             ELSE UNCHANGED <<sessions, metrics>>
  /\ UNCHANGED <<known, request, inits, pipe>>

\* handle_stdio_message: one line after another; a scalar is ignored.
Heard(m, channel) ==
  LET refused == m.method = "initialize" /\ ~Enveloped(m) /\ pipe.state.modern
      done == HandleLegacy(pipe.state, m, channel)
  IN IF m.method = "scalar" THEN pipe
     ELSE IF Enveloped(m)
     THEN [pipe EXCEPT !.state.modern = TRUE, !.out = Append(@,
            [before |-> pipe.state, message |-> m, answer |-> HandleModern(m, channel).answer])]
     ELSE IF refused
     THEN [pipe EXCEPT !.out = Append(@,
            [before |-> pipe.state, message |-> m, answer |-> Error(m.id, -32022)])]
     ELSE [pipe EXCEPT !.state = done.state, !.out = Append(@,
            [before |-> pipe.state, message |-> m, answer |-> done.answer])]

Line(body, channel) ==
  /\ Stdio /\ body.single /\ Len(pipe.out) < 2
  /\ pipe' = Heard(body.messages[1], channel)
  /\ UNCHANGED <<sessions, watch, known, request, metrics, inits>>

Next ==
  \/ \E c \in Clients, body \in Bodies, version \in {"none", "older", "modern"},
        id \in known \cup {0}, channel \in Channels :
       \/ PostInSession(c, body, version, id, channel)
       \/ PostOutside(c, body, version, id)
       \/ PostInitialize(c, body, version, id, channel)
       \/ \E method \in BOOLEAN : PostModern(c, body, version, method, channel)
       \/ version = "modern" /\ HeaderWithoutEnvelope(c, body)
  \/ \E c \in Clients : \/ Unsound(c) \/ HandleScalar(c) \/ HandleModernMessage(c)
                        \/ HandleLegacyMessage(c) \/ Finish(c) \/ Leave(c)
  \/ \E id \in known : Delete(id)
  \/ \E id \in Ids : Watchdog(id)
  \/ Tick
  \/ \E body \in Bodies, channel \in Channels : Line(body, channel)
Spec == Init /\ [][Next]_vars

-----------------------------------------------------------------------------
(* Properties.                                                             *)

TypeOK ==
  /\ DOMAIN sessions \subseteq Ids /\ DOMAIN watch \subseteq Ids /\ known \subseteq Ids
  /\ \A c \in Clients : request[c].pc \in {"idle", "handle", "answered"}
  /\ \A id \in DOMAIN watch : watch[id] \in 0..Timeout

(* A session is initialized once, however the requests in it overlap:      *)
(* every one of them works on a copy of its state.                         *)
OneInitialize ==
  /\ \A id \in DOMAIN inits : inits[id] <= 1
  /\ \A id \in known \cap DOMAIN sessions : sessions[id].initialized

(* Every request of a body has one answer, with its id, in the order of    *)
(* the requests, and notifications have none; unless the body ends with a  *)
(* second initialize, which is all that is answered.                       *)
Expects(m) == m.id # 0 \/ m.method \in {"scalar", "list", "call", "initialize"}
AnswersAreInTurn ==
  \A c \in Clients : request[c].pc = "answered" /\ request[c].at > 0 =>
    \/ /\ request[c].status = 400 /\ request[c].era = "legacy"
       /\ Message(c).method = "initialize"
       /\ Len(request[c].answers) = 1 /\ request[c].answers[1].id = Message(c).id
    \/ LET asked == SelectSeq(request[c].body, LAMBDA m :
             IF request[c].era = "modern" THEN m.envelope # "modern" \/ Expects(m) ELSE Expects(m))
       IN /\ Len(request[c].answers) = Len(asked)
          /\ \A i \in DOMAIN asked : request[c].answers[i].id = asked[i].id

(* What a tool answers in a session goes out on the channel the session    *)
(* was initialized with, whatever a later request asks for.                *)
ChannelIsKept ==
  \A c \in Clients : \A i \in DOMAIN request[c].answers :
    LET answer == request[c].answers[i]
        id == request[c].session
    IN answer.channel # "none" =>
         IF request[c].era = "modern" THEN answer.channel = request[c].asked
         ELSE id \in DOMAIN sessions => answer.channel = sessions[id].channel

(* An idle session goes no later than its timeout after its last request,  *)
(* and is counted once: created, less closed, is what is in the table.     *)
EvictionIsTimely ==
  /\ Timeout > 0 => \A id \in DOMAIN sessions :
       id \in DOMAIN watch /\ sessions[id].idle + watch[id] <= Timeout
  /\ metrics.created - metrics.closed = Cardinality(DOMAIN sessions)
  /\ metrics.evicted <= metrics.closed

(* Only a session that was idle for the whole timeout is evicted.          *)
OnlyIdleIsEvicted ==
  metrics'.evicted > metrics.evicted =>
    \E id \in DOMAIN sessions \ DOMAIN sessions' : sessions[id].idle >= Timeout

(* On a pipe the modern era is final: after a message with an envelope no  *)
(* legacy initialize is accepted, and the legacy state is still guarded.   *)
PipeKeepsItsEra ==
  \A i \in DOMAIN pipe.out :
    LET done == pipe.out[i]
    IN done.message.method = "initialize" /\ done.message.envelope = "none"
         /\ done.answer[1].code = 0 => ~done.before.modern /\ ~done.before.legacy

(* contracts/wire/http-modern/era-boundary.json: a modern body whose       *)
(* envelope is refused is answered with status 400.  (In fact only a       *)
(* missing method changes the status, and the answer goes out with 200.)   *)
RefusedEnvelopeIs400 ==
  \A c \in Clients :
    request[c].pc = "answered" /\ request[c].era = "modern" /\ Len(request[c].body) = 1
      /\ request[c].body[1].envelope \in {"partial", "other"} => request[c].status = 400
=============================================================================
