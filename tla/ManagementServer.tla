-------------------------- MODULE ManagementServer --------------------------
(***************************************************************************)
(* Local administration of running servers: the Unix endpoint              *)
(* (control/unix.rs), the server behind it (control/server.rs,             *)
(* control/wire.rs) and the client of the command line (control/client.rs, *)
(* control/instances.rs).                                                  *)
(*                                                                         *)
(* Servers start, stop and crash over one endpoint path.  A client makes   *)
(* two connections, one to learn the startup id of whoever answers and one *)
(* to give its command; between them the server may have been replaced.    *)
(* The path holds 0 (nothing), Alien (not a socket) or the startup id of   *)
(* the process that bound the socket, which stands for its inode.          *)
(***************************************************************************)
EXTENDS Integers, Sequences, FiniteSets

CONSTANTS
  Servers,    \* processes, each with the instance name InstanceOf[s]
  InstanceOf,
  Clients,    \* administrators
  Foreign,    \* those of another user
  Mappings,   \* instance files: sequences of [key, named, entry]
  Raw,        \* requests of programs other than the client
  Permits,    \* connections at once (32 in the code)
  Cleaning,   \* may something else remove the socket file?
  MaxStarts, MaxConns   \* bounds of the model

VARIABLES
  endpoint,   \* what the path holds
  private,    \* is the directory the server's own, with mode 0700?
  lock,       \* holder of the ownership lock; "none"
  server,     \* s -> [pc, startup, free]: free permits
  starts,     \* the last startup id given
  conns,      \* connections, in the order they were made
  client,     \* c -> [pc, command, name, hello, conn, result]
  effects     \* writes carried out: [startup, conn] (ghost)
vars == <<endpoint, private, lock, server, starts, conns, client, effects>>

Alien == -1
Stale == 1     \* a socket left by a process that is gone
NoClient == [pc |-> "idle", command |-> "none", name |-> "none", hello |-> 0, conn |-> 0,
             result |-> "none"]
Closed == [pc |-> "closed", live |-> FALSE, owner |-> "none", client |-> "none", answer |-> 0,
           request |-> "none"]
NoServer == [pc |-> "off", startup |-> 0, free |-> 0]

Init ==
  /\ endpoint \in {0, Alien, Stale} /\ private \in BOOLEAN
  /\ lock = "none"
  /\ server = [s \in Servers |-> NoServer]
  /\ starts = Stale
  /\ conns = <<>>
  /\ client = [c \in Clients |-> NoClient]
  /\ effects = {}

-----------------------------------------------------------------------------
(* The endpoint.                                                           *)

\* Would a connection to the path be taken up?
Alive(path) == \E s \in Servers : server[s].startup = path
                                  /\ server[s].pc \in {"listening", "unlinking", "closing"}
Of(s) == {i \in DOMAIN conns : conns[i].owner = s}
Move(s, pc) == server' = [server EXCEPT ![s].pc = pc]
\* bind fails: the ownership file closes.
GivesUp(s) == Move(s, "off") /\ lock' = "none" /\ UNCHANGED endpoint

StartServer(s) ==
  /\ server[s].pc = "off" /\ Of(s) = {} /\ starts <= MaxStarts
  /\ private
  /\ starts' = starts + 1
  /\ server' = [server EXCEPT ![s] = [pc |-> "owning", startup |-> starts + 1, free |-> Permits]]
  /\ UNCHANGED <<endpoint, private, lock, conns, client, effects>>

Own(s) ==
  /\ server[s].pc = "owning"
  /\ IF lock = "none" THEN Move(s, "looking") /\ lock' = s
     ELSE Move(s, "off") /\ UNCHANGED lock
  /\ UNCHANGED <<endpoint, private, starts, conns, client, effects>>

Look(s) ==
  /\ server[s].pc = "looking"
  /\ CASE endpoint = 0 -> Move(s, "binding") /\ UNCHANGED <<endpoint, lock>>
       [] endpoint = Alien -> GivesUp(s)
       [] OTHER -> Move(s, "probing") /\ UNCHANGED <<endpoint, lock>>
  /\ UNCHANGED <<private, starts, conns, client, effects>>

\* The socket found is in use, gone, or refuses the connection.
Probe(s) ==
  /\ server[s].pc = "probing"
  /\ IF endpoint = 0 \/ Alive(endpoint) THEN GivesUp(s)
     ELSE Move(s, "removing") /\ UNCHANGED <<endpoint, lock>>
  /\ UNCHANGED <<private, starts, conns, client, effects>>

Remove(s) ==
  /\ server[s].pc = "removing"
  /\ IF endpoint = 0 THEN GivesUp(s) ELSE endpoint' = 0 /\ Move(s, "binding") /\ UNCHANGED lock
  /\ UNCHANGED <<private, starts, conns, client, effects>>

Bind(s) ==
  /\ server[s].pc = "binding"
  /\ IF endpoint # 0 THEN GivesUp(s)
     ELSE endpoint' = server[s].startup /\ Move(s, "listening") /\ UNCHANGED lock
  /\ UNCHANGED <<private, starts, conns, client, effects>>

\* The connections of s end with its task; a request under way is worked
\* out to its end, and keeps its permit until then.
Aborted(s) ==
  [i \in DOMAIN conns |->
     IF conns[i].owner # s THEN conns[i]
     ELSE CASE conns[i].pc = "working" -> [conns[i] EXCEPT !.live = FALSE]
            [] conns[i].pc \in {"reading", "sending"} -> Closed
            [] OTHER -> conns[i]]
Released(s) == Cardinality({i \in Of(s) : conns[i].pc \in {"reading", "sending"}})

\* The server is dropped, or its listener fails: the socket goes if it is
\* still the one that was bound.
DropListener(s) ==
  /\ server[s].pc = "listening"
  /\ server' = [server EXCEPT ![s].pc = IF endpoint = server[s].startup THEN "unlinking" ELSE "closing",
                              ![s].free = @ + Released(s)]
  /\ conns' = Aborted(s)
  /\ UNCHANGED <<endpoint, private, lock, starts, client, effects>>

Unlink(s) ==
  /\ server[s].pc = "unlinking"
  /\ endpoint' = 0 /\ Move(s, "closing")
  /\ UNCHANGED <<private, lock, starts, conns, client, effects>>

CloseListener(s) ==
  /\ server[s].pc = "closing"
  /\ lock' = "none" /\ Move(s, "off")
  /\ conns' = [i \in DOMAIN conns |->
                 IF conns[i].owner = s /\ conns[i].pc = "backlog" THEN Closed ELSE conns[i]]
  /\ UNCHANGED <<endpoint, private, starts, client, effects>>

\* The process ends, at any moment; its files stay.
Exit(s) ==
  /\ server[s].pc # "off" \/ Of(s) # {}
  /\ server' = [server EXCEPT ![s] = NoServer]
  /\ lock' = IF lock = s THEN "none" ELSE lock
  /\ conns' = [i \in DOMAIN conns |-> IF conns[i].owner = s THEN Closed ELSE conns[i]]
  /\ UNCHANGED <<endpoint, private, starts, client, effects>>

Clean ==
  /\ Cleaning /\ endpoint # 0
  /\ endpoint' = 0
  /\ UNCHANGED <<private, lock, server, starts, conns, client, effects>>

-----------------------------------------------------------------------------
(* A connection: one request, one response.                                *)

\* Peers of another user, and peers for whom no permit is left, are dropped.
Accept(i) ==
  /\ conns[i].pc = "backlog" /\ server[conns[i].owner].pc = "listening"
  /\ LET s == conns[i].owner IN
       IF conns[i].client \in Foreign \/ server[s].free = 0
       THEN conns' = [conns EXCEPT ![i] = Closed] /\ UNCHANGED server
       ELSE /\ conns' = [conns EXCEPT ![i].pc = "reading"]
            /\ server' = [server EXCEPT ![s].free = @ - 1]
  /\ UNCHANGED <<endpoint, private, lock, starts, client, effects>>

\* A request read in time is worked on; a frame that is empty, too large or
\* not a request, and a peer that sends nothing, end the connection.
Receives(request) == request.command # "garbage"
Receive(i) ==
  /\ conns[i].pc = "reading"
  /\ \/ Receives(conns[i].request) /\ conns' = [conns EXCEPT ![i].pc = "working"] /\ UNCHANGED server
     \/ /\ conns' = [conns EXCEPT ![i] = Closed]
        /\ server' = [server EXCEPT ![conns[i].owner].free = @ + 1]
  /\ UNCHANGED <<endpoint, private, lock, starts, client, effects>>

Writes == {"write"}    \* data_sync, job_cancel, config_reload
\* Why respond refuses a request, in the order of its tests.
Refusal(s, request) ==
  IF ~request.version THEN "protocol_version"
  ELSE IF request.instance # InstanceOf[s] THEN "instance_mismatch"
  ELSE IF request.expected # 0 /\ request.expected # server[s].startup THEN "instance_restarted"
  ELSE IF request.command \in Writes /\ request.expected # server[s].startup THEN "startup_id_required"
  ELSE "none"

\* The answer: the startup id, or Failed.  The permit goes on with it, unless
\* nobody waits for it any more.
Failed == -1
Respond(i) ==
  /\ conns[i].pc = "working"
  /\ LET s == conns[i].owner
         request == conns[i].request
         refused == Refusal(s, request) # "none"
     IN \E ok \in IF refused THEN {FALSE} ELSE IF request.command = "hello" THEN {TRUE} ELSE BOOLEAN :
          /\ effects' = IF ok /\ request.command \in Writes
                        THEN effects \cup {[startup |-> server[s].startup, conn |-> i,
                                            asked |-> request.instance]}
                        ELSE effects
          /\ conns' = [conns EXCEPT ![i] =
                         IF conns[i].live
                         THEN [conns[i] EXCEPT !.pc = "sending",
                                               !.answer = IF ok THEN server[s].startup ELSE Failed]
                         ELSE Closed]
          /\ server' = IF conns[i].live THEN server ELSE [server EXCEPT ![s].free = @ + 1]
  /\ UNCHANGED <<endpoint, private, lock, starts, client>>

\* The response is sent, or the peer is gone or does not take it in time.
Send(i) ==
  /\ conns[i].pc = "sending"
  /\ \/ conns' = [conns EXCEPT ![i].pc = "answered", ![i].owner = "none"]
     \/ conns' = [conns EXCEPT ![i] = Closed]
  /\ server' = [server EXCEPT ![conns[i].owner].free = @ + 1]
  /\ UNCHANGED <<endpoint, private, lock, starts, client, effects>>

FaultTimesOut(i) ==
  /\ conns[i].pc = "working" /\ conns[i].live
  /\ conns' = [conns EXCEPT ![i].live = FALSE]
  /\ server' = [server EXCEPT ![conns[i].owner].free = @ + 1]
  /\ UNCHANGED <<endpoint, private, lock, starts, client, effects>>
\* The response takes too long: the connection ends, the work goes on.
TimesOut(i) ==
  /\ conns[i].pc = "working" /\ conns[i].live
  /\ conns' = [conns EXCEPT ![i].live = FALSE]
  /\ UNCHANGED <<endpoint, private, lock, server, starts, client, effects>>

-----------------------------------------------------------------------------
(* The client.                                                             *)

\* The entry of an instance file for a name; every entry must be sound.
Sound(entry) == entry.named /\ entry.entry = "good"
Parse(mapping, name) ==
  IF \E k \in DOMAIN mapping : ~Sound(mapping[k]) THEN {}
  ELSE {k \in DOMAIN mapping : mapping[k].key = name}

Ends(c, result) ==
  client' = [client EXCEPT ![c] = [NoClient EXCEPT !.result = result, !.conn = client[c].conn,
                                     !.hello = client[c].hello, !.command = client[c].command]]

\* connect, and send the request.
Connects(c, request, command) ==
  /\ Len(conns) < MaxConns
  /\ IF Alive(endpoint)
     THEN LET s == CHOOSE t \in Servers : server[t].startup = endpoint IN
          /\ conns' = Append(conns, [pc |-> "backlog", live |-> TRUE, owner |-> s, client |-> c,
                                     answer |-> 0, request |-> request])
          /\ client' = [client EXCEPT ![c] = [NoClient EXCEPT !.pc = "waiting", !.conn = Len(conns) + 1,
                          !.command = command, !.name = client[c].name, !.hello = client[c].hello]]
     ELSE Ends(c, "error") /\ UNCHANGED conns
  /\ UNCHANGED <<endpoint, private, lock, server, starts, effects>>

Begin(c, command, name) ==
  /\ client[c].pc = "idle"
  /\ \E mapping \in Mappings : Parse(mapping, name) # {}
  /\ client' = [client EXCEPT ![c] = [NoClient EXCEPT !.pc = "hello", !.command = command,
                                                      !.name = name]]
  /\ UNCHANGED <<endpoint, private, lock, server, starts, conns, effects>>

Request(c) ==
  [version |-> TRUE, instance |-> client[c].name, expected |-> client[c].hello,
   command |-> IF client[c].hello = 0 THEN "hello" ELSE client[c].command]
Exchange(c) ==
  /\ client[c].pc = "hello"
  /\ Connects(c, Request(c), client[c].command)

\* Another program talks to the endpoint.
SendRaw(c) ==
  /\ client[c].pc = "idle"
  /\ client[c].hello = 0 /\ \E request \in Raw : Connects(c, request, "none")

Hears(c) ==
  /\ client[c].pc = "waiting"
  /\ LET conn == conns[client[c].conn] IN
       /\ conn.pc = "answered" \/ ~conn.live
       /\ IF conn.live /\ conn.answer # Failed
          THEN IF client[c].command # "none" /\ client[c].hello = 0
               THEN client' = [client EXCEPT ![c].pc = "hello", ![c].hello = conn.answer]
               ELSE Ends(c, "ok")
          ELSE Ends(c, "error")
       /\ conns' = IF conn.live THEN [conns EXCEPT ![client[c].conn] = Closed] ELSE conns
  /\ UNCHANGED <<endpoint, private, lock, server, starts, effects>>

\* The client waits no longer; what it asked for may still be done.
Leaves(c) ==
  /\ client[c].pc = "waiting"
  /\ Ends(c, "error")
  /\ UNCHANGED <<endpoint, private, lock, server, starts, conns, effects>>

Next ==
  \/ \E s \in Servers : \/ StartServer(s) \/ Own(s) \/ Look(s) \/ Probe(s) \/ Remove(s) \/ Bind(s)
                        \/ DropListener(s) \/ Unlink(s) \/ CloseListener(s) \/ Exit(s)
  \/ Clean
  \/ \E i \in DOMAIN conns : Accept(i) \/ Receive(i) \/ Respond(i) \/ Send(i) \/ TimesOut(i)
  \/ \E c \in Clients : \/ \E command \in {"read", "write"}, s \in Servers :
                             Begin(c, command, InstanceOf[s])
                        \/ Exchange(c) \/ SendRaw(c) \/ Hears(c) \/ Leaves(c)

-----------------------------------------------------------------------------
(* Properties.                                                             *)

\* The variables have their types.
TypeOK ==
  /\ endpoint \in {0, Alien} \cup 1..(MaxStarts + 1) /\ private \in BOOLEAN
  /\ lock \in Servers \cup {"none"} /\ starts \in 1..(MaxStarts + 1)
  /\ \A s \in Servers : server[s].free \in 0..Permits
  /\ \A i \in DOMAIN conns :
       conns[i].pc \in {"backlog", "reading", "working", "sending", "answered", "closed"}
  /\ \A c \in Clients : client[c].pc \in {"idle", "hello", "waiting"}

\* However many clients come, time out and come again, no more requests are
\* worked on than there are permits, and no permit is lost (the permit goes
\* with the work, server.rs).
WorkIsBounded ==
  \A s \in Servers :
    server[s].pc # "off" =>
      server[s].free + Cardinality({i \in Of(s) : conns[i].pc \in {"reading", "working", "sending"}}) = Permits

\* Two servers never answer on one path, whatever becomes of the socket file
\* (unix.rs keeps the lock for the life of the listener).
OneListener ==
  \A s, t \in Servers : s # t /\ server[s].pc = "listening" => server[t].pc \notin {"listening", "unlinking"}

\* The socket of a listening server is removed by itself or from outside,
\* never by a server that starts or stops.
SocketStays ==
  \A s \in Servers :
    server[s].pc = "listening" /\ server'[s].pc = "listening" /\ endpoint = server[s].startup
      /\ endpoint' # endpoint => Clean

\* A command that changes something is carried out once at most, by a process
\* of the instance that was asked for, and the one that answered hello; a
\* client that is told it was done is told the truth (client.rs, respond).
WritesHitTheirServer ==
  /\ \A e \in effects : \A s \in Servers :
       server[s].startup = e.startup => InstanceOf[s] = e.asked
  /\ \A e, f \in effects : e.conn = f.conn => e = f
  /\ \A c \in Clients :
       client[c].result = "ok" /\ client[c].command = "write" =>
         \E e \in effects : e.conn = client[c].conn /\ e.startup = client[c].hello
=============================================================================
