----------------------------- MODULE HotReload -----------------------------
(***************************************************************************)
(* A server started from layers, its configuration file, which anybody may *)
(* write, and administrators who ask for the difference and then reload.   *)
(* Only three fields may change without a restart; whatever else differs   *)
(* refuses the whole reload.                                               *)
(***************************************************************************)
EXTENDS Configuration

CONSTANTS
    Admins,       \* who asks and reloads
    Files,        \* what the file may become: [kind, doc]
    Modes,        \* how it is started: <<profile, file>>, file in FileUse
    Args, Env,    \* command line of prtsctl, environment of the process
    FileDir, Whole,
    MaxWrites, MaxStarts, MaxReloads

(* prtsctl looks for a file and may find none, an older entry reads the one *)
(* it is given, and without being given one it reads none.                  *)
FileUse == {"maybe", "given", "none"}

VARIABLES file, server, seen, writes, starts, reloads
vars == <<file, server, seen, writes, starts, reloads>>

Off == [on |-> FALSE]
Init == /\ file \in Files
        /\ server = Off
        /\ seen = [a \in Admins |-> [revision |-> 0, start |-> 0, reloads |-> 0]]
        /\ writes = 0 /\ starts = 0 /\ reloads = 0

-----------------------------------------------------------------------------
(* Reading the layers, at the start and for every candidate. *)

Doc(use) == IF use = "none" \/ file.kind = "absent" THEN <<>> ELSE file.doc
Layers(profile, use) ==
    Settings(IF profile = "prtsctl" THEN Args ELSE <<>>, Env, FileValues(FileDir, Doc(use)))
Readable(profile, use) ==
    /\ use # "none" => /\ file.kind = "file" \/ (file.kind = "absent" /\ use = "maybe")
                       /\ FileOk(Doc(use))
    /\ SettingsOk(Layers(profile, use))

(* The proxies of the platform are asked unless the file has an opinion. *)
Candidate(profile, use) ==
    Resolve(Layers(profile, use), Whole, Proxies \cap DOMAIN Doc(use) = {})

(* prtsctl serves under the rules of "prts-mcp"; an entry without a file is *)
(* later read under the fixed profile of the transport it has chosen.       *)
Named(profile) == IF profile = "prtsctl" THEN "prts-mcp" ELSE profile
Kept(profile, use, transport) ==
    IF use # "none" THEN Named(profile)
    ELSE IF transport = "stdio" THEN "prts-mcp-ts-stdio" ELSE "prts-mcp-ts"

-----------------------------------------------------------------------------
(* What a report shows of a configuration. *)

Port(c) == IF c.port = {} THEN 3000 ELSE BoundPort(CHOOSE p \in c.port : TRUE)
Shown(c, transport) ==
    [NODE_EXTRA_CA_CERTS |-> c.ca, PRTS_CONTROL_ENDPOINT |-> c.endpoint,
     PRTS_INSTANCE_NAME |-> c.instance, PRTS_TRANSPORT |-> transport,
     HOST |-> c.host, PORT |-> Port(c), PRTS_DATA_BACKEND |-> c.backend,
     PRTS_VALIDATION_MODE |-> c.strict, PRTS_DATA_DIR |-> c.database,
     PRTS_DATA_DB |-> c.custom, GAMEDATA_PATH |-> c.gamedata,
     STORYJSON_PATH |-> c.story, PRTS_IMAGE_DIR |-> c.artwork,
     PRTS_DATA_SOURCE_REPO |-> c.source, PRTS_AUTO_SYNC_INTERVAL_SECONDS |-> c.interval,
     IMAGES_ENABLED |-> c.images, LOCAL_IMAGE |-> c.local, ORIGINAL_IMAGE |-> c.original,
     PRTS_IMAGE_CACHE |-> c.cache, PRTS_METRICS_ENABLED |-> c.metrics,
     PRTS_OUTPUT_CHANNEL |-> c.channel, SESSION_IDLE_TIMEOUT_MS |-> c.idle,
     \* Hidden in a report, compared all the same.
     GITHUB_TOKEN |-> c.token, GITHUB_MIRRORS |-> c.mirrors, PRTS_DEBUG_TOKEN |-> c.debug,
     HTTP_PROXY |-> OneOf(c.proxies, "HTTP_PROXY"), HTTPS_PROXY |-> OneOf(c.proxies, "HTTPS_PROXY"),
     ALL_PROXY |-> OneOf(c.proxies, "ALL_PROXY"), NO_PROXY |-> OneOf(c.proxies, "NO_PROXY")]

Allowed == {"PRTS_AUTO_SYNC_INTERVAL_SECONDS", "GITHUB_TOKEN", "GITHUB_MIRRORS"}

Differences(c, ct, d, dt) ==
    {k \in Fields : Shown(c, ct)[k] # Shown(d, dt)[k]}

(* The typed configurations are compared as well, apart from the three      *)
(* fields and from spellings of one port.                                   *)
FaultNeedsRestart(c, ct, d, dt) ==   \* Fault: what a report shows is all there is.
    Differences(c, ct, d, dt) \ Allowed # {}
NeedsRestart(c, ct, d, dt) ==
    \/ [d EXCEPT !.interval = c.interval, !.token = c.token, !.mirrors = c.mirrors,
                 !.port = IF Port(c) = Port(d) THEN c.port ELSE @] # c
    \/ ct # dt

(* Secrets that no request could carry. *)
Usable(c) == c.token \subseteq {"old", "new"} /\ c.mirrors \subseteq {"https://mirror"}

-----------------------------------------------------------------------------
First == 1

Start(m) ==
    /\ ~server.on /\ starts < MaxStarts
    /\ Readable(m[1], m[2])
    /\ LET c == Candidate(m[1], m[2])
           t == Transport(Named(m[1]), Layers(m[1], m[2]))
       IN  server' = [on |-> TRUE, entry |-> m[1], use |-> m[2], transport |-> t,
                      profile |-> Kept(m[1], m[2], t), startup |-> c, applied |-> c,
                      revision |-> First, read |-> Doc(m[2])]
    /\ starts' = starts + 1
    /\ UNCHANGED <<file, seen, writes, reloads>>

Stop == /\ server.on
        /\ server' = Off
        /\ UNCHANGED <<file, seen, writes, starts, reloads>>

(* What the server makes of the file as it is now. *)
Fresh == Candidate(server.entry, server.use)
FreshTransport == Transport(server.profile, Layers(server.entry, server.use))
Restart == NeedsRestart(server.applied, server.transport, Fresh, FreshTransport)
Listed == Differences(server.applied, server.transport, Fresh, FreshTransport)

Diff(a) == /\ server.on /\ Readable(server.entry, server.use) /\ Usable(Fresh)
           /\ seen' = [seen EXCEPT ![a] = [revision |-> server.revision, start |-> starts,
                                           reloads |-> reloads]]
           /\ UNCHANGED <<file, server, writes, starts, reloads>>

Expected(a) == seen[a].revision = server.revision

(* Refused without a change when the revision is old, the file cannot be    *)
(* read, a secret is unusable or anything else would have to change.        *)
Reload(a) ==
    /\ server.on /\ seen[a].revision > 0 /\ reloads < MaxReloads
    /\ Expected(a)
    /\ Readable(server.entry, server.use) /\ Usable(Fresh) /\ ~Restart
    /\ server' = [server EXCEPT !.applied = Fresh, !.revision = @ + 1,
                                !.read = Doc(server.use)]
    /\ reloads' = reloads + 1
    /\ UNCHANGED <<file, seen, writes, starts>>

Outside == /\ writes < MaxWrites
           /\ file' \in Files
           /\ writes' = writes + 1
           /\ UNCHANGED <<server, seen, starts, reloads>>

Next == \/ Outside \/ Stop \/ \E m \in Modes : Start(m)
        \/ \E a \in Admins : Diff(a) \/ Reload(a)
Spec == Init /\ [][Next]_vars

-----------------------------------------------------------------------------
(* Server and coordinator after any number of reloads: all but the three   *)
(* fields as they were at the start.                                       *)
Running == [server.startup EXCEPT !.interval = server.applied.interval,
                                  !.token = server.applied.token,
                                  !.mirrors = server.applied.mirrors]
SamePort(c, d) == [d EXCEPT !.port = IF Port(c) = Port(d) THEN c.port ELSE @] = c

TypeOK == server.on => /\ server.revision \in 1..(1 + reloads)
                       /\ server.transport \in {"http", "stdio"}
                       /\ server.applied.interval \in Nat

(***************************************************************************)
(* A reload is as good as a restart: what runs after it is what a restart  *)
(* with the file that was read would bring, the parts that a report never  *)
(* shows included.                                                         *)
(***************************************************************************)
ReloadIsARestart ==
    server.on =>
        LET s == Settings(IF server.entry = "prtsctl" THEN Args ELSE <<>>, Env,
                          FileValues(FileDir, server.read))
        IN  /\ SamePort(Running, Resolve(s, Whole, Proxies \cap DOMAIN server.read = {}))
            /\ server.transport = Transport(Named(server.entry), s)

(***************************************************************************)
(* A server whose file has not changed reports no difference, however it   *)
(* was started.                                                            *)
(***************************************************************************)
UnchangedFileIsQuiet ==
    server.on /\ Readable(server.entry, server.use) /\ Doc(server.use) = server.read
        => ~Restart /\ Listed = {}

(***************************************************************************)
(* A difference that is said to be ready for a reload lists no field that  *)
(* needs a restart.                                                        *)
(***************************************************************************)
ListAgreesWithVerdict ==
    server.on /\ Readable(server.entry, server.use) => (~Restart => Listed \subseteq Allowed)

(***************************************************************************)
(* An administrator does not reload over a reload of somebody else: within *)
(* the life of one process, the reload comes from the state that was       *)
(* compared.                                                               *)
(***************************************************************************)
NoBlindReload ==
    \A a \in Admins :
          Reload(a) /\ seen[a].start = starts => seen[a].reloads = reloads

(***************************************************************************)
(* What the administrator's guide says: after somebody else's reload the   *)
(* old revision is refused, whatever happened in between.                  *)
(***************************************************************************)
OldRevisionIsRefused ==
    \A a \in Admins : Reload(a) => seen[a].reloads = reloads
=============================================================================
