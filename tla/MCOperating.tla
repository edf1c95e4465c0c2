----------------------------- MODULE MCOperating ----------------------------
(***************************************************************************)
(* What brings data in and what an operator does, checked for safety: the  *)
(* synchronizers and the configuration, side by side in one run.  `part`   *)
(* names the instance a behaviour is about.                                *)
(***************************************************************************)
EXTENDS Integers, Sequences, FiniteSets, TLC
CONSTANTS a1, a2

Actors == {a1, a2}
Symmetry == Permutations(Actors)

VARIABLES
  part,
  \* ImagesSync
  releases, calm, faults, dirs, meta, run,
  \* HotReload
  file, server, seen, writes, starts, reloads,
  \* ConfigEdit
  disk, lock, editor, byHand,
  \* SourceGuard
  marker, owner, data, pc, served, stray, crashes,
  \* ReleaseFetch
  shown, last, archive, fetch, walk, kills,
  \* OneShot
  config, request, store, remaining, cancelled, timeout, once, held, results,
  report, waited, published, late, busy,
  \* Scheduler
  cycle, task, flights, chain,
  \* ManagementServer
  endpoint, private, ownership, process, startups, conns, client, effects

imagesVars == <<releases, calm, faults, dirs, meta, run>>
reloadVars == <<file, server, seen, writes, starts, reloads>>
editVars == <<disk, lock, editor, byHand>>
guardVars == <<marker, owner, data, pc, served, stray, crashes>>
fetchVars == <<shown, last, archive, fetch, walk, kills>>
onceVars == <<config, request, store, remaining, cancelled, timeout, once, held,
              results, report, waited, published, late, busy>>
cycleVars == <<cycle, task, flights, chain>>
controlVars == <<endpoint, private, ownership, process, startups, conns,
                 client, effects>>
vars == <<part, imagesVars, reloadVars, editVars, guardVars, fetchVars, onceVars,
          cycleVars, controlVars>>

-----------------------------------------------------------------------------
\* Entries of an instance file, and requests of other programs.
Entry(name, state) == [key |-> name, named |-> TRUE, entry |-> state]
Sent(name, version, startup, command) ==
  [version |-> version, instance |-> name, expected |-> startup, command |-> command]

\* Story packs: one has every chapter, one names a chapter it has not.
Whole == [entries |-> {"review_table", "storyinfo", "c1"}, table |-> {"c1"}, supplement |-> {}]
Short == [entries |-> {"review_table", "storyinfo", "supplement", "c1"},
          table |-> {"c1"}, supplement |-> {"c2"}]
Published(ns, vid, rev, manifest, pack) ==
  [ns |-> ns, vid |-> vid, rev |-> rev, draft |-> FALSE, manifest |-> manifest, pack |-> pack]

\* Files that differ in what may be reloaded, in what may not, and in what no
\* report shows.
Says(doc) == [kind |-> "file", doc |-> doc]
Absent == [kind |-> "absent", doc |-> <<>>]
Broken == [kind |-> "broken", doc |-> <<>>]
ReloadFiles ==
  {Absent, Broken, Says(<<>>),
   Says([GITHUB_TOKEN |-> "new"]), Says([GITHUB_MIRRORS |-> "nonsense"]),
   Says([PRTS_AUTO_SYNC_INTERVAL_SECONDS |-> "120"]),
   Says([PRTS_AUTO_SYNC_INTERVAL_SECONDS |-> "120", PRTS_DATA_BACKEND |-> "sqlite"]),
   Says([PRTS_DATA_BACKEND |-> "sqlite"]), Says([PORT |-> "3000"]), Says([PORT |-> "60"]),
   Says([PRTS_TRANSPORT |-> "stdio"]), Says([HTTPS_PROXY |-> "http://proxy"]),
   Says([PRTS_DEBUG_TOKEN |-> "debug", GITHUB_TOKEN |-> "new"])}
StartModes ==
  {<<"prtsctl", "maybe">>, <<"prts-mcp-ghcr", "given">>, <<"prts-mcp", "given">>,
   <<"prts-mcp-ts-stdio", "given">>, <<"prts-mcp-ghcr", "none">>, <<"prts-mcp-ts", "none">>}

\* Releases with baselines and deltas of the first protocol ...
V1 == INSTANCE ImagesSync WITH
  Tiers <- {"large", "original"}, Kinds <- {{"v1"}}, Wants <- {TRUE},
  Changes <- {{"large"}, {"original"}}, MaxVersion <- 3, Dirs <- {1, 2, 3},
  FaultKinds <- {"kill", "damage", "disk", "loss"}, MaxFaults <- 1, MaxRollbacks <- 0

\* ... of the second ...
V2 == INSTANCE ImagesSync WITH
  Tiers <- {"large", "original"}, Kinds <- {{"v2"}}, Wants <- {FALSE, TRUE},
  Changes <- {{}, {"original"}}, MaxVersion <- 3, Dirs <- {1, 2, 3},
  FaultKinds <- {"drop", "damage", "loss"}, MaxFaults <- 1, MaxRollbacks <- 0

\* ... and of both, as the publisher moves from one to the other.
Switch == INSTANCE ImagesSync WITH
  Tiers <- {"large", "original"}, Kinds <- {{"v1"}, {"v1", "v2"}}, Wants <- {TRUE},
  Changes <- {{"large"}, {"original"}}, MaxVersion <- 3, Dirs <- {1, 2, 3},
  FaultKinds <- {"kill"}, MaxFaults <- 1, MaxRollbacks <- 1

Reload == INSTANCE HotReload WITH
  Admins <- Actors, Files <- ReloadFiles, Modes <- StartModes,
  Args <- [PORT |-> "0xbb8"],
  Env <- [HOME |-> <<"/", "home">>, https_proxy |-> "http://proxy"],
  FileDir <- <<"/", "etc">>, Whole <- FALSE, MaxWrites <- 2, MaxStarts <- 1, MaxReloads <- 2

Edit == INSTANCE ConfigEdit WITH
  Editors <- Actors, Previews <- {TRUE, FALSE}, First <- Says([PRTS_DATA_BACKEND |-> "json"]),
  Commands <- {<<"init", FALSE>>, <<"init", TRUE>>, <<"unset", "PRTS_DATA_BACKEND">>,
               <<"set", "PORT", "3000">>, <<"set", "PORT", "70000">>,
               <<"set", "PRTS_DATA_DB", <<"/", "own.sqlite">>>>,
               <<"set", "GITHUB_TOKEN", "token">>},
  ByHand <- {Says([PORT |-> "0", PRTS_DATA_BACKEND |-> "json"]),
             Says([PRTS_DATA_BACKEND |-> "auto"]), Absent, Broken,
             [kind |-> "link", doc |-> <<>>]},
  MaxByHand <- 2, Shell <- [PORT |-> "120"], FileDir <- <<"/", "etc">>

\* Two custom sources and the default one in one directory.
Guard == INSTANCE SourceGuard WITH
  Processes <- {"p1", "p2", "p3", "p4"}, Default <- "d", MaxCrashes <- 2,
  Source <- [p1 |-> "a", p2 |-> "b", p3 |-> "d", p4 |-> "a"]

\* Versions and revisions published, withdrawn and cached by a mirror ...
Fetch == INSTANCE ReleaseFetch WITH
  Plan <- <<Published("data", 1, 1, "none", Whole), Published("datarev", 1, 2, "good", Whole),
            Published("images", 5, 1, "none", Short), Published("data", 2, 1, "other", Whole),
            Published("datarev", 1, 3, "good", Whole)>>,
  PerPage <- 3, MaxPages <- 0, Mirrors <- 1, Verify <- TRUE, Start <- 1, Withdraws <- TRUE,
  MaxKills <- 1, disk <- archive, run <- fetch

\* ... and a walk over the pages while releases are published; two of them
\* claim one identity, one is a draft.
Walk == INSTANCE ReleaseFetch WITH
  Plan <- <<Published("images", 1, 1, "none", Short), Published("data", 1, 1, "none", Whole),
            Published("images", 2, 1, "none", Short), Published("datarev", 1, 1, "good", Whole),
            [Published("data", 3, 1, "none", Whole) EXCEPT !.draft = TRUE],
            Published("data", 2, 1, "good", Short), Published("images", 3, 1, "none", Short)>>,
  PerPage <- 2, MaxPages <- 3, Mirrors <- 0, Verify <- FALSE, Start <- 1, Withdraws <- FALSE,
  MaxKills <- 0, disk <- archive, run <- fetch

Once == INSTANCE OneShot WITH
  Configs <- [backend : {"sqlite", "json"}, customData : BOOLEAN, customStory : BOOLEAN,
              images : BOOLEAN],
  Budgets <- {2}, MaxBusy <- 3, run <- once

Cycles == INSTANCE Scheduler WITH
  Backend <- "json", Enabled <- {"Gamedata", "Storyjson", "Images"}, Delays <- 2,
  Periodic <- TRUE, MaxCycles <- 3

Polls == INSTANCE Scheduler WITH
  Backend <- "sqlite", Enabled <- {"Gamedata", "Images"}, Delays <- 3,
  Periodic <- TRUE, MaxCycles <- 4

\* Two administrators and one permit ...
Busy == INSTANCE ManagementServer WITH
  Servers <- {"s1"}, InstanceOf <- [s1 |-> "main"], Clients <- Actors, Foreign <- {}, Raw <- {},
  Mappings <- {<<Entry("main", "good")>>}, Permits <- 1, Cleaning <- FALSE,
  MaxStarts <- 1, MaxConns <- 3, lock <- ownership, server <- process, starts <- startups

\* ... and servers that replace each other on one path.
Replaced == INSTANCE ManagementServer WITH
  Servers <- {"s1", "s2"}, InstanceOf <- [s1 |-> "main", s2 |-> "other"], Clients <- {a1},
  Foreign <- {}, Permits <- 1, Cleaning <- TRUE, MaxStarts <- 3, MaxConns <- 2,
  Mappings <- {<<Entry("main", "good")>>, <<Entry("other", "good"), Entry("main", "user")>>},
  Raw <- {Sent("main", TRUE, 0, "write"), Sent("main", FALSE, 2, "write"),
          Sent("other", TRUE, 2, "garbage")},
  lock <- ownership, server <- process, starts <- startups

Foreigner == INSTANCE ManagementServer WITH
  Servers <- {"s1"}, InstanceOf <- [s1 |-> "main"], Clients <- {a1}, Foreign <- {a1}, Raw <- {},
  Mappings <- {<<Entry("main", "good")>>}, Permits <- 1, Cleaning <- FALSE,
  MaxStarts <- 1, MaxConns <- 2, lock <- ownership, server <- process, starts <- startups

-----------------------------------------------------------------------------
(* A component whose turn it is not has no state.                           *)
imagesIdle ==
  /\ releases = 0 /\ calm = 0 /\ faults = 0 /\ dirs = 0 /\ meta = 0
  /\ run = 0
reloadIdle ==
  /\ file = 0 /\ server = 0 /\ seen = 0 /\ writes = 0 /\ starts = 0
  /\ reloads = 0
editIdle ==
  /\ disk = 0 /\ lock = 0 /\ editor = 0 /\ byHand = 0
guardIdle ==
  /\ marker = 0 /\ owner = 0 /\ data = 0 /\ pc = 0 /\ served = 0
  /\ stray = 0 /\ crashes = 0
fetchIdle ==
  /\ shown = 0 /\ last = 0 /\ archive = 0 /\ fetch = 0 /\ walk = 0
  /\ kills = 0
onceIdle ==
  /\ config = 0 /\ request = 0 /\ store = 0 /\ remaining = 0 /\ cancelled = 0
  /\ timeout = 0 /\ once = 0 /\ held = 0 /\ results = 0 /\ report = 0
  /\ waited = 0 /\ published = 0 /\ late = 0 /\ busy = 0
cycleIdle ==
  /\ cycle = 0 /\ task = 0 /\ flights = 0 /\ chain = 0
controlIdle ==
  /\ endpoint = 0 /\ private = 0 /\ ownership = 0 /\ process = 0
  /\ startups = 0 /\ conns = 0 /\ client = 0 /\ effects = 0

Parts == {"v1", "v2", "switch", "reload", "edit", "sources", "fetch", "walk",
          "once", "cycles", "polls", "busy", "replaced", "foreign"}

Init ==
  /\ part \in Parts
  /\ CASE part = "v1" -> V1!Init
       [] part = "v2" -> V2!Init
       [] part = "switch" -> Switch!Init
       [] OTHER -> imagesIdle
  /\ CASE part = "reload" -> Reload!Init
       [] OTHER -> reloadIdle
  /\ CASE part = "edit" -> Edit!Init
       [] OTHER -> editIdle
  /\ CASE part = "sources" -> Guard!Init
       [] OTHER -> guardIdle
  /\ CASE part = "fetch" -> Fetch!Init
       [] part = "walk" -> Walk!Init
       [] OTHER -> fetchIdle
  /\ CASE part = "once" -> Once!Init
       [] OTHER -> onceIdle
  /\ CASE part = "cycles" -> Cycles!Init
       [] part = "polls" -> Polls!Init
       [] OTHER -> cycleIdle
  /\ CASE part = "busy" -> Busy!Init
       [] part = "replaced" -> Replaced!Init
       [] part = "foreign" -> Foreigner!Init
       [] OTHER -> controlIdle

Next ==
  /\ CASE part = "v1" -> V1!Next
       [] part = "v2" -> V2!Next
       [] part = "switch" -> Switch!Next
       [] OTHER -> UNCHANGED imagesVars
  /\ CASE part = "reload" -> Reload!Next
       [] OTHER -> UNCHANGED reloadVars
  /\ CASE part = "edit" -> Edit!Next
       [] OTHER -> UNCHANGED editVars
  /\ CASE part = "sources" -> Guard!Next
       [] OTHER -> UNCHANGED guardVars
  /\ CASE part = "fetch" -> Fetch!Next
       [] part = "walk" -> Walk!Next
       [] OTHER -> UNCHANGED fetchVars
  /\ CASE part = "once" -> Once!Next
       [] OTHER -> UNCHANGED onceVars
  /\ CASE part = "cycles" -> Cycles!Next
       [] part = "polls" -> Polls!Next
       [] OTHER -> UNCHANGED cycleVars
  /\ CASE part = "busy" -> Busy!Next
       [] part = "replaced" -> Replaced!Next
       [] part = "foreign" -> Foreigner!Next
       [] OTHER -> UNCHANGED controlVars
  /\ UNCHANGED part

Spec == Init /\ [][Next]_vars

-----------------------------------------------------------------------------
(* Properties.                                                             *)

TypeOK ==
  /\ part = "v1" => V1!TypeOK
  /\ part = "v2" => V2!TypeOK
  /\ part = "switch" => Switch!TypeOK
  /\ part = "reload" => Reload!TypeOK
  /\ part = "edit" => Edit!TypeOK
  /\ part = "sources" => Guard!TypeOK
  /\ part = "fetch" => Fetch!TypeOK
  /\ part = "walk" => Walk!TypeOK
  /\ part = "once" => Once!TypeOK
  /\ part = "cycles" => Cycles!TypeOK
  /\ part = "polls" => Polls!TypeOK
  /\ part = "busy" => Busy!TypeOK
  /\ part = "replaced" => Replaced!TypeOK
  /\ part = "foreign" => Foreigner!TypeOK

(* The pointer of the artwork directory names a whole generation, whatever *)
(* was killed, dropped, damaged or lost; what becomes active is exactly    *)
(* the release it is said to be, each delta applied once and in order; and *)
(* the second protocol neither goes back nor touches what it serves        *)
(* (images_sync.rs, images_v2_sync.rs, images_meta.rs).                    *)
ImagesAreWhole ==
  [][/\ part = "v1" => V1!ActivatesComplete /\ V1!PointerResolves'
     /\ part = "v2" => /\ V2!ActivatesComplete /\ V2!PointerResolves'
                       /\ V2!NeverBack /\ V2!ActiveIsImmutable
     /\ part = "switch" => /\ Switch!ActivatesComplete /\ Switch!PointerResolves'
                           /\ Switch!NeverBack]_vars

(* What runs after a reload is what a restart with the file would bring; a *)
(* file that has not changed shows no difference, and a difference ready   *)
(* for a reload lists nothing that needs a restart; a file only editors    *)
(* have touched starts a server (reload.rs, cli/edit.rs).                  *)
ReloadIsARestart ==
  /\ part = "reload" =>
       Reload!ReloadIsARestart /\ Reload!UnchangedFileIsQuiet /\ Reload!ListAgreesWithVerdict
  /\ part = "edit" => Edit!EditedFileStarts

(* Nobody changes the configuration over what he has not seen: an edit     *)
(* replaces the file its editor read, in one field; what was only shown or *)
(* refused leaves the file alone; a reload comes from the state compared.  *)
NothingIsOverwritten ==
  [][/\ part = "edit" => Edit!EditsAreNotLost /\ Edit!OneFieldAtATime /\ Edit!OnlyDoneWrites
     /\ part = "reload" => Reload!NoBlindReload]_vars

(* What is installed is what the source published.  The data of a custom   *)
(* source is only in a directory bound to it and only served by it, a      *)
(* process of a custom source serves no other data but what a default      *)
(* synchronizer wrote past the lock while the directory was being bound,   *)
(* and the marker stays; an archive is whole, has the bytes its record     *)
(* names, and is never replaced by an older one; a walk over the pages     *)
(* misses no release (source_guard.rs, release.rs, discovery.rs).          *)
ArchivesAreGenuine ==
  [][/\ part = "sources" => Guard!CustomIsMarked' /\ Guard!ServedIsMine' /\ Guard!MarkerIsFinal
     /\ part = "fetch" => /\ Fetch!InstalledIsWhole' /\ Fetch!RecordIsTrue' /\ Fetch!NeverBack
                          /\ Fetch!TempsAreAccounted'
     /\ part = "walk" => Walk!HistoryIsComplete' /\ Walk!InstalledIsWhole']_vars

(* What a synchronization reports as done has happened, signals and lock   *)
(* budgets included, and once it is stopped one data set at most is still  *)
(* put in place; a delay of a retry chain is used up by a failure and by nothing else; a   *)
(* command is carried out by the server that answered the handshake, at    *)
(* most once, with bounded work, on a path only one server answers on      *)
(* (once.rs, control.rs, pair.rs, scheduler.rs, server.rs, unix.rs).       *)
OutcomesAreTrue ==
  [][/\ part = "once" => Once!ExitIsTrue' /\ Once!WaitIsBounded' /\ Once!StopIsPrompt'
     /\ part = "cycles" => Cycles!DelaysAreForFailures' /\ Cycles!FlightsAreReal'
     /\ part = "polls" => /\ Polls!DelaysAreForFailures' /\ Polls!FlightsAreReal'
                          /\ Polls!OneAtATime'
     /\ part = "busy" => Busy!WorkIsBounded' /\ Busy!WritesHitTheirServer'
     /\ part = "replaced" => /\ Replaced!WritesHitTheirServer' /\ Replaced!OneListener'
                             /\ Replaced!SocketStays /\ Replaced!WorkIsBounded'
     /\ part = "foreign" => effects' = {}]_vars
=============================================================================
