# prts-mcp: specifications

prts-mcp is one Rust process that keeps copies of game data, stories and
artwork on disk, keeps them up to date from GitHub releases, and answers MCP
tool calls from them and from a wiki. These modules model that process, the
other processes that share its data directory, and the command line that
administers it. Paths below are relative to `src/src/`.

## The system

| part (source) | state it keeps | operations | module |
|---|---|---|---|
| activation lock (`sync/activation.rs`) | lock directory, owner file, its mtime | acquire, wait, judge, reclaim, beat, release | `ActivationLock` |
| coordinator, workers, drain (`sync/jobs.rs`, `sync/workers.rs`, `app/shutdown.rs`) | jobs, their dataset masks, revision, stopping flag | begin, cancel, finish, reload, stop, drain; polls and retry chains | `SyncJobs`, promise: `Reservations` |
| pair of archives (`sync/pair.rs`, `sync/release.rs`) | archive, record, extracted trees, pair file | decide, download, extract, publish, prune | `GamedataPair`, promise: `GenerationPointer` |
| one archive, discovery (`sync/release.rs`, `discovery.rs`, `transport.rs`, `validation.rs`) | archive, record, temporary files | walk over pages, mirrors, manifest, download, check, install | `ReleaseFetch` |
| SQLite database (`sync/database*.rs`, `storage/database.rs`) | database files, leases, `active`, `previous`, `sync.lock` | begin, publish, activate, prune; readers | `DatabaseSync` |
| admission (`storage/admission.rs`, `validation*.rs`, `identity.rs`, `sqlite.rs`) | stamps, receipts, pinned handles | hash, open, verify, vouch, share | `Admission` |
| snapshots (`app.rs`, `app/json.rs`) | cached view and its signature | sign, resolve, cache; pointers moved by others | `DataState` |
| source marker (`sync/source_guard.rs`) | marker file | look, lock, claim, serve | `SourceGuard` |
| artwork directory (`sync/images_*.rs`) | generations, candidates, pointer | baseline, deltas, activation, cleanup, two protocols | `ImagesSync` |
| one-shot sync (`sync/once.rs`, `sync/control.rs`, `cli/data.rs`) | results, budget, signal | data sets in order, report, exit code | `OneShot` |
| scheduler (`sync/scheduler.rs`) | flights, retry chains | cycle, poll, retry, skip | `Scheduler` |
| protocol (`protocol/*.rs`) | sessions, watchdogs, pipe era | every message of both eras, DELETE, eviction | `Protocol` |
| tools (`tools/*.rs`, `text/cancellation.rs`) | permits, threads, cancellation slots | check arguments, dispatch, run, drop | `ToolCalls` |
| tables, listings (`domain/*.rs`) | slots of parsed tables | load, derive, share, show; filter, sort, page | `DatasetSlots`, `Listings` |
| stories (`domain/story/*.rs`, `storage/objects.rs`, `text/*filter*.rs`, `regex_compat.rs`) | object cache, hints, catalog, index | read, page, search, index | `StoryReader`, `StoryLines`, `StorySearch`, `StoryIndex`, `TextFilter` |
| artwork cache (`domain/artwork/mediawiki.rs`) | queue, index, bytes | get, put, evict | `ArtworkCache` |
| wiki (`wiki/*.rs`) | next free slot | reserve, search, list, read; expand templates | `WikiClient`, `WikiTemplates` |
| management (`control/*.rs`) | socket, lock, connections | bind, replace, handshake, command | `ManagementServer` |
| configuration (`config*.rs`, `cli/*.rs`, `control/reload.rs`) | layers, file, revision | read, edit, compare, reload | `Configuration`, `ConfigEdit`, `HotReload` |

How they meet. The scheduler or the workers start a synchronization; the
coordinator reserves its data set inside one process, the activation lock,
`sync.lock` and the source marker do so between processes. A synchronizer
writes files no reader looks at and then moves a pointer (`pair.json`,
`active`, the artwork pointer). A tool call takes a snapshot of what the
pointers name, admits the database through its receipts, and reads tables and
objects through caches of that snapshot. Nothing tells a reader that a
synchronizer has run: the files are all they share. Management commands reach
the coordinator and the reload through a socket; a signal reaches all of it.

Each component is a module of its own and is composed where its neighbours
matter: a pointer that "moves at any moment" in `DataState` stands for the
synchronizers, "the file is rewritten" in `Admission` for another process,
`busy` locks in `OneShot` for the owners modelled in `ActivationLock`.
`HotReload` and `ConfigEdit` extend `Configuration`. `SyncJobs` implements
`Reservations`, and `GamedataPair` implements `GenerationPointer`, by
`INSTANCE ... WITH`.

What is hard here, and is listed line by line under "hazards" in
`PROJECT.json`: files judged by one system call and used by a later one,
kills between two writes, readers without locks, tasks dropped while a thread
works for them, delays and permits that have to come back, pages of listings
that change while they are walked.

## How to read a module

An action is what the code does without a point at which another actor can be
seen: up to the next await, lock or system call whose effect others see.
Repeated calls without effect on each other are one action. `pc` values are
named after functions. Bounds are CONSTANTS beginning with `Max` and appear
only in guards. Faults (`kill`, `drop`, `disk`, `damage`, `loss`) are actions
or alternatives of a step and are counted by `faults` against `MaxFaults`.
Contents of files are the number of the release or write that made them;
digests are injective; parsing and formatting are modelled where a property
depends on them (`Configuration`, `ConfigEdit`, `WikiTemplates`, `StoryLines`,
`TextFilter`, argument schemas in `ToolCalls`).

Coarser than the code, where a second look makes up for it or no property
depends on it: `DataState!Sign` reads the parts of a signature, and `ReadStory`
the archive's files, at once. An extract without a known
release is labelled by the digest of its archive (`LocalHash`,
`activation.rs:409-418`).

`OneShot` is one sequence of units with stages (`Stages`): every lock wait and
source check, listing, transfer, publication and, for an archive, extraction.
After a signal or a lock timeout no wait succeeds and nothing is received, yet
the stages go on; `Falls` says with what. `StopIsPrompt` bounds what is still
put in place by one unit, `ExitIsTrue` ties report and exit code to what was,
`WaitIsBounded` adds the waits up.

## The runs

| run | question | bounds, and why they are enough |
|---|---|---|
| `jobs` | Do jobs, workers, cancellation, reload, signal and drain keep the reservations, the verdicts, the history and the delays right? Does the coordinator implement `Reservations`? | two jobs, one worker with a chain, history of one: overlap needs two jobs, eviction needs one more than the limit. The theorems cover every number. |
| `jobs_live` | Does drain return, and does a parked worker poll again? | one job, one worker, two revisions |
| `lock` | Is the lease a lock while its owners stay awake and an orphan is taken away by one contender at a time (`CONSTRAINT OneReclaimer`; what two of them can do is `lock_reclaim`)? | three contenders, to race, to hold and to wait; one kill leaves the orphan |
| `pair` | Kills and failures anywhere in the activation: trees exist, no downgrade, data stays served, the newest release is reached; implements `GenerationPointer` | two releases beside the old layout, three trees per archive, one fault; a second fault starts from a state one fault already left. Mirrors serve unlabelled archives only of the last release and without a fault meanwhile (`ACTION_CONSTRAINT BlindIsLast`; without it `pair_blind`) |
| `database` | Two synchronizations and a reader with one fault | two generations with two builds, four files |
| `serving` | Everything that answers a call, each component with two concurrent calls | 23 instances side by side, see the comments above each `INSTANCE` in `MCServing` |
| `operating` | Everything that brings data in or administers | 14 instances in `MCOperating`, two actors each |
| `live` | What has to end ends | 7 instances in `MCLive` |
| `lock_reclaim`, `pair_blind`, `pair_alias`, `artwork` | The four findings below | smallest instances that show them |

The three suites check components that share no state in one run: `part`
names the instance a behaviour is about and the variables of the others stand
still, so the states add up and do not multiply. Their properties are
conjunctions of the named properties of the components, each stated and
explained in the component's own module. Cases that are functions and not
processes (`filter`, `lines`, `pagetree`, `replies`, `schemas`) are initial
states: every input of a bounded set, with a reference definition or a law the
result must satisfy. Symmetry is used only in runs without liveness.

Deadlock is checked where the model never rests (`lock`, `lock_reclaim`,
`pair*`, `database`, `artwork`). It is off where the bounds or the system end:
a drained coordinator, a suite whose bounded calls are all answered.

### Findings

1. `lock_reclaim` (`sync/activation.rs:111`): a contender that judged an
   orphan removes the lock another process has taken since.
2. `pair_blind` (`sync/pair.rs:157`, and 402-415 in the trace): two trees labelled `unknown` are bound
   as one generation although the comment promises "provably same-generation".
3. `pair_alias` (`sync/primitives.rs:41`): under a data root reached through a
   symbolic link the cleanup of an archive does not recognise its own active
   tree, which is spelled otherwise in the keep set, and deletes it once it is
   past the retention (the pair, where there is one, is touched before).
4. `artwork` (`domain/artwork/mediawiki.rs:80`): after an eviction the index
   of the artwork cache is off by one, and a hit returns another image.

Disagreements between text and code that no run is spent on:

- `wiki/client.rs`: the 15 s limit covers `send()`, a body that stalls is
  awaited for ever; a wall clock set back makes every call wait.
- `diagnostics/mod.rs:166-178`: an activation resets what the debug page shows
  as loaded, but a call that still reads the old generation marks its tables
  again, as if they were of the new one (`DatasetSlots!DebugShowsActive`).
- `docs/admin/cli.md:340`: "an old revision is refused" fails across a restart,
  which counts revisions from the beginning (`HotReload!OldRevisionIsRefused`).
- `app.rs:5-8`, `app/json.rs:113-120`: the signature of a snapshot has no token
  of the story archive, so later calls may keep the old one
  (`DataState!StoryIsFresh`).
- `docs/admin/data-and-sync.md:18`: one failed open of a ready database leaves
  the JSON view cached under the signature, and later calls are served by it
  (`DataState!ReadyDatabaseServes`).
- `docs/admin/cli.md:194`, `cli/edit.rs:162`: a variable that is set but empty
  overrides nothing and is reported as overriding (`ConfigEdit!HintIsTrue`).
- `domain/story/memoir.rs`: the dictionary and the table of one answer may be
  of two archives (`StoryIndex!MemoirIsOneArchive`).
- `storage/store.rs:234-237`: "failed loads and empty results are retried, not
  cached" does not cover a failed test for existence, which the reader takes
  for absence and caches (`domain/story/reader.rs:153`, `463`), nor the
  dictionary of characters, which after a failed read is cached empty and then
  refuses every memoir of that archive (`domain/story/memoir.rs:20-35`). The
  model does both; `CacheIsWhole` speaks of the rest.
- `domain/story/reader.rs:617`, `text/search.rs:220`, `storage/store.rs:314-334`: one failed look
  while the search index is built leaves a chapter or a supplement out of it,
  and of every search until the file changes (`StoryIndex!IndexIsWhole` speaks
  of what was found).
- `sync/database_io.rs:97-101`: when an obsolete database cannot be removed its
  lease is removed all the same, and a failed `exists()` counts as absence. The
  file stays for good, since the cleanup goes by leases, and may even be
  activated again; no reader is harmed (`ReaderKeepsFile` includes such files,
  `GarbageLeaves` does not).
- `sync/images_sync.rs:447`: a candidate of a killed or dropped v1 run is never
  removed: the prune skips hidden names and the cleanup of candidates looks for
  `.v2-*` only (`images_v2_io.rs:188`). A v1 generation with a damaged file
  stays as it is: unnoticed while the tag is the same (304-313), and copied into
  each delta, which then fails (454-458), until a delta or a baseline brings the
  file (`ImagesSync!Stuck`).
- `sync/once.rs`: a signal, or a lock that was not to be had, ends transfers and
  waits but not the data set in work: an archive whose listing was cancelled
  falls back to its ZIP file and may still extract and activate it, and the pair
  reports `failed` although a tree was activated when only its record fails to
  be written (`pair.rs:230-241`, `409-415`; `OneShot!StopIsPrompt` bounds the first).
- `domain/story/reader.rs:685`: a page number near the end of i64 wraps in a
  release build (`StoryLines!HugePagesAreRefused`). `domain/item.rs:212`, `stage.rs:252`, `stage_enemy.rs:352`:
  sums of offset and limit do, and the slice panics.
- `tools/zodish.rs:194`: integral floats beyond 2^53 are neither refused nor used.
- `sync/scheduler.rs:353`: every cycle has a registry of flights of its own, so
  only chains of one cycle exclude each other (`Scheduler!OneAtATime`; the server
  itself uses the coordinator).
- `protocol/http.rs:429-470` answers 200 where
  `contracts/wire/http-modern/era-boundary.json:84` records 400
  (`Protocol!RefusedEnvelopeIs400`).
- `sync/source_guard.rs`: the default source takes no lock, so it can begin to
  write beside a custom source that is about to bind the directory
  (`stray` in `SourceGuard`, the one exception in `ServedIsMine`).
- `sync/release.rs`: "failures keep the old zip" is not true when only the
  record fails to be written; temporary files of a killed download stay.
- `sync/discovery.rs:212`: a release withdrawn between two pages makes the walk
  miss one.
- `control/server.rs:197`: when the listener fails the process goes on without
  administration and still reports ready.

## Fairness

- `SyncJobs`: weak fairness of every task, of the verdict of a running job and
  of the main task. The runtime polls tasks that are ready, timers fire, and
  transfers end because each has a timeout. Nothing is assumed of operators
  and signals.
- `GamedataPair`: weak fairness of a start and of each step of a run: the
  schedule comes round and every await has a timeout. Strong fairness of the
  hour that makes old trees removable: real time passes.
- `DatabaseSync`: weak fairness of each request and its steps. `calm` means no
  further fault; it is stated in the properties, not assumed of the code.
- `MCLive`: strong fairness of steps that wait for a mutex, which the operating
  system hands over in the end, and of the end of the work under a lease; weak
  fairness of steps that wait for nobody, of the schedule and of the cleanup.

## The theorems

TLC checks small instances; the modules `*Proofs` prove the same for every
number of processes, jobs, releases, trees, files, readers, writes and faults.
Each proof is one inductive invariant, a lemma per action that it survives,
and theorems that follow from it. What the theorems state was checked by TLC
on a small instance before it was proved, and so were the invariants of the
synchronizers, the lease and the coordinator.

| proof module | theorems | assumed | inductive invariant |
|---|---|---|---|
| `SyncJobsProofs` | reservations are disjoint, every running job is owned by a task, stopping reaches all of them, drain leaves nothing running, verdicts are final, the history stays in order, delays are used by failures only, the coordinator implements `Reservations` | nothing | `JobInv`, and `ListInv` for the history |
| `OperatingProofs`, lease | one holder, mutual exclusion | `~Suspends`; `[]OneReclaimer`, which `OrphansNeedAKill` shows to hold by itself without kills | `LeaseInv` |
| `OperatingProofs`, source marker | custom data is marked, readers see their source (or default data that a synchronizer of the default source wrote after the directory was taken), a marker stays | `Sourced`: "nobody" is not a source | `GuardInv` |
| `OperatingProofs`, reload | a reload equals a restart, an unchanged file is quiet, list and verdict agree, a reload comes from the state compared | nothing | `Applied`, `Sighted` |
| `OperatingProofs`, edits | an edit replaces what it saw, edits accumulate, only an edit that succeeds writes, an edited file starts a server | `Begun`: the commands are init, set and unset, and the file there at first can be read | `EditInv` |
| `OperatingProofs`, scheduler | delays need failures, a registry has the flights under it | `Delays \in Nat` | `SchedInv` |
| `OperatingProofs`, management | one server answers on a path, a socket is left alone, permits are conserved, commands hit their server | `Administered`: "none" is not a server, permits are a number | `ControlInv`, `PermitInv`, `EffectInv` |
| `GamedataPairProofs` | types, an extraction has its archive, the pair never dangles, data stays served, no downgrade; the activation implements `GenerationPointer` | `~Aliased` for `DataStaysServed`, `~Mirrors` for `PairIsAPointer` | `TypeInv`, `PairInv`, `LabelInv`, `PointerInv` |
| `DatabaseSyncProofs` | one writer, pointers resolve, an admitted file stays (also one without a lease), no downgrade | nothing | `TypeInv`, `DirectoryInv` |
| `AdmissionProofs` | what is used is what was vouched for, stamps and receipts are true, pins are bounded | `Given`: no path is managed and custom, at least one receipt is kept | `AdmissionInv` |
| `DataStateProofs` | no data of another source is served, a call sees a pair or database not older than when it began, the cache tells the files | `Counted`: the bounds are numbers | `SnapshotInv` |
| `ImagesSyncProofs` | the pointer resolves, activations are complete, nothing goes back, the active generation is not written to | `Numbered`: versions and directories are numbers, 0 is no directory | `ImagesInv` |
| `ServingProofs`, wiki | requests are spaced, whoever makes them | `Interval \in Nat` | `SlotInv` |
| `ServingProofs`, protocol | a session is initialized once and keeps its channel, eviction is in time and spares the busy, the counters tell the table, the pipe keeps its era | `Parsed`: limits are numbers, a body is a sequence of messages, a single one has one | `WireTypes` with `SessionInv`, `ChannelInv`, `TableInv`; `PipeInv` |

The assumptions are conditions of the findings. A process suspended for longer
than the grace, and two contenders that both judged one orphan, defeat the
lease: finding 1 shows the second. Two
spellings of one root are finding 3. Mirrors hand out archives
without a label, which is finding 2. The other assumptions say what constants
are.

Why the properties are not inductive as they stand, and what was added:

- `JobInv`. That masks are disjoint says nothing of a task that still believes
  it owns a job another one has settled. `RunnerOwnsReservation` and the order
  of stopping (`StopFirst`: the main task leaves `serving` only with the flag
  set) carry it; a retry chain is only started with a delay left
  (`ChainHasDelay`).
- `LeaseInv`. Exclusion rests on ages: the lease of a living process is only
  old while it runs, and then its heartbeat comes before the limit; a
  contender that saw no owner file measures a young lock or an orphan; what is
  about to be renamed away belongs to a killed process.
- `PairInv`. A pair that exists must also survive the prune: while a run is in
  progress the trees it names are not old, because `Touch` comes first, and
  the staged tree belongs to the run.
- `LabelInv`, `PointerInv`. Records run ahead of each other in one direction
  only: the record of the archive, of the tree, of the pair. Until something
  fails a label tells the content at each of these places, so equal labels
  are equal releases.
- `DirectoryInv`. For each writer and reader, what its step has already seen
  and what no other can have changed since: a reader that has its lease either
  pins the file or will find at the second look that it is gone.
- `AdmissionInv`. The checks go through a handle that may show later bytes
  than those that were hashed. They speak about the token only while the path
  still has it, and a path never comes back to a token it has left (`Left`), so
  the last look makes all of them true of the same bytes at once. That a
  handle belongs to one path only follows from inodes that are not shared
  (`Files`).
- `SnapshotInv`. A call is compared with what was there when it began, so each
  of its stages is: the first token it signed, the record it read, the files it
  took from it. The cache is compared with its own signature, which makes a hit
  as fresh as the signature of whoever hits. A view of another source may be
  cached, but only on its way to the second look. On the other side stands the
  order of the synchronizers (`PairWorld`, `DatabaseWorld`): trees before the
  pair, a file before its pointer, and both named databases kept. A database
  two activations old may be gone, which is why freshness is claimed up to one
  (`Near`).
- `ImagesInv`. A candidate is never the tree the pointer names; of a v2
  candidate, what was kept is right and everything else is what was written
  (`Holds`), so the check of what was written is a check of the tree.
- `SlotInv`. A call that sleeps has a slot of its own, an interval away from
  the last request and every other slot, and before the first free one.
- `SessionInv`. A request carries a copy of its session's state and writes it
  back when it is done. That a copy that was never initialized cannot come back
  over one that was follows from who may hold such a copy: only the request
  that made the session, which is alone with it until it is written.
- `ChannelInv`, `TableInv`. An answer is on the channel of its request, and
  that is the session's as long as the session is in the table; every session
  in the table has a watchdog that is not behind its timeout.
- `GuardInv`. Who binds holds the lock, so a marker it saw missing is missing
  still; what was read before the second look is there after it.
- `Applied`, `Sighted`. That server and coordinator agree says nothing of the
  settings a reload does not touch: they are those of the start, and a reload
  is only let through when the file would change none of them. Revisions count
  reloads within one life of the process, so an equal revision is an equal
  state.
- `EditInv`. An editor that works holds the lock of the edits; while the file
  has the version it looked at, its draft is its command applied to the file
  that is there.
- `SchedInv`. Under the registry of the first cycle a cycle and a chain take
  turns, and until it ends there is no chain; so what is in the air under a
  registry is one of both.
- `ControlInv`, `PermitInv`, `EffectInv`. Whoever is between its look at the
  path and the end of its listener has the lock. Work outlives the connection,
  the listener and even the answer nobody waits for, so permits are counted by
  connection and not by server. A startup id names one process for good, and a
  connection that was answered is never taken up again, which makes a command
  a thing done once; what a client is told is tied to what was done by the
  request of the connection it waits on.

Proving that edits accumulate found a case TLC had not reached. A missing file
has no identity (`cli/edit.rs:76`), so one that appears after an editor looked,
is read by it and is deleted again before the comparison passes for unchanged,
and the edit brings it back. `OneFieldAtATime` therefore speaks of files that
were there when the editor looked.

`Least`, `FreeIsFree`, `LargestIsOne` and `LatestIsLive` (smallest and largest
elements by well-founded induction), the `Keeps` lemmas and the type lemmas of
the records are what the proofs share.

## What is only model-checked

- Liveness, as the prover reasons about neither fairness nor `ENABLED`:
  `DrainCompletes`, `PollingResumes`, `Converges`, `GarbageLeaves`,
  `CallsAreAnswered`, `WorkEnds`, `ComesToRest`.
- The properties of `serving`, `operating` and `live` are conjunctions over
  instances. Proved as components, for every value of their constants, are
  `DataState`, `Admission`, `ImagesSync`, `WikiClient`, `Protocol`,
  `SourceGuard`, `HotReload`, `ConfigEdit`, `Scheduler` and `ManagementServer`,
  except for the properties below; so every conjunct of
  `MCOperating!ReloadIsARestart` is. The conjuncts about `ReleaseFetch`,
  `OneShot`, `ToolCalls`, stories, tables and artwork are only checked.
- `Protocol!AnswersAreInTurn` (a filter of a sequence, hence induction),
  `Scheduler!OneAtATime`, which the code only has within one registry, and of
  `WikiClient` everything but its limiter.
- What recursive definitions compute, for every input: the laws of `filter`,
  `lines`, `pagetree`, `replies` and `schemas`, the template expansion
  (`WikiTemplates`, which has `RECURSIVE` operators), the chains of
  `SetToSortSeq` in `ImagesSync`. There the theorems hold whatever
  chain it is, since the tree is checked against the release afterwards.
- The findings: a violation needs one behaviour.

## Not modelled

Formatting of answers, operator and enemy statistics, the conversion of wiki
text beyond template expansion, the launcher, logging. External, and modelled
from how they are used: SQLite, the zip format, the regex engine, GitHub and
its mirrors, the wiki, the runtime's timers (prompt, the clock never goes
back in `WikiClient`), kernel locks (released by a kill). The named pipe of
Windows is not modelled; the Unix socket is.
