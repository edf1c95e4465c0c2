---------------------------- MODULE DatabaseSync ----------------------------
(***************************************************************************)
(* The SQLite data set: sync/database.rs finds the release upstream,       *)
(* sync/database_io.rs publishes an immutable file per generation, points  *)
(* "active" at it ("previous" at its predecessor) and removes what nobody  *)
(* needs, and readers of other processes (storage/database.rs,             *)
(* admission.rs, sqlite.rs) open what the pointers name under a shared     *)
(* lease.                                                                  *)
(*                                                                         *)
(* A request holds the kernel lock sync.lock from its start to its end; it *)
(* may be dropped at an await, killed anywhere, or fail to write.  An      *)
(* action is what happens between two writes of the directory.  A file is  *)
(* the digest it was made for, and whether its bytes still have it.        *)
(***************************************************************************)
EXTENDS Integers, FiniteSets, Sequences

CONSTANTS
  Requests,       \* synchronizations, of one or several processes
  Readers,        \* processes that query the data
  MaxGeneration,  \* bound of the model: (source version, revision) pairs
  Builds,         \* bound of the model: digests published for one generation
  Slots,          \* bound of the model: database files at a time
  MaxFaults       \* bound of the model: kills, failures and damaged files

ASSUME ConstantsAssumption ==
  /\ MaxGeneration \in Nat \ {0}
  /\ Builds \subseteq Nat \ {0} /\ Builds # {}
  /\ IsFiniteSet(Slots) /\ Slots \subseteq Nat \ {0}
  /\ MaxFaults \in Nat

\* A digest identifies its generation: the metadata inside the file names it.
Digest == (1..MaxGeneration) \X Builds
Generation(digest) == digest[1]

NoDigest == <<0, 0>>
Pointer == [file : Slots, sha : Digest]
NoPointer == [file |-> 0, sha |-> NoDigest]    \* no such file
Garbage == [file |-> 0, sha |-> <<0, 1>>]      \* a file that does not parse

VARIABLES
  upstream,   \* the digest in the manifest of the latest release
  calm,       \* from here on the network and the disk work
  faults,
  files,      \* the database files: the digest in the name, or NoDigest
  damaged,    \* the files whose bytes do not have that digest
  leases,     \* the files F whose F.lease exists
  active, previous,
  holders,    \* who holds sync.lock
  stages,     \* the owners of a .stage-* directory
  req,        \* per request: where it is, and what it works with
  reader      \* per reader: where it is, and what it works with

disk == <<files, damaged, leases, active, previous>>
vars == <<upstream, calm, faults, disk, holders, stages, req, reader>>
world == <<upstream, calm, faults>>

\* Inside spawn_blocking: the task owns the lock and goes on when dropped.
Blocking == {"prepare", "publish", "rename", "verify", "retract",
             "previous", "active", "prune", "unlease"}
Request == [pc : {"idle", "discover", "download"} \cup Blocking,
            want : Digest \cup {NoDigest},
            ptr : Pointer \cup {NoPointer},
            todo : SUBSET Slots,
            gone : Slots \cup {0},   \* the file whose lease is held exclusively
            dropped : BOOLEAN]       \* nobody awaits the blocking task any more
Resting == [pc |-> "idle", want |-> NoDigest, ptr |-> NoPointer, todo |-> {},
            gone |-> 0, dropped |-> FALSE]
Reader == [pc : {"idle", "second", "open", "lease", "check", "using"},
           tries : {<<>>} \cup {<<p>> : p \in Pointer} \cup (Pointer \X Pointer),
           pin : Slots \cup {0}]     \* the lease locked in shared mode
Away == [pc |-> "idle", tries |-> <<>>, pin |-> 0]

TypeOK ==
  /\ upstream \in Digest
  /\ calm \in BOOLEAN
  /\ faults \in 0..MaxFaults
  /\ files \in [Slots -> Digest \cup {NoDigest}]
  /\ damaged \subseteq Slots
  /\ leases \subseteq Slots
  /\ active \in Pointer \cup {NoPointer, Garbage}
  /\ previous \in Pointer \cup {NoPointer}
  /\ holders \subseteq Requests
  /\ stages \subseteq Requests
  /\ req \in [Requests -> Request]
  /\ reader \in [Readers -> Reader]

Init ==
  /\ upstream \in {d \in Digest : Generation(d) = 1}
  /\ calm = FALSE
  /\ faults = 0
  /\ files = [f \in Slots |-> NoDigest]
  /\ damaged = {}
  /\ leases = {}
  /\ active = NoPointer
  /\ previous = NoPointer
  /\ holders = {}
  /\ stages = {}
  /\ req = [s \in Requests |-> Resting]
  /\ reader = [r \in Readers |-> Away]

-----------------------------------------------------------------------------
(* Readers of the directory.                                               *)

Present(f) == f # 0 /\ files[f] # NoDigest
Intact(f, digest) == Present(f) /\ files[f] = digest /\ f \notin damaged
Opens(pointer) == pointer.file # 0 /\ Intact(pointer.file, pointer.sha)
Pinned(f) == \E r \in Readers : reader[r].pin = f
Exclusive(f) == \E s \in Requests : req[s].gone = f

\* Fault: only the active generation is kept.
FaultForgetsPrevious(pointer) == ({f \in Slots : Present(f)} \cup leases) \ {pointer.file}

\* What prune finds in the directory, databases or their leases, beside the two
\* generations it keeps; it reads "previous" once, at its start.
Obsolete(pointer) ==
  ({f \in Slots : Present(f)} \cup leases) \ {pointer.file, previous.file}

\* What prepare takes for the installed generation.
Local == IF active = Garbage THEN previous ELSE active

\* Fault: any revision of the data may replace the installed one.
FaultAllowsOlder(digest) == FALSE

Downgrade(digest) == Local # NoPointer /\ Generation(Local.sha) > Generation(digest)
Conflict(digest) ==
  Local # NoPointer /\ Generation(Local.sha) = Generation(digest) /\ Local.sha # digest

-----------------------------------------------------------------------------
(* One request (sync_with_source).                                         *)

Goto(s, pc) == req' = [req EXCEPT ![s].pc = pc]

Fault == ~calm /\ faults < MaxFaults /\ faults' = faults + 1

\* The lock and the staging directory go when their last owner is dropped.
Leave(s) ==
  /\ req' = [req EXCEPT ![s] = Resting]
  /\ holders' = holders \ {s}
  /\ stages' = stages \ {s}

\* The lock is taken, or the request ends as busy; then leftovers of killed
\* requests are removed.
Begin(s) ==
  /\ req[s].pc = "idle"
  /\ holders = {}
  /\ holders' = {s}
  /\ stages' = {}
  /\ Goto(s, "discover")
  /\ UNCHANGED <<world, disk, reader>>

Discover(s) ==
  /\ req[s].pc = "discover"
  /\ \/ /\ req' = [req EXCEPT ![s].pc = "prepare", ![s].want = upstream]
        /\ UNCHANGED <<holders, stages>>
     \/ ~calm /\ Leave(s)    \* no answer, no manifest, a manifest of another release
  /\ UNCHANGED <<world, disk, reader>>

\* Fault: the pointer is believed, its file is not verified.
FaultTrustsPointer(s) ==
  /\ Local # NoPointer /\ Local.sha = req[s].want
  /\ req' = [req EXCEPT ![s].ptr = Local,
                        ![s].pc = IF active = Garbage THEN "previous" ELSE "prune",
                        ![s].todo = Obsolete(Local)]

\* Fault: an up-to-date request removes nothing.
FaultKeepsGarbage(s) ==
  /\ Local # NoPointer /\ Local.sha = req[s].want /\ Opens(Local)
  /\ req' = [req EXCEPT ![s].ptr = Local,
                        ![s].pc = IF active = Garbage THEN "previous" ELSE "prune"]

\* prepare: the installed file, or one left by an earlier request, will do.
Ready(s) ==
  /\ Local # NoPointer /\ Local.sha = req[s].want /\ Opens(Local)
  /\ req' = [req EXCEPT ![s].ptr = Local,
                        ![s].pc = IF active = Garbage THEN "previous" ELSE "prune",
                        ![s].todo = Obsolete(Local)]

Cached(s) ==
  \E f \in Slots :
    /\ Intact(f, req[s].want)
    /\ req' = [req EXCEPT ![s].ptr = [file |-> f, sha |-> req[s].want],
                          ![s].pc = "previous"]

Stored(digest) == \E f \in Slots : Intact(f, digest)

\* Download is returned, unless nobody awaits it any more.
Fetch(s) ==
  IF req[s].dropped THEN Leave(s)
  ELSE /\ Goto(s, "download")
       /\ stages' = stages \cup {s}
       /\ UNCHANGED holders

Prepare(s) ==
  /\ req[s].pc = "prepare"
  /\ LET want == req[s].want
         refused == Downgrade(want) \/ Conflict(want)
     IN \/ refused /\ Leave(s)
        \/ ~refused /\ Ready(s) /\ UNCHANGED <<holders, stages>>
        \/ /\ ~refused /\ ~(Local.sha = want /\ Opens(Local))
           /\ Cached(s)
           /\ UNCHANGED <<holders, stages>>
        \/ ~refused /\ ~Stored(want) /\ Fetch(s)
  /\ UNCHANGED <<world, disk, reader>>

\* An intact file cannot be read for the moment: another one, or a new one.
Misjudge(s) ==
  /\ req[s].pc = "prepare" /\ ~Downgrade(req[s].want) /\ ~Conflict(req[s].want)
  /\ Stored(req[s].want)
  /\ Fault
  /\ (Cached(s) /\ UNCHANGED <<holders, stages>>) \/ Fetch(s)
  /\ UNCHANGED <<upstream, calm, disk, reader>>

\* The archive is staged, its digest checked and decoded.
Download(s) ==
  /\ req[s].pc = "download"
  /\ \/ Goto(s, "publish") /\ UNCHANGED <<holders, stages>>
     \/ ~calm /\ Leave(s)
  /\ UNCHANGED <<world, disk, reader>>

\* A name nobody uses or remembers (a fresh UUID).
Unused(f) ==
  /\ files[f] = NoDigest /\ f \notin leases
  /\ f \notin {active.file, previous.file}
  /\ \A r \in Readers : reader[r].pin # f
       /\ \A k \in DOMAIN reader[r].tries : reader[r].tries[k].file # f
Fresh(f) == Unused(f) /\ \A g \in Slots : Unused(g) => f <= g

\* A lease file first: a database is not published without one.
CreateLease(s) ==
  /\ req[s].pc = "publish"
  /\ \E f \in Slots :
       /\ Fresh(f)
       /\ leases' = leases \cup {f}
       /\ req' = [req EXCEPT ![s].pc = "rename", ![s].ptr = [file |-> f, sha |-> req[s].want]]
  /\ UNCHANGED <<world, files, damaged, active, previous, holders, stages, reader>>

\* The decoded length was checked; the bytes may still not have the digest.
Rename(s) ==
  /\ req[s].pc = "rename"
  /\ files' = [files EXCEPT ![req[s].ptr.file] = req[s].want]
  /\ \/ UNCHANGED <<damaged, faults>>
     \/ /\ ~calm /\ faults < MaxFaults
        /\ faults' = faults + 1
        /\ damaged' = damaged \cup {req[s].ptr.file}
  /\ Goto(s, "verify")
  /\ UNCHANGED <<upstream, calm, leases, active, previous, holders, stages, reader>>

\* A file that cannot be read for the moment does not pass either.
Verify(s) ==
  /\ req[s].pc = "verify"
  /\ \/ Opens(req[s].ptr) /\ Goto(s, "previous") /\ UNCHANGED <<calm, faults>>
     \/ ~Opens(req[s].ptr) /\ Goto(s, "retract") /\ UNCHANGED <<calm, faults>>
     \/ Opens(req[s].ptr) /\ Goto(s, "retract") /\ Fault /\ UNCHANGED calm
  /\ UNCHANGED <<upstream, disk, holders, stages, reader>>

\* The file that failed is removed, then its lease file.  Both removals are
\* best effort, and the second is tried when the first failed: then the file
\* stays without a lease.  (A disk that spoils the file may refuse that too,
\* at no further cost.)
Retract(s) ==
  /\ req[s].pc = "retract"
  /\ LET f == req[s].ptr.file IN
       \/ /\ Present(f)
          /\ files' = [files EXCEPT ![f] = NoDigest]
          /\ damaged' = damaged \ {f}
          /\ UNCHANGED <<leases, holders, stages, req>>
       \/ /\ ~Present(f) \/ ~calm
          /\ leases' = leases \ {f}
          /\ Leave(s)
          /\ UNCHANGED <<files, damaged>>
  /\ UNCHANGED <<world, active, previous, reader>>

\* activate: remember the generation that is replaced, if it is worth it ...
SavePrevious(s) ==
  /\ req[s].pc = "previous"
  /\ previous' = IF /\ active.file \notin {0, req[s].ptr.file}
                     /\ active.sha # req[s].ptr.sha
                     /\ Opens(active)
                  THEN active ELSE previous
  /\ Goto(s, "active")
  /\ UNCHANGED <<world, files, damaged, leases, active, holders, stages, reader>>

\* ... and switch; then the directory is listed.
SaveActive(s) ==
  /\ req[s].pc = "active"
  /\ active' = req[s].ptr
  /\ req' = [req EXCEPT ![s].pc = "prune", ![s].todo = Obsolete(req[s].ptr)]
  /\ UNCHANGED <<world, files, damaged, leases, previous, holders, stages, reader>>

-----------------------------------------------------------------------------
(* Cleanup (prune): one file after the other, each under its own lease,    *)
(* which is taken exclusively without waiting and kept until F.lease is    *)
(* gone; a file that cannot be removed is left for the next time, and one  *)
(* without a lease for ever.                                               *)

\* The lease of the file opens, and nobody holds it.
Removable(f) == f \in leases /\ ~Pinned(f)

Skip(s, f) ==
  /\ req' = [req EXCEPT ![s].todo = @ \ {f}]
  /\ UNCHANGED <<files, damaged, leases>>

RemoveFile(s, f) ==
  /\ files' = [files EXCEPT ![f] = NoDigest]
  /\ damaged' = damaged \ {f}
  /\ req' = [req EXCEPT ![s].todo = @ \ {f}, ![s].gone = f, ![s].pc = "unlease"]
  /\ UNCHANGED leases

RemoveLease(s, f) ==
  /\ leases' = leases \ {f}
  /\ req' = [req EXCEPT ![s].todo = @ \ {f}, ![s].gone = 0, ![s].pc = "prune"]
  /\ UNCHANGED <<files, damaged>>

Prune(s) ==
  /\ req[s].pc = "prune"
  /\ \E f \in req[s].todo :
       \/ ~Removable(f) /\ Skip(s, f)
       \/ Removable(f) /\ Present(f) /\ RemoveFile(s, f)
       \/ Removable(f) /\ ~Present(f) /\ RemoveLease(s, f)
  /\ UNCHANGED <<world, active, previous, holders, stages, reader>>

Unlease(s) ==
  /\ req[s].pc = "unlease"
  /\ RemoveLease(s, req[s].gone)
  /\ UNCHANGED <<world, active, previous, holders, stages, reader>>

End(s) ==
  /\ req[s].pc = "prune" /\ req[s].todo = {}
  /\ Leave(s)
  /\ UNCHANGED <<world, disk, reader>>

-----------------------------------------------------------------------------
(* A request is dropped, fails to write, or is killed.                     *)

\* Fault: the lock is not moved into the blocking task.
FaultCancelUnlocks(s) ==
  /\ req[s].pc # "idle" /\ ~calm
  /\ IF req[s].pc \in Blocking
       THEN /\ req' = [req EXCEPT ![s].dropped = TRUE]
            /\ holders' = holders \ {s}
            /\ UNCHANGED stages
       ELSE Leave(s)
  /\ UNCHANGED <<world, disk, reader>>

Cancel(s) ==
  /\ req[s].pc # "idle" /\ ~calm
  /\ IF req[s].pc \in Blocking
       THEN /\ req' = [req EXCEPT ![s].dropped = TRUE]
            /\ UNCHANGED <<holders, stages>>
       ELSE Leave(s)
  /\ UNCHANGED <<world, disk, reader>>

\* The write this step is about fails: the request ends.  In "retract" that is
\* the removal of the lease, or both removals.
Fail(s) ==
  /\ req[s].pc \in {"publish", "rename", "retract", "previous", "active"}
  /\ Fault
  /\ Leave(s)
  /\ UNCHANGED <<upstream, calm, disk, reader>>

\* A removal fails, which prune ignores; or a database cannot be looked at and
\* is taken for gone, so that its lease goes (exists() is false on an error, and
\* the lease files of the two generations that are kept are looked at too).
FailPrune(s) ==
  /\ Fault
  /\ \/ /\ req[s].pc = "prune"
        /\ \/ \E f \in req[s].todo :
                req' = [req EXCEPT ![s].todo = @ \ {f}] /\ UNCHANGED leases
           \/ \E f \in leases :
                /\ ~Pinned(f)
                /\ req' = [req EXCEPT ![s].todo = @ \ {f}]
                /\ leases' = leases \ {f}
     \/ /\ req[s].pc = "unlease"
        /\ req' = [req EXCEPT ![s].pc = "prune", ![s].gone = 0]
        /\ UNCHANGED leases
  /\ UNCHANGED <<upstream, calm, files, damaged, active, previous, holders, stages, reader>>

\* The kernel releases the locks; the staging directory stays.
Kill(s) ==
  /\ req[s].pc # "idle"
  /\ Fault
  /\ req' = [req EXCEPT ![s] = Resting]
  /\ holders' = holders \ {s}
  /\ UNCHANGED <<upstream, calm, disk, stages, reader>>

-----------------------------------------------------------------------------
(* A reader of another process (candidates, open_ready, admit).            *)

Named(pointer) == IF pointer.file = 0 THEN <<>> ELSE <<pointer>>

\* The two pointers are read one after the other.
ReadActive(r) ==
  /\ reader[r].pc = "idle"
  /\ reader' = [reader EXCEPT ![r].pc = "second", ![r].tries = Named(active)]
  /\ UNCHANGED <<world, disk, holders, stages, req>>

ReadPrevious(r) ==
  /\ reader[r].pc = "second"
  /\ reader' = [reader EXCEPT ![r].pc = "open",
                              ![r].tries = reader[r].tries \o Named(previous)]
  /\ UNCHANGED <<world, disk, holders, stages, req>>

\* The file is opened, then its lease locked in shared mode (admit); without a
\* lease file there is no lock.
Open(r) ==
  /\ reader[r].pc = "open" /\ reader[r].tries # <<>>
  /\ reader' = [reader EXCEPT ![r] =
       IF Present(Head(reader[r].tries).file)
         THEN [@ EXCEPT !.pc = "lease"]
         ELSE [@ EXCEPT !.tries = Tail(reader[r].tries)]]
  /\ UNCHANGED <<world, disk, holders, stages, req>>

Lease(r) ==
  /\ reader[r].pc = "lease"
  /\ LET f == Head(reader[r].tries).file IN
       reader' = [reader EXCEPT ![r] =
         IF Exclusive(f) THEN [@ EXCEPT !.pc = "open", !.tries = Tail(reader[r].tries)]
                         ELSE [@ EXCEPT !.pc = "check", !.pin = IF f \in leases THEN f ELSE 0]]
  /\ UNCHANGED <<world, disk, holders, stages, req>>

\* Fault: the file is not looked at again once the lease is taken.
FaultNoRecheck(r) ==
  /\ reader[r].pc = "check"
  /\ reader' = [reader EXCEPT ![r].pc = "using", ![r].tries = <<Head(@)>>]
  /\ UNCHANGED <<world, disk, holders, stages, req>>

\* The bytes are those the pointer names, and the path still leads to them.
Check(r) ==
  /\ reader[r].pc = "check"
  /\ LET pointer == Head(reader[r].tries) IN
       reader' = [reader EXCEPT ![r] =
         IF Opens(pointer) THEN [@ EXCEPT !.pc = "using", !.tries = <<pointer>>]
         ELSE [@ EXCEPT !.pc = "open", !.pin = 0, !.tries = Tail(reader[r].tries)]]
  /\ UNCHANGED <<world, disk, holders, stages, req>>

\* No candidate is left: the data of the installation is used.
GiveUp(r) ==
  /\ reader[r].pc = "open" /\ reader[r].tries = <<>>
  /\ reader' = [reader EXCEPT ![r] = Away]
  /\ UNCHANGED <<world, disk, holders, stages, req>>

\* The last view of this generation is dropped.
Close(r) ==
  /\ reader[r].pc = "using"
  /\ reader' = [reader EXCEPT ![r] = Away]
  /\ UNCHANGED <<world, disk, holders, stages, req>>

-----------------------------------------------------------------------------
(* The environment.                                                        *)

\* Releases are published, rebuilt under the same name and withdrawn.
Upstream ==
  /\ ~calm
  /\ upstream' \in Digest
  /\ UNCHANGED <<calm, faults, disk, holders, stages, req, reader>>

Damage(f) ==
  /\ Present(f) /\ f \notin damaged
  /\ Fault
  /\ damaged' = damaged \cup {f}
  /\ UNCHANGED <<upstream, calm, files, leases, active, previous, holders, stages, req, reader>>

Corrupt ==
  /\ Fault
  /\ \/ active # NoPointer /\ active' = Garbage /\ UNCHANGED previous
     \/ previous' = NoPointer /\ UNCHANGED active
  /\ UNCHANGED <<upstream, calm, files, damaged, leases, holders, stages, req, reader>>

Calm ==
  /\ ~calm
  /\ calm' = TRUE
  /\ UNCHANGED <<upstream, faults, disk, holders, stages, req, reader>>

-----------------------------------------------------------------------------
Work(s) ==
  \/ Discover(s) \/ Prepare(s) \/ Misjudge(s) \/ Download(s) \/ CreateLease(s) \/ Rename(s)
  \/ Verify(s) \/ Retract(s) \/ SavePrevious(s) \/ SaveActive(s)
  \/ Prune(s) \/ Unlease(s) \/ End(s)

Query(r) ==
  \/ ReadActive(r) \/ ReadPrevious(r) \/ Open(r) \/ Lease(r) \/ Check(r) \/ GiveUp(r) \/ Close(r)

Next ==
  \/ \E s \in Requests : Begin(s) \/ Work(s) \/ Cancel(s) \/ Fail(s) \/ FailPrune(s) \/ Kill(s)
  \/ \E r \in Readers : Query(r)
  \/ Upstream \/ (\E f \in Slots : Damage(f)) \/ Corrupt \/ Calm

(* The worker polls again and again, and a request that started goes on.   *)
Fairness == \A s \in Requests : WF_vars(Begin(s)) /\ WF_vars(Work(s))

Spec == Init /\ [][Next]_vars /\ Fairness

-----------------------------------------------------------------------------
(* Properties.                                                             *)

(* One request at a time works on the directory, also when the request was *)
(* dropped while its blocking task goes on, and nobody cleans away the     *)
(* staging directory it works in (database.rs: "cannot ... permit a second *)
(* publisher mid-commit").                                                 *)
WriterIsAlone ==
  /\ \A s, t \in Requests : req[s].pc # "idle" /\ req[t].pc # "idle" => s = t
  /\ \A s \in Requests : req[s].pc \in {"download", "publish", "rename"} => s \in stages

(* The pointers never dangle: whatever is killed between the writes of a   *)
(* file, of "previous" and of "active", cleanup takes no file either names.*)
PointersResolve ==
  \A pointer \in {active, previous} :
    pointer.file # 0 => files[pointer.file] = pointer.sha

(* A file is not removed under a reader that was admitted, though the      *)
(* reader took its path from a pointer that may have moved on since, and   *)
(* though the file may have lost its lease to a failed removal, so that    *)
(* the reader holds none (database_io.rs, publish and prune).              *)
ReaderKeepsFile ==
  \A r \in Readers : reader[r].pc = "using" => Present(Head(reader[r].tries).file)

(* While the pointer can be read, an installed generation is replaced only *)
(* by a later one, and never by another digest of the same one.            *)
NoDowngrade ==
  [][active.file # 0 /\ active'.file # 0 /\ active'.sha # active.sha
       => Generation(active'.sha) > Generation(active.sha)]_vars

(* When the network and the disk work again, the release upstream becomes  *)
(* active with intact bytes, unless it is one that must be refused.        *)
Converges ==
  calm ~> [](Downgrade(upstream) \/ Conflict(upstream)
             \/ (active.sha = upstream /\ Opens(active)))

(* And the files no pointer names leave the disk, unless a reader holds    *)
(* them, they have lost their lease, or every request is refused.          *)
GarbageLeaves ==
  calm ~> [](Downgrade(upstream) \/ Conflict(upstream)
             \/ \A f \in leases : f \in {active.file, previous.file} \/ Pinned(f))
=============================================================================
