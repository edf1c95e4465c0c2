--------------------------- MODULE ActivationLock ---------------------------
(***************************************************************************)
(* The directory lease of sync/activation.rs: .activation.lock,            *)
(* .release.lock and .gamedata-pair.lock all use it.  Several processes    *)
(* share a data volume; the lock is a directory at a fixed path, with an   *)
(* "owner" file whose mtime is the lease clock.                            *)
(*                                                                         *)
(* An action is one system call (or one that the code repeats with no      *)
(* effect in between); processes interleave between any two of them.  The  *)
(* age of the lease is abstracted to the two thresholds the code compares  *)
(* it with: the ownerless grace (10 s) and staleness (30 min).             *)
(***************************************************************************)
EXTENDS Naturals, FiniteSets

CONSTANTS
  Procs,       \* processes that synchronize the same volume
  Suspends,    \* may a live process stop between two system calls for as
               \* long as the grace (a suspended machine)?
  MaxCrashes   \* bound of the model: processes killed, and restarted at once

NoOwner == "nobody"  \* no owner file
Dead == "dead"       \* the token of a killed process, or a file left empty
Tokens == Procs \cup {NoOwner, Dead}

ASSUME ProcsAssumption == IsFiniteSet(Procs) /\ Procs \cap {NoOwner, Dead} = {}
ASSUME ParametersAssumption == Suspends \in BOOLEAN /\ MaxCrashes \in Nat

VARIABLES
  lock,     \* the directory at the lock path
  pc,       \* what each process does next
  saw,      \* `ownerless`, as the contender read it
  beating,  \* heartbeats that have read the owner file and not yet touched it
  crashes

vars == <<lock, pc, saw, beating, crashes>>

Ages == {"fresh", "graced", "stale"}
Lock == [exists : BOOLEAN,
         owner : Tokens,     \* content of the owner file
         maker : Tokens,     \* who created this directory (not on disk)
         age : Ages]
Free == [exists |-> FALSE, owner |-> NoOwner, maker |-> NoOwner, age |-> "fresh"]

\* "mkdir" .. "sleep" contend, "write" .. "rmdir" follow a successful mkdir.
Pcs == {"idle", "mkdir", "stat", "probe", "measure", "rename", "sleep",
        "write", "undo", "run", "verify", "unlink", "rmdir"}

TypeOK ==
  /\ lock \in Lock
  /\ pc \in [Procs -> Pcs]
  /\ saw \in [Procs -> BOOLEAN]
  /\ beating \subseteq Procs
  /\ crashes \in Nat

Init ==
  /\ lock = Free
  /\ pc = [p \in Procs |-> "idle"]
  /\ saw = [p \in Procs |-> FALSE]
  /\ beating = {}
  /\ crashes = 0

Goto(p, label) == pc' = [pc EXCEPT ![p] = label]

-----------------------------------------------------------------------------
(* Acquisition.                                                            *)

Want(p) ==
  /\ pc[p] = "idle"
  /\ Goto(p, "mkdir")
  /\ UNCHANGED <<lock, saw, beating, crashes>>

\* The cancellation checkpoint at the top of the loop.
Cancelled(p) ==
  /\ pc[p] = "mkdir"
  /\ Goto(p, "idle")
  /\ UNCHANGED <<lock, saw, beating, crashes>>

Mkdir(p) ==
  /\ pc[p] = "mkdir"
  /\ IF lock.exists
       THEN Goto(p, "stat") /\ UNCHANGED lock
       ELSE /\ lock' = [exists |-> TRUE, owner |-> NoOwner, maker |-> p, age |-> "fresh"]
            /\ Goto(p, "write")
  /\ UNCHANGED <<saw, beating, crashes>>

\* symlink_metadata: a lock that is gone by now is retried.
Stat(p) ==
  /\ pc[p] = "stat"
  /\ Goto(p, IF lock.exists THEN "probe" ELSE "mkdir")
  /\ UNCHANGED <<lock, saw, beating, crashes>>

\* ownerless = !lock.join("owner").exists()
Probe(p) ==
  /\ pc[p] = "probe"
  /\ saw' = [saw EXCEPT ![p] = lock.owner = NoOwner]
  /\ Goto(p, "measure")
  /\ UNCHANGED <<lock, beating, crashes>>

\* Fault: an ownerless lock has no grace.
FaultNoGrace(p) == lock.age = "stale" \/ saw[p]

Expired(p) == lock.age = "stale" \/ (saw[p] /\ lock.age = "graced")

\* lock_age_ms, and the verdict.  A lock removed since the probe is an error
\* that leaves the function; waiting may exhaust the budget.
Measure(p) ==
  /\ pc[p] = "measure"
  /\ \/ ~lock.exists /\ Goto(p, "idle")
     \/ lock.exists /\ Expired(p) /\ Goto(p, "rename")
     \/ lock.exists /\ ~Expired(p) /\ (Goto(p, "sleep") \/ Goto(p, "idle"))
  /\ UNCHANGED <<lock, saw, beating, crashes>>

Poll(p) ==
  /\ pc[p] = "sleep"
  /\ Goto(p, "mkdir")
  /\ UNCHANGED <<lock, saw, beating, crashes>>

\* Fault: the expired lock is waited for and never moved away.
FaultNeverReclaims(p) ==
  /\ pc[p] = "rename"
  /\ Goto(p, "sleep")
  /\ UNCHANGED <<lock, saw, beating, crashes>>

\* rename(lock, quarantine), whatever directory is at the path by now; then
\* the quarantine is deleted.
Reclaim(p) ==
  /\ pc[p] = "rename"
  /\ lock' = Free
  /\ Goto(p, "mkdir")
  /\ UNCHANGED <<saw, beating, crashes>>

\* fs::write(lock/owner): it goes to the directory now at the path.  It fails
\* when there is none, or for want of space, perhaps leaving an empty file;
\* then whatever is at the path is removed.
WriteOwner(p) ==
  /\ pc[p] = "write"
  /\ \/ /\ lock.exists
        /\ lock' = [lock EXCEPT !.owner = p, !.age = "fresh"]
        /\ Goto(p, "run")
     \/ /\ \/ UNCHANGED lock
           \/ lock.exists /\ lock' = [lock EXCEPT !.owner = Dead, !.age = "fresh"]
        /\ Goto(p, "undo")
  /\ UNCHANGED <<saw, beating, crashes>>

-----------------------------------------------------------------------------
(* The heartbeat runs beside the protected work, until it is aborted.      *)

BeatRead(p) ==
  /\ pc[p] = "run"
  /\ lock.owner = p
  /\ beating' = beating \cup {p}
  /\ UNCHANGED <<lock, pc, saw, crashes>>

BeatTouch(p) ==
  /\ p \in beating
  /\ beating' = beating \ {p}
  /\ lock' = IF lock.owner # NoOwner THEN [lock EXCEPT !.age = "fresh"] ELSE lock
  /\ UNCHANGED <<pc, saw, crashes>>

-----------------------------------------------------------------------------
(* Release.                                                                *)

\* run() ended; the heartbeat is aborted and awaited.
EndRun(p) ==
  /\ pc[p] = "run"
  /\ p \notin beating
  /\ Goto(p, "verify")
  /\ UNCHANGED <<lock, saw, beating, crashes>>

VerifyOwner(p) ==
  /\ pc[p] = "verify"
  /\ Goto(p, IF lock.owner = p THEN "unlink" ELSE "idle")
  /\ UNCHANGED <<lock, saw, beating, crashes>>

\* remove_dir_all: the files first, which makes the directory's mtime now ...
Unlink(p) ==
  /\ pc[p] \in {"undo", "unlink"}
  /\ lock' = IF lock.owner # NoOwner
               THEN [lock EXCEPT !.owner = NoOwner, !.age = "fresh"] ELSE lock
  /\ Goto(p, "rmdir")
  /\ UNCHANGED <<saw, beating, crashes>>

\* ... then the directory, which fails when it is not empty again.
Rmdir(p) ==
  /\ pc[p] = "rmdir"
  /\ lock' = IF lock.owner = NoOwner THEN Free ELSE lock
  /\ Goto(p, "idle")
  /\ UNCHANGED <<saw, beating, crashes>>

-----------------------------------------------------------------------------
(* The environment.                                                        *)

\* The process is killed: what it left on disk stays.
Crash(p) ==
  /\ crashes < MaxCrashes
  /\ pc[p] # "idle"
  /\ crashes' = crashes + 1
  /\ Goto(p, "idle")
  /\ beating' = beating \ {p}
  /\ lock' = [lock EXCEPT !.owner = IF @ = p THEN Dead ELSE @,
                          !.maker = IF @ = p THEN Dead ELSE @]
  /\ UNCHANGED saw

\* At an await point, or not contending: the process may stay there for long.
AtRest(p) == pc[p] \in {"idle", "sleep", "run"}
Alive(token) == \E p \in Procs : token = p /\ pc[p] = "run"

\* The clock passes the next threshold.  Unless processes are suspended, none
\* spends 10 s between two system calls, and a heart beats within 30 min.
Age ==
  /\ lock.exists
  /\ lock.age # "stale"
  /\ Suspends \/ \A p \in Procs : AtRest(p)
  /\ Suspends \/ lock.age = "fresh" \/ ~Alive(lock.owner)
  /\ lock' = [lock EXCEPT !.age = IF @ = "fresh" THEN "graced" ELSE "stale"]
  /\ UNCHANGED <<pc, saw, beating, crashes>>

-----------------------------------------------------------------------------
Contend(p) ==
  Mkdir(p) \/ Stat(p) \/ Probe(p) \/ Measure(p) \/ Poll(p) \/ Reclaim(p)

Finish(p) ==
  WriteOwner(p) \/ BeatTouch(p) \/ VerifyOwner(p) \/ Unlink(p) \/ Rmdir(p)

Next ==
  \/ \E p \in Procs : Want(p) \/ Cancelled(p) \/ Contend(p) \/ Finish(p)
                      \/ BeatRead(p) \/ EndRun(p) \/ Crash(p)
  \/ Age

(* A process that started goes on, its work ends between two heartbeats    *)
(* (transfers have timeouts; abort() waits for the beat in progress), and  *)
(* the clock runs.                                                         *)
Fairness ==
  /\ \A p \in Procs :
       WF_vars(Contend(p)) /\ WF_vars(Finish(p)) /\ SF_vars(EndRun(p))
  /\ WF_vars(Age)

Spec == Init /\ [][Next]_vars /\ Fairness

-----------------------------------------------------------------------------
(* Properties.                                                             *)

(* What the lease is for: two processes never run the protected work at    *)
(* the same time.                                                          *)
MutualExclusion ==
  \A p, q \in Procs : pc[p] = "run" /\ pc[q] = "run" => p = q

(* The lock protocol's own bookkeeping: between mkdir and rmdir exactly    *)
(* one process, the maker of the directory, is past acquisition, and the   *)
(* owner file holds nobody else's token.                                   *)
Holding(p) == pc[p] \in {"write", "undo", "run", "verify", "unlink", "rmdir"}
OneHolder ==
  /\ \A p \in Procs : Holding(p) => lock.exists /\ lock.maker = p
  /\ \A p \in Procs : pc[p] \in {"run", "verify", "unlink"} => lock.owner = p
  /\ \A p \in Procs : pc[p] = "undo" => lock.owner \in {NoOwner, Dead}
  /\ \A p \in Procs : pc[p] \in {"write", "rmdir"} => lock.owner = NoOwner

(* A lock left by a killed process is taken away in the end, by whoever    *)
(* still waits for it: nobody deletes it by hand (data-and-sync.md).       *)
Orphan == lock.exists /\ lock.maker = Dead
OrphanReclaimed ==
  \A p \in Procs : (Orphan /\ pc[p] = "sleep") ~> (~Orphan \/ pc[p] = "idle")

\* Of the processes that found a lock expired, one moves it away before
\* another has come as far.  What two of them can do is the run lock_reclaim.
OneReclaimer == \A p, q \in Procs : pc[p] = "rename" /\ pc[q] = "rename" => p = q

(* activation.rs: the heartbeat refreshes the lease "so contenders do not  *)
(* reclaim mid-run": no step of another process takes away the lock of a   *)
(* process that runs.                                                      *)
NoReclaimMidRun ==
  [][\A p \in Procs : pc[p] = "run" /\ lock.maker = p => lock'.maker \in {p, Dead}]_vars

=============================================================================
