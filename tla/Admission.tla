----------------------------- MODULE Admission -----------------------------
(***************************************************************************)
(* How one process comes to trust a database file: storage/admission.rs,   *)
(* validation.rs (receipts), validation_stamp.rs, identity.rs, and the     *)
(* shared handles of sqlite.rs.                                            *)
(*                                                                         *)
(* A file is hashed, opened and verified in several steps, while other     *)
(* processes replace, rewrite and remove it.  A token (device, inode,      *)
(* size, times) never comes back: it is the number of the write that made  *)
(* the file what it is.  Managed paths have an expected digest; the data   *)
(* it stands for may itself be unsound.                                    *)
(***************************************************************************)
EXTENDS Integers, Sequences, FiniteSetsExt

CONSTANTS
  Managed,    \* paths named by a pointer or a manifest
  Custom,     \* paths given by the user: no digest is known
  Rotten,     \* managed paths whose digest stands for unsound data
  Threads,    \* blocking tasks that admit a file
  Limit,      \* receipts that are kept (8 in the code)
  MaxWrites   \* bound of the model: writes of database files

Paths == Managed \cup Custom
\* "expected": the bytes the digest stands for, and at a custom path bytes that
\* pass quick_check only.  The metadata of other bytes may be the same.
Bytes == {"expected", "sound", "unsound"}
Token == 1..MaxWrites

VARIABLES
  writes,    \* every write so far: the inode it went to and the bytes
  file,      \* per path the token of the file there, 0 without one
  stamps,    \* managed paths with a .verified.json of their digest
  receipts,  \* the process-local proofs
  levels,    \* per token of a shared handle: 1 quick_check done, 2 everything
  task       \* per thread

vars == <<writes, file, stamps, receipts, levels, task>>

Write == [ino : Token, bytes : Bytes]
Receipt == [path : Managed, token : Token, full : BOOLEAN]
Task == [pc : {"idle", "hash", "open", "check", "done", "using"},
         path : Paths, strict : BOOLEAN, fresh : BOOLEAN,
         token : Token \cup {0},    \* Observation::begin
         reused : BOOLEAN,          \* a receipt stood in for the hash
         handle : Token \cup {0},   \* the identity of the opened database
         full : BOOLEAN]
Away == [pc |-> "idle", path |-> CHOOSE p \in Paths : TRUE, strict |-> FALSE,
         fresh |-> FALSE, token |-> 0, reused |-> FALSE, handle |-> 0, full |-> FALSE]

TypeOK ==
  /\ writes \in Seq(Write) /\ Len(writes) <= MaxWrites
  /\ file \in [Paths -> 0..Len(writes)]
  /\ stamps \subseteq Managed
  /\ receipts \subseteq Receipt
  /\ levels \in [Token -> 0..2]
  /\ task \in [Threads -> Task]

Init ==
  /\ writes = <<>>
  /\ file = [p \in Paths |-> 0]
  /\ stamps = {}
  /\ receipts = {}
  /\ levels = [n \in Token |-> 0]
  /\ task = [t \in Threads |-> Away]

-----------------------------------------------------------------------------
(* The file system, and what a reader sees of it.                          *)

\* integrity_check and what goes with it; quick_check sees less.
Sound(p, bytes) == bytes = "sound" \/ (bytes = "expected" /\ p \in Managed \ Rotten)
Quick(bytes) == bytes # "unsound"

\* An open file shows the last bytes written to its inode.
Seen(token) ==
  writes[Max({n \in DOMAIN writes : writes[n].ino = writes[token].ino})].bytes

\* file_token and path_token: the open file and the path are what they were.
Current(p, token) == file[p] = token

\* The shared locks of a .lease: receipts and handles.
Pinned(p) ==
  \/ \E r \in receipts : r.path = p
  \/ \E t \in Threads : task[t].path = p /\ task[t].handle # 0

\* Another process renames a file into place: a new inode.
Replace(p, bytes) ==
  /\ Len(writes) < MaxWrites
  /\ writes' = Append(writes, [ino |-> Len(writes) + 1, bytes |-> bytes])
  /\ file' = [file EXCEPT ![p] = Len(writes) + 1]
  /\ UNCHANGED <<stamps, receipts, levels, task>>

\* A foreign program writes into the file that is there.
Rewrite(p, bytes) ==
  /\ Len(writes) < MaxWrites /\ file[p] # 0
  /\ writes' = Append(writes, [ino |-> writes[file[p]].ino, bytes |-> bytes])
  /\ file' = [file EXCEPT ![p] = Len(writes) + 1]
  /\ UNCHANGED <<stamps, receipts, levels, task>>

-----------------------------------------------------------------------------
(* Receipts (validation.rs).                                               *)

\* Every look at the receipts first drops those that are no longer current.
Valid(rs) == {r \in rs : Current(r.path, r.token)}
Without(p, rs) == {r \in rs : r.path # p}

\* One makes room for the next.  It is the oldest; no property depends on which.
Room(rs) == IF Cardinality(rs) < Limit THEN {rs} ELSE kSubset(Limit - 1, rs)

\* verified_digest
Proves(r, p, strict) == r.path = p /\ (strict => r.full)
Proven(rs, p, strict) == \E r \in rs : Proves(r, p, strict)

Remember(p, token, full) ==
  \E kept \in Room(Without(p, Valid(receipts))) :
    receipts' = kept \cup {[path |-> p, token |-> token, full |-> full]}

-----------------------------------------------------------------------------
(* One admission (admit).                                                  *)

\* The flight of a path: one admission at a time.
Flying(p) ==
  \E t \in Threads : task[t].path = p /\ task[t].pc \in {"hash", "open", "check", "done"}

Begin(t, p, strict, fresh) ==
  /\ task[t].pc = "idle"
  /\ ~Flying(p)
  /\ file[p] # 0
  /\ fresh => p \in Managed
  /\ task' = [task EXCEPT ![t] = [Away EXCEPT
       !.pc = "hash", !.path = p, !.strict = strict, !.fresh = fresh, !.token = file[p]]]
  /\ UNCHANGED <<writes, file, stamps, receipts, levels>>

Fail(t) == task' = [task EXCEPT ![t] = Away]

\* A receipt, or every byte of a managed file.
Hash(t) ==
  LET p == task[t].path
      kept == Valid(receipts)
      asks == p \in Managed /\ ~task[t].fresh
      reused == asks /\ Proven(kept, p, task[t].strict)
      matches == \/ p \in Custom \/ reused
                 \/ file[p] # 0 /\ Seen(file[p]) = "expected"
  IN /\ task[t].pc = "hash"
     /\ receipts' = IF asks THEN kept ELSE receipts
     /\ IF matches /\ (p \in Managed => Current(p, task[t].token))
        THEN task' = [task EXCEPT ![t].pc = "open", ![t].reused = reused]
        ELSE Fail(t)
     /\ UNCHANGED <<writes, file, stamps, levels>>

\* A live handle with the identity the path has now, or a new one.
Open(t) ==
  LET p == task[t].path
      shared == \E u \in Threads \ {t} : task[u].path = p /\ task[u].handle = file[p]
  IN /\ task[t].pc = "open"
     /\ IF file[p] = 0 THEN Fail(t) /\ UNCHANGED levels
        ELSE /\ task' = [task EXCEPT ![t].pc = "check", ![t].handle = file[p]]
             /\ levels' = [levels EXCEPT ![file[p]] = IF shared THEN @ ELSE 0]
     /\ UNCHANGED <<writes, file, stamps, receipts>>

\* What a managed file is verified with: everything, unless its structure was
\* verified before and its digest just now.
Full(t) == task[t].fresh \/ task[t].strict \/ task[t].path \notin stamps

\* check_custom: what this handle has been checked for already.
Done(token, level) == levels[token] >= level

\* Metadata, quick_check or integrity_check, through the handle.
Check(t) ==
  LET p == task[t].path
      token == task[t].handle
      seen == Seen(token)
      level == IF task[t].strict THEN 2 ELSE 1
      full == p \in Managed /\ ~task[t].reused /\ Full(t)
      good == IF p \in Custom
              THEN Done(token, level) \/ IF task[t].strict THEN Sound(p, seen) ELSE Quick(seen)
              ELSE full => Sound(p, seen)
  IN /\ task[t].pc = "check"
     /\ IF good
        THEN /\ task' = [task EXCEPT ![t].pc = "done", ![t].full = full]
             /\ levels' = IF p \in Custom /\ levels[token] < level
                          THEN [levels EXCEPT ![token] = level] ELSE levels
        ELSE Fail(t) /\ UNCHANGED levels
     /\ UNCHANGED <<writes, file, stamps, receipts>>

\* Fault: the file is not looked at again after the checks.
FaultUnchanged(t) == TRUE

\* The last Observation::check.
Unchanged(t) == Current(task[t].path, task[t].token)

\* Stamp, receipt and registration, if nothing changed meanwhile.
Admit(t) ==
  LET p == task[t].path
      proof == p \in Managed /\ ~task[t].reused
  IN /\ task[t].pc = "done"
     /\ IF Unchanged(t)
        THEN /\ task' = [task EXCEPT ![t].pc = "using"]
             /\ \/ stamps' = IF proof /\ task[t].full THEN stamps \cup {p} ELSE stamps
                \/ UNCHANGED stamps         \* a stamp that cannot be written
             /\ IF proof THEN Remember(p, task[t].token, task[t].full)
                ELSE UNCHANGED receipts
        ELSE Fail(t) /\ UNCHANGED <<stamps, receipts>>
     /\ UNCHANGED <<writes, file, levels>>

\* The last owner of a snapshot lets its database go.
Close(t) ==
  /\ task[t].pc = "using"
  /\ task' = [task EXCEPT ![t] = Away]
  /\ UNCHANGED <<writes, file, stamps, receipts, levels>>

-----------------------------------------------------------------------------
(* Cleanup of the directory (database_io.rs).                              *)

Gone(p) ==
  /\ file' = [file EXCEPT ![p] = 0]
  /\ stamps' = stamps \ {p}

\* Another process: only without a lock on the lease.
PruneElsewhere(p) ==
  /\ file[p] # 0 /\ ~Pinned(p)
  /\ Gone(p)
  /\ UNCHANGED <<writes, receipts, levels, task>>

\* This process: its own proof is not in the way, its readers are.
Forgets(p) == Without(p, receipts)

Read(p) == \E t \in Threads : task[t].path = p /\ task[t].handle # 0

Prune(p) ==
  LET held == Read(p) \/ \E r \in Forgets(p) : r.path = p
  IN /\ file[p] # 0
     /\ receipts' = Forgets(p)
     /\ IF held THEN UNCHANGED <<file, stamps>> ELSE Gone(p)
     /\ UNCHANGED <<writes, levels, task>>

-----------------------------------------------------------------------------
Step(t) == Hash(t) \/ Open(t) \/ Check(t) \/ Admit(t)

Next ==
  \/ \E p \in Paths, bytes \in Bytes : Replace(p, bytes) \/ Rewrite(p, bytes)
  \/ \E p \in Managed : PruneElsewhere(p) \/ Prune(p)
  \/ \E t \in Threads, p \in Paths, strict, fresh \in BOOLEAN : Begin(t, p, strict, fresh)
  \/ \E t \in Threads : Step(t) \/ Close(t)

Spec == Init /\ [][Next]_vars

\* Blocking tasks run, snapshots are replaced in the end, and so is the file a
\* cleanup comes back to; writers owe nothing.
FairSpec ==
  /\ Spec
  /\ \A t \in Threads : WF_vars(Step(t)) /\ WF_vars(Close(t))
  /\ \A p \in Managed : WF_vars(Prune(p))

-----------------------------------------------------------------------------
(* Properties.                                                             *)

\* A database that is used is the one that was vouched for: at its token the
\* path had the expected bytes, and a strict reader gets sound data, whatever
\* was replaced or rewritten between hash, open and check, and whether a
\* receipt, a stamp or a shared handle made the check short.
Vouched ==
  \A t \in Threads : task[t].pc = "using" =>
    LET u == task[t]
        bytes == writes[u.token].bytes
    IN /\ u.handle = u.token
       /\ u.path \in Managed => bytes = "expected"
       /\ u.strict => Sound(u.path, bytes)

\* What is on record about a digest is true of it: a stamp was earned by data
\* with that digest, and a receipt stands for bytes that had it.
ProofsAreTrue ==
  /\ stamps \cap Rotten = {}
  /\ \A r \in receipts :
       /\ writes[r.token].bytes = "expected"
       /\ r.full => r.path \notin Rotten

\* Receipts pin at most Limit files, one each: the files of a cleaner that is
\* held up are bounded.
PinsAreBounded ==
  /\ Cardinality(receipts) <= Limit
  /\ \A r, s \in receipts : r.path = s.path => r = s

\* The proofs of this process never keep an obsolete file: each time a cleanup
\* finds it without a reader, it goes.
ObsoleteGoes == \A p \in Managed : []<>(file[p] = 0 \/ Read(p))

\* Every admission comes to an end, however often the file changes under it.
AdmissionsEnd == \A t \in Threads : task[t].pc # "idle" ~> task[t].pc = "idle"

=============================================================================
