-------------------------- MODULE AdmissionProofs --------------------------
(***************************************************************************)
(* Proofs about the admission of database files, for any number of paths,  *)
(* threads, receipts and writes.                                           *)
(***************************************************************************)
EXTENDS Admission, FiniteSetTheorems, SequenceTheorems, TLAPS

(* A path is managed or given, never both; at least one receipt is kept.   *)
Given ==
  /\ Managed \cap Custom = {} /\ Paths # {}
  /\ MaxWrites \in Nat /\ Limit \in Nat \ {0}

-----------------------------------------------------------------------------
(* The inductive invariant.                                                *)

(* A write goes to an inode that exists by then.  The file of a path is    *)
(* the last write to its inode, which no other path has.                   *)
Inodes == \A n \in DOMAIN writes : writes[n].ino <= n
Last(k) == \A n \in DOMAIN writes : writes[n].ino = writes[k].ino => n <= k
Files ==
  /\ \A p \in Paths : file[p] # 0 => Last(file[p])
  /\ \A p, q \in Paths : file[p] # 0 /\ file[q] # 0 /\ p # q =>
       writes[file[p]].ino # writes[file[q]].ino

(* What a file was checked for, its bytes stand for.                       *)
Levels ==
  /\ \A n \in Token : n > Len(writes) => levels[n] = 0
  /\ \A p \in Custom : file[p] # 0 /\ levels[file[p]] = 2 => Sound(p, writes[file[p]].bytes)

(* A path never comes back to a token it has left.                         *)
Left(p, k) == file[p] = 0 \/ file[p] >= k
Hashed == {"open", "check", "done", "using"}
Opened == {"check", "done", "using"}

(* What an admission knows after each step.  The checks are made through   *)
(* the handle; they tell something of its token only while the path still  *)
(* has it.                                                                 *)
Observed(u) ==
  u.pc # "idle" => u.token \in DOMAIN writes /\ Left(u.path, u.token)
Handled(u) ==
  /\ u.pc \in Opened =>
       /\ u.handle \in DOMAIN writes /\ u.handle >= u.token /\ Left(u.path, u.handle)
       /\ \A q \in Paths \ {u.path} : file[q] # u.handle
  /\ u.pc = "using" => u.handle = u.token
Authentic(u) ==
  u.pc \in Hashed /\ u.path \in Managed =>
    /\ writes[u.token].bytes = "expected"
    /\ u.reused /\ u.strict => u.path \notin Rotten
Checked(u) ==
  /\ u.pc = "done" /\ file[u.path] = u.handle =>
       /\ u.strict /\ ~u.reused => Sound(u.path, writes[u.handle].bytes)
       /\ u.full => Sound(u.path, writes[u.handle].bytes)
  /\ u.pc = "using" /\ u.strict => Sound(u.path, writes[u.token].bytes)
  /\ u.pc \in Hashed /\ u.path \in Custom => ~u.reused

Knows(t) ==
  Observed(task[t]) /\ Handled(task[t]) /\ Authentic(task[t]) /\ Checked(task[t])

(* A receipt is of a write that was made.                                  *)
Receipts == \A r \in receipts : r.token \in DOMAIN writes

AdmissionInv ==
  /\ TypeOK /\ Inodes /\ Files /\ Levels /\ \A t \in Threads : Knows(t)
  /\ Receipts /\ ProofsAreTrue

LEMMA AdmissionInit == ASSUME Given PROVE Init => AdmissionInv
<1> SUFFICES ASSUME Init PROVE AdmissionInv
  OBVIOUS
<1>1. Away \in Task /\ Away.pc = "idle"
  BY DEF Given, Away, Task
<1>2. Len(writes) = 0 /\ DOMAIN writes = {}
  BY DEF Init
<1>3. TypeOK
  BY <1>1, <1>2 DEF Init, TypeOK, Given
<1>4. Inodes /\ Receipts /\ ProofsAreTrue
  BY <1>2 DEF Init, Inodes, Receipts, ProofsAreTrue
<1>5. Files
  BY DEF Init, Files
<1>6. Levels
  BY DEF Init, Levels, Paths
<1>7. \A t \in Threads : Knows(t)
  BY <1>1 DEF Init, Knows, Observed, Handled, Authentic, Checked, Hashed, Opened
<1> QED BY <1>3, <1>4, <1>5, <1>6, <1>7 DEF AdmissionInv

(* The file of a path shows its own write.                                 *)
LEMMA SeenIsLast ==
  ASSUME AdmissionInv, NEW p \in Paths, file[p] # 0
  PROVE  Seen(file[p]) = writes[file[p]].bytes
<1> DEFINE S == {n \in DOMAIN writes : writes[n].ino = writes[file[p]].ino}
<1>1. file[p] \in DOMAIN writes /\ DOMAIN writes \subseteq Nat
  BY DEF AdmissionInv, TypeOK
<1>2. file[p] \in S /\ \A n \in S : n <= file[p] /\ n \in Nat
  BY <1>1 DEF AdmissionInv, Files, Last
<1> HIDE DEF S
<1>3. Max(S) = file[p]
  BY <1>1, <1>2 DEF Max
<1> QED BY <1>3 DEF Seen, S

-----------------------------------------------------------------------------
(* Writers of other processes.                                             *)

LEMMA WriteKeeps ==
  ASSUME Given, AdmissionInv, NEW p \in Paths, NEW w \in Write, Len(writes) < MaxWrites,
         \/ w.ino = Len(writes) + 1
         \/ file[p] # 0 /\ w.ino = writes[file[p]].ino,
         writes' = Append(writes, w), file' = [file EXCEPT ![p] = Len(writes) + 1],
         UNCHANGED <<stamps, receipts, levels, task>>
  PROVE  AdmissionInv'
<1> DEFINE n == Len(writes) + 1
<1>1. /\ writes \in Seq(Write) /\ Len(writes) \in Nat /\ DOMAIN writes = 1..Len(writes)
      /\ file \in [Paths -> 0..Len(writes)]
  BY DEF AdmissionInv, TypeOK
<1>2. /\ writes' \in Seq(Write) /\ Len(writes') = n /\ DOMAIN writes' = 1..n
      /\ writes'[n] = w /\ \A k \in DOMAIN writes : writes'[k] = writes[k]
  BY <1>1, AppendProperties
<1>3. file'[p] = n /\ \A q \in Paths \ {p} : file'[q] = file[q]
  BY <1>1
<1>4. TypeOK'
  BY <1>1, <1>2, <1>3 DEF AdmissionInv, TypeOK, Given
<1>5. \A k \in DOMAIN writes : writes[k].ino <= k /\ writes[k].ino \in Nat
  <2>1. \A k \in DOMAIN writes : writes[k] \in Write
    BY <1>1
  <2> QED BY <1>1, <2>1 DEF AdmissionInv, Inodes, Write, Token, Given
<1>6. Inodes'
  BY <1>1, <1>2, <1>5 DEF Inodes
<1>7. \A q \in Paths \ {p} : file[q] # 0 => w.ino # writes[file[q]].ino
  <2> SUFFICES ASSUME NEW q \in Paths \ {p}, file[q] # 0 PROVE w.ino # writes[file[q]].ino
    OBVIOUS
  <2>1. file[q] \in DOMAIN writes
    BY <1>1
  <2> QED BY <1>1, <1>5, <2>1 DEF AdmissionInv, Files
<1>8. Files'
  <2>1. ASSUME NEW q \in Paths, file'[q] # 0 PROVE Last(file[q])'
    <3>1. CASE q = p
      BY <1>2, <1>3, <3>1 DEF Last
    <3>2. CASE q # p
      BY <1>1, <1>2, <1>3, <1>7, <2>1, <3>2 DEF AdmissionInv, Files, Last
    <3> QED BY <3>1, <3>2
  <2>2. ASSUME NEW q \in Paths, NEW r \in Paths, file'[q] # 0, file'[r] # 0, q # r
        PROVE  writes'[file'[q]].ino # writes'[file'[r]].ino
    BY <1>1, <1>2, <1>3, <1>7, <2>2 DEF AdmissionInv, Files
  <2> QED BY <2>1, <2>2 DEF Files
<1>9. Levels'
  BY <1>1, <1>2, <1>3 DEF AdmissionInv, Levels, Paths, Token, Sound, Given
<1>10. Receipts' /\ ProofsAreTrue'
  BY <1>2 DEF AdmissionInv, Receipts, ProofsAreTrue
<1>11. ASSUME NEW t \in Threads PROVE Knows(t)'
  <2>1. /\ task' = task /\ task[t].path \in Paths /\ task[t].token \in Token \cup {0}
        /\ task[t].handle \in Token \cup {0}
    BY DEF AdmissionInv, TypeOK, Task
  <2>2. Knows(t)
    BY DEF AdmissionInv
  <2>3. Observed(task[t])'
    BY <1>1, <1>2, <1>3, <2>1, <2>2 DEF Knows, Observed, Left
  <2>4. Handled(task[t])'
    BY <1>1, <1>2, <1>3, <2>1, <2>2 DEF Knows, Handled, Left
  <2>5. Authentic(task[t])'
    BY <1>2, <2>1, <2>2 DEF Knows, Observed, Authentic, Hashed
  <2>6. Checked(task[t])'
    BY <1>1, <1>2, <1>3, <2>1, <2>2 DEF Knows, Observed, Handled, Checked, Opened, Sound
  <2> QED BY <2>3, <2>4, <2>5, <2>6 DEF Knows
<1> QED BY <1>4, <1>6, <1>8, <1>9, <1>10, <1>11 DEF AdmissionInv

LEMMA ReplaceKeeps ==
  ASSUME Given, AdmissionInv, NEW p \in Paths, NEW bytes \in Bytes,
         Replace(p, bytes) \/ Rewrite(p, bytes)
  PROVE  AdmissionInv'
<1>1. /\ writes \in Seq(Write) /\ Len(writes) \in Nat /\ DOMAIN writes = 1..Len(writes)
      /\ file[p] \in 0..Len(writes) /\ Len(writes) < MaxWrites
  BY DEF AdmissionInv, TypeOK, Replace, Rewrite
<1>2. CASE Replace(p, bytes)
  <2>1. [ino |-> Len(writes) + 1, bytes |-> bytes] \in Write
    BY <1>1 DEF Write, Token, Given
  <2> QED BY <1>1, <1>2, <2>1, WriteKeeps DEF Replace
<1>3. CASE Rewrite(p, bytes)
  <2>1. file[p] \in DOMAIN writes
    BY <1>1, <1>3 DEF Rewrite
  <2>2. writes[file[p]] \in Write
    BY <1>1, <2>1
  <2>3. [ino |-> writes[file[p]].ino, bytes |-> bytes] \in Write
    BY <2>2 DEF Write
  <2> QED BY <1>1, <1>3, <2>3, WriteKeeps DEF Rewrite
<1> QED BY <1>2, <1>3

-----------------------------------------------------------------------------
(* Cleanups.                                                               *)

LEMMA RemovalKeeps ==
  ASSUME AdmissionInv, UNCHANGED <<writes, levels, task>>,
         receipts' \subseteq receipts, stamps' \subseteq stamps,
         \/ UNCHANGED file
         \/ \E p \in Paths : file' = [file EXCEPT ![p] = 0]
  PROVE  AdmissionInv'
<1>1. /\ file' \in [Paths -> 0..Len(writes)] /\ file \in [Paths -> 0..Len(writes)]
      /\ Len(writes) \in Nat /\ \A q \in Paths : file'[q] \in {0, file[q]}
  BY DEF AdmissionInv, TypeOK
<1>2. TypeOK'
  BY <1>1 DEF AdmissionInv, TypeOK
<1>3. Inodes' /\ Receipts' /\ ProofsAreTrue'
  BY DEF AdmissionInv, Inodes, Receipts, ProofsAreTrue
<1>4. Files'
  BY <1>1 DEF AdmissionInv, Files, Last
<1>5. Levels'
  BY <1>1 DEF AdmissionInv, Levels, Sound, Paths
<1>6. ASSUME NEW t \in Threads PROVE Knows(t)'
  <2>1. /\ task' = task /\ task[t].path \in Paths /\ Knows(t)
        /\ task[t].handle \in Token \cup {0}
    BY DEF AdmissionInv, TypeOK, Task
  <2>2. Observed(task[t])'
    BY <1>1, <2>1 DEF Knows, Observed, Left
  <2>3. Handled(task[t])'
    BY <1>1, <2>1 DEF Knows, Handled, Left, AdmissionInv, TypeOK
  <2>4. Authentic(task[t])'
    BY <2>1 DEF Knows, Authentic
  <2>5. Checked(task[t])'
    BY <1>1, <2>1 DEF Knows, Handled, Checked, Sound, Opened, AdmissionInv, TypeOK
  <2> QED BY <2>2, <2>3, <2>4, <2>5 DEF Knows
<1> QED BY <1>2, <1>3, <1>4, <1>5, <1>6 DEF AdmissionInv

LEMMA PruneKeeps ==
  ASSUME AdmissionInv, NEW p \in Managed, PruneElsewhere(p) \/ Prune(p)
  PROVE  AdmissionInv'
<1>1. Forgets(p) \subseteq receipts /\ stamps \ {p} \subseteq stamps /\ p \in Paths
  BY DEF Forgets, Without, Paths
<1>2. CASE PruneElsewhere(p)
  BY <1>1, <1>2, RemovalKeeps DEF PruneElsewhere, Gone
<1>3. CASE Prune(p)
  BY <1>1, <1>3, RemovalKeeps DEF Prune, Gone
<1> QED BY <1>2, <1>3

-----------------------------------------------------------------------------
(* Admissions.  A step of a thread changes what this thread knows.         *)

LEMMA ThreadKeeps ==
  ASSUME AdmissionInv, NEW t \in Threads, NEW u \in Task,
         task' = [task EXCEPT ![t] = u],
         Observed(u), Handled(u), Authentic(u), Checked(u),
         UNCHANGED <<writes, file>>, TypeOK', Levels', Receipts', ProofsAreTrue'
  PROVE  AdmissionInv'
<1>1. task'[t] = u /\ \A s \in Threads \ {t} : task'[s] = task[s]
  BY DEF AdmissionInv, TypeOK
<1>2. Inodes' /\ Files'
  BY DEF AdmissionInv, Inodes, Files, Last
<1>3. ASSUME NEW s \in Threads PROVE Knows(s)'
  <2>1. PICK v : /\ v = task'[s] /\ Observed(v) /\ Handled(v) /\ Authentic(v) /\ Checked(v)
    BY <1>1 DEF AdmissionInv, Knows
  <2> QED BY <2>1 DEF Knows, Observed, Handled, Authentic, Checked, Left, Sound
<1> QED BY <1>2, <1>3 DEF AdmissionInv

LEMMA AwayKnows ==
  ASSUME Given PROVE Away \in Task /\ Observed(Away) /\ Handled(Away) /\ Authentic(Away) /\ Checked(Away)
BY DEF Given, Away, Task, Observed, Handled, Authentic, Checked, Hashed, Opened

(* Most steps leave the levels and the stamps alone.                       *)
LEMMA LookKeeps ==
  ASSUME AdmissionInv, NEW t \in Threads, NEW u \in Task,
         task' = [task EXCEPT ![t] = u],
         Observed(u), Handled(u), Authentic(u), Checked(u),
         UNCHANGED <<writes, file, levels, stamps>>, receipts' \subseteq receipts
  PROVE  AdmissionInv'
<1>1. TypeOK'
  BY DEF AdmissionInv, TypeOK
<1>2. Levels' /\ Receipts' /\ ProofsAreTrue'
  BY DEF AdmissionInv, Levels, Receipts, ProofsAreTrue, Sound
<1> QED BY <1>1, <1>2, ThreadKeeps

LEMMA FailKeeps ==
  ASSUME Given, AdmissionInv, NEW t \in Threads, Fail(t),
         UNCHANGED <<writes, file, levels, stamps>>, receipts' \subseteq receipts
  PROVE  AdmissionInv'
BY AwayKnows, LookKeeps DEF Fail

LEMMA CloseKeeps == ASSUME Given, AdmissionInv, NEW t \in Threads, Close(t) PROVE AdmissionInv'
BY FailKeeps DEF Close, Fail

LEMMA BeginKeeps ==
  ASSUME Given, AdmissionInv, NEW t \in Threads, NEW p \in Paths, NEW strict \in BOOLEAN,
         NEW fresh \in BOOLEAN, Begin(t, p, strict, fresh)
  PROVE  AdmissionInv'
<1>1. file[p] \in DOMAIN writes /\ file[p] \in Token
  <2>1. file[p] \in 1..Len(writes) /\ Len(writes) <= MaxWrites /\ Len(writes) \in Nat
    BY DEF Begin, AdmissionInv, TypeOK
  <2>2. DOMAIN writes = 1..Len(writes)
    BY DEF AdmissionInv, TypeOK
  <2> QED BY <2>1, <2>2 DEF Token, Given
<1> DEFINE u == [Away EXCEPT !.pc = "hash", !.path = p, !.strict = strict, !.fresh = fresh,
                             !.token = file[p]]
<1>2. u \in Task /\ u.pc = "hash" /\ u.path = p /\ u.token = file[p]
  BY <1>1 DEF Away, Task
<1> HIDE DEF u
<1>3. Observed(u) /\ Handled(u) /\ Authentic(u) /\ Checked(u)
  BY <1>1, <1>2 DEF Observed, Handled, Authentic, Checked, Left, Hashed, Opened, Token
<1> QED BY <1>2, <1>3, LookKeeps DEF Begin, u

(* The digest or the receipt is of the token the path still has.           *)
LEMMA HashKeeps == ASSUME Given, AdmissionInv, NEW t \in Threads, Hash(t) PROVE AdmissionInv'
<1> DEFINE p == task[t].path
           asks == p \in Managed /\ ~task[t].fresh
           reused == asks /\ Proven(Valid(receipts), p, task[t].strict)
           matches == p \in Custom \/ reused \/ (file[p] # 0 /\ Seen(file[p]) = "expected")
           u == [task[t] EXCEPT !.pc = "open", !.reused = reused]
<1>1. /\ task[t].pc = "hash" /\ UNCHANGED <<writes, file, stamps, levels>>
      /\ receipts' \subseteq receipts
  BY DEF Hash, Valid
<1>2. CASE Fail(t)
  BY <1>1, <1>2, FailKeeps
<1>3. CASE /\ task' = [task EXCEPT ![t] = u]
           /\ matches /\ (p \in Managed => Current(p, task[t].token))
  <2>1. task[t] \in Task /\ p \in Paths /\ Observed(task[t])
    BY DEF AdmissionInv, TypeOK, Knows, Task
  <2>2. /\ u \in Task /\ u.pc = "open" /\ u.path = p /\ u.token = task[t].token
        /\ u.reused = reused /\ u.strict = task[t].strict
    BY <2>1 DEF Task
  <2>3. Observed(u) /\ Handled(u)
    BY <1>1, <2>1, <2>2 DEF Observed, Handled, Opened
  <2>4. Checked(u)
    BY <2>2 DEF Checked, Hashed, Given
  <2>5. ASSUME p \in Managed PROVE writes[task[t].token].bytes = "expected"
    <3>1. file[p] = task[t].token
      BY <1>3, <2>5 DEF Current
    <3>2. CASE reused
      BY <3>1, <3>2 DEF Proven, Proves, Valid, Current, AdmissionInv, ProofsAreTrue
    <3>3. CASE file[p] # 0 /\ Seen(file[p]) = "expected"
      BY <2>1, <3>1, <3>3, SeenIsLast
    <3> QED BY <1>3, <2>5, <3>2, <3>3 DEF Given
  <2>6. ASSUME reused, task[t].strict PROVE p \notin Rotten
    BY <2>6 DEF Proven, Proves, Valid, AdmissionInv, ProofsAreTrue
  <2>7. Authentic(u)
    BY <2>2, <2>5, <2>6 DEF Authentic
  <2> HIDE DEF u
  <2> QED BY <1>1, <1>3, <2>2, <2>3, <2>4, <2>7, LookKeeps
<1> QED
  <2>1. task' = [task EXCEPT ![t].pc = "open", ![t].reused = reused] => task' = [task EXCEPT ![t] = u]
    BY DEF AdmissionInv, TypeOK
  <2> QED BY <1>2, <1>3, <2>1 DEF Hash

(* A handle is of the file the path has, and of no other path.             *)
LEMMA OpenKeeps == ASSUME Given, AdmissionInv, NEW t \in Threads, Open(t) PROVE AdmissionInv'
<1> DEFINE p == task[t].path
           u == [task[t] EXCEPT !.pc = "check", !.handle = file[p]]
<1>1. task[t].pc = "open" /\ UNCHANGED <<writes, file, stamps, receipts>>
  BY DEF Open
<1>2. CASE Fail(t) /\ UNCHANGED levels
  BY <1>1, <1>2, FailKeeps
<1>3. CASE /\ file[p] # 0 /\ task' = [task EXCEPT ![t] = u]
           /\ \E l \in {0, levels[file[p]]} : levels' = [levels EXCEPT ![file[p]] = l]
  <2>1. task[t] \in Task /\ p \in Paths /\ Knows(t)
    BY DEF AdmissionInv, TypeOK, Task
  <2>2. file[p] \in DOMAIN writes /\ file[p] \in Token
    <3>1. file[p] \in 1..Len(writes) /\ Len(writes) <= MaxWrites /\ Len(writes) \in Nat
      BY <1>3, <2>1 DEF AdmissionInv, TypeOK
    <3>2. DOMAIN writes = 1..Len(writes)
      BY DEF AdmissionInv, TypeOK
    <3> QED BY <3>1, <3>2 DEF Token, Given
  <2>3. /\ u \in Task /\ u.pc = "check" /\ u.path = p /\ u.token = task[t].token
        /\ u.handle = file[p] /\ u.reused = task[t].reused /\ u.strict = task[t].strict
    BY <2>1, <2>2 DEF Task
  <2> HIDE DEF u
  <2>4. \A q \in Paths \ {p} : file[q] # file[p]
    BY <1>3, <2>1 DEF AdmissionInv, Files
  <2>5. Observed(u) /\ Handled(u)
    BY <1>1, <1>3, <2>1, <2>2, <2>3, <2>4 DEF Knows, Observed, Handled, Left, Token
  <2>6. Authentic(u) /\ Checked(u)
    BY <1>1, <2>1, <2>3 DEF Knows, Authentic, Checked, Hashed
  <2>7. levels \in [Token -> 0..2]
    BY DEF AdmissionInv, TypeOK
  <2>8. levels' \in [Token -> 0..2] /\ \A n \in Token : levels'[n] \in {0, levels[n]}
    BY <1>3, <2>2, <2>7
  <2>9. TypeOK'
    BY <1>1, <1>3, <2>3, <2>8 DEF AdmissionInv, TypeOK
  <2>10. Levels'
    <3>1. \A q \in Custom : file[q] # 0 => file[q] \in Token
      BY DEF AdmissionInv, TypeOK, Paths, Token, Given
    <3> QED BY <1>1, <2>8, <3>1 DEF AdmissionInv, Levels, Sound
  <2>11. Receipts' /\ ProofsAreTrue'
    BY <1>1 DEF AdmissionInv, Receipts, ProofsAreTrue
  <2> QED BY <1>1, <1>3, <2>3, <2>5, <2>6, <2>9, <2>10, <2>11, ThreadKeeps
<1> QED
  <2>1. task' = [task EXCEPT ![t].pc = "check", ![t].handle = file[p]] => task' = [task EXCEPT ![t] = u]
    BY DEF AdmissionInv, TypeOK
  <2> QED BY <1>2, <1>3, <2>1 DEF Open

(* A check tells something of the bytes at the token only while the path   *)
(* still has it, and then it has seen these bytes.                         *)
LEMMA CheckKeeps == ASSUME Given, AdmissionInv, NEW t \in Threads, Check(t) PROVE AdmissionInv'
<1> DEFINE p == task[t].path
           token == task[t].handle
           level == IF task[t].strict THEN 2 ELSE 1
           full == p \in Managed /\ ~task[t].reused /\ Full(t)
           good == IF p \in Custom
                   THEN Done(token, level) \/ IF task[t].strict THEN Sound(p, Seen(token))
                                              ELSE Quick(Seen(token))
                   ELSE full => Sound(p, Seen(token))
           u == [task[t] EXCEPT !.pc = "done", !.full = full]
<1>1. task[t].pc = "check" /\ UNCHANGED <<writes, file, stamps, receipts>>
  BY DEF Check
<1>2. CASE Fail(t) /\ UNCHANGED levels
  BY <1>1, <1>2, FailKeeps
<1>3. CASE /\ good /\ task' = [task EXCEPT ![t] = u]
           /\ levels' = IF p \in Custom /\ levels[token] < level
                        THEN [levels EXCEPT ![token] = level] ELSE levels
  <2>1. task[t] \in Task /\ p \in Paths /\ Knows(t) /\ (p \in Managed <=> p \notin Custom)
    BY DEF AdmissionInv, TypeOK, Task, Paths, Given
  <2>2. /\ token \in DOMAIN writes /\ token \in Token
        /\ \A q \in Paths \ {p} : file[q] # token
    <3>1. token \in DOMAIN writes /\ \A q \in Paths \ {p} : file[q] # token
      BY <1>1, <2>1 DEF Knows, Handled, Opened
    <3>2. DOMAIN writes \subseteq Token
      BY DEF AdmissionInv, TypeOK, Token, Given
    <3> QED BY <3>1, <3>2
  <2>3. file[p] = token => Seen(token) = writes[token].bytes
    <3>1. token # 0
      BY <2>2 DEF Token
    <3> QED BY <2>1, <3>1, SeenIsLast
  <2>4. full \in BOOLEAN
    OBVIOUS
  <2>5. /\ u \in Task /\ u.pc = "done" /\ u.path = p /\ u.token = task[t].token
        /\ u.handle = token /\ u.reused = task[t].reused /\ u.strict = task[t].strict
        /\ u.full = full
    BY <2>1, <2>4 DEF Task
  <2>6. Observed(u) /\ Handled(u) /\ Authentic(u)
    BY <1>1, <2>1, <2>5 DEF Knows, Observed, Handled, Authentic, Hashed, Opened
  <2>7. levels \in [Token -> 0..2]
    BY DEF AdmissionInv, TypeOK
  <2>8. ASSUME file[p] = token, task[t].strict, ~task[t].reused
        PROVE  Sound(p, writes[token].bytes)
    <3>1. CASE p \in Managed
      BY <1>3, <2>1, <2>3, <2>8, <3>1 DEF Full
    <3>2. CASE p \in Custom
      <4>1. Done(token, 2) \/ Sound(p, Seen(token))
        BY <1>3, <2>8, <3>2
      <4>2. levels[token] = 2 => Sound(p, writes[token].bytes)
        BY <2>2, <2>8, <3>2 DEF AdmissionInv, Levels, Token
      <4> QED BY <2>2, <2>3, <2>7, <2>8, <4>1, <4>2 DEF Done
    <3> QED BY <2>1, <3>1, <3>2
  <2>9. ASSUME file[p] = token, full PROVE Sound(p, writes[token].bytes)
    BY <1>3, <2>1, <2>3, <2>9
  <2>10. Checked(u)
    BY <2>1, <2>5, <2>8, <2>9, <1>1 DEF Checked, Knows, Hashed
  <2>11. Levels'
    <3>1. CASE levels' = levels
      BY <1>1, <3>1 DEF AdmissionInv, Levels, Sound
    <3>2. CASE p \in Custom /\ levels[token] < level /\ levels' = [levels EXCEPT ![token] = level]
      <4>1. levels'[token] = level /\ \A n \in Token \ {token} : levels'[n] = levels[n]
        BY <2>2, <2>7, <3>2
      <4>2. level = 2 => Sound(p, Seen(token))
        BY <1>3, <2>2, <2>7, <3>2 DEF Done
      <4>3. \A n \in Token : n > Len(writes) => levels'[n] = 0
        BY <2>2, <4>1 DEF AdmissionInv, Levels, TypeOK, Token
      <4>4. \A q \in Custom : file[q] # 0 => file[q] \in Token /\ q \in Paths
        BY DEF AdmissionInv, TypeOK, Paths, Token, Given
      <4>5. ASSUME NEW q \in Custom, file[q] # 0, levels'[file[q]] = 2
            PROVE  Sound(q, writes[file[q]].bytes)
        <5>1. CASE file[q] = token
          BY <2>1, <2>2, <2>3, <4>1, <4>2, <4>4, <4>5, <5>1
        <5>2. CASE file[q] # token
          BY <4>1, <4>4, <4>5, <5>2 DEF AdmissionInv, Levels
        <5> QED BY <5>1, <5>2
      <4> QED BY <1>1, <4>3, <4>5 DEF Levels, Sound
    <3> QED BY <1>3, <3>1, <3>2
  <2>12. levels' \in [Token -> 0..2]
    <3>1. level \in 0..2
      OBVIOUS
    <3> HIDE DEF level
    <3> QED BY <1>3, <2>7, <3>1
  <2> HIDE DEF u
  <2>13. TypeOK'
    BY <1>1, <1>3, <2>5, <2>12 DEF AdmissionInv, TypeOK
  <2>14. Receipts' /\ ProofsAreTrue'
    BY <1>1 DEF AdmissionInv, Receipts, ProofsAreTrue
  <2> HIDE DEF p, token, level, full, good
  <2> QED BY <1>1, <1>3, <2>5, <2>6, <2>10, <2>11, <2>13, <2>14, ThreadKeeps
<1> QED
  <2>1. task' = [task EXCEPT ![t].pc = "done", ![t].full = full] => task' = [task EXCEPT ![t] = u]
    BY DEF AdmissionInv, TypeOK
  <2> QED BY <1>2, <1>3, <2>1 DEF Check

(* What is admitted had the token all the time.                            *)
LEMMA AdmitKeeps == ASSUME Given, AdmissionInv, NEW t \in Threads, Admit(t) PROVE AdmissionInv'
<1> DEFINE p == task[t].path
           token == task[t].token
           proof == p \in Managed /\ ~task[t].reused
           u == [task[t] EXCEPT !.pc = "using"]
<1>1. task[t].pc = "done" /\ UNCHANGED <<writes, file, levels>>
  BY DEF Admit
<1>2. CASE Fail(t) /\ UNCHANGED <<stamps, receipts>>
  BY <1>1, <1>2, FailKeeps
<1>3. CASE /\ Unchanged(t) /\ task' = [task EXCEPT ![t] = u]
           /\ stamps' = stamps \/ (proof /\ task[t].full /\ stamps' = stamps \cup {p})
           /\ IF proof THEN Remember(p, token, task[t].full) ELSE UNCHANGED receipts
  <2>1. task[t] \in Task /\ p \in Paths /\ Knows(t)
    BY DEF AdmissionInv, TypeOK, Task
  <2>2. token \in DOMAIN writes /\ token \in Token /\ file[p] = token /\ task[t].handle = token
    <3>1. token \in DOMAIN writes /\ file[p] = token
      BY <1>1, <1>3, <2>1 DEF Knows, Observed, Unchanged, Current
    <3>2. DOMAIN writes \subseteq Token
      BY DEF AdmissionInv, TypeOK, Token, Given
    <3>3. task[t].handle >= token /\ Left(p, task[t].handle)
      BY <1>1, <2>1 DEF Knows, Handled, Opened
    <3> QED BY <2>1, <3>1, <3>2, <3>3 DEF Left, Token, Task
  <2>3. /\ u \in Task /\ u.pc = "using" /\ u.path = p /\ u.token = token /\ u.handle = token
        /\ u.reused = task[t].reused /\ u.strict = task[t].strict
    BY <2>1, <2>2 DEF Task
  <2> HIDE DEF u
  <2>4. Observed(u) /\ Handled(u) /\ Authentic(u)
    BY <1>1, <2>1, <2>2, <2>3 DEF Knows, Observed, Handled, Authentic, Hashed, Opened
  <2>5. p \in Managed => writes[token].bytes = "expected" /\ (u.reused /\ u.strict => p \notin Rotten)
    BY <2>3, <2>4 DEF Authentic, Hashed
  <2>6. p \in Custom => ~u.reused
    BY <1>1, <2>1, <2>3 DEF Knows, Checked, Hashed
  <2>7. u.strict => Sound(p, writes[token].bytes)
    BY <1>1, <2>1, <2>2, <2>3, <2>5, <2>6 DEF Knows, Checked, Sound, Paths
  <2>8. Checked(u)
    BY <2>3, <2>6, <2>7 DEF Checked
  <2>9. task[t].full /\ proof => p \notin Rotten
    BY <1>1, <2>1, <2>2, <2>5 DEF Knows, Checked, Sound
  <2>10. stamps' \subseteq Managed /\ stamps' \cap Rotten = {}
    BY <1>3, <2>9 DEF AdmissionInv, TypeOK, ProofsAreTrue
  <2>11. ASSUME NEW r \in receipts', r \notin receipts
         PROVE  r = [path |-> p, token |-> token, full |-> task[t].full] /\ proof
    BY <1>3, <2>11 DEF Remember, Room, kSubset, Without, Valid
  <2>12. ASSUME NEW r \in receipts'
         PROVE  /\ r \in Receipt /\ r.token \in DOMAIN writes /\ writes[r.token].bytes = "expected"
                /\ r.full => r.path \notin Rotten
    <3>1. CASE r \in receipts
      BY <3>1 DEF AdmissionInv, TypeOK, Receipts, ProofsAreTrue
    <3>2. CASE r \notin receipts
      BY <2>1, <2>2, <2>5, <2>9, <2>11, <3>2 DEF Receipt, Task
    <3> QED BY <3>1, <3>2
  <2>13. TypeOK'
    BY <1>1, <1>3, <2>3, <2>10, <2>12 DEF AdmissionInv, TypeOK
  <2>14. Levels' /\ Receipts' /\ ProofsAreTrue'
    BY <1>1, <2>10, <2>12 DEF AdmissionInv, Levels, Sound, Receipts, ProofsAreTrue
  <2> QED BY <1>1, <1>3, <2>3, <2>4, <2>8, <2>13, <2>14, ThreadKeeps
<1> QED
  <2>1. task' = [task EXCEPT ![t].pc = "using"] => task' = [task EXCEPT ![t] = u]
    BY DEF AdmissionInv, TypeOK
  <2> QED BY <1>2, <1>3, <2>1 DEF Admit

-----------------------------------------------------------------------------
(* The invariant is inductive.                                             *)

LEMMA AdmissionStep == ASSUME Given, AdmissionInv, [Next]_vars PROVE AdmissionInv'
<1>1. ASSUME UNCHANGED vars PROVE AdmissionInv'
  BY <1>1, RemovalKeeps DEF vars
<1> QED
  BY <1>1, ReplaceKeeps, PruneKeeps, BeginKeeps, HashKeeps, OpenKeeps, CheckKeeps, AdmitKeeps,
     CloseKeeps DEF Next, Step

LEMMA AdmissionAlways == ASSUME Given PROVE Spec => []AdmissionInv
<1>1. Init => AdmissionInv
  BY AdmissionInit
<1>2. AdmissionInv /\ [Next]_vars => AdmissionInv'
  BY AdmissionStep
<1> QED BY <1>1, <1>2, PTL DEF Spec

-----------------------------------------------------------------------------
(* What an admission is worth.                                             *)

(* Tokens, stamps, receipts and tasks of admission.rs keep their types.    *)
THEOREM TypeCorrect == ASSUME Given PROVE Spec => []TypeOK
<1>1. AdmissionInv => TypeOK
  BY DEF AdmissionInv
<1> QED BY <1>1, AdmissionAlways, PTL

(* Whatever is replaced, rewritten or removed between the steps of admit   *)
(* (admission.rs), and whichever receipt, stamp or shared handle makes it  *)
(* shorter, the database that is used is the one that was vouched for.     *)
THEOREM AdmittedIsVouched == ASSUME Given PROVE Spec => []Vouched
<1>1. AdmissionInv => Vouched
  <2> SUFFICES ASSUME AdmissionInv, NEW t \in Threads, task[t].pc = "using"
               PROVE  /\ task[t].handle = task[t].token
                      /\ task[t].path \in Managed => writes[task[t].token].bytes = "expected"
                      /\ task[t].strict => Sound(task[t].path, writes[task[t].token].bytes)
    BY DEF Vouched
  <2>1. Knows(t)
    BY DEF AdmissionInv
  <2> QED BY <2>1 DEF Knows, Handled, Authentic, Checked, Hashed
<1> QED BY <1>1, AdmissionAlways, PTL

(* A stamp (validation_stamp.rs) and a receipt (remember_proof of          *)
(* validation.rs) are written only after the last look at the file, so     *)
(* what they say of a digest is true and makes later admissions no weaker. *)
THEOREM RecordsAreTrue == ASSUME Given PROVE Spec => []ProofsAreTrue
<1>1. AdmissionInv => ProofsAreTrue
  BY DEF AdmissionInv
<1> QED BY <1>1, AdmissionAlways, PTL

(* remember_proof drops what is stale, what is of the same path, and as    *)
(* many more as the limit wants, whichever these are.                      *)
THEOREM PinsStayBounded == ASSUME Given PROVE Spec => []PinsAreBounded
<1> DEFINE Bounded == IsFiniteSet(receipts) /\ PinsAreBounded
<1>1. Init => Bounded
  BY FS_EmptySet DEF Init, PinsAreBounded, Given
<1>2. Bounded /\ [Next]_vars => Bounded'
  <2> SUFFICES ASSUME IsFiniteSet(receipts), PinsAreBounded, [Next]_vars
               PROVE  IsFiniteSet(receipts)' /\ PinsAreBounded'
    OBVIOUS
  <2>1. ASSUME NEW kept, kept \subseteq receipts
        PROVE  IsFiniteSet(kept) /\ Cardinality(kept) \in Nat /\ Cardinality(kept) <= Limit
    <3>1. IsFiniteSet(kept) /\ Cardinality(kept) <= Cardinality(receipts)
      BY <2>1, FS_Subset
    <3> QED BY <3>1, FS_CardinalityType DEF PinsAreBounded, Given
  <2>2. CASE receipts' \subseteq receipts
    <3>1. IsFiniteSet(receipts') /\ Cardinality(receipts') <= Limit
      BY <2>1, <2>2
    <3> QED BY <2>2, <3>1 DEF PinsAreBounded
  <2>3. ASSUME NEW p, NEW token, NEW full, Remember(p, token, full)
        PROVE  IsFiniteSet(receipts)' /\ PinsAreBounded'
    <3> DEFINE new == [path |-> p, token |-> token, full |-> full]
               others == Without(p, Valid(receipts))
    <3>1. PICK kept \in Room(others) : receipts' = kept \cup {new}
      BY <2>3 DEF Remember
    <3>2. others \subseteq receipts /\ \A r \in others : r.path # p
      BY DEF Without, Valid
    <3>3. kept \subseteq others
      BY <3>1 DEF Room, kSubset
    <3>4. IsFiniteSet(kept) /\ Cardinality(kept) \in Nat
      BY <2>1, <3>2, <3>3
    <3>5. Cardinality(kept) < Limit
      BY <3>1, <3>4 DEF Room, kSubset, Given
    <3> HIDE DEF new
    <3>6. IsFiniteSet(receipts') /\ Cardinality(receipts') <= Cardinality(kept) + 1
      <4>1. /\ IsFiniteSet(kept \cup {new})
            /\ Cardinality(kept \cup {new}) = IF new \in kept THEN Cardinality(kept)
                                              ELSE Cardinality(kept) + 1
        BY <3>4, FS_AddElement
      <4> QED BY <3>1, <3>4, <4>1
    <3>7. Cardinality(receipts') <= Limit
      BY <3>4, <3>5, <3>6, FS_CardinalityType DEF Given
    <3>8. \A r, s \in receipts' : r.path = s.path => r = s
      BY <3>1, <3>2, <3>3 DEF PinsAreBounded, new
    <3> QED BY <3>6, <3>7, <3>8 DEF PinsAreBounded
  <2>4. (receipts' \subseteq receipts) \/ \E p, token, full : Remember(p, token, full)
    BY DEF Next, vars, Replace, Rewrite, PruneElsewhere, Prune, Forgets, Without, Begin, Step, Hash,
       Valid, Open, Check, Admit, Close
  <2> QED BY <2>2, <2>3, <2>4
<1>3. Bounded => PinsAreBounded
  OBVIOUS
<1> QED BY <1>1, <1>2, <1>3, PTL DEF Spec
=============================================================================
