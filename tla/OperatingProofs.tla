-------------------------- MODULE OperatingProofs --------------------------
(***************************************************************************)
(* Proofs about the program as it is operated.                             *)
(* The directory lease.  While no process stops between two system calls   *)
(* for as long as the grace, and of the processes that found an expired    *)
(* lock one moves it away before another has come as far, the lease is a   *)
(* lock: the maker of the directory is the only process past acquisition,  *)
(* and what a contender takes away belonged to a killed process.  Without  *)
(* kills the second condition holds by itself.                             *)
(* The source marker: who may put data into a directory, and read it.      *)
(* The configuration: reloads of a running server, and edits of its file.  *)
(* The scheduler: what runs and what is tried again.                       *)
(* Local administration: who owns the path, what is worked on, and who     *)
(* carries out a command.                                                  *)
(***************************************************************************)
EXTENDS ActivationLock, Integers, Sequences, FiniteSets, SequenceTheorems, FiniteSetTheorems, TLAPS

(* The inductive invariant.  The path is free, or its directory belongs to *)
(* the one process that holds, or to a killed one; the lease of a living   *)
(* process is only old while it runs; a contender that found no owner file *)
(* sees a young lock or an orphan; and only an orphan is about to be moved *)
(* away.                                                                   *)
LeaseInv ==
  /\ TypeOK
  /\ OneHolder
  /\ lock.exists => lock.maker = Dead \/ (lock.maker \in Procs /\ Holding(lock.maker))
  /\ ~lock.exists => lock = Free
  /\ lock.maker # Dead => lock.age # "stale"
  /\ lock.maker # Dead /\ lock.age = "graced" => pc[lock.maker] \in {"run", "verify", "unlink"}
  /\ \A p \in Procs : pc[p] = "rename" => lock.exists /\ lock.maker = Dead
  /\ \A p \in Procs : pc[p] = "measure" /\ saw[p] /\ lock.maker # Dead => lock.age = "fresh"
  /\ \A p \in beating : pc[p] = "run"

(* Everything the program writes keeps its declared type.                  *)
THEOREM TypeCorrect == Spec => []TypeOK
<1>1. Init => TypeOK
  BY DEF Init, TypeOK, Lock, Free, Tokens, Ages, Pcs
<1>2. TypeOK /\ [Next]_vars => TypeOK'
  <2> SUFFICES ASSUME TypeOK, [Next]_vars PROVE TypeOK'
    OBVIOUS
  <2> USE DEF TypeOK, Lock, Tokens, Ages, Pcs, Goto
  <2>1. ASSUME NEW p \in Procs, Want(p) \/ Cancelled(p) PROVE TypeOK'
    BY <2>1 DEF Want, Cancelled
  <2>2. ASSUME NEW p \in Procs, Contend(p) PROVE TypeOK'
    <3>1. CASE Mkdir(p)
      <4>1. CASE lock.exists
        BY <3>1, <4>1 DEF Mkdir
      <4>2. CASE ~lock.exists
        <5>1. lock' = [exists |-> TRUE, owner |-> NoOwner, maker |-> p, age |-> "fresh"]
          BY <3>1, <4>2 DEF Mkdir
        <5>2. pc' = [pc EXCEPT ![p] = "write"]
          BY <3>1, <4>2 DEF Mkdir
        <5> QED
          BY <3>1, <5>1, <5>2 DEF Mkdir
      <4> QED
        BY <4>1, <4>2
    <3>2. CASE Stat(p) \/ Poll(p)
      BY <3>2 DEF Stat, Poll
    <3>3. CASE Probe(p)
      BY <3>3 DEF Probe
    <3>4. CASE Measure(p)
      BY <3>4 DEF Measure
    <3>5. CASE Reclaim(p)
      BY <3>5 DEF Reclaim, Free
    <3> QED
      BY <2>2, <3>1, <3>2, <3>3, <3>4, <3>5 DEF Contend
  <2>3. ASSUME NEW p \in Procs, Finish(p) \/ EndRun(p) PROVE TypeOK'
    <3>1. CASE WriteOwner(p)
      <4>1. lock' \in Lock
        BY <3>1 DEF WriteOwner
      <4> QED
        BY <3>1, <4>1 DEF WriteOwner
    <3>2. CASE BeatTouch(p)
      BY <3>2 DEF BeatTouch
    <3>3. CASE EndRun(p) \/ VerifyOwner(p)
      BY <3>3 DEF EndRun, VerifyOwner
    <3>4. CASE Unlink(p)
      BY <3>4 DEF Unlink
    <3>5. CASE Rmdir(p)
      BY <3>5 DEF Rmdir, Free
    <3> QED
      BY <2>3, <3>1, <3>2, <3>3, <3>4, <3>5 DEF Finish
  <2>4. ASSUME NEW p \in Procs, BeatRead(p) PROVE TypeOK'
    BY <2>4 DEF BeatRead
  <2>5. ASSUME NEW p \in Procs, Crash(p) PROVE TypeOK'
    <3>1. lock' \in Lock
      <4> DEFINE owner == IF lock.owner = p THEN Dead ELSE lock.owner
                 maker == IF lock.maker = p THEN Dead ELSE lock.maker
      <4>1. owner \in Tokens /\ maker \in Tokens
        OBVIOUS
      <4>2. lock' = [lock EXCEPT !.owner = owner, !.maker = maker]
        BY <2>5 DEF Crash
      <4> HIDE DEF owner, maker
      <4> QED
        BY <4>1, <4>2
    <3> QED
      BY <2>5, <3>1 DEF Crash
  <2>6. CASE Age
    BY <2>6 DEF Age
  <2>7. CASE UNCHANGED vars
    BY <2>7 DEF vars
  <2> QED
    BY <2>1, <2>2, <2>3, <2>4, <2>5, <2>6, <2>7 DEF Next
<1> QED
  BY <1>1, <1>2, PTL DEF Spec

(* The invariant is kept by every step of a system without suspensions.    *)
LEMMA LeaseInductive ==
  ASSUME ~Suspends, LeaseInv, OneReclaimer, [Next]_vars, TypeOK'
  PROVE  LeaseInv'
<1> USE ProcsAssumption DEF LeaseInv, OneHolder, Holding, Goto, Free
<1>1. ASSUME NEW p \in Procs, Want(p) \/ Cancelled(p) PROVE LeaseInv'
  BY <1>1 DEF Want, Cancelled, TypeOK
<1>2. ASSUME NEW p \in Procs, Mkdir(p) PROVE LeaseInv'
  <2>1. CASE lock.exists
    BY <1>2, <2>1 DEF Mkdir, TypeOK
  <2>2. CASE ~lock.exists
    <3>1. /\ lock' = [exists |-> TRUE, owner |-> NoOwner, maker |-> p, age |-> "fresh"]
          /\ pc' = [pc EXCEPT ![p] = "write"] /\ pc[p] = "mkdir"
          /\ UNCHANGED <<saw, beating, crashes>>
      BY <1>2, <2>2 DEF Mkdir
    <3>2. p # Dead /\ p # NoOwner
      OBVIOUS
    <3> QED
      BY <2>2, <3>1, <3>2 DEF TypeOK
  <2> QED
    BY <2>1, <2>2
<1>3. ASSUME NEW p \in Procs, Stat(p) \/ Poll(p) PROVE LeaseInv'
  BY <1>3 DEF Stat, Poll, TypeOK
<1>4. ASSUME NEW p \in Procs, Probe(p) PROVE LeaseInv'
  <2>1. lock.owner = NoOwner /\ lock.maker # Dead => lock.age = "fresh"
    <3> SUFFICES ASSUME lock.owner = NoOwner, lock.maker # Dead, lock.age = "graced" PROVE FALSE
      BY DEF TypeOK, Lock, Ages
    <3>1. lock.exists
      OBVIOUS
    <3>2. lock.maker \in Procs /\ pc[lock.maker] \in {"run", "verify", "unlink"}
      BY <3>1
    <3>3. lock.owner = lock.maker
      BY <3>2
    <3> QED
      BY <3>2, <3>3
  <2>2. /\ UNCHANGED <<lock, beating, crashes>>
        /\ pc[p] = "probe" /\ pc' = [pc EXCEPT ![p] = "measure"]
        /\ saw' = [saw EXCEPT ![p] = lock.owner = NoOwner]
    BY <1>4 DEF Probe
  <2>3. ASSUME NEW q \in Procs, pc'[q] = "measure", saw'[q], lock.maker # Dead
        PROVE lock.age = "fresh"
    <3>1. CASE q = p
      <4>1. saw'[q] = (lock.owner = NoOwner)
        BY <2>2, <3>1 DEF TypeOK
      <4> QED
        BY <2>1, <2>3, <4>1
    <3>2. CASE q # p
      BY <2>2, <2>3, <3>2 DEF TypeOK
    <3> QED
      BY <3>1, <3>2
  <2> HIDE DEF Holding
  <2>4. \A q \in Procs : (pc'[q] = "rename" <=> pc[q] = "rename") /\ (Holding(q)' <=> Holding(q))
    BY <2>2 DEF TypeOK, Holding
  <2>5. OneHolder'
    BY <2>2, <2>4 DEF TypeOK
  <2> QED
    BY <2>2, <2>3, <2>4, <2>5 DEF TypeOK
<1>5. ASSUME NEW p \in Procs, Measure(p) PROVE LeaseInv'
  BY <1>5 DEF Measure, Expired, TypeOK
<1>6. ASSUME NEW p \in Procs, Reclaim(p) PROVE LeaseInv'
  <2>1. /\ lock.exists /\ lock.maker = Dead /\ lock' = Free
        /\ pc[p] = "rename" /\ pc' = [pc EXCEPT ![p] = "mkdir"]
        /\ UNCHANGED <<saw, beating, crashes>>
    BY <1>6 DEF Reclaim
  <2>2. \A q \in Procs : pc[q] = "rename" => q = p
    BY <2>1 DEF OneReclaimer
  <2>3. \A q \in Procs : ~Holding(q)
    BY <2>1
  <2> QED
    BY <2>1, <2>2, <2>3 DEF TypeOK
<1>7. ASSUME NEW p \in Procs, WriteOwner(p) PROVE LeaseInv'
  <2> USE <1>7 DEF WriteOwner, TypeOK, Lock
  <2>1. /\ lock.exists /\ lock.maker = p
        /\ \A q \in Procs : Holding(q) => q = p
    OBVIOUS
  <2>2. CASE lock' = [lock EXCEPT !.owner = p, !.age = "fresh"] /\ Goto(p, "run")
    BY <2>1, <2>2
  <2>3. CASE UNCHANGED lock /\ Goto(p, "undo")
    BY <2>1, <2>3
  <2>4. CASE lock' = [lock EXCEPT !.owner = Dead, !.age = "fresh"] /\ Goto(p, "undo")
    BY <2>1, <2>4
  <2> QED
    BY <2>2, <2>3, <2>4
<1>8. ASSUME NEW p \in Procs, BeatTouch(p) PROVE LeaseInv'
  BY <1>8 DEF BeatTouch, TypeOK, Lock
<1>9. ASSUME NEW p \in Procs, EndRun(p) PROVE LeaseInv'
  BY <1>9 DEF EndRun, TypeOK
<1>10. ASSUME NEW p \in Procs, VerifyOwner(p) PROVE LeaseInv'
  BY <1>10 DEF VerifyOwner, TypeOK
<1>11. ASSUME NEW p \in Procs, Unlink(p) PROVE LeaseInv'
  BY <1>11 DEF Unlink, TypeOK, Lock
<1>12. ASSUME NEW p \in Procs, Rmdir(p) PROVE LeaseInv'
  BY <1>12 DEF Rmdir, TypeOK, Lock
<1>13. ASSUME NEW p \in Procs, BeatRead(p) PROVE LeaseInv'
  BY <1>13 DEF BeatRead, TypeOK
<1>14. ASSUME NEW p \in Procs, Crash(p) PROVE LeaseInv'
  <2>1. /\ pc' = [pc EXCEPT ![p] = "idle"] /\ beating' = beating \ {p} /\ saw' = saw
        /\ lock'.exists = lock.exists /\ lock'.age = lock.age
        /\ lock'.owner = IF lock.owner = p THEN Dead ELSE lock.owner
        /\ lock'.maker = IF lock.maker = p THEN Dead ELSE lock.maker
    BY <1>14 DEF Crash, TypeOK, Lock
  <2>2. ~lock.exists => lock' = lock
    <3> SUFFICES ASSUME lock = Free PROVE lock' = lock
      OBVIOUS
    <3>1. lock.owner # p /\ lock.maker # p
      OBVIOUS
    <3> QED
      BY <1>14, <3>1 DEF Crash
  <2>3. OneHolder'
    BY <2>1 DEF TypeOK
  <2> QED
    BY <2>1, <2>2, <2>3 DEF TypeOK
<1>15. CASE Age
  BY <1>15 DEF Age, AtRest, Alive, TypeOK, Lock, Ages
<1>16. CASE UNCHANGED vars
  BY <1>16 DEF vars, TypeOK
<1> QED
  BY <1>1, <1>2, <1>3, <1>4, <1>5, <1>6, <1>7, <1>8, <1>9, <1>10, <1>11, <1>12,
     <1>13, <1>14, <1>15, <1>16 DEF Next, Contend, Finish

LEMMA LeaseInit == Init => LeaseInv
BY ProcsAssumption DEF Init, LeaseInv, TypeOK, OneHolder, Holding, Lock, Free, Tokens, Ages, Pcs

(* The lease invariant, with any number of kills: between mkdir and rmdir  *)
(* exactly one process is past acquisition, in its own directory, and a    *)
(* contender only moves away what a killed process left.                   *)
THEOREM LeaseIsALock == ASSUME ~Suspends PROVE Spec /\ []OneReclaimer => []LeaseInv
<1>1. LeaseInv /\ OneReclaimer /\ [Next]_vars /\ TypeOK' => LeaseInv'
  BY LeaseInductive
<1> QED
  BY <1>1, LeaseInit, TypeCorrect, PTL DEF Spec

(* While the directory exists it belongs to one process, and its owner file *)
(* names nobody else, whatever is killed (activation.rs, acquire and       *)
(* release).                                                               *)
THEOREM HolderIsAlone == ASSUME ~Suspends PROVE Spec /\ []OneReclaimer => []OneHolder
<1>1. LeaseInv => OneHolder
  BY DEF LeaseInv
<1> QED
  BY <1>1, LeaseIsALock, PTL

(* The lock does what it is for: two processes never run the protected     *)
(* work at the same time, however many contend and are killed.             *)
THEOREM Exclusion == ASSUME ~Suspends PROVE Spec /\ []OneReclaimer => []MutualExclusion
<1>1. LeaseInv => MutualExclusion
  BY ProcsAssumption DEF LeaseInv, OneHolder, Holding, MutualExclusion
<1> QED
  BY <1>1, LeaseIsALock, PTL

(* While nobody is killed no lock expires, so nobody is about to move one  *)
(* away and the condition of the theorems above holds by itself.           *)
THEOREM OrphansNeedAKill ==
  ASSUME ~Suspends, MaxCrashes = 0 PROVE Spec => [](OneReclaimer /\ LeaseInv)
<1> DEFINE Steady == LeaseInv /\ lock.maker # Dead
<1>1. Init => Steady
  BY LeaseInit DEF Init, Free, NoOwner, Dead
<1>2. Steady => OneReclaimer
  BY DEF LeaseInv, OneReclaimer
<1>3. Steady /\ [Next]_vars /\ TypeOK' => Steady'
  <2> SUFFICES ASSUME Steady, [Next]_vars, TypeOK' PROVE Steady'
    OBVIOUS
  <2>1. LeaseInv'
    BY <1>2, LeaseInductive
  <2>2. lock'.maker # Dead
    <3>1. \A p \in Procs : ~Crash(p)
      BY DEF Crash, LeaseInv, TypeOK
    <3>2. ASSUME NEW p \in Procs, Contend(p) PROVE lock'.maker # Dead
      BY <3>2, ProcsAssumption
         DEF Contend, Mkdir, Stat, Probe, Measure, Poll, Reclaim, Free, NoOwner, Dead
    <3>3. ASSUME NEW p \in Procs, Finish(p) PROVE lock'.maker # Dead
      <4>1. \/ lock' \in {Free, lock}
            \/ \E o, a : lock' = [lock EXCEPT !.owner = o, !.age = a]
            \/ \E a : lock' = [lock EXCEPT !.age = a]
        BY <3>3 DEF Finish, WriteOwner, BeatTouch, VerifyOwner, Unlink, Rmdir
      <4>2. lock \in Lock
        BY DEF LeaseInv, TypeOK
      <4>3. Free.maker # Dead
        BY DEF Free, NoOwner, Dead
      <4> QED
        BY <4>1, <4>2, <4>3 DEF Lock
    <3>4. ASSUME NEW p \in Procs, Want(p) \/ Cancelled(p) \/ BeatRead(p) \/ EndRun(p)
          PROVE lock'.maker # Dead
      BY <3>4 DEF Want, Cancelled, BeatRead, EndRun
    <3>5. CASE Age
      BY <3>5 DEF Age, LeaseInv, TypeOK, Lock
    <3> QED
      BY <3>1, <3>2, <3>3, <3>4, <3>5 DEF Next, vars
  <2> QED
    BY <2>1, <2>2
<1>4. Steady => LeaseInv
  OBVIOUS
<1> HIDE DEF Steady
<1> QED
  BY <1>1, <1>2, <1>3, <1>4, TypeCorrect, PTL DEF Spec
-----------------------------------------------------------------------------
(* Who owns a data directory (sync/source_guard.rs).                       *)

CONSTANTS Processes, Source, Default, MaxKills
VARIABLES marker, owner, data, doing, served, stray, kills
Guard == INSTANCE SourceGuard WITH pc <- doing, crashes <- kills, MaxCrashes <- MaxKills

(* A source is a URL or a path, and "nobody" is neither.                   *)
Sourced == \A p \in Processes : Source[p] # Guard!Nobody

Doing == {"idle", "marker", "empty", "bind", "write", "resolve", "again"}
Binding == {"marker", "empty", "bind"}

(* Who binds holds the lock, and the marker it has seen missing is missing *)
(* still; a writer of a custom source has its marker; what was read is     *)
(* still there.                                                            *)
GuardInv ==
  /\ doing \in [Processes -> Doing] /\ served \in [Processes -> SUBSET (Guard!Sources \cup {Default})]
  /\ data \subseteq Guard!Sources \cup {Default} /\ marker \in Guard!Sources \cup {Guard!Nobody}
  /\ \A p \in Processes : doing[p] \in Binding => owner = {p} /\ Source[p] # Default
  /\ \A p \in Processes : doing[p] \in {"empty", "bind"} => marker = Guard!Nobody
  /\ \A p \in Processes : doing[p] = "bind" => data \subseteq {Default}
  /\ \A p \in Processes : doing[p] = "write" => Source[p] = Default \/ marker = Source[p]
  /\ \A s \in data \ {Default} : marker = s
  /\ \A p \in Processes : served[p] \subseteq data
  /\ stray \in BOOLEAN
  /\ ~stray => \A p \in Processes : doing[p] = "bind" => data = {}
  /\ ~stray /\ marker # Guard!Nobody => data \subseteq {marker}
  /\ \A p \in Processes : doing[p] # "again" =>
       served[p] \subseteq {Source[p]} \cup (IF stray THEN {Default} ELSE {})

LEMMA GuardStep ==
  ASSUME Sourced, GuardInv, [Guard!Next]_(Guard!vars)
  PROVE  GuardInv' /\ (marker # Guard!Nobody => marker' = marker)
<1> USE DEF Guard!Nobody, Guard!Goes, Guard!IsDefault, Guard!Foreign, Guard!Mine, Doing, Binding, GuardInv
<1>0. Guard!Sources' = Guard!Sources /\ \A p \in Processes : Source[p] \in Guard!Sources
  BY DEF Guard!Sources
<1>1. CASE UNCHANGED Guard!vars
  BY <1>0, <1>1 DEF Guard!vars
<1>2. ASSUME NEW p \in Processes, Guard!Look(p) PROVE GuardInv' /\ (marker # Guard!Nobody => marker' = marker)
  BY <1>0, <1>2 DEF Guard!Look
<1>3. ASSUME NEW p \in Processes, Guard!Take(p) PROVE GuardInv' /\ (marker # Guard!Nobody => marker' = marker)
  BY <1>0, <1>3 DEF Guard!Take
<1>4. ASSUME NEW p \in Processes, Guard!Check(p) PROVE GuardInv' /\ (marker # Guard!Nobody => marker' = marker)
  BY <1>0, <1>4 DEF Guard!Check
<1>5. ASSUME NEW p \in Processes, Guard!Empty(p) PROVE GuardInv' /\ (marker # Guard!Nobody => marker' = marker)
  BY <1>0, <1>5 DEF Guard!Empty
<1>6. ASSUME NEW p \in Processes, Guard!Bind(p) PROVE GuardInv' /\ (marker # Guard!Nobody => marker' = marker)
  BY <1>0, <1>6 DEF Guard!Bind, Sourced
<1>7. ASSUME NEW p \in Processes, Guard!Write(p) PROVE GuardInv' /\ (marker # Guard!Nobody => marker' = marker)
  <2>1. /\ doing[p] = "write" /\ doing' = [doing EXCEPT ![p] = "idle"]
        /\ data' = data \cup {Source[p]} /\ UNCHANGED <<marker, owner, served>>
    BY <1>7 DEF Guard!Write
  <2>2. stray' \in BOOLEAN /\ (stray => stray')
    BY <1>7 DEF Guard!Write
  <2>3. ASSUME Source[p] = Default, ~stray'
        PROVE  marker = Guard!Nobody /\ \A q \in Processes : doing[q] # "bind"
    BY <1>7, <2>3 DEF Guard!Write
  <2>4. /\ doing' \in [Processes -> Doing]
        /\ \A q \in Processes : doing'[q] = doing[q] \/ doing'[q] = "idle"
    BY <2>1
  <2>5. Source[p] # Default => marker = Source[p] /\ marker # Guard!Nobody
    BY <2>1 DEF Sourced
  <2>6. /\ \A q \in Processes : doing'[q] = "bind" => data' \subseteq {Default}
        /\ \A s \in data' \ {Default} : marker' = s
    BY <2>1, <2>4, <2>5
  <2>7. ASSUME ~stray'
        PROVE  /\ \A q \in Processes : doing'[q] = "bind" => data' = {}
               /\ marker' # Guard!Nobody => data' \subseteq {marker'}
    <3>1. CASE Source[p] = Default
      BY <2>1, <2>2, <2>3, <2>4, <2>7, <3>1
    <3>2. CASE Source[p] # Default
      BY <2>1, <2>2, <2>4, <2>5, <2>7, <3>2
    <3> QED BY <3>1, <3>2
  <2>8. \A q \in Processes : doing'[q] # "again" =>
          served'[q] \subseteq {Source[q]} \cup (IF stray' THEN {Default} ELSE {})
    <3> SUFFICES ASSUME NEW q \in Processes, doing'[q] # "again", NEW s \in served[q]
                 PROVE  s = Source[q] \/ (stray' /\ s = Default)
      BY <2>1
    <3>1. doing[q] # "again"
      BY <2>1
    <3> QED BY <2>2, <3>1
  <2> QED BY <1>0, <2>1, <2>2, <2>4, <2>5, <2>6, <2>7, <2>8
<1>8. ASSUME NEW p \in Processes, Guard!Verify(p) PROVE GuardInv' /\ (marker # Guard!Nobody => marker' = marker)
  BY <1>0, <1>8 DEF Guard!Verify
<1>9. ASSUME NEW p \in Processes, Guard!Resolve(p) PROVE GuardInv' /\ (marker # Guard!Nobody => marker' = marker)
  BY <1>0, <1>9 DEF Guard!Resolve
<1>10. ASSUME NEW p \in Processes, Guard!Again(p) PROVE GuardInv' /\ (marker # Guard!Nobody => marker' = marker)
  <2>1. PICK kept \in BOOLEAN : kept = (marker = Source[p] \/ (marker = Guard!Nobody /\ Source[p] = Default))
    OBVIOUS
  <2>2. served' = [served EXCEPT ![p] = IF kept THEN served[p] ELSE {}]
        /\ doing' = [doing EXCEPT ![p] = "idle"] /\ UNCHANGED <<marker, owner, data, stray>>
    BY <1>10, <2>1 DEF Guard!Again
  <2>3. kept => served[p] \subseteq {Source[p]} \cup (IF stray THEN {Default} ELSE {})
    <3> SUFFICES ASSUME kept, NEW s \in served[p] PROVE s = Source[p] \/ (stray /\ s = Default)
      OBVIOUS
    <3>1. s \in data
      OBVIOUS
    <3>2. CASE s = Default
      <4>1. CASE marker = Guard!Nobody
        BY <2>1, <3>2, <4>1 DEF Sourced
      <4>2. CASE marker # Guard!Nobody
        BY <2>1, <3>1, <3>2, <4>2
      <4> QED BY <4>1, <4>2
    <3>3. CASE s # Default
      <4>1. marker = s /\ s \in Guard!Sources
        BY <3>1, <3>3
      <4>2. s # Guard!Nobody
        BY <4>1 DEF Sourced, Guard!Sources
      <4> QED BY <2>1, <4>1, <4>2
    <3> QED BY <3>2, <3>3
  <2>4. /\ served' \in [Processes -> SUBSET (Guard!Sources \cup {Default})]
        /\ \A q \in Processes : served'[q] \subseteq data'
        /\ \A q \in Processes : doing'[q] # "again" =>
             served'[q] \subseteq {Source[q]} \cup (IF stray THEN {Default} ELSE {})
    BY <2>2, <2>3
  <2>5. /\ doing' \in [Processes -> Doing]
        /\ \A q \in Processes : doing'[q] = doing[q] \/ doing'[q] = "idle"
    BY <2>2
  <2> QED BY <1>0, <2>2, <2>4, <2>5
<1>11. ASSUME NEW p \in Processes, Guard!Kill(p) PROVE GuardInv' /\ (marker # Guard!Nobody => marker' = marker)
  BY <1>0, <1>11 DEF Guard!Kill
<1> QED BY <1>1, <1>2, <1>3, <1>4, <1>5, <1>6, <1>7, <1>8, <1>9, <1>10, <1>11 DEF Guard!Next, Guard!Ensure

LEMMA GuardTyped == ASSUME Sourced PROVE Guard!Spec => []GuardInv
<1>1. Guard!Init => GuardInv
  BY DEF Guard!Init, GuardInv, Guard!Nobody, Doing, Binding
<1>2. GuardInv /\ [Guard!Next]_(Guard!vars) => GuardInv'
  BY GuardStep
<1> QED BY <1>1, <1>2, PTL DEF Guard!Spec

(* No matter how the processes interleave and which are killed, the data   *)
(* of a custom source is only in a directory whose marker names it: it is  *)
(* bound before anything is written (sync/source_guard.rs).                *)
THEOREM CustomDataIsMarked == ASSUME Sourced PROVE Guard!Spec => []Guard!CustomIsMarked
<1>1. GuardInv => Guard!CustomIsMarked
  BY DEF GuardInv, Guard!CustomIsMarked
<1> QED BY <1>1, GuardTyped, PTL

(* A process is served the data of its own source and no other; one of a   *)
(* custom source may see default data only after a synchronizer of the     *)
(* default source, which takes no lock, has written into a directory that  *)
(* was bound, or being bound, since it looked (sync/source_guard.rs).      *)
THEOREM ReadersSeeTheirSource == ASSUME Sourced PROVE Guard!Spec => []Guard!ServedIsMine
<1>1. GuardInv => Guard!ServedIsMine
  BY DEF GuardInv, Guard!ServedIsMine
<1> QED BY <1>1, GuardTyped, PTL

(* The marker of a directory is written once: a process of another source  *)
(* is refused and never rewrites it (sync/source_guard.rs).                *)
THEOREM MarkersStay == ASSUME Sourced PROVE Guard!Spec => [][Guard!MarkerIsFinal]_(Guard!vars)
<1>1. GuardInv /\ [Guard!Next]_(Guard!vars) => [Guard!MarkerIsFinal]_(Guard!vars)
  BY GuardStep DEF Guard!MarkerIsFinal
<1> QED BY <1>1, GuardTyped, PTL DEF Guard!Spec

-----------------------------------------------------------------------------
(* Reloading the configuration (cli/edit.rs, control/reload.rs): nothing   *)
(* is assumed of the file, the layers or the ways to start.                *)

CONSTANTS Admins, Files, Modes, Args, Env, FileDir, Whole, MaxWrites, MaxStarts, MaxReloads
VARIABLES file, server, seen, writes, starts, reloads
Hot == INSTANCE HotReload

(* What an administrator has seen is of a server that ran, and as many     *)
(* reloads have happened since as the revision has moved.                  *)
Sights == [revision : Nat, start : Nat, reloads : Nat]
Parts == {"on", "entry", "use", "transport", "profile", "startup", "applied", "revision", "read"}
Seeing ==
  /\ starts \in Nat /\ reloads \in Nat /\ seen \in [Admins -> Sights]
  /\ server.on \in BOOLEAN
  /\ server.on => server.revision \in Nat /\ Parts \subseteq DOMAIN server
Moved(a) ==
  /\ seen[a].start <= starts
  /\ server.on /\ seen[a].start = starts /\ seen[a].revision > 0 =>
       server.revision - seen[a].revision = reloads - seen[a].reloads
Sighted == Seeing /\ \A a \in Admins : Moved(a)

LEMMA SightedStep == Sighted /\ [Hot!Next]_(Hot!vars) => Sighted'
<1> SUFFICES ASSUME Sighted, [Hot!Next]_(Hot!vars) PROVE Sighted'
  OBVIOUS
<1>0. Seeing
  BY DEF Sighted
<1>1. CASE Hot!Outside
  BY <1>1 DEF Hot!Outside, Sighted, Seeing, Moved
<1>2. CASE Hot!Stop
  BY <1>2 DEF Hot!Stop, Hot!Off, Sighted, Seeing, Moved
<1>3. ASSUME NEW m \in Modes, Hot!Start(m) PROVE Sighted'
  <2>1. starts' = starts + 1 /\ seen' = seen /\ reloads' = reloads
    BY <1>3 DEF Hot!Start
  <2>2. server'.on \in BOOLEAN /\ server'.revision \in Nat /\ Parts \subseteq DOMAIN server'
    BY <1>3 DEF Hot!Start, Hot!First, Parts
  <2>3. Seeing'
    BY <1>0, <2>1, <2>2 DEF Seeing
  <2>4. ASSUME NEW b \in Admins PROVE Moved(b)'
    <3>1. seen[b].start <= starts /\ starts \in Nat /\ seen[b].start \in Nat
      BY DEF Sighted, Moved, Seeing, Sights
    <3>2. seen'[b].start <= starts' /\ seen'[b].start # starts'
      BY <2>1, <3>1
    <3> QED BY <3>2 DEF Moved
  <2> QED BY <2>3, <2>4 DEF Sighted
<1>4. ASSUME NEW a \in Admins, Hot!Diff(a) PROVE Sighted'
  <2>1. server' = server /\ starts' = starts /\ reloads' = reloads /\ server.on
    BY <1>4 DEF Hot!Diff
  <2>2. seen' = [seen EXCEPT ![a] = [revision |-> server.revision, start |-> starts,
                                     reloads |-> reloads]]
    BY <1>4 DEF Hot!Diff
  <2>3. Seeing'
    BY <1>0, <2>1, <2>2 DEF Seeing, Sights
  <2>4. ASSUME NEW b \in Admins PROVE Moved(b)'
    <3>1. CASE b = a
      <4>1. seen'[b] = [revision |-> server.revision, start |-> starts, reloads |-> reloads]
        BY <1>0, <2>2, <3>1 DEF Seeing
      <4>2. server.revision \in Nat /\ reloads \in Nat /\ starts \in Nat
        BY <1>0, <2>1 DEF Seeing
      <4> QED BY <2>1, <4>1, <4>2 DEF Moved
    <3>2. CASE b # a
      <4>1. seen'[b] = seen[b]
        BY <1>0, <2>2, <3>2 DEF Seeing
      <4> QED BY <2>1, <4>1 DEF Moved, Sighted
    <3> QED BY <3>1, <3>2
  <2> QED BY <2>3, <2>4 DEF Sighted
<1>5. ASSUME NEW a \in Admins, Hot!Reload(a) PROVE Sighted'
  <2>1. reloads' = reloads + 1 /\ seen' = seen /\ starts' = starts
    BY <1>5 DEF Hot!Reload
  <2>2. server.on /\ server'.on = server.on /\ server'.revision = server.revision + 1
        /\ Parts \subseteq DOMAIN server'
    BY <1>0, <1>5 DEF Hot!Reload, Seeing, Parts
  <2>3. Seeing'
    BY <1>0, <2>1, <2>2 DEF Seeing
  <2>4. ASSUME NEW b \in Admins PROVE Moved(b)'
    <3>1. Moved(b) /\ seen[b] \in Sights /\ reloads \in Nat /\ server.revision \in Nat
      BY <1>0, <2>2 DEF Sighted, Seeing
    <3> QED BY <2>1, <2>2, <3>1 DEF Moved, Sights
  <2> QED BY <2>3, <2>4 DEF Sighted
<1>6. CASE UNCHANGED Hot!vars
  BY <1>6 DEF Hot!vars, Sighted, Seeing, Moved
<1> QED BY <1>1, <1>2, <1>3, <1>4, <1>5, <1>6 DEF Hot!Next

LEMMA SightsHold == Hot!Spec => []Sighted
<1>1. Hot!Init => Sighted
  BY DEF Hot!Init, Sighted, Seeing, Moved, Sights, Hot!Off
<1> QED BY <1>1, SightedStep, PTL DEF Hot!Spec

(* Within the life of one process a reload comes from the state that was   *)
(* compared: no reload of somebody else lies between (control/reload.rs).  *)
THEOREM ReloadsAreSighted == Hot!Spec => [][Hot!NoBlindReload]_(Hot!vars)
<1>1. Sighted /\ [Hot!Next]_(Hot!vars) => [Hot!NoBlindReload]_(Hot!vars)
  <2> SUFFICES ASSUME Sighted, NEW a \in Admins, Hot!Reload(a), seen[a].start = starts
               PROVE  seen[a].reloads = reloads
    BY DEF Hot!NoBlindReload
  <2> QED BY DEF Hot!Reload, Hot!Expected, Sighted, Seeing, Moved, Sights
<1> QED BY <1>1, SightsHold, PTL DEF Hot!Spec

(* A configuration is a record of settings; two agree when they differ in  *)
(* nothing but the three settings a reload may change, and in the spelling *)
(* of one port.                                                            *)
Keys == {"source", "backend", "fallback", "strict", "database", "custom", "gamedata", "ownJson",
         "levels", "story", "storySync", "images", "local", "original", "cache", "artwork",
         "interval", "token", "mirrors", "idle", "channel", "host", "port", "debug", "metrics",
         "instance", "endpoint", "proxies", "ca", "discovery"}
Soft == {"interval", "token", "mirrors"}
IsConfig(c) == c = [k \in Keys |-> c[k]]
Agree(c, d) == Hot!Port(c) = Hot!Port(d) /\ \A k \in Keys \ (Soft \cup {"port"}) : c[k] = d[k]

LEMMA ConfigShape ==
  ASSUME NEW s, NEW w, NEW discovery PROVE IsConfig(Hot!Resolve(s, w, discovery))
<1> DEFINE c == Hot!Resolve(s, w, discovery)
<1>1. DOMAIN c = Keys
  BY SMT DEF Keys, Hot!Resolve
<1>2. c = [k \in DOMAIN c |-> c[k]]
  BY SMT DEF Hot!Resolve
<1> QED BY SMT, <1>1, <1>2 DEF IsConfig

LEMMA Extensional ==
  ASSUME NEW c, NEW d, IsConfig(c), IsConfig(d), \A k \in Keys : c[k] = d[k]
  PROVE  c = d
BY DEF IsConfig

LEMMA ConfigExcept ==
  ASSUME NEW c, IsConfig(c), NEW v, NEW t, NEW m, NEW p
  PROVE  /\ IsConfig([c EXCEPT !.interval = v, !.token = t, !.mirrors = m])
         /\ IsConfig([c EXCEPT !.interval = v, !.token = t, !.mirrors = m, !.port = p])
         /\ IsConfig([c EXCEPT !.port = p])
<1>1. ASSUME NEW x, IsConfig(x), NEW k \in Keys, NEW y PROVE IsConfig([x EXCEPT ![k] = y])
  BY <1>1 DEF IsConfig
<1>2. "interval" \in Keys /\ "token" \in Keys /\ "mirrors" \in Keys /\ "port" \in Keys
  BY DEF Keys
<1>3. IsConfig([c EXCEPT !.port = p])
  BY <1>1, <1>2
<1>4. IsConfig([[[c EXCEPT !.interval = v] EXCEPT !.token = t] EXCEPT !.mirrors = m])
  BY <1>1, <1>2
<1>5. IsConfig([[[[c EXCEPT !.interval = v] EXCEPT !.token = t] EXCEPT !.mirrors = m] EXCEPT !.port = p])
  BY <1>1, <1>2, <1>4
<1> QED BY <1>3, <1>4, <1>5

LEMMA Restartless ==
  ASSUME NEW c, NEW d, IsConfig(c), IsConfig(d), NEW ct, NEW dt
  PROVE  ~Hot!NeedsRestart(c, ct, d, dt) <=> ct = dt /\ Agree(c, d)
<1> DEFINE p == IF Hot!Port(c) = Hot!Port(d) THEN c.port ELSE d.port
           e == [d EXCEPT !.interval = c.interval, !.token = c.token, !.mirrors = c.mirrors,
                          !.port = p]
<1>1. Hot!NeedsRestart(c, ct, d, dt) <=> e # c \/ ct # dt
  BY DEF Hot!NeedsRestart
<1>2. IsConfig(e)
  BY ConfigExcept
<1>3. \A k \in Keys : e[k] = CASE k \in Soft -> c[k] [] k = "port" -> p [] OTHER -> d[k]
  BY DEF IsConfig, Keys, Soft
<1>4. "port" \in Keys /\ "port" \notin Soft
  BY DEF Keys, Soft
<1>5. ASSUME e = c PROVE Agree(c, d)
  <2>1. \A k \in Keys \ (Soft \cup {"port"}) : c[k] = d[k]
    BY <1>3, <1>5
  <2>2. c.port = p
    BY <1>3, <1>4, <1>5
  <2>3. Hot!Port(c) = Hot!Port(d)
    <3> SUFFICES ASSUME Hot!Port(c) # Hot!Port(d) PROVE FALSE
      OBVIOUS
    <3>1. c.port = d.port
      BY <2>2
    <3> DEFINE Bound(ports) == IF ports = {} THEN 3000
                               ELSE Hot!BoundPort(CHOOSE one \in ports : TRUE)
    <3>2. Hot!Port(c) = Bound(c.port) /\ Hot!Port(d) = Bound(d.port)
      BY DEF Hot!Port
    <3> HIDE DEF Bound
    <3> QED BY <3>1, <3>2
  <2> QED BY <2>1, <2>3 DEF Agree
<1>6. ASSUME Agree(c, d) PROVE e = c
  <2>1. \A k \in Keys : e[k] = c[k]
    BY <1>3, <1>6 DEF Agree
  <2> HIDE DEF e
  <2> QED BY <1>2, <2>1, Extensional
<1> QED BY <1>1, <1>5, <1>6

(* What a restart with the file that was read would bring.                 *)
ReadLayers == Hot!Settings(IF server.entry = "prtsctl" THEN Args ELSE <<>>, Env,
                           Hot!FileValues(FileDir, server.read))
ReadConfig == Hot!Resolve(ReadLayers, Whole, Hot!Proxies \cap DOMAIN server.read = {})

(* Server and coordinator run with what was read last, in all but three    *)
(* settings as they were at the start; a server without a file has read    *)
(* none, and the profile it is read under is the one it was started with.  *)
Applied ==
  server.on =>
    /\ Parts \subseteq DOMAIN server
    /\ IsConfig(server.startup) /\ Agree(server.startup, server.applied)
    /\ server.applied = ReadConfig
    /\ server.transport = Hot!Transport(Hot!Named(server.entry), ReadLayers)
    /\ server.use = "none" => server.read = <<>>
    /\ server.profile = Hot!Kept(server.entry, server.use, server.transport)

LEMMA Asked ==
  ASSUME server.read = Hot!Doc(server.use)
  PROVE  Hot!Fresh = ReadConfig /\ Hot!Layers(server.entry, server.use) = ReadLayers
BY DEF Hot!Fresh, Hot!Candidate, Hot!Layers, ReadConfig, ReadLayers

LEMMA Typed == \A profile, s : Hot!Transport(profile, s) \in {"http", "stdio"}
BY DEF Hot!Transport

(* The transport asked for under the profile kept is the one that runs.    *)
LEMMA SameTransport ==
  ASSUME Applied, server.on, server.read = Hot!Doc(server.use)
  PROVE  Hot!FreshTransport = server.transport
<1>1. Hot!Layers(server.entry, server.use) = ReadLayers
  BY Asked
<1>2. CASE server.use = "none"
  <2>1. server.transport \in {"http", "stdio"}
    BY Typed DEF Applied
  <2> QED BY <1>2, <2>1 DEF Applied, Hot!Kept, Hot!FreshTransport, Hot!Transport
<1>3. CASE server.use # "none"
  BY <1>1, <1>3 DEF Applied, Hot!Kept, Hot!FreshTransport
<1> QED BY <1>2, <1>3

LEMMA AppliedStep == Applied /\ [Hot!Next]_(Hot!vars) => Applied'
<1> SUFFICES ASSUME Applied, [Hot!Next]_(Hot!vars) PROVE Applied'
  OBVIOUS
<1>1. CASE UNCHANGED server
  BY <1>1 DEF Applied, ReadConfig, ReadLayers
<1>2. CASE Hot!Stop
  BY <1>2 DEF Hot!Stop, Hot!Off, Applied
<1>3. ASSUME NEW m \in Modes, Hot!Start(m) PROVE Applied'
  <2> DEFINE s == Hot!Layers(m[1], m[2])
             c == Hot!Candidate(m[1], m[2])
             t == Hot!Transport(Hot!Named(m[1]), s)
             now == [on |-> TRUE, entry |-> m[1], use |-> m[2], transport |-> t,
                     profile |-> Hot!Kept(m[1], m[2], t), startup |-> c, applied |-> c,
                     revision |-> 1, read |-> Hot!Doc(m[2])]
  <2>1. server' = now
    BY <1>3 DEF Hot!Start, Hot!First
  <2>2. IsConfig(c)
    BY ConfigShape DEF Hot!Candidate
  <2>3. Agree(c, c)
    BY DEF Agree
  <2>4. m[2] = "none" => Hot!Doc(m[2]) = <<>>
    BY DEF Hot!Doc
  <2>5. /\ server'.entry = m[1] /\ server'.use = m[2] /\ server'.transport = t
        /\ server'.profile = Hot!Kept(m[1], m[2], t) /\ server'.startup = c
        /\ server'.applied = c /\ server'.read = Hot!Doc(m[2]) /\ Parts \subseteq DOMAIN server'
    <3> HIDE DEF c, t
    <3> QED BY <2>1 DEF Parts
  <2>6. ReadLayers' = s
    BY <2>5 DEF ReadLayers, Hot!Layers
  <2>7. ReadConfig' = c
    BY <2>5, <2>6 DEF ReadConfig, Hot!Candidate
  <2> HIDE DEF c, s, now
  <2> QED BY <2>2, <2>3, <2>4, <2>5, <2>6, <2>7 DEF Applied
<1>4. ASSUME NEW a \in Admins, Hot!Reload(a) PROVE Applied'
  <2>1. server.on /\ ~Hot!Restart
        /\ server' = [server EXCEPT !.applied = Hot!Fresh, !.revision = @ + 1,
                                    !.read = Hot!Doc(server.use)]
    BY <1>4 DEF Hot!Reload
  <2>2. /\ server'.entry = server.entry /\ server'.use = server.use
        /\ server'.transport = server.transport /\ server'.profile = server.profile
        /\ server'.startup = server.startup /\ server'.applied = Hot!Fresh
        /\ server'.read = Hot!Doc(server.use) /\ Parts \subseteq DOMAIN server'
    BY <2>1 DEF Applied, Parts
  <2>3. ReadLayers' = Hot!Layers(server.entry, server.use)
    BY <2>2 DEF ReadLayers, Hot!Layers
  <2>4. ReadConfig' = Hot!Fresh
    BY <2>2, <2>3 DEF ReadConfig, Hot!Fresh, Hot!Candidate
  <2>5. IsConfig(Hot!Fresh) /\ IsConfig(server.applied)
    BY <2>1, ConfigShape DEF Hot!Fresh, Hot!Candidate, Applied, ReadConfig
  <2>6. server.transport = Hot!FreshTransport /\ Agree(server.applied, Hot!Fresh)
    BY <2>1, <2>5, Restartless DEF Hot!Restart
  <2>7. Agree(server.startup, Hot!Fresh)
    BY <2>1, <2>6 DEF Agree, Applied
  <2>8. server.use = "none" => Hot!Doc(server.use) = <<>>
    BY DEF Hot!Doc
  <2>9. server.transport = Hot!Transport(Hot!Named(server.entry), Hot!Layers(server.entry, server.use))
    <3>1. CASE server.use = "none"
      BY <2>1, <2>8, <3>1 DEF Applied, ReadLayers, Hot!Layers
    <3>2. CASE server.use # "none"
      BY <2>1, <2>6, <3>2 DEF Applied, Hot!Kept, Hot!FreshTransport
    <3> QED BY <3>1, <3>2
  <2> QED BY <2>1, <2>2, <2>3, <2>4, <2>5, <2>7, <2>8, <2>9 DEF Applied
<1>5. Hot!Outside \/ UNCHANGED Hot!vars \/ (\E a \in Admins : Hot!Diff(a)) => UNCHANGED server
  BY DEF Hot!Outside, Hot!vars, Hot!Diff
<1> QED BY <1>1, <1>2, <1>3, <1>4, <1>5 DEF Hot!Next

LEMMA AppliedHolds == Hot!Spec => []Applied
<1>1. Hot!Init => Applied
  BY DEF Hot!Init, Hot!Off, Applied
<1> QED BY <1>1, AppliedStep, PTL DEF Hot!Spec

(* A reload is as good as a restart: server and coordinator run with what  *)
(* a restart with the file that was read would bring, in every part of the *)
(* configuration, and on the transport it would choose; however often the  *)
(* file was written, reloaded and refused before (control/reload.rs).      *)
THEOREM ReloadEqualsRestart == Hot!Spec => []Hot!ReloadIsARestart
<1>1. Applied => Hot!ReloadIsARestart
  <2> SUFFICES ASSUME Applied, server.on
               PROVE  /\ Hot!SamePort(Hot!Running, ReadConfig)
                      /\ server.transport = Hot!Transport(Hot!Named(server.entry), ReadLayers)
    BY DEF Hot!ReloadIsARestart, ReadConfig, ReadLayers
  <2> DEFINE run == Hot!Running
             new == server.applied
             p == IF Hot!Port(run) = Hot!Port(new) THEN run.port ELSE new.port
             e == [new EXCEPT !.port = p]
  <2>1. IsConfig(server.startup) /\ IsConfig(new) /\ Agree(server.startup, new) /\ new = ReadConfig
    BY ConfigShape DEF Applied, ReadConfig
  <2>2. IsConfig(run) /\ IsConfig(e)
    BY <2>1, ConfigExcept DEF Hot!Running
  <2>3. \A k \in Keys : run[k] = IF k \in Soft THEN new[k] ELSE server.startup[k]
    BY <2>1 DEF Hot!Running, IsConfig, Keys, Soft
  <2>4. \A k \in Keys : e[k] = IF k = "port" THEN p ELSE new[k]
    BY <2>1 DEF IsConfig, Keys
  <2>5. "port" \in Keys /\ "port" \notin Soft
    BY DEF Keys, Soft
  <2>6. Hot!Port(run) = Hot!Port(new)
    <3>1. run.port = server.startup.port
      BY <2>3, <2>5
    <3>2. Hot!Port(run) = Hot!Port(server.startup)
      <4> DEFINE Bound(ports) == IF ports = {} THEN 3000
                                 ELSE Hot!BoundPort(CHOOSE one \in ports : TRUE)
      <4>1. Hot!Port(run) = Bound(run.port) /\ Hot!Port(server.startup) = Bound(server.startup.port)
        BY DEF Hot!Port
      <4> HIDE DEF Bound, run
      <4> QED BY <3>1, <4>1
    <3> QED BY <2>1, <3>2 DEF Agree
  <2>7. \A k \in Keys : e[k] = run[k]
    BY <2>1, <2>3, <2>4, <2>5, <2>6 DEF Agree
  <2>8. e = run
    <3> HIDE DEF e, run
    <3> QED BY <2>2, <2>7, Extensional
  <2> QED BY <2>1, <2>8 DEF Hot!SamePort, Applied
<1> QED BY <1>1, AppliedHolds, PTL

(* A server whose file says what it said when it was read last reports no  *)
(* difference and asks for no restart, however it was started              *)
(* (control/reload.rs).                                                    *)
THEOREM QuietUntilTheFileChanges == Hot!Spec => []Hot!UnchangedFileIsQuiet
<1>1. Applied => Hot!UnchangedFileIsQuiet
  <2> SUFFICES ASSUME Applied, server.on, Hot!Doc(server.use) = server.read
               PROVE  ~Hot!Restart /\ Hot!Listed = {}
    BY DEF Hot!UnchangedFileIsQuiet
  <2>1. Hot!Fresh = server.applied /\ Hot!FreshTransport = server.transport
    BY Asked, SameTransport DEF Applied
  <2>2. IsConfig(server.applied)
    BY ConfigShape DEF Applied, ReadConfig
  <2>3. ~Hot!Restart
    BY <2>1, <2>2, Restartless DEF Hot!Restart, Agree
  <2> QED BY <2>1, <2>3 DEF Hot!Listed, Hot!Differences
<1> QED BY <1>1, AppliedHolds, PTL

(* A difference that is said to be ready for a reload lists nothing that   *)
(* needs a restart: the report and the verdict are computed differently    *)
(* and agree (control/reload.rs).                                          *)
THEOREM ListFitsVerdict == Hot!Spec => []Hot!ListAgreesWithVerdict
<1>1. Applied => Hot!ListAgreesWithVerdict
  <2> SUFFICES ASSUME Applied, server.on, ~Hot!Restart
               PROVE  Hot!Listed \subseteq Hot!Allowed
    BY DEF Hot!ListAgreesWithVerdict
  <2> DEFINE c == server.applied
             d == Hot!Fresh
  <2>1. IsConfig(c) /\ IsConfig(d)
    BY ConfigShape DEF Applied, ReadConfig, Hot!Fresh, Hot!Candidate
  <2>2. server.transport = Hot!FreshTransport /\ Agree(c, d)
    BY <2>1, Restartless DEF Hot!Restart
  <2> HIDE DEF c, d
  <2>3. \A k \in Hot!Fields \ Hot!Allowed :
          Hot!Shown(c, server.transport)[k] = Hot!Shown(d, server.transport)[k]
    BY <2>2 DEF Agree, Keys, Soft, Hot!Shown, Hot!Allowed, Hot!Fields, Hot!PathFields,
       Hot!BoolFields, Hot!NumberFields, Hot!Options, Hot!TextFields, Hot!Proxies
  <2> QED BY <2>2, <2>3 DEF Hot!Listed, Hot!Differences, c, d
<1> QED BY <1>1, AppliedHolds, PTL

-----------------------------------------------------------------------------
(* Editing the configuration file (cli/edit.rs).  The file in the          *)
(* beginning is one a server can read; nothing is assumed of what the      *)
(* outside program leaves, nor of how often it writes.                     *)

CONSTANTS Editors, Commands, Previews, Original, ByHand, MaxByHand, Shell
VARIABLES disk, held, editor, byHand
Edit == INSTANCE ConfigEdit WITH First <- Original, lock <- held

Kinds == {"init", "set", "unset"}
Begun ==
  /\ Previews \subseteq BOOLEAN /\ \A c \in Commands : c[1] \in Kinds
  /\ Original.kind = "file" => Edit!Reads(Original.doc)

Steps == {"pc", "command", "preview", "token", "draft", "raced", "hint"}
Working == {"look", "read", "compare", "rename"}
Others(e) == DOMAIN editor' = Editors /\ \A d \in Editors \ {e} : editor'[d] = editor[d]

(* What is known of one editor.  One that does not only show works alone;  *)
(* what it is about to publish can be read; and what it read is what it    *)
(* changed, as long as the file keeps the identity it had before.          *)
Sound(e) ==
  LET n == editor[e] IN
  /\ DOMAIN n = Steps
  /\ n.pc \in Working \cup {"lock"} => n.command[1] \in Kinds
  /\ n.pc = "lock" => ~n.preview
  /\ n.pc \in Working /\ ~n.preview => held = {e}
  /\ n.pc \in {"compare", "rename"} => ~n.preview /\ Edit!Reads(n.draft)
  /\ n.pc \in Working \ {"look"} => n.token \in Nat /\ n.token <= disk.version
  /\ n.pc \in {"compare", "rename"} /\ n.token = disk.version /\ n.command[1] # "init" =>
       n.draft = Edit!Changed(n.command, disk.doc)
  /\ n.pc = "rename" /\ ~n.raced => Edit!Token = n.token

EditInv ==
  /\ byHand \in Nat /\ disk.version \in Nat \ {0}
  /\ DOMAIN editor = Editors
  /\ byHand = 0 /\ disk.kind = "file" => Edit!Reads(disk.doc)
  /\ \A e \in Editors : Sound(e)

(* A step of one editor that leaves the file alone.                        *)
LEMMA QuietStep ==
  ASSUME EditInv, NEW e \in Editors, Others(e), UNCHANGED <<disk, byHand>>, Sound(e)',
         held' = held \/ held' = held \ {e} \/ (held = {} /\ held' = {e})
  PROVE  EditInv'
<1>1. ASSUME NEW d \in Editors, d # e PROVE Sound(d)'
  <2>1. editor'[d] = editor[d] /\ disk' = disk /\ Sound(d)
    BY <1>1 DEF Others, EditInv
  <2>2. Edit!Token' = Edit!Token
    BY <2>1 DEF Edit!Token, Edit!Exists
  <2>3. held = {d} => held' = {d}
    BY <1>1
  <2> QED BY <2>1, <2>2, <2>3 DEF Sound
<1> QED BY <1>1 DEF EditInv, Others

LEMMA Endings ==
  ASSUME EditInv, NEW e \in Editors, NEW how \in Edit!Ended, Edit!End(e, how),
         UNCHANGED <<disk, byHand>>
  PROVE  EditInv'
<1>1. Others(e) /\ DOMAIN editor'[e] = Steps /\ editor'[e].pc = how
  BY DEF Edit!End, Others, EditInv, Sound, Steps
<1>2. how \notin Working \cup {"lock"}
  BY DEF Edit!Ended, Working
<1>3. Sound(e)'
  BY <1>1, <1>2 DEF Sound, Working
<1> QED BY <1>1, <1>3, QuietStep DEF Edit!End

LEMMA EditStep == EditInv /\ Begun /\ [Edit!Next]_(Edit!vars) => EditInv'
<1> SUFFICES ASSUME EditInv, Begun, [Edit!Next]_(Edit!vars) PROVE EditInv'
  OBVIOUS
<1>1. ASSUME NEW e \in Editors, Edit!Begin(e) PROVE EditInv'
  <2>1. PICK c \in Commands, p \in Previews :
          editor' = [editor EXCEPT ![e] = [Edit!Waiting EXCEPT !.command = c, !.preview = p,
            !.pc = IF ~Edit!Acceptable(c) THEN "refused" ELSE IF p THEN "look" ELSE "lock"]]
    BY <1>1 DEF Edit!Begin
  <2>2. PICK to \in {"refused", "look", "lock"} :
          to = IF ~Edit!Acceptable(c) THEN "refused" ELSE IF p THEN "look" ELSE "lock"
    OBVIOUS
  <2>3. Others(e) /\ DOMAIN editor'[e] = Steps /\ editor'[e].pc = to /\ editor'[e].preview = p
        /\ editor'[e].command = c
    BY <2>1, <2>2 DEF Others, EditInv, Edit!Waiting, Steps
  <2>4. Sound(e)'
    BY <2>2, <2>3 DEF Sound, Working, Begun
  <2> QED BY <1>1, <2>3, <2>4, QuietStep DEF Edit!Begin
<1>2. ASSUME NEW e \in Editors, Edit!Lock(e) PROVE EditInv'
  <2>1. Others(e) /\ DOMAIN editor'[e] = Steps /\ editor'[e].pc = "look" /\ held' = {e}
        /\ editor'[e].command = editor[e].command /\ editor[e].command[1] \in Kinds
    BY <1>2 DEF Edit!Lock, Others, EditInv, Sound, Steps
  <2>2. Sound(e)'
    BY <2>1 DEF Sound, Working
  <2> QED BY <1>2, <2>1, <2>2, QuietStep DEF Edit!Lock
<1>3. ASSUME NEW e \in Editors, Edit!Look(e) PROVE EditInv'
  <2>1. CASE disk.kind = "link" /\ Edit!End(e, "refused")
    BY <1>3, <2>1, Endings DEF Edit!Look, Edit!Ended
  <2>2. CASE editor' = [editor EXCEPT ![e].pc = "read", ![e].token = Edit!Token] /\ UNCHANGED held
    <3>1. /\ Others(e) /\ DOMAIN editor'[e] = Steps /\ editor'[e].pc = "read"
          /\ editor'[e].preview = editor[e].preview /\ editor'[e].token = Edit!Token
          /\ editor'[e].command = editor[e].command
      BY <2>2 DEF Others, EditInv, Sound, Steps
    <3>2. Edit!Token \in Nat /\ Edit!Token <= disk.version
      BY DEF Edit!Token, EditInv
    <3>3. disk' = disk /\ Sound(e) /\ editor[e].pc = "look"
      BY <1>3 DEF Edit!Look, EditInv
    <3>4. Sound(e)'
      BY <2>2, <3>1, <3>2, <3>3 DEF Sound, Working
    <3> QED BY <1>3, <2>2, <3>1, <3>4, QuietStep DEF Edit!Look
  <2> QED BY <1>3, <2>1, <2>2 DEF Edit!Look
<1>4. ASSUME NEW e \in Editors, Edit!Read(e) PROVE EditInv'
  <2> DEFINE n == editor[e]
             found == IF n.command[1] = "init" THEN ~Edit!Exists \/ n.command[2]
                      ELSE disk.kind \in {"file", "link"}
             draft == IF found THEN Edit!Changed(n.command, disk.doc) ELSE <<>>
             to == IF n.preview THEN "shown" ELSE "compare"
  <2>1. n.pc = "read" /\ UNCHANGED <<disk, byHand>> /\ Sound(e)
    BY <1>4 DEF Edit!Read, EditInv
  <2>2. CASE Edit!End(e, "refused")
    BY <2>1, <2>2, Endings DEF Edit!Ended
  <2>3. CASE found /\ Edit!Reads(draft) /\ UNCHANGED held
             /\ editor' = [editor EXCEPT ![e].draft = draft, ![e].pc = to]
    <3>1. PICK text : text = draft
      OBVIOUS
    <3>2. PICK next \in {"shown", "compare"} : next = to
      OBVIOUS
    <3>3. /\ Others(e) /\ DOMAIN editor'[e] = Steps /\ editor'[e].pc = next
          /\ editor'[e].preview = n.preview /\ editor'[e].token = n.token
          /\ editor'[e].command = n.command /\ editor'[e].draft = text
      <4> HIDE DEF draft, to
      <4> QED BY <2>3, <3>1, <3>2 DEF Others, EditInv, Sound, Steps
    <3>4. Edit!Reads(text) /\ text = Edit!Changed(n.command, disk.doc)
      BY <2>3, <3>1
    <3>5. next = "compare" => ~n.preview
      BY <3>2
    <3> HIDE DEF draft, to, found
    <3>6. Edit!Reads(editor'[e].draft) <=> Edit!Reads(text)
      BY <3>3
    <3>7. Edit!Changed(editor'[e].command, disk'.doc) = text
      BY <2>1, <3>3, <3>4
    <3>8. Edit!Reads(editor'[e].draft)
      BY <3>4, <3>6
    <3>9. Sound(e)'
      BY <2>1, <2>3, <3>3, <3>5, <3>7, <3>8 DEF Sound, Working
    <3> QED BY <2>1, <2>3, <3>3, <3>9, QuietStep
  <2> QED BY <1>4, <2>2, <2>3 DEF Edit!Read
<1>5. ASSUME NEW e \in Editors, Edit!Compare(e) PROVE EditInv'
  <2>1. CASE Edit!End(e, "raced")
    BY <1>5, <2>1, Endings DEF Edit!Compare, Edit!Ended
  <2>2. CASE Edit!Token = editor[e].token /\ editor' = [editor EXCEPT ![e].pc = "rename"]
             /\ UNCHANGED held
    <3>1. /\ Others(e) /\ DOMAIN editor'[e] = Steps /\ editor'[e].pc = "rename"
          /\ \A k \in Steps \ {"pc"} : editor'[e][k] = editor[e][k]
      BY <2>2 DEF Others, EditInv, Sound, Steps
    <3>2. disk' = disk /\ Sound(e) /\ editor[e].pc = "compare"
      BY <1>5 DEF Edit!Compare, EditInv
    <3>3. Edit!Token' = Edit!Token
      BY <3>2 DEF Edit!Token, Edit!Exists
    <3>4. Sound(e)'
      BY <2>2, <3>1, <3>2, <3>3 DEF Sound, Working, Steps
    <3> QED BY <1>5, <2>2, <3>1, <3>4, QuietStep DEF Edit!Compare
  <2> QED BY <1>5, <2>1, <2>2 DEF Edit!Compare
<1>6. ASSUME NEW e \in Editors, Edit!Rename(e) PROVE EditInv'
  <2>1. /\ Sound(e) /\ editor[e].pc = "rename" /\ held' = held \ {e} /\ byHand' = byHand
        /\ disk'.version = disk.version + 1 /\ disk'.doc = editor[e].draft /\ disk.version \in Nat
    BY <1>6 DEF Edit!Rename, EditInv
  <2>2. held = {e} /\ Edit!Reads(editor[e].draft)
    BY <2>1 DEF Sound, Working
  <2>3. Others(e) /\ DOMAIN editor'[e] = Steps /\ editor'[e].pc = "done"
    BY <1>6, <2>1 DEF Edit!Rename, Others, EditInv, Sound, Steps
  <2>4. Sound(e)'
    BY <2>3 DEF Sound, Working
  <2>5. ASSUME NEW d \in Editors, d # e PROVE Sound(d)'
    <3>1. editor'[d] = editor[d] /\ Sound(d)
      BY <2>3, <2>5 DEF Others, EditInv
    <3>2. editor[d].pc \notin {"compare", "rename", "lock"} \/ editor[d].pc = "lock"
      BY <2>2, <2>5, <3>1 DEF Sound, Working
    <3>3. editor[d].pc \in Working => editor[d].preview
      BY <2>2, <2>5, <3>1 DEF Sound
    <3> QED BY <2>1, <3>1, <3>2, <3>3 DEF Sound, Working
  <2>6. Edit!Reads(disk'.doc)
    BY <2>1, <2>2
  <2> QED BY <2>1, <2>3, <2>4, <2>5, <2>6 DEF EditInv, Others
<1>7. ASSUME NEW e \in Editors, Edit!WriteFails(e) PROVE EditInv'
  BY <1>7, Endings DEF Edit!WriteFails, Edit!Ended
<1>8. ASSUME NEW e \in Editors, Edit!Kill(e) PROVE EditInv'
  BY <1>8, Endings DEF Edit!Kill, Edit!Ended
<1>9. CASE Edit!Outside
  <2>1. /\ disk'.version = disk.version + 1 /\ byHand' = byHand + 1 /\ held' = held
        /\ byHand \in Nat /\ disk.version \in Nat
        /\ editor' = [e \in Editors |-> IF editor[e].pc = "rename"
                                        THEN [editor[e] EXCEPT !.raced = TRUE] ELSE editor[e]]
    BY <1>9 DEF Edit!Outside, EditInv
  <2>2. ASSUME NEW e \in Editors PROVE Sound(e)'
    <3>1. Sound(e)
      BY DEF EditInv
    <3>2. CASE editor[e].pc = "rename"
      <4>1. DOMAIN editor'[e] = Steps /\ editor'[e].raced = TRUE
            /\ \A k \in Steps \ {"raced"} : editor'[e][k] = editor[e][k]
        BY <2>1, <3>1, <3>2 DEF Sound, Steps
      <4> QED BY <2>1, <3>1, <3>2, <4>1 DEF Sound, Working, Steps
    <3>3. CASE editor[e].pc # "rename"
      <4>1. editor'[e] = editor[e]
        BY <2>1, <3>3
      <4> QED BY <2>1, <3>1, <3>3, <4>1 DEF Sound, Working
    <3> QED BY <3>2, <3>3
  <2> QED BY <2>1, <2>2 DEF EditInv
<1>10. CASE UNCHANGED Edit!vars
  BY <1>10 DEF Edit!vars, EditInv, Sound, Edit!Token, Edit!Exists
<1>11. CASE Edit!Next
  BY <1>1, <1>2, <1>3, <1>4, <1>5, <1>6, <1>7, <1>8, <1>9, <1>11 DEF Edit!Next, Edit!Step
<1> QED BY <1>10, <1>11

LEMMA EditsAreSound == Begun => (Edit!Spec => []EditInv)
<1> SUFFICES ASSUME Begun PROVE Edit!Spec => []EditInv
  OBVIOUS
<1>1. Edit!Init => EditInv
  BY DEF Begun, Edit!Init, EditInv, Sound, Edit!Waiting, Steps, Working
<1>2. EditInv /\ [Edit!Next]_(Edit!vars) => EditInv'
  BY EditStep
<1> QED BY <1>1, <1>2, PTL DEF Edit!Spec

(* Who ends an edit in a step.                                             *)
LEMMA Publisher ==
  ASSUME EditInv, [Edit!Next]_(Edit!vars), NEW e \in Editors,
         editor[e].pc = "rename", editor'[e].pc = "done"
  PROVE  Edit!Rename(e)
<1>1. ASSUME NEW d \in Editors, d # e, Edit!Begin(d) \/ Edit!Step(d) \/ Edit!WriteFails(d) \/ Edit!Kill(d)
      PROVE  editor'[e] = editor[e]
  BY <1>1 DEF EditInv, Edit!Begin, Edit!Step, Edit!Lock, Edit!Look, Edit!Read, Edit!Compare,
     Edit!Rename, Edit!WriteFails, Edit!Kill, Edit!End
<1>2. ~Edit!Begin(e) /\ ~Edit!Lock(e) /\ ~Edit!Look(e) /\ ~Edit!Read(e) /\ ~Edit!Compare(e)
  BY DEF Edit!Begin, Edit!Lock, Edit!Look, Edit!Read, Edit!Compare
<1>3. ASSUME NEW how, Edit!End(e, how) PROVE editor'[e].pc = how
  BY <1>3 DEF Edit!End, EditInv, Sound, Steps
<1>4. ~Edit!WriteFails(e) /\ ~Edit!Kill(e)
  BY <1>3 DEF Edit!WriteFails, Edit!Kill
<1>5. Edit!Outside => editor'[e].pc = editor[e].pc
  BY DEF Edit!Outside, EditInv, Sound, Steps
<1>6. UNCHANGED Edit!vars => editor' = editor
  BY DEF Edit!vars
<1> QED BY <1>1, <1>2, <1>4, <1>5, <1>6 DEF Edit!Next, Edit!Step

(* A rename replaces the very file the editor looked at, however many      *)
(* editors wait, are killed or fail, unless the outside program writes     *)
(* between the comparison and the rename (cli/edit.rs).                    *)
THEOREM EditsReplaceWhatTheySaw == ASSUME Begun PROVE Edit!Spec => [][Edit!EditsAreNotLost]_(Edit!vars)
<1>1. EditInv /\ [Edit!Next]_(Edit!vars) => [Edit!EditsAreNotLost]_(Edit!vars)
  BY DEF EditInv, Sound, Edit!EditsAreNotLost
<1> QED BY <1>1, EditsAreSound, PTL DEF Edit!Spec

(* What an editor publishes differs from what was there in the field it    *)
(* was asked to change and in nothing else: the edits of several editors   *)
(* accumulate (cli/edit.rs).                                               *)
THEOREM EditsAccumulate == ASSUME Begun PROVE Edit!Spec => [][Edit!OneFieldAtATime]_(Edit!vars)
<1>1. EditInv /\ [Edit!Next]_(Edit!vars) => [Edit!OneFieldAtATime]_(Edit!vars)
  <2> SUFFICES ASSUME EditInv, [Edit!Next]_(Edit!vars), NEW e \in Editors,
                      editor[e].pc = "rename", editor'[e].pc = "done", ~editor[e].raced,
                      editor[e].command[1] # "init", editor[e].token > 0,
                      NEW k \in Edit!Fields \ Edit!Key(editor[e].command)
               PROVE  Edit!OneOf(disk.doc, k) = Edit!OneOf(disk'.doc, k)
    BY DEF Edit!OneFieldAtATime
  <2>1. Edit!Rename(e) /\ Sound(e)
    BY Publisher DEF EditInv
  <2>2. disk'.doc = editor[e].draft
    BY <2>1 DEF Edit!Rename
  <2>3. editor[e].token = disk.version
    BY <2>1 DEF Sound, Edit!Token
  <2>4. editor[e].draft = Edit!Changed(editor[e].command, disk.doc)
    BY <2>1, <2>3 DEF Sound
  <2>5. PICK c : c = editor[e].command
    OBVIOUS
  <2>6. PICK doc : doc = disk.doc
    OBVIOUS
  <2>7. c[1] \in {"set", "unset"} /\ k # c[2]
    BY <2>1, <2>5 DEF Edit!Key, Sound, Kinds, Working
  <2>8. Edit!OneOf(doc, k) = Edit!OneOf(Edit!Changed(c, doc), k)
    BY <2>7 DEF Edit!OneOf, Edit!Changed
  <2> QED BY <2>2, <2>4, <2>5, <2>6, <2>8
<1> QED BY <1>1, EditsAreSound, PTL DEF Edit!Spec

(* The file changes under the outside program, or when an editor that was  *)
(* asked for more than a preview ends with success: a preview, a refusal,  *)
(* a failed write and a kill leave it alone (cli/edit.rs).                 *)
THEOREM OnlySuccessWrites == ASSUME Begun PROVE Edit!Spec => [][Edit!OnlyDoneWrites]_(Edit!vars)
<1>1. EditInv /\ [Edit!Next]_(Edit!vars) => [Edit!OnlyDoneWrites]_(Edit!vars)
  <2> SUFFICES ASSUME EditInv, [Edit!Next]_(Edit!vars), disk' # disk PROVE Edit!OnlyDoneWrites
    BY DEF Edit!OnlyDoneWrites
  <2>1. Edit!Outside \/ \E e \in Editors : Edit!Rename(e)
    BY DEF Edit!Next, Edit!Step, Edit!Begin, Edit!Lock, Edit!Look, Edit!Read, Edit!Compare,
       Edit!WriteFails, Edit!Kill, Edit!vars
  <2>2. CASE Edit!Outside
    BY <2>2 DEF Edit!Outside, Edit!OnlyDoneWrites
  <2>3. ASSUME NEW e \in Editors, Edit!Rename(e) PROVE Edit!OnlyDoneWrites
    <3>1. Sound(e) /\ editor[e].pc = "rename" /\ ~editor[e].preview
      BY <2>3 DEF EditInv, Sound, Edit!Rename
    <3>2. editor'[e].pc = "done"
      BY <2>3, <3>1 DEF Edit!Rename, EditInv, Sound, Steps
    <3> QED BY <3>1, <3>2 DEF Edit!OnlyDoneWrites
  <2> QED BY <2>1, <2>2, <2>3
<1> QED BY <1>1, EditsAreSound, PTL DEF Edit!Spec

(* A file only editors have touched starts a server: every field of it,    *)
(* and all of them together, was read before it was published              *)
(* (cli/edit.rs).                                                          *)
THEOREM EditedFilesStart == ASSUME Begun PROVE Edit!Spec => []Edit!EditedFileStarts
<1>1. EditInv => Edit!EditedFileStarts
  BY DEF EditInv, Edit!EditedFileStarts, Edit!Reads
<1> QED BY <1>1, EditsAreSound, PTL

-----------------------------------------------------------------------------
(* The scheduler (sync/scheduler.rs), for every set of data sets, interval *)
(* and number of delays.                                                   *)

CONSTANTS Backend, Enabled, Delays, Periodic, MaxCycles
VARIABLES cycle, task, flights, chain
Sched == INSTANCE Scheduler

Labels == Sched!Labels
Flights == [registry : Nat, label : Labels]
Tasks == [at : {"none", "ready", "flying", "ended"}, retry : BOOLEAN]
Chains == [at : {"none", "delay", "flying"}, attempt : Nat, failures : Nat]
SchedTypes ==
  /\ cycle \in [pc : {"sleep", "run"}, n : Nat]
  /\ task \in [Labels -> Tasks] /\ chain \in [Labels -> Chains]
  /\ flights \subseteq Flights

(* A chain takes off only with a delay left.                               *)
Counted(l) ==
  /\ chain[l].attempt = chain[l].failures /\ chain[l].attempt <= Delays
  /\ chain[l].at = "flying" => chain[l].attempt < Delays
(* A registry has a flight for what flies under it.  Under the registry of *)
(* the first cycle cycle and chain take turns, and until that cycle ends   *)
(* there is no chain.                                                      *)
Flown(l) ==
  /\ \A r \in Nat : Sched!In(r, l) <=>
       \/ task[l].at = "flying" /\ r = Sched!Registry
       \/ chain[l].at = "flying" /\ r = 1
  /\ Sched!Registry = 1 => ~(task[l].at = "flying" /\ chain[l].at = "flying")
  /\ cycle.pc = "sleep" => task[l].at # "flying"
  /\ cycle.n = 0 \/ (cycle.n = 1 /\ cycle.pc = "run") => chain[l].at = "none"
SchedInv == SchedTypes /\ \A l \in Labels : Counted(l) /\ Flown(l)

LEMMA Verdicts == \A l : Sched!Outcomes(l) \subseteq BOOLEAN
<1>1. \A s : Sched!ShouldRetry(s) \in BOOLEAN
  BY SMT DEF Sched!ShouldRetry
<1>2. \A s, t : Sched!PairNeedsRetry(s, t) \in BOOLEAN
  BY Zenon DEF Sched!PairNeedsRetry
<1> QED BY <1>1, <1>2 DEF Sched!Outcomes

LEMMA SchedStep == SchedInv /\ Delays \in Nat /\ [Sched!Next]_(Sched!vars) => SchedInv'
<1> SUFFICES ASSUME SchedInv, Delays \in Nat, [Sched!Next]_(Sched!vars) PROVE SchedInv'
  OBVIOUS
<1>0. SchedTypes /\ Sched!Registry \in Nat
  BY DEF SchedInv, SchedTypes, Sched!Registry
<1>1. CASE Sched!BeginCycle
  <2>1. /\ cycle' = [pc |-> "run", n |-> cycle.n + 1] /\ UNCHANGED <<flights, chain>>
        /\ task' = [l \in Labels |-> IF l \in Sched!Own THEN [at |-> "ready", retry |-> FALSE]
                                     ELSE Sched!NoTask]
        /\ cycle.pc = "sleep"
    BY <1>1 DEF Sched!BeginCycle, Labels
  <2>2. SchedTypes'
    BY <1>0, <2>1 DEF SchedTypes, Tasks, Sched!NoTask
  <2>3. ASSUME NEW l \in Labels PROVE Counted(l)' /\ Flown(l)'
    <3>1. task[l].at # "flying" /\ task'[l].at # "flying" /\ cycle.n \in Nat
      BY <1>0, <2>1 DEF SchedInv, SchedTypes, Flown, Sched!NoTask
    <3>2. Counted(l)'
      BY <2>1 DEF SchedInv, Counted
    <3>3. \A r \in Nat : Sched!In(r, l)' <=> Sched!In(r, l)
      BY <2>1 DEF Sched!In
    <3>4. cycle'.n = cycle.n + 1 /\ cycle'.pc = "run"
      BY <2>1
    <3>5. cycle'.n = 1 => chain[l].at = "none"
      BY <3>1, <3>4 DEF SchedInv, Flown
    <3>6. Flown(l)'
      BY <2>1, <3>1, <3>3, <3>4, <3>5 DEF SchedInv, Flown
    <3> QED BY <3>2, <3>6
  <2> QED BY <2>2, <2>3 DEF SchedInv
<1>2. CASE Sched!EndCycle
  <2>1. /\ cycle.pc = "run" /\ cycle' = [cycle EXCEPT !.pc = "sleep"] /\ UNCHANGED flights
        /\ chain' = [l \in Labels |-> IF Sched!Arms(l)
                       THEN [at |-> "delay", attempt |-> 0, failures |-> 0] ELSE chain[l]]
        /\ task' = [l \in Labels |-> Sched!NoTask]
        /\ \A l \in Labels : task[l].at \in {"none", "ended"}
    BY <1>2 DEF Sched!EndCycle, Labels
  <2>2. SchedTypes'
    BY <1>0, <2>1 DEF SchedTypes, Tasks, Chains, Sched!NoTask
  <2>3. cycle'.n = cycle.n /\ cycle'.pc = "sleep" /\ Sched!Registry' = Sched!Registry
    BY <1>0, <2>1 DEF SchedTypes, Sched!Registry
  <2>4. ASSUME NEW l \in Labels PROVE Counted(l)' /\ Flown(l)'
    <3>1. task'[l].at = "none" /\ task[l].at # "flying" /\ Counted(l) /\ Flown(l)
      BY <2>1 DEF SchedInv, Sched!NoTask
    <3>2. \A r \in Nat : Sched!In(r, l)' <=> Sched!In(r, l)
      BY <2>1 DEF Sched!In
    <3>3. CASE Sched!Arms(l)
      <4>1. chain'[l] = [at |-> "delay", attempt |-> 0, failures |-> 0]
        BY <2>1, <3>3
      <4>2. chain[l].at = "none" /\ cycle.n = 1
        BY <2>1, <3>1, <3>3 DEF Sched!Arms, Flown
      <4> QED BY <2>3, <3>1, <3>2, <4>1, <4>2 DEF Counted, Flown
    <3>4. CASE ~Sched!Arms(l)
      <4>1. chain'[l] = chain[l]
        BY <2>1, <3>4
      <4> QED BY <2>1, <2>3, <3>1, <3>2, <4>1 DEF Counted, Flown
    <3> QED BY <3>3, <3>4
  <2> QED BY <2>2, <2>4 DEF SchedInv
<1>3. ASSUME NEW k \in Labels, Sched!Take(k) PROVE SchedInv'
  <2>1. cycle.pc = "run" /\ task[k].at = "ready" /\ UNCHANGED <<cycle, chain>>
    BY <1>3 DEF Sched!Take
  <2>2. Sched!Registry' = Sched!Registry /\ Flown(k)
    BY <2>1 DEF Sched!Registry, SchedInv
  <2>3. CASE task' = [task EXCEPT ![k].at = "ended"] /\ UNCHANGED flights
    <3>1. SchedTypes'
      BY <1>0, <2>1, <2>3 DEF SchedTypes, Tasks
    <3>2. \A l \in Labels : task'[l].at = IF l = k THEN "ended" ELSE task[l].at
      BY <1>0, <2>3 DEF SchedTypes, Tasks
    <3>3. ASSUME NEW l \in Labels PROVE Counted(l)' /\ Flown(l)'
      <4>1. \A r \in Nat : Sched!In(r, l)' <=> Sched!In(r, l)
        BY <2>3 DEF Sched!In
      <4> QED BY <2>1, <2>2, <3>2, <4>1 DEF SchedInv, Counted, Flown
    <3> QED BY <3>1, <3>3 DEF SchedInv
  <2>4. CASE /\ ~Sched!In(Sched!Registry, k) /\ task' = [task EXCEPT ![k].at = "flying"]
             /\ flights' = flights \cup {[registry |-> Sched!Registry, label |-> k]}
    <3>1. SchedTypes'
      BY <1>0, <2>1, <2>4 DEF SchedTypes, Tasks, Flights
    <3>2. \A l \in Labels : task'[l].at = IF l = k THEN "flying" ELSE task[l].at
      BY <1>0, <2>4 DEF SchedTypes, Tasks
    <3>3. \A r \in Nat, l \in Labels :
            Sched!In(r, l)' <=> Sched!In(r, l) \/ (r = Sched!Registry /\ l = k)
      BY <2>4 DEF Sched!In
    <3>4. Sched!Registry = 1 => chain[k].at # "flying"
      BY <1>0, <2>2, <2>4 DEF Flown
    <3>5. ASSUME NEW l \in Labels PROVE Counted(l)' /\ Flown(l)'
      BY <2>1, <2>2, <3>2, <3>3, <3>4 DEF SchedInv, Counted, Flown
    <3> QED BY <3>1, <3>5 DEF SchedInv
  <2> QED BY <1>3, <2>3, <2>4 DEF Sched!Take
<1>4. ASSUME NEW k \in Labels, Sched!Land(k) PROVE SchedInv'
  <2>1. PICK retry \in BOOLEAN : task' = [task EXCEPT ![k] = [at |-> "ended", retry |-> retry]]
    BY <1>4, Verdicts DEF Sched!Land
  <2>2. /\ task[k].at = "flying" /\ UNCHANGED <<cycle, chain>>
        /\ flights' = flights \ {[registry |-> Sched!Registry, label |-> k]}
    BY <1>4 DEF Sched!Land
  <2>3. Sched!Registry' = Sched!Registry /\ Flown(k)
    BY <2>2 DEF Sched!Registry, SchedInv
  <2>4. SchedTypes'
    BY <1>0, <2>1, <2>2 DEF SchedTypes, Tasks
  <2>5. \A l \in Labels : task'[l].at = IF l = k THEN "ended" ELSE task[l].at
    BY <1>0, <2>1 DEF SchedTypes, Tasks
  <2>6. \A r \in Nat, l \in Labels :
          Sched!In(r, l)' <=> Sched!In(r, l) /\ ~(r = Sched!Registry /\ l = k)
    BY <2>2 DEF Sched!In
  <2>7. ASSUME NEW l \in Labels PROVE Counted(l)' /\ Flown(l)'
    BY <2>2, <2>3, <2>5, <2>6 DEF SchedInv, Counted, Flown
  <2> QED BY <2>4, <2>7 DEF SchedInv
<1>5. ASSUME NEW k \in Labels, Sched!Wake(k) PROVE SchedInv'
  <2>1. chain[k].at = "delay" /\ UNCHANGED <<cycle, task>> /\ Flown(k) /\ chain[k].attempt \in Nat
    BY <1>0, <1>5 DEF Sched!Wake, SchedInv, SchedTypes, Chains
  <2>2. Sched!Registry' = Sched!Registry
    BY <2>1 DEF Sched!Registry
  <2>3. CASE UNCHANGED flights /\ \E at \in {"none", "delay"} : chain' = [chain EXCEPT ![k].at = at]
    <3>1. PICK at \in {"none", "delay"} : chain' = [chain EXCEPT ![k].at = at]
      BY <2>3
    <3>2. SchedTypes'
      BY <1>0, <2>1, <2>3, <3>1 DEF SchedTypes, Chains
    <3>3. \A l \in Labels : /\ chain'[l].at = IF l = k THEN at ELSE chain[l].at
                            /\ chain'[l].attempt = chain[l].attempt
                            /\ chain'[l].failures = chain[l].failures
      BY <1>0, <3>1 DEF SchedTypes, Chains
    <3>4. ASSUME NEW l \in Labels PROVE Counted(l)' /\ Flown(l)'
      <4>1. \A r \in Nat : Sched!In(r, l)' <=> Sched!In(r, l)
        BY <2>3 DEF Sched!In
      <4> QED BY <2>1, <2>2, <3>3, <4>1 DEF SchedInv, Counted, Flown
    <3> QED BY <3>2, <3>4 DEF SchedInv
  <2>4. CASE /\ ~Sched!In(1, k) /\ ~(chain[k].attempt >= Delays)
             /\ chain' = [chain EXCEPT ![k].at = "flying"]
             /\ flights' = flights \cup {[registry |-> 1, label |-> k]}
    <3>1. SchedTypes'
      BY <1>0, <2>1, <2>4 DEF SchedTypes, Chains, Flights
    <3>2. \A l \in Labels : /\ chain'[l].at = IF l = k THEN "flying" ELSE chain[l].at
                            /\ chain'[l].attempt = chain[l].attempt
                            /\ chain'[l].failures = chain[l].failures
      BY <1>0, <2>4 DEF SchedTypes, Chains
    <3>3. \A r \in Nat, l \in Labels : Sched!In(r, l)' <=> Sched!In(r, l) \/ (r = 1 /\ l = k)
      BY <2>4 DEF Sched!In
    <3>4. Sched!Registry = 1 => task[k].at # "flying"
      BY <1>0, <2>1, <2>4 DEF Flown
    <3>5. ASSUME NEW l \in Labels PROVE Counted(l)' /\ Flown(l)'
      <4>1. Counted(l)'
        BY <2>1, <2>4, <3>2 DEF SchedInv, Counted
      <4>2. Flown(l)'
        BY <2>1, <2>2, <3>2, <3>3, <3>4 DEF SchedInv, Flown
      <4> QED BY <4>1, <4>2
    <3> QED BY <3>1, <3>5 DEF SchedInv
  <2> QED BY <1>5, <2>3, <2>4 DEF Sched!Wake, Sched!Again, Sched!First
<1>6. ASSUME NEW k \in Labels, Sched!Return(k) PROVE SchedInv'
  <2>1. PICK retry \in BOOLEAN : chain' = [chain EXCEPT ![k] =
          IF retry THEN [at |-> "delay", attempt |-> chain[k].attempt + 1,
                         failures |-> chain[k].failures + 1]
          ELSE [chain[k] EXCEPT !.at = "none"]]
    BY <1>6, Verdicts DEF Sched!Return
  <2>2. /\ chain[k].at = "flying" /\ UNCHANGED <<cycle, task>>
        /\ flights' = flights \ {[registry |-> 1, label |-> k]}
    BY <1>6 DEF Sched!Return, Sched!First
  <2>3. Sched!Registry' = Sched!Registry /\ Flown(k) /\ Counted(k) /\ chain[k] \in Chains
    BY <1>0, <2>2 DEF Sched!Registry, SchedInv, SchedTypes
  <2>4. PICK n \in Chains :
          /\ chain' = [chain EXCEPT ![k] = n] /\ n.at # "flying"
          /\ n.attempt = n.failures /\ n.attempt <= Delays
    <3>1. CASE retry
      <4>1. [at |-> "delay", attempt |-> chain[k].attempt + 1,
             failures |-> chain[k].failures + 1] \in Chains
        BY <2>3 DEF Chains
      <4>2. chain[k].attempt + 1 <= Delays /\ chain[k].attempt = chain[k].failures
        BY <2>2, <2>3 DEF Counted, Chains
      <4> QED BY <2>1, <3>1, <4>1, <4>2
    <3>2. CASE ~retry
      <4>1. [chain[k] EXCEPT !.at = "none"] \in Chains
        BY <2>3 DEF Chains
      <4>2. PICK n \in Chains : n = [chain[k] EXCEPT !.at = "none"]
        BY <4>1
      <4>3. n.at = "none" /\ n.attempt = chain[k].attempt /\ n.failures = chain[k].failures
        BY <2>3, <4>2 DEF Chains
      <4>4. chain' = [chain EXCEPT ![k] = n]
        BY <2>1, <3>2, <4>2
      <4> QED BY <2>3, <4>3, <4>4 DEF Counted
    <3> QED BY <3>1, <3>2
  <2>5. SchedTypes'
    BY <1>0, <2>2, <2>4 DEF SchedTypes
  <2>6. \A l \in Labels : chain'[l] = IF l = k THEN n ELSE chain[l]
    BY <1>0, <2>4 DEF SchedTypes
  <2>7. \A r \in Nat, l \in Labels : Sched!In(r, l)' <=> Sched!In(r, l) /\ ~(r = 1 /\ l = k)
    BY <2>2 DEF Sched!In
  <2>8. ASSUME NEW l \in Labels PROVE Counted(l)' /\ Flown(l)'
    <3>1. Counted(l)'
      BY <2>4, <2>6 DEF SchedInv, Counted
    <3>2. Flown(l)'
      BY <2>2, <2>3, <2>4, <2>6, <2>7 DEF SchedInv, Flown
    <3> QED BY <3>1, <3>2
  <2> QED BY <2>5, <2>8 DEF SchedInv
<1>7. CASE UNCHANGED Sched!vars
  BY <1>7 DEF Sched!vars, SchedInv, SchedTypes, Counted, Flown, Sched!In, Sched!Registry
<1> QED BY <1>1, <1>2, <1>3, <1>4, <1>5, <1>6, <1>7 DEF Sched!Next, Labels

LEMMA SchedHolds == Delays \in Nat => (Sched!Spec => []SchedInv)
<1> SUFFICES ASSUME Delays \in Nat PROVE Sched!Spec => []SchedInv
  OBVIOUS
<1>1. Sched!Init => SchedInv
  BY DEF Sched!Init, SchedInv, SchedTypes, Counted, Flown, Tasks, Chains, Flights, Labels,
     Sched!NoTask, Sched!NoChain, Sched!In
<1>2. SchedInv /\ [Sched!Next]_(Sched!vars) => SchedInv'
  BY SchedStep
<1> QED BY <1>1, <1>2, PTL DEF Sched!Spec

(* A delay of a retry chain is used up by a failure and by nothing else:   *)
(* not by a synchronization of the same data set that was under way        *)
(* (sync/scheduler.rs).                                                    *)
THEOREM DelaysNeedFailures == ASSUME Delays \in Nat PROVE Sched!Spec => []Sched!DelaysAreForFailures
<1>1. SchedInv => Sched!DelaysAreForFailures
  BY DEF SchedInv, Counted, Labels, Sched!DelaysAreForFailures
<1> QED BY <1>1, SchedHolds, PTL

(* A registry has a flight for exactly the synchronizations that run under *)
(* it, so none is locked out by one that has ended (sync/scheduler.rs).    *)
THEOREM FlightsAreCurrent == ASSUME Delays \in Nat PROVE Sched!Spec => []Sched!FlightsAreReal
<1>1. SchedInv => Sched!FlightsAreReal
  <2> SUFFICES ASSUME SchedInv PROVE Sched!FlightsAreReal
    OBVIOUS
  <2>1. flights \subseteq Flights /\ Sched!Registry \in Nat
    BY DEF SchedInv, SchedTypes, Sched!Registry
  <2>2. \A r \in Nat, l \in Labels : [registry |-> r, label |-> l] \in flights <=>
          (task[l].at = "flying" /\ r = Sched!Registry) \/ (chain[l].at = "flying" /\ r = 1)
    BY DEF SchedInv, Flown, Sched!In
  <2>3. \A f \in Flights : f = [registry |-> f.registry, label |-> f.label]
                           /\ f.registry \in Nat /\ f.label \in Labels
    BY DEF Flights
  <2> DEFINE own == {[registry |-> Sched!Registry, label |-> l] :
                       l \in {k \in Labels : task[k].at = "flying"}}
             old == {[registry |-> 1, label |-> l] : l \in {k \in Labels : chain[k].at = "flying"}}
  <2>4. ASSUME NEW f \in flights PROVE f \in own \cup old
    BY <2>1, <2>2, <2>3
  <2>5. ASSUME NEW f \in own \cup old PROVE f \in flights
    BY <2>1, <2>2
  <2> QED BY <2>4, <2>5 DEF Sched!FlightsAreReal, Sched!First, Labels
<1> QED BY <1>1, SchedHolds, PTL

-----------------------------------------------------------------------------
(* The endpoint of local administration (control/unix.rs), for every set   *)
(* of servers, however they start, stop and end, and whatever else happens *)
(* to the socket file.                                                     *)

CONSTANTS Servers, InstanceOf, Clients, Foreign, Mappings, Raw, Permits, Cleaning, MaxLives, MaxConns
VARIABLES endpoint, private, ownership, process, startups, conns, client, effects
Control == INSTANCE ManagementServer
             WITH lock <- ownership, server <- process, starts <- startups, MaxStarts <- MaxLives
ControlSpec == Control!Init /\ [][Control!Next]_(Control!vars)

(* The stages of a server at which it holds the ownership lock, from       *)
(* before it looks at the path until after its socket is gone.             *)
Owners == {"looking", "probing", "removing", "binding", "listening", "unlinking", "closing"}
Stages == Owners \cup {"off", "owning"}
Staged(s) == process[s].pc \in Stages /\ DOMAIN process[s] = {"pc", "startup", "free"}
Locked(s) == process[s].pc \in Owners => ownership = s
ControlInv ==
  /\ DOMAIN process = Servers
  /\ \A s \in Servers : Staged(s) /\ Locked(s)

LEMMA Moving ==
  ASSUME ControlInv, NEW s \in Servers, NEW to \in Stages, Control!Move(s, to)
  PROVE  /\ DOMAIN process' = Servers
         /\ \A t \in Servers : Staged(t)' /\ process'[t].pc = IF t = s THEN to ELSE process[t].pc
BY DEF Control!Move, ControlInv, Staged

(* A server on its way to its listener, or from it.                        *)
Climbs(s) ==
  \/ Control!Own(s) \/ Control!Look(s) \/ Control!Probe(s) \/ Control!Remove(s) \/ Control!Bind(s)
  \/ Control!Unlink(s)
LEMMA Climbing ==
  ASSUME NEW s \in Servers, Climbs(s)
  PROVE  \/ Control!Move(s, "off") /\ process[s].pc = "owning" /\ UNCHANGED ownership
         \/ Control!Move(s, "looking") /\ ownership = "none" /\ ownership' = s
         \/ Control!Move(s, "off") /\ process[s].pc \in Owners /\ ownership' = "none"
         \/ /\ process[s].pc \in Owners /\ UNCHANGED ownership
            /\ \E to \in Owners : Control!Move(s, to)
BY DEF Climbs, Control!Own, Control!Look, Control!Probe, Control!Remove, Control!Bind,
   Control!Unlink, Control!GivesUp, Owners

LEMMA ControlStep ==
  ControlInv /\ "none" \notin Servers /\ [Control!Next]_(Control!vars) => ControlInv'
<1> SUFFICES ASSUME ControlInv, "none" \notin Servers, [Control!Next]_(Control!vars)
             PROVE  ControlInv'
  OBVIOUS
<1>1. ASSUME NEW s \in Servers, Control!StartServer(s) PROVE ControlInv'
  <2>1. ownership' = ownership /\ DOMAIN process' = Servers
        /\ \A t \in Servers : IF t = s THEN process'[t] = [pc |-> "owning", startup |-> startups + 1,
                                                           free |-> Permits]
                              ELSE process'[t] = process[t]
    BY <1>1 DEF Control!StartServer, ControlInv
  <2>2. \A t \in Servers : Staged(t)' /\ Locked(t)'
    BY <2>1 DEF ControlInv, Staged, Locked, Stages, Owners
  <2> QED BY <2>1, <2>2 DEF ControlInv
<1>2. ASSUME NEW s \in Servers, Climbs(s) PROVE ControlInv'
  <2>1. CASE Control!Move(s, "off") /\ process[s].pc = "owning" /\ UNCHANGED ownership
    <3>1. "off" \in Stages /\ "off" \notin Owners
      BY DEF Stages, Owners
    <3> QED BY <2>1, <3>1, Moving DEF ControlInv, Locked
  <2>2. CASE Control!Move(s, "looking") /\ ownership = "none" /\ ownership' = s
    <3>1. "looking" \in Stages
      BY DEF Stages, Owners
    <3> QED BY <2>2, <3>1, Moving DEF ControlInv, Locked
  <2>3. CASE Control!Move(s, "off") /\ process[s].pc \in Owners /\ ownership' = "none"
    <3>1. "off" \in Stages /\ "off" \notin Owners
      BY DEF Stages, Owners
    <3> QED BY <2>3, <3>1, Moving DEF ControlInv, Locked
  <2>4. CASE /\ process[s].pc \in Owners /\ UNCHANGED ownership
             /\ \E to \in Owners : Control!Move(s, to)
    <3>1. PICK to \in Owners : Control!Move(s, to)
      BY <2>4
    <3>2. to \in Stages
      BY DEF Stages
    <3> QED BY <2>4, <3>1, <3>2, Moving DEF ControlInv, Locked
  <2> QED BY <1>2, <2>1, <2>2, <2>3, <2>4, Climbing
<1>3. ASSUME NEW s \in Servers, Control!DropListener(s) PROVE ControlInv'
  <2>1. ownership' = ownership /\ process[s].pc = "listening" /\ DOMAIN process' = Servers
        /\ \A t \in Servers : /\ DOMAIN process'[t] = DOMAIN process[t]
                              /\ IF t = s THEN process'[t].pc \in {"unlinking", "closing"}
                                 ELSE process'[t].pc = process[t].pc
    BY <1>3 DEF Control!DropListener, ControlInv, Staged
  <2>2. \A t \in Servers : Staged(t)' /\ Locked(t)'
    BY <2>1 DEF ControlInv, Staged, Locked, Stages, Owners
  <2> QED BY <2>1, <2>2 DEF ControlInv
<1>4. ASSUME NEW s \in Servers, Control!CloseListener(s) PROVE ControlInv'
  <2>1. Control!Move(s, "off") /\ process[s].pc = "closing" /\ ownership' = "none"
        /\ "off" \in Stages /\ "off" \notin Owners /\ "closing" \in Owners
    BY <1>4 DEF Control!CloseListener, Stages, Owners
  <2> QED BY <2>1, Moving DEF ControlInv, Locked
<1>5. ASSUME NEW s \in Servers, Control!Exit(s) PROVE ControlInv'
  <2>1. ownership' = (IF ownership = s THEN "none" ELSE ownership) /\ DOMAIN process' = Servers
        /\ \A t \in Servers : process'[t] = IF t = s THEN [pc |-> "off", startup |-> 0, free |-> 0]
                                            ELSE process[t]
    BY <1>5 DEF Control!Exit, Control!NoServer, ControlInv
  <2>2. \A t \in Servers : Staged(t)' /\ Locked(t)'
    BY <2>1 DEF ControlInv, Staged, Locked, Stages, Owners
  <2> QED BY <2>1, <2>2 DEF ControlInv
(* A connection takes and returns permits.                                 *)
<1>6. ASSUME NEW i \in DOMAIN conns,
             Control!Accept(i) \/ Control!Receive(i) \/ Control!Respond(i) \/ Control!Send(i)
               \/ Control!TimesOut(i)
      PROVE  ControlInv'
  <2>1. /\ ownership' = ownership
        /\ UNCHANGED process \/ \E s, n : process' = [process EXCEPT ![s].free = n]
    BY <1>6 DEF Control!Accept, Control!Receive, Control!Respond, Control!Send, Control!TimesOut
  <2>2. DOMAIN process' = Servers
        /\ \A t \in Servers : /\ DOMAIN process'[t] = DOMAIN process[t]
                              /\ process'[t].pc = process[t].pc
    BY <2>1 DEF ControlInv, Staged
  <2> QED BY <2>1, <2>2 DEF ControlInv, Staged, Locked
<1>7. ASSUME UNCHANGED <<ownership, process>> PROVE ControlInv'
  BY <1>7 DEF ControlInv, Staged, Locked
<1>8. ASSUME NEW c \in Clients,
             \/ \E command \in {"read", "write"}, s \in Servers : Control!Begin(c, command, InstanceOf[s])
             \/ Control!Exchange(c) \/ Control!SendRaw(c) \/ Control!Hears(c) \/ Control!Leaves(c)
      PROVE  UNCHANGED <<ownership, process>>
  BY <1>8 DEF Control!Begin, Control!Exchange, Control!SendRaw, Control!Hears, Control!Leaves,
     Control!Connects
<1>9. Control!Clean \/ UNCHANGED Control!vars => UNCHANGED <<ownership, process>>
  BY DEF Control!Clean, Control!vars
<1> QED BY <1>1, <1>2, <1>3, <1>4, <1>5, <1>6, <1>7, <1>8, <1>9 DEF Control!Next, Climbs

LEMMA ControlHolds == "none" \notin Servers => (ControlSpec => []ControlInv)
<1> SUFFICES ASSUME "none" \notin Servers PROVE ControlSpec => []ControlInv
  OBVIOUS
<1>1. Control!Init => ControlInv
  BY DEF Control!Init, Control!NoServer, ControlInv, Staged, Locked, Stages, Owners
<1> QED BY <1>1, ControlStep, PTL DEF ControlSpec

(* Two servers never answer on one path, and none of them takes away the   *)
(* socket of another (control/unix.rs).                                    *)
THEOREM PathHasOneServer ==
  ASSUME "none" \notin Servers PROVE ControlSpec => []Control!OneListener
<1>1. ControlInv => Control!OneListener
  BY DEF ControlInv, Locked, Owners, Control!OneListener
<1> QED BY <1>1, ControlHolds, PTL

(* A server that starts or stops leaves the socket of a listening one      *)
(* where it is; only something else can remove it (control/unix.rs).       *)
THEOREM SocketIsLeftAlone ==
  ASSUME "none" \notin Servers PROVE ControlSpec => [][Control!SocketStays]_(Control!vars)
<1>1. ControlInv /\ [Control!Next]_(Control!vars) => [Control!SocketStays]_(Control!vars)
  <2> SUFFICES ASSUME ControlInv, Control!Next, NEW s \in Servers, process[s].pc = "listening",
                      endpoint' # endpoint
               PROVE  Control!Clean
    BY DEF Control!SocketStays, Control!vars
  <2>1. ASSUME NEW t \in Servers, Control!Remove(t) \/ Control!Bind(t) \/ Control!Unlink(t)
        PROVE  FALSE
    <3>1. process[t].pc \in Owners \ {"listening"}
      BY <2>1 DEF Control!Remove, Control!Bind, Control!Unlink, Owners
    <3>2. ownership = t /\ ownership = s
      BY <3>1 DEF ControlInv, Locked, Owners
    <3> QED BY <3>1, <3>2
  <2>2. ASSUME NEW t \in Servers,
               \/ Control!StartServer(t) \/ Control!Own(t) \/ Control!Look(t) \/ Control!Probe(t)
               \/ Control!DropListener(t) \/ Control!CloseListener(t) \/ Control!Exit(t)
        PROVE  FALSE
    BY <2>2 DEF Control!StartServer, Control!Own, Control!Look, Control!Probe, Control!GivesUp,
       Control!DropListener, Control!CloseListener, Control!Exit
  <2>3. ASSUME NEW i \in DOMAIN conns,
               Control!Accept(i) \/ Control!Receive(i) \/ Control!Respond(i) \/ Control!Send(i)
               \/ Control!TimesOut(i)
        PROVE  FALSE
    BY <2>3 DEF Control!Accept, Control!Receive, Control!Respond, Control!Send, Control!TimesOut
  <2>4. ASSUME NEW c \in Clients,
               \/ \E command \in {"read", "write"}, t \in Servers :
                    Control!Begin(c, command, InstanceOf[t])
               \/ Control!Exchange(c) \/ Control!SendRaw(c) \/ Control!Hears(c) \/ Control!Leaves(c)
        PROVE  FALSE
    BY <2>4 DEF Control!Begin, Control!Exchange, Control!SendRaw, Control!Hears, Control!Leaves,
       Control!Connects
  <2> QED BY <2>1, <2>2, <2>3, <2>4 DEF Control!Next
<1> QED BY <1>1, ControlHolds, PTL DEF ControlSpec

(* The connections a server has given a permit, and what it has left.      *)
Busy == {"reading", "working", "sending"}
Held == Busy \cup {"backlog"}
Fields == {"pc", "live", "owner", "client", "answer", "request"}
Work(s) == {i \in DOMAIN conns : conns[i].owner = s /\ conns[i].pc \in Busy}
Paid(s) ==
  /\ process[s].free \in Int
  /\ process[s].pc # "off" => process[s].free + Cardinality(Work(s)) = Permits
Linked(i) == DOMAIN conns[i] = Fields /\ (conns[i].pc \in Held <=> conns[i].owner \in Servers)
PermitInv ==
  /\ \E S : conns \in Seq(S)
  /\ \A i \in DOMAIN conns : Linked(i)
  /\ \A s \in Servers : Paid(s)
Administered == "none" \notin Servers /\ Permits \in Nat

LEMMA WorkIsFinite ==
  ASSUME NEW S, conns \in Seq(S), NEW T, T \subseteq DOMAIN conns
  PROVE  IsFiniteSet(T) /\ Cardinality(T) \in Nat
<1>1. DOMAIN conns = 1..Len(conns) /\ Len(conns) \in Nat
  OBVIOUS
<1>2. IsFiniteSet(DOMAIN conns)
  BY <1>1, FS_Interval
<1>3. IsFiniteSet(T)
  BY <1>2, FS_Subset
<1> QED BY <1>3, FS_CardinalityType

(* One connection changes, and its server takes or gives a permit.         *)
Toll(i, s) == IF i \in Work(s) THEN 1 ELSE 0
OneServed(i, s) ==
  /\ \E S : conns' \in Seq(S)
  /\ DOMAIN conns' = DOMAIN conns
  /\ \A j \in DOMAIN conns : j # i => conns'[j] = conns[j]
  /\ Linked(i)'
  /\ conns[i].owner = s /\ conns'[i].owner \in {s, "none"}
  /\ \A t \in Servers : process'[t].pc = process[t].pc
                        /\ (t # s => process'[t].free = process[t].free)
  /\ process'[s].free = process[s].free + Toll(i, s) - Toll(i, s)'

LEMMA ServedCounts ==
  ASSUME PermitInv, Administered, NEW i \in DOMAIN conns, NEW s \in Servers, OneServed(i, s)
  PROVE  PermitInv'
<1>1. \A j \in DOMAIN conns' : Linked(j)'
  BY DEF PermitInv, OneServed, Linked
<1>2. ASSUME NEW t \in Servers, t # s PROVE Paid(t)'
  <2>1. Work(t)' = Work(t)
    BY <1>2 DEF OneServed, Work, Administered
  <2> QED BY <1>2, <2>1 DEF OneServed, Paid, PermitInv
<1>3. Paid(s)'
  <2>1. Work(s) \ {i} = Work(s)' \ {i} /\ DOMAIN conns' = DOMAIN conns
    BY DEF OneServed, Work
  <2>2. PICK S : conns \in Seq(S)
    BY DEF PermitInv
  <2>3. IsFiniteSet(Work(s)) /\ Cardinality(Work(s)) \in Nat
    BY <2>2, WorkIsFinite DEF Work
  <2>4. PICK w : w = Work(s)'
    OBVIOUS
  <2>5. IsFiniteSet(w) /\ Cardinality(w) \in Nat
    BY <2>1, <2>2, <2>4, WorkIsFinite DEF Work
  <2>6. Cardinality(w) = Cardinality(Work(s)) - Toll(i, s) + (IF i \in w THEN 1 ELSE 0)
    <3>1. CASE i \in Work(s) /\ i \notin w
      <4>1. w = Work(s) \ {i}
        BY <2>1, <2>4, <3>1
      <4>2. Cardinality(w) = Cardinality(Work(s)) - 1
        BY ONLY <2>3, <3>1, <4>1, FS_RemoveElement
      <4>3. Toll(i, s) = 1 /\ (IF i \in w THEN 1 ELSE 0) = 0
        BY ONLY <3>1 DEF Toll
      <4> QED BY ONLY <2>3, <2>5, <4>2, <4>3
    <3>2. CASE i \notin Work(s) /\ i \in w
      <4>1. Work(s) = w \ {i}
        BY <2>1, <2>4, <3>2
      <4>2. Cardinality(Work(s)) = Cardinality(w) - 1
        BY ONLY <2>5, <3>2, <4>1, FS_RemoveElement
      <4>3. Toll(i, s) = 0 /\ (IF i \in w THEN 1 ELSE 0) = 1
        BY ONLY <3>2 DEF Toll
      <4> QED BY ONLY <2>3, <2>5, <4>2, <4>3
    <3>3. CASE i \in Work(s) <=> i \in w
      <4>1. Work(s) = w
        BY <2>1, <2>4, <3>3
      <4> QED BY <2>3, <3>3, <4>1 DEF Toll
    <3> QED BY <3>1, <3>2, <3>3
  <2>7. Toll(i, s)' = IF i \in w THEN 1 ELSE 0
    BY <2>4 DEF Toll
  <2>8. process'[s].free = process[s].free + Toll(i, s) - (IF i \in w THEN 1 ELSE 0)
        /\ process'[s].pc = process[s].pc
    BY <2>7 DEF OneServed
  <2>9. Toll(i, s) \in Int /\ (IF i \in w THEN 1 ELSE 0) \in Int /\ process[s].free \in Int
    BY DEF Toll, PermitInv, Paid
  <2>10. process'[s].free \in Int
         /\ process'[s].free + Cardinality(w) = process[s].free + Cardinality(Work(s))
    <3>1. PICK a \in Int, b \in Int, f \in Int : a = Toll(i, s) /\ b = (IF i \in w THEN 1 ELSE 0)
                                               /\ f = process[s].free
      BY <2>9
    <3>2. process'[s].free = f + a - b /\ Cardinality(w) = Cardinality(Work(s)) - a + b
      BY <2>6, <2>8, <3>1
    <3> QED BY <2>3, <3>1, <3>2
  <2>11. process[s].pc # "off" => process[s].free + Cardinality(Work(s)) = Permits
    BY DEF PermitInv, Paid
  <2>12. process'[s].pc # "off" => process'[s].free + Cardinality(Work(s)') = Permits
    BY <2>4, <2>8, <2>10, <2>11
  <2> QED BY <2>10, <2>12 DEF Paid
<1> QED BY <1>1, <1>2, <1>3 DEF PermitInv, OneServed

(* An element of a sequence changes.                                       *)
LEMMA OneElement ==
  ASSUME NEW S, conns \in Seq(S), NEW i \in DOMAIN conns, NEW n, conns' = [conns EXCEPT ![i] = n]
  PROVE  /\ \E T : conns' \in Seq(T)
         /\ DOMAIN conns' = DOMAIN conns /\ conns'[i] = n
         /\ \A j \in DOMAIN conns : j # i => conns'[j] = conns[j]
<1>1. conns \in Seq(S \cup {n})
  OBVIOUS
<1>2. conns' \in Seq(S \cup {n}) /\ DOMAIN conns' = DOMAIN conns /\ conns'[i] = n
      /\ \A j \in DOMAIN conns : j # i => conns'[j] = conns[j]
  BY <1>1
<1> QED BY <1>2

LEMMA OneFree ==
  ASSUME ControlInv, NEW s \in Servers, NEW n, process' = [process EXCEPT ![s].free = n]
  PROVE  /\ process'[s].free = n
         /\ \A t \in Servers : process'[t].pc = process[t].pc
                               /\ (t # s => process'[t].free = process[t].free)
BY DEF ControlInv, Staged

(* What a step of a connection i of s is: it becomes n and d permits return. *)
Taken(at) == IF at \in Busy THEN 1 ELSE 0
Passes(i, s, n, d) ==
  /\ conns' = [conns EXCEPT ![i] = n] /\ DOMAIN n = Fields
  /\ conns[i].owner = s
  /\ \/ n.pc \in Held /\ n.owner = s
     \/ n.pc \notin Held /\ n.owner = "none"
  /\ \/ process' = [process EXCEPT ![s].free = process[s].free + d]
     \/ d = 0 /\ UNCHANGED process
  /\ d = Taken(conns[i].pc) - Taken(n.pc)

LEMMA Passing ==
  ASSUME ControlInv, PermitInv, Administered, NEW i \in DOMAIN conns, NEW s \in Servers, NEW n,
         NEW d \in {-1, 0, 1}, Passes(i, s, n, d)
  PROVE  PermitInv'
<1>1. PICK S : conns \in Seq(S)
  BY DEF PermitInv
<1>2. /\ \E T : conns' \in Seq(T)
      /\ DOMAIN conns' = DOMAIN conns /\ conns'[i] = n
      /\ \A j \in DOMAIN conns : j # i => conns'[j] = conns[j]
  BY <1>1, OneElement DEF Passes
<1>3. n.owner \in {s, "none"} /\ DOMAIN n = Fields /\ (n.pc \in Held <=> n.owner \in Servers)
      /\ (n.pc \in Busy => n.owner = s) /\ conns[i].owner = s
  BY DEF Passes, Administered, Held
<1>4. Linked(i)'
  BY <1>2, <1>3 DEF Linked
<1>5. process[s].free \in Int
  BY DEF PermitInv, Paid
<1>6. /\ process'[s].free = process[s].free + d
      /\ \A t \in Servers : process'[t].pc = process[t].pc
                            /\ (t # s => process'[t].free = process[t].free)
  <2>1. CASE process' = [process EXCEPT ![s].free = process[s].free + d]
    <3>1. PICK f : f = process[s].free + d
      OBVIOUS
    <3>2. process' = [process EXCEPT ![s].free = f]
      BY <2>1, <3>1
    <3> QED BY <3>1, <3>2, OneFree
  <2>2. CASE d = 0 /\ UNCHANGED process
    BY <1>5, <2>2
  <2> QED BY <2>1, <2>2 DEF Passes
<1>7. Toll(i, s) = Taken(conns[i].pc) /\ Toll(i, s)' = Taken(n.pc)
  <2>1. (i \in Work(s) <=> conns[i].pc \in Busy) /\ (i \in Work(s)' <=> n.pc \in Busy)
    BY <1>2, <1>3 DEF Work
  <2> QED BY <2>1 DEF Toll, Taken
<1>8. Taken(conns[i].pc) \in Int /\ Taken(n.pc) \in Int
  BY DEF Taken
<1>9. process'[s].free = process[s].free + Toll(i, s) - Toll(i, s)'
  BY <1>5, <1>6, <1>7, <1>8 DEF Passes
<1>10. OneServed(i, s)
  BY <1>2, <1>3, <1>4, <1>6, <1>9 DEF OneServed
<1> QED BY <1>10, ServedCounts

LEMMA ConnectionStep ==
  ASSUME ControlInv, PermitInv, Administered, NEW i \in DOMAIN conns,
         Control!Accept(i) \/ Control!Receive(i) \/ Control!Respond(i) \/ Control!Send(i)
               \/ Control!TimesOut(i)
  PROVE  PermitInv'
<1>1. conns[i].pc \in Held /\ Linked(i)
  BY DEF Control!Accept, Control!Receive, Control!Respond, Control!Send, Control!TimesOut, Held, Busy, PermitInv
<1>2. PICK s \in Servers : s = conns[i].owner
  BY <1>1 DEF Linked
<1>3. DOMAIN conns[i] = Fields /\ process[s].free \in Int
  BY <1>1 DEF Linked, PermitInv, Paid
<1>4. PICK closed : closed = Control!Closed /\ DOMAIN closed = Fields /\ closed.pc \notin Held
                    /\ closed.owner = "none" /\ Taken(closed.pc) = 0
  <2>1. DOMAIN Control!Closed = Fields /\ Control!Closed.pc = "closed" /\ Control!Closed.owner = "none"
    BY DEF Control!Closed, Fields
  <2>2. Control!Closed.pc \notin Held /\ Taken(Control!Closed.pc) = 0
    BY <2>1 DEF Held, Busy, Taken
  <2> QED BY <2>1, <2>2
<1>5. \A at \in Busy : at \in Held /\ Taken(at) = 1
  BY DEF Held, Taken
<1>6. CASE Control!Accept(i)
  <2>1. conns[i].pc = "backlog" /\ Taken(conns[i].pc) = 0
    BY <1>6 DEF Control!Accept, Taken, Busy
  <2>2. CASE conns' = [conns EXCEPT ![i] = Control!Closed] /\ UNCHANGED process
    <3>1. Passes(i, s, closed, 0)
      BY <1>2, <1>4, <2>1, <2>2 DEF Passes
    <3> QED BY <3>1, Passing
  <2>3. CASE conns' = [conns EXCEPT ![i].pc = "reading"]
             /\ process' = [process EXCEPT ![s].free = process[s].free - 1]
    <3>1. PICK n : n = [conns[i] EXCEPT !.pc = "reading"]
      OBVIOUS
    <3>2. DOMAIN n = Fields /\ n.pc = "reading" /\ n.owner = s /\ "reading" \in Busy
      BY <1>2, <1>3, <3>1 DEF Fields, Busy
    <3>3. conns' = [conns EXCEPT ![i] = n]
      BY <2>3, <3>1
    <3>4. process' = [process EXCEPT ![s].free = process[s].free + (-1)]
      BY <1>3, <2>3
    <3>5. Passes(i, s, n, -1)
      BY <1>2, <1>5, <2>1, <3>2, <3>3, <3>4 DEF Passes
    <3> QED BY <3>5, Passing
  <2> QED BY <1>2, <1>6, <2>2, <2>3 DEF Control!Accept
<1>7. CASE Control!Receive(i)
  <2>1. conns[i].pc = "reading" /\ Taken(conns[i].pc) = 1
    BY <1>7 DEF Control!Receive, Taken, Busy
  <2>2. CASE conns' = [conns EXCEPT ![i].pc = "working"] /\ UNCHANGED process
    <3>1. PICK n : n = [conns[i] EXCEPT !.pc = "working"]
      OBVIOUS
    <3>2. DOMAIN n = Fields /\ n.pc = "working" /\ n.owner = s /\ "working" \in Busy
      BY <1>2, <1>3, <3>1 DEF Fields, Busy
    <3>3. conns' = [conns EXCEPT ![i] = n]
      BY <2>2, <3>1
    <3>4. n.pc \in Held /\ 0 = Taken(conns[i].pc) - Taken(n.pc)
      BY <1>5, <2>1, <3>2
    <3>5. Passes(i, s, n, 0)
      BY <1>2, <2>2, <3>2, <3>3, <3>4 DEF Passes
    <3> QED BY <3>5, Passing
  <2>3. CASE /\ conns' = [conns EXCEPT ![i] = Control!Closed]
             /\ process' = [process EXCEPT ![s].free = process[s].free + 1]
    <3>1. Passes(i, s, closed, 1)
      BY <1>2, <1>4, <2>1, <2>3 DEF Passes
    <3> QED BY <3>1, Passing
  <2> QED BY <1>2, <1>7, <2>2, <2>3 DEF Control!Receive
<1>8. CASE Control!Respond(i)
  <2>1. conns[i].pc = "working" /\ Taken(conns[i].pc) = 1
        /\ process' = IF conns[i].live THEN process
                      ELSE [process EXCEPT ![s].free = process[s].free + 1]
    BY <1>2, <1>8 DEF Control!Respond, Taken, Busy
  <2>2. CASE ~conns[i].live
    <3>1. conns' = [conns EXCEPT ![i] = Control!Closed]
      BY <1>8, <2>2 DEF Control!Respond
    <3>2. Passes(i, s, closed, 1)
      BY <1>2, <1>4, <2>1, <2>2, <3>1 DEF Passes
    <3> QED BY <3>2, Passing
  <2>3. CASE conns[i].live
    <3>1. PICK a : conns' = [conns EXCEPT ![i] = [conns[i] EXCEPT !.pc = "sending", !.answer = a]]
      BY <1>8, <2>3 DEF Control!Respond
    <3>2. PICK n : n = [conns[i] EXCEPT !.pc = "sending", !.answer = a]
      OBVIOUS
    <3>3. DOMAIN n = Fields /\ n.pc = "sending" /\ n.owner = s /\ "sending" \in Busy
      BY <1>2, <1>3, <3>2 DEF Fields, Busy
    <3>4. conns' = [conns EXCEPT ![i] = n]
      BY <3>1, <3>2
    <3>5. n.pc \in Held /\ 0 = Taken(conns[i].pc) - Taken(n.pc)
      BY <1>5, <2>1, <3>3
    <3>6. Passes(i, s, n, 0)
      BY <1>2, <2>1, <2>3, <3>3, <3>4, <3>5 DEF Passes
    <3> QED BY <3>6, Passing
  <2> QED BY <2>2, <2>3
<1>9. CASE Control!TimesOut(i)
  <2>1. PICK n : n = [conns[i] EXCEPT !.live = FALSE]
    OBVIOUS
  <2>2. conns' = [conns EXCEPT ![i] = n] /\ UNCHANGED process /\ conns[i].pc = "working"
    BY <1>9, <2>1 DEF Control!TimesOut
  <2>3. DOMAIN n = Fields /\ n.pc = "working" /\ n.owner = s /\ "working" \in Busy
    BY <1>2, <1>3, <2>1, <2>2 DEF Fields, Busy
  <2>4. Passes(i, s, n, 0)
    BY <1>2, <1>5, <2>2, <2>3 DEF Passes
  <2> QED BY <2>4, Passing
<1>10. CASE Control!Send(i)
  <2>1. /\ conns[i].pc = "sending" /\ Taken(conns[i].pc) = 1
        /\ process' = [process EXCEPT ![s].free = process[s].free + 1]
    BY <1>2, <1>10 DEF Control!Send, Taken, Busy
  <2>2. CASE conns' = [conns EXCEPT ![i] = Control!Closed]
    <3>1. Passes(i, s, closed, 1)
      BY <1>2, <1>4, <2>1, <2>2 DEF Passes
    <3> QED BY <3>1, Passing
  <2>3. CASE conns' = [conns EXCEPT ![i].pc = "answered", ![i].owner = "none"]
    <3>1. PICK n : n = [conns[i] EXCEPT !.pc = "answered", !.owner = "none"]
      OBVIOUS
    <3>2. DOMAIN n = Fields /\ n.pc = "answered" /\ n.owner = "none"
      BY <1>3, <3>1 DEF Fields
    <3>3. conns' = [conns EXCEPT ![i] = n]
      BY <2>3, <3>1
    <3>4. n.pc \notin Held /\ Taken(n.pc) = 0
      BY <3>2 DEF Held, Taken, Busy
    <3>5. Passes(i, s, n, 1)
      BY <1>2, <2>1, <3>2, <3>3, <3>4 DEF Passes
    <3> QED BY <3>5, Passing
  <2> QED BY <1>10, <2>2, <2>3 DEF Control!Send
<1> QED BY <1>6, <1>7, <1>8, <1>9, <1>10

(* The other connections and servers are left as they are.                 *)
LEMMA SameWork ==
  ASSUME PermitInv, NEW s \in Servers, Work(s)' = Work(s),
         process'[s].free = process[s].free,
         process'[s].pc # "off" => process[s].pc # "off"
  PROVE  Paid(s)'
<1>1. Paid(s)
  BY DEF PermitInv
<1>2. PICK w : w = Work(s)
  OBVIOUS
<1>3. process'[s].free \in Int
      /\ (process'[s].pc # "off" => process'[s].free + Cardinality(w) = Permits)
  BY <1>1, <1>2 DEF Paid
<1> QED BY <1>2, <1>3 DEF Paid

LEMMA SameConnections ==
  ASSUME PermitInv, UNCHANGED conns,
         \A s \in Servers : process'[s].free = process[s].free
                            /\ (process'[s].pc # "off" => process[s].pc # "off")
  PROVE  PermitInv'
<1>1. \A s \in Servers : Work(s)' = Work(s)
  BY DEF Work
<1>2. \A s \in Servers : Paid(s)'
  BY <1>1, SameWork
<1>3. (\E S : conns' \in Seq(S)) /\ \A i \in DOMAIN conns' : Linked(i)'
  BY DEF PermitInv, Linked
<1> QED BY <1>2, <1>3 DEF PermitInv

(* Some connections close, or lose their peer.                             *)
LEMMA SomeEnd ==
  ASSUME PermitInv, Administered, conns' = [i \in DOMAIN conns |-> conns'[i]],
         \A i \in DOMAIN conns :
           \/ conns'[i] = conns[i] \/ conns'[i] = Control!Closed
           \/ conns'[i] = [conns[i] EXCEPT !.live = FALSE]
  PROVE  /\ \E S : conns' \in Seq(S)
         /\ DOMAIN conns' = DOMAIN conns
         /\ \A i \in DOMAIN conns' : Linked(i)'
<1>1. PICK S : conns \in Seq(S)
  BY DEF PermitInv
<1>2. DOMAIN conns = 1..Len(conns) /\ Len(conns) \in Nat /\ DOMAIN conns' = DOMAIN conns
  BY <1>1
<1>3. PICK T : T = {conns'[i] : i \in DOMAIN conns}
  OBVIOUS
<1>4. conns' \in [1..Len(conns) -> T]
  BY <1>2, <1>3
<1>5. conns' \in Seq(T)
  BY <1>2, <1>4
<1>6. ASSUME NEW i \in DOMAIN conns PROVE Linked(i)'
  <2>1. DOMAIN conns[i] = Fields /\ (conns[i].pc \in Held <=> conns[i].owner \in Servers)
    BY DEF PermitInv, Linked
  <2>2. CASE conns'[i] = conns[i]
    BY <2>1, <2>2 DEF Linked
  <2>3. CASE conns'[i] = Control!Closed
    <3>1. DOMAIN Control!Closed = Fields /\ Control!Closed.pc = "closed"
          /\ Control!Closed.owner = "none"
      BY DEF Control!Closed, Fields
    <3> QED BY <2>3, <3>1 DEF Linked, Held, Busy, Administered
  <2>4. CASE conns'[i] = [conns[i] EXCEPT !.live = FALSE]
    <3>1. DOMAIN conns'[i] = Fields /\ conns'[i].pc = conns[i].pc /\ conns'[i].owner = conns[i].owner
      BY <2>1, <2>4 DEF Fields
    <3> QED BY <2>1, <3>1 DEF Linked
  <2> QED BY <2>2, <2>3, <2>4
<1> QED BY <1>2, <1>5, <1>6

(* The listener is dropped: the permits of the requests it was reading and *)
(* of the answers it was sending return, those of the work it goes on with *)
(* do not.                                                                 *)
LEMMA DropStep ==
  ASSUME ControlInv, PermitInv, Administered, NEW s \in Servers, Control!DropListener(s)
  PROVE  PermitInv'
<1> DEFINE reading == {i \in DOMAIN conns : conns[i].owner = s /\ conns[i].pc \in {"reading", "sending"}}
<1>1. /\ process[s].pc = "listening"
      /\ process' = [process EXCEPT ![s].pc = process'[s].pc,
                                    ![s].free = process[s].free + Control!Released(s)]
  BY DEF Control!DropListener, ControlInv, Staged
<1>2. conns' = [i \in DOMAIN conns |-> conns'[i]]
  BY DEF Control!DropListener, Control!Aborted
<1>3. \A i \in DOMAIN conns :
        conns'[i] = IF conns[i].owner # s THEN conns[i]
                    ELSE CASE conns[i].pc = "working" -> [conns[i] EXCEPT !.live = FALSE]
                           [] conns[i].pc \in {"reading", "sending"} -> Control!Closed
                           [] OTHER -> conns[i]
  BY DEF Control!DropListener, Control!Aborted
<1>4. \A i \in DOMAIN conns :
        \/ conns'[i] = conns[i] /\ i \notin reading
        \/ conns'[i] = Control!Closed /\ i \in reading
        \/ conns'[i] = [conns[i] EXCEPT !.live = FALSE] /\ i \notin reading
  BY <1>3
<1>5. /\ \E S : conns' \in Seq(S)
      /\ DOMAIN conns' = DOMAIN conns
      /\ \A i \in DOMAIN conns' : Linked(i)'
  BY <1>2, <1>4, SomeEnd
<1>6. \A i \in DOMAIN conns \ reading : conns'[i].pc = conns[i].pc /\ conns'[i].owner = conns[i].owner
  <2>1. \A i \in DOMAIN conns : DOMAIN conns[i] = Fields
    BY DEF PermitInv, Linked
  <2> QED BY <1>4, <2>1 DEF Fields
<1>7. \A i \in reading : conns'[i].pc \notin Busy /\ conns[i].owner = s /\ conns[i].pc \in Busy
  <2>1. Control!Closed.pc = "closed"
    BY DEF Control!Closed
  <2> QED BY <1>4, <2>1 DEF Busy
<1>8. \A t \in Servers : t # s => process'[t] = process[t]
  BY <1>1 DEF ControlInv
<1>9. ASSUME NEW t \in Servers, t # s PROVE Paid(t)'
  <2>1. Work(t)' = Work(t)
    BY <1>5, <1>6, <1>7, <1>9 DEF Work
  <2> QED BY <1>8, <1>9, <2>1, SameWork
<1>10. Paid(s)'
  <2>1. PICK S : conns \in Seq(S)
    BY DEF PermitInv
  <2>2. PICK old, kept, gone : old = Work(s) /\ kept = Work(s)' /\ gone = reading
    OBVIOUS
  <2>3. gone \subseteq old /\ old \subseteq DOMAIN conns /\ gone \subseteq DOMAIN conns
    BY <1>7, <2>2 DEF Work
  <2>4. kept = old \ gone
    BY <1>5, <1>6, <1>7, <2>2 DEF Work
  <2>5. IsFiniteSet(old) /\ Cardinality(old) \in Nat /\ Cardinality(gone) \in Nat
    BY <2>1, <2>3, WorkIsFinite
  <2>6. Cardinality(kept) = Cardinality(old) - Cardinality(gone)
    <3>1. old \cap gone = gone
      BY <2>3
    <3>2. Cardinality(old \ gone) = Cardinality(old) - Cardinality(old \cap gone)
      BY <2>5, FS_Difference
    <3> QED BY <2>4, <3>1, <3>2
  <2>7. Control!Released(s) = Cardinality(gone)
    <3>1. {i \in Control!Of(s) : conns[i].pc \in {"reading", "sending"}} = gone
      BY <2>2 DEF Control!Of
    <3> QED BY <3>1 DEF Control!Released, Control!Cardinality, Cardinality
  <2>8. process'[s].free = process[s].free + Cardinality(gone)
    BY <1>1, <2>7 DEF ControlInv, Staged
  <2>9. process[s].free \in Int /\ process[s].free + Cardinality(old) = Permits
    BY <1>1, <2>2 DEF PermitInv, Paid
  <2>10. process'[s].free \in Int /\ process'[s].free + Cardinality(kept) = Permits
    BY <2>5, <2>6, <2>8, <2>9
  <2> QED BY <2>2, <2>10 DEF Paid
<1> QED BY <1>5, <1>9, <1>10 DEF PermitInv

(* The listener closes, or the process ends.                               *)
LEMMA EndStep ==
  ASSUME ControlInv, PermitInv, Administered, NEW s \in Servers,
         Control!CloseListener(s) \/ Control!Exit(s)
  PROVE  PermitInv'
<1>1. \A i \in DOMAIN conns : conns'[i] = conns[i] \/ (conns'[i] = Control!Closed /\ conns[i].owner = s)
  BY DEF Control!CloseListener, Control!Exit
<1>2. conns' = [i \in DOMAIN conns |-> conns'[i]]
  BY DEF Control!CloseListener, Control!Exit
<1>3. /\ \E S : conns' \in Seq(S)
      /\ DOMAIN conns' = DOMAIN conns
      /\ \A i \in DOMAIN conns' : Linked(i)'
  BY <1>1, <1>2, SomeEnd
<1>4. ASSUME NEW t \in Servers, t # s PROVE Paid(t)'
  <2>1. Work(t)' = Work(t)
    BY <1>1, <1>3, <1>4 DEF Work, Control!Closed, Busy
  <2>2. process'[t] = process[t]
    BY <1>4 DEF Control!CloseListener, Control!Exit, Control!Move, ControlInv
  <2> QED BY <2>1, <2>2, SameWork
<1>5. Paid(s)'
  <2>1. process'[s].pc = "off" /\ process'[s].free \in {process[s].free, 0}
    BY DEF Control!CloseListener, Control!Exit, Control!Move, Control!NoServer, ControlInv, Staged
  <2> QED BY <2>1 DEF Paid, PermitInv
<1> QED BY <1>3, <1>4, <1>5 DEF PermitInv

(* A client connects: the new connection waits in the backlog.             *)
LEMMA ConnectStep ==
  ASSUME ControlInv, PermitInv, Administered, NEW r, conns' = Append(conns, r), DOMAIN r = Fields,
         r.pc = "backlog", r.owner \in Servers, UNCHANGED process
  PROVE  PermitInv'
<1>1. PICK S : conns \in Seq(S)
  BY DEF PermitInv
<1>2. conns \in Seq(S \cup {r}) /\ r \in S \cup {r}
  BY <1>1
<1>3. conns' \in Seq(S \cup {r}) /\ DOMAIN conns' = DOMAIN conns \cup {Len(conns) + 1}
      /\ conns'[Len(conns) + 1] = r /\ \A i \in DOMAIN conns : conns'[i] = conns[i]
  BY <1>2
<1>4. \A i \in DOMAIN conns' : Linked(i)'
  BY <1>3 DEF PermitInv, Linked, Held
<1>5. \A s \in Servers : Work(s)' = Work(s)
  BY <1>3 DEF Work, Busy
<1>6. \A s \in Servers : Paid(s)'
  BY <1>5, SameWork
<1> QED BY <1>3, <1>4, <1>6 DEF PermitInv

(* What a client does leaves the permits alone.                            *)
LEMMA ClientStep ==
  ASSUME ControlInv, PermitInv, Administered, NEW c \in Clients,
         \/ \E command \in {"read", "write"}, s \in Servers : Control!Begin(c, command, InstanceOf[s])
         \/ Control!Exchange(c) \/ Control!SendRaw(c) \/ Control!Hears(c) \/ Control!Leaves(c)
  PROVE  PermitInv'
<1>1. CASE UNCHANGED <<conns, process>>
  BY <1>1, SameConnections
<1>2. ASSUME NEW request, NEW command, Control!Connects(c, request, command) PROVE PermitInv'
  <2>1. CASE Control!Alive(endpoint)
    <3> DEFINE s == CHOOSE t \in Servers : process[t].startup = endpoint
    <3>1. s \in Servers
      BY <2>1 DEF Control!Alive
    <3>2. PICK r : r = [pc |-> "backlog", live |-> TRUE, owner |-> s, client |-> c, answer |-> 0,
                        request |-> request]
      OBVIOUS
    <3>3. conns' = Append(conns, r) /\ UNCHANGED process
      BY <1>2, <2>1, <3>2 DEF Control!Connects
    <3>4. DOMAIN r = Fields /\ r.pc = "backlog" /\ r.owner \in Servers
      BY <3>1, <3>2 DEF Fields
    <3> QED BY <3>3, <3>4, ConnectStep
  <2>2. CASE ~Control!Alive(endpoint)
    BY <1>1, <1>2, <2>2 DEF Control!Connects
  <2> QED BY <2>1, <2>2
<1>3. CASE Control!Hears(c)
  <2>1. UNCHANGED process
    BY <1>3 DEF Control!Hears
  <2> DEFINE i == client[c].conn
  <2>2. CASE UNCHANGED conns
    BY <1>1, <2>1, <2>2
  <2>3. CASE conns' = [conns EXCEPT ![i] = Control!Closed] /\ conns[i].pc = "answered"
    <3>1. \A j \in DOMAIN conns : conns'[j] = conns[j]
                                  \/ (conns'[j] = Control!Closed /\ conns[j].pc = "answered")
      BY <2>3
    <3>2. conns' = [j \in DOMAIN conns |-> conns'[j]]
      BY <2>3
    <3>3. /\ \E S : conns' \in Seq(S)
          /\ DOMAIN conns' = DOMAIN conns
          /\ \A j \in DOMAIN conns' : Linked(j)'
      BY <3>1, <3>2, SomeEnd
    <3>4. \A s \in Servers : Work(s)' = Work(s)
      <4>1. Control!Closed.pc = "closed"
        BY DEF Control!Closed
      <4> QED BY <3>1, <3>3, <4>1 DEF Work, Busy
    <3>5. \A s \in Servers : Paid(s)'
      BY <2>1, <3>4, SameWork
    <3> QED BY <3>3, <3>5 DEF PermitInv
  <2>4. conns[i].live => conns[i].pc = "answered"
    BY <1>3 DEF Control!Hears
  <2> QED BY <1>3, <2>2, <2>3, <2>4 DEF Control!Hears
<1>4. CASE \/ \E command \in {"read", "write"}, s \in Servers :
                Control!Begin(c, command, InstanceOf[s])
           \/ Control!Leaves(c)
  BY <1>1, <1>4 DEF Control!Begin, Control!Leaves
<1>5. CASE Control!Exchange(c)
  BY <1>2, <1>5 DEF Control!Exchange
<1>6. CASE Control!SendRaw(c)
  BY <1>2, <1>6 DEF Control!SendRaw
<1> QED BY <1>3, <1>4, <1>5, <1>6

(* A server starts when none of its connections are left.                  *)
LEMMA StartStep ==
  ASSUME ControlInv, PermitInv, Administered, NEW s \in Servers, Control!StartServer(s)
  PROVE  PermitInv'
<1>1. UNCHANGED conns /\ Control!Of(s) = {}
      /\ \A t \in Servers : IF t = s THEN process'[t].free = Permits ELSE process'[t] = process[t]
  BY DEF Control!StartServer, ControlInv
<1>2. \A t \in Servers : Work(t)' = Work(t)
  BY <1>1 DEF Work
<1>3. ASSUME NEW t \in Servers, t # s PROVE Paid(t)'
  BY <1>1, <1>2, <1>3, SameWork
<1>4. Paid(s)'
  <2>1. Work(s)' = {}
    BY <1>1, <1>2 DEF Work, Control!Of
  <2>2. Cardinality({}) = 0
    BY FS_EmptySet
  <2>3. process'[s].free = Permits /\ Permits \in Int
    BY <1>1 DEF Administered
  <2>4. process'[s].free + Cardinality(Work(s)') = Permits
    BY <2>1, <2>2, <2>3
  <2> QED BY <2>3, <2>4 DEF Paid
<1>5. (\E S : conns' \in Seq(S)) /\ \A i \in DOMAIN conns' : Linked(i)'
  BY <1>1 DEF PermitInv, Linked
<1> QED BY <1>3, <1>4, <1>5 DEF PermitInv

LEMMA PermitStep ==
  ControlInv /\ PermitInv /\ Administered /\ [Control!Next]_(Control!vars) => PermitInv'
<1> SUFFICES ASSUME ControlInv, PermitInv, Administered, [Control!Next]_(Control!vars)
             PROVE  PermitInv'
  OBVIOUS
<1>1. ASSUME NEW s \in Servers, Climbs(s) PROVE PermitInv'
  <2>1. UNCHANGED conns
    BY <1>1 DEF Climbs, Control!Own, Control!Look, Control!Probe, Control!Remove, Control!Bind,
       Control!Unlink
  <2>2. PICK to : Control!Move(s, to) /\ process[s].pc # "off"
    BY <1>1 DEF Climbs, Control!Own, Control!Look, Control!Probe, Control!Remove, Control!Bind,
       Control!Unlink, Control!GivesUp
  <2>3. \A t \in Servers : process'[t].free = process[t].free
                           /\ (process'[t].pc # "off" => process[t].pc # "off")
    BY <2>2 DEF Control!Move, ControlInv, Staged
  <2> QED BY <2>1, <2>3, SameConnections
<1>2. ASSUME NEW c \in Clients,
             \/ \E command \in {"read", "write"}, s \in Servers : Control!Begin(c, command, InstanceOf[s])
             \/ Control!Exchange(c) \/ Control!SendRaw(c) \/ Control!Hears(c) \/ Control!Leaves(c)
      PROVE  PermitInv'
  BY <1>2, ClientStep
<1>3. CASE Control!Clean \/ UNCHANGED Control!vars
  BY <1>3, SameConnections DEF Control!Clean, Control!vars
<1>4. ASSUME NEW i \in DOMAIN conns,
             Control!Accept(i) \/ Control!Receive(i) \/ Control!Respond(i) \/ Control!Send(i)
               \/ Control!TimesOut(i)
      PROVE  PermitInv'
  BY <1>4, ConnectionStep
<1>5. ASSUME NEW s \in Servers,
             Control!StartServer(s) \/ Control!DropListener(s) \/ Control!CloseListener(s)
             \/ Control!Exit(s)
      PROVE  PermitInv'
  BY <1>5, StartStep, DropStep, EndStep
<1> QED BY <1>1, <1>2, <1>3, <1>4, <1>5 DEF Control!Next, Climbs

LEMMA PermitHolds == Administered => (ControlSpec => [](ControlInv /\ PermitInv))
<1> SUFFICES ASSUME Administered PROVE ControlSpec => [](ControlInv /\ PermitInv)
  OBVIOUS
<1>1. Control!Init => PermitInv
  <2> SUFFICES ASSUME Control!Init PROVE PermitInv
    OBVIOUS
  <2>1. conns = <<>> /\ process = [s \in Servers |-> Control!NoServer]
    BY DEF Control!Init
  <2>2. conns \in Seq({}) /\ DOMAIN conns = {}
    BY <2>1
  <2> QED BY <2>1, <2>2 DEF PermitInv, Paid, Control!NoServer
<1>2. ControlSpec => []ControlInv
  BY ControlHolds DEF Administered
<1> QED BY <1>1, <1>2, PermitStep, PTL DEF ControlSpec

(* However many clients come, time out and come again, and whatever they   *)
(* send: no more requests are worked on than there are permits, and no     *)
(* permit is lost (control/server.rs).                                     *)
THEOREM PermitsAreConserved ==
  ASSUME Administered PROVE ControlSpec => []Control!WorkIsBounded
<1>1. PermitInv => Control!WorkIsBounded
  <2> SUFFICES ASSUME PermitInv, NEW s \in Servers, process[s].pc # "off"
               PROVE  process[s].free + Control!Cardinality(
                        {i \in Control!Of(s) : conns[i].pc \in {"reading", "working", "sending"}}) = Permits
    BY DEF Control!WorkIsBounded
  <2>1. {i \in Control!Of(s) : conns[i].pc \in {"reading", "working", "sending"}} = Work(s)
    BY DEF Control!Of, Work, Busy
  <2>2. Control!Cardinality(Work(s)) = Cardinality(Work(s))
    BY DEF Control!Cardinality, Cardinality
  <2> QED BY <2>1, <2>2 DEF PermitInv, Paid
<1> QED BY <1>1, PermitHolds, PTL

(* A startup id belongs to one process, and who has connections has one.   *)
Ids ==
  /\ startups \in Nat \ {0}
  /\ \A s \in Servers : /\ process[s].startup \in Nat /\ process[s].startup <= startups
                        /\ process[s].pc # "off" => process[s].startup # 0
  /\ \A s, t \in Servers : s # t /\ process[s].startup # 0 => process[s].startup # process[t].startup
  /\ \A i \in DOMAIN conns : conns[i].pc \in Held => process[conns[i].owner].startup # 0

LEMMA SameIds ==
  ASSUME Ids, startups' = startups,
         \A s \in Servers : process'[s].startup = process[s].startup
                            /\ (process'[s].pc # "off" => process[s].pc # "off"),
         \A i \in DOMAIN conns' : conns'[i].pc \in Held =>
           /\ conns'[i].owner \in Servers
           /\ \/ process[conns'[i].owner].startup # 0
              \/ i \in DOMAIN conns /\ conns[i].pc \in Held /\ conns'[i].owner = conns[i].owner
  PROVE  Ids'
BY DEF Ids

(* What becomes of a connection: one that is answered or closed is not     *)
(* taken up again, and its request stays what it is.                       *)
Pending == {"backlog", "reading", "working"}
Told == {"sending", "answered"}
Goes(i) ==
  /\ i \in DOMAIN conns'
  /\ conns'[i].pc \in Held => conns[i].pc \in Held /\ conns'[i].owner = conns[i].owner
  /\ conns'[i].pc \in Pending => conns[i].pc \in Pending
  /\ conns'[i].pc # "closed" => conns[i].pc # "closed" /\ conns'[i].request = conns[i].request
  /\ conns'[i].pc \in Told =>
       Control!Respond(i) \/ (conns[i].pc \in Told /\ conns'[i].answer = conns[i].answer)

LEMMA GoesOn ==
  ASSUME NEW i \in DOMAIN conns, DOMAIN conns[i] = Fields, i \in DOMAIN conns',
         \/ conns'[i] = conns[i] \/ conns'[i] = Control!Closed
         \/ conns'[i] = [conns[i] EXCEPT !.live = FALSE]
         \/ /\ conns[i].pc \in Pending
            /\ \E to \in {"reading", "working"} : conns'[i] = [conns[i] EXCEPT !.pc = to]
         \/ Control!Respond(i) /\ \E a : conns'[i] = [conns[i] EXCEPT !.pc = "sending", !.answer = a]
         \/ /\ conns[i].pc = "sending"
            /\ conns'[i] = [conns[i] EXCEPT !.pc = "answered", !.owner = "none"]
  PROVE  Goes(i)
<1>1. CASE conns'[i] = conns[i]
  BY <1>1 DEF Goes
<1>2. CASE conns'[i] = Control!Closed
  <2>1. conns'[i].pc = "closed"
    BY <1>2 DEF Control!Closed
  <2> QED BY <2>1 DEF Goes, Held, Busy, Pending, Told
<1>3. CASE conns'[i] = [conns[i] EXCEPT !.live = FALSE]
  <2>1. conns'[i].pc = conns[i].pc /\ conns'[i].owner = conns[i].owner
        /\ conns'[i].request = conns[i].request /\ conns'[i].answer = conns[i].answer
    BY <1>3 DEF Fields
  <2> QED BY <2>1 DEF Goes
<1>4. ASSUME conns[i].pc \in Pending, NEW to \in {"reading", "working"},
             conns'[i] = [conns[i] EXCEPT !.pc = to]
      PROVE  Goes(i)
  <2>1. conns'[i].pc = to /\ conns'[i].owner = conns[i].owner
        /\ conns'[i].request = conns[i].request
    BY <1>4 DEF Fields
  <2> QED BY <1>4, <2>1 DEF Goes, Held, Busy, Pending, Told
<1>5. ASSUME Control!Respond(i), NEW a, conns'[i] = [conns[i] EXCEPT !.pc = "sending", !.answer = a]
      PROVE  Goes(i)
  <2>1. conns'[i].pc = "sending" /\ conns'[i].owner = conns[i].owner
        /\ conns'[i].request = conns[i].request
    BY <1>5 DEF Fields
  <2>2. conns[i].pc = "working"
    BY <1>5 DEF Control!Respond
  <2> QED BY <1>5, <2>1, <2>2 DEF Goes, Held, Busy, Pending
<1>6. ASSUME conns[i].pc = "sending", conns'[i] = [conns[i] EXCEPT !.pc = "answered", !.owner = "none"]
      PROVE  Goes(i)
  <2>1. conns'[i].pc = "answered" /\ conns'[i].answer = conns[i].answer
        /\ conns'[i].request = conns[i].request
    BY <1>6 DEF Fields
  <2> QED BY <1>6, <2>1 DEF Goes, Held, Busy, Pending, Told
<1> QED BY <1>1, <1>2, <1>3, <1>4, <1>5, <1>6

LEMMA Going ==
  ASSUME ControlInv, PermitInv, [Control!Next]_(Control!vars)
  PROVE  /\ \A i \in DOMAIN conns : Goes(i)
         /\ \A i \in DOMAIN conns' \ DOMAIN conns : conns'[i].pc = "backlog"
                                                    /\ Control!Alive(endpoint)
                                                    /\ conns'[i].owner \in Servers
                                                    /\ process[conns'[i].owner].startup = endpoint
<1> DEFINE New(i) == /\ conns'[i].pc = "backlog" /\ Control!Alive(endpoint)
                     /\ conns'[i].owner \in Servers /\ process[conns'[i].owner].startup = endpoint
           Goal == /\ \A i \in DOMAIN conns : Goes(i)
                   /\ \A i \in DOMAIN conns' \ DOMAIN conns : New(i)
<1>1. PICK S : conns \in Seq(S)
  BY DEF PermitInv
<1>2. \A i \in DOMAIN conns : DOMAIN conns[i] = Fields
  BY DEF PermitInv, Linked
<1>3. ASSUME DOMAIN conns' = DOMAIN conns,
             \A i \in DOMAIN conns :
                \/ conns'[i] = conns[i] \/ conns'[i] = Control!Closed
                \/ conns'[i] = [conns[i] EXCEPT !.live = FALSE]
                \/ /\ conns[i].pc \in Pending
                   /\ \E to \in {"reading", "working"} : conns'[i] = [conns[i] EXCEPT !.pc = to]
                \/ /\ Control!Respond(i)
                   /\ \E a : conns'[i] = [conns[i] EXCEPT !.pc = "sending", !.answer = a]
                \/ /\ conns[i].pc = "sending"
                   /\ conns'[i] = [conns[i] EXCEPT !.pc = "answered", !.owner = "none"]
      PROVE  Goal
  BY <1>2, <1>3, GoesOn
<1>4. ASSUME UNCHANGED conns PROVE Goal
  BY <1>3, <1>4
<1>5. ASSUME NEW s \in Servers,
             Control!DropListener(s) \/ Control!CloseListener(s) \/ Control!Exit(s)
      PROVE  Goal
  <2>1. DOMAIN conns' = DOMAIN conns
        /\ \A i \in DOMAIN conns : \/ conns'[i] = conns[i] \/ conns'[i] = Control!Closed
                                   \/ conns'[i] = [conns[i] EXCEPT !.live = FALSE]
    BY <1>5 DEF Control!DropListener, Control!Aborted, Control!CloseListener, Control!Exit
  <2> QED BY <1>3, <2>1
<1>6. ASSUME NEW i \in DOMAIN conns,
             Control!Accept(i) \/ Control!Receive(i) \/ Control!Respond(i) \/ Control!Send(i)
               \/ Control!TimesOut(i)
      PROVE  Goal
  <2>1. /\ DOMAIN conns' = DOMAIN conns /\ \A j \in DOMAIN conns : j # i => conns'[j] = conns[j]
        /\ \/ conns'[i] = Control!Closed
           \/ conns'[i] = [conns[i] EXCEPT !.live = FALSE]
           \/ conns[i].pc \in Pending /\ conns'[i] = [conns[i] EXCEPT !.pc = "reading"]
           \/ conns[i].pc \in Pending /\ conns'[i] = [conns[i] EXCEPT !.pc = "working"]
           \/ /\ Control!Respond(i)
              /\ \E a : conns'[i] = [conns[i] EXCEPT !.pc = "sending", !.answer = a]
           \/ /\ conns[i].pc = "sending"
              /\ conns'[i] = [conns[i] EXCEPT !.pc = "answered", !.owner = "none"]
    <3>1. CASE Control!Accept(i)
      BY <3>1 DEF Control!Accept, Pending
    <3>2. CASE Control!Receive(i)
      BY <3>2 DEF Control!Receive, Pending
    <3>3. CASE Control!Respond(i)
      BY <3>3 DEF Control!Respond
    <3>4. CASE Control!TimesOut(i)
      BY <3>4 DEF Control!TimesOut
    <3>5. CASE Control!Send(i)
      BY <3>5 DEF Control!Send
    <3> QED BY <1>6, <3>1, <3>2, <3>3, <3>4, <3>5
  <2> QED BY <1>3, <2>1
<1>7. ASSUME NEW s \in Servers, Control!StartServer(s) \/ Climbs(s) PROVE Goal
  <2>1. UNCHANGED conns
    BY <1>7 DEF Control!StartServer, Climbs, Control!Own, Control!Look, Control!Probe, Control!Remove,
       Control!Bind, Control!Unlink
  <2> QED BY <1>4, <2>1
<1>8. ASSUME NEW c \in Clients, NEW request, NEW command, Control!Connects(c, request, command)
      PROVE  Goal
  <2>1. CASE Control!Alive(endpoint)
    <3> DEFINE s == CHOOSE t \in Servers : process[t].startup = endpoint
    <3>1. s \in Servers /\ process[s].startup = endpoint
      BY <2>1 DEF Control!Alive
    <3>2. PICK r : r = [pc |-> "backlog", live |-> TRUE, owner |-> s, client |-> c, answer |-> 0,
                        request |-> request]
      OBVIOUS
    <3>3. conns' = Append(conns, r)
      BY <1>8, <2>1, <3>2 DEF Control!Connects
    <3>4. conns \in Seq(S \cup {r}) /\ r \in S \cup {r}
      BY <1>1
    <3>5. DOMAIN conns' = DOMAIN conns \cup {Len(conns) + 1} /\ conns'[Len(conns) + 1] = r
          /\ \A i \in DOMAIN conns : conns'[i] = conns[i]
      BY <3>3, <3>4
    <3>6. \A i \in DOMAIN conns : Goes(i)
      BY <1>2, <3>5, GoesOn
    <3>7. r.pc = "backlog" /\ r.owner \in Servers /\ process[r.owner].startup = endpoint
      BY <3>1, <3>2
    <3> HIDE DEF s
    <3> QED BY <2>1, <3>5, <3>6, <3>7
  <2>2. CASE ~Control!Alive(endpoint)
    BY <1>4, <1>8, <2>2 DEF Control!Connects
  <2> QED BY <2>1, <2>2
<1>9. ASSUME NEW c \in Clients, Control!Hears(c) PROVE Goal
  <2>1. DOMAIN conns' = DOMAIN conns
        /\ \A i \in DOMAIN conns : conns'[i] = conns[i] \/ conns'[i] = Control!Closed
    BY <1>9 DEF Control!Hears
  <2> QED BY <1>3, <2>1
<1>10. ASSUME NEW c \in Clients,
             \/ \E command \in {"read", "write"}, s \in Servers : Control!Begin(c, command, InstanceOf[s])
             \/ Control!Leaves(c)
      PROVE  Goal
  BY <1>4, <1>10 DEF Control!Begin, Control!Leaves
<1>11. ASSUME NEW c \in Clients, Control!Exchange(c) \/ Control!SendRaw(c) PROVE Goal
  BY <1>8, <1>11 DEF Control!Exchange, Control!SendRaw
<1>12. ASSUME Control!Clean \/ UNCHANGED Control!vars PROVE Goal
  BY <1>4, <1>12 DEF Control!Clean, Control!vars
<1> HIDE DEF Goal
<1>13. ASSUME NEW s \in Servers, \/ Climbs(s) \/ Control!StartServer(s)
                                \/ Control!DropListener(s) \/ Control!CloseListener(s) \/ Control!Exit(s)
       PROVE  Goal
  BY <1>5, <1>7, <1>13
<1>14. ASSUME NEW c \in Clients,
             \/ \E command \in {"read", "write"}, s \in Servers : Control!Begin(c, command, InstanceOf[s])
             \/ Control!Exchange(c) \/ Control!SendRaw(c) \/ Control!Hears(c) \/ Control!Leaves(c)
      PROVE  Goal
  BY <1>9, <1>10, <1>11, <1>14
<1>15. Goal
  BY <1>6, <1>12, <1>13, <1>14 DEF Control!Next, Climbs
<1> QED BY <1>15 DEF Goal

(* What was carried out: by the process with that startup id, for a        *)
(* connection whose answer is known.                                       *)
Done(e) ==
  /\ e.conn \in DOMAIN conns /\ conns[e.conn].pc \notin Pending
  /\ e.startup \in Nat \ {0} /\ e.startup <= startups
  /\ \A s \in Servers : process[s].startup = e.startup => InstanceOf[s] = e.asked
(* An answer that is not a refusal: the request was a write of the process *)
(* that answered, and it was done, or it changes nothing.                  *)
Wrote(i, startup) == \E e \in effects : e.conn = i /\ e.startup = startup
Answered(i) ==
  conns[i].pc \in Told /\ conns[i].answer # -1 =>
    /\ conns[i].answer # 0
    /\ conns[i].request.command = "write" => Wrote(i, conns[i].request.expected)
(* What a client waits for is the answer to what it asked.                 *)
InquiryFields == {"pc", "command", "name", "hello", "conn", "result"}
Inquired(c) ==
  client[c].pc = "waiting" /\ client[c].command = "write" /\ client[c].hello # 0 =>
    /\ client[c].conn \in DOMAIN conns
    /\ conns[client[c].conn].pc # "closed" =>
         /\ conns[client[c].conn].request.command = "write"
         /\ conns[client[c].conn].request.expected = client[c].hello
Informed(c) ==
  /\ DOMAIN client[c] = InquiryFields
  /\ client[c].pc # "idle" => client[c].result = "none"
  /\ client[c].result = "ok" /\ client[c].command = "write" => Wrote(client[c].conn, client[c].hello)
EffectInv ==
  /\ Ids
  /\ \A e \in effects : Done(e)
  /\ \A e, f \in effects : e.conn = f.conn => e = f
  /\ \A i \in DOMAIN conns : Answered(i)
  /\ DOMAIN client = Clients /\ \A c \in Clients : Inquired(c) /\ Informed(c)

LEMMA IdsStep ==
  ASSUME ControlInv, PermitInv, Administered, Ids, [Control!Next]_(Control!vars)
  PROVE  Ids'
<1> DEFINE Same == /\ startups' = startups
                   /\ \A s \in Servers : process'[s].startup = process[s].startup
                                         /\ (process'[s].pc # "off" => process[s].pc # "off")
<1>1. \A i \in DOMAIN conns' : conns'[i].pc \in Held =>
           /\ conns'[i].owner \in Servers
           /\ \/ process[conns'[i].owner].startup # 0
              \/ i \in DOMAIN conns /\ conns[i].pc \in Held /\ conns'[i].owner = conns[i].owner
  <2>1. \A i \in DOMAIN conns : Linked(i)
    BY DEF PermitInv
  <2>2. Control!Alive(endpoint) => endpoint # 0
    BY DEF Control!Alive, Ids
  <2> QED BY <2>1, <2>2, Going DEF Goes, Linked
<1>2. ASSUME Same PROVE Ids'
  BY <1>1, <1>2, SameIds
<1>3. ASSUME NEW s \in Servers, Control!StartServer(s) PROVE Ids'
  <2>1. /\ process[s].pc = "off" /\ Control!Of(s) = {} /\ startups' = startups + 1 /\ UNCHANGED conns
        /\ \A t \in Servers : /\ process'[t].startup = IF t = s THEN startups + 1 ELSE process[t].startup
                              /\ t # s => process'[t] = process[t]
    BY <1>3 DEF Control!StartServer, ControlInv
  <2>2. \A i \in DOMAIN conns : conns[i].owner # s
    BY <2>1 DEF Control!Of
  <2>3. \A i \in DOMAIN conns : conns[i].pc \in Held => conns[i].owner \in Servers
    BY DEF PermitInv, Linked
  <2> QED BY <2>1, <2>2, <2>3 DEF Ids
<1>4. ASSUME NEW s \in Servers, Control!Exit(s) PROVE Ids'
  <2>1. /\ startups' = startups
        /\ \A t \in Servers : IF t = s THEN process'[t].startup = 0 /\ process'[t].pc = "off"
                              ELSE process'[t] = process[t]
    BY <1>4 DEF Control!Exit, Control!NoServer, ControlInv
  <2>2. \A i \in DOMAIN conns' : i \in DOMAIN conns
          /\ conns'[i] = IF conns[i].owner = s THEN Control!Closed ELSE conns[i]
    BY <1>4 DEF Control!Exit
  <2>3. Control!Closed.pc \notin Held
    BY DEF Control!Closed, Held, Busy
  <2>4. \A i \in DOMAIN conns : conns[i].pc \in Held => conns[i].owner \in Servers
    BY DEF PermitInv, Linked
  <2>5. \A i \in DOMAIN conns' : conns'[i].pc \in Held =>
          /\ i \in DOMAIN conns /\ conns'[i] = conns[i] /\ conns[i].owner \in Servers \ {s}
    BY <2>2, <2>3, <2>4
  <2> QED BY <2>1, <2>5 DEF Ids
<1>5. ASSUME NEW s \in Servers, Climbs(s) \/ Control!DropListener(s) \/ Control!CloseListener(s)
      PROVE  Ids'
  <2>1. startups' = startups
    BY <1>5 DEF Climbs, Control!Own, Control!Look, Control!Probe, Control!Remove, Control!Bind,
       Control!Unlink, Control!GivesUp, Control!DropListener, Control!CloseListener
  <2>2. CASE \E to : Control!Move(s, to) /\ process[s].pc # "off"
    <3>1. \A t \in Servers : process'[t].startup = process[t].startup
                             /\ (process'[t].pc # "off" => process[t].pc # "off")
      BY <2>2 DEF Control!Move, ControlInv, Staged
    <3> QED BY <1>2, <2>1, <3>1
  <2>3. CASE Control!DropListener(s)
    <3>1. \A t \in Servers : process'[t].startup = process[t].startup
                             /\ (process'[t].pc # "off" => process[t].pc # "off")
      BY <2>3 DEF Control!DropListener, ControlInv, Staged
    <3> QED BY <1>2, <2>1, <3>1
  <2>4. Climbs(s) \/ Control!CloseListener(s) => \E to : Control!Move(s, to) /\ process[s].pc # "off"
    BY DEF Climbs, Control!Own, Control!Look, Control!Probe, Control!Remove, Control!Bind,
       Control!Unlink, Control!GivesUp, Control!CloseListener
  <2> QED BY <1>5, <2>2, <2>3, <2>4
<1>6. ASSUME NEW i \in DOMAIN conns,
             Control!Accept(i) \/ Control!Receive(i) \/ Control!Respond(i) \/ Control!Send(i)
               \/ Control!TimesOut(i)
      PROVE  Ids'
  <2>1. /\ startups' = startups
        /\ UNCHANGED process \/ \E s, n : process' = [process EXCEPT ![s].free = n]
    BY <1>6 DEF Control!Accept, Control!Receive, Control!Respond, Control!Send, Control!TimesOut
  <2>2. \A t \in Servers : process'[t].startup = process[t].startup
                           /\ (process'[t].pc # "off" => process[t].pc # "off")
    BY <2>1 DEF ControlInv, Staged
  <2> QED BY <1>2, <2>1, <2>2
<1>7. ASSUME NEW c \in Clients,
             \/ \E command \in {"read", "write"}, s \in Servers : Control!Begin(c, command, InstanceOf[s])
             \/ Control!Exchange(c) \/ Control!SendRaw(c) \/ Control!Hears(c) \/ Control!Leaves(c)
      PROVE  Ids'
  <2>1. UNCHANGED <<startups, process>>
    BY <1>7 DEF Control!Begin, Control!Exchange, Control!SendRaw, Control!Hears, Control!Leaves,
       Control!Connects
  <2> QED BY <1>2, <2>1
<1>8. ASSUME Control!Clean \/ UNCHANGED Control!vars PROVE Ids'
  BY <1>2, <1>8 DEF Control!Clean, Control!vars
<1> QED BY <1>3, <1>4, <1>5, <1>6, <1>7, <1>8 DEF Control!Next, Climbs

(* Startup ids only ever grow.                                             *)
LEMMA Started ==
  ASSUME ControlInv, Ids, [Control!Next]_(Control!vars)
  PROVE  /\ startups' \in Nat /\ startups' >= startups
         /\ \A s \in Servers : process'[s].startup \in {process[s].startup, 0, startups + 1}
<1> DEFINE Goal == /\ startups' \in Nat /\ startups' >= startups
                   /\ \A s \in Servers : process'[s].startup \in {process[s].startup, 0, startups + 1}
<1>0. startups \in Nat
  BY DEF Ids
<1>1. ASSUME NEW s \in Servers, Control!StartServer(s) PROVE Goal
  BY <1>0, <1>1 DEF Control!StartServer, ControlInv
<1>2. ASSUME UNCHANGED startups,
             \/ UNCHANGED process
             \/ \E s : process' = [process EXCEPT ![s] = Control!NoServer]
             \/ \E s, to : Control!Move(s, to)
             \/ \E s, n : process' = [process EXCEPT ![s].free = n]
             \/ \E s, to, n : process' = [process EXCEPT ![s].pc = to, ![s].free = n]
      PROVE  Goal
  <2>0. DOMAIN process = Servers /\ \A s \in Servers : DOMAIN process[s] = {"pc", "startup", "free"}
    BY DEF ControlInv, Staged
  <2>1. \A s \in Servers : process'[s].startup \in {process[s].startup, 0}
    <3>1. CASE \E s : process' = [process EXCEPT ![s] = Control!NoServer]
      BY <2>0, <3>1 DEF Control!NoServer
    <3>2. CASE \E s, to : Control!Move(s, to)
      BY <2>0, <3>2 DEF Control!Move
    <3>3. CASE \E s, n : process' = [process EXCEPT ![s].free = n]
      BY <2>0, <3>3
    <3>4. CASE \E s, to, n : process' = [process EXCEPT ![s].pc = to, ![s].free = n]
      <4>1. PICK s, to, n : process' = [process EXCEPT ![s].pc = to, ![s].free = n]
        BY <3>4
      <4> QED BY <2>0, <4>1
    <3> QED BY <1>2, <3>1, <3>2, <3>3, <3>4
  <2> QED BY <1>0, <1>2, <2>1
<1>3. ASSUME NEW s \in Servers, Climbs(s) \/ Control!CloseListener(s) \/ Control!DropListener(s)
                                \/ Control!Exit(s)
      PROVE  Goal
  <2>1. UNCHANGED startups
    BY <1>3 DEF Climbs, Control!Own, Control!Look, Control!Probe, Control!Remove, Control!Bind,
       Control!Unlink, Control!CloseListener, Control!DropListener, Control!Exit
  <2>2. CASE Climbs(s) \/ Control!CloseListener(s)
    <3>1. \E to : Control!Move(s, to)
      BY <2>2 DEF Climbs, Control!Own, Control!Look, Control!Probe, Control!Remove, Control!Bind,
         Control!Unlink, Control!GivesUp, Control!CloseListener
    <3> QED BY <1>2, <2>1, <3>1
  <2>3. CASE Control!DropListener(s)
    <3>1. \E to, n : process' = [process EXCEPT ![s].pc = to, ![s].free = n]
      BY <2>3 DEF Control!DropListener
    <3> QED BY <1>2, <2>1, <3>1
  <2>4. CASE Control!Exit(s)
    BY <1>2, <2>1, <2>4 DEF Control!Exit
  <2> QED BY <1>3, <2>2, <2>3, <2>4
<1>4. ASSUME NEW i \in DOMAIN conns,
             Control!Accept(i) \/ Control!Receive(i) \/ Control!Respond(i) \/ Control!Send(i)
               \/ Control!TimesOut(i)
      PROVE  Goal
  <2>1. /\ startups' = startups
        /\ UNCHANGED process \/ \E s, n : process' = [process EXCEPT ![s].free = n]
    BY <1>4 DEF Control!Accept, Control!Receive, Control!Respond, Control!Send, Control!TimesOut
  <2> QED BY <1>2, <2>1
<1>5. ASSUME NEW c \in Clients,
             \/ \E command \in {"read", "write"}, s \in Servers : Control!Begin(c, command, InstanceOf[s])
             \/ Control!Exchange(c) \/ Control!SendRaw(c) \/ Control!Hears(c) \/ Control!Leaves(c)
      PROVE  Goal
  <2>1. UNCHANGED <<startups, process>>
    BY <1>5 DEF Control!Begin, Control!Exchange, Control!SendRaw, Control!Hears, Control!Leaves,
       Control!Connects
  <2> QED BY <1>2, <2>1
<1>6. ASSUME Control!Clean \/ UNCHANGED Control!vars PROVE Goal
  BY <1>2, <1>6 DEF Control!Clean, Control!vars
<1> HIDE DEF Goal
<1>7. Goal
  BY <1>1, <1>3, <1>4, <1>5, <1>6 DEF Control!Next, Climbs
<1> QED BY <1>7 DEF Goal

(* A response: what was not refused was meant for this process.            *)
LEMMA Responding ==
  ASSUME ControlInv, PermitInv, Ids, NEW i \in DOMAIN conns, Control!Respond(i)
  PROVE  \E s \in Servers, ok \in BOOLEAN :
           /\ conns[i].pc \in Pending /\ process[s].startup \in Nat \ {0}
           /\ UNCHANGED <<startups, client>>
           /\ ok => /\ conns[i].request.instance = InstanceOf[s]
                    /\ conns[i].request.command = "write" =>
                         conns[i].request.expected = process[s].startup
           /\ effects' = IF ok /\ conns[i].request.command = "write"
                         THEN effects \cup {[startup |-> process[s].startup, conn |-> i,
                                             asked |-> conns[i].request.instance]}
                         ELSE effects
           /\ conns'[i].pc \notin Pending
           /\ conns'[i].pc \in Told =>
                conns'[i].answer = IF ok THEN process[s].startup ELSE -1
<1>1. conns[i].pc = "working" /\ UNCHANGED <<startups, client>> /\ conns[i].pc \in Pending \cap Held
      /\ DOMAIN conns[i] = Fields
  BY DEF Control!Respond, Held, Busy, Pending, PermitInv, Linked
<1>2. PICK s \in Servers : s = conns[i].owner
  BY <1>1 DEF PermitInv, Linked
<1>3. process[s].startup \in Nat \ {0}
  BY <1>1, <1>2 DEF Ids
<1>4. PICK ok \in BOOLEAN :
           /\ ok => Control!Refusal(s, conns[i].request) = "none"
           /\ effects' = IF ok /\ conns[i].request.command = "write"
                         THEN effects \cup {[startup |-> process[s].startup, conn |-> i,
                                             asked |-> conns[i].request.instance]}
                         ELSE effects
           /\ conns' = [conns EXCEPT ![i] =
                IF conns[i].live
                THEN [conns[i] EXCEPT !.pc = "sending",
                                      !.answer = IF ok THEN process[s].startup ELSE -1]
                ELSE Control!Closed]
  BY <1>2 DEF Control!Respond, Control!Writes, Control!Failed
<1>5. ok => /\ conns[i].request.instance = InstanceOf[s]
            /\ conns[i].request.command = "write" => conns[i].request.expected = process[s].startup
  BY <1>4 DEF Control!Refusal, Control!Writes
<1>6. conns'[i].pc \notin Pending
      /\ (conns'[i].pc \in Told => conns'[i].answer = IF ok THEN process[s].startup ELSE -1)
  <2>1. CASE conns[i].live
    <3>1. PICK told : told = IF ok THEN process[s].startup ELSE -1
      OBVIOUS
    <3>2. conns'[i] = [conns[i] EXCEPT !.pc = "sending", !.answer = told]
      BY <1>4, <2>1, <3>1
    <3>3. conns'[i].pc = "sending" /\ conns'[i].answer = told
      BY <1>1, <3>2 DEF Fields
    <3> QED BY <3>1, <3>3 DEF Pending
  <2>2. CASE ~conns[i].live
    <3>1. conns'[i] = Control!Closed
      BY <1>4, <2>2
    <3>2. conns'[i].pc = "closed"
      BY <3>1 DEF Control!Closed
    <3> QED BY <3>2 DEF Pending, Told
  <2> QED BY <2>1, <2>2
<1> QED BY <1>1, <1>3, <1>4, <1>5, <1>6

(* Only a response adds to what was carried out.                           *)
LEMMA EffectsOf ==
  ASSUME [Control!Next]_(Control!vars), \A i \in DOMAIN conns : ~Control!Respond(i)
  PROVE  UNCHANGED effects
BY DEF Control!Next, Control!vars, Control!StartServer, Control!Own, Control!Look, Control!Probe,
   Control!Remove, Control!Bind, Control!DropListener, Control!Unlink, Control!CloseListener,
   Control!Exit, Control!Clean, Control!Accept, Control!Receive, Control!Send, Control!TimesOut, Control!Begin,
   Control!Exchange, Control!SendRaw, Control!Connects, Control!Hears, Control!Leaves

LEMMA EffectsStep ==
  ASSUME ControlInv, PermitInv, EffectInv, [Control!Next]_(Control!vars)
  PROVE  /\ effects \subseteq effects'
         /\ \A e \in effects' : Done(e)'
         /\ \A e, f \in effects' : e.conn = f.conn => e = f
         /\ \A i \in DOMAIN conns' : Answered(i)'
<1>0. Ids
  BY DEF EffectInv
<1>1. \A e \in effects : Done(e)'
  <2> SUFFICES ASSUME NEW e \in effects PROVE Done(e)'
    OBVIOUS
  <2>1. Done(e) /\ Goes(e.conn)
    BY Going DEF EffectInv, Done
  <2>2. e.conn \in DOMAIN conns' /\ conns'[e.conn].pc \notin Pending
    BY <2>1 DEF Done, Goes
  <2>3. startups \in Nat /\ e.startup <= startups'
    BY <1>0, <2>1, Started DEF Done, Ids
  <2>4. ASSUME NEW s \in Servers, process'[s].startup = e.startup PROVE InstanceOf[s] = e.asked
    <3>1. e.startup # 0 /\ e.startup # startups + 1
      BY <2>1, <2>3 DEF Done
    <3>2. process[s].startup = e.startup
      BY <1>0, <2>4, <3>1, Started
    <3> QED BY <2>1, <3>2 DEF Done
  <2> QED BY <2>1, <2>2, <2>3, <2>4 DEF Done
<1>2. ASSUME NEW j \in DOMAIN conns', ~\E i \in DOMAIN conns : Control!Respond(i), UNCHANGED effects
      PROVE  Answered(j)'
  <2>1. CASE j \in DOMAIN conns
    <3>1. Goes(j) /\ Answered(j)
      BY <2>1, <1>0, Going DEF EffectInv
    <3> QED BY <1>2, <2>1, <3>1 DEF Goes, Answered, Wrote, Told
  <2>2. CASE j \notin DOMAIN conns
    BY <2>2, Going DEF Answered, Told
  <2> QED BY <2>1, <2>2
<1>3. CASE \A i \in DOMAIN conns : ~Control!Respond(i)
  BY <1>1, <1>2, <1>3, EffectsOf DEF EffectInv
<1>4. ASSUME NEW i \in DOMAIN conns, Control!Respond(i)
      PROVE  /\ effects \subseteq effects'
             /\ \A e \in effects' : Done(e)'
             /\ \A e, f \in effects' : e.conn = f.conn => e = f
             /\ \A j \in DOMAIN conns' : Answered(j)'
  <2>1. PICK s \in Servers, ok \in BOOLEAN :
           /\ conns[i].pc \in Pending /\ process[s].startup \in Nat \ {0}
           /\ UNCHANGED <<startups, client>>
           /\ ok => /\ conns[i].request.instance = InstanceOf[s]
                    /\ conns[i].request.command = "write" =>
                         conns[i].request.expected = process[s].startup
           /\ effects' = IF ok /\ conns[i].request.command = "write"
                         THEN effects \cup {[startup |-> process[s].startup, conn |-> i,
                                             asked |-> conns[i].request.instance]}
                         ELSE effects
           /\ conns'[i].pc \notin Pending
           /\ conns'[i].pc \in Told =>
                conns'[i].answer = IF ok THEN process[s].startup ELSE -1
    BY <1>0, <1>4, Responding
  <2>2. PICK n : n = [startup |-> process[s].startup, conn |-> i,
                      asked |-> conns[i].request.instance]
    OBVIOUS
  <2>3. n.startup = process[s].startup /\ n.conn = i /\ n.asked = conns[i].request.instance
    BY <2>2
  <2>4. (effects' = effects \cup {n} /\ ok) \/ effects' = effects
    BY <2>1, <2>2
  <2>5. \A j \in DOMAIN conns : Goes(j)
    BY Going
  <2>6. process'[s].startup = process[s].startup
        /\ \A t \in Servers : process'[t].startup = process[t].startup
    <3>1. UNCHANGED process \/ \E t, m : process' = [process EXCEPT ![t].free = m]
      BY <1>4 DEF Control!Respond
    <3> QED BY <3>1 DEF ControlInv, Staged
  <2>7. ok => Done(n)'
    <3> SUFFICES ASSUME ok PROVE Done(n)'
      OBVIOUS
    <3>1. \A t \in Servers : process'[t].startup = n.startup => InstanceOf[t] = n.asked
      BY <1>0, <2>1, <2>3, <2>6 DEF Ids
    <3>2. i \in DOMAIN conns' /\ conns'[i].pc \notin Pending
      BY <2>1, <2>5 DEF Goes
    <3>3. n.startup \in Nat \ {0} /\ n.startup <= startups'
      BY <1>0, <2>1, <2>3 DEF Ids
    <3> QED BY <2>3, <3>1, <3>2, <3>3 DEF Done
  <2>8. \A e \in effects : e.conn # i
    BY <2>1 DEF EffectInv, Done
  <2>9. \A e, f \in effects' : e.conn = f.conn => e = f
    BY <2>3, <2>4, <2>8 DEF EffectInv
  <2>10. ASSUME NEW j \in DOMAIN conns' PROVE Answered(j)'
    <3>1. CASE j = i
      <4>1. Goes(i) /\ (conns'[i].pc # "closed" => conns'[i].request = conns[i].request)
        BY <2>5 DEF Goes
      <4>2. ASSUME conns'[i].pc \in Told, conns'[i].answer # -1
            PROVE  ok /\ conns'[i].answer # 0 /\ conns'[i].request = conns[i].request
        BY <2>1, <4>1, <4>2 DEF Told
      <4>3. ASSUME ok, conns[i].request.command = "write"
            PROVE  \E e \in effects' : e.conn = i /\ e.startup = conns[i].request.expected
        <5>1. n \in effects' /\ n.startup = conns[i].request.expected /\ n.conn = i
          BY <2>1, <2>2, <2>3, <4>3
        <5> QED BY <5>1
      <4> QED BY <3>1, <4>2, <4>3 DEF Answered, Wrote
    <3>2. CASE j # i /\ j \in DOMAIN conns
      <4>1. conns'[j] = conns[j] /\ Answered(j)
        BY <1>4, <3>2 DEF Control!Respond, EffectInv
      <4> QED BY <2>4, <4>1 DEF Answered, Wrote
    <3>3. CASE j \notin DOMAIN conns
      BY <3>3, Going DEF Answered, Told
    <3> QED BY <3>1, <3>2, <3>3
  <2> QED BY <1>1, <2>4, <2>7, <2>9, <2>10
<1> QED BY <1>3, <1>4

(* A client that gives up, or is told: what it was told stays.             *)
LEMMA ClientStays ==
  ASSUME EffectInv, effects \subseteq effects', \A i \in DOMAIN conns : Goes(i),
         NEW c \in Clients, client'[c] = client[c]
  PROVE  Inquired(c)' /\ Informed(c)'
<1>1. Inquired(c) /\ Informed(c)
  BY DEF EffectInv
<1>2. Inquired(c)'
  BY <1>1 DEF Inquired, Goes
<1>3. Informed(c)'
  BY <1>1 DEF Informed, Wrote
<1> QED BY <1>2, <1>3

LEMMA ClientEnds ==
  ASSUME NEW c \in Clients, DOMAIN client = Clients, NEW result, Control!Ends(c, result)
  PROVE  /\ DOMAIN client' = Clients /\ \A d \in Clients : d # c => client'[d] = client[d]
         /\ DOMAIN client'[c] = InquiryFields /\ client'[c].pc = "idle" /\ client'[c].result = result
         /\ client'[c].conn = client[c].conn /\ client'[c].hello = client[c].hello
         /\ client'[c].command = client[c].command
BY DEF Control!Ends, Control!NoClient, InquiryFields

LEMMA Ending ==
  ASSUME EffectInv, NEW c \in Clients, Control!Ends(c, "error"), effects \subseteq effects',
         \A i \in DOMAIN conns : Goes(i)
  PROVE  DOMAIN client' = Clients /\ \A d \in Clients : Inquired(d)' /\ Informed(d)'
<1>1. /\ DOMAIN client' = Clients /\ \A d \in Clients : d # c => client'[d] = client[d]
      /\ DOMAIN client'[c] = InquiryFields /\ client'[c].pc = "idle" /\ client'[c].result = "error"
  BY ClientEnds DEF EffectInv
<1>2. Inquired(c)' /\ Informed(c)'
  BY <1>1 DEF Inquired, Informed
<1> QED BY <1>1, <1>2, ClientStays

LEMMA Connecting ==
  ASSUME ControlInv, PermitInv, EffectInv, NEW c \in Clients, NEW request, NEW command,
         Control!Connects(c, request, command), effects \subseteq effects',
         \A i \in DOMAIN conns : Goes(i),
         command = "write" /\ client[c].hello # 0 =>
           request.command = "write" /\ request.expected = client[c].hello
  PROVE  DOMAIN client' = Clients /\ \A d \in Clients : Inquired(d)' /\ Informed(d)'
<1>1. CASE Control!Alive(endpoint)
  <2>1. PICK S : conns \in Seq(S)
    BY DEF PermitInv
  <2> DEFINE s == CHOOSE t \in Servers : process[t].startup = endpoint
  <2>2. PICK r : r = [pc |-> "backlog", live |-> TRUE, owner |-> s, client |-> c, answer |-> 0,
                      request |-> request]
    OBVIOUS
  <2>3. conns' = Append(conns, r) /\ r.request = request
    BY <1>1, <2>2 DEF Control!Connects
  <2>4. conns \in Seq(S \cup {r}) /\ r \in S \cup {r}
    BY <2>1
  <2>5. Len(conns) + 1 \in DOMAIN conns' /\ conns'[Len(conns) + 1] = r
    BY <2>3, <2>4
  <2> DEFINE n == [Control!NoClient EXCEPT !.pc = "waiting", !.conn = Len(conns) + 1,
                          !.command = command, !.name = client[c].name, !.hello = client[c].hello]
  <2>6. client' = [client EXCEPT ![c] = n] /\ DOMAIN client = Clients
    BY <1>1 DEF Control!Connects, EffectInv
  <2>7. DOMAIN n = InquiryFields /\ n.pc = "waiting" /\ n.result = "none" /\ n.conn = Len(conns) + 1
        /\ n.command = command /\ n.hello = client[c].hello
    BY DEF Control!NoClient, InquiryFields
  <2> HIDE DEF n
  <2>8. /\ DOMAIN client' = Clients /\ \A d \in Clients : d # c => client'[d] = client[d]
        /\ DOMAIN client'[c] = InquiryFields /\ client'[c].pc = "waiting" /\ client'[c].result = "none"
        /\ client'[c].conn = Len(conns) + 1 /\ client'[c].command = command
        /\ client'[c].hello = client[c].hello
    BY <2>6, <2>7
  <2>9. Informed(c)'
    BY <2>8 DEF Informed
  <2>10. Inquired(c)'
    BY <2>3, <2>5, <2>8 DEF Inquired
  <2> QED BY <2>8, <2>9, <2>10, ClientStays
<1>2. CASE ~Control!Alive(endpoint)
  <2>1. Control!Ends(c, "error")
    BY <1>2 DEF Control!Connects
  <2> QED BY <2>1, Ending
<1> QED BY <1>1, <1>2

LEMMA Hearing ==
  ASSUME EffectInv, NEW c \in Clients, Control!Hears(c), effects \subseteq effects',
         \A i \in DOMAIN conns : Goes(i)
  PROVE  DOMAIN client' = Clients /\ \A d \in Clients : Inquired(d)' /\ Informed(d)'
<1> DEFINE i == client[c].conn
<1>1. client[c].pc = "waiting" /\ DOMAIN client = Clients /\ DOMAIN client[c] = InquiryFields
      /\ client[c].result = "none" /\ Inquired(c)
  BY DEF Control!Hears, EffectInv, Informed
<1>2. CASE Control!Ends(c, "error")
  BY <1>2, Ending
<1>3. CASE client' = [client EXCEPT ![c].pc = "hello", ![c].hello = conns[i].answer]
  <2>1. PICK a : a = conns[i].answer
    OBVIOUS
  <2>2. client' = [client EXCEPT ![c].pc = "hello", ![c].hello = a]
    BY <1>3, <2>1
  <2>3. /\ DOMAIN client' = Clients /\ \A d \in Clients : d # c => client'[d] = client[d]
        /\ DOMAIN client'[c] = InquiryFields /\ client'[c].pc = "hello" /\ client'[c].result = "none"
    BY <1>1, <2>2 DEF InquiryFields
  <2>4. Inquired(c)' /\ Informed(c)'
    BY <2>3 DEF Inquired, Informed
  <2> QED BY <2>3, <2>4, ClientStays
<1>4. CASE /\ Control!Ends(c, "ok") /\ conns[i].pc = "answered" /\ conns[i].answer # -1
           /\ client[c].command = "none" \/ client[c].hello # 0
  <2>1. /\ DOMAIN client' = Clients /\ \A d \in Clients : d # c => client'[d] = client[d]
        /\ DOMAIN client'[c] = InquiryFields /\ client'[c].pc = "idle" /\ client'[c].result = "ok"
        /\ client'[c].conn = i /\ client'[c].hello = client[c].hello
        /\ client'[c].command = client[c].command
    BY <1>1, <1>4, ClientEnds
  <2>2. ASSUME client[c].command = "write" PROVE Wrote(i, client[c].hello)
    <3>1. client[c].hello # 0
      BY <1>4, <2>2
    <3>2. i \in DOMAIN conns /\ conns[i].request.command = "write"
          /\ conns[i].request.expected = client[c].hello
      BY <1>1, <1>4, <2>2, <3>1 DEF Inquired
    <3>3. Answered(i)
      BY <3>2 DEF EffectInv
    <3> QED BY <1>4, <3>2, <3>3 DEF Answered, Told
  <2>3. Informed(c)'
    BY <2>1, <2>2 DEF Informed, Wrote
  <2>4. Inquired(c)'
    BY <2>1 DEF Inquired
  <2> QED BY <2>1, <2>3, <2>4, ClientStays
<1> QED BY <1>2, <1>3, <1>4 DEF Control!Hears, Control!Failed

LEMMA ClientsStep ==
  ASSUME ControlInv, PermitInv, EffectInv, [Control!Next]_(Control!vars), effects \subseteq effects'
  PROVE  DOMAIN client' = Clients /\ \A c \in Clients : Inquired(c)' /\ Informed(c)'
<1> DEFINE Goal == DOMAIN client' = Clients /\ \A c \in Clients : Inquired(c)' /\ Informed(c)'
<1>1. \A i \in DOMAIN conns : Goes(i)
  BY Going
<1>2. ASSUME UNCHANGED client PROVE Goal
  BY <1>1, <1>2, ClientStays DEF EffectInv
<1>3. ASSUME NEW c \in Clients, Control!Exchange(c) PROVE Goal
  <2>1. PICK r, command : r = Control!Request(c) /\ command = client[c].command
    OBVIOUS
  <2>2. Control!Connects(c, r, command)
    BY <1>3, <2>1 DEF Control!Exchange
  <2>3. command = "write" /\ client[c].hello # 0 =>
          r.command = "write" /\ r.expected = client[c].hello
    BY <2>1 DEF Control!Request
  <2> QED BY <1>1, <2>2, <2>3, Connecting
<1>4. ASSUME NEW c \in Clients, Control!SendRaw(c) PROVE Goal
  <2>1. PICK r \in Raw : Control!Connects(c, r, "none")
    BY <1>4 DEF Control!SendRaw
  <2> QED BY <1>1, <2>1, Connecting
<1>5. ASSUME NEW c \in Clients, Control!Hears(c) PROVE Goal
  BY <1>1, <1>5, Hearing
<1>6. ASSUME NEW c \in Clients, Control!Leaves(c) PROVE Goal
  BY <1>1, <1>6, Ending DEF Control!Leaves
<1>7. ASSUME NEW c \in Clients, NEW command, NEW name, Control!Begin(c, command, name) PROVE Goal
  <2>1. /\ DOMAIN client' = Clients /\ \A d \in Clients : d # c => client'[d] = client[d]
        /\ DOMAIN client'[c] = InquiryFields /\ client'[c].pc = "hello" /\ client'[c].result = "none"
    BY <1>7 DEF Control!Begin, Control!NoClient, InquiryFields, EffectInv
  <2>2. Inquired(c)' /\ Informed(c)'
    BY <2>1 DEF Inquired, Informed
  <2> QED BY <1>1, <2>1, <2>2, ClientStays
<1>8. ASSUME NEW s \in Servers,
             \/ Climbs(s) \/ Control!StartServer(s) \/ Control!DropListener(s)
             \/ Control!CloseListener(s) \/ Control!Exit(s)
      PROVE  UNCHANGED client
  BY <1>8 DEF Control!StartServer, Climbs, Control!Own, Control!Look, Control!Probe, Control!Remove,
     Control!Bind, Control!Unlink, Control!DropListener, Control!CloseListener, Control!Exit
<1>9. ASSUME NEW i \in DOMAIN conns,
             Control!Accept(i) \/ Control!Receive(i) \/ Control!Respond(i) \/ Control!Send(i)
               \/ Control!TimesOut(i)
      PROVE  UNCHANGED client
  BY <1>9 DEF Control!Accept, Control!Receive, Control!Respond, Control!Send, Control!TimesOut
<1>10. Control!Clean \/ UNCHANGED Control!vars => UNCHANGED client
  BY DEF Control!Clean, Control!vars
<1> HIDE DEF Goal
<1>11. Goal
  BY <1>2, <1>3, <1>4, <1>5, <1>6, <1>7, <1>8, <1>9, <1>10 DEF Control!Next, Climbs
<1> QED BY <1>11 DEF Goal

(* A command that changes something is carried out once at most, by a      *)
(* process of the instance that was asked for and the one that answered    *)
(* the greeting, and a client that is told so is told the truth, whatever  *)
(* servers start, stop and replace each other meanwhile                    *)
(* (control/client.rs, control/server.rs).                                 *)
THEOREM CommandsHitTheirServer ==
  ASSUME Administered PROVE ControlSpec => []Control!WritesHitTheirServer
<1>1. Control!Init => EffectInv
  <2> SUFFICES ASSUME Control!Init PROVE EffectInv
    OBVIOUS
  <2>1. /\ DOMAIN conns = {} /\ effects = {} /\ startups = 1
        /\ process = [s \in Servers |-> [pc |-> "off", startup |-> 0, free |-> 0]]
        /\ client = [c \in Clients |-> Control!NoClient]
    BY DEF Control!Init, Control!NoServer, Control!Stale
  <2>2. Ids
    BY <2>1 DEF Ids
  <2>3. DOMAIN Control!NoClient = InquiryFields /\ Control!NoClient.pc = "idle"
        /\ Control!NoClient.result = "none"
    BY DEF Control!NoClient, InquiryFields
  <2> QED BY <2>1, <2>2, <2>3 DEF EffectInv, Inquired, Informed
<1>2. ControlInv /\ PermitInv /\ Administered /\ EffectInv /\ [Control!Next]_(Control!vars)
        => EffectInv'
  <2> SUFFICES ASSUME ControlInv, PermitInv, Administered, EffectInv, [Control!Next]_(Control!vars)
               PROVE  EffectInv'
    OBVIOUS
  <2>1. Ids'
    BY IdsStep DEF EffectInv
  <2> QED BY <2>1, EffectsStep, ClientsStep DEF EffectInv
<1>3. EffectInv => Control!WritesHitTheirServer
  BY DEF EffectInv, Done, Informed, Wrote, Control!WritesHitTheirServer
<1>4. ControlSpec => []ControlInv
  BY ControlHolds DEF Administered
<1> QED BY <1>1, <1>2, <1>3, <1>4, PermitHolds, PTL DEF ControlSpec
=============================================================================
