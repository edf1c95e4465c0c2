--------------------------- MODULE SyncJobsProofs ---------------------------
(***************************************************************************)
(* Proofs about the coordinator.  Every step touches the list of jobs in   *)
(* one of four ways: it begins a job, finishes one, cancels some, or       *)
(* leaves the list alone.  A lemma says what each way does; the inductive  *)
(* invariant ties the list to the tasks that run the jobs.                 *)
(***************************************************************************)
EXTENDS SyncJobs, FiniteSetTheorems, WellFoundedInduction, TLAPS

Statuses == {"absent", "running", "cancelling"} \cup Terminal
Job == [status : Statuses, origin : {"none", "background", "manual"}, mask : SUBSET Dataset,
        revision : Nat, at : Nat]

(* The main task only leaves "serving" by stopping the coordinator. *)
StopFirst == main # "serving" => stopping

(* A retry chain that has not ended has a delay left. *)
ChainHasDelay ==
    \A t \in Tasks : t[2] = "retry" =>
       /\ pc[t] \in {"gone", "wait", "asleep", "inner", "begin", "running"}
       /\ pc[t] # "gone" => attempt[t] < RetryDelays

JobInv == /\ TypeOK
          /\ ChainHasDelay
          /\ ReservationsDisjoint
          /\ StopReachesEveryJob
          /\ RunnerOwnsReservation
          /\ StopFirst
          /\ DrainedIsQuiet

(* What a finished job leaves: its own mask is empty, the other jobs that   *)
(* hold something are as they were, and the history only forgets.           *)
FinishEffect(i, status) ==
    /\ jobs' \in [JobIds -> Job]
    /\ jobs'[i].mask = {} /\ jobs'[i].status \in {status, "absent"}
    /\ \A k \in JobIds \ {i} :
         /\ jobs'[k].mask = jobs[k].mask
         /\ k \in Active => jobs'[k].status = jobs[k].status /\ jobs'[k].origin = jobs[k].origin
         /\ k \notin Active => jobs'[k].status \in {jobs[k].status, "absent"}

LEMMA CountIsNat ==
    ASSUME NEW S, S \subseteq JobIds PROVE Cardinality(S) \in Nat
BY ConstantsOK, FS_Subset, FS_CardinalityType

LEMMA FinishDoes ==
    ASSUME TypeOK, ReservationsDisjoint, NEW i \in Active, NEW status \in Terminal,
           Finish(i, status)
    PROVE  FinishEffect(i, status)
<1> DEFINE js == Ended(i, status)
           Rank(k) == Cardinality({n \in Kept(js) : js[n].at <= js[k].at})
<1>1. jobs \in [JobIds -> Job] /\ i \in JobIds
  BY DEF TypeOK, Job, Statuses, Active
<1>2. js \in [JobIds -> Job]
  BY <1>1 DEF Ended, Job, Statuses
<1>3. /\ js[i].mask = {} /\ js[i].status = status
      /\ \A k \in JobIds \ {i} : js[k] = jobs[k]
  BY <1>1 DEF Ended, Job
<1>4. \A k \in JobIds : Rank(k) \in Nat
  BY CountIsNat DEF Kept
<1>5. jobs' = [k \in JobIds |-> IF k \in Kept(js) THEN [js[k] EXCEPT !.at = Rank(k)] ELSE Absent]
  BY DEF Finish, Finished
<1>6. Absent \in Job
  BY DEF Absent, Job, Statuses
<1>7. \A k \in JobIds : [js[k] EXCEPT !.at = Rank(k)] \in Job
  <2> TAKE k \in JobIds
  <2>1. js[k] \in Job /\ Rank(k) \in Nat
    BY <1>2, <1>4
  <2> HIDE DEF js, Rank
  <2> QED
    BY <2>1 DEF Job
<1>8. \A k \in JobIds : /\ [js[k] EXCEPT !.at = Rank(k)].status = js[k].status
                        /\ [js[k] EXCEPT !.at = Rank(k)].mask = js[k].mask
                        /\ [js[k] EXCEPT !.at = Rank(k)].origin = js[k].origin
  <2> TAKE k \in JobIds
  <2>1. js[k] \in Job
    BY <1>2
  <2> HIDE DEF js, Rank
  <2> QED
    BY <2>1 DEF Job
<1>9. \A k \in JobIds : js[k].status \in {"running", "cancelling"} => k \in Kept(js)
  BY <1>2 DEF Kept, Done, Terminal
<1>10. \A k \in JobIds \ {i} : k \notin Active => jobs[k].mask = {}
  BY DEF Active
<1>11. \A k \in JobIds \ {i} : k \in Active => jobs[k].status \in {"running", "cancelling"}
  BY DEF Active, ReservationsDisjoint
<1> HIDE DEF js, Rank
<1>12. jobs' \in [JobIds -> Job]
  BY <1>5, <1>6, <1>7
<1>13. jobs'[i].mask = {} /\ jobs'[i].status \in {status, "absent"}
  BY <1>1, <1>3, <1>5, <1>8 DEF Absent
<1>14. ASSUME NEW k \in JobIds \ {i}
       PROVE  /\ jobs'[k].mask = jobs[k].mask
              /\ k \in Active => jobs'[k].status = jobs[k].status /\ jobs'[k].origin = jobs[k].origin
              /\ k \notin Active => jobs'[k].status \in {jobs[k].status, "absent"}
  <2>1. CASE k \in Kept(js)
    BY <2>1, <1>3, <1>5, <1>8
  <2>2. CASE k \notin Kept(js)
    BY <2>2, <1>3, <1>5, <1>9, <1>10, <1>11 DEF Absent
  <2> QED
    BY <2>1, <2>2
<1> QED
  BY <1>12, <1>13, <1>14 DEF FinishEffect

(* A job that begins holds what nobody held, under a fresh control. *)
BeginEffect(i, origin, mask) ==
    /\ ~stopping /\ \A k \in JobIds : jobs[k].mask \cap mask = {}
    /\ jobs[i].status = "absent"
    /\ jobs' \in [JobIds -> Job]
    /\ jobs'[i].mask = mask /\ jobs'[i].status = "running" /\ jobs'[i].origin = origin
    /\ \A k \in JobIds \ {i} : jobs'[k] = jobs[k] /\ control'[k] = control[k]
    /\ control' \in [JobIds -> {0, 130, 143}] /\ control'[i] = 0
    /\ verdict' \in [JobIds -> {"none"} \cup Terminal] /\ verdict'[i] = "none"

LEMMA BeginDoes ==
    ASSUME TypeOK, NEW i \in JobIds, NEW origin \in {"background", "manual"},
           NEW mask \in SUBSET Dataset, Begin(i, origin, mask)
    PROVE  BeginEffect(i, origin, mask)
<1>1. jobs \in [JobIds -> Job]
  BY DEF TypeOK, Job, Statuses
<1>2. Cardinality(Present) + 1 \in Nat
  BY CountIsNat DEF Present
<1>3. applied.revision \in Nat
  BY DEF TypeOK
<1>4. [status |-> "running", origin |-> origin, mask |-> mask,
       revision |-> applied.revision, at |-> Cardinality(Present) + 1] \in Job
  BY <1>2, <1>3 DEF Job, Statuses
<1>5. jobs' \in [JobIds -> Job]
  BY <1>1, <1>4 DEF Begin
<1> QED
  BY <1>1, <1>5 DEF Begin, BeginEffect, Refused, Present, TypeOK

(* Cancelling marks the chosen jobs and nothing else. *)
CancelEffect(chosen, code) ==
    /\ jobs' \in [JobIds -> Job]
    /\ control' \in [JobIds -> {0, 130, 143}]
    /\ \A k \in JobIds : /\ jobs'[k].mask = jobs[k].mask /\ jobs'[k].origin = jobs[k].origin
                         /\ k \in chosen => jobs'[k].status = "cancelling" /\ control'[k] = code
                         /\ k \notin chosen => jobs'[k] = jobs[k] /\ control'[k] = control[k]

LEMMA CancelDoes ==
    ASSUME TypeOK, NEW chosen \in SUBSET JobIds, NEW code \in {130, 143}, Cancelled(chosen, code)
    PROVE  CancelEffect(chosen, code)
<1>1. jobs \in [JobIds -> Job]
  BY DEF TypeOK, Job, Statuses
<1>2. \A k \in JobIds : /\ [jobs[k] EXCEPT !.status = "cancelling"] \in Job
                        /\ [jobs[k] EXCEPT !.status = "cancelling"].mask = jobs[k].mask
                        /\ [jobs[k] EXCEPT !.status = "cancelling"].origin = jobs[k].origin
                        /\ [jobs[k] EXCEPT !.status = "cancelling"].status = "cancelling"
  BY <1>1 DEF Job, Statuses
<1>3. jobs' \in [JobIds -> Job]
  BY <1>1, <1>2 DEF Cancelled
<1> QED
  BY <1>1, <1>2, <1>3 DEF Cancelled, CancelEffect, TypeOK

LEMMA TaskShape ==
    ASSUME NEW t \in Tasks
    PROVE  t[1] \in Enabled /\ t[2] \in {"worker", "retry"} /\ t[1] \in Dataset
           /\ <<t[1], "retry">> \in Tasks
BY ConstantsOK DEF Tasks

LEMMA TypeStep == JobInv /\ [Next]_vars => TypeOK' /\ ChainHasDelay'
<1> SUFFICES ASSUME JobInv, [Next]_vars PROVE TypeOK' /\ ChainHasDelay'
  OBVIOUS
<1> USE DEF JobInv
<1>1. TypeOK /\ ChainHasDelay /\ ReservationsDisjoint
  OBVIOUS
<1>2. jobs \in [JobIds -> Job]
  BY DEF TypeOK, Job, Statuses
<1>3. jobs' \in [JobIds -> Job] =>
         jobs' \in [JobIds -> [status : {"absent", "running", "cancelling"} \cup Terminal,
                               origin : {"none", "background", "manual"}, mask : SUBSET Dataset,
                               revision : Nat, at : Nat]]
  BY DEF Job, Statuses
<1>4. ASSUME NEW i \in JobIds, NEW ok \in BOOLEAN, Judge(i, ok) PROVE TypeOK' /\ ChainHasDelay'
  BY <1>1, <1>4 DEF Judge, TypeOK, ChainHasDelay, Terminal, tasks
<1>5. ASSUME NEW i \in JobIds, NEW target \in Targets, Submit(i, target) PROVE TypeOK' /\ ChainHasDelay'
  <2>1. TargetMask(target) \in SUBSET Dataset
    BY ConstantsOK DEF TargetMask, Dataset
  <2>2. BeginEffect(i, "manual", TargetMask(target))
    BY <2>1, <1>5, <1>1, BeginDoes DEF Submit
  <2> QED
    BY <2>2, <1>5, <1>1, <1>3 DEF Submit, BeginEffect, TypeOK, ChainHasDelay, tasks
<1>6. ASSUME NEW i \in JobIds, FinishManual(i) \/ PanicManual(i) PROVE TypeOK' /\ ChainHasDelay'
  <2>1. PICK s \in Terminal : Finish(i, s)
    BY <1>6, <1>1 DEF FinishManual, PanicManual, TypeOK, Terminal
  <2>2. FinishEffect(i, s)
    BY <2>1, <1>6, <1>1, FinishDoes DEF FinishManual, PanicManual, Manual
  <2>3. control' = control /\ rung' = TRUE
    BY <2>1 DEF Finish
  <2> QED
    BY <2>2, <2>3, <1>6, <1>1, <1>3 DEF FinishManual, PanicManual, FinishEffect, TypeOK, ChainHasDelay, tasks
<1>7. ASSUME NEW i \in JobIds, Cancel(i) PROVE TypeOK' /\ ChainHasDelay'
  <2>1. CancelEffect({i}, 130)
    BY <1>7, <1>1, CancelDoes DEF Cancel
  <2> QED
    BY <2>1, <1>7, <1>1, <1>3 DEF Cancel, CancelEffect, TypeOK, ChainHasDelay, tasks
<1>8. ASSUME NEW expected \in 1..MaxRevision, NEW polling \in BOOLEAN, Replace(expected, polling)
      PROVE TypeOK' /\ ChainHasDelay'
  BY <1>8, <1>1 DEF Replace, TypeOK, ChainHasDelay, tasks
<1>9. ASSUME NEW t \in Tasks, Look(t) \/ TaskBusy(t) \/ Timer(t) \/ Changed(t)
      PROVE TypeOK' /\ ChainHasDelay'
  <2>1. UNCHANGED <<world, first, held>>
    BY <1>9 DEF Look, TaskBusy, Timer, Changed
  <2>2. TypeOK' /\ ChainHasDelay'
    <3>1. CASE Look(t)
      BY <2>1, <3>1, <1>1, ConstantsOK, SMTT(30) DEF Look, TypeOK, ChainHasDelay, world, Goto
    <3>2. CASE TaskBusy(t)
      BY <2>1, <3>2, <1>1, TaskShape DEF TaskBusy, AfterBusy, TypeOK, ChainHasDelay, world, Goto
    <3>3. CASE Timer(t)
      BY <2>1, <3>3, <1>1 DEF Timer, TypeOK, ChainHasDelay, world, Goto
    <3>4. CASE Changed(t)
      BY <2>1, <3>4, <1>1 DEF Changed, Saw, TypeOK, ChainHasDelay, world, Goto
    <3> QED
      BY <1>9, <3>1, <3>2, <3>3, <3>4
  <2> QED
    BY <2>2
<1>10. ASSUME NEW t \in Tasks, NEW i \in JobIds, TaskBegin(t, i) PROVE TypeOK' /\ ChainHasDelay'
  <2>1. {t[1]} \in SUBSET Dataset
    BY TaskShape
  <2>2. BeginEffect(i, "background", {t[1]})
    BY <2>1, <1>10, <1>1, BeginDoes DEF TaskBegin
  <2> QED
    BY <2>2, <1>10, <1>1, <1>3 DEF TaskBegin, BeginEffect, TypeOK, ChainHasDelay, Goto
<1>11. ASSUME NEW t \in Tasks, TaskFinish(t) PROVE TypeOK' /\ ChainHasDelay'
  <2>1. held[t] \in Active /\ verdict[held[t]] \in Terminal
    BY <1>11, <1>1 DEF TaskFinish, RunnerOwnsReservation, TypeOK, Active
  <2>2. FinishEffect(held[t], verdict[held[t]])
    BY <2>1, <1>11, <1>1, FinishDoes DEF TaskFinish
  <2>3. control' = control /\ rung' = TRUE
    BY <1>11 DEF TaskFinish, Finish
  <2> DEFINE v == verdict[held[t]]
  <2>4. NextPlace(t, v) \in {"wait", "gone", "delay", "periodic"}
        /\ (t[2] = "retry" => NextPlace(t, v) \in {"wait", "gone"})
    BY DEF NextPlace
  <2>5. t[2] = "retry" /\ NextPlace(t, v) = "wait" => v = "failed" /\ attempt[t] + 1 < RetryDelays
    BY DEF NextPlace
  <2>6. v = "failed" /\ Again(t) => attempt[t] + 1 \in 0..RetryDelays
    BY <1>11, <1>1, ConstantsOK DEF TaskFinish, Again, ChainHasDelay, TypeOK
  <2>7. pc' \in [Tasks -> {"gone", "outer", "inner", "begin", "busy", "running", "delay",
                           "periodic", "interval", "parked", "wait", "asleep"}]
    BY <2>4, <1>11, <1>1 DEF TaskFinish, TypeOK
  <2>8. attempt' \in [Tasks -> 0..RetryDelays]
    BY <2>6, <1>11, <1>1, ConstantsOK DEF TaskFinish, TypeOK
  <2>9. /\ first' \in [Enabled -> BOOLEAN] /\ unseen' \in [Tasks -> BOOLEAN]
        /\ held' \in [Tasks -> JobIds \cup {Nobody}]
    BY <1>11, <1>1, TaskShape DEF TaskFinish, TypeOK
  <2>10. TypeOK'
    BY <2>2, <2>3, <2>7, <2>8, <2>9, <1>11, <1>1, <1>3 DEF TaskFinish, FinishEffect, TypeOK
  <2>11. ASSUME NEW u \in Tasks, u[2] = "retry"
         PROVE  /\ pc'[u] \in {"gone", "wait", "asleep", "inner", "begin", "running"}
                /\ pc'[u] # "gone" => attempt'[u] < RetryDelays
    <3>1. CASE u = t
      BY <3>1, <2>11, <2>4, <2>5, <1>11, <1>1 DEF TaskFinish, Again, ChainHasDelay, TypeOK
    <3>2. CASE u # t
      BY <3>2, <2>11, <1>11, <1>1, ConstantsOK DEF TaskFinish, ChainHasDelay, TypeOK
    <3> QED
      BY <3>1, <3>2
  <2> QED
    BY <2>10, <2>11 DEF ChainHasDelay
<1>12. ASSUME NEW t \in Tasks, TaskPanic(t) PROVE TypeOK' /\ ChainHasDelay'
  <2>1. held[t] \in Active
    BY <1>12, <1>1 DEF TaskPanic, RunnerOwnsReservation
  <2>2. FinishEffect(held[t], "failed")
    BY <2>1, <1>12, <1>1, FinishDoes DEF TaskPanic, Terminal
  <2>3. control' = control /\ rung' = TRUE
    BY <1>12 DEF TaskPanic, Finish
  <2> QED
    BY <2>2, <2>3, <1>12, <1>1, <1>3 DEF TaskPanic, FinishEffect, TypeOK, ChainHasDelay, Goto
<1>13. ASSUME Signal \/ Drain PROVE TypeOK' /\ ChainHasDelay'
  <2>1. CancelEffect(Active, 143)
    BY <1>13, <1>1, CancelDoes DEF Signal, Drain, Stop, Active
  <2>2. UNCHANGED <<verdict, tasks, applied, rung>> /\ stopping' = TRUE
        /\ unseen' = [t \in Tasks |-> pc[t] # "gone"] /\ main' \in {"signalled", "draining"}
    BY <1>13 DEF Signal, Drain, Stop
  <2> QED
    BY <2>1, <2>2, <1>1, <1>3 DEF CancelEffect, TypeOK, ChainHasDelay, tasks
<1>14. ASSUME MainStep \/ GiveUp \/ UNCHANGED vars PROVE TypeOK' /\ ChainHasDelay'
  <2>1. UNCHANGED <<jobs, control, verdict, pc, attempt, first, held, unseen, applied, stopping>>
    BY <1>14 DEF MainStep, Arm, LookAtJobs, Wake, GiveUp, vars, tasks
  <2>2. main' \in {"serving", "signalled", "draining", "armed", "waiting", "left", "forced"}
    BY <1>14, <1>1 DEF MainStep, Arm, LookAtJobs, Wake, GiveUp, vars, TypeOK
  <2>3. rung' \in BOOLEAN
    BY <1>14, <1>1 DEF MainStep, Arm, LookAtJobs, Wake, GiveUp, vars, TypeOK
  <2> QED
    BY <2>1, <2>2, <2>3, <1>1 DEF TypeOK, ChainHasDelay
<1> QED
  BY <1>4, <1>5, <1>6, <1>7, <1>8, <1>9, <1>10, <1>11, <1>12, <1>13, <1>14 DEF Next, TaskStep

(* The part of the invariant that ties the jobs to each other and to stop. *)
JobsAgree == ReservationsDisjoint /\ StopReachesEveryJob

LEMMA BeginAgrees ==
    ASSUME JobInv, NEW i \in JobIds, NEW origin, NEW mask \in SUBSET Dataset, mask # {},
           BeginEffect(i, origin, mask), stopping' = stopping
    PROVE  JobsAgree'
<1>1. \A k \in JobIds \ {i} : jobs'[k].mask = jobs[k].mask /\ jobs'[k].status = jobs[k].status
                                  /\ control'[k] = control[k]
  BY DEF BeginEffect
<1>2. ReservationsDisjoint'
  BY <1>1 DEF BeginEffect, JobInv, ReservationsDisjoint
<1>3. StopReachesEveryJob'
  BY <1>1 DEF BeginEffect, JobInv, StopReachesEveryJob, Active
<1> QED
  BY <1>2, <1>3 DEF JobsAgree

LEMMA FinishAgrees ==
    ASSUME JobInv, NEW i \in Active, NEW status \in Terminal,
           FinishEffect(i, status), control' = control, stopping' = stopping
    PROVE  JobsAgree'
<1>1. \A k \in JobIds \ {i} : jobs'[k].mask = jobs[k].mask
  BY DEF FinishEffect
<1>2. jobs'[i].mask = {} /\ i \in JobIds
  BY DEF FinishEffect, Active
<1>3. jobs'[i].status \notin {"running", "cancelling"}
  BY DEF FinishEffect, Terminal
<1>4. \A k \in JobIds \ {i} : k \in Active => jobs'[k].status = jobs[k].status
  BY DEF FinishEffect
<1>5. \A k \in JobIds \ {i} : k \notin Active => jobs'[k].status \notin {"running", "cancelling"}
  BY DEF FinishEffect, JobInv, ReservationsDisjoint, Active
<1>6. ReservationsDisjoint'
  BY <1>1, <1>2, <1>3, <1>4, <1>5 DEF JobInv, ReservationsDisjoint, Active
<1>7. StopReachesEveryJob'
  BY <1>1, <1>2, <1>4 DEF JobInv, StopReachesEveryJob, Active
<1> QED
  BY <1>6, <1>7 DEF JobsAgree

LEMMA CancelAgrees ==
    ASSUME JobInv, NEW chosen \in SUBSET Active, NEW code \in {130, 143},
           CancelEffect(chosen, code),
           stopping' = stopping \/ chosen = Active
    PROVE  JobsAgree'
<1>1. \A k \in JobIds : jobs'[k].mask = jobs[k].mask
  BY DEF CancelEffect
<1>2. \A k \in JobIds : IF k \in chosen THEN jobs'[k].status = "cancelling" /\ control'[k] = code
                         ELSE jobs'[k].status = jobs[k].status /\ control'[k] = control[k]
  BY DEF CancelEffect
<1>3. ReservationsDisjoint'
  BY <1>1, <1>2 DEF JobInv, ReservationsDisjoint, Active
<1>4. StopReachesEveryJob'
  BY <1>1, <1>2 DEF JobInv, StopReachesEveryJob, Active
<1> QED
  BY <1>3, <1>4 DEF JobsAgree

LEMMA SameAgrees ==
    ASSUME JobInv, UNCHANGED <<jobs, control, stopping>> PROVE JobsAgree'
BY DEF JobInv, JobsAgree, ReservationsDisjoint, StopReachesEveryJob, Active

LEMMA AgreeStep == JobInv /\ [Next]_vars => JobsAgree'
<1> SUFFICES ASSUME JobInv, [Next]_vars PROVE JobsAgree'
  OBVIOUS
<1>1. TypeOK /\ ReservationsDisjoint /\ RunnerOwnsReservation
  BY DEF JobInv
<1>2. ASSUME NEW i \in JobIds, NEW target \in Targets, Submit(i, target) PROVE JobsAgree'
  <2>1. TargetMask(target) \in SUBSET Dataset /\ TargetMask(target) # {}
    BY ConstantsOK DEF TargetMask, Dataset
  <2> QED
    BY <2>1, <1>1, <1>2, BeginDoes, BeginAgrees DEF Submit
<1>3. ASSUME NEW i \in JobIds, FinishManual(i) \/ PanicManual(i) PROVE JobsAgree'
  <2>1. PICK s \in Terminal : Finish(i, s)
    BY <1>3, <1>1 DEF FinishManual, PanicManual, TypeOK, Terminal
  <2>2. i \in Active /\ control' = control /\ stopping' = stopping
    BY <1>3, <2>1 DEF FinishManual, PanicManual, Manual, Finish
  <2> QED
    BY <2>1, <2>2, <1>1, FinishDoes, FinishAgrees
<1>4. ASSUME NEW i \in JobIds, Cancel(i) PROVE JobsAgree'
  <2>1. i \in Active /\ Cancelled({i}, 130) /\ stopping' = stopping
    BY <1>4 DEF Cancel
  <2>2. CancelEffect({i}, 130)
    BY <2>1, <1>1, CancelDoes
  <2> QED
    BY <2>1, <2>2, CancelAgrees
<1>5. ASSUME NEW t \in Tasks, NEW i \in JobIds, TaskBegin(t, i) PROVE JobsAgree'
  <2>1. {t[1]} \in SUBSET Dataset /\ {t[1]} # {}
    BY TaskShape
  <2> QED
    BY <2>1, <1>1, <1>5, BeginDoes, BeginAgrees DEF TaskBegin
<1>6. ASSUME NEW t \in Tasks, TaskFinish(t) \/ TaskPanic(t) PROVE JobsAgree'
  <2>1. held[t] \in Active
    BY <1>6, <1>1 DEF TaskFinish, TaskPanic, RunnerOwnsReservation
  <2>2. PICK s \in Terminal : Finish(held[t], s)
    BY <2>1, <1>6, <1>1 DEF TaskFinish, TaskPanic, TypeOK, Terminal, Active
  <2>3. control' = control /\ stopping' = stopping
    BY <1>6, <2>2 DEF TaskFinish, TaskPanic, Finish
  <2> QED
    BY <2>1, <2>2, <2>3, <1>1, FinishDoes, FinishAgrees
<1>7. ASSUME Signal \/ Drain PROVE JobsAgree'
  <2>1. Cancelled(Active, 143)
    BY <1>7 DEF Signal, Drain, Stop
  <2>2. CancelEffect(Active, 143)
    BY <2>1, <1>1, CancelDoes DEF Active
  <2> QED
    BY <2>2, CancelAgrees
<1>8. ASSUME UNCHANGED <<jobs, control, stopping>> PROVE JobsAgree'
  BY <1>8, SameAgrees
<1>9. ASSUME NEW t \in Tasks, Look(t) \/ TaskBusy(t) \/ Timer(t) \/ Changed(t)
      PROVE UNCHANGED <<jobs, control, stopping>>
  BY <1>9 DEF Look, TaskBusy, Timer, Changed, world
<1>10. ASSUME MainStep \/ GiveUp \/ UNCHANGED vars PROVE UNCHANGED <<jobs, control, stopping>>
  BY <1>10 DEF MainStep, Arm, LookAtJobs, Wake, GiveUp, vars
<1>11. ASSUME NEW i \in JobIds, NEW ok \in BOOLEAN, Judge(i, ok) PROVE UNCHANGED <<jobs, control, stopping>>
  BY <1>11 DEF Judge
<1>12. ASSUME NEW expected \in 1..MaxRevision, NEW polling \in BOOLEAN, Replace(expected, polling)
       PROVE UNCHANGED <<jobs, control, stopping>>
  BY <1>12 DEF Replace
<1> QED
  BY <1>2, <1>3, <1>4, <1>5, <1>6, <1>7, <1>8, <1>9, <1>10, <1>11, <1>12 DEF Next, TaskStep

(* Jobs that keep their masks and origins, and tasks that stay where they   *)
(* run, keep the ownership.                                                 *)
LEMMA RunnerStays ==
    ASSUME JobInv,
           \A k \in JobIds : jobs'[k].mask = jobs[k].mask /\ jobs'[k].origin = jobs[k].origin,
           \A t \in Tasks : /\ pc'[t] = "running" <=> pc[t] = "running"
                            /\ held'[t] = held[t]
    PROVE  RunnerOwnsReservation'
BY DEF JobInv, RunnerOwnsReservation, Active

LEMMA RunnerStep == JobInv /\ [Next]_vars => RunnerOwnsReservation'
<1> SUFFICES ASSUME JobInv, [Next]_vars PROVE RunnerOwnsReservation'
  OBVIOUS
<1>1. TypeOK /\ ReservationsDisjoint /\ RunnerOwnsReservation
  BY DEF JobInv
<1>2. ASSUME NEW i \in JobIds, NEW target \in Targets, Submit(i, target) PROVE RunnerOwnsReservation'
  <2>1. TargetMask(target) \in SUBSET Dataset /\ TargetMask(target) # {}
    BY ConstantsOK DEF TargetMask, Dataset
  <2>2. BeginEffect(i, "manual", TargetMask(target)) /\ UNCHANGED <<pc, held>>
    BY <2>1, <1>1, <1>2, BeginDoes DEF Submit, tasks
  <2>3. i \notin Active
    BY <2>2, <1>1 DEF BeginEffect, ReservationsDisjoint, Active
  <2>4. \A k \in JobIds \ {i} : jobs'[k] = jobs[k]
    BY <2>2 DEF BeginEffect
  <2>5. jobs'[i].origin = "manual"
    BY <2>2 DEF BeginEffect
  <2> QED
    BY <2>2, <2>3, <2>4, <2>5, <1>1 DEF RunnerOwnsReservation, Active
<1>3. ASSUME NEW i \in JobIds, FinishManual(i) \/ PanicManual(i) PROVE RunnerOwnsReservation'
  <2>1. PICK s \in Terminal : Finish(i, s)
    BY <1>3, <1>1 DEF FinishManual, PanicManual, TypeOK, Terminal
  <2>2. i \in Active /\ jobs[i].origin = "manual" /\ UNCHANGED <<pc, held>>
    BY <1>3 DEF FinishManual, PanicManual, Manual, tasks
  <2>3. FinishEffect(i, s)
    BY <2>1, <2>2, <1>1, FinishDoes
  <2>4. \A t \in Tasks : pc[t] = "running" => held[t] \in JobIds \ {i}
    BY <2>2, <1>1 DEF RunnerOwnsReservation, Active
  <2>5. jobs'[i].mask = {} /\ \A k \in JobIds \ {i} : /\ jobs'[k].mask = jobs[k].mask
                                                      /\ k \in Active => jobs'[k].origin = jobs[k].origin
    BY <2>3 DEF FinishEffect
  <2> QED
    BY <2>2, <2>4, <2>5, <1>1, SMTT(30) DEF RunnerOwnsReservation, Active
<1>4. ASSUME NEW i \in JobIds, Cancel(i) PROVE RunnerOwnsReservation'
  <2>1. CancelEffect({i}, 130) /\ UNCHANGED <<pc, held>>
    BY <1>4, <1>1, CancelDoes DEF Cancel, tasks
  <2> QED
    BY <2>1, RunnerStays DEF CancelEffect
<1>5. ASSUME NEW t \in Tasks, NEW i \in JobIds, TaskBegin(t, i) PROVE RunnerOwnsReservation'
  <2>1. {t[1]} \in SUBSET Dataset
    BY TaskShape
  <2>2. BeginEffect(i, "background", {t[1]})
    BY <2>1, <1>1, <1>5, BeginDoes DEF TaskBegin
  <2>3. pc' = [pc EXCEPT ![t] = "running"] /\ held' = [held EXCEPT ![t] = i]
    BY <1>5 DEF TaskBegin, Goto
  <2>4. pc \in [Tasks -> {"gone", "outer", "inner", "begin", "busy", "running", "delay",
                          "periodic", "interval", "parked", "wait", "asleep"}]
        /\ held \in [Tasks -> JobIds \cup {Nobody}]
    BY <1>1 DEF TypeOK
  <2>5. /\ i \notin Active /\ jobs'[i].origin = "background" /\ jobs'[i].mask = {t[1]}
        /\ \A k \in JobIds \ {i} : jobs'[k] = jobs[k]
    BY <2>2, <1>1 DEF BeginEffect, ReservationsDisjoint, Active
  <2>6. pc[t] = "begin"
    BY <1>5 DEF TaskBegin
  <2>7. \A u \in Tasks : pc[u] = "running" => held[u] \in JobIds \ {i} /\ u # t
    BY <2>5, <2>6, <1>1 DEF RunnerOwnsReservation, Active
  <2>8. \A u \in Tasks \ {t} : pc'[u] = pc[u] /\ held'[u] = held[u]
    BY <2>3, <2>4
  <2>9. pc'[t] = "running" /\ held'[t] = i
    BY <2>3, <2>4
  <2>10. \A u \in Tasks : IF pc'[u] = "running"
                           THEN /\ held'[u] \in Active' /\ jobs'[held'[u]].origin = "background"
                                /\ jobs'[held'[u]].mask = {u[1]}
                           ELSE held'[u] = Nobody
    BY <2>5, <2>7, <2>8, <2>9, <1>1, SMTT(30) DEF RunnerOwnsReservation, Active
  <2>11. \A u, w \in Tasks : pc'[u] = "running" /\ pc'[w] = "running" /\ held'[u] = held'[w] => u = w
    BY <2>7, <2>8, <2>9, <1>1 DEF RunnerOwnsReservation
  <2>12. \A k \in Active' : jobs'[k].origin = "background" =>
            \E u \in Tasks : pc'[u] = "running" /\ held'[u] = k
    <3>1. \A k \in Active' : k # i => k \in Active /\ jobs'[k] = jobs[k]
      BY <2>5 DEF Active
    <3> QED
      BY <3>1, <2>7, <2>8, <2>9, <1>1 DEF RunnerOwnsReservation, Active
  <2> QED
    BY <2>10, <2>11, <2>12 DEF RunnerOwnsReservation
<1>6. ASSUME NEW t \in Tasks, TaskFinish(t) \/ TaskPanic(t) PROVE RunnerOwnsReservation'
  <2>1. held[t] \in Active /\ pc[t] = "running"
    BY <1>6, <1>1 DEF TaskFinish, TaskPanic, RunnerOwnsReservation
  <2>2. PICK s \in Terminal : Finish(held[t], s)
    BY <2>1, <1>6, <1>1 DEF TaskFinish, TaskPanic, TypeOK, Terminal, Active
  <2>3. FinishEffect(held[t], s)
    BY <2>1, <2>2, <1>1, FinishDoes
  <2>4. /\ jobs'[held[t]].mask = {} /\ held[t] \in JobIds
        /\ \A k \in JobIds \ {held[t]} : /\ jobs'[k].mask = jobs[k].mask
                                         /\ k \in Active => jobs'[k].origin = jobs[k].origin
    BY <2>1, <2>3 DEF FinishEffect, Active
  <2>5. held' = [held EXCEPT ![t] = Nobody] /\ held \in [Tasks -> JobIds \cup {Nobody}]
    BY <1>6, <1>1 DEF TaskFinish, TaskPanic, TypeOK
  <2>6. pc'[t] # "running" /\ \A u \in Tasks \ {t} : pc'[u] = "running" <=> pc[u] = "running"
    <3>1. CASE TaskPanic(t)
      BY <3>1, <1>1 DEF TaskPanic, Goto, TypeOK
    <3>2. CASE TaskFinish(t)
      <4>1. NextPlace(t, verdict[held[t]]) # "running"
        BY DEF NextPlace
      <4>3. \A u \in Tasks : u = <<t[1], "retry">> /\ u # t /\ Chained(t) => pc[u] # "running"
        <5> SUFFICES ASSUME NEW u \in Tasks, u = <<t[1], "retry">>, u # t, Chained(t), pc[u] = "running"
                     PROVE FALSE
          OBVIOUS
        <5>1. held[u] \in Active /\ held[t] \in Active /\ held[u] # held[t]
          BY <2>1, <1>1 DEF RunnerOwnsReservation
        <5>2. jobs[held[u]].mask = {t[1]} /\ jobs[held[t]].mask = {t[1]}
          BY <2>1, <1>1 DEF RunnerOwnsReservation
        <5> QED
          BY <5>1, <5>2, <1>1 DEF ReservationsDisjoint, Active
      <4> QED
        BY <4>1, <4>3, <3>2, <1>1 DEF TaskFinish, TypeOK
    <3> QED
      BY <1>6, <3>1, <3>2
  <2>7. \A u \in Tasks \ {t} : pc[u] = "running" => held[u] \in JobIds \ {held[t]} /\ held[u] \in Active
    BY <2>1, <1>1 DEF RunnerOwnsReservation, Active
  <2>8. held'[t] = Nobody /\ \A u \in Tasks \ {t} : held'[u] = held[u]
    BY <2>5
  <2>9. \A u \in Tasks : IF pc'[u] = "running"
                          THEN /\ held'[u] \in Active' /\ jobs'[held'[u]].origin = "background"
                               /\ jobs'[held'[u]].mask = {u[1]}
                          ELSE held'[u] = Nobody
    BY <2>4, <2>6, <2>7, <2>8, <1>1 DEF RunnerOwnsReservation, Active
  <2>10. \A u, w \in Tasks : pc'[u] = "running" /\ pc'[w] = "running" /\ held'[u] = held'[w] => u = w
    BY <2>6, <2>8, <1>1 DEF RunnerOwnsReservation
  <2>11. \A k \in Active' : jobs'[k].origin = "background" =>
            \E u \in Tasks : pc'[u] = "running" /\ held'[u] = k
    <3>1. \A k \in Active' : k \in Active /\ k # held[t] /\ jobs'[k].origin = jobs[k].origin
      BY <2>4 DEF Active
    <3> QED
      BY <3>1, <2>6, <2>8, <1>1 DEF RunnerOwnsReservation
  <2> QED
    BY <2>9, <2>10, <2>11 DEF RunnerOwnsReservation
<1>7. ASSUME Signal \/ Drain PROVE RunnerOwnsReservation'
  <2>1. Cancelled(Active, 143) /\ UNCHANGED <<pc, held>>
    BY <1>7 DEF Signal, Drain, Stop, tasks
  <2>2. CancelEffect(Active, 143)
    BY <2>1, <1>1, CancelDoes DEF Active
  <2> QED
    BY <2>1, <2>2, RunnerStays DEF CancelEffect
<1>8. ASSUME NEW t \in Tasks, Look(t) \/ TaskBusy(t) \/ Timer(t) \/ Changed(t)
      PROVE RunnerOwnsReservation'
  <2>1. UNCHANGED <<jobs, held>>
    BY <1>8 DEF Look, TaskBusy, Timer, Changed, world
  <2>2. PICK place : pc' = [pc EXCEPT ![t] = place] /\ place # "running"
    BY <1>8 DEF Look, TaskBusy, AfterBusy, Timer, Changed, Goto
  <2>3. pc[t] # "running"
    BY <1>8 DEF Look, TaskBusy, Timer, Changed
  <2>4. \A u \in Tasks : pc'[u] = "running" <=> pc[u] = "running"
    BY <2>2, <2>3, <1>1 DEF TypeOK
  <2> QED
    BY <2>1, <2>4, RunnerStays
<1>9. ASSUME UNCHANGED <<jobs, pc, held>> PROVE RunnerOwnsReservation'
  BY <1>9, RunnerStays
<1>10. ASSUME MainStep \/ GiveUp \/ UNCHANGED vars PROVE UNCHANGED <<jobs, pc, held>>
  BY <1>10 DEF MainStep, Arm, LookAtJobs, Wake, GiveUp, vars, tasks
<1>11. ASSUME NEW i \in JobIds, NEW ok \in BOOLEAN, Judge(i, ok) PROVE UNCHANGED <<jobs, pc, held>>
  BY <1>11 DEF Judge, tasks
<1>12. ASSUME NEW expected \in 1..MaxRevision, NEW polling \in BOOLEAN, Replace(expected, polling)
       PROVE UNCHANGED <<jobs, pc, held>>
  BY <1>12 DEF Replace, tasks
<1> QED
  BY <1>2, <1>3, <1>4, <1>5, <1>6, <1>7, <1>8, <1>9, <1>10, <1>11, <1>12 DEF Next, TaskStep

(* Only LookAtJobs ends in "left", and once stopped nothing begins. *)
LEMMA MainStays == JobInv /\ [Next]_vars => StopFirst' /\ DrainedIsQuiet'
<1> SUFFICES ASSUME JobInv, [Next]_vars PROVE StopFirst' /\ DrainedIsQuiet'
  OBVIOUS
<1> USE DEF JobInv
<1>1. StopFirst /\ DrainedIsQuiet /\ TypeOK
  OBVIOUS
<1>2. CASE Signal \/ Drain
  BY <1>2, <1>1 DEF Signal, Drain, Stop, StopFirst, DrainedIsQuiet
<1>3. CASE Arm \/ Wake \/ GiveUp
  BY <1>3, <1>1 DEF Arm, Wake, GiveUp, StopFirst, DrainedIsQuiet
<1>4. CASE LookAtJobs
  BY <1>4, <1>1 DEF LookAtJobs, StopFirst, DrainedIsQuiet, Active
<1>5. CASE UNCHANGED vars
  BY <1>5, <1>1 DEF vars, StopFirst, DrainedIsQuiet, Active
<1>6. ASSUME Running, UNCHANGED <<main, stopping>> PROVE StopFirst' /\ DrainedIsQuiet'
  BY <1>6, <1>1 DEF Running, StopFirst, DrainedIsQuiet
<1>7. ASSUME NEW i \in JobIds, NEW ok \in BOOLEAN, Judge(i, ok) PROVE StopFirst' /\ DrainedIsQuiet'
  BY <1>7, <1>6 DEF Judge
<1>8. ASSUME NEW i \in JobIds, NEW target \in Targets, Submit(i, target) PROVE StopFirst' /\ DrainedIsQuiet'
  BY <1>8, <1>6 DEF Submit
<1>9. ASSUME NEW i \in JobIds, FinishManual(i) \/ PanicManual(i) \/ Cancel(i)
      PROVE StopFirst' /\ DrainedIsQuiet'
  BY <1>9, <1>6 DEF FinishManual, PanicManual, Cancel
<1>10. ASSUME NEW expected \in 1..MaxRevision, NEW polling \in BOOLEAN, Replace(expected, polling)
       PROVE StopFirst' /\ DrainedIsQuiet'
  BY <1>10, <1>6 DEF Replace
<1>11. ASSUME NEW t \in Tasks, Look(t) \/ TaskBusy(t) \/ Timer(t) \/ Changed(t)
       PROVE StopFirst' /\ DrainedIsQuiet'
  BY <1>11, <1>6 DEF Look, TaskBusy, Timer, Changed, world
<1>12. ASSUME NEW t \in Tasks, TaskFinish(t) \/ TaskPanic(t) PROVE StopFirst' /\ DrainedIsQuiet'
  BY <1>12, <1>6 DEF TaskFinish, TaskPanic
<1>13. ASSUME NEW t \in Tasks, NEW i \in JobIds, TaskBegin(t, i) PROVE StopFirst' /\ DrainedIsQuiet'
  BY <1>13, <1>6 DEF TaskBegin
<1> QED
  BY <1>2, <1>3, <1>4, <1>5, <1>7, <1>8, <1>9, <1>10, <1>11, <1>12, <1>13 DEF Next, TaskStep, MainStep

-----------------------------------------------------------------------------

LEMMA Initially == Init => JobInv
<1> SUFFICES ASSUME Init PROVE JobInv
  OBVIOUS
<1>1. TypeOK
  <2>1. Absent \in [status : {"absent", "running", "cancelling"} \cup Terminal,
                    origin : {"none", "background", "manual"}, mask : SUBSET Dataset,
                    revision : Nat, at : Nat]
    BY DEF Absent
  <2>2. 0 \in 0..RetryDelays
    BY ConstantsOK
  <2>3. applied \in [revision : Nat \ {0}, polling : BOOLEAN]
    BY DEF Init
  <2> QED
    BY <2>1, <2>2, <2>3 DEF Init, TypeOK
<1>2. ChainHasDelay
  BY DEF Init, ChainHasDelay
<1>3. ReservationsDisjoint /\ StopReachesEveryJob /\ StopFirst /\ DrainedIsQuiet
  BY DEF Init, Absent, ReservationsDisjoint, StopReachesEveryJob, StopFirst, DrainedIsQuiet, Active
<1>4. RunnerOwnsReservation
  BY DEF Init, Absent, RunnerOwnsReservation, Active
<1> QED
  BY <1>1, <1>2, <1>3, <1>4 DEF JobInv

(* The invariant is inductive: every interleaving of operators, workers,    *)
(* retry chains, panics, the signal and the drain keeps it.                 *)
THEOREM JobsInvariant == Spec => []JobInv
<1>1. JobInv /\ [Next]_vars => JobInv'
  BY TypeStep, AgreeStep, RunnerStep, MainStays DEF JobInv, JobsAgree
<1> QED
  BY <1>1, Initially, PTL DEF Spec

(* Every variable keeps its type, the retry counters their bound. *)
THEOREM TypeCorrect == Spec => []TypeOK
<1>1. JobInv => TypeOK
  BY DEF JobInv
<1> QED
  BY <1>1, JobsInvariant, PTL

(* No two jobs of the process publish the same dataset at once. *)
THEOREM Exclusive == Spec => []ReservationsDisjoint
<1>1. JobInv => ReservationsDisjoint
  BY DEF JobInv
<1> QED
  BY <1>1, JobsInvariant, PTL

(* A running worker owns its own active job, and every background job has   *)
(* one live task that will release it.                                      *)
THEOREM JobsAreOwned == Spec => []RunnerOwnsReservation
<1>1. JobInv => RunnerOwnsReservation
  BY DEF JobInv
<1> QED
  BY <1>1, JobsInvariant, PTL

(* A stop reaches every job, whatever was being admitted while it came. *)
THEOREM StopIsComplete == Spec => []StopReachesEveryJob
<1>1. JobInv => StopReachesEveryJob
  BY DEF JobInv
<1> QED
  BY <1>1, JobsInvariant, PTL

(* The process that left after its drain left no publisher behind. *)
THEOREM DrainIsQuiet == Spec => []DrainedIsQuiet
<1>1. JobInv => DrainedIsQuiet
  BY DEF JobInv
<1> QED
  BY <1>1, JobsInvariant, PTL

LEMMA VerdictStep == JobInv /\ [Next]_vars => 
    \A i \in JobIds : jobs[i].status \in Terminal => jobs'[i].status \in {jobs[i].status, "absent"}
<1> DEFINE Stays == \A i \in JobIds : jobs[i].status \in Terminal =>
                       jobs'[i].status \in {jobs[i].status, "absent"}
<1> SUFFICES ASSUME JobInv, [Next]_vars PROVE Stays
  OBVIOUS
<1>1. TypeOK /\ ReservationsDisjoint /\ RunnerOwnsReservation
  BY DEF JobInv
<1>2. \A i \in Active : jobs[i].status \notin Terminal
  BY <1>1 DEF ReservationsDisjoint, Active, Terminal
<1>3. ASSUME NEW i \in JobIds, NEW target \in Targets, Submit(i, target) PROVE Stays
  <2>1. TargetMask(target) \in SUBSET Dataset
    BY ConstantsOK DEF TargetMask, Dataset
  <2>2. BeginEffect(i, "manual", TargetMask(target))
    BY <2>1, <1>1, <1>3, BeginDoes DEF Submit
  <2> QED
    BY <2>2 DEF BeginEffect, Terminal
<1>4. ASSUME NEW t \in Tasks, NEW i \in JobIds, TaskBegin(t, i) PROVE Stays
  <2>1. {t[1]} \in SUBSET Dataset
    BY TaskShape
  <2>2. BeginEffect(i, "background", {t[1]})
    BY <2>1, <1>1, <1>4, BeginDoes DEF TaskBegin
  <2> QED
    BY <2>2 DEF BeginEffect, Terminal
<1>5. ASSUME NEW i \in Active, NEW s \in Terminal, Finish(i, s) PROVE Stays
  <2>1. FinishEffect(i, s)
    BY <1>5, <1>1, FinishDoes
  <2> QED
    BY <2>1, <1>2 DEF FinishEffect
<1>6. ASSUME NEW i \in JobIds, FinishManual(i) \/ PanicManual(i) PROVE Stays
  <2>1. i \in Active /\ \E s \in Terminal : Finish(i, s)
    BY <1>6, <1>1 DEF FinishManual, PanicManual, Manual, TypeOK, Terminal
  <2> QED
    BY <2>1, <1>5
<1>7. ASSUME NEW t \in Tasks, TaskFinish(t) \/ TaskPanic(t) PROVE Stays
  <2>1. held[t] \in Active
    BY <1>7, <1>1 DEF TaskFinish, TaskPanic, RunnerOwnsReservation
  <2>2. PICK s \in Terminal : Finish(held[t], s)
    BY <2>1, <1>7, <1>1 DEF TaskFinish, TaskPanic, TypeOK, Terminal, Active
  <2> QED
    BY <2>1, <2>2, <1>5
<1>8. ASSUME NEW chosen \in SUBSET Active, NEW code \in {130, 143}, Cancelled(chosen, code) PROVE Stays
  <2>1. CancelEffect(chosen, code)
    BY <1>8, <1>1, CancelDoes DEF Active
  <2> QED
    BY <2>1, <1>2 DEF CancelEffect
<1>9. ASSUME NEW i \in JobIds, Cancel(i) PROVE Stays
  BY <1>9, <1>8 DEF Cancel
<1>10. ASSUME Signal \/ Drain PROVE Stays
  BY <1>10, <1>8 DEF Signal, Drain, Stop
<1>11. ASSUME UNCHANGED jobs PROVE Stays
  BY <1>11
<1>12. ASSUME NEW t \in Tasks, Look(t) \/ TaskBusy(t) \/ Timer(t) \/ Changed(t) PROVE UNCHANGED jobs
  BY <1>12 DEF Look, TaskBusy, Timer, Changed, world
<1>13. ASSUME MainStep \/ GiveUp \/ UNCHANGED vars PROVE UNCHANGED jobs
  BY <1>13 DEF MainStep, Arm, LookAtJobs, Wake, GiveUp, vars
<1>14. ASSUME NEW i \in JobIds, NEW ok \in BOOLEAN, Judge(i, ok) PROVE UNCHANGED jobs
  BY <1>14 DEF Judge
<1>15. ASSUME NEW expected \in 1..MaxRevision, NEW polling \in BOOLEAN, Replace(expected, polling)
       PROVE UNCHANGED jobs
  BY <1>15 DEF Replace
<1> HIDE DEF Stays
<1> QED
  BY <1>3, <1>4, <1>6, <1>7, <1>9, <1>10, <1>11, <1>12, <1>13, <1>14, <1>15 DEF Next, TaskStep

(* What a finished job reports stays, whoever cancels or stops later. *)
THEOREM VerdictsAreFinal == Spec => VerdictIsFinal
<1>1. JobInv /\ [Next]_vars =>
        [\A i \in JobIds : jobs[i].status \in Terminal =>
             jobs'[i].status \in {jobs[i].status, "absent"}]_vars
  BY VerdictStep
<1> QED
  BY <1>1, JobsInvariant, PTL DEF Spec, VerdictIsFinal

-----------------------------------------------------------------------------

(* A step of the coordinator reserves, releases, closes or stutters. *)
LEMMA RefineBegin ==
    ASSUME JobInv, NEW i \in JobIds, NEW origin, NEW mask \in SUBSET Dataset, mask # {},
           BeginEffect(i, origin, mask), stopping' = stopping
    PROVE  R!Reserve(i, mask)
<1>1. jobs[i].mask = {}
  BY DEF JobInv, ReservationsDisjoint, BeginEffect
<1>2. [k \in JobIds |-> jobs'[k].mask] = [[k \in JobIds |-> jobs[k].mask] EXCEPT ![i] = mask]
  BY DEF BeginEffect
<1> QED
  BY <1>1, <1>2 DEF R!Reserve, BeginEffect

LEMMA RefineFinish ==
    ASSUME JobInv, NEW i \in Active, NEW s \in Terminal, FinishEffect(i, s), stopping' = stopping
    PROVE  R!Release(i)
<1>1. i \in JobIds /\ jobs[i].mask # {}
  BY DEF Active
<1>2. [k \in JobIds |-> jobs'[k].mask] = [[k \in JobIds |-> jobs[k].mask] EXCEPT ![i] = {}]
  BY <1>1 DEF FinishEffect
<1> QED
  BY <1>1, <1>2 DEF R!Release

LEMMA RefineStep == JobInv /\ [Next]_vars => [R!Next]_(R!vars)
<1> SUFFICES ASSUME JobInv, [Next]_vars PROVE R!Next \/ UNCHANGED R!vars
  OBVIOUS
<1>1. TypeOK /\ ReservationsDisjoint /\ RunnerOwnsReservation
  BY DEF JobInv
<1> DEFINE Step == R!Next \/ UNCHANGED R!vars
<1>2. ASSUME NEW i \in JobIds, NEW target \in Targets, Submit(i, target) PROVE Step
  <2>1. TargetMask(target) \in SUBSET Dataset /\ TargetMask(target) # {}
    BY ConstantsOK DEF TargetMask, Dataset
  <2>2. BeginEffect(i, "manual", TargetMask(target)) /\ stopping' = stopping
    BY <2>1, <1>1, <1>2, BeginDoes DEF Submit
  <2> QED
    BY <2>1, <2>2, RefineBegin DEF R!Next
<1>3. ASSUME NEW t \in Tasks, NEW i \in JobIds, TaskBegin(t, i) PROVE Step
  <2>1. {t[1]} \in SUBSET Dataset /\ {t[1]} # {}
    BY TaskShape
  <2>2. BeginEffect(i, "background", {t[1]}) /\ stopping' = stopping
    BY <2>1, <1>1, <1>3, BeginDoes DEF TaskBegin
  <2> QED
    BY <2>1, <2>2, RefineBegin DEF R!Next
<1>4. ASSUME NEW i \in JobIds, FinishManual(i) \/ PanicManual(i) PROVE Step
  <2>1. i \in Active /\ stopping' = stopping /\ \E s \in Terminal : Finish(i, s)
    BY <1>4, <1>1 DEF FinishManual, PanicManual, Manual, TypeOK, Terminal
  <2> QED
    BY <2>1, <1>1, FinishDoes, RefineFinish DEF R!Next
<1>5. ASSUME NEW t \in Tasks, TaskFinish(t) \/ TaskPanic(t) PROVE Step
  <2>1. held[t] \in Active /\ stopping' = stopping
    BY <1>5, <1>1 DEF TaskFinish, TaskPanic, RunnerOwnsReservation
  <2>2. \E i \in Active, s \in Terminal : Finish(i, s)
    BY <2>1, <1>5, <1>1 DEF TaskFinish, TaskPanic, TypeOK, Terminal, Active
  <2>3. PICK i \in Active, s \in Terminal : Finish(i, s)
    BY <2>2
  <2>4. R!Release(i) /\ i \in JobIds
    BY <2>1, <2>3, <1>1, FinishDoes, RefineFinish DEF Active
  <2> QED
    BY <2>4 DEF R!Next
<1>6. ASSUME NEW i \in JobIds, Cancel(i) PROVE Step
  <2>1. CancelEffect({i}, 130) /\ stopping' = stopping
    BY <1>6, <1>1, CancelDoes DEF Cancel
  <2> QED
    BY <2>1 DEF CancelEffect, R!vars
<1>7. ASSUME Signal \/ Drain PROVE Step
  <2>1. Cancelled(Active, 143) /\ stopping' = TRUE
    BY <1>7 DEF Signal, Drain, Stop
  <2>2. CancelEffect(Active, 143)
    BY <2>1, <1>1, CancelDoes DEF Active
  <2> QED
    BY <2>1, <2>2 DEF CancelEffect, R!Next, R!Close
<1>8. ASSUME UNCHANGED <<jobs, stopping>> PROVE Step
  BY <1>8 DEF R!vars
<1>9. ASSUME NEW t \in Tasks, Look(t) \/ TaskBusy(t) \/ Timer(t) \/ Changed(t)
      PROVE UNCHANGED <<jobs, stopping>>
  BY <1>9 DEF Look, TaskBusy, Timer, Changed, world
<1>10. ASSUME MainStep \/ GiveUp \/ UNCHANGED vars PROVE UNCHANGED <<jobs, stopping>>
  BY <1>10 DEF MainStep, Arm, LookAtJobs, Wake, GiveUp, vars
<1>11. ASSUME NEW i \in JobIds, NEW ok \in BOOLEAN, Judge(i, ok) PROVE UNCHANGED <<jobs, stopping>>
  BY <1>11 DEF Judge
<1>12. ASSUME NEW expected \in 1..MaxRevision, NEW polling \in BOOLEAN, Replace(expected, polling)
       PROVE UNCHANGED <<jobs, stopping>>
  BY <1>12 DEF Replace
<1> HIDE DEF Step
<1>13. Step
  BY <1>2, <1>3, <1>4, <1>5, <1>6, <1>7, <1>8, <1>9, <1>10, <1>11, <1>12 DEF Next, TaskStep
<1> QED
  BY <1>13 DEF Step

(* The coordinator, its workers and its operators implement exclusive       *)
(* reservations that close once.                                            *)
THEOREM CoordinatorImplementsReservations == Spec => ImplementsReservations
<1>1. Init => R!Init
  BY DEF Init, R!Init, Absent
<1> QED
  BY <1>1, RefineStep, JobsInvariant, PTL DEF Spec, ImplementsReservations, R!Spec

-----------------------------------------------------------------------------
(* Of the finished jobs those with at most HistoryLimit finished jobs at    *)
(* their place or after it are at most HistoryLimit: all of them are at or  *)
(* after the earliest one.                                                  *)
LEMMA SmallestAmong ==
    ASSUME NEW T \in SUBSET Nat, T # {}
    PROVE  \E x \in T : \A y \in T : x <= y
<1> DEFINE Before == OpToRel(<, Nat)
<1>1. IsWellFoundedOn(Before, Nat)
  BY NatLessThanWellFounded
<1>2. \A x, y \in Nat : y < x => <<y, x>> \in Before
  BY DEF OpToRel
<1> HIDE DEF Before
<1>3. PICK x \in T : \A y \in T : ~(<<y, x>> \in Before)
  BY <1>1, WFMin
<1>4. \A y \in T : ~(y < x)
  BY <1>2, <1>3
<1> QED
  BY <1>4

LEMMA NewestAreFew ==
    ASSUME NEW D, D \subseteq JobIds, NEW f \in [JobIds -> Nat]
    PROVE  Cardinality({k \in D : Cardinality({n \in D : f[n] >= f[k]}) <= HistoryLimit}) <= HistoryLimit
<1> DEFINE K == {k \in D : Cardinality({n \in D : f[n] >= f[k]}) <= HistoryLimit}
<1>1. CASE K = {}
  <2>1. Cardinality(K) = 0
    BY <1>1, FS_EmptySet
  <2> QED
    BY <2>1, ConstantsOK
<1>2. CASE K # {}
  <2>1. PICK least \in {f[k] : k \in K} : \A other \in {f[k] : k \in K} : least <= other
    <3> DEFINE Places == {f[k] : k \in K}
    <3>1. Places \in SUBSET Nat /\ Places # {}
      BY <1>2
    <3> HIDE DEF Places
    <3>2. \E x \in Places : \A y \in Places : x <= y
      BY <3>1, SmallestAmong
    <3> QED
      BY <3>2 DEF Places
  <2>2. PICK k \in K : f[k] = least
    BY <2>1
  <2> DEFINE After == {n \in D : f[n] >= f[k]}
  <2>3. K \subseteq After
    BY <2>1, <2>2
  <2>4. Cardinality(After) <= HistoryLimit /\ IsFiniteSet(After) /\ Cardinality(After) \in Nat
    BY <2>2, ConstantsOK, FS_Subset, FS_CardinalityType
  <2>5. Cardinality(K) <= Cardinality(After) /\ Cardinality(K) \in Nat
    BY <2>3, <2>4, FS_Subset, FS_CardinalityType
  <2> HIDE DEF K, After
  <2> QED
    BY <2>4, <2>5, ConstantsOK DEF K
<1> QED
  BY <1>1, <1>2

(* Finishing a job renumbers the list in its order, drops only entries, and *)
(* leaves no more than the history's limit of finished ones.                *)
OrderKept ==
    /\ \A k \in Present' : k \in Present /\ jobs'[k].revision = jobs[k].revision
    /\ \A k \in Present' : jobs'[k].at <= Cardinality(Present')
    /\ \A k, m \in Present' : jobs'[k].at < jobs'[m].at => jobs[k].at < jobs[m].at
    /\ Cardinality(Present' \ Active') <= HistoryLimit

LEMMA FinishOrders ==
    ASSUME TypeOK, ReservationsDisjoint, NEW i \in Active, NEW status \in Terminal,
           Finish(i, status)
    PROVE  OrderKept
<1> DEFINE js == Ended(i, status)
           Upto(k) == {n \in Kept(js) : js[n].at <= js[k].at}
           Rank(k) == Cardinality(Upto(k))
           at == [k \in JobIds |-> js[k].at]
<1>1. jobs \in [JobIds -> Job] /\ i \in JobIds
  BY DEF TypeOK, Job, Statuses, Active
<1>2. js \in [JobIds -> Job]
  BY <1>1 DEF Ended, Job, Statuses
<1>3. /\ js[i].mask = {} /\ js[i].status = status /\ js[i].at = jobs[i].at
      /\ js[i].revision = jobs[i].revision
      /\ \A k \in JobIds \ {i} : js[k] = jobs[k]
  BY <1>1 DEF Ended, Job
<1>4. jobs' = [k \in JobIds |-> IF k \in Kept(js) THEN [js[k] EXCEPT !.at = Rank(k)] ELSE Absent]
  BY DEF Finish, Finished
<1>5. ASSUME NEW k \in Kept(js)
      PROVE  /\ k \in JobIds /\ js[k].status # "absent"
             /\ jobs'[k].status = js[k].status /\ jobs'[k].mask = js[k].mask
             /\ jobs'[k].revision = js[k].revision /\ jobs'[k].at = Rank(k)
  <2>1. k \in JobIds /\ js[k] \in Job /\ js[k].status # "absent"
    BY <1>2 DEF Kept
  <2>2. jobs'[k] = [js[k] EXCEPT !.at = Rank(k)]
    BY <1>4, <2>1
  <2> HIDE DEF js, Rank
  <2> QED
    BY <2>1, <2>2 DEF Job
<1>6. \A k \in JobIds : js[k].at \in Nat
  BY <1>2 DEF Job
<1>7. \A k \in Kept(js) : /\ Upto(k) \subseteq Kept(js) /\ IsFiniteSet(Upto(k))
                          /\ Rank(k) \in Nat /\ Rank(k) <= Cardinality(Kept(js))
  <2>1. IsFiniteSet(Kept(js))
    BY ConstantsOK, FS_Subset DEF Kept
  <2> QED
    BY <2>1, FS_Subset, FS_CardinalityType
<1>8. ASSUME NEW k \in Kept(js), NEW m \in Kept(js), Rank(k) < Rank(m)
      PROVE  js[k].at < js[m].at
  <2>1. js[k].at \in Nat /\ js[m].at \in Nat
    BY <1>5, <1>6
  <2>2. CASE js[m].at <= js[k].at
    <3>1. \A n \in Kept(js) : js[n].at \in Nat
      BY <1>5, <1>6
    <3>2. Upto(m) \subseteq Upto(k)
      BY <2>1, <2>2, <3>1
    <3>3. Rank(m) <= Rank(k)
      BY <3>2, <1>7, FS_Subset
    <3>4. Rank(k) \in Nat /\ Rank(m) \in Nat
      BY <1>7
    <3>5. Rank(k) < Rank(m)
      BY <1>8
    <3> HIDE DEF Rank, js
    <3>6. FALSE
      BY <3>3, <3>4, <3>5
    <3> QED
      BY <3>6
  <2> HIDE DEF js
  <2> QED
    BY <2>1, <2>2
<1>9. Present' = Kept(js)
  BY <1>4, <1>5 DEF Present, Absent, Kept
<1>10. \A k \in JobIds : js[k].status # "absent" => jobs[k].status # "absent"
  BY <1>3, <1>1 DEF Active, ReservationsDisjoint
<1>11. Cardinality(Present' \ Active') <= HistoryLimit
  <2> DEFINE D == Done(js)
             New == {k \in D : Cardinality({n \in D : at[n] >= at[k]}) <= HistoryLimit}
  <2>1. D \subseteq JobIds /\ at \in [JobIds -> Nat]
    BY <1>6 DEF Done
  <2>2. Cardinality(New) <= HistoryLimit
    <3> HIDE DEF D, at
    <3> QED
      BY <2>1, NewestAreFew
  <2>3. \A k \in D : {n \in D : at[n] >= at[k]} = {n \in Done(js) : js[n].at >= js[k].at}
    BY <2>1
  <2>4. \A k \in Present' \ Active' : k \in D
    <3> TAKE k \in Present' \ Active'
    <3>1. k \in JobIds /\ js[k].mask = {} /\ js[k].status # "absent" /\ js[k] \in Job
      BY <1>2, <1>5, <1>9 DEF Active
    <3>2. js[k].status \in Terminal
      <4>1. CASE k = i
        BY <4>1, <1>3
      <4>2. CASE k # i
        <5>1. js[k] = jobs[k] /\ jobs[k].status \in Statuses
          BY <4>2, <3>1, <1>3 DEF Job
        <5>2. jobs[k].status \notin {"running", "cancelling"}
          BY <5>1, <3>1 DEF ReservationsDisjoint
        <5> QED
          BY <5>1, <5>2, <3>1 DEF Statuses
      <4> QED
        BY <4>1, <4>2
    <3> QED
      BY <3>1, <3>2 DEF Done
  <2>5. Present' \ Active' \subseteq New
    BY <2>3, <2>4, <1>9 DEF Kept
  <2>6. New \subseteq JobIds
    BY <2>1
  <2>7. Cardinality(Present' \ Active') <= Cardinality(New)
        /\ Cardinality(Present' \ Active') \in Nat /\ Cardinality(New) \in Nat
    <3>1. IsFiniteSet(New)
      BY <2>6, ConstantsOK, FS_Subset
    <3> HIDE DEF New
    <3> QED
      BY <3>1, <2>5, FS_Subset, FS_CardinalityType
  <2> HIDE DEF New
  <2> QED
    BY <2>2, <2>7, ConstantsOK
<1> HIDE DEF js, Rank, Upto, at
<1>12. \A k \in Present' : k \in Present /\ jobs'[k].revision = jobs[k].revision
  BY <1>1, <1>3, <1>5, <1>9, <1>10 DEF Present
<1>13. \A k \in JobIds : js[k].at = jobs[k].at
  BY <1>3
<1>14. \A k, m \in Present' : jobs'[k].at < jobs'[m].at => jobs[k].at < jobs[m].at
  BY <1>5, <1>8, <1>9, <1>13
<1>15. \A k \in Present' : jobs'[k].at <= Cardinality(Present')
  BY <1>5, <1>7, <1>9
<1> QED
  BY <1>11, <1>12, <1>14, <1>15 DEF OrderKept

(* What keeps the list in order: a place is never beyond the list's length  *)
(* and no job is of a configuration that is not published yet, so that the  *)
(* next job to begin belongs at the end.                                    *)
ListInv ==
    /\ HistoryInOrder
    /\ \A k \in Present : jobs[k].at <= Cardinality(Present) /\ jobs[k].revision <= applied.revision

LEMMA ListBegin ==
    ASSUME TypeOK, ListInv, NEW i \in JobIds, NEW origin \in {"background", "manual"},
           NEW mask \in SUBSET Dataset, mask # {}, Begin(i, origin, mask), applied' = applied
    PROVE  ListInv'
<1>1. jobs \in [JobIds -> Job] /\ applied.revision \in Nat
  BY DEF TypeOK, Job, Statuses
<1>2. i \notin Present /\ Present \subseteq JobIds
  BY DEF Begin, Present
<1>3. /\ jobs'[i].at = Cardinality(Present) + 1 /\ jobs'[i].revision = applied.revision
      /\ jobs'[i].status = "running" /\ jobs'[i].mask = mask
      /\ \A k \in JobIds \ {i} : jobs'[k] = jobs[k]
  BY <1>1 DEF Begin
<1>4. Present' = Present \cup {i}
  BY <1>3 DEF Present
<1>5. Present' \ Active' = Present \ Active
  BY <1>2, <1>3, <1>4 DEF Active
<1>6. Cardinality(Present) \in Nat /\ Cardinality(Present') = Cardinality(Present) + 1
  <2>1. IsFiniteSet(Present)
    BY <1>2, ConstantsOK, FS_Subset
  <2> QED
    BY <2>1, <1>2, <1>4, FS_CardinalityType, FS_AddElement
<1>7. \A k \in Present : /\ jobs'[k] = jobs[k] /\ jobs[k].at \in Nat /\ jobs[k].revision \in Nat
                         /\ jobs[k].at <= Cardinality(Present) /\ jobs[k].revision <= applied.revision
  BY <1>1, <1>2, <1>3 DEF ListInv, Job
<1>8. \A k \in Present' : jobs'[k].at <= Cardinality(Present') /\ jobs'[k].revision <= applied.revision
  BY <1>1, <1>3, <1>4, <1>6, <1>7
<1>9. ASSUME NEW k \in Present', NEW m \in Present', jobs'[k].at < jobs'[m].at
      PROVE  jobs'[k].revision <= jobs'[m].revision
  <2>1. CASE m = i
    BY <2>1, <1>3, <1>8
  <2>2. CASE m # i
    <3>1. k # i
      BY <2>2, <1>3, <1>4, <1>6, <1>7, <1>9
    <3> QED
      BY <3>1, <2>2, <1>4, <1>7, <1>9 DEF ListInv, HistoryInOrder
  <2> QED
    BY <2>1, <2>2
<1>10. Cardinality(Present' \ Active') <= HistoryLimit
  BY <1>5 DEF ListInv, HistoryInOrder
<1> QED
  BY <1>8, <1>9, <1>10 DEF ListInv, HistoryInOrder

LEMMA ListFinish ==
    ASSUME TypeOK, ReservationsDisjoint, ListInv, NEW i \in Active, NEW status \in Terminal,
           Finish(i, status), applied' = applied
    PROVE  ListInv'
<1>1. OrderKept
  BY FinishOrders
<1>2. \A k \in Present' : jobs'[k].revision <= applied.revision
  BY <1>1 DEF OrderKept, ListInv
<1>3. \A k, m \in Present' : jobs'[k].at < jobs'[m].at => jobs'[k].revision <= jobs'[m].revision
  BY <1>1 DEF OrderKept, ListInv, HistoryInOrder
<1> QED
  BY <1>1, <1>2, <1>3 DEF OrderKept, ListInv, HistoryInOrder

LEMMA ListCancel ==
    ASSUME TypeOK, ReservationsDisjoint, ListInv, NEW chosen \in SUBSET Active,
           NEW code \in {130, 143}, Cancelled(chosen, code), applied' = applied
    PROVE  ListInv'
<1>1. jobs \in [JobIds -> Job] /\ chosen \subseteq JobIds
  BY DEF TypeOK, Job, Statuses, Active
<1>2. \A k \in JobIds : /\ jobs'[k].at = jobs[k].at /\ jobs'[k].revision = jobs[k].revision
                        /\ jobs'[k].mask = jobs[k].mask
                        /\ (jobs'[k].status = "absent") <=> (jobs[k].status = "absent")
  <2> TAKE k \in JobIds
  <2>1. CASE k \in chosen
    <3>1. jobs'[k] = [jobs[k] EXCEPT !.status = "cancelling"] /\ jobs[k] \in Job
      BY <2>1, <1>1 DEF Cancelled
    <3>2. jobs[k].status # "absent"
      BY <2>1 DEF ReservationsDisjoint, Active
    <3> QED
      BY <3>1, <3>2 DEF Job
  <2>2. CASE k \notin chosen
    BY <2>2 DEF Cancelled
  <2> QED
    BY <2>1, <2>2
<1>3. Present' = Present /\ Active' = Active
  BY <1>2 DEF Present, Active
<1>4. Present \subseteq JobIds
  BY DEF Present
<1> QED
  BY <1>2, <1>3, <1>4 DEF ListInv, HistoryInOrder

LEMMA ListStep == JobInv /\ ListInv /\ [Next]_vars => ListInv'
<1> SUFFICES ASSUME JobInv, ListInv, [Next]_vars PROVE ListInv'
  OBVIOUS
<1>1. TypeOK /\ ReservationsDisjoint /\ RunnerOwnsReservation
  BY DEF JobInv
<1>2. ASSUME NEW i \in JobIds, NEW target \in Targets, Submit(i, target) PROVE ListInv'
  <2>1. TargetMask(target) \in SUBSET Dataset /\ TargetMask(target) # {}
    BY ConstantsOK DEF TargetMask, Dataset
  <2> QED
    BY <2>1, <1>1, <1>2, ListBegin DEF Submit
<1>3. ASSUME NEW t \in Tasks, NEW i \in JobIds, TaskBegin(t, i) PROVE ListInv'
  <2>1. {t[1]} \in SUBSET Dataset /\ {t[1]} # {}
    BY TaskShape
  <2> QED
    BY <2>1, <1>1, <1>3, ListBegin DEF TaskBegin
<1>4. ASSUME NEW i \in JobIds, FinishManual(i) \/ PanicManual(i) PROVE ListInv'
  <2>1. i \in Active /\ applied' = applied /\ \E s \in Terminal : Finish(i, s)
    BY <1>4, <1>1 DEF FinishManual, PanicManual, Manual, TypeOK, Terminal
  <2> QED
    BY <2>1, <1>1, ListFinish
<1>5. ASSUME NEW t \in Tasks, TaskFinish(t) \/ TaskPanic(t) PROVE ListInv'
  <2>1. held[t] \in Active /\ applied' = applied
    BY <1>5, <1>1 DEF TaskFinish, TaskPanic, RunnerOwnsReservation
  <2>2. PICK s \in Terminal : Finish(held[t], s)
    BY <2>1, <1>5, <1>1 DEF TaskFinish, TaskPanic, TypeOK, Terminal, Active
  <2> QED
    BY <2>1, <2>2, <1>1, ListFinish
<1>6. ASSUME NEW i \in JobIds, Cancel(i) PROVE ListInv'
  BY <1>1, <1>6, ListCancel DEF Cancel
<1>7. ASSUME Signal \/ Drain PROVE ListInv'
  BY <1>1, <1>7, ListCancel DEF Signal, Drain, Stop
<1>8. ASSUME NEW expected \in 1..MaxRevision, NEW polling \in BOOLEAN, Replace(expected, polling)
      PROVE ListInv'
  <2>1. /\ jobs' = jobs /\ applied'.revision = applied.revision + 1 /\ applied.revision \in Nat
        /\ \A k \in Present : jobs[k].revision \in Nat
    BY <1>1, <1>8 DEF Replace, TypeOK, Present
  <2>2. Present' = Present /\ Active' = Active
    BY <2>1 DEF Present, Active
  <2> QED
    BY <2>1, <2>2 DEF ListInv, HistoryInOrder
<1>9. ASSUME UNCHANGED <<jobs, applied>> PROVE ListInv'
  BY <1>9 DEF ListInv, HistoryInOrder, Present, Active
<1>10. ASSUME NEW t \in Tasks, Look(t) \/ TaskBusy(t) \/ Timer(t) \/ Changed(t)
       PROVE UNCHANGED <<jobs, applied>>
  BY <1>10 DEF Look, TaskBusy, Timer, Changed, world
<1>11. ASSUME MainStep \/ GiveUp \/ UNCHANGED vars PROVE UNCHANGED <<jobs, applied>>
  BY <1>11 DEF MainStep, Arm, LookAtJobs, Wake, GiveUp, vars
<1>12. ASSUME NEW i \in JobIds, NEW ok \in BOOLEAN, Judge(i, ok) PROVE UNCHANGED <<jobs, applied>>
  BY <1>12 DEF Judge
<1> QED
  BY <1>2, <1>3, <1>4, <1>5, <1>6, <1>7, <1>8, <1>9, <1>10, <1>11, <1>12 DEF Next, TaskStep

(* The history stays within its limit and in the order of admission, under  *)
(* every interleaving of reloads, finishing jobs and jobs that begin.       *)
THEOREM HistoryStaysInOrder == Spec => []HistoryInOrder
<1>1. Init => ListInv
  <2> SUFFICES ASSUME Init PROVE ListInv
    OBVIOUS
  <2>1. Present = {}
    BY DEF Init, Present, Absent
  <2>2. Present \ Active = {}
    BY <2>1
  <2>3. Cardinality(Present \ Active) = 0
    BY <2>2, FS_EmptySet
  <2> QED
    BY <2>1, <2>3, ConstantsOK DEF ListInv, HistoryInOrder
<1>2. ListInv => HistoryInOrder
  BY DEF ListInv
<1> QED
  BY <1>1, <1>2, ListStep, JobsInvariant, PTL DEF Spec

-----------------------------------------------------------------------------

(* A delay of a retry chain is consumed by a failed attempt only. *)
THEOREM DelaysAreForFailures == Spec => OnlyFailuresConsumeDelays
<1> DEFINE Consumed == \A t \in Tasks : attempt'[t] > attempt[t] =>
               /\ pc[t] = "running" /\ verdict[held[t]] = "failed"
               /\ attempt'[t] = attempt[t] + 1 /\ attempt'[t] <= RetryDelays
<1>1. JobInv /\ [Next]_vars => Consumed
  <2> SUFFICES ASSUME JobInv, [Next]_vars PROVE Consumed
    OBVIOUS
  <2>1. TypeOK /\ ChainHasDelay /\ \A u \in Tasks : attempt[u] \in Nat
    BY ConstantsOK DEF JobInv, TypeOK
  <2>2. ASSUME UNCHANGED attempt PROVE Consumed
    BY <2>1, <2>2
  <2>3. ASSUME NEW t \in Tasks, Look(t) PROVE Consumed
    BY <2>1, <2>3 DEF Look, TypeOK
  <2>4. ASSUME NEW t \in Tasks, TaskFinish(t) PROVE Consumed
    <3> TAKE u \in Tasks
    <3> HAVE attempt'[u] > attempt[u]
    <3>1. u = t /\ verdict[held[t]] = "failed" /\ Again(t) /\ attempt'[u] = attempt[u] + 1
      BY <2>1, <2>4 DEF TaskFinish
    <3>2. pc[t] = "running"
      BY <2>4 DEF TaskFinish
    <3>3. attempt[t] < RetryDelays
      BY <2>1, <3>1, <3>2 DEF Again, ChainHasDelay
    <3> QED
      BY <2>1, <3>1, <3>2, <3>3, ConstantsOK
  <2>5. ASSUME NEW t \in Tasks,
               TaskBusy(t) \/ Timer(t) \/ Changed(t) \/ TaskPanic(t) \/ \E i \in JobIds : TaskBegin(t, i)
        PROVE UNCHANGED attempt
    BY <2>5 DEF TaskBusy, Timer, Changed, TaskPanic, TaskBegin
  <2>6. ASSUME NEW i \in JobIds,
               \/ FinishManual(i) \/ PanicManual(i) \/ Cancel(i) \/ \E ok \in BOOLEAN : Judge(i, ok)
               \/ \E target \in Targets : Submit(i, target)
        PROVE UNCHANGED attempt
    BY <2>6 DEF FinishManual, PanicManual, Cancel, Judge, Submit, tasks
  <2>7. ASSUME NEW expected \in 1..MaxRevision, NEW polling \in BOOLEAN, Replace(expected, polling)
        PROVE UNCHANGED attempt
    BY <2>7 DEF Replace, tasks
  <2>8. ASSUME Signal \/ Drain \/ MainStep \/ GiveUp \/ UNCHANGED vars PROVE UNCHANGED attempt
    BY <2>8 DEF Signal, Drain, MainStep, Arm, LookAtJobs, Wake, GiveUp, vars, tasks
  <2> HIDE DEF Consumed
  <2> QED
    BY <2>2, <2>3, <2>4, <2>5, <2>6, <2>7, <2>8 DEF Next, TaskStep
<1> QED
  BY <1>1, JobsInvariant, PTL DEF Spec, OnlyFailuresConsumeDelays
=============================================================================
