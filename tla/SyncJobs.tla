------------------------------ MODULE SyncJobs ------------------------------
(* The coordinator of one server process: jobs reserve datasets, four       *)
(* background workers and their retry chains poll, operators submit, cancel *)
(* and reload, a signal or the end of the transport stops everything and    *)
(* the main task drains what still publishes.                               *)
EXTENDS Naturals, FiniteSets

CONSTANTS Enabled,       \* the datasets that have a background worker
          Targets,       \* what operators submit
          JobIds,        \* bound: jobs that are in the list at once
          HistoryLimit,  \* finished jobs that are kept (100 in the code)
          RetryDelays,   \* length of the retry chain (3 in the code)
          MaxRevision    \* bound: configurations published

Dataset == {"game", "story", "database", "images"}
TargetMask(target) == CASE target = "game" -> Dataset \ {"images"}
                        [] target = "images" -> {"images"}
                        [] target = "all" -> Dataset

ASSUME ConstantsOK ==
    /\ Enabled \subseteq Dataset
    /\ Targets \subseteq {"game", "images", "all"}
    /\ IsFiniteSet(JobIds)
    /\ HistoryLimit \in Nat /\ RetryDelays \in Nat /\ MaxRevision \in Nat \ {0}

VARIABLES jobs,      \* the list: what show() answers, the mask, the place in the list
          control,   \* per job: the signal its Control carries, 0 for none
          verdict,   \* per job: what its runner is about to report
          pc, attempt, first, held,   \* the workers and their retry chains
          unseen,    \* per task: its watch receiver has a change to read
          applied,   \* the published snapshot
          stopping,
          main, rung \* the main task, and whether its notification has come
vars == <<jobs, control, verdict, pc, attempt, first, held, unseen, applied,
          stopping, main, rung>>
tasks == <<pc, attempt, first, held>>

Tasks == Enabled \X {"worker", "retry"}
Nobody == "nobody"
Absent == [status |-> "absent", origin |-> "none", mask |-> {}, revision |-> 0, at |-> 0]
Active == {i \in JobIds : jobs[i].mask # {}}
Present == {i \in JobIds : jobs[i].status # "absent"}
Terminal == {"succeeded", "failed", "cancelled"}

Init ==
    /\ jobs = [i \in JobIds |-> Absent]
    /\ control = [i \in JobIds |-> 0]
    /\ verdict = [i \in JobIds |-> "none"]
    /\ pc = [t \in Tasks |-> IF t[2] = "worker" THEN "outer" ELSE "gone"]
    /\ attempt = [t \in Tasks |-> 0]
    /\ first = [d \in Enabled |-> TRUE]
    /\ held = [t \in Tasks |-> Nobody]
    /\ unseen = [t \in Tasks |-> FALSE]
    /\ \E polling \in BOOLEAN : applied = [revision |-> 1, polling |-> polling]
    /\ stopping = FALSE
    /\ main = "serving" /\ rung = FALSE

Running == main \notin {"left", "forced"}

-----------------------------------------------------------------------------
(* The list of jobs. *)

(* Faults of the mutants stand before the definition each one replaces. *)
FaultRefused(mask) == stopping \/ \E k \in JobIds : jobs[k].mask = mask
FaultRefusedStopping(mask) == \E k \in JobIds : jobs[k].mask \cap mask # {}

Refused(mask) == stopping \/ \E k \in JobIds : jobs[k].mask \cap mask # {}

Begin(i, origin, mask) ==
    /\ ~Refused(mask)
    /\ i \notin Present
    /\ jobs' = [jobs EXCEPT ![i] = [status |-> "running", origin |-> origin, mask |-> mask,
                                    revision |-> applied.revision,
                                    at |-> Cardinality(Present) + 1]]
    /\ control' = [control EXCEPT ![i] = 0]
    /\ verdict' = [verdict EXCEPT ![i] = "none"]

Ended(i, status) == [jobs EXCEPT ![i].status = status, ![i].mask = {}]
Done(js) == {k \in JobIds : js[k].status \in Terminal}
FaultKept(js) == {k \in JobIds : /\ js[k].status # "absent"
                                 /\ \/ k \notin Done(js)
                                    \/ Cardinality({n \in Done(js) : js[n].at <= js[k].at}) <= HistoryLimit + 1}

Kept(js) == {k \in JobIds : /\ js[k].status # "absent"
                            /\ \/ k \notin Done(js)
                               \/ Cardinality({n \in Done(js) : js[n].at >= js[k].at}) <= HistoryLimit}
Finished(i, status) ==
    LET js == Ended(i, status)
    IN  [k \in JobIds |->
           IF k \in Kept(js)
           THEN [js[k] EXCEPT !.at = Cardinality({n \in Kept(js) : js[n].at <= js[k].at})]
           ELSE Absent]

Finish(i, status) == /\ jobs' = Finished(i, status)
                     /\ rung' = TRUE
                     /\ UNCHANGED control

Judge(i, ok) ==
    /\ Running /\ i \in Active /\ verdict[i] = "none"
    /\ verdict' = [verdict EXCEPT ![i] = IF control[i] # 0 THEN "cancelled"
                                         ELSE IF ok THEN "succeeded" ELSE "failed"]
    /\ UNCHANGED <<jobs, control, tasks, unseen, applied, stopping, main, rung>>

Cancelled(chosen, code) ==
    /\ jobs' = [i \in JobIds |-> IF i \in chosen THEN [jobs[i] EXCEPT !.status = "cancelling"]
                                 ELSE jobs[i]]
    /\ control' = [i \in JobIds |-> IF i \in chosen THEN code ELSE control[i]]

Stop == /\ stopping' = TRUE
        /\ Cancelled(Active, 143)
        /\ unseen' = [t \in Tasks |-> pc[t] # "gone"]

-----------------------------------------------------------------------------
(* Operators. *)

Submit(i, target) ==
    /\ Running
    /\ Begin(i, "manual", TargetMask(target))
    /\ UNCHANGED <<tasks, unseen, applied, stopping, main, rung>>

Manual(i) == i \in Active /\ jobs[i].origin = "manual"

FinishManual(i) ==
    /\ Running /\ Manual(i) /\ verdict[i] # "none"
    /\ Finish(i, verdict[i])
    /\ UNCHANGED <<verdict, tasks, unseen, applied, stopping, main>>

(* The runner panics: Drop reports in its place. *)
PanicManual(i) ==
    /\ Running /\ Manual(i) /\ verdict[i] = "none"
    /\ Finish(i, "failed")
    /\ UNCHANGED <<verdict, tasks, unseen, applied, stopping, main>>

FaultCancel(i) ==
    /\ Running /\ i \in Present
    /\ Cancelled({i}, 130)
    /\ UNCHANGED <<verdict, tasks, unseen, applied, stopping, main, rung>>

Cancel(i) ==
    /\ Running /\ i \in Active
    /\ Cancelled({i}, 130)
    /\ UNCHANGED <<verdict, tasks, unseen, applied, stopping, main, rung>>

FaultReplace(expected, polling) ==
    /\ Running /\ ~stopping
    /\ expected = applied.revision /\ expected < MaxRevision
    /\ applied' = [revision |-> expected + 1, polling |-> polling]
    /\ UNCHANGED <<jobs, control, verdict, tasks, unseen, stopping, main, rung>>

(* replace() refuses a revision that is no longer the published one. *)
Replace(expected, polling) ==
    /\ Running /\ ~stopping
    /\ expected = applied.revision /\ expected < MaxRevision
    /\ applied' = [revision |-> expected + 1, polling |-> polling]
    /\ unseen' = [t \in Tasks |-> pc[t] # "gone"]
    /\ UNCHANGED <<jobs, control, verdict, tasks, stopping, main, rung>>

-----------------------------------------------------------------------------
(* Workers and retry chains. *)

Goto(t, place) == pc' = [pc EXCEPT ![t] = place]
world == <<jobs, control, verdict, applied, stopping, main, rung>>
Saw(t) == unseen[t] /\ unseen' = [unseen EXCEPT ![t] = FALSE]

(* The checks of stopping at the top of the loops. *)
Look(t) ==
    /\ Running
    /\ \/ /\ pc[t] = "outer"
          /\ Goto(t, IF stopping THEN "gone" ELSE "inner")
          /\ attempt' = [attempt EXCEPT ![t] = 0]
       \/ /\ pc[t] = "inner"
          /\ Goto(t, IF stopping THEN "gone" ELSE "begin")
          /\ UNCHANGED attempt
       \/ /\ pc[t] = "periodic"
          /\ Goto(t, IF stopping THEN "gone" ELSE IF applied.polling THEN "interval" ELSE "parked")
          /\ UNCHANGED attempt
       \/ /\ pc[t] = "wait"
          /\ Goto(t, IF stopping THEN "gone" ELSE "asleep")
          /\ UNCHANGED attempt
    /\ UNCHANGED <<world, first, held, unseen>>

AfterBusy(t) == IF t[2] = "worker" THEN "busy" ELSE "wait"

TaskBegin(t, i) ==
    /\ Running /\ pc[t] = "begin"
    /\ Begin(i, "background", {t[1]})
    /\ held' = [held EXCEPT ![t] = i]
    /\ Goto(t, "running")
    /\ UNCHANGED <<attempt, first, unseen, applied, stopping, main, rung>>

FaultTaskBusy(t) ==
    /\ Running /\ pc[t] = "begin"
    /\ Refused({t[1]}) /\ attempt[t] < RetryDelays
    /\ Goto(t, AfterBusy(t))
    /\ attempt' = [attempt EXCEPT ![t] = @ + 1]
    /\ UNCHANGED <<world, first, held, unseen>>

TaskBusy(t) ==
    /\ Running /\ pc[t] = "begin"
    /\ Refused({t[1]})
    /\ Goto(t, AfterBusy(t))
    /\ UNCHANGED <<world, attempt, first, held, unseen>>

(* A failure of the first cycle starts a retry chain beside the polling,    *)
(* except for the database, whose worker retries itself in every cycle.     *)
Chained(t) == t[2] = "worker" /\ first[t[1]] /\ t[1] # "database"
Again(t) == t[2] = "retry" \/ (t[1] = "database" /\ attempt[t] < RetryDelays)

NextPlace(t, v) ==
    IF t[2] = "retry"
    THEN IF v = "failed" /\ attempt[t] + 1 < RetryDelays THEN "wait" ELSE "gone"
    ELSE IF v = "failed" /\ Again(t) THEN "delay" ELSE "periodic"

TaskFinish(t) ==
    /\ Running /\ pc[t] = "running" /\ verdict[held[t]] # "none"
    /\ Finish(held[t], verdict[held[t]])
    /\ LET v == verdict[held[t]]
           spawned(u) == /\ u = <<t[1], "retry">>
                         /\ v = "failed" /\ Chained(t) /\ RetryDelays > 0
       IN  /\ pc' = [u \in Tasks |-> IF u = t THEN NextPlace(t, v)
                                      ELSE IF spawned(u) THEN "wait" ELSE pc[u]]
           /\ attempt' = [u \in Tasks |-> IF u = t /\ v = "failed" /\ Again(t) THEN attempt[u] + 1
                                           ELSE IF spawned(u) THEN 0 ELSE attempt[u]]
           /\ unseen' = [u \in Tasks |-> unseen[u] /\ ~spawned(u)]
           /\ first' = [first EXCEPT ![t[1]] = @ /\ ~(t[2] = "worker" /\ NextPlace(t, v) = "periodic")]
    /\ held' = [held EXCEPT ![t] = Nobody]
    /\ UNCHANGED <<verdict, applied, stopping, main>>

FaultTaskPanic(t) ==
    /\ Running /\ pc[t] = "running" /\ verdict[held[t]] = "none"
    /\ Goto(t, "gone")
    /\ held' = [held EXCEPT ![t] = Nobody]
    /\ UNCHANGED <<jobs, control, verdict, attempt, first, unseen, applied, stopping, main, rung>>

TaskPanic(t) ==
    /\ Running /\ pc[t] = "running" /\ verdict[held[t]] = "none"
    /\ Finish(held[t], "failed")
    /\ Goto(t, "gone")
    /\ held' = [held EXCEPT ![t] = Nobody]
    /\ UNCHANGED <<verdict, attempt, first, unseen, applied, stopping, main>>

Timer(t) ==
    /\ Running
    /\ \/ pc[t] = "busy" /\ Goto(t, "inner")
       \/ pc[t] = "delay" /\ Goto(t, "inner")
       \/ pc[t] = "interval" /\ Goto(t, "outer")
       \/ pc[t] = "asleep" /\ Goto(t, "inner")
    /\ UNCHANGED <<world, attempt, first, held, unseen>>

Changed(t) ==
    /\ Running /\ Saw(t)
    /\ \/ pc[t] = "busy" /\ Goto(t, "inner")
       \/ pc[t] = "delay" /\ Goto(t, IF stopping THEN "gone" ELSE "delay")
       \/ pc[t] \in {"interval", "parked"} /\ Goto(t, "periodic")
       \/ pc[t] = "asleep" /\ Goto(t, "wait")
    /\ UNCHANGED <<world, attempt, first, held>>

-----------------------------------------------------------------------------
(* The main task: a signal stops the coordinator and wakes it; it stops the *)
(* coordinator itself, then waits until no job holds anything.              *)

Signal ==
    /\ main = "serving"
    /\ Stop
    /\ main' = "signalled"
    /\ UNCHANGED <<verdict, tasks, applied, rung>>

Drain ==
    /\ main \in {"serving", "signalled"}
    /\ Stop
    /\ main' = "draining"
    /\ UNCHANGED <<verdict, tasks, applied, rung>>

(* notified.enable() comes before the look at the list. *)
Arm ==
    /\ main = "draining"
    /\ rung' = FALSE
    /\ main' = "armed"
    /\ UNCHANGED <<jobs, control, verdict, tasks, unseen, applied, stopping>>

FaultLookAtJobs ==
    /\ main = "armed"
    /\ main' = IF \A i \in Active : verdict[i] # "none" THEN "left" ELSE "waiting"
    /\ UNCHANGED <<jobs, control, verdict, tasks, unseen, applied, stopping, rung>>

LookAtJobs ==
    /\ main = "armed"
    /\ main' = IF Active = {} THEN "left" ELSE "waiting"
    /\ UNCHANGED <<jobs, control, verdict, tasks, unseen, applied, stopping, rung>>

Wake ==
    /\ main = "waiting" /\ rung
    /\ main' = "draining"
    /\ UNCHANGED <<jobs, control, verdict, tasks, unseen, applied, stopping, rung>>

(* Twenty seconds have passed: the process ends with jobs still running. *)
GiveUp ==
    /\ main \in {"draining", "armed", "waiting"}
    /\ main' = "forced"
    /\ UNCHANGED <<jobs, control, verdict, tasks, unseen, applied, stopping, rung>>

-----------------------------------------------------------------------------

TaskStep(t) == \/ Look(t) \/ TaskBusy(t) \/ TaskFinish(t) \/ Timer(t) \/ Changed(t)
               \/ \E i \in JobIds : TaskBegin(t, i)
FaultMainStep ==
    /\ \/ main = "draining" /\ main' = (IF Active = {} THEN "left" ELSE "armed") /\ UNCHANGED rung
       \/ main = "armed" /\ rung' = FALSE /\ main' = "waiting"
       \/ main = "waiting" /\ rung /\ main' = "draining" /\ UNCHANGED rung
    /\ UNCHANGED <<jobs, control, verdict, tasks, unseen, applied, stopping>>

MainStep == Arm \/ LookAtJobs \/ Wake

Next ==
    \/ \E i \in JobIds, ok \in BOOLEAN : Judge(i, ok)
    \/ \E i \in JobIds, target \in Targets : Submit(i, target)
    \/ \E i \in JobIds : FinishManual(i) \/ PanicManual(i) \/ Cancel(i)
    \/ \E expected \in 1..MaxRevision, polling \in BOOLEAN : Replace(expected, polling)
    \/ \E t \in Tasks : TaskStep(t) \/ TaskPanic(t)
    \/ Signal \/ Drain \/ MainStep \/ GiveUp

(* The runtime polls every task that is ready, timers fire, and a transfer  *)
(* ends: by its own timeouts, or at once when it is cancelled. Signals,     *)
(* operators, panics and the drain's timeout are not owed to anyone.        *)
Fairness ==
    /\ \A t \in Tasks : WF_vars(TaskStep(t))
    /\ \A i \in JobIds : /\ WF_vars(\E ok \in BOOLEAN : Judge(i, ok))
                         /\ WF_vars(FinishManual(i))
    /\ WF_vars(MainStep)
    /\ WF_vars(main = "signalled" /\ Drain)

Spec == Init /\ [][Next]_vars
FairSpec == Spec /\ Fairness

-----------------------------------------------------------------------------
(* Properties. *)

(* Every variable keeps its type; a finished job holds no dataset. *)
TypeOK ==
    /\ jobs \in [JobIds -> [status : {"absent", "running", "cancelling"} \cup Terminal,
                            origin : {"none", "background", "manual"}, mask : SUBSET Dataset,
                            revision : Nat, at : Nat]]
    /\ control \in [JobIds -> {0, 130, 143}]
    /\ verdict \in [JobIds -> {"none"} \cup Terminal]
    /\ pc \in [Tasks -> {"gone", "outer", "inner", "begin", "busy", "running", "delay",
                         "periodic", "interval", "parked", "wait", "asleep"}]
    /\ attempt \in [Tasks -> 0..RetryDelays]
    /\ first \in [Enabled -> BOOLEAN]
    /\ held \in [Tasks -> JobIds \cup {Nobody}]
    /\ unseen \in [Tasks -> BOOLEAN]
    /\ applied \in [revision : Nat \ {0}, polling : BOOLEAN]
    /\ stopping \in BOOLEAN /\ rung \in BOOLEAN
    /\ main \in {"serving", "signalled", "draining", "armed", "waiting", "left", "forced"}

(* Two jobs never hold the same dataset (begin() refuses an overlapping     *)
(* mask), and a job holds datasets exactly while it is running or           *)
(* cancelling (finish() clears the mask with the status).                   *)
ReservationsDisjoint ==
    /\ \A i, k \in JobIds : i # k => jobs[i].mask \cap jobs[k].mask = {}
    /\ \A i \in JobIds : (jobs[i].mask # {}) <=> (jobs[i].status \in {"running", "cancelling"})

(* A worker that runs owns an active background job on its own dataset, and *)
(* no other task owns it: the Running guard releases it exactly once.       *)
RunnerOwnsReservation ==
    /\ \A t \in Tasks :
         IF pc[t] = "running"
         THEN /\ held[t] \in Active /\ jobs[held[t]].origin = "background"
              /\ jobs[held[t]].mask = {t[1]}
         ELSE held[t] = Nobody
    /\ \A t, u \in Tasks : pc[t] = "running" /\ pc[u] = "running" /\ held[t] = held[u] => t = u
    /\ \A i \in Active : jobs[i].origin = "background" =>
         \E t \in Tasks : pc[t] = "running" /\ held[t] = i

(* Once stop() has run, every job that still holds a dataset has been told  *)
(* so, the ones that were admitted at the last moment included; and at any  *)
(* time show() answers "cancelling" exactly for a cancelled control.        *)
StopReachesEveryJob ==
    \A i \in Active : /\ (control[i] # 0) <=> (jobs[i].status = "cancelling")
                      /\ stopping => control[i] # 0

(* When drain() has returned the process exits with no publisher at work,   *)
(* although begin() and drain() only meet in the coordinator's lock.        *)
DrainedIsQuiet ==
    main = "left" => stopping /\ Active = {}

(* At most HistoryLimit finished jobs are listed, and the list is in the    *)
(* order of admission: a later entry never has an earlier configuration.    *)
HistoryInOrder ==
    /\ Cardinality(Present \ Active) <= HistoryLimit
    /\ \A i, k \in Present : jobs[i].at < jobs[k].at => jobs[i].revision <= jobs[k].revision

(* What a finished job reports never changes: cancel(), stop() and a late   *)
(* runner leave it alone until the history drops it.                        *)
VerdictIsFinal ==
    [][\A i \in JobIds : jobs[i].status \in Terminal =>
           jobs'[i].status \in {jobs[i].status, "absent"}]_vars

(* A delay of the retry chain is consumed by a failed attempt only: never   *)
(* by a busy dataset, a cancellation, a reload or a panic of another task.  *)
OnlyFailuresConsumeDelays ==
    [][\A t \in Tasks : attempt'[t] > attempt[t] =>
           /\ pc[t] = "running" /\ verdict[held[t]] = "failed"
           /\ attempt'[t] = attempt[t] + 1 /\ attempt'[t] <= RetryDelays]_vars

(* The coordinator implements exclusive reservations. *)
R == INSTANCE Reservations WITH taken <- [i \in JobIds |-> jobs[i].mask], closed <- stopping
ImplementsReservations == R!Spec

(* A drain ends although the notification of a finished job may come        *)
(* between its look at the list and its wait.                               *)
DrainCompletes == (main = "draining") ~> (main \in {"left", "forced"})

(* A worker that had nothing to wait for (interval 0) polls again when a    *)
(* reload turns the interval on.                                            *)
PollingResumes ==
    \A d \in Enabled :
       (pc[<<d, "worker">>] = "parked" /\ applied.polling)
          ~> (pc[<<d, "worker">>] \notin {"parked"} \/ ~applied.polling \/ ~Running)
=============================================================================
