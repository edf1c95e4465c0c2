------------------------------ MODULE OneShot -------------------------------
(***************************************************************************)
(* `prtsctl data sync` (cli/data.rs, sync/once.rs): the data sets of a     *)
(* target one after the other, under one control (sync/control.rs): a      *)
(* budget for the time spent waiting for locks, and a signal.  Either one  *)
(* ends every wait and every transfer from then on, and nothing else: a    *)
(* data set goes on with what it has, and an archive may still extract and *)
(* activate the ZIP file of an earlier download.                           *)
(*                                                                         *)
(* A unit of work goes through stages.  Time passes in polls; locks are    *)
(* held by other processes now and then.  A source check waits for a lock  *)
(* only when the source is a custom one.  What the units find in their     *)
(* directories is `store`, the same for all.                               *)
(***************************************************************************)
EXTENDS Naturals, Sequences, SequencesExt, FiniteSets

CONSTANTS
  Configs,    \* [backend, customData, customStory, images]
  Budgets,    \* seconds of --wait, in polls
  MaxBusy     \* bound of the model: polls during which a lock is held elsewhere

Targets == {"game", "images", "all"}

VARIABLES
  config,
  request,     \* [target, wait]: the arguments
  store,       \* [zip, tree]: is there a valid ZIP file; the tree extracted from it,
               \* "none", "behind" (its record names another release) or "current"
  remaining,   \* Control.remaining
  cancelled,   \* 0, or the code of the signal
  timeout,
  run,         \* [pc, todo, unit, at, elapsed, release]
  held,        \* the results of the pair until its record is saved
  results,     \* the report so far: [set, ok, status]
  report,      \* [ok, code] when the process is about to end
  waited,      \* time spent in lock waits, for the property
  published,   \* units put in place by this process, for the property
  late,        \* how many of them after it was stopped, for the property
  busy         \* polls so far during which a lock was held elsewhere
control == <<remaining, cancelled, timeout>>
fixed == <<config, request, store>>
told == <<results, held>>
shown == <<waited, published, late>>
vars == <<config, request, store, remaining, cancelled, timeout, run, held, results, report,
          waited, published, late, busy>>

\* validate
HasGame(c) == IF c.backend = "sqlite" THEN ~c.customData ELSE ~c.customData \/ ~c.customStory
Valid(c, t) ==
  /\ t # "game" => c.images
  /\ t = "game" => HasGame(c)

\* What run() goes through; the pair is opened, its archives follow, it is closed.
Planned(c, t) ==
  (IF t = "images" THEN <<>>
   ELSE IF c.backend = "sqlite" THEN <<"database">>
   ELSE (IF c.customData THEN <<"game">> ELSE <<"pair", "excel", "levels", "close">>)
        \o <<"story">>)
  \o (IF t = "game" THEN <<>> ELSE <<"images">>)
Skipped(c, unit) ==
  CASE unit = "database" -> c.customData
    [] unit = "game" -> TRUE
    [] unit = "story" -> c.customStory
    [] OTHER -> FALSE

Archives == {"excel", "levels"}
ArchiveStages == <<"source", "lock", "source", "lock", "list", "fetch", "publish", "extract">>
Stages ==
  [pair |-> <<"lock", "source", "source", "bind">>,
   excel |-> ArchiveStages, levels |-> ArchiveStages, close |-> <<"bind">>,
   story |-> <<"source", "lock", "source", "list", "fetch", "publish">>,
   images |-> <<"source", "lock", "lock", "source", "list", "source", "fetch", "publish">>,
   database |-> <<"source", "lock", "source", "list", "fetch", "publish">>]

Init ==
  /\ config \in Configs
  /\ request \in [target : {t \in Targets : Valid(config, t)}, wait : Budgets]
  /\ store \in [zip : BOOLEAN, tree : {"none", "behind", "current"}]
  /\ remaining = request.wait /\ cancelled = 0 /\ timeout = FALSE
  /\ run = [pc |-> "next", todo |-> Planned(config, request.target), unit |-> "none", at |-> 0,
            elapsed |-> 0, release |-> "none"]
  /\ held = <<>> /\ results = <<>> /\ report = [ok |-> FALSE, code |-> 0]
  /\ waited = 0 /\ published = {} /\ late = 0 /\ busy = 0

\* exit_code and checkpoint
Stopped == cancelled # 0 \/ timeout
Code == IF cancelled # 0 THEN cancelled ELSE IF timeout THEN 3 ELSE 0

Result(set, status) ==
  [set |-> set, status |-> status, ok |-> status \in {"skipped", "updated", "up_to_date"}]
Fallback(present) == IF present THEN "offline_fallback" ELSE "no_data"

Doing(stage) == run.pc = "work" /\ Stages[run.unit][run.at] = stage
Onto(n) == run' = [run EXCEPT !.at = n, !.elapsed = 0]
Rest(todo) == [run EXCEPT !.pc = "next", !.unit = "none", !.at = 0, !.elapsed = 0,
                          !.release = "none", !.todo = todo]

\* A unit has its result; those of the pair are kept back.
End(status) ==
  /\ run' = Rest(run.todo)
  /\ IF run.unit \in Archives
     THEN held' = Append(held, Result(run.unit, status)) /\ UNCHANGED results
     ELSE results' = Append(results, Result(run.unit, status)) /\ UNCHANGED held

\* sync_release has a result: it is that of the story, an archive looks at it.
Released(status) ==
  IF run.unit \in Archives
  THEN run' = [run EXCEPT !.at = Len(ArchiveStages), !.release = status] /\ UNCHANGED told
  ELSE End(status)

\* The pair ends in an error: one result, whatever became of its archives.
Break ==
  /\ results' = Append(results, Result("game", "failed")) /\ held' = <<>>
  /\ run' = Rest(SelectSeq(run.todo, LAMBDA u : u \notin Archives \cup {"close"}))

\* Something fails.  A source check refuses the data set; other failures fall
\* back to the ZIP file, the tree or the generation there is.
Falls ==
  CASE run.unit \in {"pair", "close"} -> Break
    [] run.unit = "database" -> End("failed")
    [] run.unit \in Archives \cup {"story", "images"} ->
         IF Doing("source") /\ run.at <= 4 THEN End("no_data")
         ELSE IF run.unit = "story" \/ (run.unit \in Archives /\ run.at # 2)
              THEN Released(Fallback(store.zip))
              ELSE End(Fallback(store.tree # "none"))

Put ==
  /\ published' = published \cup {run.unit}
  /\ late' = IF Stopped THEN late + 1 ELSE late
  /\ UNCHANGED waited

-----------------------------------------------------------------------------

\* A signal before the game data passes over all of it.
Passed(unit) == unit \in {"database", "game", "pair"} /\ cancelled # 0
\* A data set after the game data is begun only if nothing has stopped the run.
MayBegin(unit) == unit \in {"story", "images"} => ~Stopped

Begin ==
  LET unit == Head(run.todo)
      rest == Tail(run.todo)
  IN /\ run.pc = "next" /\ run.todo # <<>>
     /\ \/ /\ Passed(unit)
           /\ run' = Rest(SelectSeq(rest, LAMBDA u : u = "images"))
           /\ UNCHANGED results
        \/ /\ ~Passed(unit) /\ Skipped(config, unit)
           /\ run' = Rest(rest)
           /\ results' = Append(results, Result(unit, "skipped"))
        \/ /\ ~Passed(unit) /\ ~Skipped(config, unit)
           /\ run' = IF MayBegin(unit)
                     THEN [run EXCEPT !.pc = "work", !.unit = unit, !.at = 1, !.todo = rest]
                     ELSE Rest(rest)
           /\ UNCHANGED results
     /\ UNCHANGED <<control, fixed, held, report, shown, busy>>

Waiting == Doing("lock") \/ Doing("source")

\* Fault: what a wait has used up is given back.
FaultDrop(spent) == remaining

\* Drop for Wait: only the time of the wait is subtracted.
Drop(spent) == IF spent > remaining THEN 0 ELSE remaining - spent

\* try_lock succeeds: the wait is over, the next lock has what is left.
Acquire ==
  /\ Waiting /\ ~Stopped
  /\ remaining' = Drop(run.elapsed)
  /\ Onto(run.at + 1)
  /\ UNCHANGED <<cancelled, timeout, fixed, told, report, shown, busy>>

\* WouldBlock: either the limit is reached, or it sleeps for a poll.
Busy ==
  /\ Waiting /\ ~Stopped /\ busy < MaxBusy
  /\ busy' = busy + 1
  /\ IF run.elapsed >= remaining
     THEN /\ timeout' = TRUE /\ remaining' = Drop(run.elapsed)
          /\ Falls /\ UNCHANGED waited
     ELSE /\ run' = [run EXCEPT !.elapsed = @ + 1]
          /\ waited' = waited + 1
          /\ UNCHANGED <<timeout, remaining, told>>
  /\ UNCHANGED <<cancelled, fixed, report, published, late>>

\* The wait ends without the lock: the checkpoint has seen the signal, or the
\* directory cannot be used.
Refuse ==
  /\ Waiting
  /\ remaining' = Drop(run.elapsed)
  /\ Falls
  /\ UNCHANGED <<cancelled, timeout, fixed, report, shown, busy>>

\* Every call of the transport goes through Control.transfer (Controlled).
Receives == ~Stopped

\* What is installed is the latest; there is more to get, for the second protocol
\* of the images after another look at the source; the file of a database is there
\* and only has to be activated; or the listing fails.
List ==
  /\ Doing("list")
  /\ \/ /\ Receives
        /\ \/ /\ run.unit \in Archives \cup {"story"} => store.zip
              /\ run.unit = "images" => store.tree # "none"
              /\ Released("up_to_date")
           \/ Onto(run.at + 1) /\ UNCHANGED told
           \/ run.unit \in {"images", "database"} /\ Onto(run.at + 2) /\ UNCHANGED told
     \/ Falls
  /\ UNCHANGED <<control, fixed, report, shown, busy>>

\* An index that cannot be read is no data, whatever there is.
Fetch ==
  /\ Doing("fetch")
  /\ \/ Receives /\ Onto(run.at + 1) /\ UNCHANGED told
     \/ run.unit = "images" /\ End("no_data")
     \/ Falls
  /\ UNCHANGED <<control, fixed, report, shown, busy>>

\* What has been fetched is put in place, whatever has come meanwhile.  The record of a
\* ZIP file, and the sync of a pointer's directory, may fail after that.
Publish ==
  /\ Doing("publish")
  /\ \/ /\ Released("updated")
        /\ IF run.unit \in Archives THEN UNCHANGED shown ELSE Put
     \/ Falls /\ UNCHANGED shown
     \/ run.unit \in {"story", "database"} /\ Falls /\ Put
  /\ UNCHANGED <<control, fixed, report, busy>>

\* sync_release_archive_locked: the ZIP file is extracted when it is new or when
\* the tree is not the one of its release; no control is asked.
ShouldExtract ==
  run.release # "no_data" /\ (run.release = "updated" \/ store.tree # "current")

Extract ==
  /\ Doing("extract")
  /\ \/ ShouldExtract /\ Put /\ End("updated")
     \/ /\ ShouldExtract /\ run.release = "updated" /\ store.tree # "none"
        /\ End("up_to_date") /\ UNCHANGED shown
     \/ /\ ShouldExtract \/ run.release = "no_data"
        /\ End(Fallback(store.tree # "none")) /\ UNCHANGED shown
     \/ /\ ~ShouldExtract /\ run.release # "no_data"
        /\ End(run.release) /\ UNCHANGED shown
  /\ UNCHANGED <<control, fixed, report, busy>>

\* The record of the pair is initialized before its archives and saved after them.
Bind ==
  /\ Doing("bind")
  /\ \/ run' = Rest(run.todo) /\ results' = results \o held /\ held' = <<>>
     \/ Break
  /\ UNCHANGED <<control, fixed, report, shown, busy>>

Report ==
  /\ run.pc = "next" /\ run.todo = <<>>
  /\ report' = [ok |-> ~Stopped /\ \A n \in DOMAIN results : results[n].ok, code |-> 0]
  /\ run' = [run EXCEPT !.pc = "report"]
  /\ UNCHANGED <<control, fixed, told, shown, busy>>

\* The control once more, then the report.
ExitCode == IF Stopped THEN Code ELSE IF report.ok THEN 0 ELSE 1

Exit ==
  /\ run.pc = "report"
  /\ report' = [report EXCEPT !.code = ExitCode]
  /\ run' = [run EXCEPT !.pc = "ended"]
  /\ UNCHANGED <<control, fixed, told, shown, busy>>

\* SIGINT or SIGTERM, the first one counts; the handler is gone before the exit.
Signal ==
  /\ cancelled = 0 /\ run.pc # "ended"
  /\ cancelled' \in {130, 143}
  /\ UNCHANGED <<remaining, timeout, run, fixed, told, report, shown, busy>>

Next ==
  \/ Begin \/ Acquire \/ Busy \/ Refuse \/ List \/ Fetch \/ Publish \/ Extract \/ Bind
  \/ Report \/ Exit \/ Signal
Spec == Init /\ [][Next]_vars

-----------------------------------------------------------------------------
(* Properties.                                                             *)

TypeOK ==
  /\ remaining \in Nat /\ cancelled \in {0, 130, 143} /\ timeout \in BOOLEAN
  /\ run.pc \in {"next", "work", "report", "ended"}
  /\ run.pc = "work" => run.at \in DOMAIN Stages[run.unit]
  /\ late \in Nat /\ waited \in Nat /\ busy \in 0..MaxBusy

Updated == {results[n].set : n \in {m \in DOMAIN results : results[m].status = "updated"}}

(* The report and the exit code tell the truth.  What is reported as       *)
(* updated has been put in place.  0 means that nothing stopped the run,   *)
(* that every data set of the target is skipped, new or up to date, and    *)
(* that nothing was put in place beyond what is reported; a signal is the  *)
(* code whenever it came, and 3 is a lock that was not to be had.  (A      *)
(* report of a failure may be one of a data set that was put in place: its *)
(* record came after it and failed.)                                       *)
ExitIsTrue ==
  /\ Updated \subseteq published
  /\ run.pc = "ended" =>
       /\ report.code = 0 =>
            /\ ~Stopped /\ published = Updated
            /\ {results[n].set : n \in DOMAIN results}
                 = ToSet(Planned(config, request.target)) \ {"pair", "close"}
            /\ \A n \in DOMAIN results : results[n].ok
       /\ cancelled # 0 => report.code = cancelled
       /\ cancelled = 0 /\ timeout => report.code = 3

(* The time spent in all lock waits together stays within --wait.          *)
WaitIsBounded == waited <= request.wait

(* After a signal, or after a lock could not be had, one data set at most  *)
(* is still put in place: the one that was being worked on, be it from     *)
(* what it had just fetched or from the ZIP file of an earlier run.        *)
StopIsPrompt == late <= 1
=============================================================================
