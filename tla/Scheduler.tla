------------------------------ MODULE Scheduler ------------------------------
(***************************************************************************)
(* The scheduler without a coordinator (sync/scheduler.rs): cycles that    *)
(* synchronize every enabled data set, and chains of retries that the      *)
(* first cycle leaves behind.  Each cycle has a registry of what is in     *)
(* flight; its chains keep that registry.  A chain that meets a running    *)
(* synchronization of its data set waits once more with the same delay.    *)
(***************************************************************************)
EXTENDS Naturals, FiniteSets

CONSTANTS
  Backend,      \* "json" or "sqlite"
  Enabled,      \* data sets the configuration synchronizes
  Delays,       \* length of SYNC_RETRY_DELAYS_MS (3 in the code)
  Periodic,     \* FALSE: an interval of 0
  MaxCycles     \* bound of the model

Labels == {"Gamedata", "Storyjson", "Images"}
\* In SQLite mode this loop has the images only, and one registry for ever.
Own == IF Backend = "json" THEN Enabled ELSE Enabled \cap {"Images"}

VARIABLES
  cycle,      \* [pc, n]: the loop, n cycles begun
  task,       \* label -> what the cycle does with it: [at, retry]
  flights,    \* {[registry, label]}: SingleFlight.in_flight
  chain       \* label -> its chain of retries: [at, attempt, failures]
vars == <<cycle, task, flights, chain>>

NoTask == [at |-> "none", retry |-> FALSE]
NoChain == [at |-> "none", attempt |-> 0, failures |-> 0]
Registry == IF Backend = "json" THEN cycle.n ELSE 1
First == 1   \* the registry of every chain: only the first cycle arms one

Init ==
  /\ cycle = [pc |-> "sleep", n |-> 0]
  /\ task = [l \in Labels |-> NoTask]
  /\ flights = {}
  /\ chain = [l \in Labels |-> NoChain]

In(registry, l) == [registry |-> registry, label |-> l] \in flights
Statuses == {"updated", "up_to_date", "offline_fallback", "no_data"}
\* should_retry, gamedata_pair_needs_retry
ShouldRetry(status) == status \in {"offline_fallback", "no_data"}
PairNeedsRetry(excel, levels) == ShouldRetry(excel) \/ ShouldRetry(levels)
\* What a synchronization may come back with.
Outcomes(l) == IF l = "Gamedata" THEN {PairNeedsRetry(a, b) : a \in Statuses, b \in Statuses}
               ELSE {ShouldRetry(s) : s \in Statuses}

-----------------------------------------------------------------------------
BeginCycle ==
  /\ cycle.pc = "sleep" /\ cycle.n < MaxCycles
  /\ cycle.n > 0 => Periodic
  /\ cycle' = [pc |-> "run", n |-> cycle.n + 1]
  /\ task' = [l \in Labels |-> IF l \in Own THEN [at |-> "ready", retry |-> FALSE] ELSE NoTask]
  /\ UNCHANGED <<flights, chain>>

\* The images come after the other data sets have been joined.
Ready(l) == l = "Images" => \A k \in Labels \ {l} : task[k].at \in {"none", "ended"}

Take(l) ==
  /\ cycle.pc = "run" /\ task[l].at = "ready" /\ Ready(l)
  /\ IF In(Registry, l)
     THEN task' = [task EXCEPT ![l].at = "ended"] /\ UNCHANGED flights
     ELSE /\ task' = [task EXCEPT ![l].at = "flying"]
          /\ flights' = flights \cup {[registry |-> Registry, label |-> l]}
  /\ UNCHANGED <<cycle, chain>>

Land(l) ==
  /\ task[l].at = "flying"
  /\ \E retry \in Outcomes(l) : task' = [task EXCEPT ![l] = [at |-> "ended", retry |-> retry]]
  /\ flights' = flights \ {[registry |-> Registry, label |-> l]}
  /\ UNCHANGED <<cycle, chain>>

\* Only the first cycle arms the dense chain.
Arms(l) == task[l].retry /\ cycle.n = 1

EndCycle ==
  /\ cycle.pc = "run" /\ \A l \in Labels : task[l].at \in {"none", "ended"}
  /\ cycle' = [cycle EXCEPT !.pc = "sleep"]
  /\ chain' = [l \in Labels |-> IF Arms(l) THEN [at |-> "delay", attempt |-> 0, failures |-> 0]
                                ELSE chain[l]]
  /\ task' = [l \in Labels |-> NoTask]
  /\ UNCHANGED flights

-----------------------------------------------------------------------------

Again(l) == [chain[l] EXCEPT !.at = "delay"]

Wake(l) ==
  /\ chain[l].at = "delay"
  /\ IF chain[l].attempt >= Delays
     THEN chain' = [chain EXCEPT ![l].at = "none"] /\ UNCHANGED flights
     ELSE IF In(First, l)
     THEN chain' = [chain EXCEPT ![l] = Again(l)] /\ UNCHANGED flights
     ELSE /\ chain' = [chain EXCEPT ![l].at = "flying"]
          /\ flights' = flights \cup {[registry |-> First, label |-> l]}
  /\ UNCHANGED <<cycle, task>>

Return(l) ==
  /\ chain[l].at = "flying"
  /\ \E retry \in Outcomes(l) :
       chain' = [chain EXCEPT ![l] =
         IF retry THEN [at |-> "delay", attempt |-> @.attempt + 1, failures |-> @.failures + 1]
         ELSE [@ EXCEPT !.at = "none"]]
  /\ flights' = flights \ {[registry |-> First, label |-> l]}
  /\ UNCHANGED <<cycle, task>>

Next ==
  \/ BeginCycle \/ EndCycle
  \/ \E l \in Labels : Take(l) \/ Land(l) \/ Wake(l) \/ Return(l)
Spec == Init /\ [][Next]_vars

-----------------------------------------------------------------------------
(* Properties.                                                             *)

TypeOK ==
  /\ cycle.pc \in {"sleep", "run"} /\ cycle.n \in 0..MaxCycles
  /\ \A l \in Labels : /\ task[l].at \in {"none", "ready", "flying", "ended"}
                       /\ chain[l].at \in {"none", "delay", "flying"}

(* A delay is used up by a failure and by nothing else, so that a chain    *)
(* that ends has tried as often as there are delays, or has succeeded; it  *)
(* is not cut short by synchronizations that were under way.               *)
DelaysAreForFailures ==
  \A l \in Labels : /\ chain[l].attempt = chain[l].failures
                    /\ chain[l].failures <= Delays

(* A registry has a flight for exactly the synchronizations that run under *)
(* it: a data set is never locked out by one that has ended.               *)
FlightsAreReal ==
  flights = {[registry |-> Registry, label |-> l] : l \in {k \in Labels : task[k].at = "flying"}}
            \cup {[registry |-> First, label |-> l] : l \in {k \in Labels : chain[k].at = "flying"}}

(* No data set is synchronized twice at a time.  (In fact every cycle of   *)
(* the JSON mode has a registry of its own, and a chain of the first cycle *)
(* runs beside a later one.)                                               *)
OneAtATime == \A l \in Labels : ~(task[l].at = "flying" /\ chain[l].at = "flying")
=============================================================================
