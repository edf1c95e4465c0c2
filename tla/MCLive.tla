------------------------------- MODULE MCLive -------------------------------
(***************************************************************************)
(* What has to happen in the end: calls, admissions, edits and lock waits  *)
(* end, and the artwork directory comes to rest.  As in the other suites   *)
(* `part` names the instance a behaviour is about; here its component is   *)
(* scheduled fairly.                                                       *)
(***************************************************************************)
EXTENDS Integers, Sequences, FiniteSets, TLC
CONSTANTS c1, c2

Calls == {c1, c2}

VARIABLES
  part,
  \* DataState
  backend, bundle, bound, pair, excel, levels, story, active, previous,
  files, writing, cache, writer, call, mishaps,
  \* Admission
  writes, file, stamps, receipts, checked, task,
  \* DatasetSlots
  generation, tables, trouble, value, holder, view, stack, shown, loads,
  \* ConfigEdit
  disk, lock, editor, byHand,
  \* ImagesSync
  releases, calm, faults, dirs, meta, run,
  \* ActivationLock
  lease, pc, saw, beating, crashes

dataVars == <<backend, bundle, bound, pair, excel, levels, story, active,
              previous, files, writing, cache, writer, call, mishaps>>
admitVars == <<writes, file, stamps, receipts, checked, task>>
tableVars == <<generation, tables, trouble, value, holder, view, stack,
               shown, loads>>
editVars == <<disk, lock, editor, byHand>>
imagesVars == <<releases, calm, faults, dirs, meta, run>>
leaseVars == <<lease, pc, saw, beating, crashes>>
vars == <<part, dataVars, admitVars, tableVars, editVars, imagesVars, leaseVars>>

-----------------------------------------------------------------------------
Says(doc) == [kind |-> "file", doc |-> doc]
AllGood == [s \in {"character_table", "handbook_table", "charword_table", "name_to_id",
                   "enemy_handbook", "enemy_database", "enemy_name_to_id",
                   "enemy_search_records", "stage_table", "zone_table", "stages_map",
                   "stage_search_records", "enemy_appearance_index", "items", "item_lookup",
                   "item_search_records", "search_records", "building_table",
                   "building_skill_records", "skill_table", "skill_search_records",
                   "char_skins"} |-> "good"]

\* A database bound, replaced and damaged while two calls take snapshots.
Data == INSTANCE DataState WITH
  Callers <- Calls, Backends <- {"default"}, Bundles <- {"none"}, MaxGeneration <- 1,
  Units <- {"database"}, Bindable <- {"database"}, MaxFaults <- 1, faults <- mishaps

\* A managed file and one of the user, rewritten under two readers.
Admit == INSTANCE Admission WITH
  Managed <- {"m"}, Custom <- {"c"}, Rotten <- {}, Threads <- Calls, Limit <- 1,
  MaxWrites <- 2, levels <- checked

\* Tables derived from each other, asked for in any order.
Tables == INSTANCE DatasetSlots WITH
  Clients <- Calls, MaxGeneration <- 1, Troubles <- TRUE, files <- tables,
  Asked <- {"name_to_id", "building_skill_records"}, FileStates <- {AllGood}

Edit == INSTANCE ConfigEdit WITH
  Editors <- Calls, Previews <- {FALSE}, First <- Says([PRTS_DATA_BACKEND |-> "json"]),
  Commands <- {<<"init", FALSE>>, <<"set", "PORT", "3000">>},
  ByHand <- {[kind |-> "broken", doc |-> <<>>], Says([PORT |-> "0"])}, MaxByHand <- 1,
  Shell <- <<>>, FileDir <- <<"/", "etc">>

\* Releases of either protocol while runs are killed, dropped and damaged.
V1 == INSTANCE ImagesSync WITH
  Tiers <- {"large"}, Kinds <- {{"v1"}}, Wants <- {FALSE}, Changes <- {{}, {"large"}},
  MaxVersion <- 3, Dirs <- 1..5, FaultKinds <- {"kill", "drop", "disk", "damage"}, MaxFaults <- 1,
  MaxRollbacks <- 0

V2 == INSTANCE ImagesSync WITH
  Tiers <- {"large"}, Kinds <- {{"v2"}}, Wants <- {FALSE}, Changes <- {{"large"}},
  MaxVersion <- 3, Dirs <- 1..5, FaultKinds <- {"kill", "drop", "damage"}, MaxFaults <- 1,
  MaxRollbacks <- 1

\* Two processes, one killed in any step.
Lease == INSTANCE ActivationLock WITH
  Procs <- Calls, Suspends <- TRUE, MaxCrashes <- 1, lock <- lease

-----------------------------------------------------------------------------
(* A component whose turn it is not has no state.                           *)
dataIdle ==
  /\ backend = 0 /\ bundle = 0 /\ bound = 0 /\ pair = 0 /\ excel = 0
  /\ levels = 0 /\ story = 0 /\ active = 0 /\ previous = 0 /\ files = 0
  /\ writing = 0 /\ cache = 0 /\ writer = 0 /\ call = 0 /\ mishaps = 0
admitIdle ==
  /\ writes = 0 /\ file = 0 /\ stamps = 0 /\ receipts = 0 /\ checked = 0
  /\ task = 0
tableIdle ==
  /\ generation = 0 /\ tables = 0 /\ trouble = 0 /\ value = 0 /\ holder = 0
  /\ view = 0 /\ stack = 0 /\ shown = 0 /\ loads = 0
editIdle ==
  /\ disk = 0 /\ lock = 0 /\ editor = 0 /\ byHand = 0
imagesIdle ==
  /\ releases = 0 /\ calm = 0 /\ faults = 0 /\ dirs = 0 /\ meta = 0
  /\ run = 0
leaseIdle ==
  /\ lease = 0 /\ pc = 0 /\ saw = 0 /\ beating = 0 /\ crashes = 0

Parts == {"snapshot", "admit", "tables", "edit", "v1", "v2", "lease"}

Init ==
  /\ part \in Parts
  /\ CASE part = "snapshot" -> Data!Init
       [] OTHER -> dataIdle
  /\ CASE part = "admit" -> Admit!Init
       [] OTHER -> admitIdle
  /\ CASE part = "tables" -> Tables!Init
       [] OTHER -> tableIdle
  /\ CASE part = "edit" -> Edit!Init
       [] OTHER -> editIdle
  /\ CASE part = "v1" -> V1!Init
       [] part = "v2" -> V2!Init
       [] OTHER -> imagesIdle
  /\ CASE part = "lease" -> Lease!Init
       [] OTHER -> leaseIdle

Next ==
  /\ CASE part = "snapshot" -> Data!Next
       [] OTHER -> UNCHANGED dataVars
  /\ CASE part = "admit" -> Admit!Next
       [] OTHER -> UNCHANGED admitVars
  /\ CASE part = "tables" -> Tables!Next
       [] OTHER -> UNCHANGED tableVars
  /\ CASE part = "edit" -> Edit!Next
       [] OTHER -> UNCHANGED editVars
  /\ CASE part = "v1" -> V1!Next \/ V1!Calm
       [] part = "v2" -> V2!Next \/ V2!Calm
       [] OTHER -> UNCHANGED imagesVars
  /\ CASE part = "lease" -> Lease!Next
       [] OTHER -> UNCHANGED leaseVars
  /\ UNCHANGED part

-----------------------------------------------------------------------------
(* Fairness.  What is fair in a part leaves the others alone.              *)

Alone(own) ==
  /\ UNCHANGED part
  /\ own = "data" \/ UNCHANGED dataVars
  /\ own = "admit" \/ UNCHANGED admitVars
  /\ own = "table" \/ UNCHANGED tableVars
  /\ own = "edit" \/ UNCHANGED editVars
  /\ own = "images" \/ UNCHANGED imagesVars
  /\ own = "lease" \/ UNCHANGED leaseVars

\* A thread goes on, and gets a lock it waits for in its turn; the work under
\* the lease ends between two beats.
Locks(c) ==
  \/ part = "snapshot" /\ Data!Snapshot(c) /\ call[c].pc # "idle" /\ Alone("data")
  \/ part = "tables" /\ Tables!Step(c) /\ Alone("table")
  \/ part = "lease" /\ Lease!EndRun(c) /\ Alone("lease")
\* Steps that wait for nobody.
Steps(c) ==
  \/ part = "admit" /\ Admit!Step(c) /\ Alone("admit")
  \/ part = "edit" /\ Edit!Step(c) /\ Alone("edit")
  \/ part = "lease" /\ Lease!Contend(c) /\ Alone("lease")
\* A snapshot is replaced in the end; a lease is written and given back.
Releases(c) ==
  \/ part = "admit" /\ Admit!Close(c) /\ Alone("admit")
  \/ part = "lease" /\ Lease!Finish(c) /\ Alone("lease")
\* The schedule, the clock and the cleanup come round; faults end.
Schedule ==
  \/ part = "v1" /\ (V1!RunStep \/ V1!Begin(FALSE)) /\ Alone("images")
  \/ part = "v2" /\ (V2!RunStep \/ V2!Begin(FALSE)) /\ Alone("images")
  \/ part = "lease" /\ Lease!Age /\ Alone("lease")
  \/ part = "admit" /\ Admit!Prune("m") /\ Alone("admit")
Quiet ==
  \/ part = "v1" /\ V1!Calm /\ Alone("images")
  \/ part = "v2" /\ V2!Calm /\ Alone("images")

Spec ==
  /\ Init /\ [][Next]_vars
  /\ \A c \in Calls : SF_vars(Locks(c)) /\ WF_vars(Steps(c)) /\ WF_vars(Releases(c))
  /\ WF_vars(Schedule) /\ WF_vars(Quiet)

-----------------------------------------------------------------------------
(* Properties.                                                             *)

(* Whoever has begun ends: a call gets its snapshot and its table however  *)
(* the locks are taken and whatever fails under them, an admission ends    *)
(* however often the file changes, an editor ends with an answer, and a    *)
(* contender does not wait for ever for a lease nobody holds (app.rs,      *)
(* datasets.rs, admission.rs, cli/edit.rs, activation.rs).                 *)
Busy(c) ==
  CASE part = "snapshot" -> call[c].pc # "idle"
    [] part = "tables" -> Tables!Busy(c)
    [] part = "admit" -> task[c].pc # "idle"
    [] part = "edit" -> editor[c].pc # "idle" /\ editor[c].pc \notin Edit!Ended
    [] part = "lease" -> Lease!Orphan /\ pc[c] = "sleep"
    [] OTHER -> FALSE
Rests(c) == IF part = "lease" THEN ~Lease!Orphan \/ pc[c] = "idle" ELSE ~Busy(c)
WorkEnds == \A c \in Calls : Busy(c) ~> Rests(c)

(* Once faults end the artwork directory serves the latest release and     *)
(* goes on serving it; only a v1 tree with a file that the disk damaged    *)
(* may stay behind, until a delta or a baseline brings that file again.    *)
(* Candidates of killed and dropped v2 runs do not stay (those of v1 runs  *)
(* do: nothing removes them), nor does an obsolete database without a      *)
(* reader (images_sync.rs, images_v2_sync.rs, images_v2_io.rs, sqlite      *)
(* cleanup).                                                               *)
ComesToRest ==
  /\ <>[](/\ part = "v1" /\ V1!Latest("v1") # 0 =>
               V1!Serves(V1!Latest("v1")) \/ V1!Stuck(V1!Latest("v1"))
          /\ part = "v2" /\ V2!Latest("v2") # 0 =>
               V2!Active # 0 /\ meta.current >= V2!Latest("v2"))
  /\ []<>(/\ part = "v2" => \A d \in 1..5 : dirs[d].kind = "v2" => dirs[d].at # "staging"
          /\ part = "admit" => file["m"] = 0 \/ Admit!Read("m"))
=============================================================================
