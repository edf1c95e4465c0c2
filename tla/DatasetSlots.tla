---------------------------- MODULE DatasetSlots ----------------------------
(***************************************************************************)
(* The parsed tables of a generation (domain/datasets.rs) and the loaders  *)
(* that fill them.  A slot has a lock of its own, held while it loads; the *)
(* loaders of derived tables call for other slots meanwhile.  Calls keep   *)
(* the view they began with when a new generation is activated.  The debug *)
(* page shows what the loaders recorded (diagnostics/mod.rs).              *)
(***************************************************************************)
EXTENDS Naturals, Sequences, FiniteSets

CONSTANTS
  Clients,
  Asked,           \* slots the calls of this instance ask for
  FileStates,      \* slot -> "good", "absent" or "malformed", per generation
  MaxGeneration,   \* bound of the model: activations
  Troubles         \* FALSE: reading a good file never fails

Nobody == "nobody"

\* What a loader calls for, in its order.
OperatorNeeds == [character_table |-> <<>>, handbook_table |-> <<>>, charword_table |-> <<>>,
                  name_to_id |-> <<"character_table">>]
EnemyNeeds == [enemy_handbook |-> <<>>, enemy_database |-> <<>>,
               enemy_name_to_id |-> <<"enemy_handbook">>, enemy_search_records |-> <<"enemy_handbook">>]
StageNeeds == [stage_table |-> <<>>, zone_table |-> <<>>, stages_map |-> <<"stage_table">>,
               stage_search_records |-> <<"stages_map">>, enemy_appearance_index |-> <<"stages_map">>]
ItemNeeds == [items |-> <<>>, item_lookup |-> <<"items">>, item_search_records |-> <<"items">>]
SearchNeeds == [search_records |-> <<"character_table", "handbook_table", "charword_table", "name_to_id">>]
BuildingNeeds == [building_table |-> <<>>,
                  building_skill_records |-> <<"character_table", "name_to_id", "building_table">>]
SkillNeeds == [skill_table |-> <<>>,
               skill_search_records |-> <<"skill_table", "character_table", "name_to_id">>]
SkinNeeds == [char_skins |-> <<>>]

Tables == <<OperatorNeeds, EnemyNeeds, StageNeeds, ItemNeeds, SearchNeeds, BuildingNeeds, SkillNeeds, SkinNeeds>>
Slots == UNION {DOMAIN Tables[k] : k \in DOMAIN Tables}

Needs(slot) == LET k == CHOOSE k \in DOMAIN Tables : slot \in DOMAIN Tables[k] IN Tables[k][slot]

VARIABLES
  generation,    \* the active one
  files,         \* generation -> slot -> state of its file
  trouble,       \* reading fails at the moment
  value,         \* generation -> slot -> "none", "loaded" or "absent"
  holder,        \* generation -> slot -> who has its lock
  view,          \* client -> generation of its call
  stack,         \* client -> the loads it is in, the innermost last
  shown,         \* slot -> is it loaded, as the debug page has it
  loads          \* history: generation -> slot -> loads

disk == <<generation, files, trouble>>
vars == <<disk, value, holder, view, stack, shown, loads>>

Generations == 1..MaxGeneration
Frame(slot) == [slot |-> slot, phase |-> "enter", todo |-> <<>>]

Init ==
  /\ generation = 1
  /\ files \in [Generations -> FileStates]
  /\ trouble = FALSE
  /\ value = [g \in Generations |-> [s \in Slots |-> "none"]]
  /\ holder = [g \in Generations |-> [s \in Slots |-> Nobody]]
  /\ view = [c \in Clients |-> 1]
  /\ stack = [c \in Clients |-> <<>>]
  /\ shown = [s \in Slots |-> FALSE]
  /\ loads = [g \in Generations |-> [s \in Slots |-> 0]]

Busy(c) == stack[c] # <<>>
Top(c) == stack[c][Len(stack[c])]
At(c, phase) == Busy(c) /\ Top(c).phase = phase
Slot(c) == Top(c).slot
File(c, slot) == files[view[c]][slot]
Push(c, frames, slot) == stack' = [stack EXCEPT ![c] = Append(frames, Frame(slot))]
\* Leave the innermost load; a failure fails the load around it.
Pop(c, failed) ==
  LET rest == SubSeq(stack[c], 1, Len(stack[c]) - 1) IN
    stack' = [stack EXCEPT ![c] =
      IF failed /\ rest # <<>> THEN [rest EXCEPT ![Len(rest)].phase = "failed"] ELSE rest]

\* Tables of older data roots may lack files: these records are empty then.
Without == [building_skill_records |-> "building_table", skill_search_records |-> "skill_table"]
Missing(c, slot) == slot \in DOMAIN Without /\ File(c, Without[slot]) = "absent"

\* What a loader makes of its own file: "fails", "loaded", "absent" or, of
\* levels it could not all read, "partial".
Made(c, slot) ==
  LET unread == trouble \/ File(c, slot) # "good"
  IN IF Missing(c, slot) THEN "absent"
     ELSE IF slot = "enemy_appearance_index" /\ unread THEN "partial"
     ELSE IF Needs(slot) # <<>> THEN "loaded"
     ELSE IF slot \in {"enemy_database", "char_skins"} /\ File(c, slot) = "absent" THEN "absent"
     ELSE IF unread THEN IF slot = "zone_table" THEN "absent" ELSE "fails"
     ELSE "loaded"

-----------------------------------------------------------------------------
(* A call.                                                                 *)

Call(c) ==
  /\ ~Busy(c)
  /\ view' = [view EXCEPT ![c] = generation]
  /\ \E slot \in Asked : Push(c, <<>>, slot)
  /\ UNCHANGED <<disk, value, holder, shown, loads>>

Free(c) == holder[view[c]][Slot(c)] = Nobody

Hit(c) ==
  /\ At(c, "enter") /\ Free(c) /\ value[view[c]][Slot(c)] # "none"
  /\ shown' = IF Slot(c) = "zone_table" /\ value[view[c]][Slot(c)] = "absent"
              THEN [shown EXCEPT ![Slot(c)] = FALSE] ELSE shown
  /\ Pop(c, FALSE)
  /\ UNCHANGED <<disk, value, holder, view, loads>>

Miss(c) ==
  /\ At(c, "enter") /\ Free(c) /\ value[view[c]][Slot(c)] = "none"
  /\ holder' = [holder EXCEPT ![view[c]][Slot(c)] = c]
  /\ stack' = [stack EXCEPT ![c][Len(stack[c])] =
       [@ EXCEPT !.phase = "load", !.todo = IF Missing(c, Slot(c)) THEN <<>> ELSE Needs(Slot(c))]]
  /\ UNCHANGED <<disk, value, view, shown, loads>>

Ask(c) ==
  /\ At(c, "load") /\ Top(c).todo # <<>>
  /\ Push(c, [stack[c] EXCEPT ![Len(stack[c])].todo = Tail(@)], Head(Top(c).todo))
  /\ UNCHANGED <<disk, value, holder, view, shown, loads>>

Loaded(c) ==
  /\ At(c, "load") /\ Top(c).todo = <<>>
  /\ LET made == Made(c, Slot(c)) IN
       /\ made # "fails"
       /\ value' = [value EXCEPT ![view[c]][Slot(c)] = made]
       /\ shown' = [shown EXCEPT ![Slot(c)] = ~(Slot(c) = "zone_table" /\ made = "absent")]
  /\ loads' = [loads EXCEPT ![view[c]][Slot(c)] = @ + 1]
  /\ holder' = [holder EXCEPT ![view[c]][Slot(c)] = Nobody]
  /\ Pop(c, FALSE)
  /\ UNCHANGED <<disk, view>>

Fails(c) == At(c, "failed") \/ (At(c, "load") /\ Top(c).todo = <<>> /\ Made(c, Slot(c)) = "fails")

LoadFails(c) ==
  /\ Fails(c)
  /\ holder' = [holder EXCEPT ![view[c]][Slot(c)] = Nobody]
  /\ shown' = [shown EXCEPT ![Slot(c)] = FALSE]
  /\ Pop(c, TRUE)
  /\ UNCHANGED <<disk, value, view, loads>>

\* A new generation is activated; nothing tells the counters.
Activate ==
  /\ generation < MaxGeneration
  /\ generation' = generation + 1
  /\ UNCHANGED <<files, trouble, value, holder, view, stack, shown, loads>>

Trouble ==
  /\ Troubles
  /\ trouble' = ~trouble
  /\ UNCHANGED <<generation, files, value, holder, view, stack, shown, loads>>

Step(c) == Hit(c) \/ Miss(c) \/ Ask(c) \/ Loaded(c) \/ LoadFails(c)
Next == Activate \/ Trouble \/ \E c \in Clients : Call(c) \/ Step(c)

\* A lock is passed on some time to each of those that wait for it.
Spec == Init /\ [][Next]_vars /\ \A c \in Clients : SF_vars(Step(c))

-----------------------------------------------------------------------------
(* Properties.                                                             *)

TypeOK ==
  /\ generation \in Generations /\ trouble \in BOOLEAN
  /\ value \in [Generations -> [Slots -> {"none", "loaded", "absent", "partial"}]]
  /\ holder \in [Generations -> [Slots -> Clients \cup {Nobody}]]
  /\ view \in [Clients -> Generations]
  /\ shown \in [Slots -> BOOLEAN]
  /\ \A c \in Clients : Len(stack[c]) <= 3
  /\ \A g \in Generations, s \in Slots, c \in Clients : holder[g][s] = c =>
       view[c] = g /\ \E k \in DOMAIN stack[c] : stack[c][k].slot = s

(* A table is parsed once per generation, however many calls want it at    *)
(* once and through whichever derived table they come.                     *)
OneLoad == \A g \in Generations, s \in Slots : loads[g][s] <= 1

(* A derived table is only kept when everything it was made from was read: *)
(* no call is answered from records of half a generation.                  *)
DerivedIsWhole ==
  \A g \in Generations, s \in Slots : value[g][s] = "loaded" =>
    \A k \in DOMAIN Needs(s) : value[g][Needs(s)[k]] = "loaded"

(* A failure is not kept: a slot is only remembered as empty, or with      *)
(* gaps, when the file is not there, or, of the zones, is no table.        *)
AbsenceIsReal ==
  \A g \in Generations, s \in Slots : value[g][s] \in {"absent", "partial"} =>
    IF s \in DOMAIN Without THEN files[g][Without[s]] = "absent" ELSE files[g][s] # "good"

\* A file that may be missing counts as loaded with no records; a missing
\* zone table does not.
Answers(s) ==
  \/ value[generation][s] \in {"loaded", "partial"}
  \/ value[generation][s] = "absent" /\ s # "zone_table"

(* The debug page shows as loaded what the active generation has loaded.   *)
DebugShowsActive == \A s \in Slots : shown[s] <=> Answers(s)

(* Every call returns: the loaders never wait for each other in a circle.  *)
CallsReturn == \A c \in Clients : Busy(c) ~> ~Busy(c)
=============================================================================
