------------------------- MODULE GenerationPointer -------------------------
(***************************************************************************)
(* What the paired activation promises to a reader: one pointer to two     *)
(* archives of the same release.  Both switch in one step, to a newer      *)
(* release, and once something is published something stays published.     *)
(* -1 is "nothing published", 0 the data of the layout before releases.    *)
(*                                                                         *)
(* An archive and the record of its release are two files: once a failure  *)
(* has come between them ("whole" is FALSE), a label no longer tells the   *)
(* content, and only the last of these promises is left.                   *)
(***************************************************************************)
EXTENDS Integers

CONSTANT Last  \* the newest release there is

VARIABLES excel, levels, whole

Init == excel = -1 /\ levels = -1 /\ whole = TRUE

Publish(n) ==
  /\ whole
  /\ n > excel
  /\ excel' = n
  /\ levels' = n
  /\ UNCHANGED whole

Tear == whole' = FALSE /\ UNCHANGED <<excel, levels>>

Republish ==
  /\ ~whole
  /\ {excel', levels'} \subseteq 0..Last
  /\ UNCHANGED whole

Next == (\E n \in 0..Last : Publish(n)) \/ Tear \/ Republish

Spec == Init /\ [][Next]_<<excel, levels, whole>>
=============================================================================
