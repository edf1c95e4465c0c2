---------------------------- MODULE Reservations ----------------------------
(* What the coordinator promises the publishers of the process: a dataset   *)
(* is held by at most one job, a job gives back everything it took at once, *)
(* and no job starts after the coordinator has closed.                      *)
CONSTANTS JobIds, Dataset
VARIABLES taken, closed
vars == <<taken, closed>>

Init == /\ taken = [i \in JobIds |-> {}]
        /\ closed = FALSE

Reserve(i, mask) ==
    /\ ~closed
    /\ mask # {} /\ taken[i] = {}
    /\ \A k \in JobIds : taken[k] \cap mask = {}
    /\ taken' = [taken EXCEPT ![i] = mask]
    /\ UNCHANGED closed

Release(i) == /\ taken[i] # {}
              /\ taken' = [taken EXCEPT ![i] = {}]
              /\ UNCHANGED closed

Close == closed' = TRUE /\ UNCHANGED taken

Next == \/ \E i \in JobIds, mask \in SUBSET Dataset : Reserve(i, mask)
        \/ \E i \in JobIds : Release(i)
        \/ Close

Spec == Init /\ [][Next]_vars
=============================================================================
