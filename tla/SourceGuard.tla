----------------------------- MODULE SourceGuard -----------------------------
(***************************************************************************)
(* Who owns a data directory (sync/source_guard.rs).  A process that       *)
(* synchronizes from a custom source binds an empty directory to it with a *)
(* marker before it writes anything; a process of the default source only  *)
(* looks whether a marker is there, takes no lock and leaves none.         *)
(* Readers look at the marker and never claim.  An action is one system    *)
(* call; a process may be killed between any two.                          *)
(***************************************************************************)
EXTENDS Naturals, FiniteSets

CONSTANTS
  Processes,
  Source,        \* process -> source
  Default,       \* the default source
  MaxCrashes     \* bound of the model

Sources == {Source[p] : p \in Processes}
Nobody == "nobody"

VARIABLES
  marker,    \* the source the marker names, or Nobody
  owner,     \* processes that hold the kernel lock of the directory
  data,      \* sources whose data is in the directory
  pc,
  served,    \* process -> sources whose data it has served
  stray,     \* has default data gone into a directory that was being bound, or was?
  crashes
vars == <<marker, owner, data, pc, served, stray, crashes>>

Init ==
  /\ marker = Nobody /\ owner = {}
  /\ data \in {{}, {Default}}       \* a legacy volume has no marker
  /\ pc = [p \in Processes |-> "idle"]
  /\ served = [p \in Processes |-> {}]
  /\ stray = FALSE /\ crashes = 0

Goes(p, where) == pc' = [pc EXCEPT ![p] = where]
IsDefault(p) == Source[p] = Default

\* check_marker: a marker of another source is an error, none is not.
Foreign(p) == marker \notin {Nobody, Source[p]}
Mine(p) == marker = Source[p]

-----------------------------------------------------------------------------
\* ensure, for the default source: a look, and the way is free.
Look(p) ==
  /\ pc[p] = "idle" /\ IsDefault(p)
  /\ Goes(p, IF Foreign(p) THEN "idle" ELSE "write")
  /\ UNCHANGED <<marker, owner, data, served, stray, crashes>>

\* For a custom source: the lock file, whose inode stays ...
Take(p) ==
  /\ pc[p] = "idle" /\ ~IsDefault(p)
  /\ owner = {}
  /\ owner' = {p} /\ Goes(p, "marker")
  /\ UNCHANGED <<marker, data, served, stray, crashes>>

\* ... then the marker ...
Check(p) ==
  /\ pc[p] = "marker"
  /\ Goes(p, IF Foreign(p) THEN "idle" ELSE IF Mine(p) THEN "write" ELSE "empty")
  /\ owner' = IF Foreign(p) \/ Mine(p) THEN owner \ {p} ELSE owner
  /\ UNCHANGED <<marker, data, served, stray, crashes>>

\* ... then whether anything else is there ...
Empty(p) ==
  /\ pc[p] = "empty"
  /\ Goes(p, IF data = {} THEN "bind" ELSE "idle")
  /\ owner' = IF data = {} THEN owner ELSE owner \ {p}
  /\ UNCHANGED <<marker, data, served, stray, crashes>>

\* ... and the marker is written, in one rename.
Bind(p) ==
  /\ pc[p] = "bind"
  /\ marker' = Source[p] /\ owner' = owner \ {p} /\ Goes(p, "write")
  /\ UNCHANGED <<data, served, stray, crashes>>

\* What the synchronizer then publishes.  One of the default source may have
\* looked long ago: the directory has found an owner meanwhile, or is about to.
Write(p) ==
  /\ pc[p] = "write"
  /\ data' = data \cup {Source[p]} /\ Goes(p, "idle")
  /\ stray' = (stray \/ (IsDefault(p) /\ (marker # Nobody \/ \E q \in Processes : pc[q] = "bind")))
  /\ UNCHANGED <<marker, owner, served, crashes>>

\* verify, before a view is resolved ...
Verify(p) ==
  /\ pc[p] = "idle"
  /\ Mine(p) \/ (marker = Nobody /\ IsDefault(p))
  /\ Goes(p, "resolve")
  /\ UNCHANGED <<marker, owner, data, served, stray, crashes>>

Resolve(p) ==
  /\ pc[p] = "resolve"
  /\ Goes(p, "again")
  /\ served' = [served EXCEPT ![p] = data]
  /\ UNCHANGED <<marker, owner, data, stray, crashes>>

\* ... and again after it.
Again(p) ==
  /\ pc[p] = "again"
  /\ LET kept == Mine(p) \/ (marker = Nobody /\ IsDefault(p))
     IN served' = [served EXCEPT ![p] = IF kept THEN @ ELSE {}]
  /\ Goes(p, "idle")
  /\ UNCHANGED <<marker, owner, data, stray, crashes>>

Kill(p) ==
  /\ crashes < MaxCrashes /\ pc[p] # "idle"
  /\ crashes' = crashes + 1
  /\ owner' = owner \ {p} /\ Goes(p, "idle")
  /\ served' = [served EXCEPT ![p] = {}]
  /\ UNCHANGED <<marker, data, stray>>

Ensure(p) == Look(p) \/ Take(p) \/ Check(p) \/ Empty(p) \/ Bind(p) \/ Write(p)
Next == \E p \in Processes : Ensure(p) \/ Verify(p) \/ Resolve(p) \/ Again(p) \/ Kill(p)
Spec == Init /\ [][Next]_vars

-----------------------------------------------------------------------------
(* Properties.                                                             *)

TypeOK ==
  /\ marker \in Sources \cup {Nobody} /\ owner \subseteq Processes /\ data \subseteq Sources \cup {Default}
  /\ pc \in [Processes -> {"idle", "marker", "empty", "bind", "write", "resolve", "again"}]

(* However the processes interleave and whichever of them are killed, the  *)
(* data of a custom source is only ever in a directory whose marker names  *)
(* it: two custom sources never share a directory, and custom data is      *)
(* never added to an unmarked volume.                                      *)
CustomIsMarked == \A s \in data \ {Default} : marker = s

(* A process is answered with the data of its own source: one of a custom  *)
(* source never with that of another one or of an unmarked volume, one of  *)
(* the default source never with custom data.  The exception is default    *)
(* data in a custom directory, and it takes a synchronizer of the default  *)
(* source, which takes no lock, that found no marker and wrote only after  *)
(* another process had found the directory empty to bind it.               *)
ServedIsMine ==
  \A p \in Processes : pc[p] # "again" =>
    served[p] \subseteq {Source[p]} \cup (IF stray THEN {Default} ELSE {})

(* A marker, once written, stays.                                          *)
MarkerIsFinal == marker # Nobody => marker' = marker
=============================================================================
