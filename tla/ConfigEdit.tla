----------------------------- MODULE ConfigEdit -----------------------------
(***************************************************************************)
(* `prtsctl config init | set | unset`: several editors of one file, an    *)
(* outside program that writes the same file without asking anybody, and   *)
(* processes that are killed.  An editor takes the lock beside the file,   *)
(* remembers the identity of the file, reads it, changes one field in      *)
(* memory, reads the result as a server would, writes a temporary file,    *)
(* compares the identity again and renames.  A preview does the same       *)
(* without lock and without writing.                                       *)
(***************************************************************************)
EXTENDS Configuration

CONSTANTS
    Editors,      \* editing processes, one command each
    Commands,     \* <<"init", force>>, <<"set", field, value>>, <<"unset", field>>
    Previews,     \* subset of BOOLEAN: whether --dry-run is tried
    First,        \* the file in the beginning
    ByHand,       \* what the outside program may leave behind
    MaxByHand,    \* how often it writes
    Shell,        \* the environment of the editors
    FileDir       \* the directory of the file


VARIABLES
    disk,      \* the file: what kind of thing it is, what it says, its identity
    lock,      \* the holder of the lock, as a set
    editor,    \* where each editor is
    byHand     \* writes of the outside program so far
vars == <<disk, lock, editor, byHand>>

Waiting == [pc |-> "idle", command |-> <<"init", FALSE>>, preview |-> FALSE,
            token |-> -1, draft |-> <<>>, raced |-> FALSE, hint |-> FALSE]

Init == /\ disk = [kind |-> First.kind, doc |-> First.doc, version |-> 1]
        /\ lock = {}
        /\ editor = [e \in Editors |-> Waiting]
        /\ byHand = 0

-----------------------------------------------------------------------------
(* A document that cannot be parsed has no fields to read. *)
Exists == disk.kind # "absent"
Token == IF Exists THEN disk.version ELSE 0

Key(c) == IF c[1] = "init" THEN {} ELSE {c[2]}

(* What is refused before anything is touched. *)
Acceptable(c) ==
    /\ disk.kind # "link"
    /\ c[1] = "set" => c[2] \in Fields \ Sensitive /\ FieldOk(c[2], c[3])
    /\ c[1] = "unset" => c[2] \in Fields
    /\ c[1] # "init" => disk.kind \in {"file", "broken"}

Changed(c, doc) ==
    CASE c[1] = "init"  -> <<>>
      [] c[1] = "set"   -> [k \in {c[2]} \cup DOMAIN doc |-> IF k = c[2] THEN c[3] ELSE doc[k]]
      [] c[1] = "unset" -> [k \in DOMAIN doc \ {c[2]} |-> doc[k]]

(* The whole file, not only the field, is read before it is published. *)
Reads(doc) == FileOk(doc) /\ SettingsOk(FileValues(FileDir, doc))

End(e, how) == /\ editor' = [editor EXCEPT ![e].pc = how]
               /\ lock' = lock \ {e}

Begin(e) ==
    /\ editor[e].pc = "idle"
    /\ \E c \in Commands, p \in Previews :
          editor' = [editor EXCEPT ![e] =
              [Waiting EXCEPT !.command = c, !.preview = p,
                  !.pc = IF ~Acceptable(c) THEN "refused" ELSE IF p THEN "look" ELSE "lock"]]
    /\ UNCHANGED <<disk, lock, byHand>>

(* Fault: the lock file is opened and not locked. *)
Lock(e) == /\ editor[e].pc = "lock" /\ lock = {}
           /\ lock' = {e}
           /\ editor' = [editor EXCEPT ![e].pc = "look"]
           /\ UNCHANGED <<disk, byHand>>

(* The file may have become a link while the editor waited. *)
Look(e) == /\ editor[e].pc = "look"
           /\ \/ disk.kind = "link" /\ End(e, "refused")
              \/ /\ disk.kind # "link"
                 /\ editor' = [editor EXCEPT ![e].pc = "read", ![e].token = Token]
                 /\ UNCHANGED lock
           /\ UNCHANGED <<disk, byHand>>

Read(e) ==
    LET c     == editor[e].command
        found == IF c[1] = "init" THEN ~Exists \/ c[2] ELSE disk.kind \in {"file", "link"}
        draft == IF found THEN Changed(c, disk.doc) ELSE <<>>
    IN  /\ editor[e].pc = "read"
        /\ \/ ~(found /\ Reads(draft)) /\ End(e, "refused")
           \/ /\ found /\ Reads(draft)
              /\ editor' = [editor EXCEPT ![e].draft = draft,
                    ![e].pc = IF editor[e].preview THEN "shown" ELSE "compare"]
              /\ UNCHANGED lock
        /\ UNCHANGED <<disk, byHand>>

(* The temporary file is complete; is the file still the one that was read? *)
FaultCompare(e) ==     \* Fault: the identity is not looked at again.
    /\ editor[e].pc = "compare"
    /\ editor' = [editor EXCEPT ![e].pc = "rename"]
    /\ UNCHANGED <<disk, lock, byHand>>
Compare(e) == /\ editor[e].pc = "compare"
              /\ \/ Token # editor[e].token /\ End(e, "raced")
                 \/ /\ Token = editor[e].token
                    /\ editor' = [editor EXCEPT ![e].pc = "rename"]
                    /\ UNCHANGED lock
              /\ UNCHANGED <<disk, byHand>>

Overridden(c) == Key(c) \cap DOMAIN Shell # {}

Rename(e) == /\ editor[e].pc = "rename"
             /\ disk' = [kind |-> "file", doc |-> editor[e].draft, version |-> disk.version + 1]
             /\ editor' = [editor EXCEPT ![e].pc = "done",
                              ![e].hint = Overridden(editor[e].command)]
             /\ lock' = lock \ {e}
             /\ UNCHANGED byHand

(* The disk refuses the temporary file, its flush or the rename. *)
WriteFails(e) == /\ editor[e].pc \in {"compare", "rename"}
                 /\ End(e, "failed")
                 /\ UNCHANGED <<disk, byHand>>

(* The kernel drops the lock of a process that dies. *)
Kill(e) == /\ editor[e].pc \in {"lock", "look", "read", "compare", "rename"}
           /\ End(e, "killed")
           /\ UNCHANGED <<disk, byHand>>

Outside == /\ byHand < MaxByHand
           /\ \E f \in ByHand : disk' = [kind |-> f.kind, doc |-> f.doc,
                                         version |-> disk.version + 1]
           /\ byHand' = byHand + 1
           /\ editor' = [e \in Editors |->
                 IF editor[e].pc = "rename" THEN [editor[e] EXCEPT !.raced = TRUE]
                 ELSE editor[e]]
           /\ UNCHANGED lock

Step(e) == Lock(e) \/ Look(e) \/ Read(e) \/ Compare(e) \/ Rename(e)
Next == Outside \/ \E e \in Editors : Begin(e) \/ Step(e) \/ WriteFails(e) \/ Kill(e)

(* A process runs until it ends or is killed; nobody has to start one. *)
Spec == Init /\ [][Next]_vars /\ \A e \in Editors : WF_vars(Step(e))

-----------------------------------------------------------------------------
Ended == {"shown", "refused", "raced", "failed", "killed", "done"}

TypeOK ==
    /\ disk.kind \in {"absent", "file", "broken", "link"}
    /\ disk.version \in 1..(1 + MaxByHand + Cardinality(Editors))
    /\ lock \subseteq Editors
    /\ \A e \in Editors :
          /\ editor[e].pc \in {"idle", "lock", "look", "read", "compare", "rename"} \cup Ended
          /\ editor[e].token \in -1..disk.version
          /\ e \in lock => editor[e].pc \in {"look", "read", "compare", "rename"}

(***************************************************************************)
(* A rename replaces the very file the editor looked at, whoever else was  *)
(* at work, unless the outside program wrote in the short time between the *)
(* comparison and the rename.                                              *)
(***************************************************************************)
EditsAreNotLost ==
    \A e \in Editors :
        editor[e].pc = "rename" /\ editor'[e].pc = "done" =>
            editor[e].raced \/ Token = editor[e].token

(***************************************************************************)
(* Edits accumulate: what an editor publishes differs from what was there  *)
(* in the field it was asked to change and in nothing else.  Only of a     *)
(* file that was there when the editor looked: none has no identity, and   *)
(* one that appears, is read and is gone again before the comparison comes *)
(* back with the edit.                                                     *)
(***************************************************************************)
OneFieldAtATime ==
    \A e \in Editors :
          /\ editor[e].pc = "rename" /\ editor'[e].pc = "done"
          /\ ~editor[e].raced /\ editor[e].command[1] # "init" /\ editor[e].token > 0
          => \A k \in Fields \ Key(editor[e].command) :
                OneOf(disk.doc, k) = OneOf(disk'.doc, k)

(***************************************************************************)
(* A file that only editors have touched starts a server: every field and  *)
(* all of them together.                                                   *)
(***************************************************************************)
EditedFileStarts ==
    byHand = 0 /\ disk.kind = "file" =>
        FileOk(disk.doc) /\ SettingsOk(FileValues(FileDir, disk.doc))

(***************************************************************************)
(* A preview, a refused command and a failed write leave the file alone.   *)
(***************************************************************************)
OnlyDoneWrites ==
    disk' # disk => \/ byHand' = byHand + 1
                    \/ \E e \in Editors : /\ editor[e].pc # "done" /\ editor'[e].pc = "done"
                                          /\ ~editor[e].preview

(***************************************************************************)
(* Every editor ends: the lock of a killed one does not stop the others.   *)
(***************************************************************************)
EditorsEnd == \A e \in Editors : editor[e].pc # "idle" ~> editor[e].pc \in Ended

(***************************************************************************)
(* What the administrator's guide says of the hint: a field that a         *)
(* variable of the shell overrides is named after the edit.                *)
(***************************************************************************)
HintIsTrue ==
    \A e \in Editors :
        editor[e].pc = "done" /\ editor[e].command[1] = "set" =>
            (editor[e].hint <=>
                SourceOf(<<>>, Shell, editor[e].draft, editor[e].command[2]) = "environment")
=============================================================================
