------------------------- MODULE DatabaseSyncProofs -------------------------
(***************************************************************************)
(* Proofs about the database directory, for any number of requests,        *)
(* readers, generations and faults: one writer at a time, pointers that    *)
(* resolve, no file removed under a reader, leased or not, and installed   *)
(* generations that are only replaced by later ones.                       *)
(***************************************************************************)
EXTENDS DatabaseSync, SequenceTheorems, TLAPS

Tries == {<<>>} \cup {<<p>> : p \in Pointer} \cup (Pointer \X Pointer)
Files(tries) == {tries[k].file : k \in DOMAIN tries}

-----------------------------------------------------------------------------
(* Values: a digest is never the empty one, a pointer always has a file.   *)
LEMMA Values ==
  /\ NoDigest \notin Digest
  /\ \A d \in Digest : Generation(d) \in Nat
  /\ NoPointer.file = 0 /\ Garbage.file = 0
  /\ \A p \in Pointer : p.file \in Slots /\ p.file # 0 /\ p.sha \in Digest
  /\ \A f \in Slots : f # 0 /\ f \in Nat
BY ConstantsAssumption DEF NoDigest, Digest, Generation, NoPointer, Garbage, Pointer

(* The candidates of a reader: their first, and what is left of them.      *)
LEMMA TriesFacts ==
  ASSUME NEW t \in Tries, t # <<>>
  PROVE  /\ Head(t) \in Pointer
         /\ Tail(t) \in Tries
         /\ <<Head(t)>> \in Tries
         /\ Head(t).file \in Files(t)
         /\ Files(Tail(t)) \subseteq Files(t)
         /\ Files(<<Head(t)>>) \subseteq Files(t)
         /\ <<Head(t)>> # <<>> /\ Head(<<Head(t)>>) = Head(t)
<1>1. CASE \E p \in Pointer : t = <<p>>
  <2> PICK p \in Pointer : t = <<p>>
    BY <1>1
  <2>1. Head(t) = p /\ Tail(t) = <<>>
    OBVIOUS
  <2> QED
    BY <2>1 DEF Tries, Files
<1>2. CASE \E p, q \in Pointer : t = <<p, q>>
  <2> PICK p \in Pointer, q \in Pointer : t = <<p, q>>
    BY <1>2
  <2>1. Head(t) = p /\ Tail(t) = <<q>>
    OBVIOUS
  <2> QED
    BY <2>1 DEF Tries, Files
<1> QED
  BY <1>1, <1>2 DEF Tries

LEMMA ConcatPair ==
  ASSUME NEW S, NEW a \in S, NEW b \in S
  PROVE  <<a>> \o <<b>> = <<a, b>>
<1>1. <<a>> \in Seq(S) /\ <<b>> \in Seq(S) /\ <<a, b>> \in Seq(S)
  OBVIOUS
<1>2. /\ <<a>> \o <<b>> \in Seq(S)
      /\ Len(<<a>> \o <<b>>) = Len(<<a>>) + Len(<<b>>)
      /\ \A i \in 1..Len(<<a>>) + Len(<<b>>) :
           (<<a>> \o <<b>>)[i] = IF i <= Len(<<a>>) THEN <<a>>[i] ELSE <<b>>[i - Len(<<a>>)]
  BY <1>1, ConcatProperties
<1>3. Len(<<a>>) = 1 /\ Len(<<b>>) = 1 /\ Len(<<a, b>>) = 2
  OBVIOUS
<1>4. (<<a>> \o <<b>>)[1] = a /\ (<<a>> \o <<b>>)[2] = b
  BY <1>2, <1>3
<1>5. \A c, d \in Seq(S) : Len(c) = 2 /\ Len(d) = 2 /\ c[1] = d[1] /\ c[2] = d[2] => c = d
  <2> TAKE c \in Seq(S), d \in Seq(S)
  <2> HAVE Len(c) = 2 /\ Len(d) = 2 /\ c[1] = d[1] /\ c[2] = d[2]
  <2>1. \A i \in 1..Len(c) : c[i] = d[i]
    OBVIOUS
  <2> QED
    BY <2>1, SeqEqual
<1>6. <<a, b>>[1] = a /\ <<a, b>>[2] = b
  OBVIOUS
<1>7. Len(<<a>> \o <<b>>) = 2
  BY <1>2, <1>3
<1> QED
  BY <1>1, <1>2, <1>3, <1>4, <1>5, <1>6, <1>7

(* The candidates of a reader when it has read both pointers.              *)
LEMMA NamedFacts ==
  ASSUME NEW p, p \in Pointer \/ p.file = 0,
         NEW t, t = <<>> \/ \E q \in Pointer : t = <<q>>
  PROVE  /\ Named(p) = <<>> \/ \E q \in Pointer : Named(p) = <<q>>
         /\ Named(p) \in Tries
         /\ t \o Named(p) \in Tries
         /\ \A f \in Files(Named(p)) : f = p.file /\ f # 0
         /\ \A f \in Files(t \o Named(p)) : f \in Files(t) \/ (f = p.file /\ f # 0)
<1>1. CASE p.file = 0
  <2>1. Named(p) = <<>>
    BY <1>1 DEF Named
  <2>2. t \o <<>> = t
    OBVIOUS
  <2> QED
    BY <2>1, <2>2 DEF Tries, Files
<1>2. CASE p.file # 0
  <2>0. p \in Pointer
    BY <1>2
  <2>1. Named(p) = <<p>>
    BY <1>2 DEF Named
  <2>2. t = <<>> => t \o <<p>> = <<p>>
    OBVIOUS
  <2>3. \A q \in Pointer : t = <<q>> => t \o <<p>> = <<q, p>>
    <3> TAKE q \in Pointer
    <3> QED
      BY <2>0, ConcatPair
  <2>4. /\ \A f \in Files(<<p>>) : f = p.file
        /\ \A q \in Pointer : \A f \in Files(<<q, p>>) : f \in Files(<<q>>) \/ f = p.file
    BY DEF Files
  <2>5. <<p>> \in Tries /\ \A q \in Pointer : <<q, p>> \in Tries
    BY <2>0 DEF Tries
  <2>6. t \o <<p>> \in Tries
    BY <2>2, <2>3, <2>5
  <2>7. \A f \in Files(t \o <<p>>) : f \in Files(t) \/ f = p.file
    BY <2>2, <2>3, <2>4
  <2> QED
    BY <1>2, <2>0, <2>1, <2>4, <2>5, <2>6, <2>7
<1> QED
  BY <1>1, <1>2

-----------------------------------------------------------------------------
(* Type correctness: a request past discovery wants a digest, one past its *)
(* publication or its check has a pointer, and a reader that tries a file  *)
(* has one to try.                                                         *)
Pointing == {"rename", "verify", "retract", "previous", "active", "prune", "unlease"}
Equipped(q) ==
  /\ q.pc \notin {"idle", "discover"} => q.want \in Digest
  /\ q.pc \in Pointing => q.ptr \in Pointer
  /\ q.pc = "unlease" => q.gone # 0
Trying(v) ==
  /\ v.pc = "second" => v.tries = <<>> \/ \E p \in Pointer : v.tries = <<p>>
  /\ v.pc \in {"lease", "check", "using"} => v.tries # <<>>

TypeInv ==
  /\ TypeOK
  /\ \A s \in Requests : Equipped(req[s])
  /\ \A r \in Readers : Trying(reader[r])

LEMMA RestingType ==
  /\ Resting \in Request /\ Equipped(Resting)
  /\ Away \in Reader /\ Trying(Away)
BY DEF Resting, Request, Blocking, Equipped, Pointing, Away, Reader, Trying

LEMMA TypeInit == Init => TypeInv
<1> SUFFICES ASSUME Init PROVE TypeInv
  OBVIOUS
<1>1. /\ req \in [Requests -> Request] /\ \A s \in Requests : Equipped(req[s])
      /\ reader \in [Readers -> Reader] /\ \A r \in Readers : Trying(reader[r])
  BY RestingType DEF Init
<1>2. /\ upstream \in Digest /\ calm \in BOOLEAN
      /\ files \in [Slots -> Digest \cup {NoDigest}]
  BY DEF Init
<1>3. faults \in 0..MaxFaults
  BY ConstantsAssumption DEF Init
<1>4. /\ damaged \subseteq Slots /\ leases \subseteq Slots
      /\ active \in Pointer \cup {NoPointer, Garbage} /\ previous \in Pointer \cup {NoPointer}
      /\ holders \subseteq Requests /\ stages \subseteq Requests
  BY DEF Init
<1> QED
  BY <1>1, <1>2, <1>3, <1>4 DEF TypeInv, TypeOK

(* One request writes its own record.                                      *)
LEMMA RequestUpdate ==
  ASSUME TypeInv, NEW s \in Requests, NEW x \in Request, Equipped(x),
         req' = [req EXCEPT ![s] = x]
  PROVE  req' \in [Requests -> Request] /\ \A t \in Requests : Equipped(req'[t])
BY DEF TypeInv, TypeOK

LEMMA ReaderUpdate ==
  ASSUME TypeInv, NEW r \in Readers, NEW x \in Reader, Trying(x),
         reader' = [reader EXCEPT ![r] = x]
  PROVE  reader' \in [Readers -> Reader] /\ \A t \in Readers : Trying(reader'[t])
BY DEF TypeInv, TypeOK

LEMMA TypeRequest ==
  ASSUME TypeInv, NEW s \in Requests,
         Begin(s) \/ Work(s) \/ Cancel(s) \/ Fail(s) \/ FailPrune(s) \/ Kill(s)
  PROVE  TypeInv'
<1> USE DEF world, disk
<1>q. req[s] \in Request /\ Equipped(req[s])
  BY DEF TypeInv, TypeOK
<1>f. ASSUME Fault PROVE faults' \in 0..MaxFaults
  BY <1>f, ConstantsAssumption DEF Fault, TypeInv, TypeOK
<1>u. UNCHANGED reader
  BY DEF Begin, Work, Discover, Prepare, Misjudge, Fetch, Download, CreateLease, Rename, Verify,
         Retract, SavePrevious, SaveActive, Prune, Unlease, End, Cancel, Fail, FailPrune, Kill
<1>r. reader' \in [Readers -> Reader] /\ \A r \in Readers : Trying(reader'[r])
  BY <1>u DEF TypeInv, TypeOK
\* A request that ends, or that goes on without touching the disk.
<1>l. ASSUME req' = [req EXCEPT ![s] = Resting]
      PROVE  req' \in [Requests -> Request] /\ \A t \in Requests : Equipped(req'[t])
  BY <1>l, RestingType, RequestUpdate
<1>g. ASSUME NEW x \in Request, Equipped(x), req' = [req EXCEPT ![s] = x]
      PROVE  req' \in [Requests -> Request] /\ \A t \in Requests : Equipped(req'[t])
  BY <1>g, RequestUpdate
<1>h. ASSUME NEW pc \in {"discover", "download"} \cup Blocking, Goto(s, pc),
             Equipped([req[s] EXCEPT !.pc = pc])
      PROVE  req' \in [Requests -> Request] /\ \A t \in Requests : Equipped(req'[t])
  <2>1. [req[s] EXCEPT !.pc = pc] \in Request
    BY <1>q DEF Request
  <2>2. req' = [req EXCEPT ![s] = [req[s] EXCEPT !.pc = pc]]
    BY <1>h DEF Goto
  <2> QED
    BY <2>1, <2>2, <1>h, RequestUpdate
<1>1. CASE Begin(s)
  <2>1. Equipped([req[s] EXCEPT !.pc = "discover"])
    BY <1>q DEF Equipped, Request, Pointing
  <2> QED
    BY <1>1, <1>h, <1>r, <2>1 DEF Begin, TypeInv, TypeOK
<1>2. CASE Discover(s)
  <2>1. CASE Leave(s)
    BY <1>2, <1>l, <1>r, <2>1 DEF Discover, Leave, TypeInv, TypeOK
  <2>2. CASE ~Leave(s)
    <3> DEFINE x == [req[s] EXCEPT !.pc = "prepare", !.want = upstream]
    <3>1. x \in Request /\ Equipped(x)
      BY <1>q DEF TypeInv, TypeOK, Request, Blocking, Equipped, Pointing
    <3>2. req' = [req EXCEPT ![s] = x]
      BY <1>2, <2>2 DEF Discover
    <3> HIDE DEF x
    <3>3. req' \in [Requests -> Request] /\ \A t \in Requests : Equipped(req'[t])
      BY <1>g, <3>1, <3>2
    <3> QED
      BY <1>2, <1>r, <2>2, <3>3 DEF Discover, TypeInv, TypeOK
  <2> QED
    BY <2>1, <2>2
<1>3. CASE Prepare(s) \/ Misjudge(s)
  <2>w. req[s].want \in Digest
    BY <1>3, <1>q DEF Prepare, Misjudge, Equipped
  <2>v. faults' \in 0..MaxFaults /\ stages' \subseteq Requests /\ holders' \subseteq Requests
    BY <1>3, <1>f DEF Prepare, Misjudge, Fetch, Leave, TypeInv, TypeOK
  <2>1. CASE Leave(s)
    BY <1>3, <1>l, <1>r, <2>v, <2>1 DEF Prepare, Misjudge, Leave, TypeInv, TypeOK
  <2>2. ASSUME Ready(s)
        PROVE  req' \in [Requests -> Request] /\ \A t \in Requests : Equipped(req'[t])
    <3> DEFINE x == [req[s] EXCEPT !.ptr = Local,
                       !.pc = IF active = Garbage THEN "previous" ELSE "prune",
                       !.todo = Obsolete(Local)]
    <3>0. Obsolete(Local) \subseteq Slots
      BY DEF Obsolete, TypeInv, TypeOK
    <3>1. Local \in Pointer
      BY <2>2 DEF Ready, Local, TypeInv, TypeOK
    <3> HIDE DEF Obsolete
    <3>2. x \in Request /\ Equipped(x)
      BY <1>q, <2>w, <3>0, <3>1 DEF TypeInv, TypeOK, Request, Blocking, Equipped, Pointing
    <3>3. req' = [req EXCEPT ![s] = x]
      BY <2>2 DEF Ready
    <3> HIDE DEF x
    <3> QED
      BY <1>g, <3>2, <3>3
  <2>3. ASSUME Cached(s)
        PROVE  req' \in [Requests -> Request] /\ \A t \in Requests : Equipped(req'[t])
    <3> PICK f \in Slots :
          req' = [req EXCEPT ![s].ptr = [file |-> f, sha |-> req[s].want],
                             ![s].pc = "previous"]
      BY <2>3 DEF Cached
    <3> DEFINE x == [req[s] EXCEPT !.ptr = [file |-> f, sha |-> req[s].want],
                                   !.pc = "previous"]
    <3>1. [file |-> f, sha |-> req[s].want] \in Pointer
      BY <2>w DEF Pointer
    <3>2. x \in Request /\ Equipped(x)
      BY <1>q, <2>w, <3>1 DEF TypeInv, TypeOK, Request, Blocking, Equipped, Pointing
    <3>3. req' = [req EXCEPT ![s] = x]
      OBVIOUS
    <3> HIDE DEF x
    <3> QED
      BY <1>g, <3>2, <3>3
  <2>4. ASSUME Goto(s, "download")
        PROVE  req' \in [Requests -> Request] /\ \A t \in Requests : Equipped(req'[t])
    <3>1. Equipped([req[s] EXCEPT !.pc = "download"])
      BY <1>q, <2>w DEF Equipped, Request, Pointing
    <3> QED
      BY <1>h, <2>4, <3>1
  <2> QED
    BY <1>3, <1>r, <2>v, <2>1, <2>2, <2>3, <2>4 DEF Prepare, Misjudge, Fetch, TypeInv, TypeOK
<1>4. CASE Download(s)
  <2>1. CASE Leave(s)
    BY <1>4, <1>l, <1>r, <2>1 DEF Download, Leave, TypeInv, TypeOK
  <2>2. CASE ~Leave(s)
    <3>1. Equipped([req[s] EXCEPT !.pc = "publish"])
      BY <1>4, <1>q DEF Download, Equipped, Request, Pointing
    <3> QED
      BY <1>4, <1>h, <1>r, <2>2, <3>1 DEF Download, TypeInv, TypeOK, Blocking
  <2> QED
    BY <2>1, <2>2
<1>5. CASE CreateLease(s)
  <2> PICK f \in Slots :
        /\ leases' = leases \cup {f}
        /\ req' = [req EXCEPT ![s].pc = "rename", ![s].ptr = [file |-> f, sha |-> req[s].want]]
    BY <1>5 DEF CreateLease
  <2> DEFINE x == [req[s] EXCEPT !.pc = "rename", !.ptr = [file |-> f, sha |-> req[s].want]]
  <2>1. req[s].want \in Digest
    BY <1>5, <1>q DEF CreateLease, Equipped
  <2>2. [file |-> f, sha |-> req[s].want] \in Pointer
    BY <2>1 DEF Pointer
  <2>3. x \in Request /\ Equipped(x)
    BY <1>q, <2>1, <2>2 DEF TypeInv, TypeOK, Request, Blocking, Equipped, Pointing
  <2>4. req' = [req EXCEPT ![s] = x]
    OBVIOUS
  <2> HIDE DEF x
  <2>5. req' \in [Requests -> Request] /\ \A t \in Requests : Equipped(req'[t])
    BY <1>g, <2>3, <2>4
  <2> QED
    BY <1>5, <1>r, <2>5 DEF CreateLease, TypeInv, TypeOK
<1>6. CASE Rename(s)
  <2>1. req[s].want \in Digest /\ req[s].ptr.file \in Slots
    BY <1>6, <1>q DEF Rename, Equipped, Pointing, Pointer
  <2>2. Equipped([req[s] EXCEPT !.pc = "verify"])
    BY <1>6, <1>q DEF Rename, Equipped, Request, Pointing
  <2>3. req' \in [Requests -> Request] /\ \A t \in Requests : Equipped(req'[t])
    BY <1>6, <1>h, <2>2 DEF Rename, Blocking
  <2>4. faults' \in 0..MaxFaults
    BY <1>6, ConstantsAssumption DEF Rename, TypeInv, TypeOK
  <2>5. files' \in [Slots -> Digest \cup {NoDigest}] /\ damaged' \subseteq Slots
    BY <1>6, <2>1 DEF Rename, TypeInv, TypeOK
  <2> QED
    BY <1>6, <1>r, <2>3, <2>4, <2>5 DEF Rename, TypeInv, TypeOK
<1>7. CASE Verify(s)
  <2>1. /\ Equipped([req[s] EXCEPT !.pc = "previous"])
        /\ Equipped([req[s] EXCEPT !.pc = "retract"])
    BY <1>7, <1>q DEF Verify, Equipped, Request, Pointing
  <2>2. req' \in [Requests -> Request] /\ \A t \in Requests : Equipped(req'[t])
    <3>1. CASE Opens(req[s].ptr)
      BY <1>7, <1>h, <2>1, <3>1 DEF Verify, Blocking
    <3>2. CASE ~Opens(req[s].ptr)
      BY <1>7, <1>h, <2>1, <3>2 DEF Verify, Blocking
    <3> QED
      BY <3>1, <3>2
  <2>3. faults' \in 0..MaxFaults
    BY <1>7, <1>f DEF Verify, TypeInv, TypeOK
  <2> QED
    BY <1>7, <1>r, <2>2, <2>3 DEF Verify, TypeInv, TypeOK
<1>8. CASE Retract(s)
  <2>1. CASE Leave(s)
    <3>1. leases' \subseteq Slots /\ damaged' \subseteq Slots
      BY <1>8 DEF Retract, TypeInv, TypeOK
    <3>2. files' \in [Slots -> Digest \cup {NoDigest}]
      BY <1>8 DEF Retract, TypeInv, TypeOK
    <3> QED
      BY <1>8, <1>l, <1>r, <2>1, <3>1, <3>2 DEF Retract, Leave, TypeInv, TypeOK
  <2>2. CASE ~Leave(s)
    BY <1>8, <1>r, <2>2 DEF Retract, TypeInv, TypeOK
  <2> QED
    BY <2>1, <2>2
<1>9. CASE SavePrevious(s)
  <2>1. Equipped([req[s] EXCEPT !.pc = "active"])
    BY <1>9, <1>q DEF SavePrevious, Equipped, Request, Pointing
  <2>2. req' \in [Requests -> Request] /\ \A t \in Requests : Equipped(req'[t])
    BY <1>9, <1>h, <2>1 DEF SavePrevious, Blocking
  <2>3. previous' \in Pointer \cup {NoPointer}
    BY <1>9, Values DEF SavePrevious, TypeInv, TypeOK
  <2> QED
    BY <1>9, <1>r, <2>2, <2>3 DEF SavePrevious, TypeInv, TypeOK
<1>10. CASE SaveActive(s)
  <2> DEFINE x == [req[s] EXCEPT !.pc = "prune", !.todo = Obsolete(req[s].ptr)]
  <2>0. Obsolete(req[s].ptr) \subseteq Slots
    BY DEF Obsolete, TypeInv, TypeOK
  <2>1. x \in Request /\ Equipped(x)
    BY <1>10, <1>q, <2>0 DEF SaveActive, TypeInv, TypeOK, Request, Blocking, Equipped, Pointing
  <2>2. req' = [req EXCEPT ![s] = x]
    BY <1>10 DEF SaveActive
  <2>3. active' \in Pointer
    BY <1>10, <1>q DEF SaveActive, Equipped, Pointing
  <2> HIDE DEF x
  <2>4. req' \in [Requests -> Request] /\ \A t \in Requests : Equipped(req'[t])
    BY <1>g, <2>1, <2>2
  <2> QED
    BY <1>10, <1>r, <2>3, <2>4 DEF SaveActive, TypeInv, TypeOK
<1>11. CASE Prune(s)
  <2> PICK f \in req[s].todo : Skip(s, f) \/ RemoveFile(s, f) \/ RemoveLease(s, f)
    BY <1>11 DEF Prune
  <2>0. f \in Slots
    BY <1>q DEF Request
  <2>1. CASE Skip(s, f)
    <3> DEFINE x == [req[s] EXCEPT !.todo = req[s].todo \ {f}]
    <3>1. x \in Request /\ Equipped(x)
      BY <1>11, <1>q DEF Prune, Request, Equipped, Pointing
    <3>2. req' = [req EXCEPT ![s] = x]
      BY <2>1, <1>q DEF Skip, TypeInv, TypeOK
    <3> HIDE DEF x
    <3>3. req' \in [Requests -> Request] /\ \A t \in Requests : Equipped(req'[t])
      BY <1>g, <3>1, <3>2
    <3> QED
      BY <1>11, <1>r, <2>1, <3>3 DEF Prune, Skip, TypeInv, TypeOK
  <2>2. CASE RemoveFile(s, f)
    <3> DEFINE x == [req[s] EXCEPT !.todo = req[s].todo \ {f}, !.gone = f, !.pc = "unlease"]
    <3>1. x \in Request /\ Equipped(x)
      BY <1>11, <1>q, <2>0, Values DEF Prune, Request, Blocking, Equipped, Pointing
    <3>2. req' = [req EXCEPT ![s] = x]
      BY <2>2, <1>q DEF RemoveFile, TypeInv, TypeOK
    <3> HIDE DEF x
    <3>3. req' \in [Requests -> Request] /\ \A t \in Requests : Equipped(req'[t])
      BY <1>g, <3>1, <3>2
    <3>4. files' \in [Slots -> Digest \cup {NoDigest}] /\ damaged' \subseteq Slots
      BY <2>0, <2>2 DEF RemoveFile, TypeInv, TypeOK
    <3> QED
      BY <1>11, <1>r, <2>2, <3>3, <3>4 DEF Prune, RemoveFile, TypeInv, TypeOK
  <2>3. CASE RemoveLease(s, f)
    <3> DEFINE x == [req[s] EXCEPT !.todo = req[s].todo \ {f}, !.gone = 0, !.pc = "prune"]
    <3>1. x \in Request /\ Equipped(x)
      BY <1>11, <1>q DEF Prune, Request, Blocking, Equipped, Pointing
    <3>2. req' = [req EXCEPT ![s] = x]
      BY <2>3, <1>q DEF RemoveLease, TypeInv, TypeOK
    <3> HIDE DEF x
    <3>3. req' \in [Requests -> Request] /\ \A t \in Requests : Equipped(req'[t])
      BY <1>g, <3>1, <3>2
    <3> QED
      BY <1>11, <1>r, <2>3, <3>3 DEF Prune, RemoveLease, TypeInv, TypeOK
  <2> QED
    BY <2>1, <2>2, <2>3
<1>12. CASE Unlease(s)
  <2> DEFINE f == req[s].gone
             x == [req[s] EXCEPT !.todo = req[s].todo \ {f}, !.gone = 0, !.pc = "prune"]
  <2>1. x \in Request /\ Equipped(x)
    BY <1>12, <1>q DEF Unlease, Request, Blocking, Equipped, Pointing
  <2>2. req' = [req EXCEPT ![s] = x]
    BY <1>12, <1>q DEF Unlease, RemoveLease, TypeInv, TypeOK
  <2> HIDE DEF x
  <2>3. req' \in [Requests -> Request] /\ \A t \in Requests : Equipped(req'[t])
    BY <1>g, <2>1, <2>2
  <2> QED
    BY <1>12, <1>r, <2>3 DEF Unlease, RemoveLease, TypeInv, TypeOK
<1>13. CASE End(s)
  BY <1>13, <1>l, <1>r DEF End, Leave, TypeInv, TypeOK
<1>14. CASE Cancel(s)
  <2>1. CASE Leave(s)
    BY <1>14, <1>l, <1>r, <2>1 DEF Cancel, Leave, TypeInv, TypeOK
  <2>2. CASE ~Leave(s)
    <3> DEFINE x == [req[s] EXCEPT !.dropped = TRUE]
    <3>1. x \in Request /\ Equipped(x)
      BY <1>q DEF Request, Equipped, Pointing
    <3>2. req' = [req EXCEPT ![s] = x]
      BY <1>14, <2>2 DEF Cancel
    <3> HIDE DEF x
    <3>3. req' \in [Requests -> Request] /\ \A t \in Requests : Equipped(req'[t])
      BY <1>g, <3>1, <3>2
    <3> QED
      BY <1>14, <1>r, <2>2, <3>3 DEF Cancel, TypeInv, TypeOK
  <2> QED
    BY <2>1, <2>2
<1>15. CASE Fail(s)
  BY <1>15, <1>f, <1>l, <1>r DEF Fail, Leave, TypeInv, TypeOK
<1>16. CASE FailPrune(s)
  <2>1. req' \in [Requests -> Request] /\ \A t \in Requests : Equipped(req'[t])
    <3>1. CASE req[s].pc = "prune"
      <4> PICK f \in Slots : req' = [req EXCEPT ![s].todo = @ \ {f}]
        BY <1>16, <1>q, <3>1 DEF FailPrune, Request, TypeInv, TypeOK
      <4> DEFINE x == [req[s] EXCEPT !.todo = req[s].todo \ {f}]
      <4>1. x \in Request /\ Equipped(x)
        BY <1>q DEF Request, Equipped, Pointing
      <4>2. req' = [req EXCEPT ![s] = x]
        BY DEF TypeInv, TypeOK
      <4> HIDE DEF x
      <4> QED
        BY <1>g, <4>1, <4>2
    <3>2. CASE req[s].pc # "prune"
      <4> DEFINE x == [req[s] EXCEPT !.pc = "prune", !.gone = 0]
      <4>1. x \in Request /\ Equipped(x)
        BY <1>16, <1>q, <3>2 DEF FailPrune, Request, Blocking, Equipped, Pointing
      <4>2. req' = [req EXCEPT ![s] = x]
        BY <1>16, <3>2 DEF FailPrune
      <4> HIDE DEF x
      <4> QED
        BY <1>g, <4>1, <4>2
    <3> QED
      BY <3>1, <3>2
  <2>2. leases' \subseteq Slots
    BY <1>16 DEF FailPrune, TypeInv, TypeOK
  <2> QED
    BY <1>16, <1>f, <1>r, <2>1, <2>2 DEF FailPrune, TypeInv, TypeOK
<1>17. CASE Kill(s)
  BY <1>17, <1>f, <1>l, <1>r DEF Kill, TypeInv, TypeOK
<1> QED
  BY <1>1, <1>2, <1>3, <1>4, <1>5, <1>6, <1>7, <1>8, <1>9, <1>10, <1>11, <1>12, <1>13,
     <1>14, <1>15, <1>16, <1>17 DEF Work

LEMMA TypeReader ==
  ASSUME TypeInv, NEW r \in Readers, Query(r)
  PROVE  TypeInv'
<1> USE DEF world, disk
<1>v. reader[r] \in Reader /\ reader[r].tries \in Tries /\ Trying(reader[r])
  BY DEF TypeInv, TypeOK, Reader, Tries
<1>p. /\ active \in Pointer \/ active.file = 0
      /\ previous \in Pointer \/ previous.file = 0
  BY Values DEF TypeInv, TypeOK
<1>u. UNCHANGED <<world, disk, holders, stages, req>>
  BY DEF Query, ReadActive, ReadPrevious, Open, Lease, Check, GiveUp, Close
<1>x. \E x \in Reader : Trying(x) /\ reader' = [reader EXCEPT ![r] = x]
  <2>1. CASE ReadActive(r)
    <3> DEFINE x == [reader[r] EXCEPT !.pc = "second", !.tries = Named(active)]
    <3>1. /\ Named(active) = <<>> \/ \E p \in Pointer : Named(active) = <<p>>
          /\ Named(active) \in Tries
      BY <1>p, NamedFacts
    <3>2. x \in Reader /\ Trying(x)
      BY <1>v, <3>1 DEF Reader, Trying, Tries
    <3> QED
      BY <2>1, <3>2 DEF ReadActive
  <2>2. CASE ReadPrevious(r)
    <3> DEFINE x == [reader[r] EXCEPT !.pc = "open",
                                      !.tries = reader[r].tries \o Named(previous)]
    <3>1. reader[r].tries = <<>> \/ \E p \in Pointer : reader[r].tries = <<p>>
      BY <1>v, <2>2 DEF ReadPrevious, Trying
    <3>2. reader[r].tries \o Named(previous) \in Tries
      BY <1>p, <3>1, NamedFacts
    <3>3. x \in Reader /\ Trying(x)
      BY <1>v, <3>2 DEF Reader, Trying, Tries
    <3> QED
      BY <2>2, <3>3 DEF ReadPrevious
  <2>3. CASE Open(r) \/ Lease(r) \/ Check(r)
    <3>1. reader[r].tries # <<>>
      BY <1>v, <2>3 DEF Open, Lease, Check, Trying
    <3>2. /\ Head(reader[r].tries) \in Pointer /\ Tail(reader[r].tries) \in Tries
          /\ <<Head(reader[r].tries)>> \in Tries /\ <<Head(reader[r].tries)>> # <<>>
      BY <1>v, <3>1, TriesFacts
    <3>3. Head(reader[r].tries).file \in Slots
      BY <3>2, Values
    <3>5. CASE Open(r)
      <4>1. CASE Present(Head(reader[r].tries).file)
        <5>1. reader' = [reader EXCEPT ![r] = [reader[r] EXCEPT !.pc = "lease"]]
          BY <3>5, <4>1, <1>v DEF Open, TypeInv, TypeOK
        <5>2. [reader[r] EXCEPT !.pc = "lease"] \in Reader
          BY <1>v DEF Reader
        <5>3. Trying([reader[r] EXCEPT !.pc = "lease"])
          BY <1>v, <3>1 DEF Reader, Trying
        <5> QED
          BY <5>1, <5>2, <5>3
      <4>2. CASE ~Present(Head(reader[r].tries).file)
        <5> DEFINE x == [reader[r] EXCEPT !.tries = Tail(reader[r].tries)]
        <5>1. reader' = [reader EXCEPT ![r] = x]
          BY <3>5, <4>2, <1>v DEF Open, TypeInv, TypeOK
        <5>2. x \in Reader
          BY <1>v, <3>2 DEF Reader, Tries
        <5>3. Trying(x)
          BY <3>5, <1>v DEF Open, Reader, Trying
        <5> QED
          BY <5>1, <5>2, <5>3
      <4> QED
        BY <4>1, <4>2
    <3>6. CASE Lease(r)
      <4> DEFINE f == Head(reader[r].tries).file
      <4>1. CASE Exclusive(f)
        <5> DEFINE x == [reader[r] EXCEPT !.pc = "open", !.tries = Tail(reader[r].tries)]
        <5>1. reader' = [reader EXCEPT ![r] = x]
          BY <3>6, <4>1, <1>v DEF Lease, TypeInv, TypeOK
        <5>2. x \in Reader
          BY <1>v, <3>2 DEF Reader, Tries
        <5>3. Trying(x)
          BY <1>v DEF Reader, Trying
        <5> QED
          BY <5>1, <5>2, <5>3
      <4>2. CASE ~Exclusive(f)
        <5> DEFINE x == [reader[r] EXCEPT !.pc = "check", !.pin = IF f \in leases THEN f ELSE 0]
        <5>1. reader' = [reader EXCEPT ![r] = x]
          BY <3>6, <4>2, <1>v DEF Lease, TypeInv, TypeOK
        <5>2. x \in Reader
          BY <1>v, <3>3 DEF Reader
        <5>3. Trying(x)
          BY <1>v, <3>1 DEF Reader, Trying
        <5> QED
          BY <5>1, <5>2, <5>3
      <4> QED
        BY <4>1, <4>2
    <3>7. CASE Check(r)
      <4>1. CASE Opens(Head(reader[r].tries))
        <5> DEFINE x == [reader[r] EXCEPT !.pc = "using", !.tries = <<Head(reader[r].tries)>>]
        <5>1. reader' = [reader EXCEPT ![r] = x]
          BY <3>7, <4>1, <1>v DEF Check, TypeInv, TypeOK
        <5>2. x \in Reader
          BY <1>v, <3>2 DEF Reader, Tries
        <5>3. Trying(x)
          BY <1>v, <3>2 DEF Reader, Trying
        <5> QED
          BY <5>1, <5>2, <5>3
      <4>2. CASE ~Opens(Head(reader[r].tries))
        <5> DEFINE x == [reader[r] EXCEPT !.pc = "open", !.pin = 0,
                                          !.tries = Tail(reader[r].tries)]
        <5>1. reader' = [reader EXCEPT ![r] = x]
          BY <3>7, <4>2, <1>v DEF Check, TypeInv, TypeOK
        <5>2. x \in Reader
          BY <1>v, <3>2 DEF Reader, Tries
        <5>3. Trying(x)
          BY <1>v DEF Reader, Trying
        <5> QED
          BY <5>1, <5>2, <5>3
      <4> QED
        BY <4>1, <4>2
    <3> QED
      BY <2>3, <3>5, <3>6, <3>7
  <2>4. CASE GiveUp(r) \/ Close(r)
    BY <2>4, RestingType DEF GiveUp, Close
  <2> QED
    BY <2>1, <2>2, <2>3, <2>4 DEF Query
<1>y. reader' \in [Readers -> Reader] /\ \A t \in Readers : Trying(reader'[t])
  BY <1>x, ReaderUpdate
<1> QED
  BY <1>u, <1>y DEF TypeInv, TypeOK

LEMMA TypeWorld ==
  ASSUME TypeInv, Upstream \/ (\E f \in Slots : Damage(f)) \/ Corrupt \/ Calm
  PROVE  TypeInv'
<1> USE DEF world, disk, TypeInv, TypeOK
<1>f. ASSUME Fault PROVE faults' \in 0..MaxFaults
  BY <1>f, ConstantsAssumption DEF Fault
<1>1. CASE Upstream
  BY <1>1 DEF Upstream
<1>2. ASSUME NEW f \in Slots, Damage(f) PROVE TypeInv'
  BY <1>2, <1>f DEF Damage
<1>3. CASE Corrupt
  BY <1>3, <1>f DEF Corrupt
<1>4. CASE Calm
  BY <1>4 DEF Calm
<1> QED
  BY <1>1, <1>2, <1>3, <1>4

LEMMA TypeStep == TypeInv /\ [Next]_vars => TypeInv'
<1> SUFFICES ASSUME TypeInv, [Next]_vars PROVE TypeInv'
  OBVIOUS
<1>1. CASE UNCHANGED vars
  BY <1>1 DEF vars, world, disk, TypeInv, TypeOK, Equipped, Trying
<1>2. CASE Next
  BY <1>2, TypeRequest, TypeReader, TypeWorld DEF Next
<1> QED
  BY <1>1, <1>2

(* Everything a request, a reader or the world writes keeps its type.      *)
THEOREM TypeCorrect == Spec => []TypeOK
<1>1. TypeInv => TypeOK
  BY DEF TypeInv
<1> QED
  BY <1>1, TypeInit, TypeStep, PTL DEF Spec

-----------------------------------------------------------------------------
(* The directory.                                                          *)

\* Nobody reads, or is about to read, file f.
Unread(f) == \A r \in Readers : reader[r].pin # f /\ f \notin Files(reader[r].tries)

\* Nothing newer than what s wants, or else than it, is active.
NotNewer(s) ==
  active.file # 0 => active.sha = req[s].want \/ Generation(active.sha) < Generation(req[s].want)

(* What a request knows of the directory, by where it is: what it wants is *)
(* not older than what is active; a file it is publishing is known to      *)
(* nobody; a file it points at, or cleans around, is there; and what it    *)
(* cleans away no pointer names.                                           *)
Working(s) ==
  LET pc == req[s].pc
      ptr == req[s].ptr
  IN /\ pc \in {"download", "publish", "rename", "verify", "previous", "active"} => NotNewer(s)
     /\ pc \in {"rename", "verify", "previous", "active"} => ptr.sha = req[s].want
     /\ pc \in {"rename", "verify", "retract"}
          => ptr.file \notin {active.file, previous.file} /\ Unread(ptr.file)
     /\ pc \in {"previous", "active", "prune", "unlease"} => files[ptr.file] = ptr.sha
     /\ pc \in {"prune", "unlease"} =>
          /\ active.file \in {0, ptr.file}
          /\ \A f \in req[s].todo : f \notin {ptr.file, previous.file}
     /\ pc = "unlease" => ~Present(req[s].gone)

(* What a reader knows: it holds the lease of the file it looks at, or     *)
(* that file has none, and then no cleanup will remove it.                 *)
Reading(r) ==
  LET f == Head(reader[r].tries).file
  IN /\ reader[r].pc = "check" => reader[r].pin = f \/ f \notin leases
     /\ reader[r].pc = "using" => (reader[r].pin = f \/ f \notin leases) /\ Present(f)

(* The inductive invariant.                                                *)
DirectoryInv ==
  /\ TypeInv
  /\ holders = {s \in Requests : req[s].pc # "idle"}
  /\ WriterIsAlone
  /\ PointersResolve
  /\ \A s \in Requests : Working(s)
  /\ \A r \in Readers : Reading(r)

LEMMA DirectoryInit == Init => DirectoryInv
<1> SUFFICES ASSUME Init PROVE DirectoryInv
  OBVIOUS
<1>1. \A s \in Requests : req[s].pc = "idle"
  BY DEF Init, Resting
<1>2. \A r \in Readers : reader[r].pc = "idle"
  BY DEF Init, Away
<1>3. holders = {s \in Requests : req[s].pc # "idle"} /\ WriterIsAlone
  BY <1>1 DEF Init, WriterIsAlone
<1>4. PointersResolve
  BY DEF Init, PointersResolve, NoPointer, Present
<1>5. \A s \in Requests : Working(s)
  BY <1>1 DEF Working
<1>6. \A r \in Readers : Reading(r)
  BY <1>2 DEF Reading
<1> QED
  BY <1>3, <1>4, <1>5, <1>6, TypeInit DEF DirectoryInv

(* A request that acts is, or becomes, the only one that is not at rest.   *)
LEMMA OthersRest ==
  ASSUME DirectoryInv, NEW s \in Requests,
         Begin(s) \/ Work(s) \/ Cancel(s) \/ Fail(s) \/ FailPrune(s) \/ Kill(s)
  PROVE  /\ \A t \in Requests \ {s} : req[t].pc = "idle"
         /\ Begin(s) \/ (req[s].pc # "idle" /\ s \in holders)
         /\ UNCHANGED reader
<1>1. CASE Begin(s)
  BY <1>1 DEF Begin, DirectoryInv
<1>2. CASE ~Begin(s)
  <2>1. req[s].pc # "idle"
    BY <1>2 DEF Work, Discover, Prepare, Misjudge, Fetch, Download, CreateLease, Rename, Verify,
         Retract, SavePrevious, SaveActive, Prune, Unlease, End, Cancel, Fail, FailPrune, Kill
  <2>2. UNCHANGED reader
    BY <1>2 DEF Work, Discover, Prepare, Misjudge, Fetch, Download, CreateLease, Rename, Verify,
         Retract, SavePrevious, SaveActive, Prune, Unlease, End, Cancel, Fail, FailPrune, Kill
  <2> QED
    BY <2>1, <2>2 DEF DirectoryInv, WriterIsAlone
<1> QED
  BY <1>1, <1>2

(* So only its own record, and what holds of the directory, is at stake.   *)
LEMMA Settled ==
  ASSUME DirectoryInv, TypeInv', NEW s \in Requests,
         \A t \in Requests \ {s} : req[t].pc = "idle" /\ req'[t] = req[t],
         holders' = {t \in Requests : req'[t].pc # "idle"},
         req'[s].pc \in {"download", "publish", "rename"} => s \in stages',
         PointersResolve', Working(s)', \A r \in Readers : Reading(r)'
  PROVE  DirectoryInv'
<1>1. WriterIsAlone'
  BY DEF WriterIsAlone
<1>2. \A t \in Requests : Working(t)'
  BY DEF Working
<1> QED
  BY <1>1, <1>2 DEF DirectoryInv

(* A request that ends, whatever it leaves behind.                         *)
LEMMA Ended ==
  ASSUME DirectoryInv, TypeInv', NEW s \in Requests,
         \A t \in Requests \ {s} : req[t].pc = "idle",
         req' = [req EXCEPT ![s] = Resting], holders' = holders \ {s},
         PointersResolve', \A r \in Readers : Reading(r)'
  PROVE  DirectoryInv'
<1>1. req \in [Requests -> Request]
  BY DEF DirectoryInv, TypeInv, TypeOK
<1>2. req'[s].pc = "idle" /\ \A t \in Requests \ {s} : req'[t] = req[t]
  BY <1>1 DEF Resting
<1>3. holders' = {t \in Requests : req'[t].pc # "idle"}
  BY <1>2 DEF DirectoryInv
<1>4. Working(s)'
  BY <1>2 DEF Working
<1> QED
  BY <1>2, <1>3, <1>4, Settled

(* What does not depend on what a request does to its own record.          *)
LEMMA SameDisk ==
  ASSUME DirectoryInv, UNCHANGED <<files, leases, active, previous, reader>>
  PROVE  /\ PointersResolve' /\ \A r \in Readers : Reading(r)'
         /\ \A f : Unread(f)' <=> Unread(f)
         /\ \A f : Present(f)' <=> Present(f)
BY DEF DirectoryInv, PointersResolve, Reading, Unread, Present

(* A request that is admitted to download, or to point at a stored file,   *)
(* wants nothing older than what is active.                                *)
LEMMA Admitted ==
  ASSUME TypeInv, NEW want \in Digest, ~Downgrade(want), ~Conflict(want), active.file # 0
  PROVE  active.sha = want \/ Generation(active.sha) < Generation(want)
<1>1. active \in Pointer /\ active # Garbage /\ active # NoPointer
  BY Values DEF TypeInv, TypeOK
<1>2. Local = active
  BY <1>1 DEF Local
<1>3. Generation(active.sha) \in Nat /\ Generation(want) \in Nat
  BY <1>1, Values
<1> QED
  BY <1>1, <1>2, <1>3 DEF Downgrade, Conflict

(* A request that goes on, from one step to the next.                      *)
LEMMA GoesOn ==
  ASSUME DirectoryInv, TypeInv', NEW s \in Requests, NEW x, x.pc # "idle",
         req[s].pc # "idle", \A t \in Requests \ {s} : req[t].pc = "idle",
         req' = [req EXCEPT ![s] = x], UNCHANGED holders,
         x.pc \in {"download", "publish", "rename"} => s \in stages',
         PointersResolve', Working(s)', \A r \in Readers : Reading(r)'
  PROVE  DirectoryInv'
<1>1. req \in [Requests -> Request]
  BY DEF DirectoryInv, TypeInv, TypeOK
<1>2. req'[s] = x /\ \A t \in Requests \ {s} : req'[t] = req[t]
  BY <1>1
<1>3. holders' = {t \in Requests : req'[t].pc # "idle"}
  BY <1>2 DEF DirectoryInv
<1> QED
  BY <1>2, <1>3, Settled

(* The steps that leave pointers, files and leases alone.                  *)
LEMMA DirectoryQuiet ==
  ASSUME DirectoryInv, NEW s \in Requests,
         \/ Begin(s) \/ Discover(s) \/ Prepare(s) \/ Misjudge(s) \/ Download(s)
         \/ Verify(s) \/ End(s) \/ Cancel(s) \/ Fail(s) \/ Kill(s)
  PROVE  DirectoryInv'
<1>a. TypeInv /\ TypeInv' /\ req \in [Requests -> Request] /\ Equipped(req[s])
      /\ req[s] \in Request
  BY TypeRequest DEF DirectoryInv, Work, TypeInv, TypeOK
<1>b. /\ \A t \in Requests \ {s} : req[t].pc = "idle"
      /\ Begin(s) \/ req[s].pc # "idle"
      /\ UNCHANGED reader
  BY OthersRest DEF Work
<1>c. UNCHANGED <<files, damaged, leases, active, previous>>
  BY DEF Begin, Discover, Prepare, Misjudge, Download, Verify, End, Cancel, Fail, Kill,
         disk
<1>d. /\ PointersResolve' /\ \A r \in Readers : Reading(r)'
      /\ \A f : Unread(f)' <=> Unread(f)
      /\ \A f : Present(f)' <=> Present(f)
  BY <1>b, <1>c, SameDisk
<1>w. Working(s)
  BY DEF DirectoryInv
<1>l. ASSUME req' = [req EXCEPT ![s] = Resting], holders' = holders \ {s}
      PROVE  DirectoryInv'
  BY <1>a, <1>b, <1>d, <1>l, Ended
<1>m. ASSUME Leave(s) PROVE DirectoryInv'
  BY <1>l, <1>m DEF Leave
<1>g. ASSUME NEW x, x.pc # "idle", req' = [req EXCEPT ![s] = x], req[s].pc # "idle",
             UNCHANGED holders,
             x.pc \in {"download", "publish", "rename"} => s \in stages', Working(s)'
      PROVE  DirectoryInv'
  BY <1>a, <1>b, <1>d, <1>g, GoesOn
<1>1. CASE Begin(s)
  <2>1. req'[s].pc = "discover" /\ \A t \in Requests \ {s} : req'[t] = req[t]
    BY <1>1, <1>a DEF Begin, Goto
  <2>2. holders' = {t \in Requests : req'[t].pc # "idle"}
    BY <1>1, <1>b, <2>1 DEF Begin
  <2>3. Working(s)'
    BY <2>1 DEF Working
  <2> QED
    BY <1>a, <1>b, <1>d, <2>1, <2>2, <2>3, Settled
<1>2. CASE Discover(s)
  <2>1. CASE ~Leave(s)
    <3> DEFINE x == [req[s] EXCEPT !.pc = "prepare", !.want = upstream]
    <3>1. req' = [req EXCEPT ![s] = x] /\ UNCHANGED holders
      BY <1>2, <2>1 DEF Discover
    <3>2. x.pc = "prepare" /\ req[s].pc # "idle"
      BY <1>2, <1>a DEF Discover, Request
    <3>3. Working(s)'
      BY <1>a, <3>1, <3>2 DEF Working
    <3> HIDE DEF x
    <3> QED
      BY <1>g, <3>1, <3>2, <3>3
  <2> QED
    BY <1>m, <2>1
<1>3. CASE Prepare(s) \/ Misjudge(s)
  <2> DEFINE want == req[s].want
  <2>0. req[s].pc = "prepare" /\ want \in Digest
    BY <1>3, <1>a DEF Prepare, Misjudge, Equipped
  <2>1. ASSUME ~Leave(s) PROVE ~Downgrade(want) /\ ~Conflict(want)
    BY <1>3, <2>1 DEF Prepare, Misjudge
  <2>2. ASSUME ~Leave(s), active.file # 0
        PROVE  active.sha = want \/ Generation(active.sha) < Generation(want)
    BY <1>a, <2>0, <2>1, <2>2, Admitted
  <2>3. CASE Ready(s) /\ UNCHANGED <<holders, stages>> /\ ~Leave(s)
    <3> DEFINE x == [req[s] EXCEPT !.ptr = Local,
                       !.pc = IF active = Garbage THEN "previous" ELSE "prune",
                       !.todo = Obsolete(Local)]
    <3>1. req' = [req EXCEPT ![s] = x] /\ UNCHANGED holders
      BY <2>3 DEF Ready
    <3>2. /\ x.pc = IF active = Garbage THEN "previous" ELSE "prune"
          /\ x.ptr = Local /\ x.want = want /\ x.todo = Obsolete(Local)
      BY <1>a DEF Request
    <3>3. req'[s] = x
      BY <1>a, <3>1
    <3>4. files[Local.file] = Local.sha /\ Local.sha = want
      BY <2>3 DEF Ready, Opens, Intact
    <3>5. active = Garbage => active.file = 0
      BY Values
    <3>6. active # Garbage => Local = active
      BY DEF Local
    <3>8. \A f \in Obsolete(Local) : f \notin {Local.file, previous.file}
      BY DEF Obsolete
    <3> HIDE DEF x
    <3>7. Working(s)'
      BY <1>c, <2>2, <2>3, <3>2, <3>3, <3>4, <3>5, <3>6, <3>8 DEF Working, NotNewer
    <3> QED
      BY <1>g, <2>0, <3>1, <3>2, <3>7
  <2>4. CASE Cached(s) /\ UNCHANGED <<holders, stages>> /\ ~Leave(s)
    <3> PICK f \in Slots :
          /\ Intact(f, want)
          /\ req' = [req EXCEPT ![s].ptr = [file |-> f, sha |-> want], ![s].pc = "previous"]
      BY <2>4 DEF Cached
    <3> DEFINE x == [req[s] EXCEPT !.ptr = [file |-> f, sha |-> want], !.pc = "previous"]
    <3>1. req' = [req EXCEPT ![s] = x]
      OBVIOUS
    <3>2. x.pc = "previous" /\ x.ptr = [file |-> f, sha |-> want] /\ x.want = want
      BY <1>a DEF Request
    <3>3. req'[s] = x
      BY <1>a, <3>1
    <3>4. files[f] = want
      BY DEF Intact
    <3> HIDE DEF x
    <3>5. Working(s)'
      BY <1>c, <2>2, <2>4, <3>2, <3>3, <3>4 DEF Working, NotNewer
    <3> QED
      BY <1>g, <2>0, <2>4, <3>1, <3>2, <3>5
  <2>5. CASE Goto(s, "download") /\ stages' = stages \cup {s} /\ UNCHANGED holders /\ ~Leave(s)
    <3> DEFINE x == [req[s] EXCEPT !.pc = "download"]
    <3>1. req' = [req EXCEPT ![s] = x]
      BY <2>5 DEF Goto
    <3>2. x.pc = "download" /\ x.want = want
      BY <1>a DEF Request
    <3>3. req'[s] = x
      BY <1>a, <3>1
    <3> HIDE DEF x
    <3>4. Working(s)'
      BY <1>c, <2>2, <2>5, <3>2, <3>3 DEF Working, NotNewer
    <3> QED
      BY <1>g, <2>0, <2>5, <3>1, <3>2, <3>4
  <2> QED
    BY <1>3, <1>m, <2>3, <2>4, <2>5 DEF Prepare, Misjudge, Fetch
<1>4. CASE Download(s)
  <2>1. CASE ~Leave(s)
    <3> DEFINE x == [req[s] EXCEPT !.pc = "publish"]
    <3>1. req' = [req EXCEPT ![s] = x] /\ UNCHANGED <<holders, stages>>
      BY <1>4, <2>1 DEF Download, Goto
    <3>2. x.pc = "publish" /\ x.want = req[s].want
      BY <1>a DEF Request
    <3>3. req'[s] = x
      BY <1>a, <3>1
    <3>4. req[s].pc = "download"
      BY <1>4 DEF Download
    <3>5. s \in stages
      BY <3>4 DEF DirectoryInv, WriterIsAlone
    <3> HIDE DEF x
    <3>6. Working(s)'
      BY <1>c, <1>w, <3>2, <3>3, <3>4 DEF Working, NotNewer
    <3> QED
      BY <1>g, <3>1, <3>2, <3>4, <3>5, <3>6
  <2> QED
    BY <1>m, <2>1
<1>5. CASE Verify(s)
  <2> PICK pc \in {"previous", "retract"} :
        Goto(s, pc) /\ (pc = "previous" => Opens(req[s].ptr))
    BY <1>5 DEF Verify
  <2> DEFINE x == [req[s] EXCEPT !.pc = pc]
  <2>1. req' = [req EXCEPT ![s] = x] /\ UNCHANGED <<holders, stages>>
    BY <1>5 DEF Verify, Goto
  <2>2. x.pc = pc /\ x.want = req[s].want /\ x.ptr = req[s].ptr
    BY <1>a DEF Request
  <2>3. req'[s] = x
    BY <1>a, <2>1
  <2>4. req[s].pc = "verify"
    BY <1>5 DEF Verify
  <2>5. Opens(req[s].ptr) => files[req[s].ptr.file] = req[s].ptr.sha
    BY DEF Opens, Intact
  <2> HIDE DEF x
  <2>6. Working(s)'
    BY <1>c, <1>d, <1>w, <2>2, <2>3, <2>4, <2>5 DEF Working, NotNewer
  <2> QED
    BY <1>g, <2>1, <2>2, <2>4, <2>6
<1>6. CASE End(s)
  BY <1>6, <1>m DEF End
<1>7. CASE Cancel(s)
  <2>1. CASE ~Leave(s)
    <3> DEFINE x == [req[s] EXCEPT !.dropped = TRUE]
    <3>1. req' = [req EXCEPT ![s] = x] /\ UNCHANGED <<holders, stages>> /\ req[s].pc # "idle"
      BY <1>7, <2>1 DEF Cancel
    <3>2. /\ x.pc = req[s].pc /\ x.want = req[s].want /\ x.ptr = req[s].ptr
          /\ x.gone = req[s].gone /\ x.todo = req[s].todo
      BY <1>a DEF Request
    <3>3. req'[s] = x
      BY <1>a, <3>1
    <3>4. req[s].pc \in {"download", "publish", "rename"} => s \in stages
      BY DEF DirectoryInv, WriterIsAlone
    <3> HIDE DEF x
    <3>5. Working(s)'
      BY <1>c, <1>d, <1>w, <3>2, <3>3 DEF Working, NotNewer
    <3> QED
      BY <1>g, <3>1, <3>2, <3>4, <3>5
  <2> QED
    BY <1>m, <2>1
<1>8. CASE Fail(s)
  BY <1>8, <1>m DEF Fail
<1>9. CASE Kill(s)
  BY <1>9, <1>l DEF Kill
<1> QED
  BY <1>1, <1>2, <1>3, <1>4, <1>5, <1>6, <1>7, <1>8, <1>9

(* Publication: a fresh file gets a lease, then its bytes, or both go.     *)
LEMMA DirectoryPublish ==
  ASSUME DirectoryInv, NEW s \in Requests, CreateLease(s) \/ Rename(s) \/ Retract(s)
  PROVE  DirectoryInv'
<1>a. TypeInv /\ TypeInv' /\ req \in [Requests -> Request] /\ Equipped(req[s])
      /\ req[s] \in Request
  BY TypeRequest DEF DirectoryInv, Work, TypeInv, TypeOK
<1>b. \A t \in Requests \ {s} : req[t].pc = "idle"
  BY OthersRest DEF Work
<1>c. UNCHANGED <<active, previous, reader>>
  BY DEF CreateLease, Rename, Retract
<1>w. Working(s) /\ PointersResolve /\ \A r \in Readers : Reading(r)
  BY DEF DirectoryInv
<1>v. \A r \in Readers : /\ reader[r].tries \in Tries
                         /\ reader[r].pc \in {"check", "using"} => reader[r].tries # <<>>
  BY <1>a DEF TypeInv, TypeOK, Reader, Tries, Trying
\* The file a reader looks at is one of its candidates.
<1>h. \A r \in Readers : reader[r].pc \in {"check", "using"}
        => Head(reader[r].tries).file \in Files(reader[r].tries)
  BY <1>v, TriesFacts
<1>f. files \in [Slots -> Digest \cup {NoDigest}]
  BY <1>a DEF TypeInv, TypeOK
<1>1. CASE CreateLease(s)
  <2> PICK f \in Slots :
        /\ Fresh(f)
        /\ leases' = leases \cup {f}
        /\ req' = [req EXCEPT ![s].pc = "rename", ![s].ptr = [file |-> f, sha |-> req[s].want]]
    BY <1>1 DEF CreateLease
  <2> DEFINE x == [req[s] EXCEPT !.pc = "rename", !.ptr = [file |-> f, sha |-> req[s].want]]
  <2>1. req' = [req EXCEPT ![s] = x]
    OBVIOUS
  <2>2. x.pc = "rename" /\ x.ptr = [file |-> f, sha |-> req[s].want] /\ x.want = req[s].want
    BY <1>a DEF Request
  <2>3. req'[s] = x
    BY <1>a, <2>1
  <2>4. req[s].pc = "publish" /\ UNCHANGED <<files, damaged, holders, stages>>
    BY <1>1 DEF CreateLease
  <2>5. s \in stages
    BY <2>4 DEF DirectoryInv, WriterIsAlone
  <2>6. f \notin {active.file, previous.file} /\ Unread(f)
    BY DEF Fresh, Unused, Unread, Files
  <2> HIDE DEF x
  <2>7. Working(s)'
    <3>1. NotNewer(s)'
      BY <1>c, <1>w, <2>2, <2>3, <2>4 DEF Working, NotNewer
    <3>2. f \notin {active.file, previous.file}' /\ Unread(f)'
      BY <1>c, <2>6 DEF Unread
    <3> QED
      BY <2>2, <2>3, <3>1, <3>2 DEF Working
  <2>8. PointersResolve'
    BY <1>c, <1>w, <2>4 DEF PointersResolve, Present
  <2>9. \A r \in Readers : Reading(r)'
    BY <1>c, <1>h, <1>w, <2>4, <2>6 DEF Reading, Unread, Present
  <2> QED
    BY <1>a, <1>b, <2>1, <2>2, <2>4, <2>5, <2>7, <2>8, <2>9, GoesOn
<1>2. CASE Rename(s)
  <2> DEFINE f == req[s].ptr.file
             x == [req[s] EXCEPT !.pc = "verify"]
  <2>1. /\ req' = [req EXCEPT ![s] = x] /\ UNCHANGED <<leases, holders, stages>>
        /\ files' = [files EXCEPT ![f] = req[s].want]
        /\ req[s].pc = "rename"
    BY <1>2 DEF Rename, Goto
  <2>2. x.pc = "verify" /\ x.ptr = req[s].ptr /\ x.want = req[s].want
    BY <1>a DEF Request
  <2>3. req'[s] = x
    BY <1>a, <2>1
  <2>4. f \notin {active.file, previous.file} /\ Unread(f)
    BY <1>w, <2>1 DEF Working
  <2>5. \A g \in Slots \ {f} : files'[g] = files[g]
    BY <1>f, <2>1
  <2>6. active.file \in Slots \cup {0} /\ previous.file \in Slots \cup {0}
    BY <1>a, Values DEF TypeInv, TypeOK
  <2> HIDE DEF x
  <2>7. Working(s)'
    BY <1>c, <1>w, <2>1, <2>2, <2>3 DEF Working, NotNewer, Unread
  <2>8. PointersResolve'
    BY <1>c, <1>w, <2>4, <2>5, <2>6 DEF PointersResolve
  <2>9. \A r \in Readers : Reading(r)'
    <3> TAKE r \in Readers
    <3>1. reader[r].pc \in {"check", "using"} => Head(reader[r].tries).file \in Slots \ {f}
      BY <1>h, <1>v, <2>4, TriesFacts, Values DEF Unread
    <3> QED
      BY <1>c, <1>w, <2>1, <2>5, <3>1 DEF Reading, Present
  <2> QED
    BY <1>a, <1>b, <2>1, <2>2, <2>7, <2>8, <2>9, GoesOn
<1>3. CASE Retract(s)
  <2> DEFINE f == req[s].ptr.file
  <2>1. req[s].pc = "retract" /\ f \in Slots
    BY <1>3, <1>a, Values DEF Retract, Equipped, Pointing
  <2>2. f \notin {active.file, previous.file} /\ Unread(f)
    BY <1>w, <2>1 DEF Working
  <2>3. CASE ~Leave(s)
    <3>1. /\ files' = [files EXCEPT ![f] = NoDigest]
          /\ UNCHANGED <<leases, holders, stages, req>>
      BY <1>3, <2>3 DEF Retract
    <3>2. \A g \in Slots \ {f} : files'[g] = files[g]
      BY <1>f, <3>1
    <3>3. active.file \in Slots \cup {0} /\ previous.file \in Slots \cup {0}
      BY <1>a, Values DEF TypeInv, TypeOK
    <3>4. PointersResolve'
      BY <1>c, <1>w, <2>2, <3>2, <3>3 DEF PointersResolve
    <3>6. \A r \in Readers : Reading(r)'
      <4> TAKE r \in Readers
      <4>1. reader[r].pc \in {"check", "using"} => Head(reader[r].tries).file \in Slots \ {f}
        BY <1>h, <1>v, <2>2, TriesFacts, Values DEF Unread
      <4> QED
        BY <1>c, <1>w, <3>1, <3>2, <4>1 DEF Reading, Present
    <3>7. Working(s)'
      BY <1>c, <1>w, <2>1, <3>1 DEF Working, Unread
    <3>8. holders' = {t \in Requests : req'[t].pc # "idle"}
      BY <3>1 DEF DirectoryInv
    <3> QED
      BY <1>a, <1>b, <2>1, <3>1, <3>4, <3>6, <3>7, <3>8, Settled
  <2>4. CASE Leave(s)
    <3>1. leases' \subseteq leases /\ UNCHANGED files
      <4>1. \A t \in Requests : req[t].pc = "retract" => req[t] # Resting
        BY DEF Resting
      <4> QED
        BY <1>3, <1>a, <2>1, <2>4, <4>1 DEF Retract, Leave
    <3>2. PointersResolve'
      BY <1>c, <1>w, <3>1 DEF PointersResolve
    <3>3. \A r \in Readers : Reading(r)'
      BY <1>c, <1>w, <3>1 DEF Reading, Present
    <3> QED
      BY <1>a, <1>b, <2>4, <3>2, <3>3, Ended DEF Leave
  <2> QED
    BY <2>3, <2>4
<1> QED
  BY <1>1, <1>2, <1>3

(* Activation: the pointers take over files that are there.                *)
LEMMA DirectoryActivate ==
  ASSUME DirectoryInv, NEW s \in Requests, SavePrevious(s) \/ SaveActive(s)
  PROVE  DirectoryInv'
<1>a. TypeInv /\ TypeInv' /\ req \in [Requests -> Request] /\ req[s] \in Request
  BY TypeRequest DEF DirectoryInv, Work, TypeInv, TypeOK
<1>b. \A t \in Requests \ {s} : req[t].pc = "idle"
  BY OthersRest DEF Work
<1>c. UNCHANGED <<files, leases, holders, stages, reader>>
  BY DEF SavePrevious, SaveActive
<1>w. Working(s) /\ PointersResolve /\ \A r \in Readers : Reading(r)
  BY DEF DirectoryInv
<1>d. \A r \in Readers : Reading(r)'
  BY <1>c, <1>w DEF Reading, Present
<1>1. CASE SavePrevious(s)
  <2> DEFINE x == [req[s] EXCEPT !.pc = "active"]
  <2>1. req' = [req EXCEPT ![s] = x] /\ req[s].pc = "previous" /\ UNCHANGED active
    BY <1>1 DEF SavePrevious, Goto
  <2>2. x.pc = "active" /\ x.ptr = req[s].ptr /\ x.want = req[s].want
    BY <1>a DEF Request
  <2>3. req'[s] = x
    BY <1>a, <2>1
  <2>4. previous' \in {active, previous}
    BY <1>1 DEF SavePrevious
  <2>5. PointersResolve'
    BY <1>c, <1>w, <2>1, <2>4 DEF PointersResolve
  <2> HIDE DEF x
  <2>6. Working(s)'
    BY <1>c, <1>w, <2>1, <2>2, <2>3 DEF Working, NotNewer
  <2> QED
    BY <1>a, <1>b, <1>c, <1>d, <2>1, <2>2, <2>5, <2>6, GoesOn
<1>2. CASE SaveActive(s)
  <2> DEFINE x == [req[s] EXCEPT !.pc = "prune", !.todo = Obsolete(req[s].ptr)]
  <2>1. /\ req' = [req EXCEPT ![s] = x] /\ req[s].pc = "active"
        /\ active' = req[s].ptr /\ UNCHANGED previous
    BY <1>2 DEF SaveActive
  <2>2. x.pc = "prune" /\ x.ptr = req[s].ptr /\ x.todo = Obsolete(req[s].ptr)
    BY <1>a DEF Request
  <2>3. req'[s] = x
    BY <1>a, <2>1
  <2>4. PointersResolve'
    BY <1>c, <1>w, <2>1 DEF PointersResolve, Working
  <2>6. \A f \in Obsolete(req[s].ptr) : f \notin {req[s].ptr.file, previous.file}
    BY DEF Obsolete
  <2> HIDE DEF x
  <2>5. Working(s)'
    BY <1>c, <1>w, <2>1, <2>2, <2>3, <2>6 DEF Working
  <2> QED
    BY <1>a, <1>b, <1>c, <1>d, <2>1, <2>2, <2>4, <2>5, GoesOn
<1> QED
  BY <1>1, <1>2

(* Cleanup: no pointer names, and no reader holds, what is removed.        *)
LEMMA DirectoryClean ==
  ASSUME DirectoryInv, NEW s \in Requests, Prune(s) \/ Unlease(s) \/ FailPrune(s)
  PROVE  DirectoryInv'
<1>a. TypeInv /\ TypeInv' /\ req \in [Requests -> Request] /\ req[s] \in Request
  BY TypeRequest DEF DirectoryInv, Work, TypeInv, TypeOK
<1>b. \A t \in Requests \ {s} : req[t].pc = "idle"
  BY OthersRest DEF Work
<1>c. UNCHANGED <<active, previous, holders, stages, reader>>
  BY DEF Prune, Unlease, FailPrune
<1>w. Working(s) /\ PointersResolve /\ \A r \in Readers : Reading(r)
  BY DEF DirectoryInv
<1>f. files \in [Slots -> Digest \cup {NoDigest}]
  BY <1>a DEF TypeInv, TypeOK
<1>s. req[s].pc \in {"prune", "unlease"}
  BY DEF Prune, Unlease, FailPrune
\* A lease may go: who holds it or lacks it goes on as before.
<1>l. ASSUME UNCHANGED files, leases' \subseteq leases,
             req'[s].pc = "prune", req'[s].ptr = req[s].ptr, req'[s].todo \subseteq req[s].todo,
             \A t \in Requests \ {s} : req'[t] = req[t]
      PROVE  DirectoryInv'
  <2>1. PointersResolve' /\ \A r \in Readers : Reading(r)'
    BY <1>c, <1>l, <1>w DEF PointersResolve, Reading, Present
  <2>2. Working(s)'
    BY <1>c, <1>s, <1>l, <1>w DEF Working
  <2>3. holders' = {t \in Requests : req'[t].pc # "idle"}
    BY <1>c, <1>s, <1>l DEF DirectoryInv
  <2> QED
    BY <1>a, <1>b, <1>l, <2>1, <2>2, <2>3, Settled
<1>m. ASSUME NEW f, RemoveLease(s, f) PROVE DirectoryInv'
  <2>1. /\ leases' \subseteq leases /\ UNCHANGED files
        /\ req'[s].pc = "prune" /\ req'[s].ptr = req[s].ptr /\ req'[s].todo \subseteq req[s].todo
        /\ \A t \in Requests \ {s} : req'[t] = req[t]
    BY <1>a, <1>m DEF RemoveLease, Request
  <2> QED
    BY <1>l, <2>1
<1>1. CASE Prune(s)
  <2> PICK f \in req[s].todo :
        \/ ~Removable(f) /\ Skip(s, f)
        \/ Removable(f) /\ Present(f) /\ RemoveFile(s, f)
        \/ Removable(f) /\ ~Present(f) /\ RemoveLease(s, f)
    BY <1>1 DEF Prune
  <2>0. req[s].pc = "prune" /\ f \in Slots
    BY <1>1, <1>a DEF Prune, Request
  <2>1. CASE Skip(s, f)
    <3>1. /\ req'[s].pc = "prune" /\ req'[s].ptr = req[s].ptr /\ req'[s].todo \subseteq req[s].todo
          /\ \A t \in Requests \ {s} : req'[t] = req[t]
          /\ UNCHANGED <<files, leases>>
      BY <1>a, <2>0, <2>1 DEF Skip, Request
    <3> QED
      BY <1>l, <3>1
  <2>2. CASE Removable(f) /\ Present(f) /\ RemoveFile(s, f)
    <3>1. /\ req'[s].pc = "unlease" /\ req'[s].ptr = req[s].ptr /\ req'[s].gone = f
          /\ req'[s].todo \subseteq req[s].todo
          /\ \A t \in Requests \ {s} : req'[t] = req[t]
          /\ files' = [files EXCEPT ![f] = NoDigest] /\ UNCHANGED leases
      BY <1>a, <2>0, <2>2 DEF RemoveFile, Request
    <3>2. /\ f \notin {req[s].ptr.file, previous.file, active.file} /\ f \in leases
          /\ \A r \in Readers : reader[r].pin # f
      BY <1>w, <2>0, <2>2, Values DEF Removable, Pinned, Working
    <3>3. files'[f] = NoDigest /\ \A g \in Slots \ {f} : files'[g] = files[g]
      BY <1>f, <2>0, <3>1
    <3>4. /\ active.file \in Slots \cup {0} /\ previous.file \in Slots \cup {0}
          /\ req[s].ptr \in Pointer /\ req[s].ptr.file \in Slots
      BY <1>a, <2>0, Values DEF TypeInv, TypeOK, Equipped, Pointing
    <3>5. PointersResolve'
      BY <1>c, <1>w, <3>2, <3>3, <3>4 DEF PointersResolve
    <3>6. \A r \in Readers : Reading(r)'
      <4> TAKE r \in Readers
      <4> DEFINE g == Head(reader[r].tries).file
      <4>1. reader[r].pc = "using" => g # f /\ g \in Slots
        <5>1. reader[r].pc = "using" => reader[r].tries \in Tries /\ reader[r].tries # <<>>
          BY <1>a DEF TypeInv, TypeOK, Reader, Tries, Trying
        <5>2. reader[r].pc = "using" => Head(reader[r].tries) \in Pointer
          BY <5>1, TriesFacts
        <5>3. reader[r].pc = "using" => g \in Slots
          BY <5>2, Values
        <5>4. reader[r].pc = "using" => reader[r].pin = g \/ g \notin leases
          BY <1>w DEF Reading
        <5> QED
          BY <3>2, <5>3, <5>4
      <4> QED
        BY <1>c, <1>w, <3>1, <3>3, <4>1 DEF Reading, Present
    <3>7. Working(s)'
      BY <1>c, <1>w, <2>0, <3>1, <3>2, <3>3, <3>4 DEF Working, Present
    <3>8. holders' = {t \in Requests : req'[t].pc # "idle"}
      BY <1>c, <1>s, <3>1 DEF DirectoryInv
    <3> QED
      BY <1>a, <1>b, <3>1, <3>5, <3>6, <3>7, <3>8, Settled
  <2> QED
    BY <1>m, <2>1, <2>2
<1>2. CASE Unlease(s)
  BY <1>2, <1>m DEF Unlease
<1>3. CASE FailPrune(s)
  <2>1. /\ UNCHANGED files /\ leases' \subseteq leases
        /\ req'[s].pc = "prune" /\ req'[s].ptr = req[s].ptr /\ req'[s].todo \subseteq req[s].todo
        /\ \A t \in Requests \ {s} : req'[t] = req[t]
    BY <1>3, <1>a DEF FailPrune, Request
  <2> QED
    BY <1>l, <2>1
<1> QED
  BY <1>1, <1>2, <1>3

(* A reader comes to know no file but those the pointers name, pins none   *)
(* but one it knows, and is admitted with the lease in its hands, if the   *)
(* file has one.                                                           *)
LEMMA ReaderLearns ==
  ASSUME DirectoryInv, NEW r \in Readers, Query(r)
  PROVE  /\ \A t \in Readers \ {r} : reader'[t] = reader[t]
         /\ \A f \in Files(reader'[r].tries) :
              f \in Files(reader[r].tries) \/ f \in {active.file, previous.file}
         /\ reader'[r].pin \in {reader[r].pin, 0} \cup Files(reader[r].tries)
         /\ LET f == Head(reader'[r].tries).file
            IN /\ reader'[r].pc = "check" => reader'[r].pin = f \/ f \notin leases
               /\ reader'[r].pc = "using" =>
                    (reader'[r].pin = f \/ f \notin leases) /\ Present(f)
<1>a. TypeInv /\ reader \in [Readers -> Reader] /\ reader[r] \in Reader /\ Trying(reader[r])
  BY DEF DirectoryInv, TypeInv, TypeOK
<1>v. reader[r].tries \in Tries
  BY <1>a DEF Reader, Tries
<1>p. /\ active \in Pointer \/ active.file = 0
      /\ previous \in Pointer \/ previous.file = 0
  BY <1>a, Values DEF TypeInv, TypeOK
<1>i. Reading(r)
  BY DEF DirectoryInv
<1>t. \A t \in Readers \ {r} : reader'[t] = reader[t]
  BY <1>a DEF Query, ReadActive, ReadPrevious, Open, Lease, Check, GiveUp, Close
<1>1. CASE ReadActive(r)
  <2>1. /\ reader'[r].pc = "second" /\ reader'[r].tries = Named(active)
        /\ reader'[r].pin = reader[r].pin
    BY <1>1, <1>a DEF ReadActive, Reader
  <2>2. \A f \in Files(Named(active)) : f = active.file
    BY <1>p, NamedFacts
  <2> QED
    BY <1>t, <2>1, <2>2
<1>2. CASE ReadPrevious(r)
  <2>1. /\ reader'[r].pc = "open" /\ reader'[r].tries = reader[r].tries \o Named(previous)
        /\ reader'[r].pin = reader[r].pin
    BY <1>2, <1>a DEF ReadPrevious, Reader
  <2>2. reader[r].tries = <<>> \/ \E p \in Pointer : reader[r].tries = <<p>>
    BY <1>2, <1>a DEF ReadPrevious, Trying
  <2>3. \A f \in Files(reader[r].tries \o Named(previous)) :
          f \in Files(reader[r].tries) \/ f = previous.file
    BY <1>p, <2>2, NamedFacts
  <2> QED
    BY <1>t, <2>1, <2>3
<1>3. CASE Open(r) \/ Lease(r) \/ Check(r)
  <2> DEFINE tries == reader[r].tries
             p == Head(tries)
  <2>0. tries # <<>>
    BY <1>3, <1>a DEF Open, Lease, Check, Trying
  <2>1. /\ p \in Pointer /\ p.file \in Files(tries) /\ p.file \in Slots
        /\ Files(Tail(tries)) \subseteq Files(tries) /\ Files(<<p>>) \subseteq Files(tries)
        /\ Head(<<p>>) = p
    BY <1>v, <2>0, TriesFacts, Values
  <2>2. CASE Open(r)
    <3>1. /\ reader'[r].pc \in {"lease", "open"} /\ reader'[r].tries \in {tries, Tail(tries)}
          /\ reader'[r].pin = reader[r].pin
      <4>1. CASE Present(p.file)
        BY <1>a, <2>2, <4>1 DEF Open, Reader
      <4>2. CASE ~Present(p.file)
        BY <1>a, <2>2, <4>2 DEF Open, Reader
      <4> QED
        BY <4>1, <4>2
    <3> QED
      BY <1>t, <2>1, <3>1
  <2>3. CASE Lease(r)
    <3>1. CASE Exclusive(p.file)
      <4>1. /\ reader'[r].pc = "open" /\ reader'[r].tries = Tail(tries)
            /\ reader'[r].pin = reader[r].pin
        BY <1>a, <2>3, <3>1 DEF Lease, Reader
      <4> QED
        BY <1>t, <2>1, <4>1
    <3>2. CASE ~Exclusive(p.file)
      <4>1. /\ reader'[r].pc = "check" /\ reader'[r].tries = tries
            /\ reader'[r].pin = IF p.file \in leases THEN p.file ELSE 0
        BY <1>a, <2>3, <3>2 DEF Lease, Reader
      <4> QED
        BY <1>t, <2>1, <4>1
    <3> QED
      BY <3>1, <3>2
  <2>4. CASE Check(r)
    <3>1. CASE Opens(p)
      <4>1. /\ reader'[r].pc = "using" /\ reader'[r].tries = <<p>>
            /\ reader'[r].pin = reader[r].pin
        BY <1>a, <2>4, <3>1 DEF Check, Reader
      <4>2. Present(p.file)
        BY <3>1 DEF Opens, Intact
      <4>3. reader[r].pin = p.file \/ p.file \notin leases
        BY <1>i, <2>4 DEF Check, Reading
      <4> QED
        BY <1>t, <2>1, <4>1, <4>2, <4>3
    <3>2. CASE ~Opens(p)
      <4>1. /\ reader'[r].pc = "open" /\ reader'[r].tries = Tail(tries)
            /\ reader'[r].pin = 0
        BY <1>a, <2>4, <3>2 DEF Check, Reader
      <4> QED
        BY <1>t, <2>1, <4>1
    <3> QED
      BY <3>1, <3>2
  <2> QED
    BY <1>3, <2>2, <2>3, <2>4
<1>4. CASE GiveUp(r) \/ Close(r)
  <2>1. reader'[r] = Away
    BY <1>4, <1>a DEF GiveUp, Close
  <2> QED
    BY <1>t, <2>1 DEF Away, Files
<1> QED
  BY <1>1, <1>2, <1>3, <1>4 DEF Query

LEMMA DirectoryReader ==
  ASSUME DirectoryInv, NEW r \in Readers, Query(r)
  PROVE  DirectoryInv'
<1>a. TypeInv' /\ UNCHANGED <<files, damaged, leases, active, previous, holders, stages, req>>
  BY TypeReader
     DEF DirectoryInv, Query, ReadActive, ReadPrevious, Open, Lease, Check, GiveUp, Close, disk
<1>b. \A f \in Slots : Unread(f) /\ f \notin {active.file, previous.file} => Unread(f)'
  <2> SUFFICES ASSUME NEW f \in Slots, Unread(f), f \notin {active.file, previous.file},
                      NEW t \in Readers
               PROVE  reader'[t].pin # f /\ f \notin Files(reader'[t].tries)
    BY DEF Unread
  <2>1. f # 0
    BY Values
  <2>2. reader[t].pin # f /\ f \notin Files(reader[t].tries)
    BY DEF Unread
  <2>3. t # r => reader'[t] = reader[t]
    BY ReaderLearns
  <2>4. /\ \A g \in Files(reader'[r].tries) :
             g \in Files(reader[r].tries) \/ g \in {active.file, previous.file}
        /\ reader'[r].pin \in {reader[r].pin, 0} \cup Files(reader[r].tries)
    BY ReaderLearns
  <2> QED
    BY <2>1, <2>2, <2>3, <2>4
<1>c. \A s \in Requests : Working(s)'
  <2> TAKE s \in Requests
  <2>1. Working(s) /\ Equipped(req[s])
    BY DEF DirectoryInv, TypeInv
  <2>2. req[s].pc \in {"rename", "verify", "retract"} => Unread(req[s].ptr.file)'
    <3>1. SUFFICES ASSUME req[s].pc \in {"rename", "verify", "retract"}
                   PROVE  Unread(req[s].ptr.file)'
      OBVIOUS
    <3> DEFINE f == req[s].ptr.file
    <3>2. f \in Slots /\ Unread(f) /\ f \notin {active.file, previous.file}
      BY <2>1, <3>1, Values DEF Working, Equipped, Pointing
    <3>3. f' = f
      BY <1>a
    <3> QED
      BY <1>b, <3>2, <3>3
  <2> QED
    BY <1>a, <2>1, <2>2 DEF Working, NotNewer, Present
<1>d. \A t \in Readers : Reading(t)'
  <2> TAKE t \in Readers
  <2>1. CASE t = r
    BY <1>a, <2>1, ReaderLearns DEF Reading, Present
  <2>2. CASE t # r
    <3>1. reader'[t] = reader[t]
      BY <2>2, ReaderLearns
    <3> QED
      BY <1>a, <3>1 DEF DirectoryInv, Reading, Present
  <2> QED
    BY <2>1, <2>2
<1> QED
  BY <1>a, <1>c, <1>d DEF DirectoryInv, WriterIsAlone, PointersResolve, Present

LEMMA DirectoryWorld ==
  ASSUME DirectoryInv, Upstream \/ (\E f \in Slots : Damage(f)) \/ Corrupt \/ Calm
  PROVE  DirectoryInv'
<1>a. TypeInv' /\ UNCHANGED <<files, leases, holders, stages, req, reader>>
  BY TypeWorld DEF DirectoryInv, Upstream, Damage, Corrupt, Calm, disk
<1>b. /\ active' = active \/ active'.file = 0
      /\ previous' = previous \/ previous'.file = 0
  BY Values DEF Upstream, Damage, Corrupt, Calm, disk
<1>c. PointersResolve'
  BY <1>a, <1>b DEF DirectoryInv, PointersResolve, Present
<1>d. \A s \in Requests : Working(s)'
  <2> TAKE s \in Requests
  <2>1. Working(s) /\ Equipped(req[s])
    BY DEF DirectoryInv, TypeInv
  <2>2. req[s].pc \in Pointing => req[s].ptr.file # 0
    BY <2>1, Values DEF Equipped
  <2>3. NotNewer(s) => NotNewer(s)'
    BY <1>a, <1>b DEF NotNewer
  <2>4. \A f : Unread(f) => Unread(f)'
    BY <1>a DEF Unread
  <2>5. \A f \in req[s].todo : f # 0
    BY Values DEF DirectoryInv, TypeInv, TypeOK, Request
  <2> QED
    BY <1>a, <1>b, <2>1, <2>2, <2>3, <2>4, <2>5 DEF Working, Pointing, Present
<1>e. \A r \in Readers : Reading(r)'
  BY <1>a DEF DirectoryInv, Reading, Present
<1> QED
  BY <1>a, <1>c, <1>d, <1>e DEF DirectoryInv, WriterIsAlone

LEMMA DirectoryStep == DirectoryInv /\ [Next]_vars => DirectoryInv'
<1> SUFFICES ASSUME DirectoryInv, [Next]_vars PROVE DirectoryInv'
  OBVIOUS
<1>1. CASE UNCHANGED vars
  <2>1. UNCHANGED <<files, damaged, leases, active, previous, holders, stages, req, reader>>
    BY <1>1 DEF vars, disk
  <2>2. TypeInv'
    BY <1>1, TypeStep DEF DirectoryInv
  <2>3. \A s \in Requests : Working(s)'
    BY <2>1 DEF DirectoryInv, Working, NotNewer, Unread, Present
  <2>4. \A r \in Readers : Reading(r)'
    BY <2>1 DEF DirectoryInv, Reading, Present
  <2> QED
    BY <2>1, <2>2, <2>3, <2>4
       DEF DirectoryInv, WriterIsAlone, PointersResolve, Present
<1>2. ASSUME NEW s \in Requests,
             Begin(s) \/ Work(s) \/ Cancel(s) \/ Fail(s) \/ FailPrune(s) \/ Kill(s)
      PROVE  DirectoryInv'
  BY <1>2, DirectoryQuiet, DirectoryPublish, DirectoryActivate, DirectoryClean DEF Work
<1>3. CASE Next
  BY <1>2, <1>3, DirectoryReader, DirectoryWorld DEF Next
<1> QED
  BY <1>1, <1>3

LEMMA DirectoryCorrect == Spec => []DirectoryInv
BY DirectoryInit, DirectoryStep, PTL DEF Spec

-----------------------------------------------------------------------------
(* What follows from it.                                                   *)

(* One request at a time works on the directory, also when it was dropped  *)
(* while its blocking task goes on, and its staging directory is there.    *)
THEOREM OneWriter == Spec => []WriterIsAlone
<1>1. DirectoryInv => WriterIsAlone
  BY DEF DirectoryInv
<1> QED
  BY <1>1, DirectoryCorrect, PTL

(* Whatever is dropped, fails or is killed between the writes of a file,   *)
(* of "previous" and of "active", both pointers lead to the digest they    *)
(* name.                                                                   *)
THEOREM NoDanglingPointer == Spec => []PointersResolve
<1>1. DirectoryInv => PointersResolve
  BY DEF DirectoryInv
<1> QED
  BY <1>1, DirectoryCorrect, PTL

(* The file a reader was admitted to stays until the reader closes it,     *)
(* however the pointers move, whoever cleans up, and also when the file    *)
(* has lost its lease.                                                     *)
THEOREM AdmittedFileStays == Spec => []ReaderKeepsFile
<1>1. DirectoryInv => ReaderKeepsFile
  BY DEF DirectoryInv, Reading, ReaderKeepsFile
<1> QED
  BY <1>1, DirectoryCorrect, PTL

(* An installed generation, its pointer readable, is only replaced by a    *)
(* later one: only activation writes a readable pointer, and what it       *)
(* writes was compared with the active one under the same lock.            *)
THEOREM OnlyUpgrades == Spec => NoDowngrade
<1>1. DirectoryInv /\ [Next]_vars
        => [active.file # 0 /\ active'.file # 0 /\ active'.sha # active.sha
              => Generation(active'.sha) > Generation(active.sha)]_vars
  <2> SUFFICES ASSUME DirectoryInv, Next,
                      active.file # 0, active'.file # 0, active'.sha # active.sha
               PROVE  Generation(active'.sha) > Generation(active.sha)
    OBVIOUS
  <2>1. TypeInv /\ TypeInv'
    BY TypeStep DEF DirectoryInv
  <2>2. active \in Pointer /\ active' \in Pointer
    BY <2>1, Values DEF TypeInv, TypeOK
  <2>3. PICK s \in Requests : SaveActive(s)
    <3>1. \A s \in Requests : (Begin(s) \/ Work(s) \/ Cancel(s) \/ Fail(s) \/ FailPrune(s)
                                \/ Kill(s)) /\ ~SaveActive(s) => UNCHANGED active
      BY DEF Begin, Work, Discover, Prepare, Misjudge, Fetch, Download, CreateLease, Rename, Verify,
             Retract, SavePrevious, Prune, Unlease, End, Cancel, Fail, FailPrune, Kill, disk
    <3>2. \A r \in Readers : Query(r) => UNCHANGED active
      BY DEF Query, ReadActive, ReadPrevious, Open, Lease, Check, GiveUp, Close, disk
    <3>3. ~Corrupt /\ (Upstream \/ (\E f \in Slots : Damage(f)) \/ Calm => UNCHANGED active)
      BY Values DEF Upstream, Damage, Corrupt, Calm, disk
    <3> QED
      BY <3>1, <3>2, <3>3 DEF Next
  <2>4. active'.sha = req[s].want /\ NotNewer(s)
    BY <2>3 DEF SaveActive, DirectoryInv, Working
  <2>5. Generation(active.sha) \in Nat /\ Generation(active'.sha) \in Nat
    BY <2>2, Values
  <2> QED
    BY <2>4, <2>5 DEF NotNewer
<1> QED
  BY <1>1, DirectoryCorrect, PTL DEF Spec, NoDowngrade

=============================================================================
