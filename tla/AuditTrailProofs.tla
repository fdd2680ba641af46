-------------------------- MODULE AuditTrailProofs --------------------------
(***************************************************************************)
(* Proofs about AuditTrail, for any processes and requests, any number of  *)
(* keys, faults and events that are older than key identifiers.            *)
(*                                                                         *)
(* The inductive invariant says who may be inside an append (LockInv),     *)
(* what a chain is that nobody has edited (Intact), that an edit leaves a  *)
(* row whose own hash tells on it (Broken), and what a process that is     *)
(* degraded has let in (ClosedInv).                                        *)
(***************************************************************************)
EXTENDS AuditTrail, FiniteSetTheorems, SequenceTheorems, TLAPS

Hash == Seq(LinkType)

ReqField == {"pc", "proc", "mutates", "effect", "seen"}

\* Processes, their keys and their requests.
ProcessInv ==
  /\ config \in Key
  /\ ring \in [Process -> 1 .. config]
  /\ degraded \in [Process -> BOOLEAN]
  /\ faults \in 0 .. MaxFaults /\ tampered \in BOOLEAN
  /\ DOMAIN req = Request
  /\ \A r \in Request :
       /\ DOMAIN req[r] = ReqField
       /\ req[r].pc \in Pc /\ req[r].proc \in Process \cup {NULL}
       /\ req[r].mutates \in BOOLEAN /\ req[r].effect \in BOOLEAN
       /\ req[r].seen \in [seq : Nat, hash : Hash]
       /\ req[r].pc \in {"handling", "auditing", "writing"} => req[r].proc \in Process

\* One request at a time is inside an append, and it has read the head that is
\* there.
LockInv ==
  /\ lock \in Request \cup {NULL}
  /\ \A r \in Request : req[r].pc = "writing" <=> lock = r
  /\ lock # NULL => req[lock].seen = head

SecretOf(kid) == IF kid = LegacyKey THEN 1 ELSE kid

\* A chain that nobody has edited.
Intact ==
  /\ DOMAIN table = 1 .. head.seq
  /\ head.hash = PrevHash(head.seq + 1)
  /\ \A n \in 1 .. head.seq :
       /\ table[n].prev = PrevHash(n) /\ Len(table[n].hash) = n
       /\ table[n].hash =
            Append(PrevHash(n), Link(n, table[n].kid, SecretOf(table[n].kid), table[n].body))
       /\ table[n].body # "altered"
       /\ Legacy = 0 => table[n].kid # LegacyKey

\* A row that is missing, or that is not what was signed last in its hash.
Broken(n) ==
  n \notin DOMAIN table \/
  LET l == table[n].hash[Len(table[n].hash)]
  IN <<l.seq, l.kid, l.body>> # <<n, table[n].kid, table[n].body>>

ChainInv ==
  /\ head \in [seq : Nat, hash : Hash]
  /\ DOMAIN table \subseteq 1 .. head.seq
  /\ \A n \in DOMAIN table : table[n] \in RowType
  /\ ~tampered => Intact
  /\ tampered => \E n \in 1 .. head.seq : Broken(n)

\* A verification knows the head of the chain as it was, and, if the chain had
\* been edited by then, there is a broken row within its reach.
CheckInv ==
  /\ check.pc \in {"idle", "reading", "done"}
  /\ check.pc # "idle" => check.proc \in Process
  /\ check.verdict \in {"none", "valid", "mismatch", "unavailable"}
  /\ check.dirty \in BOOLEAN
  /\ check.dirty => tampered
  /\ check.pc = "reading" =>
       /\ check.target \in 0 .. head.seq
       /\ ~tampered => check.hash = PrevHash(check.target + 1)
       /\ check.dirty => \E n \in 1 .. check.target : Broken(n)

\* What a degraded process let in has changed nothing and is not going to.
ClosedInv ==
  /\ since \in [Process -> SUBSET Request]
  /\ \A p \in Process : since[p] # {} => degraded[p]
  /\ \A p \in Process : \A r \in since[p] :
       /\ ~req[r].effect /\ req[r].pc # "new"
       /\ req[r].pc = "handling" => ~req[r].mutates
  /\ \A r \in Request : req[r].pc = "new" => ~req[r].effect

\* What verifications have found.
FoundInv ==
  /\ TamperIsDetected
  /\ Legacy = 0 => RotationKeepsHistory

IInv ==
  ProcessInv /\ LockInv /\ ChainInv /\ CheckInv /\ FoundInv /\ ClosedInv /\ OnlyFaultsDegrade

-----------------------------------------------------------------------------
(* Processes, requests and the lock.                                       *)

\* What a step makes of one request, in either invariant.
GoodRequest(r) ==
  /\ DOMAIN req[r] = ReqField
  /\ req[r].pc \in Pc /\ req[r].proc \in Process \cup {NULL}
  /\ req[r].mutates \in BOOLEAN /\ req[r].effect \in BOOLEAN
  /\ req[r].seen \in [seq : Nat, hash : Hash]
  /\ req[r].pc \in {"handling", "auditing", "writing"} => req[r].proc \in Process

\* The empty chain has a hash.
LEMMA EmptyHash == <<>> \in Hash /\ Len(<<>>) = 0
  BY EmptySeq DEF Hash

\* A request that has ended has the same form, whatever it has done.
LEMMA FinishedRequest ==
  ASSUME NEW pc \in {"done", "lost"}, NEW effect \in BOOLEAN
  PROVE  /\ DOMAIN Finished(pc, effect) = ReqField
         /\ Finished(pc, effect).pc = pc /\ Finished(pc, effect).proc = NULL
         /\ Finished(pc, effect).mutates = FALSE /\ Finished(pc, effect).effect = effect
         /\ Finished(pc, effect).seen \in [seq : Nat, hash : Hash]
  BY EmptyHash DEF Finished, NewRequest, NoHead, ReqField

LEMMA StepKeepsProcesses ==
  ASSUME ProcessInv, LockInv, ChainInv, [Next]_vars
  PROVE  ProcessInv'
  <1> USE DEF ProcessInv
  <1>1. ASSUME NEW r \in Request, RequestNext(r)
        PROVE  /\ DOMAIN req' = Request /\ GoodRequest(r)'
               /\ \A q \in Request \ {r} : req'[q] = req[q]
    <2>1. CASE Arrive(r)
      BY <2>1 DEF Arrive, GoodRequest, ReqField, Pc
    <2>2. CASE Handle(r)
      BY <2>2 DEF Handle, GoodRequest, ReqField, Pc
    <2>3. CASE Raise(r)
      <3>1. PICK e \in BOOLEAN : req' = [req EXCEPT ![r] = Finished("lost", e)]
        BY <2>3 DEF Raise
      <3> QED
        BY <3>1, FinishedRequest DEF GoodRequest, Pc
    <2>4. CASE AppendRead(r)
      BY <2>4 DEF AppendRead, GoodRequest, ReqField, Pc, ChainInv
    <2>5. CASE AppendWrite(r)
      BY <2>5, FinishedRequest DEF AppendWrite, GoodRequest, Pc
    <2>6. CASE AppendFails(r)
      BY <2>6, FinishedRequest DEF AppendFails, GoodRequest, Pc
    <2> QED
      BY <1>1, <2>1, <2>2, <2>3, <2>4, <2>5, <2>6 DEF RequestNext
  <1>2. ASSUME NEW r \in Request, RequestNext(r)
        PROVE  /\ config' = config /\ ring' = ring /\ tampered' = tampered
               /\ degraded' \in [Process -> BOOLEAN]
               /\ faults' \in 0 .. MaxFaults
    <2>1. CASE Arrive(r) \/ Handle(r) \/ Raise(r) \/ AppendRead(r)
      BY <2>1 DEF Arrive, Handle, Raise, AppendRead
    <2>2. CASE AppendWrite(r) \/ AppendFails(r)
      <3>1. faults' = faults \/ Fault
        BY <2>2 DEF AppendWrite, AppendFails
      <3>2. faults' \in 0 .. MaxFaults
        BY <3>1, AuditAssumption DEF Fault
      <3>3. config' = config /\ ring' = ring /\ tampered' = tampered
        BY <2>2 DEF AppendWrite, AppendFails
      <3>4. degraded' \in [Process -> BOOLEAN]
        BY <2>2 DEF AppendWrite, AppendFails, Degrade
      <3> QED
        BY <3>2, <3>3, <3>4
    <2> QED
      BY <1>2, <2>1, <2>2 DEF RequestNext
  <1>3. ASSUME NEW r \in Request, RequestNext(r) PROVE ProcessInv'
    BY <1>1, <1>2, <1>3 DEF GoodRequest
  <1>4. ASSUME NEW p \in Process, Restart(p) PROVE ProcessInv'
    <2>1. /\ DOMAIN req' = Request
          /\ \A r \in Request : \/ req'[r] = req[r]
                                \/ req'[r] = Finished("lost", req[r].effect)
      BY <1>4 DEF Restart
    <2>2. ASSUME NEW r \in Request PROVE GoodRequest(r)'
      <3>1. CASE req'[r] = req[r]
        BY <3>1 DEF GoodRequest
      <3>2. CASE req'[r] = Finished("lost", req[r].effect)
        <4>1. req[r].effect \in BOOLEAN
          OBVIOUS
        <4> DEFINE f == Finished("lost", req[r].effect)
        <4>2. /\ DOMAIN f = ReqField /\ f.pc = "lost" /\ f.proc = NULL
              /\ f.mutates = FALSE /\ f.effect = req[r].effect
              /\ f.seen \in [seq : Nat, hash : Hash]
          BY <4>1, FinishedRequest
        <4>3. req'[r] = f
          BY <3>2
        <4> HIDE DEF f
        <4> QED
          BY <4>1, <4>2, <4>3 DEF GoodRequest, Pc
      <3> QED
        BY <2>1, <3>1, <3>2
    <2>3. /\ config' = config /\ ring' \in [Process -> 1 .. config] /\ tampered' = tampered
          /\ degraded' \in [Process -> BOOLEAN] /\ faults' \in 0 .. MaxFaults
      BY <1>4, AuditAssumption DEF Restart, Fault, Key
    <2> QED
      BY <2>1, <2>2, <2>3 DEF GoodRequest
  <1>5. CASE Rotate
    BY <1>5, AuditAssumption DEF Rotate, Key
  <1>6. CASE Tamper
    BY <1>6 DEF Tamper
  <1>7. ASSUME VerifyRows \/ (\E p \in Process : VerifyState(p)) \/ UNCHANGED vars
        PROVE  ProcessInv'
    BY <1>7 DEF VerifyRows, VerifyState, vars
  <1> QED
    BY <1>3, <1>4, <1>5, <1>6, <1>7 DEF Next

\* Whoever holds the lock is inside its append, and the head waits for it.
LEMMA StepKeepsLock ==
  ASSUME ProcessInv, LockInv, [Next]_vars
  PROVE  LockInv'
  <1> USE DEF LockInv
  <1>0. NULL \notin Request
    BY AuditAssumption
  <1>1. ASSUME NEW r \in Request, Arrive(r) \/ Handle(r) \/ Raise(r)
        PROVE  LockInv'
    <2>1. UNCHANGED chain /\ req[r].pc # "writing"
          /\ \A q \in Request \ {r} : req'[q] = req[q]
      BY <1>1 DEF Arrive, Handle, Raise, ProcessInv
    <2>2. req'[r].pc # "writing"
      <3>1. CASE Arrive(r)
        BY <3>1 DEF Arrive, ProcessInv, ReqField
      <3>2. CASE Handle(r)
        BY <3>2 DEF Handle, ProcessInv, ReqField
      <3>3. CASE Raise(r)
        <4>1. PICK e \in BOOLEAN : req' = [req EXCEPT ![r] = Finished("lost", e)]
          BY <3>3 DEF Raise, ProcessInv
        <4>2. req'[r] = Finished("lost", e)
          BY <4>1 DEF ProcessInv
        <4> QED
          BY <4>2, FinishedRequest
      <3> QED
        BY <1>1, <3>1, <3>2, <3>3
    <2> QED
      BY <1>0, <2>1, <2>2 DEF chain
  <1>3. ASSUME NEW r \in Request, AppendRead(r) PROVE LockInv'
    BY <1>0, <1>3 DEF AppendRead, ProcessInv, ReqField
  <1>4. ASSUME NEW r \in Request, AppendWrite(r) \/ AppendFails(r) PROVE LockInv'
    <2>1. /\ req'[r].pc = "done" /\ \A q \in Request \ {r} : req'[q] = req[q]
          /\ lock' = IF lock = r THEN NULL ELSE lock
      BY <1>4, FinishedRequest DEF AppendWrite, AppendFails, ProcessInv
    <2>2. lock # r /\ lock # NULL => head' = head
      BY <1>4 DEF AppendWrite, AppendFails
    <2> QED
      BY <1>0, <2>1, <2>2
  <1>5. ASSUME NEW p \in Process, Restart(p) PROVE LockInv'
    <2>1. \A r \in Request :
            IF req[r].proc = p /\ req[r].pc \in {"handling", "auditing", "writing"}
            THEN req'[r].pc = "lost" ELSE req'[r] = req[r]
      BY <1>5, FinishedRequest DEF Restart, ProcessInv
    <2>2. head' = head /\ lock' = IF lock # NULL /\ req[lock].proc = p THEN NULL ELSE lock
      BY <1>5 DEF Restart
    <2> QED
      BY <1>0, <2>1, <2>2
  <1>6. ASSUME Rotate \/ Tamper \/ VerifyRows \/ (\E p \in Process : VerifyState(p))
                 \/ UNCHANGED vars
        PROVE  LockInv'
    BY <1>6 DEF Rotate, Tamper, VerifyRows, VerifyState, vars, chain
  <1> QED
    BY <1>1, <1>3, <1>4, <1>5, <1>6 DEF Next, RequestNext

-----------------------------------------------------------------------------
(* The chain.                                                              *)

Next1 == head.seq + 1      \* the number of the next event
SignedBy(r) == ring[req[r].proc]
NewLink(r) == Link(Next1, SignedBy(r), SignedBy(r), r)
NewRow(r) == [kid |-> SignedBy(r), body |-> r, prev |-> head.hash,
              hash |-> Append(head.hash, NewLink(r))]

\* What an append does to the chain.
Extends(r) ==
  /\ DOMAIN table' = DOMAIN table \cup {Next1}
  /\ \A i \in DOMAIN table : table'[i] = table[i]
  /\ table'[Next1] = NewRow(r)
  /\ head' = [seq |-> Next1, hash |-> Append(head.hash, NewLink(r))]
  /\ tampered' = tampered

\* The request that writes is the one that has the lock, so its number is free.
LEMMA WriteExtends ==
  ASSUME ProcessInv, LockInv, ChainInv, NEW r \in Request, AppendWrite(r)
  PROVE  Extends(r) /\ req[r].proc \in Process
  <1>1. req[r].pc = "writing" /\ req[r].proc \in Process
    BY DEF AppendWrite, ProcessInv
  <1>2. req[r].seen = head
    BY <1>1, AuditAssumption DEF LockInv
  <1>3. head.seq \in Nat /\ Next1 \notin DOMAIN table
    BY DEF ChainInv, Next1
  <1>4. table' = WithRow(Next1, NewRow(r))
    BY <1>2, <1>3 DEF AppendWrite, Next1, NewRow, NewLink, SignedBy
  <1>5. head' = [seq |-> Next1, hash |-> Append(head.hash, NewLink(r))] /\ tampered' = tampered
    BY <1>2, <1>3 DEF AppendWrite, Next1, NewLink, SignedBy
  <1>6. /\ DOMAIN table' = DOMAIN table \cup {Next1}
        /\ \A i \in DOMAIN table : table'[i] = table[i]
        /\ table'[Next1] = NewRow(r)
    BY <1>3, <1>4 DEF WithRow
  <1> QED
    BY <1>1, <1>5, <1>6 DEF Extends

\* The new row and the new head have their types, and their hash ends in the
\* link of the new event.
LEMMA NewRowType ==
  ASSUME ProcessInv, ChainInv, NEW r \in Request, req[r].proc \in Process
  PROVE  /\ Next1 \in Nat /\ NewRow(r) \in RowType /\ NewRow(r).hash \in Hash
         /\ SignedBy(r) \in 1 .. MaxKey
         /\ Len(NewRow(r).hash) = Len(head.hash) + 1
         /\ NewRow(r).hash[Len(NewRow(r).hash)] = NewLink(r)
  <1>1. SignedBy(r) \in 1 .. MaxKey
    BY AuditAssumption DEF ProcessInv, SignedBy, Key
  <1>2. Next1 \in Nat /\ head.hash \in Hash
    BY DEF ChainInv, Next1
  <1>3. NewLink(r) \in LinkType
    BY <1>1, <1>2 DEF NewLink, Link, LinkType, Key
  <1>4. /\ Append(head.hash, NewLink(r)) \in Hash
        /\ Len(Append(head.hash, NewLink(r))) = Len(head.hash) + 1
        /\ Append(head.hash, NewLink(r))[Len(head.hash) + 1] = NewLink(r)
    BY <1>2, <1>3, AppendProperties DEF Hash
  <1>5. NewRow(r) \in RowType
    BY <1>1, <1>2, <1>4 DEF NewRow, RowType, Hash
  <1> QED
    BY <1>1, <1>2, <1>4, <1>5 DEF NewRow

LEMMA ExtendKeepsPrev ==
  ASSUME ChainInv, DOMAIN table = 1 .. head.seq, NEW r \in Request, Extends(r),
         NEW n \in 1 .. head.seq + 1
  PROVE  PrevHash(n)' = PrevHash(n)
  <1>1. CASE n = 1
    BY <1>1 DEF PrevHash
  <1>2. CASE n # 1
    <2>1. n - 1 \in 1 .. head.seq
      BY <1>2 DEF ChainInv
    <2>2. table'[n - 1] = table[n - 1]
      BY <2>1 DEF Extends
    <2> QED
      BY <1>2, <2>2 DEF PrevHash
  <1> QED
    BY <1>1, <1>2

LEMMA ExtendKeepsIntact ==
  ASSUME ProcessInv, ChainInv, NEW r \in Request, req[r].proc \in Process, Extends(r), Intact
  PROVE  Intact'
  <1> USE DEF Intact, Extends
  <1>0. head.seq \in Nat /\ Next1 = head.seq + 1 /\ head'.seq = Next1
    BY DEF ChainInv, Next1
  <1>1. DOMAIN table' = 1 .. head'.seq
    BY <1>0
  <1>2. \A n \in 1 .. head.seq + 1 : PrevHash(n)' = PrevHash(n)
    BY ExtendKeepsPrev
  <1>3. (head.hash = PrevHash(head.seq + 1))'
    <2>1. head'.seq + 1 # 1 /\ (head'.seq + 1) - 1 = Next1
      BY <1>0
    <2>2. head'.hash = table'[Next1].hash
      BY DEF NewRow
    <2> QED
      BY <2>1, <2>2 DEF PrevHash
  <1>4. Len(head.hash) = head.seq
    BY <1>0, EmptyHash DEF PrevHash
  <1>5. ASSUME NEW n \in 1 .. head.seq
        PROVE  table'[n] = table[n] /\ PrevHash(n)' = PrevHash(n)
    <2>1. n \in 1 .. head.seq + 1
      BY <1>0
    <2> QED
      BY <1>2, <2>1
  <1>6. ASSUME NEW n \in {Next1}
        PROVE  /\ table'[n].prev = PrevHash(n)' /\ Len(table'[n].hash) = n
               /\ table'[n].hash =
                    Append(PrevHash(n)', Link(n, table'[n].kid, SecretOf(table'[n].kid), table'[n].body))
               /\ table'[n].body # "altered" /\ table'[n].kid # LegacyKey
    <2>1. PrevHash(n)' = head.hash /\ n = Next1
      BY <1>0, <1>2
    <2>2. SecretOf(SignedBy(r)) = SignedBy(r) /\ SignedBy(r) # LegacyKey
      BY NewRowType DEF SecretOf, LegacyKey
    <2>3. Len(NewRow(r).hash) = Next1
      BY <1>0, <1>4, NewRowType
    <2>4. table'[n] = NewRow(r)
      BY <2>1
    <2> HIDE DEF Intact, Extends
    <2> QED
      BY <2>1, <2>2, <2>3, <2>4, AuditAssumption DEF NewRow, NewLink
  <1>7. \A n \in 1 .. head'.seq :
          /\ table'[n].prev = PrevHash(n)' /\ Len(table'[n].hash) = n
          /\ table'[n].hash =
               Append(PrevHash(n)', Link(n, table'[n].kid, SecretOf(table'[n].kid), table'[n].body))
          /\ table'[n].body # "altered"
          /\ Legacy = 0 => table'[n].kid # LegacyKey
    <2> TAKE n \in 1 .. head'.seq
    <2>1. CASE n = Next1
      BY <1>6, <2>1
    <2>2. CASE n # Next1
      <3>1. n \in 1 .. head.seq
        BY <1>0, <2>2
      <3> QED
        BY <1>5, <3>1
    <2> QED
      BY <2>1, <2>2
  <1> QED
    BY <1>1, <1>3, <1>7

\* An append leaves every row alone, so what is broken stays broken.
LEMMA ExtendKeepsChain ==
  ASSUME ProcessInv, ChainInv, NEW r \in Request, req[r].proc \in Process, Extends(r)
  PROVE  /\ ChainInv'
         /\ head'.seq = head.seq + 1
         /\ \A n \in 1 .. head.seq : Broken(n) => Broken(n)'
         /\ ~tampered => \A n \in 1 .. head.seq + 1 : PrevHash(n)' = PrevHash(n)
  <1>1. /\ Next1 = head.seq + 1 /\ head.seq \in Nat
        /\ DOMAIN table \subseteq 1 .. head.seq
    BY DEF ChainInv, Next1
  <1>2. ASSUME NEW n \in 1 .. head.seq
        PROVE  Broken(n) => Broken(n)'
    <2>1. CASE n \in DOMAIN table
      BY <2>1 DEF Extends, Broken
    <2>2. CASE n \notin DOMAIN table
      BY <1>1, <2>2 DEF Extends, Broken
    <2> QED
      BY <2>1, <2>2
  <1>3. head' \in [seq : Nat, hash : Hash] /\ head'.seq = Next1
    BY NewRowType DEF Extends, NewRow
  <1>4. DOMAIN table' \subseteq 1 .. head'.seq
    BY <1>1, <1>3 DEF Extends
  <1>5. \A n \in DOMAIN table' : table'[n] \in RowType
    BY NewRowType DEF Extends, ChainInv
  <1>6. ~tampered' => Intact'
    BY ExtendKeepsIntact DEF ChainInv, Extends
  <1>7. tampered' => \E n \in 1 .. head'.seq : Broken(n)'
    BY <1>1, <1>2, <1>3 DEF ChainInv, Extends
  <1>8. ~tampered => \A n \in 1 .. head.seq + 1 : PrevHash(n)' = PrevHash(n)
    BY ExtendKeepsPrev DEF ChainInv, Intact
  <1>9. head'.seq = head.seq + 1
    BY <1>1, <1>3
  <1> QED
    BY <1>2, <1>3, <1>4, <1>5, <1>6, <1>7, <1>8, <1>9 DEF ChainInv

LEMMA LastOfAppend ==
  ASSUME NEW S, NEW s \in Seq(S), NEW e
  PROVE  Append(s, e)[Len(Append(s, e))] = e
  <1>1. s \in Seq(S \cup {e})
    BY SeqMonotonic
  <1> QED
    BY <1>1, AppendProperties

\* The hash of a row of an intact chain ends in what the row says.
LEMMA IntactTells ==
  ASSUME ChainInv, Intact, NEW n \in 1 .. head.seq
  PROVE  /\ n \in DOMAIN table /\ PrevHash(n) \in Hash
         /\ table[n].hash[Len(table[n].hash)].seq = n
         /\ table[n].hash[Len(table[n].hash)].kid = table[n].kid
         /\ table[n].hash[Len(table[n].hash)].body = table[n].body
  <1>1. n \in DOMAIN table
    BY DEF Intact
  <1>2. PrevHash(n) \in Hash
    <2>1. CASE n = 1
      BY <2>1, EmptyHash DEF PrevHash
    <2>2. CASE n # 1
      <3>1. n - 1 \in DOMAIN table
        BY <2>2 DEF Intact, ChainInv
      <3>2. table[n - 1].hash \in Hash
        BY <3>1 DEF ChainInv, RowType, Hash
      <3> QED
        BY <2>2, <3>2 DEF PrevHash
    <2> QED
      BY <2>1, <2>2
  <1>3. table[n].hash =
          Append(PrevHash(n), Link(n, table[n].kid, SecretOf(table[n].kid), table[n].body))
    BY DEF Intact
  <1>4. table[n].hash[Len(table[n].hash)] =
          Link(n, table[n].kid, SecretOf(table[n].kid), table[n].body)
    BY <1>2, <1>3, LastOfAppend DEF Hash
  <1> QED
    BY <1>1, <1>2, <1>4 DEF Link

\* Whatever is edited, a row is left that its own hash gives away.
LEMMA TamperBreaks ==
  ASSUME ChainInv, Tamper
  PROVE  ChainInv'
  <1>1. ~tampered /\ tampered' = TRUE /\ head' = head
    BY DEF Tamper
  <1>2. Intact
    BY <1>1 DEF ChainInv
  <1>3. DOMAIN table = 1 .. head.seq /\ head.seq \in Nat
    BY <1>2 DEF ChainInv, Intact
  <1>4. ASSUME NEW n \in DOMAIN table, table' = [table EXCEPT ![n].body = "altered"]
        PROVE  ChainInv'
    <2>1. DOMAIN table' = DOMAIN table /\ \A i \in DOMAIN table' : table'[i] \in RowType
      BY <1>4 DEF ChainInv, RowType
    <2>2. table'[n].hash = table[n].hash /\ table'[n].body = "altered" /\ table[n].body # "altered"
      BY <1>2, <1>3, <1>4 DEF ChainInv, RowType, Intact
    <2>3. table'[n].hash[Len(table'[n].hash)].body = table[n].body
      BY <1>2, <1>3, <2>2, IntactTells
    <2>4. Broken(n)'
      BY <2>2, <2>3 DEF Broken
    <2> QED
      BY <1>1, <1>3, <2>1, <2>4 DEF ChainInv
  <1>5. ASSUME NEW n \in DOMAIN table, NEW k \in 0 .. MaxKey \ {table[n].kid},
               table' = [table EXCEPT ![n].kid = k]
        PROVE  ChainInv'
    <2>1. DOMAIN table' = DOMAIN table /\ \A i \in DOMAIN table' : table'[i] \in RowType
      BY <1>5 DEF ChainInv, RowType
    <2>2. table'[n].hash = table[n].hash /\ table'[n].kid = k /\ table[n].kid # k
      BY <1>5 DEF ChainInv, RowType
    <2>3. table'[n].hash[Len(table'[n].hash)].kid = table[n].kid
      BY <1>2, <1>3, <2>2, IntactTells
    <2>4. Broken(n)'
      BY <2>2, <2>3 DEF Broken
    <2> QED
      BY <1>1, <1>3, <2>1, <2>4 DEF ChainInv
  <1>6. ASSUME NEW n \in DOMAIN table, table' = [i \in DOMAIN table \ {n} |-> table[i]]
        PROVE  ChainInv'
    BY <1>1, <1>3, <1>6 DEF ChainInv, Broken
  <1>7. ASSUME NEW n \in DOMAIN table, NEW m \in DOMAIN table \ {n},
               table' = [table EXCEPT ![n] = table[m], ![m] = table[n]]
        PROVE  ChainInv'
    <2>1. DOMAIN table' = DOMAIN table /\ \A i \in DOMAIN table' : table'[i] \in RowType
      BY <1>7 DEF ChainInv
    <2>2. table'[n] = table[m]
      BY <1>7
    <2>3. table'[n].hash[Len(table'[n].hash)].seq = m
      BY <1>2, <1>3, <2>2, IntactTells
    <2>4. Broken(n)'
      BY <2>3 DEF Broken
    <2> QED
      BY <1>1, <1>3, <2>1, <2>4 DEF ChainInv
  <1> QED
    BY <1>4, <1>5, <1>6, <1>7 DEF Tamper

-----------------------------------------------------------------------------
(* Verification.                                                           *)

LEMMA UpTo ==
  ASSUME NEW n \in Nat
  PROVE  IsFiniteSet(1 .. n) /\ Cardinality(1 .. n) = n
  <1>1. 1 \in Int /\ n \in Int
    OBVIOUS
  <1>2. IsFiniteSet(1 .. n) /\ Cardinality(1 .. n) = IF 1 > n THEN 0 ELSE n - 1 + 1
    BY ONLY <1>1, FS_Interval
  <1> QED
    BY <1>2

\* An intact chain is found valid by whoever has its keys.
LEMMA IntactIsValid ==
  ASSUME ProcessInv, ChainInv, Intact, Legacy = 0, NEW p \in Process,
         NEW target \in 0 .. head.seq, NEW hash, hash = PrevHash(target + 1),
         \A n \in DOMAIN table : table[n].kid <= ring[p]
  PROVE  Verdict(p, target, hash) = "valid"
  <1> DEFINE rows == {n \in DOMAIN table : n <= target}
             good == {n \in rows : /\ 1 .. n \subseteq rows
                                   /\ \A i \in 1 .. n : /\ KeyFor(p, table[i].kid) # NULL
                                                        /\ RowHolds(p, i)}
  <1>1. DOMAIN table = 1 .. head.seq /\ head.seq \in Nat
    BY DEF ChainInv, Intact
  <1>2. rows = 1 .. target
    BY <1>1
  <1>3. ASSUME NEW n \in 1 .. target
        PROVE  KeyFor(p, table[n].kid) # NULL /\ RowHolds(p, n)
    <2>1. n \in 1 .. head.seq /\ table[n].kid \in 0 .. MaxKey
      BY <1>1 DEF ChainInv, RowType
    <2>2. KeyFor(p, table[n].kid) = table[n].kid /\ table[n].kid # LegacyKey
      BY <1>1, <2>1 DEF KeyFor, Intact
    <2>3. table[n].kid # NULL /\ SecretOf(table[n].kid) = table[n].kid
      BY <2>1, <2>2, AuditAssumption DEF SecretOf
    <2>4. RowHolds(p, n)
      BY <2>1, <2>2, <2>3 DEF RowHolds, Intact
    <2> QED
      BY <2>2, <2>3, <2>4
  <1>4. good = 1 .. target
    BY <1>2, <1>3
  <1>5. Cardinality(good) = target
    <2>1. target \in Nat
      BY <1>1
    <2>2. Cardinality(1 .. target) = target
      BY <2>1, UpTo
    <2> QED
      BY ONLY <1>4, <2>2
  <1>6. hash = IF target = 0 THEN <<>> ELSE table[target].hash
    BY DEF PrevHash
  <1>7. rows \ good = {}
    BY <1>2, <1>4
  <1> QED
    BY <1>5, <1>6, <1>7 DEF Verdict

\* A chain with a broken row within reach is never found valid.
LEMMA BrokenIsNotValid ==
  ASSUME ProcessInv, ChainInv, NEW p \in Process, NEW target \in Nat, NEW hash,
         NEW n \in 1 .. target, Broken(n)
  PROVE  Verdict(p, target, hash) # "valid"
  <1> DEFINE rows == {k \in DOMAIN table : k <= target}
             good == {k \in rows : /\ 1 .. k \subseteq rows
                                   /\ \A i \in 1 .. k : /\ KeyFor(p, table[i].kid) # NULL
                                                        /\ RowHolds(p, i)}
  <1>1. Verdict(p, target, hash) = "valid" => rows \ good = {} /\ Cardinality(good) = target
    BY DEF Verdict
  <1>2. good \subseteq 1 .. target /\ IsFiniteSet(1 .. target) /\ Cardinality(1 .. target) = target
    BY UpTo DEF ChainInv
  <1>3. Cardinality(good) = target => good = 1 .. target
    BY <1>2, FS_Subset
  <1>4. n \notin good
    <2> SUFFICES ASSUME n \in good PROVE FALSE
      OBVIOUS
    <2>1. n \in DOMAIN table /\ 1 .. n \subseteq DOMAIN table /\ RowHolds(p, n)
      OBVIOUS
    <2>2. PrevHash(n) \in Hash
      <3>1. CASE n = 1
        BY <3>1, EmptyHash DEF PrevHash
      <3>2. CASE n # 1
        <4>1. n - 1 \in DOMAIN table
          BY <2>1, <3>2
        <4>2. table[n - 1].hash \in Hash
          BY <4>1 DEF ChainInv, RowType, Hash
        <4> QED
          BY <3>2, <4>2 DEF PrevHash
      <3> QED
        BY <3>1, <3>2
    <2>3. table[n].hash[Len(table[n].hash)] =
            Link(n, table[n].kid, KeyFor(p, table[n].kid), table[n].body)
      BY <2>1, <2>2, LastOfAppend DEF RowHolds, Hash
    <2> QED
      BY <2>1, <2>3 DEF Broken, Link
  <1> QED
    BY <1>1, <1>3, <1>4

\* Every step leaves the chain alone, appends to it, or edits it.
LEMMA StepOnChain ==
  ASSUME ProcessInv, LockInv, ChainInv, [Next]_vars
  PROVE  \/ UNCHANGED <<table, head, tampered>>
         \/ \E r \in Request : AppendWrite(r) /\ Extends(r) /\ req[r].proc \in Process
         \/ Tamper
  <1>1. ASSUME NEW r \in Request, AppendWrite(r) PROVE Extends(r) /\ req[r].proc \in Process
    BY <1>1, WriteExtends
  <1>2. ASSUME NEW r \in Request,
               Arrive(r) \/ Handle(r) \/ Raise(r) \/ AppendRead(r) \/ AppendFails(r)
        PROVE  UNCHANGED <<table, head, tampered>>
    BY <1>2 DEF Arrive, Handle, Raise, AppendRead, AppendFails, chain
  <1>3. ASSUME Rotate \/ VerifyRows \/ (\E p \in Process : Restart(p) \/ VerifyState(p))
                 \/ UNCHANGED vars
        PROVE  UNCHANGED <<table, head, tampered>>
    BY <1>3 DEF Rotate, VerifyRows, Restart, VerifyState, vars, chain
  <1> QED
    BY <1>1, <1>2, <1>3 DEF Next, RequestNext

LEMMA StepKeepsChain ==
  ASSUME ProcessInv, LockInv, ChainInv, [Next]_vars
  PROVE  ChainInv'
  <1>1. CASE UNCHANGED <<table, head, tampered>>
    BY <1>1 DEF ChainInv, Intact, Broken, PrevHash
  <1> QED
    BY <1>1, StepOnChain, TamperBreaks, ExtendKeepsChain

\* The rows that a verification is about to read are there, and those that were
\* broken when it began still are.
LEMMA StepKeepsCheck ==
  ASSUME ProcessInv, LockInv, ChainInv, CheckInv, [Next]_vars
  PROVE  CheckInv'
  <1>0. head.seq \in Nat
    BY DEF ChainInv
  <1>1. ASSUME check' = check \/ check' = NoCheck, UNCHANGED <<table, head, tampered>>
        PROVE  CheckInv'
    <2>1. CASE check' = NoCheck
      BY <1>1, <2>1 DEF CheckInv, NoCheck
    <2>2. CASE check' = check
      <3>1. \A n : Broken(n)' <=> Broken(n)
        BY <1>1 DEF Broken
      <3>2. (check.hash = PrevHash(check.target + 1))' <=> check.hash = PrevHash(check.target + 1)
        BY <1>1, <2>2 DEF PrevHash
      <3> QED
        BY <1>1, <2>2, <3>1, <3>2 DEF CheckInv
    <2> QED
      BY <1>1, <2>1, <2>2
  <1>2. ASSUME NEW r \in Request, AppendWrite(r), Extends(r), req[r].proc \in Process
        PROVE  CheckInv'
    <2>1. check' = check /\ tampered' = tampered
      BY <1>2 DEF AppendWrite
    <2>2. /\ head'.seq = head.seq + 1
          /\ \A n \in 1 .. head.seq : Broken(n) => Broken(n)'
          /\ ~tampered => \A n \in 1 .. head.seq + 1 : PrevHash(n)' = PrevHash(n)
      BY <1>2, ExtendKeepsChain
    <2>3. ASSUME check.pc = "reading", ~tampered
          PROVE  (check.hash = PrevHash(check.target + 1))'
      <3>1. PICK t \in 0 .. head.seq : t = check.target
        BY <2>3 DEF CheckInv
      <3>2. t + 1 \in 1 .. head.seq + 1 /\ check.hash = PrevHash(t + 1)
        BY <1>0, <2>3, <3>1 DEF CheckInv
      <3>3. PrevHash(t + 1)' = PrevHash(t + 1)
        BY <2>2, <2>3, <3>2
      <3>4. check'.target = t /\ check'.hash = check.hash
        BY <2>1, <3>1
      <3> QED
        BY <3>2, <3>3, <3>4 DEF PrevHash
    <2>4. ASSUME check.pc = "reading", check.dirty
          PROVE  \E n \in 1 .. check'.target : Broken(n)'
      <3>1. PICK n \in 1 .. check.target : Broken(n)
        BY <2>4 DEF CheckInv
      <3>2. n \in 1 .. head.seq
        BY <1>0, <2>4 DEF CheckInv
      <3> QED
        BY <2>1, <2>2, <3>1, <3>2
    <2>5. check.pc = "reading" => check'.target \in 0 .. head'.seq
      BY <1>0, <2>1, <2>2 DEF CheckInv
    <2> QED
      BY <2>1, <2>3, <2>4, <2>5 DEF CheckInv
  <1>3. CASE Tamper
    <2>1. check' = check /\ head' = head /\ tampered' = TRUE /\ ~tampered
      BY <1>3 DEF Tamper
    <2> QED
      BY <2>1 DEF CheckInv
  <1>4. ASSUME NEW p \in Process, VerifyState(p) PROVE CheckInv'
    <2>1. /\ check' = [pc |-> "reading", proc |-> p, target |-> head.seq, hash |-> head.hash,
                       dirty |-> tampered, verdict |-> "none"]
          /\ UNCHANGED <<table, head, tampered>>
      BY <1>4 DEF VerifyState, chain
    <2>2. ~tampered => (check.hash = PrevHash(check.target + 1))'
      BY <2>1 DEF ChainInv, Intact, PrevHash
    <2>3. tampered => \E n \in 1 .. head.seq : Broken(n)'
      BY <2>1 DEF ChainInv, Broken
    <2> QED
      BY <1>0, <2>1, <2>2, <2>3 DEF CheckInv, ProcessInv
  <1>5. CASE VerifyRows
    <2>1. /\ check' = [NoCheck EXCEPT !.pc = "done", !.proc = check.proc, !.dirty = check.dirty,
                                      !.verdict = Verdict(check.proc, check.target, check.hash)]
          /\ check.pc = "reading" /\ tampered' = tampered
      BY <1>5 DEF VerifyRows
    <2>2. /\ check'.pc = "done" /\ check'.proc = check.proc /\ check'.dirty = check.dirty
          /\ check'.verdict = Verdict(check.proc, check.target, check.hash)
      BY <2>1 DEF NoCheck
    <2>3. check'.verdict \in {"none", "valid", "mismatch", "unavailable"}
      BY <2>2 DEF Verdict
    <2> QED
      BY <2>1, <2>2, <2>3 DEF CheckInv
  <1>6. ASSUME NEW r \in Request,
               Arrive(r) \/ Handle(r) \/ Raise(r) \/ AppendRead(r) \/ AppendFails(r)
        PROVE  CheckInv'
    BY <1>1, <1>6 DEF Arrive, Handle, Raise, AppendRead, AppendFails, chain
  <1>7. ASSUME Rotate \/ (\E p \in Process : Restart(p)) \/ UNCHANGED vars
        PROVE  CheckInv'
    BY <1>1, <1>7 DEF Rotate, Restart, vars, chain
  <1> QED
    BY <1>2, <1>3, <1>4, <1>5, <1>6, <1>7, StepOnChain, WriteExtends DEF Next, RequestNext

\* A verdict says what the chain was, and keeps to it.
LEMMA StepKeepsFound ==
  ASSUME ProcessInv, LockInv, ChainInv, CheckInv, FoundInv, [Next]_vars
  PROVE  FoundInv'
  <1>0. head.seq \in Nat
    BY DEF ChainInv
  <1>1. CASE VerifyRows
    <2>1. /\ check' = [NoCheck EXCEPT !.pc = "done", !.proc = check.proc, !.dirty = check.dirty,
                                      !.verdict = Verdict(check.proc, check.target, check.hash)]
          /\ check.pc = "reading" /\ UNCHANGED <<table, head, tampered, ring>>
      BY <1>1 DEF VerifyRows, chain
    <2>2. /\ check'.pc = "done" /\ check'.proc = check.proc /\ check'.dirty = check.dirty
          /\ check'.verdict = Verdict(check.proc, check.target, check.hash)
      BY <2>1 DEF NoCheck
    <2>3. check.proc \in Process /\ check.target \in 0 .. head.seq /\ check.target \in Nat
      BY <1>0, <2>1 DEF CheckInv
    <2>4. TamperIsDetected'
      <3> SUFFICES ASSUME check.dirty
                   PROVE  Verdict(check.proc, check.target, check.hash) # "valid"
        BY <2>2 DEF TamperIsDetected
      <3>1. PICK n \in 1 .. check.target : Broken(n)
        BY <2>1 DEF CheckInv
      <3> QED
        BY <2>3, <3>1, BrokenIsNotValid
    <2>5. Legacy = 0 => RotationKeepsHistory'
      <3> SUFFICES ASSUME Legacy = 0, ~tampered,
                          \A n \in DOMAIN table : table[n].kid <= ring[check.proc]
                   PROVE  Verdict(check.proc, check.target, check.hash) = "valid"
        BY <2>1, <2>2 DEF RotationKeepsHistory
      <3>1. Intact /\ check.hash = PrevHash(check.target + 1)
        BY <2>1 DEF ChainInv, CheckInv
      <3> QED
        BY <2>3, <3>1, IntactIsValid
    <2> QED
      BY <2>4, <2>5 DEF FoundInv
  <1>2. ASSUME check'.pc # "done" PROVE FoundInv'
    BY <1>2 DEF FoundInv, TamperIsDetected, RotationKeepsHistory
  <1>3. ASSUME check' = check,
               check.pc = "done" => ring'[check.proc] = ring[check.proc],
               tampered => tampered',
               ~tampered' => \A n \in DOMAIN table : n \in DOMAIN table' /\ table'[n] = table[n]
        PROVE  FoundInv'
    BY <1>3 DEF FoundInv, TamperIsDetected, RotationKeepsHistory, CheckInv
  <1>4. ASSUME NEW r \in Request, AppendWrite(r) PROVE FoundInv'
    <2>1. Extends(r) /\ check' = check /\ ring' = ring
      BY <1>4, WriteExtends DEF AppendWrite
    <2> QED
      BY <1>3, <2>1 DEF Extends
  <1>5. CASE Tamper
    BY <1>3, <1>5 DEF Tamper
  <1>6. ASSUME NEW p \in Process, Restart(p) PROVE FoundInv'
    <2>1. CASE check.proc = p
      BY <1>2, <1>6, <2>1 DEF Restart, NoCheck
    <2>2. CASE check.proc # p
      BY <1>3, <1>6, <2>2 DEF Restart, CheckInv, ProcessInv
    <2> QED
      BY <2>1, <2>2
  <1>7. ASSUME NEW p \in Process, VerifyState(p) PROVE FoundInv'
    BY <1>2, <1>7 DEF VerifyState
  <1>8. ASSUME NEW r \in Request,
               Arrive(r) \/ Handle(r) \/ Raise(r) \/ AppendRead(r) \/ AppendFails(r)
        PROVE  FoundInv'
    BY <1>3, <1>8 DEF Arrive, Handle, Raise, AppendRead, AppendFails, chain
  <1>9. ASSUME Rotate \/ UNCHANGED vars PROVE FoundInv'
    BY <1>3, <1>9 DEF Rotate, vars, chain
  <1> QED
    BY <1>1, <1>4, <1>5, <1>6, <1>7, <1>8, <1>9 DEF Next, RequestNext

-----------------------------------------------------------------------------
(* Degraded processes.                                                     *)

\* A process degrades only when the database fails it: the number of the next
\* event is always free.
LEMMA StepKeepsBlame ==
  ASSUME ProcessInv, LockInv, ChainInv, OnlyFaultsDegrade, [Next]_vars
  PROVE  OnlyFaultsDegrade'
  <1> USE DEF OnlyFaultsDegrade, ProcessInv
  <1>0. faults \in Nat
    BY AuditAssumption
  <1>1. ASSUME degraded' = degraded, faults' = faults \/ Fault PROVE OnlyFaultsDegrade'
    BY <1>0, <1>1 DEF Fault
  <1>2. ASSUME NEW r \in Request, AppendWrite(r) PROVE OnlyFaultsDegrade'
    <2>1. req[r].seen = head /\ head.seq + 1 \notin DOMAIN table
      BY <1>2, AuditAssumption DEF AppendWrite, LockInv, ChainInv
    <2>2. \/ degraded' = [degraded EXCEPT ![req[r].proc] = FALSE] /\ faults' = faults
          \/ Fault
      BY <1>2, <2>1 DEF AppendWrite
    <2>3. CASE degraded' = [degraded EXCEPT ![req[r].proc] = FALSE] /\ faults' = faults
      BY <2>3
    <2>4. CASE Fault
      BY <1>0, <2>4 DEF Fault
    <2> QED
      BY <2>2, <2>3, <2>4
  <1>3. ASSUME NEW r \in Request, AppendFails(r) PROVE OnlyFaultsDegrade'
    BY <1>0, <1>3 DEF AppendFails, Fault
  <1>4. ASSUME NEW p \in Process, Restart(p) PROVE OnlyFaultsDegrade'
    <2>1. \A q \in Process : degraded'[q] => degraded[q]
      BY <1>4 DEF Restart
    <2>2. faults' = faults \/ faults' = faults + 1
      BY <1>4 DEF Restart, Fault
    <2> QED
      BY <1>0, <2>1, <2>2
  <1>5. ASSUME NEW r \in Request, Arrive(r) \/ Handle(r) \/ Raise(r) \/ AppendRead(r)
        PROVE  OnlyFaultsDegrade'
    BY <1>1, <1>5 DEF Arrive, Handle, Raise, AppendRead
  <1>6. ASSUME Rotate \/ Tamper \/ VerifyRows \/ (\E p \in Process : VerifyState(p))
                 \/ UNCHANGED vars
        PROVE  OnlyFaultsDegrade'
    BY <1>1, <1>6 DEF Rotate, Tamper, VerifyRows, VerifyState, vars
  <1> QED
    BY <1>2, <1>3, <1>4, <1>5, <1>6 DEF Next, RequestNext

\* A step of one request changes no other, and makes none new.
LEMMA OneRequestMoves ==
  ASSUME ProcessInv, NEW q \in Request, RequestNext(q)
  PROVE  /\ \A r \in Request \ {q} : req'[r] = req[r]
         /\ req'[q].pc # "new"
  <1> USE DEF ProcessInv
  <1>1. CASE Arrive(q)
    BY <1>1 DEF Arrive, ReqField
  <1>2. CASE Handle(q)
    BY <1>2 DEF Handle, ReqField
  <1>3. CASE Raise(q)
    <2>1. PICK e \in BOOLEAN : req' = [req EXCEPT ![q] = Finished("lost", e)]
      BY <1>3 DEF Raise
    <2>2. req'[q] = Finished("lost", e)
      BY <2>1
    <2> QED
      BY <2>1, <2>2, FinishedRequest
  <1>4. CASE AppendRead(q)
    BY <1>4 DEF AppendRead, ReqField
  <1>5. CASE AppendWrite(q)
    BY <1>5, FinishedRequest DEF AppendWrite
  <1>6. CASE AppendFails(q)
    BY <1>6, FinishedRequest DEF AppendFails
  <1> QED
    BY <1>1, <1>2, <1>3, <1>4, <1>5, <1>6 DEF RequestNext

\* What one step may do to a request that is past its arrival.
Harmless(r) ==
  /\ ~req[r].effect /\ req[r].pc # "new"
  /\ req[r].pc = "handling" => ~req[r].mutates

LEMMA StepKeepsHarmless ==
  ASSUME ProcessInv, ClosedInv, [Next]_vars, NEW r \in Request, Harmless(r)
  PROVE  Harmless(r)'
  <1> USE DEF Harmless, ProcessInv
  <1>1. CASE Handle(r)
    BY <1>1 DEF Handle, ReqField
  <1>2. CASE Raise(r)
    <2>1. PICK e \in {req[r].mutates, FALSE} : req' = [req EXCEPT ![r] = Finished("lost", e)]
      BY <1>2 DEF Raise
    <2>2. e = FALSE
      BY <1>2 DEF Raise
    <2>3. req'[r] = Finished("lost", FALSE)
      BY <2>1, <2>2
    <2> QED
      BY <2>3, FinishedRequest
  <1>3. CASE AppendRead(r)
    BY <1>3 DEF AppendRead, ReqField
  <1>4. CASE AppendWrite(r) \/ AppendFails(r)
    <2>1. req'[r] = Finished("done", FALSE)
      BY <1>4 DEF AppendWrite, AppendFails
    <2> QED
      BY <2>1, FinishedRequest
  <1>5. CASE Arrive(r)
    BY <1>5 DEF Arrive
  <1>6. ASSUME NEW q \in Request \ {r}, RequestNext(q) PROVE Harmless(r)'
    BY <1>6, OneRequestMoves
  <1>7. ASSUME NEW p \in Process, Restart(p) PROVE Harmless(r)'
    <2>1. req'[r] = req[r] \/ req'[r] = Finished("lost", req[r].effect)
      BY <1>7 DEF Restart
    <2> QED
      BY <2>1, FinishedRequest
  <1>8. ASSUME Rotate \/ Tamper \/ VerifyRows \/ (\E p \in Process : VerifyState(p))
                 \/ UNCHANGED vars
        PROVE  Harmless(r)'
    BY <1>8 DEF Rotate, Tamper, VerifyRows, VerifyState, vars
  <1> QED
    BY <1>1, <1>2, <1>3, <1>4, <1>5, <1>6, <1>7, <1>8 DEF Next, RequestNext

\* A request that a degraded process lets in is harmless.
LEMMA ArrivalIsHarmless ==
  ASSUME ProcessInv, ClosedInv, NEW r \in Request, Arrive(r)
  PROVE  /\ degraded' = degraded
         /\ \A p \in Process :
              since'[p] = since[p] \/
              (degraded[p] /\ since'[p] = since[p] \cup {r} /\ Harmless(r)')
  <1>1. PICK p \in Process, m \in BOOLEAN :
          /\ req' = [req EXCEPT ![r] =
               [@ EXCEPT !.pc = IF degraded[p] /\ m THEN "auditing" ELSE "handling",
                         !.proc = p, !.mutates = m]]
          /\ since' = [since EXCEPT ![p] = IF degraded[p] THEN @ \cup {r} ELSE @]
    BY DEF Arrive
  <1>2. req[r].pc = "new" /\ ~req[r].effect /\ degraded' = degraded
    BY DEF Arrive, ClosedInv
  <1>3. /\ req'[r].pc = IF degraded[p] /\ m THEN "auditing" ELSE "handling"
        /\ req'[r].mutates = m /\ req'[r].effect = req[r].effect
    BY <1>1 DEF ProcessInv, ReqField
  <1>4. degraded[p] => Harmless(r)'
    BY <1>2, <1>3 DEF Harmless
  <1>5. \A q \in Process : since'[q] = IF q = p /\ degraded[p] THEN since[q] \cup {r} ELSE since[q]
    BY <1>1 DEF ClosedInv
  <1> QED
    BY <1>2, <1>4, <1>5

LEMMA StepKeepsClosed ==
  ASSUME ProcessInv, ClosedInv, [Next]_vars
  PROVE  ClosedInv'
  <1>1. since' \in [Process -> SUBSET Request]
    <2> USE DEF ClosedInv
    <2>1. ASSUME NEW r \in Request, Arrive(r) PROVE since' \in [Process -> SUBSET Request]
      BY <2>1 DEF Arrive
    <2>2. ASSUME NEW r \in Request, AppendWrite(r) \/ AppendFails(r)
          PROVE  since' \in [Process -> SUBSET Request]
      BY <2>2 DEF AppendWrite, AppendFails, Degrade
    <2>3. ASSUME NEW r \in Request, Handle(r) \/ Raise(r) \/ AppendRead(r)
          PROVE  since' = since
      BY <2>3 DEF Handle, Raise, AppendRead
    <2>4. ASSUME NEW p \in Process, Restart(p) PROVE since' \in [Process -> SUBSET Request]
      BY <2>4 DEF Restart
    <2>5. ASSUME Rotate \/ Tamper \/ VerifyRows \/ (\E p \in Process : VerifyState(p))
                   \/ UNCHANGED vars
          PROVE  since' = since
      BY <2>5 DEF Rotate, Tamper, VerifyRows, VerifyState, vars
    <2> QED
      BY <2>1, <2>2, <2>3, <2>4, <2>5 DEF Next, RequestNext
  <1>2. ASSUME NEW p \in Process
        PROVE  /\ since'[p] # {} => degraded'[p]
               /\ \A r \in since'[p] : Harmless(r)'
    <2>0. /\ since[p] # {} => degraded[p]
          /\ \A r \in since[p] : r \in Request /\ Harmless(r)'
      BY StepKeepsHarmless DEF ClosedInv, Harmless
    <2>1. ASSUME NEW r \in Request, Arrive(r) 
          PROVE  /\ since'[p] # {} => degraded'[p]
                 /\ \A q \in since'[p] : Harmless(q)'
      <3>1. \/ since'[p] = since[p]
            \/ degraded[p] /\ since'[p] = since[p] \cup {r} /\ Harmless(r)'
        BY <2>1, ArrivalIsHarmless
      <3>2. degraded' = degraded
        BY <2>1, ArrivalIsHarmless
      <3> HIDE DEF Harmless
      <3> QED
        BY ONLY <2>0, <3>1, <3>2
    <2>2. \/ since'[p] = {}
          \/ since'[p] = since[p] /\ degraded'[p] = degraded[p]
          \/ \E r \in Request : Arrive(r)
          \/ degraded'[p] /\ since'[p] \subseteq since[p]
      <3>1. ASSUME NEW r \in Request, AppendWrite(r) \/ AppendFails(r)
            PROVE  \/ since'[p] = {}
                   \/ since'[p] = since[p] /\ degraded'[p] = degraded[p]
                   \/ degraded'[p] /\ since'[p] \subseteq since[p]
        <4>1. \/ /\ degraded' = [degraded EXCEPT ![req[r].proc] = FALSE]
                 /\ since' = [since EXCEPT ![req[r].proc] = {}]
              \/ Degrade(req[r].proc)
          BY <3>1 DEF AppendWrite, AppendFails
        <4> QED
          BY <4>1 DEF Degrade, ProcessInv, ClosedInv
      <3>2. ASSUME NEW q \in Process, Restart(q)
            PROVE  since'[p] = {} \/ (since'[p] = since[p] /\ degraded'[p] = degraded[p])
        BY <3>2 DEF Restart, ProcessInv, ClosedInv
      <3>3. ASSUME NEW r \in Request, Handle(r) \/ Raise(r) \/ AppendRead(r)
            PROVE  UNCHANGED <<since, degraded>>
        BY <3>3 DEF Handle, Raise, AppendRead
      <3>4. ASSUME Rotate \/ Tamper \/ VerifyRows \/ (\E q \in Process : VerifyState(q))
                     \/ UNCHANGED vars
            PROVE  UNCHANGED <<since, degraded>>
        BY <3>4 DEF Rotate, Tamper, VerifyRows, VerifyState, vars
      <3> QED
        BY <3>1, <3>2, <3>3, <3>4 DEF Next, RequestNext
    <2> HIDE DEF Harmless
    <2> QED
      BY ONLY <2>0, <2>1, <2>2
  <1>3. \A r \in Request : (req[r].pc = "new" => ~req[r].effect)'
    <2> SUFFICES ASSUME NEW r \in Request, req'[r].pc = "new" PROVE req'[r] = req[r]
      BY DEF ClosedInv
    <2>1. ASSUME NEW q \in Request, RequestNext(q) PROVE req'[r] = req[r]
      BY <2>1, OneRequestMoves
    <2>2. ASSUME NEW p \in Process, Restart(p) PROVE req'[r] = req[r]
      BY <2>2, FinishedRequest DEF Restart, ProcessInv
    <2>3. ASSUME Rotate \/ Tamper \/ VerifyRows \/ (\E p \in Process : VerifyState(p))
                   \/ UNCHANGED vars
          PROVE  req'[r] = req[r]
      BY <2>3 DEF Rotate, Tamper, VerifyRows, VerifyState, vars
    <2> QED
      BY <2>1, <2>2, <2>3 DEF Next
  <1> QED
    BY <1>1, <1>2, <1>3 DEF ClosedInv, Harmless

-----------------------------------------------------------------------------
(* The theorems.                                                           *)

\* The events that are older than key identifiers form an intact chain.
LEMMA LegacyIsIntact ==
  ASSUME Init
  PROVE  ChainInv
  <1>0. Legacy \in Nat /\ MaxKey \in Nat \ {0}
    BY AuditAssumption
  <1>1. ASSUME NEW n \in 0 .. Legacy
        PROVE  LegacyHash(n) \in Hash /\ Len(LegacyHash(n)) = n
    <2>1. \A i \in 1 .. n : Link(i, LegacyKey, 1, NULL) \in LinkType
      BY <1>0 DEF Link, LegacyKey, LinkType, Key
    <2>2. LegacyHash(n) \in [1 .. n -> LinkType] /\ n \in Nat
      BY <1>0, <2>1 DEF LegacyHash
    <2> QED
      BY <2>2 DEF Hash
  <1>2. ASSUME NEW n \in 1 .. Legacy
        PROVE  LegacyHash(n) = Append(LegacyHash(n - 1), Link(n, LegacyKey, 1, NULL))
    <2>1. n - 1 \in 0 .. Legacy /\ n \in 0 .. Legacy
      BY <1>0
    <2>2. LegacyHash(n - 1) \in Hash /\ Len(LegacyHash(n - 1)) = n - 1
      BY <1>1, <2>1
    <2> DEFINE extended == [i \in 1 .. n |-> IF i = n THEN Link(n, LegacyKey, 1, NULL)
                                               ELSE LegacyHash(n - 1)[i]]
    <2>3. Append(LegacyHash(n - 1), Link(n, LegacyKey, 1, NULL)) = extended
      <3>1. Len(LegacyHash(n - 1)) + 1 = n
        BY <1>0, <2>2
      <3>2. Append(LegacyHash(n - 1), Link(n, LegacyKey, 1, NULL))
              = [i \in 1 .. (Len(LegacyHash(n - 1)) + 1) |->
                   IF i = Len(LegacyHash(n - 1)) + 1 THEN Link(n, LegacyKey, 1, NULL)
                   ELSE LegacyHash(n - 1)[i]]
        BY <2>2 DEF Hash
      <3> QED
        BY ONLY <3>1, <3>2
    <2>4. LegacyHash(n) = extended
      BY <1>0 DEF LegacyHash
    <2> QED
      BY <2>3, <2>4
  <1>3. DOMAIN table = 1 .. Legacy /\ \A n \in 1 .. Legacy : table[n] = LegacyRow(n)
    BY DEF Init
  <1>4. ASSUME NEW n \in 0 .. Legacy PROVE PrevHash(n + 1) = LegacyHash(n)
    <2>1. CASE n = 0
      <3>1. LegacyHash(0) = <<>>
        BY <1>0, <1>1, EmptySeq DEF Hash
      <3> QED
        BY <2>1, <3>1 DEF PrevHash
    <2>2. CASE n # 0
      <3>1. n \in 1 .. Legacy /\ (n + 1) - 1 = n /\ n + 1 # 1
        BY <1>0, <2>2
      <3>2. table[n].hash = LegacyHash(n)
        BY <1>3, <3>1 DEF LegacyRow
      <3> QED
        BY <3>1, <3>2 DEF PrevHash
    <2> QED
      BY <2>1, <2>2
  <1>5. ASSUME NEW n \in 1 .. Legacy
        PROVE  /\ table[n].prev = PrevHash(n) /\ Len(table[n].hash) = n
               /\ table[n].hash =
                    Append(PrevHash(n), Link(n, table[n].kid, SecretOf(table[n].kid), table[n].body))
               /\ table[n].body # "altered" /\ Legacy # 0 /\ table[n] \in RowType
    <2>1. n - 1 \in 0 .. Legacy /\ (n - 1) + 1 = n /\ n \in 0 .. Legacy
      BY <1>0
    <2>2. PrevHash(n) = LegacyHash(n - 1)
      BY <1>4, <2>1
    <2>3. /\ table[n].kid = LegacyKey /\ table[n].body = NULL /\ table[n].prev = LegacyHash(n - 1)
          /\ table[n].hash = LegacyHash(n)
      BY <1>3 DEF LegacyRow
    <2>4. table[n] \in RowType
      <3>1. LegacyHash(n) \in Hash /\ LegacyHash(n - 1) \in Hash
        BY <1>1, <2>1
      <3> QED
        BY <1>0, <1>3, <3>1 DEF LegacyRow, RowType, LegacyKey, Hash
    <2>5. SecretOf(LegacyKey) = 1
      BY DEF SecretOf
    <2>6. Len(LegacyHash(n)) = n
      BY <1>1, <2>1
    <2>7. LegacyHash(n) = Append(LegacyHash(n - 1), Link(n, LegacyKey, 1, NULL))
      BY <1>2
    <2>8. NULL # "altered" /\ Legacy # 0
      BY <1>0, AuditAssumption
    <2> HIDE DEF LegacyHash
    <2> QED
      BY ONLY <2>2, <2>3, <2>4, <2>5, <2>6, <2>7, <2>8
  <1>6. head.seq = Legacy /\ head.hash = LegacyHash(Legacy) /\ head \in [seq : Nat, hash : Hash]
    <2>1. Legacy \in 0 .. Legacy
      BY <1>0
    <2> QED
      BY <1>0, <1>1, <2>1 DEF Init
  <1>7. head.hash = PrevHash(head.seq + 1)
    <2>1. Legacy \in 0 .. Legacy
      BY <1>0
    <2> QED
      BY <1>4, <1>6, <2>1
  <1>8. Intact
    BY <1>3, <1>5, <1>6, <1>7 DEF Intact
  <1> QED
    BY <1>3, <1>5, <1>6, <1>8 DEF ChainInv, Init

LEMMA InitInv ==
  ASSUME Init
  PROVE  IInv
  <1>1. \A r \in Request :
          /\ DOMAIN req[r] = ReqField /\ req[r].pc = "new" /\ req[r].proc = NULL
          /\ req[r].mutates = FALSE /\ req[r].effect = FALSE
          /\ req[r].seen \in [seq : Nat, hash : Hash]
    BY EmptyHash DEF Init, NewRequest, NoHead, ReqField
  <1>2. ProcessInv
    <2>1. config \in Key /\ ring \in [Process -> 1 .. config]
      BY AuditAssumption DEF Init, Key
    <2>2. faults \in 0 .. MaxFaults
      BY AuditAssumption DEF Init
    <2>3. degraded \in [Process -> BOOLEAN] /\ tampered \in BOOLEAN
      BY DEF Init
    <2>4. DOMAIN req = Request
      BY DEF Init
    <2> QED
      BY <1>1, <2>1, <2>2, <2>3, <2>4 DEF ProcessInv, Pc
  <1>3. LockInv
    BY <1>1, AuditAssumption DEF Init, LockInv
  <1>4. CheckInv /\ FoundInv
    BY DEF Init, CheckInv, FoundInv, NoCheck, TamperIsDetected, RotationKeepsHistory
  <1>5. ClosedInv /\ OnlyFaultsDegrade
    BY <1>1 DEF Init, ClosedInv, OnlyFaultsDegrade
  <1> QED
    BY <1>2, <1>3, <1>4, <1>5, LegacyIsIntact DEF IInv

\* The inductive invariant: it holds whatever the processes append, in any
\* order, and whatever fails, dies, is rotated, or is edited.
THEOREM Invariance == Spec => []IInv
  <1>1. Init => IInv
    BY InitInv
  <1>2. IInv /\ [Next]_vars => IInv'
    BY StepKeepsProcesses, StepKeepsLock, StepKeepsChain, StepKeepsCheck, StepKeepsFound,
       StepKeepsBlame, StepKeepsClosed DEF IInv
  <1> QED
    BY <1>1, <1>2, PTL DEF Spec

RequestType ==
  [pc : Pc, proc : Process \cup {NULL}, mutates : BOOLEAN, effect : BOOLEAN,
   seen : [seq : Nat, hash : Hash]]

\* A request is a record of its type, whatever it has read of the chain.
LEMMA StepKeepsRequestType ==
  ASSUME IInv, req \in [Request -> RequestType], [Next]_vars
  PROVE  req' \in [Request -> RequestType]
  <1>1. head \in [seq : Nat, hash : Hash] /\ lock \in Request \cup {NULL}
    BY DEF IInv, ChainInv, LockInv
  <1>2. ASSUME NEW r \in Request, NEW pc \in Pc, NEW effect \in BOOLEAN
        PROVE  Finished(pc, effect) \in RequestType
    BY <1>2, EmptyHash DEF Finished, NewRequest, NoHead, RequestType
  <1>3. ASSUME NEW r \in Request, NEW new \in RequestType, req' = [req EXCEPT ![r] = new]
        PROVE  req' \in [Request -> RequestType]
    BY <1>3
  <1>4. ASSUME NEW r \in Request PROVE req[r] \in RequestType
    BY <1>4
  <1>5. ASSUME NEW r \in Request, Arrive(r) PROVE req' \in [Request -> RequestType]
    <2>1. PICK p \in Process, m \in BOOLEAN :
            req' = [req EXCEPT ![r] =
              [@ EXCEPT !.pc = IF degraded[p] /\ m THEN "auditing" ELSE "handling",
                        !.proc = p, !.mutates = m]]
      BY <1>5 DEF Arrive
    <2> DEFINE new == [req[r] EXCEPT !.pc = IF degraded[p] /\ m THEN "auditing" ELSE "handling",
                                     !.proc = p, !.mutates = m]
    <2>2. new \in RequestType
      BY <1>4 DEF RequestType, Pc
    <2>3. req' = [req EXCEPT ![r] = new]
      BY <2>1
    <2> QED
      BY <1>3, <2>2, <2>3
  <1>6. ASSUME NEW r \in Request, Handle(r) PROVE req' \in [Request -> RequestType]
    <2>1. PICK e \in BOOLEAN : req' = [req EXCEPT ![r].pc = "auditing", ![r].effect = e]
      BY <1>4, <1>6 DEF Handle, RequestType
    <2> DEFINE new == [req[r] EXCEPT !.pc = "auditing", !.effect = e]
    <2>2. new \in RequestType
      BY <1>4 DEF RequestType, Pc
    <2>3. req' = [req EXCEPT ![r] = new]
      BY <2>1
    <2> QED
      BY <1>3, <2>2, <2>3
  <1>7. ASSUME NEW r \in Request, Raise(r) \/ AppendWrite(r) \/ AppendFails(r)
        PROVE  req' \in [Request -> RequestType]
    <2>1. PICK pc \in Pc, effect \in BOOLEAN : req' = [req EXCEPT ![r] = Finished(pc, effect)]
      BY <1>4, <1>7 DEF Raise, AppendWrite, AppendFails, RequestType, Pc
    <2> QED
      BY <1>2, <1>3, <2>1
  <1>8. ASSUME NEW r \in Request, AppendRead(r) PROVE req' \in [Request -> RequestType]
    BY <1>1, <1>4, <1>8 DEF AppendRead, RequestType, Pc
  <1>9. ASSUME NEW p \in Process, Restart(p) PROVE req' \in [Request -> RequestType]
    <2>1. req' = [r \in Request |->
            IF req[r].proc = p /\ req[r].pc \in {"handling", "auditing", "writing"}
            THEN Finished("lost", req[r].effect) ELSE req[r]]
      BY <1>9 DEF Restart
    <2>2. \A r \in Request : req[r].effect \in BOOLEAN /\ "lost" \in Pc
      BY <1>4 DEF RequestType, Pc
    <2> QED
      BY <1>2, <1>4, <2>1, <2>2
  <1>10. ASSUME req' = req PROVE req' \in [Request -> RequestType]
    BY <1>10
  <1>11. CASE Rotate \/ Tamper \/ VerifyRows \/ UNCHANGED vars
    BY <1>10, <1>11 DEF Rotate, Tamper, VerifyRows, vars
  <1>12. ASSUME NEW p \in Process, VerifyState(p) PROVE req' \in [Request -> RequestType]
    BY <1>10, <1>12 DEF VerifyState
  <1> QED
    BY <1>5, <1>6, <1>7, <1>8, <1>9, <1>11, <1>12 DEF Next, RequestNext

\* Every variable has its type; no row is numbered beyond the head, no process
\* holds a key that was not configured, and rows and requests are what they are
\* said to be also after edits, deaths and faults.
THEOREM TypesAreKept == Spec => []AuditTypeOK
  <1>1. Init => req \in [Request -> RequestType]
    BY EmptyHash DEF Init, NewRequest, NoHead, RequestType, Pc
  <1>2. IInv /\ req \in [Request -> RequestType] => AuditTypeOK
    BY DEF IInv, ProcessInv, LockInv, ChainInv, CheckInv, ClosedInv, AuditTypeOK, RequestType, Hash
  <1>3. IInv /\ req \in [Request -> RequestType] /\ [Next]_vars =>
          (req \in [Request -> RequestType])'
    BY StepKeepsRequestType
  <1> QED
    BY <1>1, <1>2, <1>3, Invariance, PTL DEF Spec

\* Appends of any number of processes never fork the chain or leave a gap in it,
\* whichever of them die or fail on the way.
THEOREM ChainStaysIntact == Spec => []ChainIntact
  <1>1. IInv => ChainIntact
    BY DEF IInv, ChainInv, Intact, ChainIntact
  <1> QED
    BY <1>1, Invariance, PTL

\* No verification that begins after an edit (a changed event or key, a deleted
\* row, two exchanged rows) finds the chain valid, however much was appended.
THEOREM EditsAreFound == Spec => []TamperIsDetected
  <1>1. IInv => TamperIsDetected
    BY DEF IInv, FoundInv
  <1> QED
    BY <1>1, Invariance, PTL

\* Where no events are older than key identifiers, a process that has all keys
\* raises no false alarm, whatever is appended while it verifies.
THEOREM RotationIsSafe == ASSUME Legacy = 0 PROVE Spec => []RotationKeepsHistory
  <1>1. IInv => RotationKeepsHistory
    BY DEF IInv, FoundInv
  <1> QED
    BY <1>1, Invariance, PTL

\* However many processes append at once, none is told to degrade by another.
THEOREM NoMutualFailure == Spec => []OnlyFaultsDegrade
  <1>1. IInv => OnlyFaultsDegrade
    BY DEF IInv
  <1> QED
    BY <1>1, Invariance, PTL

\* A degraded process fails closed: what it lets in changes nothing, also when
\* it recovers, or dies, before the request ends.
THEOREM DegradedFailsClosed == Spec => []FailClosed
  <1>1. IInv => FailClosed
    BY DEF IInv, ClosedInv, FailClosed
  <1> QED
    BY <1>1, Invariance, PTL

=============================================================================
