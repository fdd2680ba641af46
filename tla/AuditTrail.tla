----------------------------- MODULE AuditTrail -----------------------------
(***************************************************************************)
(* The security audit trail: the HMAC chain that class AuditRepository     *)
(* (fraudshield/core/repository.py) appends to and verifies, and the       *)
(* middleware request_context (fraudshield/main.py) of a production API    *)
(* process, which audits every answer and fails closed when it cannot.     *)
(*                                                                         *)
(* Several API processes share the database.  An append is one transaction *)
(* around a row lock on audit_chain_state, so it is two steps: read the    *)
(* head under the lock, and write.  A verification is two queries, with    *)
(* appends between them.  Keys are rotated as docs/runbooks/               *)
(* KEY_ROTATION.md says: old keys stay in the ring of a restarted process. *)
(*                                                                         *)
(* HMAC is taken to be injective: a hash is the sequence of everything     *)
(* that went into it, one link per event.                                  *)
(***************************************************************************)
EXTENDS Naturals, Sequences, FiniteSets, TLC

CONSTANTS
  Process,      \* API processes that share the database
  Request,      \* requests to audited routes, each used once
  NULL,
  MaxKey,       \* bound: how many audit keys are ever configured
  Legacy,       \* how many events are older than the column audit_key_id
  MaxFaults,    \* bound: database faults and crashes, together
  MayTamper     \* whether somebody edits rows behind the repository's back

ASSUME AuditAssumption ==
  /\ NULL \notin Request \cup Process /\ NULL \notin Nat
  /\ "altered" \notin Request \cup {NULL}
  /\ MaxKey \in Nat \ {0}
  /\ Legacy \in Nat
  /\ MaxFaults \in Nat
  /\ MayTamper \in BOOLEAN

VARIABLES
  table,     \* audit_events: sequence numbers -> rows
  head,      \* audit_chain_state: the last sequence number and hash
  lock,      \* the request whose append has locked audit_chain_state
  config,    \* the newest audit key that operators have configured
  ring,      \* [Process -> its current key]; it also knows every older one
  degraded,  \* [Process -> app.state.audit_degraded]
  req,       \* [Request -> where it is]
  check,     \* a verification of the chain
  faults,    \* faults and crashes so far
  tampered,  \* somebody has edited a row
  since      \* history: [Process -> the requests that arrived while degraded]

chain == <<table, head, lock>>

vars == <<chain, config, ring, degraded, req, check, faults, tampered, since>>

LegacyKey == 0      \* the audit_key_id 'legacy'; its events were signed with key 1

Pc == {"new", "handling", "auditing", "writing", "done", "lost"}

NoHead == [seq |-> 0, hash |-> <<>>]

NewRequest ==
  [pc |-> "new", proc |-> NULL, mutates |-> FALSE, effect |-> FALSE, seen |-> NoHead]

NoCheck == [pc |-> "idle", proc |-> NULL, target |-> 0, hash |-> <<>>,
            dirty |-> FALSE, verdict |-> "none"]

-----------------------------------------------------------------------------
(* The chain *)

\* What event n adds to the chain; the key is the secret that signs it.
Link(n, kid, key, body) == [seq |-> n, kid |-> kid, key |-> key, body |-> body]

LegacyHash(n) == [i \in 1 .. n |-> Link(i, LegacyKey, 1, NULL)]

LegacyRow(n) ==
  [kid |-> LegacyKey, body |-> NULL, prev |-> LegacyHash(n - 1), hash |-> LegacyHash(n)]

\* event_hash of the row before n, the previous_hash that verification carries
PrevHash(n) == IF n = 1 THEN <<>> ELSE table[n - 1].hash

\* A bug: the previous keys are not consulted.
KeyForCurrentOnly(p, kid) == IF kid \in {LegacyKey, ring[p]} THEN ring[p] ELSE NULL

\* The secret that process p verifies a row with; NULL: audit_key_unavailable.
KeyFor(p, kid) ==
  IF kid = LegacyKey THEN ring[p] ELSE IF kid <= ring[p] THEN kid ELSE NULL

RowHolds(p, n) ==
  LET row == table[n] IN
  /\ row.prev = PrevHash(n)
  /\ row.hash = Append(PrevHash(n), Link(n, row.kid, KeyFor(p, row.kid), row.body))

\* A bug: the last event is not compared with audit_chain_state.
VerdictSkipsHead(p, target, hash) ==
  LET rows == {n \in DOMAIN table : n <= target}
  IN IF \A n \in rows : 1 .. n \subseteq rows /\ KeyFor(p, table[n].kid) # NULL /\ RowHolds(p, n)
     THEN "valid" ELSE "mismatch"

\* verify_chain walks the rows up to `target` in order and stops at the first
\* one that is not the next of an intact chain.
Verdict(p, target, hash) ==
  LET rows  == {n \in DOMAIN table : n <= target}
      good  == {n \in rows : /\ 1 .. n \subseteq rows
                             /\ \A i \in 1 .. n : /\ KeyFor(p, table[i].kid) # NULL
                                                  /\ RowHolds(p, i)}
      bad   == rows \ good
      count == Cardinality(good)
  IN IF bad # {}
     THEN LET n == CHOOSE i \in bad : \A k \in bad : i <= k
          IN IF KeyFor(p, table[n].kid) = NULL THEN "unavailable" ELSE "mismatch"
     ELSE IF count = target /\ hash = (IF count = 0 THEN <<>> ELSE table[count].hash)
     THEN "valid" ELSE "mismatch"

-----------------------------------------------------------------------------

Init ==
  /\ table = [n \in 1 .. Legacy |-> LegacyRow(n)]
  /\ head = [seq |-> Legacy, hash |-> LegacyHash(Legacy)]
  /\ lock = NULL
  /\ config = 1
  /\ ring = [p \in Process |-> 1]
  /\ degraded = [p \in Process |-> FALSE]
  /\ req = [r \in Request |-> NewRequest]
  /\ check = NoCheck
  /\ faults = 0
  /\ tampered = FALSE
  /\ since = [p \in Process |-> {}]

Degrade(p) ==
  /\ degraded' = [degraded EXCEPT ![p] = TRUE]
  /\ since' = [since EXCEPT ![p] = IF degraded[p] THEN @ ELSE {}]

Fault == faults < MaxFaults /\ faults' = faults + 1

\* What is left of a request when its answer is sent, or never will be.
Finished(pc, effect) == [NewRequest EXCEPT !.pc = pc, !.effect = effect]

\* The middleware calls append without await: until it returns, the event loop
\* of the process runs nothing else.
LoopIsFree(p) == \A r \in Request : req[r].proc = p => req[r].pc # "writing"

-----------------------------------------------------------------------------
(* Requests *)

\* A bug: mutations are handled whatever became of the audit trail.
ArriveAnyway(r) ==
  /\ req[r].pc = "new"
  /\ \E p \in Process, m \in BOOLEAN :
       /\ LoopIsFree(p)
       /\ req' = [req EXCEPT ![r] =
            [@ EXCEPT !.pc = "handling", !.proc = p, !.mutates = m]]
       /\ since' = [since EXCEPT ![p] = IF degraded[p] THEN @ \cup {r} ELSE @]
  /\ UNCHANGED <<chain, config, ring, degraded, check, faults, tampered>>

\* The middleware answers 503 to a mutation while the process is degraded;
\* otherwise the request is handled.  Both answers are audited.
Arrive(r) ==
  /\ req[r].pc = "new"
  /\ \E p \in Process, m \in BOOLEAN :
       /\ LoopIsFree(p)
       /\ req' = [req EXCEPT ![r] =
            [@ EXCEPT !.pc = IF degraded[p] /\ m THEN "auditing" ELSE "handling",
                      !.proc = p, !.mutates = m]]
       /\ since' = [since EXCEPT ![p] = IF degraded[p] THEN @ \cup {r} ELSE @]
  /\ UNCHANGED <<chain, config, ring, degraded, check, faults, tampered>>

\* call_next: the handler answers, after it has changed something or not.
Handle(r) ==
  /\ req[r].pc = "handling"
  /\ \E e \in {req[r].mutates, FALSE} :
       req' = [req EXCEPT ![r].pc = "auditing", ![r].effect = e]
  /\ UNCHANGED <<chain, config, ring, degraded, check, faults, tampered, since>>

\* The handler raises an unexpected exception.  The handler of Exception
\* (main.py:293) runs outside this middleware, so call_next raises too and the
\* rest of the middleware is skipped.
Raise(r) ==
  /\ req[r].pc = "handling"
  /\ \E e \in {req[r].mutates, FALSE} :
       req' = [req EXCEPT ![r] = Finished("lost", e)]
  /\ UNCHANGED <<chain, config, ring, degraded, check, faults, tampered, since>>

\* A bug: the SELECT does not lock the row.
AppendReadUnlocked(r) ==
  /\ req[r].pc = "auditing"
  /\ LoopIsFree(req[r].proc)
  /\ req' = [req EXCEPT ![r].pc = "writing", ![r].seen = head]
  /\ UNCHANGED <<chain, config, ring, degraded, check, faults, tampered, since>>

\* BEGIN; SELECT ... FROM audit_chain_state ... FOR UPDATE (BEGIN IMMEDIATE on
\* SQLite): one transaction at a time has read the head.
AppendRead(r) ==
  /\ req[r].pc = "auditing"
  /\ lock = NULL
  /\ LoopIsFree(req[r].proc)
  /\ lock' = r
  /\ req' = [req EXCEPT ![r].pc = "writing", ![r].seen = head]
  /\ UNCHANGED <<table, head, config, ring, degraded, check, faults, tampered, since>>

\* INSERT INTO audit_events.
WithRow(n, row) == [i \in DOMAIN table \cup {n} |-> IF i = n THEN row ELSE table[i]]

\* A bug: audit_chain_state is not updated.
AppendSkipsHead(r) ==
  LET p == req[r].proc
      n == req[r].seen.seq + 1
      hash == Append(req[r].seen.hash, Link(n, ring[p], ring[p], r)) IN
  /\ req[r].pc = "writing"
  /\ lock' = NULL
  /\ table' = WithRow(n, [kid |-> ring[p], body |-> r, prev |-> req[r].seen.hash, hash |-> hash])
  /\ req' = [req EXCEPT ![r] = Finished("done", @.effect)]
  /\ degraded' = [degraded EXCEPT ![p] = FALSE]
  /\ since' = [since EXCEPT ![p] = {}]
  /\ UNCHANGED <<head, config, ring, check, faults, tampered>>

\* INSERT, UPDATE, COMMIT; then the event is read again, which may fail after
\* the commit.  A sequence number that is taken violates the UNIQUE constraint.
AppendWrite(r) ==
  LET p == req[r].proc
      n == req[r].seen.seq + 1
      prev == req[r].seen.hash
      hash == Append(prev, Link(n, ring[p], ring[p], r))
      free == n \notin DOMAIN table IN
  /\ req[r].pc = "writing"
  /\ lock' = IF lock = r THEN NULL ELSE lock
  /\ table' = IF free
       THEN WithRow(n, [kid |-> ring[p], body |-> r, prev |-> prev, hash |-> hash])
       ELSE table
  /\ head' = IF free THEN [seq |-> n, hash |-> hash] ELSE head
  /\ req' = [req EXCEPT ![r] = Finished("done", @.effect)]
  /\ \/ /\ IF free
           THEN /\ degraded' = [degraded EXCEPT ![p] = FALSE]
                /\ since' = [since EXCEPT ![p] = {}]
           ELSE Degrade(p)
        /\ UNCHANGED faults
     \/ Degrade(p) /\ Fault
  /\ UNCHANGED <<config, ring, check, tampered>>

\* A bug: the INSERT and the UPDATE are not one transaction.
AppendFailsHalfway(r) ==
  /\ req[r].pc = "writing"
  /\ Fault
  /\ lock' = NULL
  /\ LET n == req[r].seen.seq + 1
         k == ring[req[r].proc]
     IN table' = WithRow(n, [kid |-> k, body |-> r, prev |-> req[r].seen.hash,
                             hash |-> Append(req[r].seen.hash, Link(n, k, k, r))])
  /\ Degrade(req[r].proc)
  /\ req' = [req EXCEPT ![r] = Finished("done", @.effect)]
  /\ UNCHANGED <<head, config, ring, check, tampered>>

\* The database is away: the transaction is rolled back, the answer is sent.
AppendFails(r) ==
  /\ req[r].pc \in {"auditing", "writing"}
  /\ Fault
  /\ lock' = IF lock = r THEN NULL ELSE lock
  /\ Degrade(req[r].proc)
  /\ req' = [req EXCEPT ![r] = Finished("done", @.effect)]
  /\ UNCHANGED <<table, head, config, ring, check, tampered>>

-----------------------------------------------------------------------------
(* Operators *)

\* Steps 1 to 4 of the runbook: a new key, and the old ones as previous keys.
Rotate ==
  /\ config < MaxKey
  /\ config' = config + 1
  /\ UNCHANGED <<chain, ring, degraded, req, check, faults, tampered, since>>

\* A process dies, or is rolled to the new keys, and starts again: what was in
\* flight is lost, and so is the flag.
Restart(p) ==
  /\ \/ ring[p] < config /\ UNCHANGED faults
     \/ ring[p] = config /\ Fault
  /\ ring' = [ring EXCEPT ![p] = config]
  /\ degraded' = [degraded EXCEPT ![p] = FALSE]
  /\ since' = [since EXCEPT ![p] = {}]
  /\ lock' = IF lock # NULL /\ req[lock].proc = p THEN NULL ELSE lock
  /\ req' = [r \in Request |->
       IF req[r].proc = p /\ req[r].pc \in {"handling", "auditing", "writing"}
       THEN Finished("lost", req[r].effect) ELSE req[r]]
  /\ check' = IF check.proc = p THEN NoCheck ELSE check
  /\ UNCHANGED <<table, head, config, tampered>>

\* Somebody edits or deletes one row, or exchanges the contents of two.
Tamper ==
  /\ MayTamper
  /\ lock = NULL
  /\ \E n \in DOMAIN table :
       \/ table' = [table EXCEPT ![n].body = "altered"]
       \/ \E k \in 0 .. MaxKey \ {table[n].kid} : table' = [table EXCEPT ![n].kid = k]
       \/ table' = [i \in DOMAIN table \ {n} |-> table[i]]
       \/ \E m \in DOMAIN table \ {n} :
            table' = [table EXCEPT ![n] = table[m], ![m] = table[n]]
  /\ tampered' = TRUE
  /\ ~tampered
  /\ UNCHANGED <<head, lock, config, ring, degraded, req, check, faults, since>>

-----------------------------------------------------------------------------
(* GET /api/v1/audit-events/verify *)

\* The first query reads the head ...
VerifyState(p) ==
  /\ check.pc # "reading"
  /\ check' = [pc |-> "reading", proc |-> p, target |-> head.seq, hash |-> head.hash,
               dirty |-> tampered, verdict |-> "none"]
  /\ UNCHANGED <<chain, config, ring, degraded, req, faults, tampered, since>>

\* ... the second one the rows up to it.
VerifyRows ==
  /\ check.pc = "reading"
  /\ check' = [NoCheck EXCEPT !.pc = "done", !.proc = check.proc, !.dirty = check.dirty,
                              !.verdict = Verdict(check.proc, check.target, check.hash)]
  /\ UNCHANGED <<chain, config, ring, degraded, req, faults, tampered, since>>

-----------------------------------------------------------------------------

RequestNext(r) ==
  \/ Arrive(r) \/ Handle(r) \/ Raise(r)
  \/ AppendRead(r) \/ AppendWrite(r) \/ AppendFails(r)

Next ==
  \/ \E r \in Request : RequestNext(r)
  \/ \E p \in Process : Restart(p) \/ VerifyState(p)
  \/ VerifyRows
  \/ Rotate
  \/ Tamper

Spec == Init /\ [][Next]_vars

-----------------------------------------------------------------------------
(* Properties *)

Key == 1 .. MaxKey

LinkType == [seq : Nat, kid : 0 .. MaxKey, key : Key, body : Request \cup {NULL}]

RowType ==
  [kid : 0 .. MaxKey, body : Request \cup {NULL, "altered"},
   prev : Seq(LinkType), hash : Seq(LinkType)]

AuditTypeOK ==
  /\ DOMAIN table \subseteq 1 .. head.seq
  /\ \A n \in DOMAIN table : table[n] \in RowType
  /\ head \in [seq : Nat, hash : Seq(LinkType)]
  /\ lock \in Request \cup {NULL}
  /\ config \in Key
  /\ ring \in [Process -> 1 .. config]
  /\ degraded \in [Process -> BOOLEAN]
  /\ req \in [Request -> [pc : Pc, proc : Process \cup {NULL}, mutates : BOOLEAN,
                          effect : BOOLEAN, seen : [seq : Nat, hash : Seq(LinkType)]]]
  /\ check.verdict \in {"none", "valid", "mismatch", "unavailable"}
  /\ faults \in 0 .. MaxFaults
  /\ tampered \in BOOLEAN
  /\ since \in [Process -> SUBSET Request]

\* As long as nobody edits rows, the events are numbered without gaps from 1 to
\* the head, and each one is signed over the hash of the one before: concurrent
\* appends of several processes, crashes and faults never fork the chain.
ChainIntact ==
  ~tampered =>
    /\ DOMAIN table = 1 .. head.seq
    /\ head.hash = PrevHash(head.seq + 1)
    /\ \A n \in 1 .. head.seq : table[n].prev = PrevHash(n) /\ Len(table[n].hash) = n

\* docs/runbooks/KEY_ROTATION.md:8, "To rotate without breaking historical
\* verification": a verification by a process that has every key of the chain in
\* its ring raises no false alarm, whatever is appended between its two queries
\* and whichever processes still sign with an older key.
RotationKeepsHistory ==
  check.pc = "done" /\ ~tampered /\ (\A n \in DOMAIN table : table[n].kid <= ring[check.proc])
    => check.verdict = "valid"

\* tests/test_production_foundation.py:140: after a row was edited, deleted or
\* moved, no verification by any process finds the chain valid.
TamperIsDetected == check.pc = "done" /\ check.dirty => check.verdict # "valid"

\* Appends never fail of themselves: a process degrades only because of a fault
\* of the database, however many processes append at once.
OnlyFaultsDegrade == \A p \in Process : degraded[p] => faults > 0

\* docs/runbooks/OPERATIONS.md:45, "production mutations fail closed": what
\* arrives at a process between a failed append and its next successful one
\* changes nothing.
FailClosed == \A p \in Process : \A r \in since[p] : ~req[r].effect

Audited(r) == \E n \in DOMAIN table : table[n].body = r

\* docs/SECURITY_CONTROLS.md:9: "every protected request is audited".
EveryRequestIsAudited == \A r \in Request : req[r].pc \in {"done", "lost"} => Audited(r)
=============================================================================
