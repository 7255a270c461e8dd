-------------------------- MODULE SentinelIssuance --------------------------
(***************************************************************************)
(* The PRIME SENTINEL signer (worldshepherd_sara/prime_sentinel_service.py,*)
(* prime_sentinel_issuance_store.py, prime_sentinel_ledger_integrity.py):  *)
(* release authorizations issued at most once per caller request id.       *)
(*                                                                         *)
(* issue_durable is two SQLite transactions with the signature in between: *)
(* prepare_or_get fixes the identity (authorization id, nonce, times) of a *)
(* request, mark_signed stores the assertion that is then returned.  Sync  *)
(* handlers run in a thread pool, so the transactions of several requests, *)
(* or of several copies of one, interleave; a write may fail, and the      *)
(* process may die and start again with another key.                       *)
(*                                                                         *)
(* Data abstracted: the caller's parameters and the identity are model     *)
(* values (the nonce and the times come with the authorization id), and a  *)
(* signature is the material of the key that made it, since Ed25519 is     *)
(* deterministic.  A hash in the event chain is what it hashes.            *)
(***************************************************************************)
EXTENDS Naturals, Sequences, FiniteSets

CONSTANTS
  Request,     \* X-Prime-Sentinel-Request-Id values
  Params,      \* prime, target environment and lifetime a caller may ask for
  Identity,    \* fresh authorization ids (uuid4), each with its nonce
  KeyId, Material,
  KeyRings,    \* <<key id, material>> an operator may configure
  Thread,
  None,
  MaxRecords,  \* MAX_ISSUANCE_RECORDS
  MaxFaults    \* bound on failed writes and crashes in one behaviour

ASSUME KeyAssumption == KeyRings \subseteq KeyId \X Material
ASSUME LimitAssumption == MaxRecords \in Nat \ {0} /\ MaxFaults \in Nat

VARIABLES
  issuance,  \* the issuance table, by request id
  events,    \* the issuance_events table, in sequence
  bound,     \* metadata: the material each key id is bound to
  signer,    \* the running process: its <<key id, material>>, None when down
  pc,        \* "idle", or "sign": between the two transactions
  held,      \* the request and the record a signing thread read
  checking,  \* is an integrity check between its two SELECTs?
  seen,      \* the issuance table its first SELECT returned
  answered,  \* history: <<request, assertion>> returned to callers
  conflicted,\* history: requests refused although their caller changed nothing
  alarmed,   \* history: did an integrity check report a failure?
  faults

ledger == <<issuance, events, bound>>
threads == <<pc, held>>
check == <<checking, seen, alarmed>>
replies == <<answered, conflicted>>
vars == <<ledger, signer, threads, check, replies, faults>>

(* An assertion is a prepared claim and the key material of its signature. *)
(* A row keeps what was prepared and, once SIGNED, the assertion.          *)
Claim(by) == [params : Params, key : KeyId, auth : Identity, by : by]
Prepared == Claim({None})
Assertion == Claim(Material)
Row == [claim : Prepared, assertion : Assertion \union {None}]
Event == [type : {"PREPARED", "SIGNED"}, req : Request, body : Prepared \union Assertion]
Held == [req : Request, claim : Prepared]

ASSUME NoneAssumption ==
  None \notin Material \union Assertion \union Row \union Held \union (KeyId \X Material)

Exists(r) == issuance[r] # None

Init ==
  /\ issuance = [r \in Request |-> None]
  /\ events = <<>>
  /\ bound = [k \in KeyId |-> None]
  /\ signer = None
  /\ pc = [t \in Thread |-> "idle"]
  /\ held = [t \in Thread |-> None]
  /\ checking = FALSE /\ seen = [r \in Request |-> None] /\ alarmed = FALSE
  /\ answered = {} /\ conflicted = {}
  /\ faults = 0

Fault == faults < MaxFaults /\ faults' = faults + 1

AppendEvent(type, r, body) ==
  events' = Append(events, [type |-> type, req |-> r, body |-> body])

-----------------------------------------------------------------------------
(* prepare_or_get                                                          *)

(* Mutant: the capacity test comes before the lookup of the request.       *)
SameRequestWithRoom(r, p) ==
  /\ Exists(r) /\ issuance[r].claim.params = p /\ issuance[r].claim.key = signer[1]
  /\ Cardinality({q \in Request : Exists(q)}) < MaxRecords

(* The digest binds the request id to the caller's parameters and to the   *)
(* id of the configured key.                                               *)
SameRequest(r, p) ==
  Exists(r) /\ issuance[r].claim.params = p /\ issuance[r].claim.key = signer[1]

HasRoom == Cardinality({q \in Request : Exists(q)}) < MaxRecords
Unused(a) == \A q \in Request : Exists(q) => issuance[q].claim.auth # a

Insert(r, c) ==
  /\ issuance' = [issuance EXCEPT ![r] = [claim |-> c, assertion |-> None]]
  /\ AppendEvent("PREPARED", r, c)
  /\ UNCHANGED bound

(* A new request: its identity is durable before anything is signed.       *)
Prepare(t, r, p, a) ==
  /\ signer # None /\ pc[t] = "idle" /\ ~Exists(r) /\ HasRoom /\ Unused(a)
  /\ LET c == [params |-> p, key |-> signer[1], auth |-> a, by |-> None] IN
       /\ Insert(r, c)
       /\ held' = [held EXCEPT ![t] = [req |-> r, claim |-> c]]
  /\ pc' = [pc EXCEPT ![t] = "sign"]
  /\ UNCHANGED <<signer, check, replies, faults>>

(* sqlite3.Error: rolled back, or raised by the SELECT after the commit.   *)
PrepareFails(t, r, p, a) ==
  /\ signer # None /\ pc[t] = "idle" /\ ~Exists(r) /\ HasRoom /\ Unused(a)
  /\ Fault
  /\ Insert(r, [params |-> p, key |-> signer[1], auth |-> a, by |-> None])
  /\ UNCHANGED <<signer, threads, check, replies>>

(* Mutant: a retry of a PREPARED request is given a fresh identity.        *)
ResumeAnew(t, r, p) ==
  /\ signer # None /\ pc[t] = "idle" /\ SameRequest(r, p)
  /\ issuance[r].assertion = None
  /\ \E a \in Identity :
       LET c == [params |-> p, key |-> signer[1], auth |-> a, by |-> None] IN
         /\ Unused(a) /\ Insert(r, c)
         /\ held' = [held EXCEPT ![t] = [req |-> r, claim |-> c]]
  /\ pc' = [pc EXCEPT ![t] = "sign"]
  /\ UNCHANGED <<signer, check, replies, faults>>

(* A retry of a request that is PREPARED: sign what was prepared.          *)
Resume(t, r, p) ==
  /\ signer # None /\ pc[t] = "idle" /\ SameRequest(r, p)
  /\ issuance[r].assertion = None
  /\ held' = [held EXCEPT ![t] = [req |-> r, claim |-> issuance[r].claim]]
  /\ pc' = [pc EXCEPT ![t] = "sign"]
  /\ UNCHANGED <<ledger, signer, check, replies, faults>>

Answer(r, x) == answered' = answered \union {<<r, x>>} /\ UNCHANGED conflicted

(* A retry of a request that is SIGNED: the stored assertion.              *)
Replay(t, r, p) ==
  /\ signer # None /\ pc[t] = "idle" /\ SameRequest(r, p)
  /\ issuance[r].assertion # None
  /\ Answer(r, issuance[r].assertion)
  /\ UNCHANGED <<ledger, signer, threads, check, faults>>

(* PrimeSentinelRequestConflict, 409.                                      *)
Conflict(t, r, p) ==
  /\ signer # None /\ pc[t] = "idle" /\ Exists(r) /\ ~SameRequest(r, p)
  /\ conflicted' = IF issuance[r].claim.params = p THEN conflicted \union {r}
                                                   ELSE conflicted
  /\ UNCHANGED <<ledger, signer, threads, check, answered, faults>>

-----------------------------------------------------------------------------
(* mark_signed, with the assertion the thread made from the record it read.*)

Signed(t) == [held[t].claim EXCEPT !.by = signer[2]]

Promote(t) ==
  /\ issuance' = [issuance EXCEPT ![held[t].req].assertion = Signed(t)]
  /\ AppendEvent("SIGNED", held[t].req, Signed(t))
  /\ UNCHANGED bound

Done(t) == pc' = [pc EXCEPT ![t] = "idle"] /\ held' = [held EXCEPT ![t] = None]

(* Mutant: a second copy of the request promotes the record again.         *)
MarkSignedAgain(t) ==
  /\ pc[t] = "sign"
  /\ Promote(t)
  /\ Answer(held[t].req, Signed(t))
  /\ Done(t)
  /\ UNCHANGED <<signer, check, faults>>

MarkSigned(t) ==
  /\ pc[t] = "sign" /\ issuance[held[t].req].assertion = None
  /\ Promote(t)
  /\ Answer(held[t].req, Signed(t))
  /\ Done(t)
  /\ UNCHANGED <<signer, check, faults>>

(* Another copy of the request was faster: the assertions have to agree.   *)
AlreadySigned(t) ==
  /\ pc[t] = "sign" /\ issuance[held[t].req].assertion # None
  /\ IF issuance[held[t].req].assertion = Signed(t)
       THEN Answer(held[t].req, Signed(t))
       ELSE UNCHANGED replies
  /\ Done(t)
  /\ UNCHANGED <<ledger, signer, check, faults>>

(* Mutant: the assertion is returned though it could not be stored.        *)
MarkFailsOpen(t) ==
  /\ pc[t] = "sign" /\ Fault
  /\ Answer(held[t].req, Signed(t))
  /\ Done(t)
  /\ UNCHANGED <<ledger, signer, check>>

(* sqlite3.Error before or after the commit: 503 and no assertion.         *)
MarkFails(t) ==
  /\ pc[t] = "sign" /\ Fault
  /\ UNCHANGED ledger \/ (issuance[held[t].req].assertion = None /\ Promote(t))
  /\ Done(t)
  /\ UNCHANGED <<signer, check, replies>>

-----------------------------------------------------------------------------
(* The process.                                                            *)

(* Mutant: the key id is bound again to whatever key is configured.        *)
MayBindAny(k, m) == TRUE

(* _bind_signing_key_identity refuses other material for a bound key id.   *)
MayBind(k, m) == bound[k] \in {None, m}

Start(k, m) ==
  /\ signer = None /\ MayBind(k, m)
  /\ bound' = [bound EXCEPT ![k] = m]
  /\ signer' = <<k, m>>
  /\ UNCHANGED <<issuance, events, threads, check, replies, faults>>

(* The process stops between any two transactions; a transaction it is in  *)
(* is rolled back by the next connection or was committed before.          *)
Crash ==
  /\ signer # None /\ Fault
  /\ signer' = None
  /\ pc' = [t \in Thread |-> "idle"] /\ held' = [t \in Thread |-> None]
  /\ checking' = FALSE /\ seen' = [r \in Request |-> None]
  /\ UNCHANGED <<ledger, alarmed, replies>>

-----------------------------------------------------------------------------
(* verify_issuance_ledger_integrity, run by every /readyz.                 *)

(* The lifecycle its loops accept for one request, as event positions.     *)
Lifecycle(row, r, evs) ==
  LET mine == {i \in DOMAIN evs : evs[i].req = r}
      prepared(i) == evs[i].type = "PREPARED" /\ evs[i].body = row.claim
      signed(i) == evs[i].type = "SIGNED" /\ evs[i].body = row.assertion
  IN IF row.assertion = None
       THEN \E i \in mine : mine = {i} /\ prepared(i)
       ELSE \E i, j \in mine : i < j /\ mine = {i, j} /\ prepared(i) /\ signed(j)

Repeats(x, c) == \A field \in {"params", "key", "auth"} : x[field] = c[field]

(* Every event is of a record, every record has its events, and a signed   *)
(* assertion repeats its record.                                           *)
Coherent(rows, evs) ==
  /\ \A i \in DOMAIN evs : rows[evs[i].req] # None
  /\ \A r \in Request : rows[r] # None =>
       /\ Lifecycle(rows[r], r, evs)
       /\ rows[r].assertion # None => Repeats(rows[r].assertion, rows[r].claim)

CheckReadsRecords ==
  /\ signer # None /\ ~checking
  /\ checking' = TRUE /\ seen' = issuance
  /\ UNCHANGED <<ledger, signer, threads, alarmed, replies, faults>>

(* The second SELECT is a transaction of its own.                          *)
CheckReadsEvents ==
  /\ checking
  /\ checking' = FALSE /\ seen' = [r \in Request |-> None]
  /\ alarmed' = (alarmed \/ ~Coherent(seen, events))
  /\ UNCHANGED <<ledger, signer, threads, replies, faults>>

-----------------------------------------------------------------------------
Issue(t, r, p) ==
  \/ \E a \in Identity : Prepare(t, r, p, a) \/ PrepareFails(t, r, p, a)
  \/ Resume(t, r, p) \/ Replay(t, r, p) \/ Conflict(t, r, p)

Next ==
  \/ \E t \in Thread, r \in Request, p \in Params : Issue(t, r, p)
  \/ \E t \in Thread : MarkSigned(t) \/ AlreadySigned(t) \/ MarkFails(t)
  \/ \E ring \in KeyRings : Start(ring[1], ring[2])
  \/ Crash \/ CheckReadsRecords \/ CheckReadsEvents

Spec == Init /\ [][Next]_vars

(* A thread past its first transaction goes on, the container is started   *)
(* again ("unless-stopped"), and a caller left without an answer sends its *)
(* request again until the thread pool, which queues requests, takes it.   *)
Retry(r) ==
  \E t \in Thread : LET p == issuance[r].claim.params IN
    Exists(r) /\ (Resume(t, r, p) \/ Replay(t, r, p))

Fairness ==
  /\ \A t \in Thread : WF_vars(MarkSigned(t) \/ AlreadySigned(t))
  /\ WF_vars(\E ring \in KeyRings : Start(ring[1], ring[2]))
  /\ \A r \in Request : SF_vars(Retry(r))

FairSpec == Spec /\ Fairness

-----------------------------------------------------------------------------
(* Properties                                                              *)

(* Every variable has the values its table or thread allows.               *)
TypeOK ==
  /\ issuance \in [Request -> Row \union {None}]
  /\ events \in Seq(Event)
  /\ bound \in [KeyId -> Material \union {None}]
  /\ signer \in (KeyId \X Material) \union {None}
  /\ pc \in [Thread -> {"idle", "sign"}]
  /\ held \in [Thread -> Held \union {None}]
  /\ checking \in BOOLEAN /\ alarmed \in BOOLEAN
  /\ seen \in [Request -> Row \union {None}]
  /\ answered \subseteq Request \X Assertion /\ conflicted \subseteq Request
  /\ faults \in 0 .. MaxFaults

(* Fail-closed and idempotent: whatever was ever returned for a request id *)
(* is the assertion its durable SIGNED record holds, so all answers to it  *)
(* are one assertion, across concurrent copies, failed writes and crashes. *)
AnswersDurable ==
  \A x \in answered : Exists(x[1]) /\ issuance[x[1]].assertion = x[2]

(* The integrity check, made on one snapshot, accepts every ledger the     *)
(* service writes.                                                         *)
LedgerCoherent == Coherent(issuance, events)

(* A signed assertion verifies under the key its key id is bound to,       *)
(* whatever keys operators configured meanwhile.                           *)
SignedByBoundKey ==
  \A r \in Request : Exists(r) /\ issuance[r].assertion # None =>
    issuance[r].assertion.by = bound[issuance[r].assertion.key]

(* A crash or a retry recovers the same authorization identity: what a     *)
(* request was prepared with never changes, nor what was signed for it;    *)
(* the event chain only grows.                                             *)
IssuanceStable ==
  [][/\ \A r \in Request : Exists(r) =>
          /\ issuance'[r] # None /\ issuance'[r].claim = issuance[r].claim
          /\ issuance[r].assertion # None => issuance'[r] = issuance[r]
     /\ Len(events) <= Len(events')
     /\ \A i \in DOMAIN events : events'[i] = events[i]]_vars

(* A request that was prepared is answered in the end, even by a ledger    *)
(* that is full, to a caller who keeps sending it under an unchanged key.  *)
PreparedAnswered ==
  \A r \in Request : Exists(r) ~> \E x \in answered : x[1] = r

(* PRIME_SENTINEL_V1_5_DESIGN: the same request id with the same request   *)
(* returns the same signed assertion, so prepare_or_get never answers it   *)
(* with a conflict. It holds while one key is configured, however full the *)
(* ledger and whatever crashes between PREPARED and SIGNED.                *)
SameRequestSameAnswer == conflicted = {}

(* An integrity check reports a failure only of a ledger that is not       *)
(* coherent, which LedgerCoherent excludes.                                *)
NoFalseAlarm == ~alarmed

(* The signer implements IdempotentIssuance: a grant is a durable SIGNED   *)
(* record.                                                                 *)
Issuance == INSTANCE IdempotentIssuance WITH
  Grant <- Assertion, NoGrant <- None,
  granted <- [r \in Request |-> IF Exists(r) THEN issuance[r].assertion ELSE None]
ImplementsIssuance == Issuance!Spec

-----------------------------------------------------------------------------
(* The inductive invariant behind the safety properties.                   *)

(* A thread between its transactions holds the record of its request as it *)
(* was prepared, under the key of the running process.                     *)
HeldInv ==
  \A t \in Thread : pc[t] = "sign" =>
    /\ signer # None /\ held[t] # None
    /\ Exists(held[t].req) /\ held[t].claim = issuance[held[t].req].claim
    /\ held[t].claim.key = signer[1]

(* The running process has bound its key id to its own material.           *)
SignerInv == signer # None => bound[signer[1]] = signer[2]

IInv == /\ TypeOK /\ AnswersDurable /\ LedgerCoherent /\ SignedByBoundKey
        /\ HeldInv /\ SignerInv
=============================================================================
