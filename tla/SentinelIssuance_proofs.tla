---------------------- MODULE SentinelIssuance_proofs -----------------------
(***************************************************************************)
(* Proofs about SentinelIssuance for every set of requests, keys and       *)
(* threads.  The invariant rests on HeldInv: what a thread signs is the    *)
(* record as it was prepared, under the running process's key, so every    *)
(* copy of a request makes the same assertion.  RowsOwned adds that no two *)
(* requests were prepared under one authorization id.                      *)
(***************************************************************************)
EXTENDS SentinelIssuance, TLAPS

(* The types of the tables, and what the tables say of each other.         *)
LedgerTypes == /\ issuance \in [Request -> Row \union {None}]
               /\ events \in Seq(Event)
               /\ bound \in [KeyId -> Material \union {None}]

ThreadTypes == /\ pc \in [Thread -> {"idle", "sign"}]
               /\ held \in [Thread -> Held \union {None}]

(* A signed claim is an assertion, and says what the claim says.           *)
LEMMA SignedClaim ==
  ASSUME NEW c \in Prepared, NEW m \in Material, NEW x, x = [c EXCEPT !.by = m]
  PROVE  /\ x \in Assertion /\ x # None
         /\ x.by = m /\ x.key = c.key /\ Repeats(x, c)
<1>1. x = [params |-> c.params, key |-> c.key, auth |-> c.auth, by |-> m]
  BY DEF Prepared, Claim
<1>2. x \in Assertion
  BY <1>1 DEF Prepared, Assertion, Claim
<1>3. QED BY <1>1, <1>2, NoneAssumption DEF Repeats

(* A prepared record is a row, and not None.                               *)
LEMMA RowFields ==
  ASSUME NEW row \in Row
  PROVE  /\ row # None /\ row.claim \in Prepared
         /\ row.assertion \in Assertion \union {None}
         /\ row.claim.key \in KeyId
BY NoneAssumption DEF Row, Prepared, Claim

(* Inserting a PREPARED record with its event keeps the tables typed and   *)
(* coherent, and touches no other record.                                  *)
LEMMA InsertLedger ==
  ASSUME IInv, NEW r \in Request, NEW c \in Prepared, ~Exists(r), Insert(r, c)
  PROVE  /\ LedgerTypes' /\ LedgerCoherent'
         /\ issuance'[r] = [claim |-> c, assertion |-> None] /\ issuance'[r] # None
         /\ \A q \in Request \ {r} : issuance'[q] = issuance[q]
         /\ \A q \in Request : Exists(q) => issuance'[q] = issuance[q] /\ q # r
<1> DEFINE row == [claim |-> c, assertion |-> None]
           e == [type |-> "PREPARED", req |-> r, body |-> c]
<1>1. LedgerTypes /\ LedgerCoherent
  BY DEF IInv, TypeOK, LedgerTypes
<1>2. row \in Row /\ row # None /\ e \in Event
  BY NoneAssumption DEF Row, Event, Prepared, Claim
<1>3. /\ issuance'[r] = row
      /\ \A q \in Request \ {r} : issuance'[q] = issuance[q]
      /\ \A q \in Request : Exists(q) => issuance'[q] = issuance[q] /\ q # r
  BY <1>1 DEF Insert, LedgerTypes, Exists
<1>4. LedgerTypes'
  <2>1. issuance' \in [Request -> Row \union {None}]
    BY <1>1, <1>2 DEF Insert, LedgerTypes
  <2>2. events' \in Seq(Event)
    BY <1>1, <1>2 DEF Insert, AppendEvent, LedgerTypes
  <2>3. QED BY <1>1, <2>1, <2>2 DEF Insert, LedgerTypes
<1>5. /\ Len(events') = Len(events) + 1 /\ DOMAIN events' = 1 .. Len(events) + 1
      /\ DOMAIN events = 1 .. Len(events) /\ Len(events) \in Nat
      /\ \A i \in DOMAIN events : events'[i] = events[i] /\ events[i] \in Event
      /\ events'[Len(events) + 1] = e
  BY <1>1 DEF Insert, AppendEvent, LedgerTypes
<1>6. \A i \in DOMAIN events : events[i].req \in Request \ {r}
  BY <1>1, <1>5 DEF LedgerCoherent, Coherent, Event, Exists
<1>7. \A i \in DOMAIN events' : issuance'[events'[i].req] # None
  BY <1>1, <1>2, <1>3, <1>5, <1>6 DEF LedgerCoherent, Coherent
<1>8. Lifecycle(issuance'[r], r, events')
  <2>1. {i \in DOMAIN events' : events'[i].req = r} = {Len(events) + 1}
    BY <1>5, <1>6
  <2>2. QED BY <1>3, <1>5, <2>1 DEF Lifecycle
<1>9. ASSUME NEW q \in Request \ {r}, issuance[q] # None
      PROVE  Lifecycle(issuance'[q], q, events')
  <2>1. {i \in DOMAIN events' : events'[i].req = q} = {i \in DOMAIN events : events[i].req = q}
    BY <1>5
  <2>2. Lifecycle(issuance[q], q, events)
    BY <1>1, <1>9 DEF LedgerCoherent, Coherent
  <2>3. QED BY <1>3, <1>5, <2>1, <2>2 DEF Lifecycle
<1>10. LedgerCoherent'
  BY <1>1, <1>3, <1>7, <1>8, <1>9 DEF LedgerCoherent, Coherent
<1>11. QED BY <1>2, <1>3, <1>4, <1>10

(* What HeldInv gives a thread that is about to sign.                      *)
LEMMA HeldFacts ==
  ASSUME IInv, NEW t \in Thread, pc[t] = "sign"
  PROVE  /\ held[t].req \in Request /\ held[t].claim \in Prepared
         /\ Exists(held[t].req) /\ issuance[held[t].req] \in Row
         /\ held[t].claim = issuance[held[t].req].claim
         /\ signer \in KeyId \X Material /\ signer[1] \in KeyId /\ signer[2] \in Material
         /\ held[t].claim.key = signer[1] /\ bound[signer[1]] = signer[2]
         /\ Signed(t) \in Assertion /\ Signed(t) # None
         /\ Signed(t).by = signer[2] /\ Signed(t).key = signer[1]
         /\ Repeats(Signed(t), held[t].claim)
<1>1. /\ held[t] \in Held /\ signer \in KeyId \X Material
      /\ Exists(held[t].req) /\ held[t].claim = issuance[held[t].req].claim
      /\ held[t].claim.key = signer[1] /\ bound[signer[1]] = signer[2]
  BY DEF IInv, TypeOK, HeldInv, SignerInv
<1>2. held[t].req \in Request /\ held[t].claim \in Prepared
  BY <1>1 DEF Held
<1>3. issuance[held[t].req] \in Row
  BY <1>1, <1>2 DEF IInv, TypeOK, Exists
<1>4. signer[1] \in KeyId /\ signer[2] \in Material
  BY <1>1
<1>5. Signed(t) = [held[t].claim EXCEPT !.by = signer[2]]
  BY DEF Signed
<1>6. /\ Signed(t) \in Assertion /\ Signed(t) # None
      /\ Signed(t).by = signer[2] /\ Signed(t).key = held[t].claim.key
      /\ Repeats(Signed(t), held[t].claim)
  BY <1>2, <1>4, <1>5, SignedClaim
<1>7. QED BY <1>1, <1>2, <1>3, <1>4, <1>6

(* Promoting the record of a request to SIGNED keeps the tables typed and  *)
(* coherent, and touches no other record.                                  *)
LEMMA PromoteLedger ==
  ASSUME IInv, NEW t \in Thread, pc[t] = "sign",
         issuance[held[t].req].assertion = None, Promote(t)
  PROVE  /\ LedgerTypes' /\ LedgerCoherent'
         /\ issuance'[held[t].req] =
              [claim |-> issuance[held[t].req].claim, assertion |-> Signed(t)]
         /\ issuance'[held[t].req] # None
         /\ \A q \in Request \ {held[t].req} : issuance'[q] = issuance[q]
<1> DEFINE r == held[t].req
           x == Signed(t)
           e == [type |-> "SIGNED", req |-> r, body |-> x]
<1>1. LedgerTypes /\ LedgerCoherent
  BY DEF IInv, TypeOK, LedgerTypes
<1>2. /\ r \in Request /\ issuance[r] \in Row /\ issuance[r] # None /\ x \in Assertion
      /\ x # None /\ Repeats(x, issuance[r].claim)
  BY HeldFacts DEF Exists
<1>3. /\ issuance'[r] = [claim |-> issuance[r].claim, assertion |-> x]
      /\ \A q \in Request \ {r} : issuance'[q] = issuance[q]
  BY <1>1, <1>2 DEF Promote, LedgerTypes, Row
<1>4. issuance'[r] \in Row /\ issuance'[r] # None /\ e \in Event
  BY <1>2, <1>3, NoneAssumption DEF Row, Event
<1>5. LedgerTypes'
  <2>1. issuance' \in [Request -> Row \union {None}]
    <3>1. DOMAIN issuance' = Request /\ issuance' = [q \in Request |-> issuance'[q]]
      BY <1>1 DEF Promote, LedgerTypes
    <3>2. \A q \in Request : issuance'[q] \in Row \union {None}
      BY <1>1, <1>3, <1>4 DEF LedgerTypes
    <3>3. QED BY <3>1, <3>2
  <2>2. events' \in Seq(Event)
    BY <1>1, <1>4 DEF Promote, AppendEvent, LedgerTypes
  <2>3. QED BY <1>1, <2>1, <2>2 DEF Promote, LedgerTypes
<1>6. /\ Len(events') = Len(events) + 1 /\ DOMAIN events' = 1 .. Len(events) + 1
      /\ DOMAIN events = 1 .. Len(events) /\ Len(events) \in Nat
      /\ \A i \in DOMAIN events : events'[i] = events[i] /\ events[i] \in Event
      /\ events'[Len(events) + 1] = e
  BY <1>1 DEF Promote, AppendEvent, LedgerTypes
<1>7. \A i \in DOMAIN events' : issuance'[events'[i].req] # None
  <2>1. \A q \in Request : issuance[q] # None => issuance'[q] # None
    BY <1>3, <1>4
  <2>2. \A i \in DOMAIN events : events[i].req \in Request
    BY <1>6 DEF Event
  <2>3. QED BY <1>1, <1>2, <1>4, <1>6, <2>1, <2>2 DEF LedgerCoherent, Coherent
<1>8. Lifecycle(issuance'[r], r, events')
  <2>1. Lifecycle(issuance[r], r, events)
    BY <1>1, <1>2 DEF LedgerCoherent, Coherent
  <2>2. PICK i \in DOMAIN events :
          /\ {k \in DOMAIN events : events[k].req = r} = {i}
          /\ events[i].type = "PREPARED" /\ events[i].body = issuance[r].claim
    BY <2>1 DEF Lifecycle
  <2>3. {k \in DOMAIN events' : events'[k].req = r} = {i, Len(events) + 1}
    BY <1>6, <2>2
  <2>4. i < Len(events) + 1
    BY <1>6
  <2>5. QED BY <1>2, <1>3, <1>6, <2>2, <2>3, <2>4 DEF Lifecycle
<1>9. ASSUME NEW q \in Request \ {r}, issuance[q] # None
      PROVE  Lifecycle(issuance'[q], q, events')
  <2>1. {i \in DOMAIN events' : events'[i].req = q} = {i \in DOMAIN events : events[i].req = q}
    BY <1>6
  <2>2. Lifecycle(issuance[q], q, events)
    BY <1>1, <1>9 DEF LedgerCoherent, Coherent
  <2>3. QED BY <1>3, <1>6, <2>1, <2>2 DEF Lifecycle
<1>10. LedgerCoherent'
  BY <1>1, <1>2, <1>3, <1>7, <1>8, <1>9 DEF LedgerCoherent, Coherent
<1>11. QED BY <1>3, <1>4, <1>5, <1>10

-----------------------------------------------------------------------------
(* The initial state is coherent, typed and holds nothing.                 *)
LEMMA InitIInv == Init => IInv
<1> SUFFICES ASSUME Init PROVE IInv
  OBVIOUS
<1>1. TypeOK
  <2>1. events \in Seq(Event) /\ faults \in 0 .. MaxFaults
    BY LimitAssumption DEF Init
  <2>2. /\ issuance \in [Request -> Row \union {None}]
        /\ seen \in [Request -> Row \union {None}]
        /\ bound \in [KeyId -> Material \union {None}]
        /\ pc \in [Thread -> {"idle", "sign"}] /\ held \in [Thread -> Held \union {None}]
    BY DEF Init
  <2>3. /\ signer \in (KeyId \X Material) \union {None}
        /\ checking \in BOOLEAN /\ alarmed \in BOOLEAN
        /\ answered \subseteq Request \X Assertion /\ conflicted \subseteq Request
    BY DEF Init
  <2>4. QED BY <2>1, <2>2, <2>3 DEF TypeOK
<1>2. LedgerCoherent
  BY DEF Init, LedgerCoherent, Coherent
<1>3. AnswersDurable /\ SignedByBoundKey /\ HeldInv /\ SignerInv
  BY DEF Init, AnswersDurable, SignedByBoundKey, HeldInv, SignerInv, Exists
<1>4. QED BY <1>1, <1>2, <1>3 DEF IInv

(* prepare_or_get of a new request.                                        *)
LEMMA PrepareIInv ==
  ASSUME IInv, NEW t \in Thread, NEW r \in Request, NEW p \in Params,
         NEW a \in Identity, Prepare(t, r, p, a) \/ PrepareFails(t, r, p, a)
  PROVE  IInv'
<1> DEFINE c == [params |-> p, key |-> signer[1], auth |-> a, by |-> None]
<1>1. signer \in KeyId \X Material /\ ~Exists(r) /\ Insert(r, c)
  BY DEF IInv, TypeOK, Prepare, PrepareFails
<1>2. c \in Prepared /\ c.key = signer[1]
  BY <1>1 DEF Prepared, Claim
<1>3. /\ LedgerTypes' /\ LedgerCoherent'
      /\ issuance'[r] = [claim |-> c, assertion |-> None] /\ issuance'[r] # None
      /\ \A q \in Request \ {r} : issuance'[q] = issuance[q]
      /\ \A q \in Request : Exists(q) => issuance'[q] = issuance[q] /\ q # r
  BY <1>1, <1>2, InsertLedger
<1>4. bound' = bound /\ signer' = signer /\ answered' = answered
  BY DEF Prepare, PrepareFails, Insert, replies
<1>5. ThreadTypes' /\ HeldInv'
  <2>1. CASE Prepare(t, r, p, a)
    <3>1. /\ held' = [held EXCEPT ![t] = [req |-> r, claim |-> c]]
          /\ pc' = [pc EXCEPT ![t] = "sign"]
          /\ [req |-> r, claim |-> c] \in Held /\ [req |-> r, claim |-> c] # None
      BY <1>2, <2>1, NoneAssumption DEF Prepare, Held
    <3>2. ThreadTypes'
      BY <3>1 DEF IInv, TypeOK, ThreadTypes
    <3>3. ASSUME NEW u \in Thread, pc'[u] = "sign"
          PROVE  /\ held'[u] # None /\ issuance'[held'[u].req] # None
                 /\ held'[u].claim = issuance'[held'[u].req].claim
                 /\ held'[u].claim.key = signer[1]
      <4>1. CASE u = t
        <5>1. held'[t] = [req |-> r, claim |-> c]
          BY <3>1 DEF IInv, TypeOK
        <5>2. QED BY <1>2, <1>3, <3>1, <4>1, <5>1
      <4>2. CASE u # t
        <5>1. pc[u] = "sign" /\ held'[u] = held[u]
          BY <3>1, <3>3, <4>2 DEF IInv, TypeOK
        <5>2. issuance'[held[u].req] = issuance[held[u].req]
          BY <1>3, <5>1, HeldFacts
        <5>3. QED BY <5>1, <5>2 DEF IInv, HeldInv, Exists
      <4>3. QED BY <4>1, <4>2
    <3>4. QED BY <1>1, <1>4, <3>2, <3>3, NoneAssumption DEF HeldInv, Exists
  <2>2. CASE PrepareFails(t, r, p, a)
    <3>1. pc' = pc /\ held' = held
      BY <2>2 DEF PrepareFails, threads
    <3>2. \A u \in Thread : pc[u] = "sign" => issuance'[held[u].req] = issuance[held[u].req]
      BY <1>3, HeldFacts
    <3>3. QED BY <1>4, <3>1, <3>2 DEF IInv, TypeOK, ThreadTypes, HeldInv, Exists
  <2>3. QED BY <2>1, <2>2
<1>6. TypeOK'
  <2>1. faults' \in 0 .. MaxFaults
    BY LimitAssumption DEF IInv, TypeOK, Prepare, PrepareFails, Fault
  <2>2. UNCHANGED <<checking, seen, alarmed, conflicted>>
    BY DEF Prepare, PrepareFails, check, replies
  <2>3. QED BY <1>3, <1>4, <1>5, <2>1, <2>2 DEF IInv, TypeOK, LedgerTypes, ThreadTypes
<1>7. AnswersDurable'
  BY <1>3, <1>4 DEF IInv, TypeOK, AnswersDurable, Exists
<1>8. SignedByBoundKey'
  BY <1>3, <1>4 DEF IInv, SignedByBoundKey, Exists
<1>9. SignerInv'
  BY <1>4 DEF IInv, SignerInv
<1>10. QED BY <1>3, <1>5, <1>6, <1>7, <1>8, <1>9 DEF IInv

(* prepare_or_get of a request the ledger knows.                           *)
LEMMA KnownIInv ==
  ASSUME IInv, NEW t \in Thread, NEW r \in Request, NEW p \in Params,
         Resume(t, r, p) \/ Replay(t, r, p) \/ Conflict(t, r, p)
  PROVE  IInv'
<1>1. /\ signer # None /\ Exists(r) /\ issuance[r] \in Row
      /\ issuance' = issuance /\ events' = events /\ bound' = bound /\ signer' = signer
      /\ UNCHANGED <<checking, seen, alarmed, faults>>
  BY DEF IInv, TypeOK, Exists, Resume, Replay, Conflict, SameRequest, ledger, check
<1>2. CASE Resume(t, r, p)
  <2> DEFINE h == [req |-> r, claim |-> issuance[r].claim]
  <2>1. /\ held' = [held EXCEPT ![t] = h] /\ pc' = [pc EXCEPT ![t] = "sign"]
        /\ h \in Held /\ h # None /\ issuance[r].claim.key = signer[1]
        /\ answered' = answered /\ conflicted' = conflicted
    BY <1>1, <1>2, RowFields, NoneAssumption DEF Resume, SameRequest, Held, replies
  <2>2. TypeOK'
    BY <1>1, <2>1 DEF IInv, TypeOK
  <2>3. HeldInv'
    BY <1>1, <2>1 DEF IInv, TypeOK, HeldInv, Exists
  <2>4. QED BY <1>1, <2>1, <2>2, <2>3
            DEF IInv, AnswersDurable, LedgerCoherent, SignedByBoundKey, SignerInv, Exists
<1>3. CASE Replay(t, r, p)
  <2>1. /\ pc' = pc /\ held' = held /\ conflicted' = conflicted
        /\ issuance[r].assertion \in Assertion
        /\ answered' = answered \union {<<r, issuance[r].assertion>>}
    BY <1>1, <1>3, RowFields DEF Replay, Answer, threads
  <2>2. TypeOK'
    BY <1>1, <2>1 DEF IInv, TypeOK
  <2>3. AnswersDurable'
    BY <1>1, <2>1 DEF IInv, AnswersDurable, Exists
  <2>4. QED BY <1>1, <2>1, <2>2, <2>3
            DEF IInv, HeldInv, LedgerCoherent, SignedByBoundKey, SignerInv, Exists
<1>4. CASE Conflict(t, r, p)
  <2>1. /\ pc' = pc /\ held' = held /\ answered' = answered /\ conflicted' \subseteq Request
    BY <1>4 DEF Conflict, threads, IInv, TypeOK
  <2>2. QED BY <1>1, <2>1
            DEF IInv, TypeOK, AnswersDurable, HeldInv, LedgerCoherent, SignedByBoundKey,
                SignerInv, Exists
<1>5. QED BY <1>2, <1>3, <1>4

(* A thread that is done leaves the others as they were.                   *)
LEMMA DoneThreads ==
  ASSUME IInv, NEW t \in Thread, Done(t)
  PROVE  /\ ThreadTypes'
         /\ \A u \in Thread : pc'[u] = "sign" => u # t /\ pc[u] = "sign" /\ held'[u] = held[u]
BY DEF IInv, TypeOK, ThreadTypes, Done

(* mark_signed: every answer given before stays the record's assertion,    *)
(* because the record promoted had none.                                   *)
LEMMA MarkIInv ==
  ASSUME IInv, NEW t \in Thread, MarkSigned(t) \/ AlreadySigned(t) \/ MarkFails(t)
  PROVE  IInv'
<1> DEFINE r == held[t].req
<1>1. /\ pc[t] = "sign" /\ Done(t) /\ signer' = signer
      /\ UNCHANGED <<checking, seen, alarmed>> /\ conflicted' = conflicted
      /\ faults' \in 0 .. MaxFaults
  BY LimitAssumption DEF MarkSigned, AlreadySigned, MarkFails, Answer, check, replies,
     Fault, IInv, TypeOK
<1>2. /\ r \in Request /\ Exists(r) /\ issuance[r] \in Row
      /\ Signed(t) \in Assertion /\ Signed(t) # None
      /\ Signed(t).by = signer[2] /\ Signed(t).key = signer[1]
      /\ bound[signer[1]] = signer[2]
  BY <1>1, HeldFacts
<1>3. /\ ThreadTypes'
      /\ \A u \in Thread : pc'[u] = "sign" => u # t /\ pc[u] = "sign" /\ held'[u] = held[u]
  BY <1>1, DoneThreads
<1>4. CASE UNCHANGED ledger
  <2>1. issuance' = issuance /\ events' = events /\ bound' = bound
    BY <1>4 DEF ledger
  <2>2. \/ answered' = answered
        \/ answered' = answered \union {<<r, Signed(t)>>} /\ issuance[r].assertion = Signed(t)
    <3>1. ~MarkSigned(t)
      BY <1>1, <1>2, <2>1 DEF MarkSigned, Promote, IInv, TypeOK, AppendEvent
    <3>2. QED BY <3>1 DEF AlreadySigned, MarkFails, Answer, replies
  <2>3. TypeOK'
    BY <1>1, <1>2, <1>3, <2>1, <2>2 DEF IInv, TypeOK, ThreadTypes
  <2>4. AnswersDurable'
    BY <1>2, <2>1, <2>2 DEF IInv, AnswersDurable, Exists
  <2>5. HeldInv'
    BY <1>1, <1>3, <2>1 DEF IInv, HeldInv, Exists
  <2>6. QED BY <1>1, <2>1, <2>3, <2>4, <2>5
            DEF IInv, LedgerCoherent, SignedByBoundKey, SignerInv, Exists
<1>5. CASE issuance[r].assertion = None /\ Promote(t)
  <2>1. /\ LedgerTypes' /\ LedgerCoherent'
        /\ issuance'[r] = [claim |-> issuance[r].claim, assertion |-> Signed(t)]
        /\ \A q \in Request \ {r} : issuance'[q] = issuance[q]
        /\ bound' = bound
    BY <1>1, <1>5, PromoteLedger DEF Promote
  <2>2. issuance'[r] # None
    BY <1>1, <1>5, PromoteLedger
  <2>3. answered' = answered \/ answered' = answered \union {<<r, Signed(t)>>}
    BY <1>5 DEF MarkSigned, AlreadySigned, MarkFails, Answer, replies
  <2>4. TypeOK'
    BY <1>1, <1>2, <1>3, <2>1, <2>3 DEF IInv, TypeOK, ThreadTypes, LedgerTypes
  <2>5. AnswersDurable'
    <3>1. ASSUME NEW x \in answered
          PROVE  issuance'[x[1]] # None /\ issuance'[x[1]].assertion = x[2]
      <4>1. x[1] \in Request /\ x[2] \in Assertion /\ x[2] # None
        BY NoneAssumption DEF IInv, TypeOK
      <4>2. issuance[x[1]] # None /\ issuance[x[1]].assertion = x[2]
        BY DEF IInv, AnswersDurable, Exists
      <4>3. x[1] # r
        BY <1>5, <4>1, <4>2
      <4>4. QED BY <2>1, <4>1, <4>2, <4>3
    <3>2. QED BY <2>1, <2>2, <2>3, <3>1 DEF AnswersDurable, Exists
  <2>6. SignedByBoundKey'
    BY <1>2, <2>1, <2>2 DEF IInv, SignedByBoundKey, Exists
  <2>7. HeldInv'
    <3>1. ASSUME NEW u \in Thread, pc'[u] = "sign"
          PROVE  /\ signer # None /\ held[u] # None
                 /\ issuance'[held[u].req] # None
                 /\ held[u].claim = issuance'[held[u].req].claim
                 /\ held[u].claim.key = signer[1]
      <4>1. pc[u] = "sign" /\ held[u].req \in Request
        BY <1>3, <3>1, HeldFacts
      <4>2. issuance'[held[u].req] # None
            /\ issuance'[held[u].req].claim = issuance[held[u].req].claim
        <5>1. issuance[held[u].req] # None
          BY <4>1, HeldFacts DEF Exists
        <5>2. CASE held[u].req = r
          BY <2>1, <2>2, <5>2
        <5>3. CASE held[u].req # r
          BY <2>1, <4>1, <5>1, <5>3
        <5>4. QED BY <5>2, <5>3
      <4>3. QED BY <4>1, <4>2 DEF IInv, HeldInv, Exists
    <3>2. QED BY <1>1, <1>3, <3>1 DEF HeldInv, Exists
  <2>8. QED BY <1>1, <2>1, <2>4, <2>5, <2>6, <2>7 DEF IInv, SignerInv
<1>6. QED BY <1>4, <1>5 DEF MarkSigned, AlreadySigned, MarkFails

(* The process starts, dies or checks its ledger.                          *)
LEMMA ProcessIInv ==
  ASSUME IInv, (\E ring \in KeyRings : Start(ring[1], ring[2])) \/ Crash
               \/ CheckReadsRecords \/ CheckReadsEvents
  PROVE  IInv'
<1>1. CASE \E ring \in KeyRings : Start(ring[1], ring[2])
  <2>1. PICK ring \in KeyRings : Start(ring[1], ring[2])
    BY <1>1
  <2>2. ring \in KeyId \X Material
    BY KeyAssumption
  <2>3. /\ UNCHANGED <<issuance, events, pc, held, checking, seen, alarmed, answered,
                       conflicted, faults>>
        /\ signer = None /\ bound[ring[1]] \in {None, ring[2]}
        /\ bound' = [bound EXCEPT ![ring[1]] = ring[2]]
        /\ signer' = <<ring[1], ring[2]>>
    BY <2>1 DEF Start, MayBind, threads, check, replies
  <2>4. TypeOK'
    BY <2>2, <2>3 DEF IInv, TypeOK
  <2>5. \A k \in KeyId : bound[k] # None => bound'[k] = bound[k]
    BY <2>2, <2>3 DEF IInv, TypeOK
  <2>6. SignedByBoundKey'
    <3>1. \A r \in Request : Exists(r) /\ issuance[r].assertion # None =>
            issuance[r].assertion \in Assertion
      BY RowFields DEF IInv, TypeOK, Exists
    <3>2. \A x \in Assertion : x.by # None /\ x.key \in KeyId
      BY NoneAssumption DEF Assertion, Claim
    <3>3. QED BY <2>3, <2>5, <3>1, <3>2 DEF IInv, SignedByBoundKey, Exists
  <2>7. SignerInv' /\ HeldInv'
    BY <2>2, <2>3 DEF IInv, TypeOK, SignerInv, HeldInv
  <2>8. QED BY <2>3, <2>4, <2>6, <2>7 DEF IInv, AnswersDurable, LedgerCoherent, Exists
<1>2. CASE Crash
  <2>1. TypeOK'
    <3>1. /\ UNCHANGED <<issuance, events, bound, alarmed, answered, conflicted>>
          /\ signer' = None /\ checking' = FALSE
          /\ faults' \in 0 .. MaxFaults
      BY <1>2, LimitAssumption DEF Crash, Fault, ledger, replies, IInv, TypeOK
    <3>2. /\ pc' \in [Thread -> {"idle", "sign"}] /\ held' \in [Thread -> Held \union {None}]
          /\ seen' \in [Request -> Row \union {None}]
      BY <1>2 DEF Crash
    <3>3. QED BY <3>1, <3>2 DEF IInv, TypeOK
  <2>2. QED BY <1>2, <2>1 DEF Crash, ledger, replies, IInv, AnswersDurable,
            LedgerCoherent, SignedByBoundKey, HeldInv, SignerInv, Exists
<1>3. CASE CheckReadsRecords \/ CheckReadsEvents
  <2>1. /\ UNCHANGED <<issuance, events, bound, signer, pc, held, answered, conflicted, faults>>
        /\ checking' \in BOOLEAN /\ seen' \in [Request -> Row \union {None}]
    BY <1>3 DEF CheckReadsRecords, CheckReadsEvents, ledger, threads, replies, IInv, TypeOK
  <2>2. alarmed' \in BOOLEAN
    <3>1. CASE CheckReadsRecords
      BY <3>1 DEF CheckReadsRecords, IInv, TypeOK
    <3>2. CASE CheckReadsEvents
      BY <3>2, Zenon DEF CheckReadsEvents
    <3>3. QED BY <1>3, <3>1, <3>2
  <2>3. QED BY <2>1, <2>2 DEF IInv, TypeOK, AnswersDurable, LedgerCoherent,
            SignedByBoundKey, HeldInv, SignerInv, Exists
<1>4. QED BY <1>1, <1>2, <1>3

(* Nothing happens.                                                        *)
LEMMA QuietIInv == IInv /\ UNCHANGED vars => IInv'
BY DEF vars, ledger, threads, check, replies, IInv, TypeOK, AnswersDurable,
   LedgerCoherent, SignedByBoundKey, HeldInv, SignerInv, Exists

(* The ledger, the running key, what threads hold and what was answered    *)
(* agree in every state.                                                   *)
THEOREM Invariant == Spec => []IInv
<1>1. ASSUME IInv, Next PROVE IInv'
  BY <1>1, PrepareIInv, KnownIInv, MarkIInv, ProcessIInv DEF Next, Issue
<1>2. IInv /\ [Next]_vars => IInv'
  BY <1>1, QuietIInv
<1>3. QED BY <1>2, InitIInv, PTL DEF Spec

(* Every variable has its type.                                            *)
THEOREM TypeCorrect == Spec => []TypeOK
<1>1. IInv => TypeOK
  BY DEF IInv
<1>2. QED BY <1>1, Invariant, PTL

(* issue_durable never returns an assertion that is not the durable one of *)
(* its request.                                                            *)
THEOREM AnswersAreDurable == Spec => []AnswersDurable
<1>1. IInv => AnswersDurable
  BY DEF IInv
<1>2. QED BY <1>1, Invariant, PTL

(* verify_issuance_ledger_integrity accepts every ledger on a snapshot.    *)
THEOREM LedgersCoherent == Spec => []LedgerCoherent
<1>1. IInv => LedgerCoherent
  BY DEF IInv
<1>2. QED BY <1>1, Invariant, PTL

(* Key binding makes every stored signature verify under its key id.       *)
THEOREM SignaturesVerify == Spec => []SignedByBoundKey
<1>1. IInv => SignedByBoundKey
  BY DEF IInv
<1>2. QED BY <1>1, Invariant, PTL

-----------------------------------------------------------------------------
(* What a step may do to the ledger and the answers.                       *)
LedgerStep ==
  \/ /\ UNCHANGED <<issuance, events>>
     /\ \/ answered' = answered
        \/ \E r \in Request : /\ Exists(r) /\ issuance[r].assertion # None
                              /\ answered' = answered \union {<<r, issuance[r].assertion>>}
  \/ /\ \E r \in Request, c \in Prepared : ~Exists(r) /\ Insert(r, c)
     /\ answered' = answered
  \/ \E t \in Thread :
       /\ pc[t] = "sign" /\ issuance[held[t].req].assertion = None /\ Promote(t)
       /\ answered' = answered \/ answered' = answered \union {<<held[t].req, Signed(t)>>}

(* Every step of the signer is one of these.                               *)
LEMMA StepIsLedgerStep == IInv /\ [Next]_vars => LedgerStep
<1>1. ASSUME IInv, NEW t \in Thread, NEW r \in Request, NEW p \in Params, Issue(t, r, p)
      PROVE  LedgerStep
  <2>1. ASSUME NEW a \in Identity, Prepare(t, r, p, a) \/ PrepareFails(t, r, p, a)
        PROVE  LedgerStep
    <3>1. signer \in KeyId \X Material
      BY <1>1, <2>1 DEF IInv, TypeOK, Prepare, PrepareFails
    <3>2. [params |-> p, key |-> signer[1], auth |-> a, by |-> None] \in Prepared
      BY <3>1 DEF Prepared, Claim
    <3>3. QED BY <2>1, <3>2 DEF Prepare, PrepareFails, replies, LedgerStep
  <2>2. CASE Resume(t, r, p) \/ Conflict(t, r, p)
    BY <2>2 DEF Resume, Conflict, ledger, replies, LedgerStep
  <2>3. CASE Replay(t, r, p)
    BY <2>3 DEF Replay, SameRequest, Answer, ledger, LedgerStep
  <2>4. QED BY <1>1, <2>1, <2>2, <2>3 DEF Issue
<1>2. ASSUME IInv, NEW t \in Thread, MarkSigned(t) \/ AlreadySigned(t) \/ MarkFails(t)
      PROVE  LedgerStep
  <2>1. CASE MarkSigned(t)
    BY <2>1 DEF MarkSigned, Answer, LedgerStep
  <2>2. CASE AlreadySigned(t)
    <3>1. held[t].req \in Request /\ Exists(held[t].req)
      BY <1>2, <2>2, HeldFacts DEF AlreadySigned
    <3>2. QED BY <2>2, <3>1 DEF AlreadySigned, Answer, ledger, replies, LedgerStep
  <2>3. CASE MarkFails(t)
    BY <2>3 DEF MarkFails, ledger, replies, LedgerStep
  <2>4. QED BY <1>2, <2>1, <2>2, <2>3
<1>3. ASSUME (\E ring \in KeyRings : Start(ring[1], ring[2])) \/ Crash
             \/ CheckReadsRecords \/ CheckReadsEvents
      PROVE  LedgerStep
  BY <1>3 DEF Start, Crash, CheckReadsRecords, CheckReadsEvents, ledger, replies, LedgerStep
<1>4. CASE UNCHANGED vars
  BY <1>4 DEF vars, ledger, replies, LedgerStep
<1>5. QED BY <1>1, <1>2, <1>3, <1>4 DEF Next

(* A request keeps its identity and its assertion, and the event chain     *)
(* only grows, over crashes, retries and changes of key.                   *)
THEOREM IssuanceIsStable == Spec => IssuanceStable
<1> DEFINE Stable ==
      /\ \A r \in Request : Exists(r) =>
           /\ issuance'[r] # None /\ issuance'[r].claim = issuance[r].claim
           /\ issuance[r].assertion # None => issuance'[r] = issuance[r]
      /\ Len(events) <= Len(events')
      /\ \A i \in DOMAIN events : events'[i] = events[i]
<1>1. ASSUME IInv, LedgerStep PROVE Stable
  <2>1. LedgerTypes /\ Len(events) \in Nat /\ DOMAIN events = 1 .. Len(events)
    BY <1>1 DEF IInv, TypeOK, LedgerTypes
  <2>2. CASE UNCHANGED <<issuance, events>>
    BY <2>1, <2>2 DEF Exists
  <2>3. ASSUME NEW r \in Request, NEW c \in Prepared, ~Exists(r), Insert(r, c)
        PROVE  Stable
    <3>1. \A q \in Request : Exists(q) => issuance'[q] = issuance[q]
      BY <1>1, <2>3, InsertLedger
    <3>2. QED BY <2>1, <2>3, <3>1 DEF Insert, AppendEvent, LedgerTypes, Exists
  <2>4. ASSUME NEW t \in Thread, pc[t] = "sign",
               issuance[held[t].req].assertion = None, Promote(t)
        PROVE  Stable
    <3>1. /\ held[t].req \in Request
          /\ LedgerTypes' /\ issuance'[held[t].req] =
               [claim |-> issuance[held[t].req].claim, assertion |-> Signed(t)]
          /\ \A q \in Request \ {held[t].req} : issuance'[q] = issuance[q]
      BY <1>1, <2>4, PromoteLedger, HeldFacts
    <3>2. \A q \in Request : Exists(q) =>
            /\ issuance'[q] # None /\ issuance'[q].claim = issuance[q].claim
            /\ issuance[q].assertion # None => issuance'[q] = issuance[q]
      <4>1. issuance'[held[t].req] # None
        BY <1>1, <2>4, PromoteLedger
      <4>2. QED BY <2>4, <3>1, <4>1 DEF Exists
    <3>3. QED BY <2>1, <2>4, <3>2 DEF Promote, AppendEvent, LedgerTypes
  <2>5. QED BY <1>1, <2>2, <2>3, <2>4 DEF LedgerStep
<1>2. IInv /\ [Next]_vars => Stable
  BY <1>1, StepIsLedgerStep
<1>3. QED BY <1>2, Invariant, PTL DEF Spec, IssuanceStable

-----------------------------------------------------------------------------
(* The refinement of IdempotentIssuance.                                   *)

Granted == [r \in Request |-> IF Exists(r) THEN issuance[r].assertion ELSE None]

(* A record inserted grants nothing; one promoted grants its assertion.    *)
THEOREM Refinement == Spec => ImplementsIssuance
<1>1. Init => Issuance!Init
  BY DEF Init, Issuance!Init, Exists
<1>2. ASSUME IInv, LedgerStep PROVE [Issuance!Next]_(Issuance!vars)
  <2>1. CASE /\ UNCHANGED <<issuance, events>>
             /\ answered' = answered
    BY <2>1 DEF Issuance!vars, Exists
  <2>2. ASSUME NEW r \in Request, UNCHANGED issuance, Exists(r), issuance[r].assertion # None,
               answered' = answered \union {<<r, issuance[r].assertion>>}
        PROVE  Issuance!Next
    <3>1. Granted' = Granted /\ Granted'[r] = issuance[r].assertion
      BY <2>2 DEF Granted, Exists
    <3>2. QED BY <2>2, <3>1 DEF Issuance!Next, Issuance!Answer, Granted
  <2>3. ASSUME NEW r \in Request, NEW c \in Prepared, ~Exists(r), Insert(r, c),
               answered' = answered
        PROVE  UNCHANGED Issuance!vars
    <3>1. /\ issuance'[r] = [claim |-> c, assertion |-> None]
          /\ \A q \in Request \ {r} : issuance'[q] = issuance[q]
      BY <1>2, <2>3, InsertLedger
    <3>2. \A q \in Request : Granted'[q] = Granted[q]
      BY <2>3, <3>1 DEF Granted, Exists
    <3>3. QED BY <2>3, <3>2 DEF Granted, Issuance!vars
  <2>4. ASSUME NEW t \in Thread, pc[t] = "sign",
               issuance[held[t].req].assertion = None, Promote(t),
               \/ answered' = answered
               \/ answered' = answered \union {<<held[t].req, Signed(t)>>}
        PROVE  Issuance!Next
    <3> DEFINE r == held[t].req
    <3>1. /\ r \in Request /\ Exists(r) /\ issuance'[r].assertion = Signed(t)
          /\ \A q \in Request \ {r} : issuance'[q] = issuance[q]
          /\ Signed(t) \in Assertion /\ Signed(t) # None /\ issuance'[r] # None
      <4>1. /\ r \in Request /\ Exists(r) /\ Signed(t) \in Assertion /\ Signed(t) # None
        BY <1>2, <2>4, HeldFacts
      <4>2. /\ issuance'[r] = [claim |-> issuance[r].claim, assertion |-> Signed(t)]
            /\ issuance'[r] # None
            /\ \A q \in Request \ {r} : issuance'[q] = issuance[q]
        BY <1>2, <2>4, PromoteLedger
      <4>3. QED BY <4>1, <4>2
    <3>2. Granted[r] = None /\ Granted'[r] = Signed(t)
      BY <2>4, <3>1 DEF Granted, Exists
    <3>3. Granted' = [Granted EXCEPT ![r] = Signed(t)]
      <4>1. \A q \in Request : Granted'[q] = [Granted EXCEPT ![r] = Signed(t)][q]
        BY <3>1, <3>2 DEF Granted, Exists
      <4>2. QED BY <4>1 DEF Granted
    <3>4. \E g \in Assertion : Granted[r] = None /\ g # None
                               /\ Granted' = [Granted EXCEPT ![r] = g]
      BY <3>1, <3>2, <3>3
    <3>5. \/ Granted'[r] # None /\ answered' = answered \union {<<r, Granted'[r]>>}
          \/ answered' = answered
      BY <2>4, <3>1, <3>2
    <3>6. QED BY <3>1, <3>4, <3>5
              DEF Issuance!Next, Issuance!Give, Issuance!Answer, Granted
  <2>5. QED BY <1>2, <2>1, <2>2, <2>3, <2>4 DEF LedgerStep
<1>3. IInv /\ [Next]_vars => [Issuance!Next]_(Issuance!vars)
  BY <1>2, StepIsLedgerStep
<1>4. QED BY <1>1, <1>3, Invariant, PTL DEF Spec, ImplementsIssuance, Issuance!Spec

-----------------------------------------------------------------------------
(* Identities, keys and refusals.                                          *)

RingIds == {ring[1] : ring \in KeyRings}

(* The key ids in use are configured ones, and authorization ids are       *)
(* primary keys.                                                           *)
RowsOwned ==
  /\ signer # None => signer[1] \in RingIds
  /\ \A r \in Request : Exists(r) => issuance[r].claim.key \in RingIds
  /\ \A r, q \in Request :
       Exists(r) /\ Exists(q) /\ issuance[r].claim.auth = issuance[q].claim.auth => r = q

(* A refusal of an unchanged request: another key id was configured.       *)
ConflictsExplained ==
  \A r \in conflicted : Exists(r) /\ \E ring \in KeyRings : ring[1] # issuance[r].claim.key

(* No authorization id was ever answered to two requests, nor with two     *)
(* assertions.                                                             *)
IdentitiesOwn == \A x, y \in answered : x[2].auth = y[2].auth => x = y

(* An integrity check fails only if the ledger moved between its reads.    *)
CalmCheckPasses == ~alarmed /\ seen = issuance => ~alarmed'

(* What a step may do to the claims.                                       *)
SameClaims ==
  \A r \in Request : /\ issuance'[r] # None <=> Exists(r)
                     /\ Exists(r) => issuance'[r].claim = issuance[r].claim

NewClaim ==
  \E r \in Request, c \in Prepared :
    /\ ~Exists(r) /\ Insert(r, c) /\ Unused(c.auth) /\ signer # None /\ c.key = signer[1]

(* Where a step may take the signer and the refusals.                      *)
SignerStep == signer' \in {signer, None} \union KeyRings

RefusalStep ==
  \/ conflicted' = conflicted
  \/ \E r \in Request : /\ Exists(r) /\ signer # None /\ issuance[r].claim.key # signer[1]
                        /\ SameClaims /\ signer' = signer
                        /\ conflicted' = conflicted \union {r}

(* Every step keeps the claims or makes a new one with an unused identity, *)
(* and only a caller whose record has another key id is refused.           *)
LEMMA StepOfClaims ==
  IInv /\ [Next]_vars => (SameClaims \/ NewClaim) /\ SignerStep /\ RefusalStep
<1>1. UNCHANGED issuance => SameClaims
  BY DEF SameClaims, Exists
<1>2. ASSUME IInv, NEW t \in Thread, pc[t] = "sign",
             issuance[held[t].req].assertion = None, Promote(t)
      PROVE  SameClaims
  <2>1. /\ issuance'[held[t].req] =
             [claim |-> issuance[held[t].req].claim, assertion |-> Signed(t)]
        /\ issuance'[held[t].req] # None
        /\ \A q \in Request \ {held[t].req} : issuance'[q] = issuance[q]
    BY <1>2, PromoteLedger
  <2>2. held[t].req \in Request /\ Exists(held[t].req)
    BY <1>2, HeldFacts
  <2>3. QED BY <2>1, <2>2 DEF SameClaims, Exists
<1>3. ASSUME IInv, NEW t \in Thread, NEW r \in Request, NEW p \in Params, Issue(t, r, p)
      PROVE  (SameClaims \/ NewClaim) /\ SignerStep /\ RefusalStep
  <2>1. ASSUME NEW a \in Identity, Prepare(t, r, p, a) \/ PrepareFails(t, r, p, a)
        PROVE  NewClaim /\ signer' = signer /\ conflicted' = conflicted
    <3>1. signer \in KeyId \X Material /\ signer # None
      BY <1>3, <2>1 DEF IInv, TypeOK, Prepare, PrepareFails
    <3>2. PICK c : c = [params |-> p, key |-> signer[1], auth |-> a, by |-> None]
      OBVIOUS
    <3>3. c \in Prepared /\ c.auth = a /\ c.key = signer[1]
      BY <3>1, <3>2 DEF Prepared, Claim
    <3>4. ~Exists(r) /\ Insert(r, c) /\ Unused(a) /\ signer' = signer /\ conflicted' = conflicted
      BY <2>1, <3>2 DEF Prepare, PrepareFails, replies
    <3>5. QED BY <3>1, <3>3, <3>4 DEF NewClaim
  <2>2. CASE Resume(t, r, p) \/ Replay(t, r, p)
    <3>1. UNCHANGED issuance /\ signer' = signer /\ conflicted' = conflicted
      BY <2>2 DEF Resume, Replay, ledger, replies, Answer
    <3>2. QED BY <1>1, <3>1 DEF SignerStep, RefusalStep
  <2>3. CASE Conflict(t, r, p)
    <3>1. UNCHANGED issuance /\ signer' = signer /\ signer # None /\ Exists(r)
      BY <2>3 DEF Conflict, ledger
    <3>2. \/ conflicted' = conflicted
          \/ issuance[r].claim.key # signer[1] /\ conflicted' = conflicted \union {r}
      BY <2>3 DEF Conflict, SameRequest
    <3>3. QED BY <1>1, <3>1, <3>2 DEF SignerStep, RefusalStep
  <2>4. QED BY <1>3, <2>1, <2>2, <2>3 DEF Issue, SignerStep, RefusalStep
<1>4. ASSUME IInv, NEW t \in Thread, MarkSigned(t) \/ AlreadySigned(t) \/ MarkFails(t)
      PROVE  SameClaims /\ signer' = signer /\ conflicted' = conflicted
  <2>1. /\ signer' = signer /\ conflicted' = conflicted /\ pc[t] = "sign"
        /\ \/ UNCHANGED issuance
           \/ issuance[held[t].req].assertion = None /\ Promote(t)
    BY <1>4 DEF MarkSigned, AlreadySigned, MarkFails, Answer, replies, ledger
  <2>2. QED BY <1>1, <1>2, <1>4, <2>1
<1>5. ASSUME (\E ring \in KeyRings : Start(ring[1], ring[2])) \/ Crash
             \/ CheckReadsRecords \/ CheckReadsEvents \/ UNCHANGED vars
      PROVE  SameClaims /\ SignerStep /\ conflicted' = conflicted
  <2>1. UNCHANGED issuance /\ conflicted' = conflicted
    BY <1>5 DEF Start, Crash, CheckReadsRecords, CheckReadsEvents, ledger, replies, vars
  <2>2. SignerStep
    <3>1. CASE \E ring \in KeyRings : Start(ring[1], ring[2])
      <4>1. PICK ring \in KeyRings : Start(ring[1], ring[2])
        BY <3>1
      <4>2. ring = <<ring[1], ring[2]>>
        BY KeyAssumption
      <4>3. signer' = <<ring[1], ring[2]>>
        BY <4>1 DEF Start
      <4>4. signer' \in KeyRings
        BY <4>2, <4>3
      <4>5. QED BY <4>4 DEF SignerStep
    <3>2. CASE Crash \/ CheckReadsRecords \/ CheckReadsEvents \/ UNCHANGED vars
      BY <3>2 DEF Crash, CheckReadsRecords, CheckReadsEvents, vars, SignerStep
    <3>3. QED BY <1>5, <3>1, <3>2
  <2>3. QED BY <1>1, <2>1, <2>2
<1>6. QED BY <1>3, <1>4, <1>5 DEF Next, SignerStep, RefusalStep

(* Claims keep their owners, and refusals their reason.                    *)
LEMMA OwnedStays ==
  ASSUME IInv, RowsOwned, ConflictsExplained, [Next]_vars
  PROVE  RowsOwned' /\ ConflictsExplained'
<1>1. (SameClaims \/ NewClaim) /\ SignerStep /\ RefusalStep
  BY StepOfClaims
<1>2. signer' # None => signer'[1] \in RingIds
  BY <1>1 DEF SignerStep, RowsOwned, RingIds
<1>3. \A r \in Request : Exists(r) =>
        issuance'[r] # None /\ issuance'[r].claim = issuance[r].claim
  <2>1. ASSUME NEW r \in Request, NEW c \in Prepared, ~Exists(r), Insert(r, c)
        PROVE  \A q \in Request : Exists(q) => issuance'[q] = issuance[q]
    BY <2>1, InsertLedger
  <2>2. QED BY <1>1, <2>1 DEF SameClaims, NewClaim, Exists
<1>4. RowsOwned'
  <2>1. CASE SameClaims
    BY <1>2, <2>1 DEF RowsOwned, SameClaims, Exists
  <2>2. CASE NewClaim
    <3>1. PICK r \in Request, c \in Prepared :
            ~Exists(r) /\ Insert(r, c) /\ Unused(c.auth) /\ signer # None /\ c.key = signer[1]
      BY <2>2 DEF NewClaim
    <3>2. /\ issuance'[r] = [claim |-> c, assertion |-> None]
          /\ \A q \in Request \ {r} : issuance'[q] = issuance[q]
      BY <3>1, InsertLedger
    <3>3. issuance'[r].claim.key \in RingIds /\ issuance'[r].claim.auth = c.auth
      BY <3>1, <3>2 DEF RowsOwned
    <3>4. \A q \in Request \ {r} : issuance'[q] # None => issuance'[q].claim.auth # c.auth
      BY <3>1, <3>2 DEF Unused, Exists
    <3>5. QED BY <1>2, <3>2, <3>3, <3>4 DEF RowsOwned, Exists
  <2>3. QED BY <1>1, <2>1, <2>2
<1>5. ConflictsExplained'
  <2> SUFFICES ASSUME NEW r \in conflicted'
               PROVE  Exists(r)' /\ \E ring \in KeyRings : ring[1] # issuance'[r].claim.key
    BY DEF ConflictsExplained
  <2>1. conflicted \subseteq Request
    BY DEF IInv, TypeOK
  <2>2. CASE r \in conflicted
    BY <1>3, <2>1, <2>2 DEF ConflictsExplained, Exists
  <2>3. CASE r \notin conflicted
    <3>1. r \in Request /\ Exists(r) /\ signer # None /\ issuance[r].claim.key # signer[1]
      BY <1>1, <2>3 DEF RefusalStep
    <3>2. PICK ring \in KeyRings : ring[1] = signer[1]
      BY <3>1 DEF RowsOwned, RingIds
    <3>3. QED BY <1>3, <3>1, <3>2 DEF Exists
  <2>4. QED BY <2>2, <2>3
<1>6. QED BY <1>4, <1>5

(* Both hold in every reachable state.                                     *)
LEMMA Owned == Spec => [](RowsOwned /\ ConflictsExplained)
<1>1. Init => RowsOwned /\ ConflictsExplained
  BY DEF Init, RowsOwned, ConflictsExplained, Exists
<1>2. IInv /\ RowsOwned /\ ConflictsExplained /\ [Next]_vars => RowsOwned' /\ ConflictsExplained'
  BY OwnedStays
<1>3. QED BY <1>1, <1>2, Invariant, PTL DEF Spec

(* A caller who repeats a request unchanged is refused only if it was      *)
(* prepared under another key id than one that was configured since        *)
(* (prepare_or_get, PrimeSentinelRequestConflict).                         *)
THEOREM RefusalsExplained == Spec => []ConflictsExplained
BY Owned, PTL

(* And under one key id never: the same request gets the same answer, for  *)
(* any threads, faults and restarts.                                       *)
THEOREM OneKeyIdAnswers ==
  ASSUME \A x, y \in KeyRings : x[1] = y[1]
  PROVE  Spec => []SameRequestSameAnswer
<1>1. RowsOwned /\ ConflictsExplained /\ IInv => SameRequestSameAnswer
  BY DEF RowsOwned, ConflictsExplained, RingIds, SameRequestSameAnswer, IInv, TypeOK
<1>2. QED BY <1>1, Owned, Invariant, PTL

(* An authorization id stands for one request and one assertion, whatever  *)
(* was retried, lost or signed twice (issue_durable).                      *)
THEOREM IdentitiesNeverShared == Spec => []IdentitiesOwn
<1>1. ASSUME IInv, RowsOwned PROVE IdentitiesOwn
  <2>1. ASSUME NEW x \in answered
        PROVE  /\ x[1] \in Request /\ Exists(x[1]) /\ x = <<x[1], x[2]>>
               /\ issuance[x[1]].assertion = x[2] /\ x[2].auth = issuance[x[1]].claim.auth
    <3>1. x[1] \in Request /\ x[2] \in Assertion /\ x = <<x[1], x[2]>>
      BY <1>1 DEF IInv, TypeOK
    <3>2. Exists(x[1]) /\ issuance[x[1]].assertion = x[2]
      BY <1>1 DEF IInv, AnswersDurable
    <3>3. x[2] # None
      BY <3>1, NoneAssumption
    <3>4. Repeats(issuance[x[1]].assertion, issuance[x[1]].claim)
      BY <1>1, <3>1, <3>2, <3>3 DEF IInv, LedgerCoherent, Coherent, Exists
    <3>5. x[2].auth = issuance[x[1]].claim.auth
      BY <3>2, <3>4 DEF Repeats
    <3>6. QED BY <3>1, <3>2, <3>5
  <2>2. ASSUME NEW x \in answered, NEW y \in answered, x[2].auth = y[2].auth PROVE x = y
    <3>1. x[1] = y[1]
      BY <1>1, <2>1, <2>2 DEF RowsOwned
    <3>2. QED BY <2>1, <3>1
  <2>3. QED BY <2>2 DEF IdentitiesOwn
<1>2. QED BY <1>1, Owned, Invariant, PTL

(* What remains of the integrity check's promise: read from a ledger that  *)
(* stands still, it passes (verify_issuance_ledger_integrity).             *)
THEOREM CalmChecksPass == Spec => [][CalmCheckPasses]_vars
<1>1. ASSUME IInv, Next PROVE CalmCheckPasses
  <2>1. CASE CheckReadsEvents
    BY <1>1, <2>1 DEF CheckReadsEvents, CalmCheckPasses, IInv, LedgerCoherent
  <2>2. CASE ~CheckReadsEvents
    <3>1. ASSUME NEW t \in Thread, NEW r \in Request, NEW p \in Params, Issue(t, r, p)
          PROVE  alarmed' = alarmed
      BY <3>1 DEF Issue, Prepare, PrepareFails, Resume, Replay, Conflict, check
    <3>2. ASSUME NEW t \in Thread, MarkSigned(t) \/ AlreadySigned(t) \/ MarkFails(t)
          PROVE  alarmed' = alarmed
      BY <3>2 DEF MarkSigned, AlreadySigned, MarkFails, check
    <3>3. ASSUME (\E ring \in KeyRings : Start(ring[1], ring[2])) \/ Crash \/ CheckReadsRecords
          PROVE  alarmed' = alarmed
      BY <3>3 DEF Start, Crash, CheckReadsRecords, check
    <3>4. alarmed' = alarmed
      BY <1>1, <2>2, <3>1, <3>2, <3>3 DEF Next
    <3>5. QED BY <3>4 DEF CalmCheckPasses
  <2>3. QED BY <2>1, <2>2
<1>2. IInv /\ [Next]_vars => [CalmCheckPasses]_vars
  BY <1>1
<1>3. QED BY <1>2, Invariant, PTL DEF Spec
=============================================================================
