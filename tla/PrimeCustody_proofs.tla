------------------------ MODULE PrimeCustody_proofs -------------------------
(***************************************************************************)
(* Proofs about PrimeCustody for every set of primes, authorizations,      *)
(* handlers and every limit.  The invariant is GrantBacked together with   *)
(* what the records say of each other: two passports are never bound to    *)
(* one record, since a record names its prime, so closing one record       *)
(* leaves every other passport backed.                                     *)
(***************************************************************************)
EXTENDS PrimeCustody, TLAPS

(* The parts of IInv that only the registry's passports and authorization  *)
(* records take part in.                                                   *)
Backing == GrantBacked /\ NonceUnique /\ InstalledReady /\ RecordsInv

(* An assertion carries the fields its set promises, and None is none.     *)
LEMMA AssertionFields ==
  ASSUME NEW a \in Assertion
  PROVE  /\ a # None /\ a.id \in AuthId /\ a.prime \in Prime
         /\ a.env \in Environment
BY SetAssumption

(* A bound passport can close its authorization, and that changes the      *)
(* status of this one record.                                              *)
LEMMA ClosedEffect ==
  ASSUME IInv, NEW p \in Prime, NEW st
  PROVE  /\ CanClose(p)
         /\ grant[p] # None => /\ grant[p] \in Assertion /\ grant[p].id \in AuthId
                               /\ status[grant[p].id] = "VERIFIED"
         /\ DOMAIN Closed(p, st) = AuthId
         /\ \A i \in AuthId :
              Closed(p, st)[i] = IF grant[p] # None /\ i = grant[p].id THEN st ELSE status[i]
         /\ st \in {"CONSUMED", "SUPERSEDED"} =>
              Closed(p, st) \in [AuthId -> {"none", "VERIFIED", "CONSUMED", "SUPERSEDED"}]
<1>1. grant[p] # None => /\ grant[p] \in Assertion /\ grant[p].id \in AuthId
                         /\ status[grant[p].id] = "VERIFIED"
  BY AssertionFields DEF IInv, TypeOK, GrantBacked
<1>2. CanClose(p)
  BY <1>1 DEF CanClose
<1>3. status \in [AuthId -> {"none", "VERIFIED", "CONSUMED", "SUPERSEDED"}]
  BY DEF IInv, TypeOK
<1>4. CASE grant[p] = None
  BY <1>1, <1>2, <1>3, <1>4 DEF Closed
<1>5. CASE grant[p] # None
  <2>1. Closed(p, st) = [status EXCEPT ![grant[p].id] = st]
    BY <1>2, <1>5 DEF Closed
  <2>2. QED BY <1>1, <1>2, <1>3, <1>5, <2>1
<1>6. QED BY <1>4, <1>5

(* No two passports are bound to the same record.                          *)
LEMMA BoundApart ==
  ASSUME IInv, NEW p \in Prime, NEW q \in Prime,
         grant[p] # None, grant[q] # None, grant[p].id = grant[q].id
  PROVE  p = q
BY DEF IInv, GrantBacked

-----------------------------------------------------------------------------
(* What the commit and the frame of an action contribute to the types.     *)

(* A committed transaction keeps the outbox counts in their bounds.        *)
LEMMA CommitTypes ==
  ASSUME TypeOK, NEW h \in Handler, NEW n \in Nat, Commit(h, n)
  PROVE  /\ pendingN' \in 0 .. MaxPending /\ keptN' \in Nat
         /\ pc' \in [Handler -> {"idle", "drain", "bypass", "reject"}]
         /\ job' = job
         /\ \A g \in Handler : pc'[g] = "bypass" => pc[g] = "bypass"
BY LimitAssumption DEF TypeOK, Commit, HasRoom, Evicted

(* A step that leaves passports and records alone keeps the invariant      *)
(* where its types and its missions are in order.                          *)
LEMMA FrameIInv ==
  ASSUME IInv, UNCHANGED <<passports, authorizations>>, TypeOK',
         JobsInv'
  PROVE  IInv'
BY DEF IInv, passports, authorizations, GrantBacked, NonceUnique, InstalledReady,
       RecordsInv, BlankInv

-----------------------------------------------------------------------------
(* One lemma per action that writes the registry's passports or records.   *)

(* A mission leaves its own passport unbound and every other one backed.   *)
LEMMA ApplyMissionIInv ==
  ASSUME IInv, NEW p \in known, NEW e \in Environment, ApplyMission(p, e)
  PROVE  /\ Backing'
         /\ known' = known /\ custody' \in [Prime -> {"READY", "QUARANTINED"}]
         /\ checks' \in [Prime -> SUBSET Check]
         /\ grant' \in [Prime -> Assertion \union {None}]
         /\ pack' \in [Prime -> Environment \union {None}]
         /\ recorded' = recorded
         /\ status' \in [AuthId -> {"none", "VERIFIED", "CONSUMED", "SUPERSEDED"}]
         /\ stranded' \subseteq Prime
         /\ BlankInv'
<1> p \in Prime
  BY DEF IInv, TypeOK
<1> USE DEF IInv, TypeOK
<1>1. /\ \A i \in AuthId : status'[i] =
             IF grant[p] # None /\ i = grant[p].id THEN "SUPERSEDED" ELSE status[i]
      /\ status' \in [AuthId -> {"none", "VERIFIED", "CONSUMED", "SUPERSEDED"}]
  BY ClosedEffect DEF ApplyMission, Superseded
<1>2. /\ \A q \in Prime : q # p => /\ custody'[q] = custody[q] /\ grant'[q] = grant[q]
                                   /\ checks'[q] = checks[q] /\ pack'[q] = pack[q]
      /\ grant'[p] = None /\ pack'[p] = None
      /\ known' = known /\ recorded' = recorded
  BY DEF ApplyMission
<1>3. /\ custody' \in [Prime -> {"READY", "QUARANTINED"}]
      /\ checks' \in [Prime -> SUBSET Check]
      /\ grant' \in [Prime -> Assertion \union {None}]
      /\ pack' \in [Prime -> Environment \union {None}]
      /\ stranded' \subseteq Prime
  BY DEF ApplyMission, PostMission
<1>4. GrantBacked'
  <2> SUFFICES ASSUME NEW q \in Prime, grant'[q] # None
               PROVE  /\ custody'[q] = "QUARANTINED" /\ checks'[q] = Check
                      /\ grant'[q] \in Genuine /\ grant'[q].prime = q
                      /\ status'[grant'[q].id] = "VERIFIED"
                      /\ recorded'[grant'[q].id] = grant'[q]
    BY DEF GrantBacked
  <2>1. q # p /\ grant[q] # None /\ grant'[q] = grant[q]
    BY <1>2
  <2>2. grant[q].id \in AuthId
    BY <2>1, AssertionFields
  <2>3. status'[grant[q].id] = status[grant[q].id]
    BY <1>1, <2>1, <2>2, BoundApart
  <2>4. QED BY <1>2, <2>1, <2>3 DEF GrantBacked
<1>5. NonceUnique' /\ InstalledReady'
  BY <1>2 DEF NonceUnique, InstalledReady
<1>6. RecordsInv'
  <2>1. grant[p] # None => status[grant[p].id] = "VERIFIED"
    BY DEF GrantBacked
  <2>2. \A i \in AuthId : status'[i] = "none" <=> status[i] = "none"
    BY <1>1, <2>1
  <2>3. QED BY <1>2, <2>2 DEF RecordsInv
<1>7. QED BY <1>1, <1>2, <1>3, <1>4, <1>5, <1>6 DEF Backing, BlankInv

(* The number of events a mission queues.                                  *)
LEMMA MissionEventsNat ==
  ASSUME NEW p
  PROVE  MissionEvents(p) \in Nat
BY DEF MissionEvents

(* What is left to show once the passports and records are in order.       *)
LEMMA JoinIInv ==
  ASSUME Backing', TypeOK',
         BlankInv', JobsInv'
  PROVE  IInv'
BY DEF Backing, IInv

(* Creating a passport preserves the invariant.                            *)
LEMMA CreateIInv ==
  ASSUME IInv, NEW h \in Handler, NEW p \in Prime, Create(h, p)
  PROVE  IInv'
<1> USE DEF IInv
<1>1. TypeOK'
  BY CommitTypes DEF TypeOK, Create, authorizations, keys
<1>2. Backing'
  BY DEF Create, authorizations, Backing, GrantBacked, NonceUnique, InstalledReady, RecordsInv
<1>3. BlankInv'
  BY DEF Create, BlankInv
<1>4. JobsInv'
  BY CommitTypes DEF Create, JobsInv
<1>5. QED BY <1>1, <1>2, <1>3, <1>4, JoinIInv

(* A mission completion, on either path, preserves the invariant.          *)
LEMMA MissionIInv ==
  ASSUME IInv, NEW h \in Handler, NEW p \in Prime, NEW e \in Environment, Mission(h, p, e)
  PROVE  IInv'
<1>1. p \in known /\ ApplyMission(p, e) /\ Commit(h, MissionEvents(p)) /\ TypeOK
  BY DEF Mission, IInv
<1>2. TypeOK'
  BY <1>1, ApplyMissionIInv, CommitTypes, MissionEventsNat DEF Mission, TypeOK, keys
<1>3. JobsInv'
  BY <1>1, CommitTypes, MissionEventsNat DEF IInv, JobsInv, ApplyMission
<1>4. QED BY <1>1, <1>2, <1>3, ApplyMissionIInv, JoinIInv

(* The fail-safe quarantine, a second transaction, preserves it.           *)
LEMMA BypassIInv ==
  ASSUME IInv, NEW h \in Handler, Bypass(h)
  PROVE  IInv'
<1> DEFINE p == job[h].prime
           fits == Fits(known, Superseded(p), pendingN, keptN)
<1> USE DEF IInv
<1>1. p \in known /\ job[h].env \in Environment
  BY DEF Bypass, TypeOK, JobsInv
<1>2. /\ pc' \in [Handler -> {"idle", "drain", "bypass", "reject"}]
      /\ job' \in [Handler -> [prime : Prime, env : Environment] \union {None}]
      /\ \A g \in Handler : g # h => pc'[g] = pc[g] /\ job'[g] = job[g]
      /\ pc'[h] = "idle"
  BY DEF Bypass, TypeOK
<1>3. CASE ~fits
  <2>1. UNCHANGED <<passports, authorizations, stranded>>
    BY <1>3 DEF Bypass
  <2>2. TypeOK'
    BY <1>2, <2>1 DEF Bypass, TypeOK, passports, authorizations, outbox, keys
  <2>3. JobsInv'
    BY <1>2, <2>1 DEF JobsInv, passports
  <2>4. QED BY <2>1, <2>2, <2>3, FrameIInv
<1>4. CASE fits
  <2>1. ApplyMission(p, job[h].env)
    BY <1>4 DEF Bypass
  <2>2. TypeOK'
    BY <1>1, <1>2, <2>1, ApplyMissionIInv DEF Bypass, TypeOK, outbox, keys
  <2>3. JobsInv'
    BY <1>2, <2>1 DEF JobsInv, ApplyMission
  <2>4. QED BY <1>1, <2>1, <2>2, <2>3, ApplyMissionIInv, JoinIInv
<1>5. QED BY <1>3, <1>4

(* New evidence withdraws the grant it may invalidate.                     *)
LEMMA RequalifyIInv ==
  ASSUME IInv, NEW h \in Handler, NEW p \in Prime, NEW cs \in SUBSET Check,
         Requalify(h, p, cs)
  PROVE  IInv'
<1> USE DEF IInv
<1>1. /\ checks' = [checks EXCEPT ![p] = cs]
      /\ grant' = [grant EXCEPT ![p] = None]
      /\ status' = Superseded(p)
      /\ UNCHANGED <<known, custody, pack, recorded>>
      /\ Commit(h, 1)
      /\ UNCHANGED <<other, keys, expired, stranded>>
  BY ClosedEffect DEF Requalify
<1>2. /\ \A i \in AuthId : status'[i] =
             IF grant[p] # None /\ i = grant[p].id THEN "SUPERSEDED" ELSE status[i]
      /\ status' \in [AuthId -> {"none", "VERIFIED", "CONSUMED", "SUPERSEDED"}]
  BY <1>1, ClosedEffect DEF Superseded
<1>3. /\ \A q \in Prime : q # p => grant'[q] = grant[q] /\ checks'[q] = checks[q]
      /\ grant'[p] = None
  BY <1>1 DEF TypeOK
<1>4. TypeOK'
  BY <1>1, <1>2, CommitTypes DEF TypeOK, keys
<1>5. GrantBacked'
  <2> SUFFICES ASSUME NEW q \in Prime, grant'[q] # None
               PROVE  /\ custody'[q] = "QUARANTINED" /\ checks'[q] = Check
                      /\ grant'[q] \in Genuine /\ grant'[q].prime = q
                      /\ status'[grant'[q].id] = "VERIFIED"
                      /\ recorded'[grant'[q].id] = grant'[q]
    BY DEF GrantBacked
  <2>1. q # p /\ grant[q] # None /\ grant'[q] = grant[q]
    BY <1>3
  <2>2. grant[q].id \in AuthId
    BY <2>1, AssertionFields DEF TypeOK
  <2>3. status'[grant[q].id] = status[grant[q].id]
    BY <1>2, <2>1, <2>2, BoundApart
  <2>4. QED BY <1>1, <1>3, <2>1, <2>3 DEF GrantBacked
<1>6. NonceUnique' /\ InstalledReady'
  BY <1>1 DEF NonceUnique, InstalledReady
<1>7. RecordsInv'
  <2>1. grant[p] # None => status[grant[p].id] = "VERIFIED"
    BY DEF GrantBacked
  <2>2. \A i \in AuthId : status'[i] = "none" <=> status[i] = "none"
    BY <1>2, <2>1
  <2>3. QED BY <1>1, <2>2 DEF RecordsInv
<1>8. BlankInv' /\ JobsInv'
  BY <1>1, <1>3, CommitTypes DEF BlankInv, JobsInv
<1>9. QED BY <1>4, <1>5, <1>6, <1>7, <1>8

(* An authorization is recorded under an id and a nonce that no record has, *)
(* so the records of the other passports stay as they are.                 *)
LEMMA AuthorizeIInv ==
  ASSUME IInv, NEW h \in Handler, NEW p \in Prime, NEW a \in Assertion,
         Authorize(h, p, a)
  PROVE  IInv'
<1> USE DEF IInv
<1>1. /\ a.id \in AuthId /\ a # None /\ a.prime = p /\ a \in Genuine
      /\ custody[p] = "QUARANTINED" /\ checks[p] = Check
      /\ status[a.id] = "none" /\ recorded[a.id] = None
      /\ \A i \in AuthId : recorded[i] # None => recorded[i].nonce # a.nonce
  BY AssertionFields DEF Authorize, Acceptable, Verifies, Fresh, RecordsInv
<1>2. /\ \A q \in Prime : grant'[q] = IF q = p THEN a ELSE grant[q]
      /\ \A i \in AuthId : /\ recorded'[i] = IF i = a.id THEN a ELSE recorded[i]
                           /\ status'[i] = IF i = a.id THEN "VERIFIED" ELSE status[i]
      /\ UNCHANGED <<known, custody, checks, pack>>
      /\ Commit(h, 1)
  BY <1>1 DEF Authorize, TypeOK
<1>3. TypeOK'
  BY <1>1, CommitTypes DEF Authorize, TypeOK, keys
<1>4. GrantBacked'
  <2> SUFFICES ASSUME NEW q \in Prime, grant'[q] # None
               PROVE  /\ custody'[q] = "QUARANTINED" /\ checks'[q] = Check
                      /\ grant'[q] \in Genuine /\ grant'[q].prime = q
                      /\ status'[grant'[q].id] = "VERIFIED"
                      /\ recorded'[grant'[q].id] = grant'[q]
    BY DEF GrantBacked
  <2>1. CASE q = p
    BY <1>1, <1>2, <2>1
  <2>2. CASE q # p
    <3>1. grant[q] # None /\ grant'[q] = grant[q]
      BY <1>2, <2>2
    <3>2. grant[q].id \in AuthId /\ status[grant[q].id] = "VERIFIED"
      BY <3>1, AssertionFields DEF GrantBacked, TypeOK
    <3>3. grant[q].id # a.id
      BY <1>1, <3>2
    <3>4. QED BY <1>2, <3>1, <3>2, <3>3 DEF GrantBacked
  <2>3. QED BY <2>1, <2>2
<1>5. NonceUnique'
  BY <1>1, <1>2 DEF NonceUnique
<1>6. InstalledReady'
  BY <1>2 DEF InstalledReady
<1>7. RecordsInv'
  BY <1>1, <1>2 DEF RecordsInv
<1>8. BlankInv' /\ JobsInv'
  BY <1>2, CommitTypes DEF BlankInv, JobsInv, Authorize
<1>9. QED BY <1>3, <1>4, <1>5, <1>6, <1>7, <1>8

(* An activation consumes the authorization the passport is bound to, and  *)
(* a READY passport is bound to none.                                      *)
LEMMA ActivateEffect ==
  ASSUME IInv, NEW h \in Handler, NEW p \in Prime, NEW e \in Environment,
         NEW ok \in BOOLEAN, Activate(h, p, e, ok)
  PROVE  /\ p \in known /\ Commit(h, 1)
         /\ \A q \in Prime : /\ custody'[q] = IF q = p THEN "READY" ELSE custody[q]
                             /\ grant'[q] = IF q = p THEN None ELSE grant[q]
                             /\ pack'[q] = IF q = p THEN e ELSE pack[q]
         /\ \A i \in AuthId : status'[i] =
              IF grant[p] # None /\ i = grant[p].id THEN "CONSUMED" ELSE status[i]
         /\ custody' \in [Prime -> {"READY", "QUARANTINED"}]
         /\ grant' \in [Prime -> Assertion \union {None}]
         /\ pack' \in [Prime -> Environment \union {None}]
         /\ status' \in [AuthId -> {"none", "VERIFIED", "CONSUMED", "SUPERSEDED"}]
         /\ UNCHANGED <<known, checks, recorded, other, keys, expired, stranded>>
<1> USE DEF IInv
<1>1. /\ p \in known
      /\ custody' = [custody EXCEPT ![p] = "READY"]
      /\ grant' = IF custody[p] = "READY" THEN grant ELSE [grant EXCEPT ![p] = None]
      /\ pack' = [pack EXCEPT ![p] = e]
      /\ status' = Closed(p, "CONSUMED")
      /\ UNCHANGED <<known, checks, recorded>>
      /\ Commit(h, 1)
      /\ UNCHANGED <<other, keys, expired, stranded>>
  BY ClosedEffect DEF Activate
<1>2. custody[p] = "READY" => grant[p] = None
  BY DEF GrantBacked
<1>3. /\ \A i \in AuthId : status'[i] =
             IF grant[p] # None /\ i = grant[p].id THEN "CONSUMED" ELSE status[i]
      /\ status' \in [AuthId -> {"none", "VERIFIED", "CONSUMED", "SUPERSEDED"}]
  BY <1>1, ClosedEffect
<1>4. \A q \in Prime : /\ custody'[q] = IF q = p THEN "READY" ELSE custody[q]
                       /\ grant'[q] = IF q = p THEN None ELSE grant[q]
                       /\ pack'[q] = IF q = p THEN e ELSE pack[q]
  BY <1>1, <1>2 DEF TypeOK
<1>5. /\ custody' \in [Prime -> {"READY", "QUARANTINED"}]
      /\ grant' \in [Prime -> Assertion \union {None}]
      /\ pack' \in [Prime -> Environment \union {None}]
  BY <1>1 DEF TypeOK
<1>6. QED BY <1>1, <1>3, <1>4, <1>5

(* An activation consumes the grant it used.                               *)
LEMMA ActivateIInv ==
  ASSUME IInv, NEW h \in Handler, NEW p \in Prime, NEW e \in Environment,
         NEW ok \in BOOLEAN, Activate(h, p, e, ok)
  PROVE  IInv'
<1> USE DEF IInv
<1>1. /\ p \in known /\ Commit(h, 1)
      /\ \A q \in Prime : /\ custody'[q] = IF q = p THEN "READY" ELSE custody[q]
                          /\ grant'[q] = IF q = p THEN None ELSE grant[q]
                          /\ pack'[q] = IF q = p THEN e ELSE pack[q]
      /\ \A i \in AuthId : status'[i] =
           IF grant[p] # None /\ i = grant[p].id THEN "CONSUMED" ELSE status[i]
      /\ UNCHANGED <<known, checks, recorded>>
  BY ActivateEffect
<1>2. TypeOK'
  BY ActivateEffect, CommitTypes DEF TypeOK, keys
<1>3. GrantBacked'
  <2> SUFFICES ASSUME NEW q \in Prime, grant'[q] # None
               PROVE  /\ custody'[q] = "QUARANTINED" /\ checks'[q] = Check
                      /\ grant'[q] \in Genuine /\ grant'[q].prime = q
                      /\ status'[grant'[q].id] = "VERIFIED"
                      /\ recorded'[grant'[q].id] = grant'[q]
    BY DEF GrantBacked
  <2>1. q # p /\ grant[q] # None /\ grant'[q] = grant[q]
    BY <1>1
  <2>2. grant[q].id \in AuthId
    BY <2>1, AssertionFields DEF TypeOK
  <2>3. status'[grant[q].id] = status[grant[q].id]
    BY <1>1, <2>1, <2>2, BoundApart
  <2>4. QED BY <1>1, <2>1, <2>3 DEF GrantBacked
<1>4. NonceUnique' /\ InstalledReady'
  BY <1>1 DEF NonceUnique, InstalledReady
<1>5. RecordsInv'
  <2>1. grant[p] # None => status[grant[p].id] = "VERIFIED"
    BY DEF GrantBacked
  <2>2. \A i \in AuthId : status'[i] = "none" <=> status[i] = "none"
    BY <1>1, <2>1
  <2>3. QED BY <1>1, <2>2 DEF RecordsInv
<1>6. BlankInv' /\ JobsInv'
  BY <1>1, CommitTypes DEF BlankInv, JobsInv
<1>7. QED BY <1>2, <1>3, <1>4, <1>5, <1>6

(* The steps that write neither passports nor authorization records.       *)
Quiet(h, p) ==
  \/ \E e \in Environment : MissionOverCapacity(h, p, e) \/ MissionTooLarge(h, p, e)
  \/ \E a \in Assertion : AuthorizeRejected(h, p, a)
  \/ \E e \in Environment, ok \in BOOLEAN : ActivateDeclined(h, p, e, ok)

(* Steps that leave passports and records alone preserve it.               *)
LEMMA QuietIInv ==
  ASSUME IInv, NEW h \in Handler, NEW p \in Prime, Quiet(h, p)
  PROVE  IInv' /\ UNCHANGED <<passports, authorizations>>
<1> USE DEF IInv
<1>1. CASE \E e \in Environment : MissionOverCapacity(h, p, e)
  <2> PICK e \in Environment : MissionOverCapacity(h, p, e)
    BY <1>1
  <2>1. UNCHANGED <<passports, authorizations>>
    BY DEF MissionOverCapacity
  <2>2. TypeOK'
    BY DEF MissionOverCapacity, TypeOK, passports, authorizations, outbox, keys
  <2>3. JobsInv'
    <3>1. known' = known
      BY <2>1 DEF passports
    <3>2. p \in known /\ [prime |-> p, env |-> e] # None
      BY SetAssumption DEF MissionOverCapacity
    <3>3. QED BY <3>1, <3>2 DEF MissionOverCapacity, JobsInv, TypeOK
  <2>4. QED BY <2>1, <2>2, <2>3, FrameIInv
<1>2. CASE \E e \in Environment : MissionTooLarge(h, p, e)
  <2> PICK e \in Environment : MissionTooLarge(h, p, e)
    BY <1>2
  <2>1. UNCHANGED <<passports, authorizations>>
    BY DEF MissionTooLarge
  <2>2. TypeOK'
    BY DEF MissionTooLarge, TypeOK, passports, authorizations, outbox, keys, threads
  <2>3. JobsInv'
    BY DEF MissionTooLarge, JobsInv, passports, threads
  <2>4. QED BY <2>1, <2>2, <2>3, FrameIInv
<1>3. CASE \E a \in Assertion : AuthorizeRejected(h, p, a)
  <2> PICK a \in Assertion : AuthorizeRejected(h, p, a)
    BY <1>3
  <2>1. UNCHANGED <<passports, authorizations>>
    BY DEF AuthorizeRejected
  <2>2. TypeOK'
    BY DEF AuthorizeRejected, TypeOK, passports, authorizations, outbox, keys
  <2>3. JobsInv'
    BY DEF AuthorizeRejected, JobsInv, TypeOK, passports
  <2>4. QED BY <2>1, <2>2, <2>3, FrameIInv
<1>4. CASE \E e \in Environment, ok \in BOOLEAN : ActivateDeclined(h, p, e, ok)
  <2>1. UNCHANGED <<passports, authorizations>> /\ Commit(h, 1)
        /\ UNCHANGED <<other, keys, expired, stranded>>
    BY <1>4 DEF ActivateDeclined
  <2>2. TypeOK'
    BY <2>1, CommitTypes DEF TypeOK, passports, authorizations, keys
  <2>3. JobsInv'
    BY <2>1, CommitTypes DEF JobsInv, passports
  <2>4. QED BY <2>1, <2>2, <2>3, FrameIInv
<1>5. QED BY <1>1, <1>2, <1>3, <1>4 DEF Quiet

(* The second transactions, the environment and the restart.               *)
Background ==
  \/ \E h \in Handler : QueueRejection(h) \/ DrainOne(h) \/ DrainStops(h)
  \/ \E size \in OtherSizes : RegistryPatch(size)
  \/ \E a \in Genuine : Expire(a)
  \/ Restart

(* Drains, key rotation, expiry and restarts preserve it.                  *)
LEMMA BackgroundIInv ==
  ASSUME IInv, Background
  PROVE  IInv' /\ UNCHANGED <<passports, authorizations>>
<1> USE DEF IInv
<1>1. UNCHANGED <<passports, authorizations>>
  BY DEF Background, QueueRejection, DrainOne, DrainStops, RegistryPatch, Expire, Restart
<1>2. ASSUME NEW h \in Handler, QueueRejection(h)
      PROVE  TypeOK' /\ JobsInv'
  <2>1. CASE Commit(h, 1)
    BY <1>1, <1>2, <2>1, CommitTypes
       DEF QueueRejection, TypeOK, JobsInv, passports, authorizations, keys
  <2>2. CASE pc' = [pc EXCEPT ![h] = "idle"] /\ UNCHANGED <<outbox, job>>
    BY <1>1, <1>2, <2>2
       DEF QueueRejection, TypeOK, JobsInv, passports, authorizations, keys, outbox
  <2>3. QED BY <1>2, <2>1, <2>2 DEF QueueRejection
<1>3. ASSUME NEW h \in Handler, DrainOne(h)
      PROVE  TypeOK' /\ JobsInv'
  BY <1>1, <1>3, LimitAssumption DEF DrainOne, TypeOK, JobsInv, passports, authorizations, keys, threads
<1>4. ASSUME NEW h \in Handler, DrainStops(h)
      PROVE  TypeOK' /\ JobsInv'
  BY <1>1, <1>4 DEF DrainStops, TypeOK, JobsInv, passports, authorizations, keys, outbox
<1>5. ASSUME NEW size \in OtherSizes, RegistryPatch(size)
      PROVE  TypeOK' /\ JobsInv'
  BY <1>1, <1>5
     DEF RegistryPatch, TypeOK, JobsInv, passports, authorizations, keys, outbox, threads
<1>6. ASSUME NEW a \in Genuine, Expire(a)
      PROVE  TypeOK' /\ JobsInv'
  BY <1>1, <1>6, SetAssumption
     DEF Expire, TypeOK, JobsInv, passports, authorizations, keys, outbox, threads
<1>7. ASSUME Restart
      PROVE  TypeOK' /\ JobsInv'
  <2>1. configured' \subseteq Key /\ revoked' \subseteq Key
    BY <1>7, SetAssumption DEF Restart
  <2>2. pendingN' \in 0 .. MaxPending /\ keptN' \in Nat
    BY <1>7, LimitAssumption DEF Restart, TypeOK
  <2>3. QED BY <1>1, <1>7, <2>1, <2>2
            DEF Restart, TypeOK, JobsInv, passports, authorizations
<1>8. TypeOK' /\ JobsInv'
  BY <1>2, <1>3, <1>4, <1>5, <1>6, <1>7 DEF Background
<1>9. QED BY <1>1, <1>8, FrameIInv

(* Every step is one of the writing actions, a quiet one or background.    *)
LEMMA NextCases ==
  ASSUME Next
  PROVE  \/ \E h \in Handler, p \in Prime :
              \/ Create(h, p) \/ Quiet(h, p)
              \/ \E e \in Environment : Mission(h, p, e)
              \/ \E cs \in SUBSET Check : Requalify(h, p, cs)
              \/ \E a \in Assertion : Authorize(h, p, a)
              \/ \E e \in Environment, ok \in BOOLEAN : Activate(h, p, e, ok)
         \/ \E h \in Handler : Bypass(h)
         \/ Background
BY DEF Next, Request, Quiet, Background

(* The initial registry is empty.                                          *)
LEMMA InitIInv == Init => IInv
<1> SUFFICES ASSUME Init PROVE IInv
  OBVIOUS
<1>1. TypeOK
  BY SetAssumption, LimitAssumption DEF Init, TypeOK
<1>2. GrantBacked /\ NonceUnique /\ InstalledReady /\ RecordsInv /\ BlankInv /\ JobsInv
  BY DEF Init, GrantBacked, NonceUnique, InstalledReady, RecordsInv, BlankInv, JobsInv
<1>3. QED BY <1>1, <1>2 DEF IInv

(* No step of the service breaks the invariant.                            *)
LEMMA NextIInv == IInv /\ [Next]_vars => IInv'
<1> SUFFICES ASSUME IInv, [Next]_vars PROVE IInv'
  OBVIOUS
<1>1. CASE Next
  BY <1>1, NextCases, CreateIInv, QuietIInv, MissionIInv, RequalifyIInv, AuthorizeIInv,
     ActivateIInv, BypassIInv, BackgroundIInv
<1>2. CASE UNCHANGED vars
  BY <1>2 DEF vars, passports, authorizations, outbox, keys, threads, IInv, TypeOK,
     GrantBacked, NonceUnique, InstalledReady, RecordsInv, BlankInv, JobsInv
<1>3. QED BY <1>1, <1>2

-----------------------------------------------------------------------------
(* The theorems.                                                           *)

(* The inductive invariant holds in every reachable state.                 *)
THEOREM Invariant == Spec => []IInv
BY InitIInv, NextIInv, PTL DEF Spec

(* Every variable keeps the values its place in the registry allows.       *)
THEOREM TypeCorrect == Spec => []TypeOK
<1>1. IInv => TypeOK
  BY DEF IInv
<1>2. QED BY <1>1, Invariant, PTL

(* A passport is bound only to its own, open, recorded authorization, with *)
(* complete evidence and in quarantine.                                    *)
THEOREM GrantsBacked == Spec => []GrantBacked
<1>1. IInv => GrantBacked
  BY DEF IInv
<1>2. QED BY <1>1, Invariant, PTL

(* No nonce is recorded twice, whatever is replayed and whenever.          *)
THEOREM NoncesUnique == Spec => []NonceUnique
<1>1. IInv => NonceUnique
  BY DEF IInv
<1>2. QED BY <1>1, Invariant, PTL

(* A quarantined PRIME carries no pack.                                    *)
THEOREM QuarantinedBare == Spec => []InstalledReady
<1>1. IInv => InstalledReady
  BY DEF IInv
<1>2. QED BY <1>1, Invariant, PTL

-----------------------------------------------------------------------------
(* What a step does to passports and records, seen from the outside.       *)

MissionStep(p) ==
  /\ p \in Prime /\ custody'[p] \in {"READY", "QUARANTINED"}
  /\ \A q \in Prime : q # p => custody'[q] = custody[q]
  /\ \A q \in Prime : grant'[q] = (IF q = p THEN None ELSE grant[q])
  /\ \A q \in Prime : pack'[q] = (IF q = p THEN None ELSE pack[q])
  /\ \A i \in AuthId : status'[i] =
       (IF grant[p] # None /\ i = grant[p].id THEN "SUPERSEDED" ELSE status[i])
  /\ UNCHANGED recorded

RequalifyStep(p) ==
  /\ p \in Prime /\ UNCHANGED <<custody, pack, recorded>>
  /\ \A q \in Prime : grant'[q] = (IF q = p THEN None ELSE grant[q])
  /\ \A i \in AuthId : status'[i] =
       (IF grant[p] # None /\ i = grant[p].id THEN "SUPERSEDED" ELSE status[i])

AuthorizeStep(p, a) ==
  /\ p \in Prime /\ a \in Assertion /\ custody[p] = "QUARANTINED"
  /\ status[a.id] = "none" /\ recorded[a.id] = None
  /\ UNCHANGED <<custody, pack>>
  /\ \A q \in Prime : grant'[q] = (IF q = p THEN a ELSE grant[q])
  /\ \A i \in AuthId : recorded'[i] = (IF i = a.id THEN a ELSE recorded[i])
  /\ \A i \in AuthId : status'[i] = (IF i = a.id THEN "VERIFIED" ELSE status[i])

ActivateStep(p, e, ok) ==
  /\ p \in Prime /\ e \in Environment /\ Allowed(p, e, ok)
  /\ \A q \in Prime : custody'[q] = (IF q = p THEN "READY" ELSE custody[q])
  /\ \A q \in Prime : grant'[q] = (IF q = p THEN None ELSE grant[q])
  /\ \A q \in Prime : pack'[q] = (IF q = p THEN e ELSE pack[q])
  /\ \A i \in AuthId : status'[i] =
       (IF grant[p] # None /\ i = grant[p].id THEN "CONSUMED" ELSE status[i])
  /\ UNCHANGED recorded

RegistryStep ==
  \/ UNCHANGED <<custody, grant, pack, recorded, status>>
  \/ \E p \in Prime : MissionStep(p) \/ RequalifyStep(p)
  \/ \E p \in Prime, a \in Assertion : AuthorizeStep(p, a)
  \/ \E p \in Prime, e \in Environment, ok \in BOOLEAN : ActivateStep(p, e, ok)

(* A mission completion is a registry step of its PRIME.                   *)
LEMMA MissionIsStep ==
  ASSUME IInv, NEW p \in Prime, NEW e, ApplyMission(p, e)
  PROVE  MissionStep(p)
<1>1. \A i \in AuthId : status'[i] =
        IF grant[p] # None /\ i = grant[p].id THEN "SUPERSEDED" ELSE status[i]
  BY ClosedEffect DEF ApplyMission, Superseded
<1>2. /\ custody'[p] \in {"READY", "QUARANTINED"}
      /\ \A q \in Prime : q # p => custody'[q] = custody[q]
      /\ \A q \in Prime : grant'[q] = (IF q = p THEN None ELSE grant[q])
      /\ \A q \in Prime : pack'[q] = (IF q = p THEN None ELSE pack[q])
      /\ UNCHANGED recorded
  BY DEF ApplyMission, PostMission, IInv, TypeOK
<1>3. QED BY <1>1, <1>2 DEF MissionStep

(* Every step changes the records as RecordsClose allows.                  *)
LEMMA StepIsRegistryStep == IInv /\ [Next]_vars => RegistryStep
<1> SUFFICES ASSUME IInv, [Next]_vars PROVE RegistryStep
  OBVIOUS
<1>1. ASSUME UNCHANGED <<passports, authorizations>>
      PROVE  RegistryStep
  BY <1>1 DEF RegistryStep, passports, authorizations
<1>2. ASSUME NEW h \in Handler, NEW p \in Prime, Create(h, p)
      PROVE  RegistryStep
  BY <1>2 DEF Create, RegistryStep, authorizations
<1>3. ASSUME NEW h \in Handler, NEW p \in Prime, NEW e \in Environment, Mission(h, p, e)
      PROVE  RegistryStep
  BY <1>3, MissionIsStep DEF Mission, RegistryStep
<1>4. ASSUME NEW h \in Handler, NEW p \in Prime, NEW cs \in SUBSET Check,
             Requalify(h, p, cs)
      PROVE  RegistryStep
  <2>1. /\ grant' = [grant EXCEPT ![p] = None] /\ status' = Superseded(p)
        /\ UNCHANGED <<custody, pack, recorded>>
    BY <1>4, ClosedEffect DEF Requalify
  <2>2. \A i \in AuthId : status'[i] =
          IF grant[p] # None /\ i = grant[p].id THEN "SUPERSEDED" ELSE status[i]
    BY <2>1, ClosedEffect DEF Superseded
  <2>3. RequalifyStep(p)
    BY <2>1, <2>2 DEF RequalifyStep, IInv, TypeOK
  <2>4. QED BY <2>3 DEF RegistryStep
<1>5. ASSUME NEW h \in Handler, NEW p \in Prime, NEW a \in Assertion, Authorize(h, p, a)
      PROVE  RegistryStep
  <2>1. a.id \in AuthId /\ status[a.id] = "none" /\ recorded[a.id] = None
        /\ custody[p] = "QUARANTINED"
    BY <1>5, AssertionFields DEF Authorize, Acceptable, Fresh, IInv, RecordsInv
  <2>2. AuthorizeStep(p, a)
    BY <1>5, <2>1 DEF AuthorizeStep, Authorize, IInv, TypeOK
  <2>3. QED BY <2>2 DEF RegistryStep
<1>6. ASSUME NEW h \in Handler, NEW p \in Prime, NEW e \in Environment,
             NEW ok \in BOOLEAN, Activate(h, p, e, ok)
      PROVE  RegistryStep
  <2>1. Allowed(p, e, ok)
    BY <1>6 DEF Activate
  <2>2. ActivateStep(p, e, ok)
    BY <1>6, <2>1, ActivateEffect DEF ActivateStep
  <2>3. QED BY <2>2 DEF RegistryStep
<1>7. ASSUME NEW h \in Handler, Bypass(h)
      PROVE  RegistryStep
  <2> DEFINE p == job[h].prime
  <2>1. p \in Prime
    BY <1>7 DEF Bypass, IInv, TypeOK, JobsInv
  <2>2. UNCHANGED <<passports, authorizations>> \/ ApplyMission(p, job[h].env)
    BY <1>7 DEF Bypass
  <2>3. QED BY <1>1, <2>1, <2>2, MissionIsStep DEF RegistryStep
<1>8. CASE Next
  BY <1>8, NextCases, <1>1, <1>2, <1>3, <1>4, <1>5, <1>6, <1>7, QuietIInv, BackgroundIInv
<1>9. CASE UNCHANGED vars
  BY <1>1, <1>9 DEF vars
<1>10. QED BY <1>8, <1>9

(* A record is never rewritten, and what is consumed or superseded stays   *)
(* so: an authorization is used at most once, for every interleaving.      *)
THEOREM RecordsStayClosed == Spec => RecordsClose
<1> DEFINE A == \A i \in AuthId :
      /\ recorded[i] # None => recorded'[i] = recorded[i]
      /\ status[i] = "VERIFIED" => status'[i] # "none"
      /\ status[i] \in {"CONSUMED", "SUPERSEDED"} => status'[i] = status[i]
<1>1. ASSUME IInv, RegistryStep
      PROVE  A
  <2>1. \A p \in Prime : grant[p] # None => status[grant[p].id] = "VERIFIED"
    BY <1>1 DEF IInv, GrantBacked
  <2>2. CASE UNCHANGED <<custody, grant, pack, recorded, status>>
    BY <2>2
  <2>3. ASSUME NEW p \in Prime, MissionStep(p) \/ RequalifyStep(p)
        PROVE  A
    BY <2>1, <2>3 DEF MissionStep, RequalifyStep
  <2>4. ASSUME NEW p \in Prime, NEW a \in Assertion, AuthorizeStep(p, a)
        PROVE  A
    BY <2>4 DEF AuthorizeStep
  <2>5. ASSUME NEW p \in Prime, NEW e \in Environment, NEW ok \in BOOLEAN,
               ActivateStep(p, e, ok)
        PROVE  A
    BY <2>1, <2>5 DEF ActivateStep
  <2>6. QED BY <1>1, <2>2, <2>3, <2>4, <2>5 DEF RegistryStep
<1>2. IInv /\ [Next]_vars => [A]_vars
  BY <1>1, StepIsRegistryStep
<1>3. QED BY <1>2, Invariant, PTL DEF Spec, RecordsClose

(* A pack reaches a quarantined PRIME only by consuming a genuine, trusted *)
(* and unexpired authorization for that PRIME and that environment.        *)
THEOREM ReleasesAuthorized == Spec => ReleaseAuthorized
<1> DEFINE A == \A p \in Prime :
      custody[p] = "QUARANTINED" /\ pack'[p] # None =>
        LET a == grant[p] IN
        /\ a # None /\ a \in Genuine /\ checks[p] = Check
        /\ a.prime = p /\ a.env = pack'[p]
        /\ a.key \in configured \ revoked /\ a \notin expired
        /\ status[a.id] = "VERIFIED" /\ status'[a.id] = "CONSUMED"
<1>1. ASSUME IInv, RegistryStep
      PROVE  A
  <2> SUFFICES ASSUME NEW p \in Prime, custody[p] = "QUARANTINED", pack'[p] # None
               PROVE  /\ grant[p] # None /\ grant[p] \in Genuine /\ checks[p] = Check
                      /\ grant[p].prime = p /\ grant[p].env = pack'[p]
                      /\ grant[p].key \in configured \ revoked /\ grant[p] \notin expired
                      /\ status[grant[p].id] = "VERIFIED"
                      /\ status'[grant[p].id] = "CONSUMED"
    OBVIOUS
  <2>1. pack[p] = None
    BY <1>1 DEF IInv, InstalledReady
  <2>2. PICK e \in Environment, ok \in BOOLEAN : ActivateStep(p, e, ok)
    BY <1>1, <2>1 DEF RegistryStep, MissionStep, RequalifyStep, AuthorizeStep, ActivateStep
  <2>3. /\ grant[p] # None /\ checks[p] = Check /\ Usable(p, e) /\ grant[p].env = e
        /\ pack'[p] = e
    BY <2>2 DEF ActivateStep, Allowed, Usable
  <2>4. /\ grant[p] \in Genuine /\ grant[p].prime = p /\ grant[p].id \in AuthId
        /\ status[grant[p].id] = "VERIFIED" /\ recorded[grant[p].id] = grant[p]
    BY <1>1, <2>3, AssertionFields DEF IInv, TypeOK, GrantBacked
  <2>5. status'[grant[p].id] = "CONSUMED"
    BY <2>2, <2>3, <2>4 DEF ActivateStep
  <2>6. QED BY <2>3, <2>4, <2>5 DEF Usable
<1>2. IInv /\ [Next]_vars => [A]_vars
  BY <1>1, StepIsRegistryStep
<1>3. QED BY <1>2, Invariant, PTL DEF Spec, ReleaseAuthorized

(* How a PRIME may leave quarantine: by a release, or as a mission leaves  *)
(* it, bare, unbound and without evidence.                                 *)
ReleasedOrBare ==
  \A p \in Prime :
    custody[p] = "QUARANTINED" /\ custody'[p] = "READY" =>
      \/ /\ pack'[p] # None /\ checks[p] = Check
         /\ grant[p] \in Genuine /\ grant[p].prime = p /\ grant[p].env = pack'[p]
         /\ status[grant[p].id] = "VERIFIED" /\ status'[grant[p].id] = "CONSUMED"
      \/ /\ pack'[p] = None /\ grant'[p] = None
         /\ grant[p] # None => status'[grant[p].id] = "SUPERSEDED"

(* A harmless mission clears a quarantine without complete evidence        *)
(* (complete_mission); for every value of the constants that is the only   *)
(* way besides a release, and it leaves nothing installed or authorized:   *)
(* an authorization it had was superseded in the same step.                *)
THEOREM QuarantineLeft == Spec => [][ReleasedOrBare]_vars
<1>1. ASSUME IInv, RegistryStep PROVE ReleasedOrBare
  <2> SUFFICES ASSUME NEW p \in Prime, custody[p] = "QUARANTINED", custody'[p] = "READY"
               PROVE  \/ /\ pack'[p] # None /\ checks[p] = Check
                         /\ grant[p] \in Genuine /\ grant[p].prime = p
                         /\ grant[p].env = pack'[p]
                         /\ status[grant[p].id] = "VERIFIED"
                         /\ status'[grant[p].id] = "CONSUMED"
                      \/ /\ pack'[p] = None /\ grant'[p] = None
                         /\ grant[p] # None => status'[grant[p].id] = "SUPERSEDED"
    BY DEF ReleasedOrBare
  <2>1. grant[p] # None => grant[p].id \in AuthId
    BY <1>1, AssertionFields DEF IInv, TypeOK
  <2>2. CASE MissionStep(p)
    BY <2>1, <2>2 DEF MissionStep
  <2>3. CASE \E e \in Environment, ok \in BOOLEAN : ActivateStep(p, e, ok)
    <3>1. PICK e \in Environment, ok \in BOOLEAN : ActivateStep(p, e, ok)
      BY <2>3
    <3>2. grant[p] # None /\ checks[p] = Check /\ grant[p].env = e /\ pack'[p] = e
      BY <3>1 DEF ActivateStep, Allowed, Usable
    <3>3. grant[p] \in Genuine /\ grant[p].prime = p /\ status[grant[p].id] = "VERIFIED"
      BY <1>1, <3>2 DEF IInv, GrantBacked
    <3>4. status'[grant[p].id] = "CONSUMED"
      BY <2>1, <3>1, <3>2 DEF ActivateStep
    <3>5. pack'[p] # None
      BY <3>2, SetAssumption
    <3>6. QED BY <3>2, <3>3, <3>4, <3>5
  <2>4. MissionStep(p) \/ \E e \in Environment, ok \in BOOLEAN : ActivateStep(p, e, ok)
    BY <1>1 DEF RegistryStep, MissionStep, RequalifyStep, AuthorizeStep, ActivateStep
  <2>5. QED BY <2>2, <2>3, <2>4
<1>2. IInv /\ [Next]_vars => [ReleasedOrBare]_vars
  BY <1>1, StepIsRegistryStep
<1>3. QED BY <1>2, Invariant, PTL DEF Spec

(* The records the outbox of custody ever holds, either way.               *)
OutboxBound == pendingN + keptN <= MaxPending + MaxDelivered - 1

(* A commit evicts before it queues; a delivery only moves a record.       *)
LEMMA OutboxMoves ==
  ASSUME IInv, [Next]_vars
  PROVE  \/ pendingN' + keptN' = pendingN + keptN
         \/ pendingN' <= MaxPending /\ keptN' = Evicted
<1>1. pendingN \in Nat /\ keptN \in Nat
  BY LimitAssumption DEF IInv, TypeOK
<1>2. ASSUME NEW h \in Handler, NEW n \in Nat, Commit(h, n)
      PROVE  pendingN' <= MaxPending /\ keptN' = Evicted
  BY <1>2 DEF Commit, HasRoom
<1>3. CASE UNCHANGED outbox
  BY <1>3 DEF outbox
<1>4. ASSUME NEW h \in Handler, NEW p \in Prime, Request(h, p)
      PROVE  UNCHANGED outbox \/ \E n \in Nat : Commit(h, n)
  <2>1. ASSUME NEW e \in Environment, Mission(h, p, e) PROVE \E n \in Nat : Commit(h, n)
    BY <2>1, MissionEventsNat DEF Mission
  <2>2. ASSUME NEW e \in Environment, MissionOverCapacity(h, p, e) \/ MissionTooLarge(h, p, e)
        PROVE  UNCHANGED outbox
    BY <2>2 DEF MissionOverCapacity, MissionTooLarge
  <2>3. ASSUME Create(h, p) PROVE Commit(h, 1)
    BY <2>3 DEF Create
  <2>4. ASSUME NEW cs \in SUBSET Check, Requalify(h, p, cs)
        PROVE  UNCHANGED outbox \/ Commit(h, 1)
    BY <2>4 DEF Requalify
  <2>5. ASSUME NEW a \in Assertion, Authorize(h, p, a) \/ AuthorizeRejected(h, p, a)
        PROVE  UNCHANGED outbox \/ Commit(h, 1)
    BY <2>5 DEF Authorize, AuthorizeRejected
  <2>6. ASSUME NEW e \in Environment, NEW ok \in BOOLEAN,
               Activate(h, p, e, ok) \/ ActivateDeclined(h, p, e, ok)
        PROVE  UNCHANGED outbox \/ Commit(h, 1)
    BY <2>6 DEF Activate, ActivateDeclined
  <2>7. 1 \in Nat
    OBVIOUS
  <2>8. QED BY <1>4, <2>1, <2>2, <2>3, <2>4, <2>5, <2>6, <2>7 DEF Request
<1>5. ASSUME NEW h \in Handler, Bypass(h) \/ DrainStops(h) PROVE UNCHANGED outbox
  BY <1>5 DEF Bypass, DrainStops
<1>6. ASSUME NEW h \in Handler, QueueRejection(h) PROVE UNCHANGED outbox \/ Commit(h, 1)
  BY <1>6 DEF QueueRejection
<1>7. ASSUME NEW h \in Handler, DrainOne(h) PROVE pendingN' + keptN' = pendingN + keptN
  BY <1>1, <1>7 DEF DrainOne
<1>8. CASE Restart
  BY <1>1, <1>8 DEF Restart
<1>9. ASSUME NEW size \in OtherSizes, RegistryPatch(size) PROVE UNCHANGED outbox
  BY <1>9 DEF RegistryPatch
<1>10. ASSUME NEW a \in Genuine, Expire(a) PROVE UNCHANGED outbox
  BY <1>10 DEF Expire
<1>11. CASE UNCHANGED vars
  BY <1>3, <1>11 DEF vars, outbox
<1>12. QED
  BY <1>2, <1>3, <1>4, <1>5, <1>6, <1>7, <1>8, <1>9, <1>10, <1>11 DEF Next

(* Under any interleaving of requests, drains and restarts the custody     *)
(* events keep the outbox below its two limits together, which             *)
(* queue_events_outbox_patch checks one at a time.                         *)
THEOREM CustodyOutboxBounded == Spec => []OutboxBound
<1>1. Init => OutboxBound
  BY LimitAssumption DEF Init, OutboxBound
<1>2. ASSUME IInv, OutboxBound, [Next]_vars PROVE OutboxBound'
  <2>1. pendingN \in Nat /\ keptN \in Nat /\ pendingN' \in Nat
        /\ MaxPending \in Nat /\ MaxDelivered \in Nat \ {0}
    BY <1>2, LimitAssumption, NextIInv DEF IInv, TypeOK
  <2>2. Evicted \in Nat /\ Evicted <= MaxDelivered - 1
    BY <2>1 DEF Evicted
  <2>3. CASE pendingN' + keptN' = pendingN + keptN
    BY <1>2, <2>1, <2>3 DEF OutboxBound
  <2>4. CASE pendingN' <= MaxPending /\ keptN' = Evicted
    <3>1. keptN' \in Nat /\ keptN' <= MaxDelivered - 1 /\ pendingN' <= MaxPending
      BY <2>2, <2>4
    <3>2. pendingN' + keptN' <= MaxPending + MaxDelivered - 1
      <4>1. PICK a, b, c, d : a = pendingN' /\ b = keptN' /\ c = MaxPending /\ d = MaxDelivered
        OBVIOUS
      <4>2. a \in Nat /\ b \in Nat /\ c \in Nat /\ d \in Nat /\ a <= c /\ b <= d - 1
        BY <2>1, <3>1, <4>1
      <4>3. a + b <= c + d - 1
        BY <4>2
      <4>4. QED BY <4>1, <4>3
    <3>3. QED BY <3>2 DEF OutboxBound
  <2>5. QED BY <1>2, <2>3, <2>4, OutboxMoves
<1>3. QED BY <1>1, <1>2, Invariant, PTL DEF Spec

-----------------------------------------------------------------------------
(* Refinement: what each registry step is in QuarantineRelease.            *)

PhaseOf == [p \in Prime |-> IF custody[p] = "READY" THEN "free"
                            ELSE IF grant[p] = None THEN "held" ELSE "cleared"]
VoucherOf == [p \in Prime |-> IF grant[p] = None THEN None ELSE grant[p].id]
EquippedOf == [p \in Prime |-> pack[p] # None]
IssuedOf == {i \in AuthId : status[i] # "none"}

(* The next-state relation of QuarantineRelease under the mapping.         *)
CustodyStep ==
  \/ UNCHANGED <<PhaseOf, VoucherOf, EquippedOf, IssuedOf>>
  \/ \E m \in Prime :
       \/ \E ph \in {"free", "held"} :
            /\ PhaseOf' = [PhaseOf EXCEPT ![m] = ph]
            /\ VoucherOf' = [VoucherOf EXCEPT ![m] = None]
            /\ EquippedOf' = [EquippedOf EXCEPT ![m] = FALSE]
            /\ UNCHANGED IssuedOf
       \/ \E v \in AuthId :
            /\ PhaseOf[m] \in {"held", "cleared"} /\ v \notin IssuedOf
            /\ PhaseOf' = [PhaseOf EXCEPT ![m] = "cleared"]
            /\ VoucherOf' = [VoucherOf EXCEPT ![m] = v]
            /\ IssuedOf' = IssuedOf \union {v}
            /\ UNCHANGED EquippedOf
       \/ /\ PhaseOf[m] = "cleared"
          /\ PhaseOf' = [PhaseOf EXCEPT ![m] = "held"]
          /\ VoucherOf' = [VoucherOf EXCEPT ![m] = None]
          /\ UNCHANGED <<EquippedOf, IssuedOf>>
       \/ /\ PhaseOf[m] \in {"free", "cleared"}
          /\ PhaseOf' = [PhaseOf EXCEPT ![m] = "free"]
          /\ VoucherOf' = [VoucherOf EXCEPT ![m] = None]
          /\ EquippedOf' = [EquippedOf EXCEPT ![m] = TRUE]
          /\ UNCHANGED IssuedOf

(* The records an open grant leaves and closes all count as issued.        *)
LEMMA ClosingKeepsIssued ==
  ASSUME IInv, NEW p \in Prime, NEW st, st \in {"CONSUMED", "SUPERSEDED"},
         \A i \in AuthId : status'[i] =
           (IF grant[p] # None /\ i = grant[p].id THEN st ELSE status[i])
  PROVE  IssuedOf' = IssuedOf
<1>1. grant[p] # None => status[grant[p].id] = "VERIFIED"
  BY DEF IInv, GrantBacked
<1>2. \A i \in AuthId : status'[i] = "none" <=> status[i] = "none"
  BY <1>1
<1>3. QED BY <1>2 DEF IssuedOf

(* A mission completion is a Return of QuarantineRelease.                  *)
LEMMA MissionIsReturn ==
  ASSUME IInv, NEW p \in Prime, MissionStep(p)
  PROVE  CustodyStep
<1> DEFINE ph == IF custody'[p] = "READY" THEN "free" ELSE "held"
<1>1. PhaseOf' = [PhaseOf EXCEPT ![p] = ph]
  BY ZenonT(60) DEF PhaseOf, MissionStep
<1>2. VoucherOf' = [VoucherOf EXCEPT ![p] = None]
  BY ZenonT(60) DEF VoucherOf, MissionStep
<1>3. EquippedOf' = [EquippedOf EXCEPT ![p] = FALSE]
  BY ZenonT(60) DEF EquippedOf, MissionStep
<1>4. IssuedOf' = IssuedOf
  BY ClosingKeepsIssued DEF MissionStep
<1>5. ph \in {"free", "held"}
  OBVIOUS
<1> HIDE DEF ph
<1>6. QED BY <1>1, <1>2, <1>3, <1>4, <1>5 DEF CustodyStep

(* New evidence is a Withdraw of QuarantineRelease.                        *)
LEMMA RequalifyIsWithdraw ==
  ASSUME IInv, NEW p \in Prime, RequalifyStep(p)
  PROVE  CustodyStep
<1>1. IssuedOf' = IssuedOf /\ EquippedOf' = EquippedOf
  BY ClosingKeepsIssued DEF RequalifyStep, EquippedOf
<1>2. CASE grant[p] = None
  <2>1. \A q \in Prime : grant'[q] = grant[q] /\ custody'[q] = custody[q]
    BY <1>2 DEF RequalifyStep
  <2>2. PhaseOf' = PhaseOf /\ VoucherOf' = VoucherOf
    BY <2>1 DEF PhaseOf, VoucherOf
  <2>3. QED BY <1>1, <2>2 DEF CustodyStep
<1>3. CASE grant[p] # None
  <2>1. custody[p] = "QUARANTINED"
    BY <1>3 DEF IInv, GrantBacked
  <2>2. PhaseOf[p] = "cleared"
    BY <1>3, <2>1 DEF PhaseOf
  <2>3. PhaseOf' = [PhaseOf EXCEPT ![p] = "held"]
    BY <2>1, ZenonT(60) DEF PhaseOf, RequalifyStep
  <2>4. VoucherOf' = [VoucherOf EXCEPT ![p] = None]
    BY DEF VoucherOf, RequalifyStep
  <2>5. QED BY <1>1, <2>2, <2>3, <2>4 DEF CustodyStep
<1>4. QED BY <1>2, <1>3

(* An accepted authorization is a Clear of QuarantineRelease.              *)
LEMMA AuthorizeIsClear ==
  ASSUME IInv, NEW p \in Prime, NEW a \in Assertion, AuthorizeStep(p, a)
  PROVE  CustodyStep
<1>1. a.id \in AuthId /\ a # None
  BY AssertionFields
<1>2. PhaseOf[p] \in {"held", "cleared"}
  BY DEF PhaseOf, AuthorizeStep
<1>3. a.id \notin IssuedOf /\ IssuedOf' = IssuedOf \union {a.id}
  BY <1>1 DEF IssuedOf, AuthorizeStep
<1>4. PhaseOf' = [PhaseOf EXCEPT ![p] = "cleared"]
  BY <1>1, ZenonT(60) DEF PhaseOf, AuthorizeStep
<1>5. VoucherOf' = [VoucherOf EXCEPT ![p] = a.id]
  BY <1>1, ZenonT(60) DEF VoucherOf, AuthorizeStep
<1>6. EquippedOf' = EquippedOf
  BY DEF EquippedOf, AuthorizeStep
<1>7. QED BY <1>1, <1>2, <1>3, <1>4, <1>5, <1>6 DEF CustodyStep

(* An activation is an Equip of QuarantineRelease.                         *)
LEMMA ActivateIsEquip ==
  ASSUME IInv, NEW p \in Prime, NEW e \in Environment, NEW ok \in BOOLEAN,
         ActivateStep(p, e, ok)
  PROVE  CustodyStep
<1>1. custody[p] = "READY" \/ grant[p] # None
  BY DEF ActivateStep, Allowed, Usable, IInv, TypeOK
<1>2. PhaseOf[p] \in {"free", "cleared"}
  BY <1>1 DEF PhaseOf
<1>3. PhaseOf' = [PhaseOf EXCEPT ![p] = "free"]
  BY ZenonT(60) DEF PhaseOf, ActivateStep
<1>4. VoucherOf' = [VoucherOf EXCEPT ![p] = None]
  BY ZenonT(60) DEF VoucherOf, ActivateStep
<1>5. EquippedOf' = [EquippedOf EXCEPT ![p] = TRUE]
  <2>1. e # None
    BY SetAssumption
  <2>2. \A q \in Prime : pack'[q] # None <=> q = p \/ pack[q] # None
    BY <2>1 DEF ActivateStep
  <2>3. \A q \in Prime : EquippedOf'[q] = [EquippedOf EXCEPT ![p] = TRUE][q]
    BY <2>2 DEF EquippedOf
  <2>4. QED BY <2>3 DEF EquippedOf
<1>6. IssuedOf' = IssuedOf
  BY ClosingKeepsIssued DEF ActivateStep
<1>7. QED BY <1>2, <1>3, <1>4, <1>5, <1>6 DEF CustodyStep

(* Custody implements its promise: only a voucher never used before clears *)
(* a PRIME, and only a cleared one is equipped out of quarantine.          *)
THEOREM Refinement == Spec => ImplementsRelease
<1>1. Init => Release!Init
  BY ZenonT(60) DEF Init, Release!Init
<1>2. CustodyStep => [Release!Next]_(Release!vars)
  BY DEF CustodyStep, PhaseOf, VoucherOf, EquippedOf, IssuedOf, Release!Next,
     Release!Return, Release!Clear, Release!Withdraw, Release!Equip, Release!vars
<1>3. ASSUME IInv, RegistryStep
      PROVE  CustodyStep
  <2>1. CASE UNCHANGED <<custody, grant, pack, recorded, status>>
    BY <2>1 DEF CustodyStep, PhaseOf, VoucherOf, EquippedOf, IssuedOf
  <2>2. QED BY <1>3, <2>1, MissionIsReturn, RequalifyIsWithdraw, AuthorizeIsClear,
            ActivateIsEquip DEF RegistryStep
<1>4. IInv /\ [Next]_vars => [Release!Next]_(Release!vars)
  BY <1>2, <1>3, StepIsRegistryStep
<1>5. QED
  BY <1>1, <1>4, Invariant, PTL DEF Spec, ImplementsRelease, Release!Spec
=============================================================================
