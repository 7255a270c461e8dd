---------------------------- MODULE PrimeCustody ----------------------------
(***************************************************************************)
(* PRIME custody (worldshepherd_sara/prime_passport_api.py,                *)
(* prime_passport.py, prime_configuration_custody.py,                      *)
(* prime_sentinel_authorization.py): digital passports, quarantine after   *)
(* hazardous service, and release by a signed single-use authorization.    *)
(*                                                                         *)
(* Every handler derives a patch and its provenance events inside one      *)
(* DurableStore transaction, which is one step here; a handler that needs  *)
(* a second transaction (fail-safe quarantine, rejection record, drain)    *)
(* goes through pc, and other handlers run in between.  A transaction that *)
(* is refused writes nothing and is no step, unless the handler goes on.   *)
(*                                                                         *)
(* The outbox is two counters with the arithmetic SaraOutbox details.  A   *)
(* write that fails after os.replace is a commit whose handler stops       *)
(* before it drains, which DrainStops allows.                              *)
(*                                                                         *)
(* A Key is a key id and the material under it at once.  The code compares *)
(* key ids alone, never the fingerprint it recorded                        *)
(* (prime_sentinel_authorization.py:254, 281-285), so an id that a restart *)
(* binds to other material is outside this model.                          *)
(***************************************************************************)
EXTENDS Naturals, FiniteSets

CONSTANTS
  Prime, Environment, Check, Key, Handler, AuthId, Nonce,
  Hazardous,      \* HAZARDOUS_POST_MISSION_ENVIRONMENTS
  Assertion,      \* authorization assertions that reach the service
  Genuine,        \* those whose Ed25519 signature verifies
  KeyRings,       \* <<public keys, revoked ids>> the environment may hold
  None,
  MaxPending, MaxDelivered,   \* as in SaraOutbox
  PassportSize, OpenSize, ClosedSize, PendingSize, KeptSize, SizeLimit,
  OtherSizes      \* weights the unprotected namespaces may take

ASSUME SetAssumption ==
  /\ Hazardous \subseteq Environment
  /\ Assertion \subseteq [id : AuthId, nonce : Nonce, prime : Prime,
                          env : Environment, key : Key]
  /\ Genuine \subseteq Assertion
  /\ KeyRings \subseteq (SUBSET Key) \X (SUBSET Key)
  /\ None \notin [prime : Prime, env : Environment]
  /\ None \notin Assertion /\ None \notin Environment /\ None \notin AuthId
ASSUME LimitAssumption ==
  /\ MaxPending \in Nat \ {0} /\ MaxDelivered \in Nat \ {0}
  /\ OtherSizes \subseteq Nat /\ 0 \in OtherSizes

VARIABLES
  known,      \* primes with a passport in the registry
  custody,    \* custody.state of each passport
  checks,     \* completed_requalification_checks
  grant,      \* the authorization the passport is bound to (id, environment, key)
  pack,       \* target environment of the installed pack
  recorded,   \* PRIME_SENTINEL authorization records, by authorization_id
  status,     \* their status ("none": no record)
  pendingN,   \* PENDING outbox records
  keptN,      \* DELIVERED outbox records
  other,      \* weight of the namespaces registry_patch may write
  configured, \* public keys the running process was configured with
  revoked,    \* key ids the running process takes as revoked
  expired,    \* assertions whose expires_at has passed
  pc,         \* where each request thread is
  job,        \* the mission a thread will quarantine without provenance
  stranded    \* history: primes left READY although the quarantine fitted

passports == <<known, custody, checks, grant, pack>>
authorizations == <<recorded, status>>
outbox == <<pendingN, keptN>>
keys == <<configured, revoked>>
threads == <<pc, job>>
vars == <<passports, authorizations, outbox, other, keys, expired, threads, stranded>>

Init ==
  /\ known = {}
  /\ custody = [p \in Prime |-> "READY"]
  /\ checks = [p \in Prime |-> {}]
  /\ grant = [p \in Prime |-> None]
  /\ pack = [p \in Prime |-> None]
  /\ recorded = [i \in AuthId |-> None]
  /\ status = [i \in AuthId |-> "none"]
  /\ pendingN = 0 /\ keptN = 0 /\ other = 0
  /\ \E ring \in KeyRings : configured = ring[1] /\ revoked = ring[2]
  /\ expired = {}
  /\ pc = [h \in Handler |-> "idle"]
  /\ job = [h \in Handler |-> None]
  /\ stranded = {}

-----------------------------------------------------------------------------
(* Registry transactions.                                                  *)

(* validate_json_resource bounds the serialized registry; records are      *)
(* never deleted, and a closed one is longer than an open one.             *)
Weight(kn, st, p, k) ==
  PassportSize * Cardinality(kn)
  + OpenSize * Cardinality({i \in AuthId : st[i] = "VERIFIED"})
  + ClosedSize * Cardinality({i \in AuthId : st[i] \in {"CONSUMED", "SUPERSEDED"}})
  + PendingSize * p + KeptSize * k + other

Fits(kn, st, p, k) == Weight(kn, st, p, k) <= SizeLimit

Evicted == IF keptN >= MaxDelivered THEN MaxDelivered - 1 ELSE keptN

(* queue_events_outbox_patch raises EventOutboxError without this room; a  *)
(* registry that does not fit afterwards is a ValueError.                  *)
HasRoom(n) == pendingN + n <= MaxPending
FitsWith(kn, st, n) == Fits(kn, st, pendingN + n, Evicted)

(* The transaction commits together with n events, and h goes on to drain. *)
Commit(h, n) ==
  /\ HasRoom(n) /\ FitsWith(known', status', n)
  /\ pendingN' = pendingN + n /\ keptN' = Evicted
  /\ pc' = [pc EXCEPT ![h] = "drain"]
  /\ UNCHANGED job

(* superseded_ and consumed_authorization_registry_patch close the bound   *)
(* authorization and raise unless it is VERIFIED.                          *)
CanClose(p) == grant[p] = None \/ status[grant[p].id] = "VERIFIED"
Closed(p, st) == IF grant[p] = None \/ ~CanClose(p) THEN status
                 ELSE [status EXCEPT ![grant[p].id] = st]
Superseded(p) == Closed(p, "SUPERSEDED")

-----------------------------------------------------------------------------
(* create_prime_passport                                                   *)
Create(h, p) ==
  /\ pc[h] = "idle" /\ p \notin known
  /\ known' = known \union {p}
  /\ UNCHANGED <<custody, checks, grant, pack, authorizations>>
  /\ Commit(h, 1)
  /\ UNCHANGED <<other, keys, expired, stranded>>

(* complete_mission: the environment decides the state, whatever it was.   *)
PostMission(e) == IF e \in Hazardous THEN "QUARANTINED" ELSE "READY"

ApplyMission(p, e) ==
  /\ custody' = [custody EXCEPT ![p] = PostMission(e)]
  /\ checks' = [checks EXCEPT ![p] = {}]
  /\ grant' = [grant EXCEPT ![p] = None]
  /\ pack' = [pack EXCEPT ![p] = None]
  /\ status' = Superseded(p)
  /\ stranded' = stranded \ {p}
  /\ UNCHANGED <<known, recorded>>

(* A failed supersession does not stop the mission: it adds an event.      *)
MissionEvents(p) == IF CanClose(p) THEN 1 ELSE 2

Mission(h, p, e) ==
  /\ pc[h] = "idle" /\ p \in known
  /\ ApplyMission(p, e)
  /\ Commit(h, MissionEvents(p))
  /\ UNCHANGED <<other, keys, expired>>

(* EventOutboxError: the same mission will be applied without provenance.  *)
MissionOverCapacity(h, p, e) ==
  /\ pc[h] = "idle" /\ p \in known
  /\ ~HasRoom(MissionEvents(p))
  /\ pc' = [pc EXCEPT ![h] = "bypass"]
  /\ job' = [job EXCEPT ![h] = [prime |-> p, env |-> e]]
  /\ UNCHANGED <<passports, authorizations, outbox, other, keys, expired, stranded>>

(* ValueError: the registry with the events is too large, answer 500.      *)
MissionTooLarge(h, p, e) ==
  /\ pc[h] = "idle" /\ p \in known
  /\ HasRoom(MissionEvents(p)) /\ ~FitsWith(known, Superseded(p), MissionEvents(p))
  /\ stranded' = IF /\ e \in Hazardous /\ custody[p] = "READY"
                    /\ Fits(known, Superseded(p), pendingN, keptN)
                 THEN stranded \union {p} ELSE stranded
  /\ UNCHANGED <<passports, authorizations, outbox, other, keys, expired, threads>>

(* safety_operation derives the transition again from the registry as it   *)
(* is now and commits it without events; a direct audit line follows.      *)
Bypass(h) ==
  /\ pc[h] = "bypass"
  /\ LET p == job[h].prime IN
       IF Fits(known, Superseded(p), pendingN, keptN)
         THEN ApplyMission(p, job[h].env)
         ELSE UNCHANGED <<passports, authorizations, stranded>>
  /\ pc' = [pc EXCEPT ![h] = "idle"]
  /\ job' = [job EXCEPT ![h] = None]
  /\ UNCHANGED <<outbox, other, keys, expired>>

(* Mutant: new evidence leaves the authorization bound.                    *)
RequalifyKeepsGrant(h, p, cs) ==
  /\ pc[h] = "idle" /\ p \in known
  /\ checks' = [checks EXCEPT ![p] = cs]
  /\ UNCHANGED <<known, custody, grant, pack, authorizations>>
  /\ Commit(h, 1)
  /\ UNCHANGED <<other, keys, expired, stranded>>

(* patch_prime_requalification: new evidence clears the bound              *)
(* authorization; if that cannot be superseded, only a rejection follows.  *)
Requalify(h, p, cs) ==
  /\ pc[h] = "idle" /\ p \in known
  /\ IF CanClose(p)
       THEN /\ checks' = [checks EXCEPT ![p] = cs]
            /\ grant' = [grant EXCEPT ![p] = None]
            /\ status' = Superseded(p)
            /\ UNCHANGED <<known, custody, pack, recorded>>
            /\ Commit(h, 1)
       ELSE /\ pc' = [pc EXCEPT ![h] = "reject"]
            /\ UNCHANGED <<passports, authorizations, outbox, job>>
  /\ UNCHANGED <<other, keys, expired, stranded>>

-----------------------------------------------------------------------------
(* authorize_prime_requalification                                         *)

Verifies(a) == a \in Genuine /\ a.key \in configured \ revoked /\ a \notin expired

(* Mutants: a closed record may be replaced; an assertion sent again while *)
(* its record is open is taken again.                                      *)
FreshUnlessOpen(a) ==
  /\ status[a.id] # "VERIFIED"
  /\ \A i \in AuthId \ {a.id} : recorded[i] # None => recorded[i].nonce # a.nonce
FreshOrSame(a) ==
  \/ recorded[a.id] = a /\ status[a.id] = "VERIFIED"
  \/ /\ status[a.id] = "none"
     /\ \A i \in AuthId : recorded[i] # None => recorded[i].nonce # a.nonce

Fresh(a) == /\ status[a.id] = "none"
            /\ \A i \in AuthId : recorded[i] # None => recorded[i].nonce # a.nonce

Acceptable(p, a) ==
  /\ Verifies(a) /\ a.prime = p
  /\ custody[p] = "QUARANTINED" /\ checks[p] = Check
  /\ Fresh(a)

(* An authorization the passport was bound to before stays VERIFIED.       *)
Authorize(h, p, a) ==
  /\ pc[h] = "idle" /\ p \in known /\ Acceptable(p, a)
  /\ grant' = [grant EXCEPT ![p] = a]
  /\ recorded' = [recorded EXCEPT ![a.id] = a]
  /\ status' = [status EXCEPT ![a.id] = "VERIFIED"]
  /\ UNCHANGED <<known, custody, checks, pack>>
  /\ Commit(h, 1)
  /\ UNCHANGED <<other, keys, expired, stranded>>

(* Any refusal, for want of room too, is recorded by a second transaction. *)
AuthorizeRejected(h, p, a) ==
  /\ pc[h] = "idle" /\ p \in known /\ configured # {}
  /\ \/ ~Acceptable(p, a)
     \/ ~HasRoom(1) \/ ~FitsWith(known, [status EXCEPT ![a.id] = "VERIFIED"], 1)
  /\ pc' = [pc EXCEPT ![h] = "reject"]
  /\ UNCHANGED <<passports, authorizations, outbox, other, keys, expired, job, stranded>>

(* _queue_rejection: an event, or else a direct audit line or nothing.     *)
QueueRejection(h) ==
  /\ pc[h] = "reject"
  /\ UNCHANGED <<passports, authorizations>>
  /\ IF HasRoom(1) /\ FitsWith(known, status, 1)
       THEN Commit(h, 1)
       ELSE pc' = [pc EXCEPT ![h] = "idle"] /\ UNCHANGED <<outbox, job>>
  /\ UNCHANGED <<other, keys, expired, stranded>>

-----------------------------------------------------------------------------
(* activate_prime_pack, for a pack for environment e; ok: it is            *)
(* authenticated, compatible and qualified.                                *)

(* Mutant: key and expiry are not checked again at activation.             *)
UsableOnceVerified(p, e) ==
  /\ grant[p] # None /\ status[grant[p].id] = "VERIFIED"
  /\ recorded[grant[p].id].prime = p /\ recorded[grant[p].id].env = e

(* assert_recorded_authorization_usable reads the recorded entry.          *)
Usable(p, e) ==
  /\ grant[p] # None /\ status[grant[p].id] = "VERIFIED"
  /\ LET entry == recorded[grant[p].id] IN
       /\ entry.prime = p /\ entry.env = e
       /\ entry.key \in configured \ revoked /\ entry \notin expired

(* evaluate_pack_activation, after the authorization was found usable.     *)
Allowed(p, e, ok) ==
  /\ ok
  /\ custody[p] = "QUARANTINED" =>
       /\ Usable(p, e)
       /\ checks[p] = Check /\ grant[p].env = e

Activate(h, p, e, ok) ==
  /\ pc[h] = "idle" /\ p \in known /\ Allowed(p, e, ok)
  /\ IF CanClose(p)
       THEN /\ custody' = [custody EXCEPT ![p] = "READY"]
            /\ grant' = IF custody[p] = "READY" THEN grant ELSE [grant EXCEPT ![p] = None]
            /\ pack' = [pack EXCEPT ![p] = e]
            /\ status' = Closed(p, "CONSUMED")
            /\ UNCHANGED <<known, checks, recorded>>
            /\ Commit(h, 1)
       ELSE /\ pc' = [pc EXCEPT ![h] = "reject"]
            /\ UNCHANGED <<passports, authorizations, outbox, job>>
  /\ UNCHANGED <<other, keys, expired, stranded>>

(* Denied, not (or no longer) authorized: only an event is committed.      *)
ActivateDeclined(h, p, e, ok) ==
  /\ pc[h] = "idle" /\ p \in known /\ ~Allowed(p, e, ok)
  /\ UNCHANGED <<passports, authorizations>>
  /\ Commit(h, 1)
  /\ UNCHANGED <<other, keys, expired, stranded>>

-----------------------------------------------------------------------------
(* _drain_delivery_status, one delivered event at a time (see SaraOutbox). *)
DrainOne(h) ==
  /\ pc[h] = "drain" /\ pendingN > 0
  /\ Fits(known, status, pendingN - 1, keptN + 1)
  /\ pendingN' = pendingN - 1 /\ keptN' = keptN + 1
  /\ UNCHANGED <<passports, authorizations, other, keys, expired, threads, stranded>>

DrainStops(h) ==
  /\ pc[h] = "drain"
  /\ pc' = [pc EXCEPT ![h] = "idle"]
  /\ UNCHANGED <<passports, authorizations, outbox, other, keys, expired, job, stranded>>

(* registry_patch (app.py) replaces an unprotected namespace.              *)
RegistryPatch(size) ==
  /\ Weight(known, status, pendingN, keptN) - other + size <= SizeLimit
  /\ other' = size
  /\ UNCHANGED <<passports, authorizations, outbox, keys, expired, threads, stranded>>

(* expires_at of an assertion passes (no other one's is ever compared).    *)
Expire(a) ==
  /\ a \notin expired
  /\ expired' = expired \union {a}
  /\ UNCHANGED <<passports, authorizations, outbox, other, keys, threads, stranded>>

(* The process dies or is restarted: requests are gone, the keys are read  *)
(* from the environment again, and the start-up delivers what is pending.  *)
Restart ==
  /\ Fits(known, status, 0, keptN + pendingN)
  /\ pendingN' = 0 /\ keptN' = keptN + pendingN
  /\ \E ring \in KeyRings : configured' = ring[1] /\ revoked' = ring[2]
  /\ pc' = [h \in Handler |-> "idle"]
  /\ job' = [h \in Handler |-> None]
  /\ UNCHANGED <<passports, authorizations, other, expired, stranded>>

-----------------------------------------------------------------------------
Request(h, p) ==
  \/ Create(h, p)
  \/ \E e \in Environment : \/ Mission(h, p, e) \/ MissionOverCapacity(h, p, e)
                            \/ MissionTooLarge(h, p, e)
  \/ \E cs \in SUBSET Check : Requalify(h, p, cs)
  \/ \E a \in Assertion : Authorize(h, p, a) \/ AuthorizeRejected(h, p, a)
  \/ \E e \in Environment, ok \in BOOLEAN :
       Activate(h, p, e, ok) \/ ActivateDeclined(h, p, e, ok)

Next ==
  \/ \E h \in Handler, p \in Prime : Request(h, p)
  \/ \E h \in Handler : Bypass(h) \/ QueueRejection(h) \/ DrainOne(h) \/ DrainStops(h)
  \/ \E size \in OtherSizes : RegistryPatch(size)
  \/ \E a \in Genuine : Expire(a)
  \/ Restart

Spec == Init /\ [][Next]_vars

-----------------------------------------------------------------------------
(* Properties                                                              *)

(* Every variable has the values its place in the registry allows.         *)
TypeOK ==
  /\ known \subseteq Prime
  /\ custody \in [Prime -> {"READY", "QUARANTINED"}]
  /\ checks \in [Prime -> SUBSET Check]
  /\ grant \in [Prime -> Assertion \union {None}]
  /\ pack \in [Prime -> Environment \union {None}]
  /\ recorded \in [AuthId -> Assertion \union {None}]
  /\ status \in [AuthId -> {"none", "VERIFIED", "CONSUMED", "SUPERSEDED"}]
  /\ pendingN \in 0 .. MaxPending /\ keptN \in Nat /\ other \in OtherSizes
  /\ configured \subseteq Key /\ revoked \subseteq Key /\ expired \subseteq Assertion
  /\ pc \in [Handler -> {"idle", "drain", "bypass", "reject"}]
  /\ job \in [Handler -> [prime : Prime, env : Environment] \union {None}]
  /\ stranded \subseteq Prime

(* A passport bound to an authorization is quarantined with complete       *)
(* evidence, and the bound authorization is its own, recorded and open:    *)
(* supersession and consumption never find it closed.                      *)
GrantBacked ==
  \A p \in Prime : grant[p] # None =>
    /\ custody[p] = "QUARANTINED" /\ checks[p] = Check
    /\ grant[p] \in Genuine /\ grant[p].prime = p
    /\ status[grant[p].id] = "VERIFIED" /\ recorded[grant[p].id] = grant[p]

(* No nonce is recorded under two authorization ids.                       *)
NonceUnique ==
  \A i, j \in AuthId :
    recorded[i] # None /\ recorded[j] # None /\ recorded[i].nonce = recorded[j].nonce
      => i = j

(* A quarantined PRIME has no pack installed.                              *)
InstalledReady == \A p \in Prime : pack[p] # None => custody[p] = "READY"

(* A record once made keeps its assertion; once consumed or superseded it  *)
(* is closed for good.                                                     *)
RecordsClose ==
  [][\A i \in AuthId :
       /\ recorded[i] # None => recorded'[i] = recorded[i]
       /\ status[i] = "VERIFIED" => status'[i] # "none"
       /\ status[i] \in {"CONSUMED", "SUPERSEDED"} => status'[i] = status[i]]_vars

(* A pack is installed on a quarantined PRIME only by consuming, in that   *)
(* step, its complete evidence's authorization for the pack's environment, *)
(* unexpired and under a key the process still trusts.                     *)
ReleaseAuthorized ==
  [][\A p \in Prime :
       custody[p] = "QUARANTINED" /\ pack'[p] # None =>
         LET a == grant[p] IN
         /\ a # None /\ a \in Genuine /\ checks[p] = Check
         /\ a.prime = p /\ a.env = pack'[p]
         /\ a.key \in configured \ revoked /\ a \notin expired
         /\ status[a.id] = "VERIFIED" /\ status'[a.id] = "CONSUMED"]_vars

(* The fail-safe of complete_prime_mission: a PRIME back from a hazardous  *)
(* mission is not left READY for want of room for its provenance.          *)
MissionQuarantines == stranded = {}

(* WS_PRIME_V0_8 closure document: the quarantine holds until its records  *)
(* are complete, and only a release leaves it.                             *)
QuarantineHolds ==
  [][\A p \in Prime :
       custody[p] = "QUARANTINED" /\ custody'[p] = "READY" =>
         checks[p] = Check /\ grant[p] # None]_vars

(* Custody implements QuarantineRelease: the voucher is the authorization  *)
(* id, and none, not even one replaced unused, ever clears a PRIME again.  *)
Release == INSTANCE QuarantineRelease WITH
  Machine <- Prime, Voucher <- AuthId, NoVoucher <- None,
  phase <- [p \in Prime |-> IF custody[p] = "READY" THEN "free"
                            ELSE IF grant[p] = None THEN "held" ELSE "cleared"],
  voucher <- [p \in Prime |-> IF grant[p] = None THEN None ELSE grant[p].id],
  equipped <- [p \in Prime |-> pack[p] # None],
  issued <- {i \in AuthId : status[i] # "none"}
ImplementsRelease == Release!Spec

-----------------------------------------------------------------------------
(* The inductive invariant behind the safety properties.                   *)

(* A record and its status come together, filed under the assertion's id.  *)
RecordsInv ==
  \A i \in AuthId :
    /\ status[i] = "none" <=> recorded[i] = None
    /\ recorded[i] # None => recorded[i].id = i

(* A passport that was never created is blank.                             *)
BlankInv ==
  \A p \in Prime \ known : custody[p] = "READY" /\ grant[p] = None /\ pack[p] = None

(* A thread that bypasses the outbox has the mission of a passport.        *)
JobsInv ==
  \A h \in Handler : pc[h] = "bypass" => job[h] # None /\ job[h].prime \in known

IInv == /\ TypeOK /\ GrantBacked /\ NonceUnique /\ InstalledReady
        /\ RecordsInv /\ BlankInv /\ JobsInv
=============================================================================
