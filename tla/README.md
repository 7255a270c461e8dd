# A verification project for SARA Pro

TLA+ modules, TLC configurations and TLAPS proofs about the parts of
`deployments/sara_verified_local_v1/worldshepherd_sara` (below: the package) and of
`research/qcrypto_tsv/v3_6/worldshepherd_qcrypto_kms` (below: QCRYPTO) that keep
durable state and have to get failure, concurrency and ordering right. Paths are
relative to `src/`; a Python file is in the package, or in QCRYPTO where QCRYPTO is
spoken of.

    tlc -workers 2 -config Outbox_torn.cfg MCSaraOutbox      # any run of the table below
    tlapm SaraOutbox_proofs.tla                              # the proofs of one subsystem

## 1. Inventory

The repository is a monorepo: a FastAPI service (SARA) with companion services,
qualification harnesses, research tracks (numerical physics, a post-quantum
signing control plane) and documents. What keeps protocol state is listed here
with its state, operations and hazards; `PROJECT.json` lists every component.

| Component (files) | State | Operations | What is hard |
|---|---|---|---|
| **Durable store** (`storage.py`, `limits.py`) | `registry.json`, `audit.jsonl`, one re-entrant lock | `transact_registry` (read, patch, validate, atomic replace), `append_audit`, `read_audit` | a write fails before or after the replace; an append leaves half a line; a size limit refuses the *next* state |
| **Event outbox** (`event_outbox.py`) | outbox records in the registry, PENDING or DELIVERED | queue (with eviction), drain, start-up replay (`app.py` lifespan) | two files without a common transaction; several drainers; capacity; crash between append and mark |
| **SARA application** (`app.py`) | process up/down; the registry's other namespaces | lifespan, `registry_patch`, relay, self-test | restart by the container runtime; audit line after the registry transaction |
| **PRIME custody** (`prime_passport_api.py`, `prime_passport.py`, `prime_configuration_custody.py`) | passports: custody state, checks, bound authorization, installed pack | create, mission-complete (with a fail-safe second transaction), requalification evidence, authorize, activate | two transactions of one handler; rejections; a full outbox or registry; stale authorizations |
| **PRIME SENTINEL verifier** (`prime_sentinel_authorization.py`) | authorization records VERIFIED / CONSUMED / SUPERSEDED, trusted and revoked keys, expiry | verify, record, consume, supersede | replay, nonce reuse, key revoked or assertion expired between verification and use |
| **PRIME SENTINEL issuer** (`prime_sentinel_service.py`, `prime_sentinel_issuance_store.py`, `prime_sentinel_ledger_integrity.py`) | SQLite: `issuance`, `issuance_events`, `metadata`; the configured key | issue (two transactions around a signature), key binding, integrity check, health | concurrent copies of a request; crash between PREPARED and SIGNED; key rotation; reads without a snapshot |
| **ECHO persistence and checkpoints** (`echo_event_store.py`, `echo_persistence_service.py`, `echo_checkpoint*.py`) | SQLite: `events`, `conflicts`, the checkpoint chain and its members, key bindings | ingest, reconcile, checkpoint, integrity check, verify, anchor | copies of an event with other contents; events that arrive while a checkpoint is signed; two creators; restarts under another key; reads without a snapshot |
| **WS-SOE coordinator** (`ws_soe_v01c.py`) | two SQLite databases: the coordinator's intents and events, the external service's effects | execute, reconcile, redispatch after no effect | an acknowledgement is lost; the caller dies between any two transactions; callers race |
| **WS-SOE executor and conformance** (`ws_soe_v01b.py`, `ws_soe.py`) | SQLite: the demo counter and one row per execution; receipts callers hold | execute, emit a receipt, assess conformance | a commit long after its checks; racing runners; a verdict that depends on the time of asking |
| **QCRYPTO KMS provider** (`aws_kms_provider.py`, `operation_journal.py`) | one journal file per operation, a cache per process | begin_sign, reconcile | a request that timed out after the key was used; a crash between answer and record |
| **QCRYPTO governed signing** (`control_plane.py`, `governance_plane.py`, `policy_epoch.py`, `emergency_state.py`, `authorization_ledger.py`, `approval_quorum.py`, `pq_quorum.py`, `signing_gate.py`) | policy and emergency ledgers, workflow journal, authorization ledger | change policy or mode, prepare, gather approvals, release, commit evidence | verify and append lock separately; torn appends; what was anchored may have changed |
| **QCRYPTO migration** (`migration_engine.py`, `migration_psbt.py`) | one JSON file of batches with a generation | build, initialize, reserve, sweep, complete | stale generations, lost answers, expired reservations |
| **QCRYPTO market cursors** (`tsv/durable_market_state.py`, `tsv/market_data_adapter.py`) | one JSON file of cursors | apply a message | two processes and no lock; messages repeated, lost, reordered |
| HMAA, PBA, DDIL (`hmaa_*.py`, `pba_*.py`, `ddil*.py`) | an append-only log; in memory | observe, step, merge | torn lines again; order of merged logs |
| everything else | none, or files written once | validation, numerics, command lines | not protocol state |

How they interact: a request thread of SARA calls the custody code, which
derives a registry patch inside one `transact_registry`; the patch carries the
outbox records of its events; the same thread then drains the outbox into the
audit log and reports `DELIVERED` or `PENDING_REPLAY`. The issuer is another
process: it never touches SARA's files, and its assertions reach SARA through the
caller of `authorize`. ECHO is a third: SARA's audit records reach it by HTTP
transfers that may repeat, reorder and lose them. The WS-SOE coordinator talks to an
external service that has a database of its own, and shares nothing with the
executor of v0.1B. QCRYPTO is a separate library: its callers pass a prepared
transaction, and the digests of a migration binding and of a market decision, from
one of its stores to the next.

What makes each part correct:

* *store and outbox*: no committed event is lost; an event is settled only after
  its line was written; a second line is explained by a failed mark; a reply is
  true of the caller's own event; the registry always passes the validation every
  read repeats; a service that died gets up again.
* *custody and verifier*: a quarantined PRIME carries no pack and gets one only by
  consuming one valid, unspent authorization of its own; a closed record stays
  closed; a nonce is used once; a hazardous mission quarantines.
* *issuer*: a request id has one authorization for ever, whatever is retried,
  crashes or is rotated; nothing is returned that is not durable; every signature
  verifies under the key bound to its id; the ledger is always coherent.
* *ECHO*: an accepted event is never replaced and every delivery is counted; what a
  caller was told of a record stays true; a checkpoint holds every event accepted
  when it is committed; the chain verifies under one fingerprint at all times, so
  that no start-up, readiness probe or next checkpoint is ever blocked by it.
* *WS-SOE*: the effect of an intent happens at most once, is never taken for failed
  while it may have happened, is sent again only after its absence was confirmed,
  and is sealed in the end; an execution takes its own step of the counter, its
  trace is judged MATCH, and the passing of time hides no other verdict.
* *QCRYPTO*: an operation uses the key at most once and answers only what is durable;
  a workflow releases at most one intent, through one unbroken run of records,
  anchored in the policy it was prepared under; a batch is signed away under one
  binding, its row's, and with its coins; each state of the cursor file has a history
  without gap or equivocation, and the file advances unless writers overtake each other.

## 2. Plan

1. `SaraOutbox` over the abstract `EventDelivery` - **done**, proved.
2. `PrimeCustody` over the abstract `QuarantineRelease` - **done**, proved.
3. `SentinelIssuance` over the abstract `IdempotentIssuance` - **done**, proved.
4. `EchoLedger` over the abstract `AppendOnlyProvenance` - **done**, proved. Left:
   the checkpoint anchors (`echo_checkpoint_anchor.py`).
5. `KmsSigning` over the abstract `OneShotSigning` - **done**, proved.
6. `GovernedSigning` over the abstract `SingleRelease` - **done**, proved.
7. `EffectReconciliation` over the abstract `ReconciledEffect` - **done**, proved.
8. `ExecutionConformance`: the executor of v0.1B with the verdicts of v0.1A -
   **done**, proved.
9. `MigrationBatches` and `MarketCursors` - **done**, proved.

Left, in this order: the composition of `SentinelIssuance` and `PrimeCustody`
through a channel that loses, delays and repeats assertions, with
`reconcile_signed_records` never answering `INCONSISTENT`; the composition of
`SaraOutbox` and `PrimeCustody`, whose outbox counters `SaraOutbox`'s sequences
would implement; the checkpoint anchors; the evidence log of HMAA.

Bounds are two of each actor and two to four of each value; theorems hold for
every value of the constants. No module that holds, or is used by, a theorem
declares a RECURSIVE operator.

## 3. The modules

### SaraOutbox (storage.py, event_outbox.py, app.py)

`pending` and `retained` are the outbox records of the registry, oldest first;
`other` is the serialized weight of every other namespace; `readable`, `garbled`
and `torn` describe `audit.jsonl`: which events have a line of their own, which
have one glued to a fragment, and whether the file ends in a fragment. `pc` and
`budget` are the threads: a drain iteration (`DrainAppend`, then `DrainMark`)
holds the store's lock throughout, which `LockFree` says of everybody else.

Actions and code: `Submit` / `SubmitRefused` / `SubmitFails` are
`transact_registry` with a queued event, its refusal, and a write error before or
after `os.replace`; `DrainAppend*` and `DrainMark*` the two halves of an
iteration and their failures (`DrainMarkRefused`: the registry validation
refuses the longer DELIVERED record); `DrainEnds` and `Report` the status read
after the loop; `Boot`, `BootDone`, `BootFails`, `Stop` the lifespan;
`RegistryPatch`, `DirectAudit*` the other users of the two files; `Crash` a death
of the process at any point, with what the step in hand may have left behind.

### PrimeCustody (prime_passport_api.py and the modules it calls)

Every handler is one transaction or several; `pc` says where a thread is between
two of them (`bypass`: about to apply a mission without provenance; `reject`:
about to record a refusal; `drain`). The outbox is two counters with the
arithmetic of `SaraOutbox`. A signature is membership in `Genuine`, a key ring is
what the process read at its start (`Restart` reads it again), and expiry is an
event that may happen at any time. `stranded` is a history variable: PRIMEs left
READY by a hazardous mission although the quarantine alone would have fitted.

### SentinelIssuance (the issuer)

`issuance`, `events`, `bound` are the three tables; `pc` = "sign" is a thread
between its two transactions, holding what it read in `held`. `Prepare`, `Resume`,
`Replay`, `Conflict` are the outcomes of `prepare_or_get`; `MarkSigned`,
`AlreadySigned`, `MarkFails` those of `mark_signed`; `Start` binds the configured
key or refuses to start; `CheckReadsRecords` and `CheckReadsEvents` are the two
SELECTs of the integrity check. A hash in the event chain is what it hashes, and
a signature the key material that made it (Ed25519 is deterministic: two threads
that sign one record produce one assertion, which `AlreadySigned` relies on).

### EchoLedger (ECHO SENTINEL LINK)

`accepted`, `deliveries`, `conflicts`, `chain`, `members` and `bound` are the tables,
`echo` the running process with its key. `Ingest`, `IngestConflict` and `IngestFails`
are one ingest transaction answered 200, answered 409, and committed without an
answer; `Reconcile` is the verdict on one record. A thread goes through the
phases of `POST /v1/checkpoint`: `Request`, the first integrity check (`ReadMembers`
for each checkpoint, then `EndCheck`), `BeginCreate` (the transaction opens, the
manifest goes to the signer; from here to the commit `LockFree` is false and no
other writer moves), `CommitCreate`, the second check. `Ready` is the same check
for the readiness probe and the status routes. `GiveUp` is any failure that rolls
back, `Crash` a death at any point, `Start` the key binding and the start-up check,
which may leave a key bound although the start is refused. A digest is what it is
taken of, a signature the material that made it.

### KmsSigning (QCRYPTO: aws_kms_provider.py, operation_journal.py)

`journal` has one record per operation, `cache` is each process's `_completed`,
`issued` counts the Sign requests that used the key. A worker goes from `Claim`
(the IN_FLIGHT record) to `Sign`, which may fail before or after the key was used, to
`MarkSigned` or `MarkIndeterminate`; each journal write may fail before or after
its replace, and `Crash` may come anywhere. `ReplayCached`, `ReplayDurable`,
`RefuseAmbiguous` and `Reconcile` are the other ways a call ends.

### GovernedSigning (QCRYPTO: control_plane.py and what it calls)

`policy` and `emergency` are the anti-rollback ledgers, `workflow` with `tail` the SARA
workflow journal and how its file ends, `receipts` with `torn` the authorization
ledger. A controller prepares an intent under a policy row and an emergency row,
then appends record after record; since `verify()` and `append()` take the lock one
after the other, every call is a step. A death inside an append leaves a torn
line, or a record without its newline. Whether an intent or an approval has
expired by now is a choice. An intent is a transaction with its policy row and its
epoch.

### EffectReconciliation (ws_soe_v01c.py)

The coordinator's database and the external service's are two sets of variables;
every SQLite transaction is one step. A caller may lose the service's
acknowledgement, raise, or die between any two; `reconcile` reads the row, asks the
service and acts on what it read; `redispatch` is allowed by a confirmed absence.

### ExecutionConformance (ws_soe_v01b.py, ws_soe.py)

`Check` is what `execute` verifies with the caller's time, `Commit` the `BEGIN
IMMEDIATE` transaction that may come any time later, `RollBack` every other end of
it. `EmitReceipt` makes a receipt over any observation, the executor's own or one
from elsewhere. `Verdict` is `assess_conformance` with the order of its returns:
records that are missing or conflict, then VIOLATION, DEVIATION, STALE and MATCH.

### MigrationBatches (QCRYPTO: migration_engine.py, migration_psbt.py)

`BuildBatches` is the cutting of the ranked coins, with its edge: a coin above the
value limit gets a batch of its own, so a batch can exceed `max_value_sat_per_batch`.
`Initialize` takes what its caller offers, a built listing or any other batches: the
code compares batch ids and no coins. So a batch keeps its coins as a sequence, a
listing may repeat a coin, and batches may overlap. Only a binding refuses to hold a
coin twice, or none, and such a batch is never reserved (`Reservable`).
`generation` and `rows` are the state file; each call of the store runs under its
lock and is one step, and its caller may die before the answer (`Answered`). `known`
is the generation a caller last saw, `held` the bindings it can present: `Snapshot`
hands out every binding of the file. `Sweep` is a transaction that the builder
made and the gate let through, under a binding that has not lapsed.

### MarketCursors (QCRYPTO: tsv/durable_market_state.py)

A state of the file names its predecessor by digest, so the model's state is the
sequence of messages that made it, and comparing digests is comparing sequences.
`LoadAndValidate`, `CompareState`, `ReplaceState` are the three steps of
`apply_message_durably` between which another process may run; a duplicate, a
gap, an older number or an earlier time, judged against the state loaded, is refused
and changes nothing. `HistoryContiguous` looks at the chain one state descends from;
`CursorsAdvance` looks at the replacements over time. Any
message may come at any time and again, or never. Processes, not threads, race
here: two threads of one process would share the temporary file as well.

### Abstract specifications

`EventDelivery` (wanted, sent at least once, settled only when sent),
`QuarantineRelease` (a voucher clears a machine once, a held machine is equipped
only by its voucher), `IdempotentIssuance` (a request is granted one assertion,
every answer is it) and `AppendOnlyProvenance` (a fact is accepted once, a seal is
a snapshot of all the facts), `OneShotSigning` (an operation is taken once, uses the
key once, gives out only what is recorded), `SingleRelease` (one intent at most is
released, one a quorum approved, and only that is reported) and `ReconciledEffect`
(an effect happens once, after somebody committed to it, and is recorded only if
it happened) are what each component promises, without files, threads or crashes. Each detailed module states its refinement mapping as
`INSTANCE ... WITH`, checked as a property of a run and proved as a theorem.

## 4. Runs

| Run | Checks | Instance and why it is enough |
|---|---|---|
| `outbox_torn` | LossesBounded, RepeatsExplained, ReplyHonest, BootReplaysBacklog, RegistryLoads, ImplementsDelivery | 4 events, 2 handlers and the start-up, 2 faults; limits 2 and 1 so that queues fill and evict; size limit 7, which two DELIVERED records and another namespace reach. 790,000 states |
| `outbox_torn_loss` | DeliveredIsReadable (violated) | one handler, partial appends |
| `outbox_live` | RestartRecovers, DrainsEnd | fairness below; 2 events, tight size limit |
| `custody_safe` | GrantBacked, RecordsClose, ReleaseAuthorized, ImplementsRelease | 2 primes, 2 handlers, 3 genuine assertions (two primes, two environments, a repeated id, a repeated nonce) and a forged one, a key that may be revoked, an outbox of one, a registry that fills. 312,000 states |
| `custody_stranded` | MissionQuarantines (violated) | the same |
| `custody_cleared` | QuarantineHolds (violated) | the same |
| `issuance_safe` | LedgerCoherent, SignedByBoundKey, IssuanceStable, ImplementsIssuance | 2 requests, 2 parameter sets, 2 threads, 3 identities, a key, its successor and a wrong file under a known id, 2 faults. 107,000 states |
| `issuance_live` | PreparedAnswered | a ledger of one record, so that it is full; 2 faults |
| `issuance_alarm` | NoFalseAlarm (violated) | one key |
| `echo_safe` | VerdictsHold, DeliveriesCounted, ChainVerifies, ReturnedKept, NoFalseAlarm, ImplementsProvenance | 3 events for a store of 2, so that it fills; 2 contents, so that copies conflict; 2 handler threads, 2 checkpoints (a first and one with a predecessor), 2 deliveries each, a key, its successor and a wrong file under a known id, 1 fault. 481,000 states, events, contents and threads symmetric |
| `qcrypto_safe` | AnswersDurable, ReleaseUnbroken, ReleaseAnchored, ReportedIsCommitted, BatchSweptOnce, CursorsAdvance, ImplementsOneShot, ImplementsSingleRelease | four machines that share no state; a behaviour runs one. KMS: 2 operations, 2 workers, 2 faults. Governed signing: 2 controllers, one transaction under a binding, 2 policy rows and a freeze, 2 PQ providers of two families, 1 death inside a write. Migration: a listing that repeats a coin across a cut, one with a coin above the limit that repeats a coin within a batch, given batches that overlap, a batch without coins, 2 callers, 2 nonces, 1 lost answer. Market: 2 processes, 2 streams, a number sent with two payloads and a message that steps back, 4 revisions |
| `soe_safe` | OneEffectEach, NoBlindRetry, UncertainNotFailed, TrailMatches, HonestTraceConforms, OneExecutionEach, FreshnessMasksNothing, DispatchedSealed, ImplementsReconciledEffect | two machines likewise. Coordinator: 2 intents, 2 callers, 2 exceptions. Executor: 3 intents (two for the demo with different windows, one not), 2 runners, 5 decisions (denied, late and good ones), times 0 to 2, 2 receipts, one observation from elsewhere. 176,000 states |

The type invariants, and invariants that another property of the run implies
(NoEventLost, RecordsBounded, NonceUnique, InstalledReady, AnswersDurable of the
issuer, ProvenanceKept, OneSignCall, TornIsFinal) and HistoryContiguous, were checked by TLC and are
proved for every instance (section 6); the runs leave them out.

Two actors are enough for every pairwise interleaving, and the proofs remove the
bound for the safety properties. Governed signing has one operator in its run, who
makes a quorum; which sets of operators are a quorum is a parameter of the proofs. `MaxFaults` bounds failed writes and crashes in
one behaviour; the theorems hold for any bound. `CHECK_DEADLOCK FALSE` stands where a violation is looked for and the deadlock is not the question, and in
`qcrypto_safe` and `soe_safe`, whose machines really stop: an operation, a workflow,
a migration and an intent are over one day.

Every property of a passing run has a mutant in `PROJECT.json`: the definition it
replaces is in the map and the mutated form (commented "Mutant") stands before it
in the module. It is the bug the property is there to catch.

### Disagreements the runs show

* `outbox_torn_loss`: an append never looks at how the file ends, so the replay
  after a partial write is glued to the fragment, unreadable, and marked
  DELIVERED. "At-least-once" holds of the attempts, not of what can be read.
* `custody_stranded`: the fail-safe quarantine covers a full outbox
  (`EventOutboxError`) but not a full registry (`ValueError`).
* `custody_cleared`: a mission-complete for a ground mission takes a quarantined
  PRIME to READY; the closure document says only complete records clear it.
* `issuance_alarm`: the integrity check reads two tables without one snapshot and
  reports a failure of a coherent ledger.

### Disagreements without a run

Met while modelling; each follows from the model named, or from reading alone.

* *SentinelIssuance*: the request digest includes the configured key id
  (`prime_sentinel_issuance_store.py`:326), so the same request after a rotation is a
  conflict, where the design document promises the same assertion.
* *GovernedSigning*: a policy epoch is a name its administrator chooses and two rows
  of the policy ledger may carry the same one (QCRYPTO `policy_epoch.py`:103), so an
  intent does not determine the policy state it was prepared under by its epoch.
  PREPARED is skipped when the journal has records, so a workflow prepared for one
  intent may release another; from the first quorum record on all records are of
  one intent, which is what `ReleaseUnbroken` says.
* *EffectReconciliation*: an intent whose caller died at PREPARED is refused by
  `execute` ("reconcile explicitly") and by `reconcile`, which takes only what was
  dispatched: it stays there. NO_EFFECT_CONFIRMED may be followed by the effect of a
  dispatch that was still alive; the idempotency key is what keeps it single.
* *ExecutionConformance*: `assess_conformance` looks at the decision it is given, and
  neither at its signature nor at the one the execution was made under: whether an
  execution is MATCH or VIOLATION depends on which decision is supplied.
* *MarketCursors*: the second load, the comparison and `os.replace` are three steps
  without a lock, so a writer that compared before another one replaced overwrites
  it, and a message that was answered ALLOW is gone from the file and accepted
  again. The v3.6 implementation report lists "compare-and-swap detection of stale
  writers"; with two writers what is left of it is `HistoryContiguous`, of each state
  by itself, and `CursorsAdvance`, which excepts a writer overtaken after its
  comparison; with one process `LoneProcessAdvances` needs no exception. A message
  that is lost stops its stream for good with SEQUENCE_GAP.
* *MigrationBatches*: nothing looks for a coin that is listed twice. The cutting keeps
  it (`migration_engine.py`:138), the store compares batch ids only (222-226), and a
  binding the coins within itself (79); when a limit cuts the two apart, or a caller
  gives overlapping batches, the coin is reserved and swept under two bindings. TLC
  reaches that in the instance of `qcrypto_safe`, and no code or document promises
  the contrary; `BatchSweptOnce` says that there is no other way to it.
  A reservation that expires is never released, so the batch can
  be neither swept nor reserved again; `complete` compares the binding, and not the
  txid with any transaction.
* QCRYPTO `tsv/enforcement.py`: "a feed saying 'not stopped' is not enough to override
  disclosed resumption controls", and `process_primary_stoppage` without an
  authorization answers DENY, but it clears the halt, and `trading_permitted` never
  reads `resumption_authorized`: the next volume observation answers ALLOW.

### Hazards no property covers

The hazards in `PROJECT.json` are those a property covers. These are left:

* `prime_passport_api.py`:398: the direct audit line of a fail-safe quarantine follows
  its registry commit without an outbox record; a crash between the two loses it.
* `prime_sentinel_authorization.py`:239: authorization records are never pruned, and a
  JSON resource holds 64 keys.
* `prime_sentinel_service.py`:302: a record PREPARED long ago is signed on a late retry
  with the times it was prepared with.
* `prime_sentinel_issuance_store.py`:512: health counts records in two SELECTs.
* `echo_checkpoint.py`:351: the write lock is held while a remote signer answers.
* `echo_event_store.py`:270: a full store has to go on recognising what it holds; the
  model does this, no property is about it alone.
* QCRYPTO `policy_epoch.py`:103, `governance_plane.py`:251, `pq_quorum.py`:370 and
  `ws_soe_v01c.py`:797: what is said of them above, a read of the whole journal per
  append, a provider that answers late, and the orphan at PREPARED.

## 5. Fairness

* `outbox_live`: weak fairness of each actor's drain step, of a handler's report,
  of the start-up after a death (`restart: unless-stopped` in `compose.yaml`) and of
  its end. No client is assumed to send anything and no fault is assumed to stop
  by itself: the bound on faults is what ends them. `RestartRecovers` excepts
  `NoRoom`: when the registry cannot take the DELIVERED mark every start-up
  appends the line and fails again.
* `issuance_live`: weak fairness of a thread past its first transaction and of the
  start-up, and strong fairness of a caller's retry, which the design document
  asks of callers; strong because the service is down, or the request in a thread,
  again and again until the faults are spent. Under one unchanging key: the
  rotation case is the disagreement above.
* `soe_safe`: of the coordinator only. Weak fairness of each caller's next step in a
  call it started, and for each intent strong fairness of somebody's `reconcile` and
  of somebody's redispatch: strong because the callers are busy with other calls
  again and again. Exceptions and deaths are bounded, so that `DispatchedSealed`
  does not rest on a fault that repeats for ever. What was dispatched is sealed
  because somebody goes on reconciling it, which the code asks of its operator.

## 6. Proofs

TLAPS proves, for every value of the constants that satisfies the named
assumptions (`LimitAssumption`, `SizeAssumption`, `SetAssumption`, ...):

| Module | Theorems |
|---|---|
| `SaraOutbox_proofs` | Invariant, TypeCorrect, NothingLost, LossesStayBounded, RepeatsOnlyExplained, RepliesHonest, BootReplays, BoundedRecords, RegistryStaysLoadable, ReadableWithoutFragments, Refinement |
| `PrimeCustody_proofs` | Invariant, TypeCorrect, GrantsBacked, NoncesUnique, QuarantinedBare, RecordsStayClosed, ReleasesAuthorized, QuarantineLeft, CustodyOutboxBounded, Refinement |
| `SentinelIssuance_proofs` | Invariant, TypeCorrect, AnswersAreDurable, LedgersCoherent, SignaturesVerify, IssuanceIsStable, RefusalsExplained, OneKeyIdAnswers, IdentitiesNeverShared, CalmChecksPass, Refinement |
| `EchoLedger_proofs` | Invariant, TypeCorrect, VerdictsStay, DeliveriesAccounted, ChainsVerify, ReturnedStay, NoAlarms, ProvenanceStays, CheckpointsNested, VerdictsSealedToo, Refinement |
| `QcryptoStores_proofs` | of KmsSigning: Invariant, TypeCorrect, SignedAtMostOnce, DurableAnswers, ClosedRecordsStay, Refinement; of MarketCursors: HistoriesContiguous, StreamsAdvance, LoneProcessAdvances; of MigrationBatches: BatchesSweptOnce, RowsStayCut, CoinsSweptOnce |
| `GovernedSigning_proofs` | GovInvariant, GovTypeCorrect, ReleasesUnbroken, ReleasesAnchored, ReportsCommitted, TornJournalFinal, PolicyNeverLoosens, RecordsUnderPolicy, HistoriesKept, JournalsShort, GovRefinement |
| `Soe_proofs` | of EffectReconciliation: SoeInvariant, SoeTypeCorrect, OneEffect, NoRetryBlind, UncertainStays, TrailsMatch, RetryBound, SealedFinal, SoeRefinement; of ExecutionConformance: ConformInvariant, ExecutionsCounted, TracesConform, FreshnessLast, VerdictsAge, LastReceiptFixesChain |
| `Inductions` | LeastNat, Stepwise, RecursionExists and the like: the forms of induction the others cite |

Several of these are in no run. They say more than a small instance can show, or
what is left of a promise that a violation run refutes:

* `QuarantineLeft` stands beside `custody_cleared`: a harmless mission does take a PRIME
  out of quarantine without complete evidence, and besides a full release that is
  the only way; it leaves no pack and no binding, and supersedes the authorization.
* `CalmChecksPass` stands beside `issuance_alarm`: the integrity check of the issuer
  can fail only if the ledger moved between its reads.
* `RefusalsExplained` and `OneKeyIdAnswers`: a caller who repeats a request is refused
  only because of another key id; with one key id in every configuration (an
  assumption of that theorem alone) never.
* `RetryBound`: dispatches of an intent are at most the callers plus the exceptions.
  The invariant behind it, `RetriesWithin`, counts what is under way: dispatches and
  the confirmations callers may still turn into one.
* `PolicyNeverLoosens`, `RecordsUnderPolicy`: the ledger of policies is in order, so a
  record made under any row of it is under a policy no stricter than the last.
* `CheckpointsNested`, `VerdictsSealedToo`: consequences of `ChainVerifies` for any two
  checkpoints of a chain, by induction along it.
* `LastReceiptFixesChain`: of two verified chains with one last receipt, by induction
  from the end.
* `RowsStayCut`: the rows are what a caller gave, or the batches laid end to end are one
  listing, each entry of it once and in its order (a coin listed twice is there
  twice); only the batch of a single coin exceeds the value limit, and a batch ends
  only where the next coin would break a limit. It holds as long as there are rows.
* `CoinsSweptOnce`: no coin is signed away under two bindings. It has two hypotheses of
  its own that the code does not enforce: no batches but built ones are given, and
  no listing repeats a coin. `BatchesSweptOnce` needs neither.
* `LoneProcessAdvances`: a file that one process writes, however often it dies, only
  advances (hypothesis: there is one reader).

Each component has an inductive invariant in its own module (`ConformIInv`: in the
module of its proofs, as two conjuncts quantify over the integers and over all
sequences); TLC checked the others as invariants first. The argument is the same everywhere: `Init => IInv`, one lemma per action
for `IInv /\ Action => IInv'`, and the property from `IInv` (or, for an action
property, from `IInv` and one step). What each strengthening adds:

* *SaraOutbox*: `LockInv` (whoever is between append and mark has already appended
  the head of the queue, and is alone), `AppendedInv` (a pending event with a line
  is the one in hand or one whose mark failed: without it a repeat would be
  unexplained), `BootInv` (the start-up's budget covers what is pending),
  `HistoryInv`, `PhaseInv`, `SessionInv`, `CapacityInv`.
* *PrimeCustody*: `GrantBacked` is nearly inductive; it needs `RecordsInv` (a record
  and its status come together under the assertion's id), `BlankInv` (a passport
  never created is blank) and `JobsInv` (a thread in the fail-safe path has a known
  passport).
* *SentinelIssuance*: `HeldInv` (a thread between its transactions holds the claim
  of its request, under the key of the running process) and `SignerInv` (that key
  is the bound one) make `LedgerCoherent` and `SignedByBoundKey` inductive.
* *EchoLedger*: `ThreadInv` says that what an integrity check read is a prefix of
  today's chain (so its late reads still match, and `NoFalseAlarm` follows), that the
  manifest a thread has at the signer is the one the present tables would give (so
  the commit keeps `ChainVerifies`), that one thread at most is there, and that a
  committed checkpoint stays where it was put until it is returned; `EchoInv` says
  the running key is bound.
* *KmsSigning*: `HolderAlone`: a worker past its claim is the only one that holds the
  IN_FLIGHT record, and no request was sent before its own.
* *GovernedSigning*: `Forward`: the journal only moves up the table of transitions and
  ends at a final record; `Behind`: the record that has to come before a
  controller's is in the journal somewhere, and the one before a record right
  before it, for the same intent; `AllVouched`: what a controller or a record
  carries was a row of the ledgers, had its quorum, and was not read in FREEZE.
* *EffectReconciliation*: `RequestsDispatched` counts the requests of an intent, those
  still at a caller included, against its dispatches; `TrailShape`: UNCERTAIN is
  left only by a seal; `CallsKnow`: whoever is about to record UNCERTAIN or a seal
  knows of an effect that is there, and whoever confirms an absence read DISPATCHING.
* *ExecutionConformance*: the counter is 41 and one more for each row; each row was
  checked, with the time it carries, under the decision it names; the receipts are
  chained and in order of time.
* *MarketCursors*: what a process is about to append follows the state it would append
  it to; with one process, a state it has compared is the state of the file.
* *MigrationBatches*: every binding there is, in a row, with a caller or under a
  transaction, is for good the one of its row. What `BuildBatches` computes is a
  recursive function over the prefix of the listing: `RecursionExists` shows that
  there is one, and `BatchesCut` is an induction over that prefix. `PiecesApart` turns
  "each entry once" into "no coin in two batches", where no coin is listed twice.

The library's induction theorems take a predicate as a parameter, which the provers
cannot instantiate. `Inductions` states induction over a set of numbers instead,
from the order of the naturals being well founded, and the proofs above use that.

The refinement theorems show that initial states map to initial states and each
step to an abstract step or a stutter.

Only model-checked: the liveness properties (`RestartRecovers`, `DrainsEnd`,
`PreparedAnswered`, `DispatchedSealed`), which need fairness and ENABLED, and the
violated properties, whose counterexamples are single behaviours.

## 7. Not modelled

Authentication, rate and body limits, response shapes and read-only routes; the
contents of a passport, an assertion or an event beyond what a property tells
apart; the arithmetic of expiry (an event instead); clocks that step back
(`SaraOutbox` assumes the wall clock does not go back between two queueings,
which would reorder the outbox by `created_at`); registry files edited by hand;
`reconcile_signed_records` and the other compositions of the plan.

Narrower than the code: a `Key` of PrimeCustody is a key id and its material at once,
while the code compares key ids alone and never the fingerprint it recorded
(`prime_sentinel_authorization.py`:254, 281-285), so an id bound to other material at a
restart is not in the model. The journal and the ledgers of GovernedSigning are
optional arguments in the code and always given here. Receipts of
ExecutionConformance are emitted with the time of the clock and in one chain.
`RegistryLoads` is about the size of the registry; the 64 keys of the outbox mapping
are the counters `MaxPending` and `MaxDelivered`, which no property watches. The audit
line of a shutdown in SaraOutbox does not fail (`app.py`:136).

Of QCRYPTO: the PSBT parser and its audits (`psbt_guard.py`, `bitcoin_tx.py`, the
address codec), which refuse or let pass one byte string and keep nothing; ECHO
evidence signing, metrics, key lifecycle and attestation checks; the TSV
authorization, one decision from its caller's records, made anew each time.

The largest part of the repository, most of the lines of the implementation, are
numerical solvers and benchmarks (`nsb_*.py`, the physics tracks), qualification
harnesses, report generators and command lines: floating-point results and files
written once, about which TLC and TLAPS have nothing to say. HMAA, PBA, DDIL, the
restriction provenance, the checkpoint anchors and the evidence artifacts are
validation of documents or sequential code without shared state; `PROJECT.json`
lists each with its reason.
