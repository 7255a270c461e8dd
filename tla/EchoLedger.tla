----------------------------- MODULE EchoLedger -----------------------------
(***************************************************************************)
(* The ECHO SENTINEL LINK (worldshepherd_sara/echo_event_store.py,         *)
(* echo_checkpoint.py, echo_checkpoint_integrity.py,                       *)
(* echo_checkpoint_verify.py, echo_persistence_service.py): SARA's audit   *)
(* events stored once each, and signed checkpoints over them, in one       *)
(* SQLite database.                                                        *)
(*                                                                         *)
(* Records arrive as often and in whatever order a transfer brings them,   *)
(* with the content SARA gave them or with another.  Handlers run in a     *)
(* thread pool: a write transaction excludes every other writer (BEGIN     *)
(* IMMEDIATE) but no reader, and create_checkpoint holds its own while the *)
(* signer, possibly remote, answers.  The integrity check reads the chain  *)
(* and then the members of one checkpoint after the other.                 *)
(*                                                                         *)
(* Data abstracted: a semantic digest is the content it is taken of, the   *)
(* items of a checkpoint are the map from event ids to contents, a         *)
(* manifest digest is the sequence and the items, and a signature is the   *)
(* material of the key that made it.                                       *)
(***************************************************************************)
EXTENDS Naturals, Sequences, FiniteSets

CONSTANTS
  Event,          \* stable event ids (_outbox_event_id)
  Content,        \* event, actor and payload: what the semantic digest covers
  KeyId, Material,
  KeyRings,       \* <<key id, material>> an operator may configure
  Thread,
  None,
  MaxEvents,      \* MAX_ECHO_EVENTS
  MaxDeliveries,  \* bound on the delivery count of one event
  MaxCheckpoints, \* bound on the length of the chain
  MaxFaults       \* bound on failed operations and crashes in one behaviour

ASSUME KeyAssumption == KeyRings \subseteq KeyId \X Material
ASSUME LimitAssumption ==
  /\ MaxEvents \in Nat \ {0} /\ MaxDeliveries \in Nat \ {0}
  /\ MaxCheckpoints \in Nat /\ MaxFaults \in Nat

VARIABLES
  accepted,   \* events table: the content of each event id
  deliveries, \* events table: delivery_count
  conflicts,  \* conflicts table, by event id and observed content
  chain,      \* echo_checkpoints table, in sequence
  members,    \* echo_checkpoint_events table, by checkpoint sequence
  bound,      \* metadata: the material each key id is bound to
  echo,       \* the running process: its <<key id, material>>, None when down
  pc,         \* where each handler thread is
  seen,       \* the chain a thread's integrity check read
  at,         \* the checkpoint whose members it reads next
  held,       \* the checkpoint a thread is making
  answered,   \* history: ingests of each event answered with success
  told,       \* history: pairs reported stored, pairs reported different
  returned,   \* history: checkpoints returned by the request that made them
  alarmed,    \* history: did an integrity check fail?
  faults

events == <<accepted, deliveries, conflicts>>
checkpoints == <<chain, members>>
threads == <<pc, seen, at, held>>
history == <<answered, told, returned, alarmed>>
vars == <<events, checkpoints, bound, echo, threads, history, faults>>

Items == [Event -> Content \union {None}]
Digest(m) == <<m.seq, m.items>>
Checkpoint == [seq : Nat \ {0}, items : Items, prev : ((Nat \ {0}) \X Items) \union {None},
               key : KeyId, by : Material]

ASSUME NoneAssumption ==
  None \notin Content \union Material \union Checkpoint
              \union (KeyId \X Material) \union (Nat \X Items)

Stored(e) == accepted[e] # None

(* Mutant: the write transactions are deferred ones, which do not wait.    *)
LockIgnored == TRUE

(* SQLite's write lock: create_checkpoint holds it while it signs.         *)
LockFree == \A t \in Thread : pc[t] # "sign"

Init ==
  /\ accepted = [e \in Event |-> None] /\ deliveries = [e \in Event |-> 0]
  /\ conflicts = {}
  /\ chain = <<>> /\ members = <<>>
  /\ bound = [k \in KeyId |-> None]
  /\ echo = None
  /\ pc = [t \in Thread |-> "idle"] /\ seen = [t \in Thread |-> <<>>]
  /\ at = [t \in Thread |-> 1] /\ held = [t \in Thread |-> None]
  /\ answered = [e \in Event |-> 0]
  /\ told = [same |-> {}, different |-> {}]
  /\ returned = {} /\ alarmed = FALSE
  /\ faults = 0

Fault == faults < MaxFaults /\ faults' = faults + 1

-----------------------------------------------------------------------------
(* ingest: one transaction; the handler keeps no state between requests.   *)

TellSame(e, c) == told' = [told EXCEPT !.same = @ \union {<<e, c>>}]
TellDifferent(e, c) == told' = [told EXCEPT !.different = @ \union {<<e, c>>}]

HasRoom == Cardinality({e \in Event : Stored(e)}) < MaxEvents

(* Mutant: a replay is counted by its transport timestamp, that is never.  *)
RecordUncounted(e, c) ==
  /\ deliveries[e] < MaxDeliveries
  /\ accepted[e] = c \/ (~Stored(e) /\ HasRoom)
  /\ accepted' = [accepted EXCEPT ![e] = c]
  /\ deliveries' = [deliveries EXCEPT ![e] = 1]
  /\ UNCHANGED conflicts

(* A new event is stored if there is room; a stored one is counted.        *)
Record(e, c) ==
  /\ deliveries[e] < MaxDeliveries
  /\ accepted[e] = c \/ (~Stored(e) /\ HasRoom)
  /\ accepted' = [accepted EXCEPT ![e] = c]
  /\ deliveries' = [deliveries EXCEPT ![e] = @ + 1]
  /\ UNCHANGED conflicts

Ingest(e, c) ==
  /\ echo # None /\ LockFree
  /\ Record(e, c)
  /\ answered' = [answered EXCEPT ![e] = @ + 1]
  /\ TellSame(e, c)
  /\ UNCHANGED <<checkpoints, bound, echo, threads, returned, alarmed, faults>>

(* Mutant: an ingest that fails is answered with success.                  *)
IngestFailsOpen(e, c) ==
  /\ echo # None /\ LockFree /\ Fault
  /\ accepted[e] = c \/ (~Stored(e) /\ HasRoom)
  /\ TellSame(e, c)
  /\ UNCHANGED <<events, checkpoints, bound, echo, threads, answered, returned, alarmed>>

(* sqlite3.Error after the commit, or an answer that is lost.              *)
IngestFails(e, c) ==
  /\ echo # None /\ LockFree /\ Fault
  /\ Record(e, c)
  /\ UNCHANGED <<checkpoints, bound, echo, threads, history>>

(* EchoEventConflict, 409: the original stays.                             *)
IngestConflict(e, c) ==
  /\ echo # None /\ LockFree
  /\ Stored(e) /\ accepted[e] # c
  /\ conflicts' = conflicts \union {<<e, c>>}
  /\ TellDifferent(e, c)
  /\ UNCHANGED <<accepted, deliveries, checkpoints, bound, echo, threads,
                 answered, returned, alarmed, faults>>

(* reconcile classifies each record of the window it is given: MATCHED,    *)
(* PAYLOAD_MISMATCH, or SARA_ONLY, which promises nothing.                 *)
Reconcile(e, c) ==
  /\ echo # None /\ Stored(e)
  /\ IF accepted[e] = c THEN TellSame(e, c) ELSE TellDifferent(e, c)
  /\ UNCHANGED <<events, checkpoints, bound, echo, threads,
                 answered, returned, alarmed, faults>>

-----------------------------------------------------------------------------
(* verify_bundle, verify_chain                                             *)

(* Nothing of the earlier map is missing from the later, or different.     *)
Extends(now, prior) == \A e \in Event : prior[e] # None => now[e] = prior[e]

NonEmpty(items) == \E e \in Event : items[e] # None

ChainOk(ch, m) ==
  \A i \in DOMAIN ch :
    /\ ch[i].seq = i /\ ch[i].by = m /\ NonEmpty(ch[i].items)
    /\ IF i = 1 THEN ch[i].prev = None
       ELSE ch[i].prev = Digest(ch[i - 1]) /\ Extends(ch[i].items, ch[i - 1].items)

-----------------------------------------------------------------------------
(* check_checkpoint_integrity: of /readyz, and before and after a          *)
(* checkpoint is made.                                                     *)

BeginCheck(t, phase) ==
  /\ pc' = [pc EXCEPT ![t] = phase]
  /\ seen' = [seen EXCEPT ![t] = chain]
  /\ at' = [at EXCEPT ![t] = 1]

End(t) ==
  /\ pc' = [pc EXCEPT ![t] = "idle"]
  /\ seen' = [seen EXCEPT ![t] = <<>>]
  /\ at' = [at EXCEPT ![t] = 1]
  /\ held' = [held EXCEPT ![t] = None]

Ready(t) ==
  /\ echo # None /\ pc[t] = "idle"
  /\ BeginCheck(t, "ready")
  /\ UNCHANGED <<events, checkpoints, bound, echo, held, history, faults>>

(* POST /v1/checkpoint; the bound counts the requests under way.           *)
Request(t) ==
  /\ echo # None /\ pc[t] = "idle"
  /\ Len(chain) + Cardinality({u \in Thread : pc[u] \in {"before", "create", "sign"}})
       < MaxCheckpoints
  /\ BeginCheck(t, "before")
  /\ UNCHANGED <<events, checkpoints, bound, echo, held, history, faults>>

Checking(t) == pc[t] \in {"ready", "before", "after"}

(* The members of one checkpoint, a SELECT of their own.                   *)
ReadMembers(t) ==
  /\ Checking(t) /\ at[t] \in DOMAIN seen[t]
  /\ IF at[t] \in DOMAIN members /\ members[at[t]] = seen[t][at[t]].items
       THEN /\ at' = [at EXCEPT ![t] = @ + 1]
            /\ UNCHANGED <<pc, seen, held, alarmed>>
       ELSE End(t) /\ alarmed' = TRUE
  /\ UNCHANGED <<events, checkpoints, bound, echo, answered, told, returned, faults>>

CheckOk(t) == bound[echo[1]] = echo[2] /\ ChainOk(seen[t], echo[2])

EndCheck(t) ==
  /\ Checking(t) /\ at[t] \notin DOMAIN seen[t]
  /\ IF CheckOk(t)
       THEN /\ alarmed' = alarmed
            /\ IF pc[t] = "before"
                 THEN pc' = [pc EXCEPT ![t] = "create"] /\ UNCHANGED <<seen, at, held, returned>>
                 ELSE /\ End(t)
                      /\ returned' = IF pc[t] = "after" THEN returned \union {held[t]}
                                                        ELSE returned
       ELSE End(t) /\ alarmed' = TRUE /\ UNCHANGED returned
  /\ UNCHANGED <<events, checkpoints, bound, echo, answered, told, faults>>

-----------------------------------------------------------------------------
(* create_checkpoint                                                       *)

Last == chain[Len(chain)]

Manifest == [seq |-> Len(chain) + 1, items |-> accepted,
             prev |-> IF chain = <<>> THEN None ELSE Digest(Last),
             key |-> echo[1], by |-> echo[2]]

(* There is something to seal, and nothing sealed has been lost since.     *)
Sealable == NonEmpty(accepted) /\ (chain # <<>> => Extends(accepted, Last.items))

(* Mutant: the transaction begins after the manifest has been signed.      *)
BeginCreateUnlocked(t) ==
  /\ pc[t] = "create" /\ Sealable
  /\ held' = [held EXCEPT ![t] = Manifest]
  /\ pc' = [pc EXCEPT ![t] = "sign"]
  /\ UNCHANGED <<events, checkpoints, bound, echo, seen, at, history, faults>>

(* BEGIN IMMEDIATE, the manifest over every accepted event, the signature. *)
BeginCreate(t) ==
  /\ pc[t] = "create" /\ LockFree /\ Sealable
  /\ held' = [held EXCEPT ![t] = Manifest]
  /\ pc' = [pc EXCEPT ![t] = "sign"]
  /\ UNCHANGED <<events, checkpoints, bound, echo, seen, at, history, faults>>

(* Nothing to seal, or a lock not got within the busy timeout.             *)
CreateRefused(t) ==
  /\ pc[t] = "create" /\ ~(Sealable /\ LockFree)
  /\ End(t)
  /\ UNCHANGED <<events, checkpoints, bound, echo, history, faults>>

(* The two inserts are one transaction; the second check begins.           *)
CommitCreate(t) ==
  /\ pc[t] = "sign"
  /\ chain' = Append(chain, held[t])
  /\ members' = Append(members, held[t].items)
  /\ pc' = [pc EXCEPT ![t] = "after"]
  /\ seen' = [seen EXCEPT ![t] = chain']
  /\ at' = [at EXCEPT ![t] = 1]
  /\ UNCHANGED <<events, bound, echo, held, history, faults>>

(* Mutant: the bundle is returned although its transaction failed.         *)
GiveUpReturned(t) ==
  /\ pc[t] # "idle" /\ Fault
  /\ returned' = IF pc[t] = "sign" THEN returned \union {held[t]} ELSE returned
  /\ End(t)
  /\ UNCHANGED <<events, checkpoints, bound, echo, answered, told, alarmed>>

(* The signer refuses, a statement fails, or the connection of the client  *)
(* is lost: the transaction is rolled back and nothing is returned.        *)
GiveUp(t) ==
  /\ pc[t] # "idle" /\ Fault
  /\ End(t)
  /\ UNCHANGED <<events, checkpoints, bound, echo, history>>

-----------------------------------------------------------------------------
(* The process.                                                            *)

MayBind(k, m) == bound[k] \in {None, m}

(* Mutant: the service starts without checking the stored chain.           *)
StartUnchecked(k, m) ==
  /\ echo = None /\ MayBind(k, m)
  /\ bound' = [bound EXCEPT ![k] = m]
  /\ echo' = <<k, m>>
  /\ UNCHANGED <<events, checkpoints, threads, history, faults>>

(* create_echo_app binds the key and then checks the chain, under the one  *)
(* fingerprint it was configured with; a key bound to no avail stays bound.*)
Start(k, m) ==
  /\ echo = None /\ MayBind(k, m)
  /\ bound' = [bound EXCEPT ![k] = m]
  /\ echo' = IF ChainOk(chain, m) /\ members = [i \in DOMAIN chain |-> chain[i].items]
               THEN <<k, m>> ELSE None
  /\ UNCHANGED <<events, checkpoints, threads, history, faults>>

Crash ==
  /\ echo # None /\ Fault
  /\ echo' = None
  /\ pc' = [t \in Thread |-> "idle"] /\ seen' = [t \in Thread |-> <<>>]
  /\ at' = [t \in Thread |-> 1] /\ held' = [t \in Thread |-> None]
  /\ UNCHANGED <<events, checkpoints, bound, history>>

-----------------------------------------------------------------------------
Transfer(e, c) ==
  Ingest(e, c) \/ IngestFails(e, c) \/ IngestConflict(e, c) \/ Reconcile(e, c)

Handle(t) ==
  \/ Ready(t) \/ Request(t) \/ ReadMembers(t) \/ EndCheck(t)
  \/ BeginCreate(t) \/ CreateRefused(t) \/ CommitCreate(t) \/ GiveUp(t)

Next ==
  \/ \E e \in Event, c \in Content : Transfer(e, c)
  \/ \E t \in Thread : Handle(t)
  \/ \E ring \in KeyRings : Start(ring[1], ring[2])
  \/ Crash

Spec == Init /\ [][Next]_vars

-----------------------------------------------------------------------------
(* Properties                                                              *)

(* Every variable has the values its table or thread allows.               *)
TypeOK ==
  /\ accepted \in Items /\ deliveries \in [Event -> 0 .. MaxDeliveries]
  /\ conflicts \subseteq Event \X Content
  /\ chain \in Seq(Checkpoint) /\ members \in Seq(Items)
  /\ bound \in [KeyId -> Material \union {None}]
  /\ echo \in (KeyId \X Material) \union {None}
  /\ pc \in [Thread -> {"idle", "ready", "before", "create", "sign", "after"}]
  /\ seen \in [Thread -> Seq(Checkpoint)] /\ at \in [Thread -> Nat \ {0}]
  /\ held \in [Thread -> Checkpoint \union {None}]
  /\ answered \in [Event -> Nat]
  /\ told \in [same : SUBSET (Event \X Content), different : SUBSET (Event \X Content)]
  /\ returned \subseteq Checkpoint /\ alarmed \in BOOLEAN
  /\ faults \in 0 .. MaxFaults

(* What a caller was told about a record stays true: reported stored or    *)
(* MATCHED, it is the stored content; answered 409 or PAYLOAD_MISMATCH,    *)
(* another content is, whatever arrives, fails or crashes later.           *)
VerdictsHold ==
  /\ \A x \in told.same : accepted[x[1]] = x[2]
  /\ \A x \in told.different : Stored(x[1]) /\ accepted[x[1]] # x[2]

(* At least once in, counted: delivery_count covers every delivery that    *)
(* was answered with success and, beyond those, only ones that failed.     *)
DeliveriesCounted ==
  \A e \in Event : /\ answered[e] <= deliveries[e]
                   /\ deliveries[e] <= answered[e] + faults
                   /\ Stored(e) <=> deliveries[e] > 0

(* The chain a verifier exports passes verify_chain under one pinned       *)
(* fingerprint, in every state a crash may leave, its members table agrees,*)
(* and the accepted events still extend its head, so that neither the next *)
(* start-up under that key nor the next checkpoint is ever blocked.        *)
ChainVerifies ==
  /\ chain # <<>> =>
       /\ ChainOk(chain, chain[1].by)
       /\ Extends(accepted, Last.items)
       /\ echo # None => echo[2] = chain[1].by
  /\ members = [i \in DOMAIN chain |-> chain[i].items]

(* A checkpoint its maker was given is in the chain for good.              *)
ReturnedKept == \A b \in returned : b.seq \in DOMAIN chain /\ chain[b.seq] = b

(* The integrity check, whose reads other requests interleave, never fails *)
(* a service that only ever wrote through its own handlers.                *)
NoFalseAlarm == ~alarmed

(* Nothing accepted is replaced, no conflict is forgotten, and the chain   *)
(* only grows.                                                             *)
ProvenanceKept ==
  [][/\ \A e \in Event : Stored(e) => accepted'[e] = accepted[e]
     /\ conflicts \subseteq conflicts'
     /\ Len(chain) <= Len(chain')
     /\ \A i \in DOMAIN chain : chain'[i] = chain[i]]_vars

(* ECHO implements AppendOnlyProvenance: a checkpoint holds every event    *)
(* accepted at the moment it is committed, whatever arrives as it is made. *)
Provenance == INSTANCE AppendOnlyProvenance WITH
  NoContent <- None, facts <- accepted,
  seals <- [i \in DOMAIN chain |-> chain[i].items]
ImplementsProvenance == Provenance!Spec

-----------------------------------------------------------------------------
(* The inductive invariant behind the safety properties.                   *)

(* A running process has bound its key.                                    *)
EchoInv == echo # None => bound[echo[1]] = echo[2]

(* Threads work only while the process runs; what a check read is a prefix *)
(* of the chain; a checkpoint in the making is what it would be if made    *)
(* now, and the lock has one holder; one that was made is in the chain.    *)
ThreadInv ==
  /\ \A t \in Thread :
       /\ pc[t] # "idle" => echo # None
       /\ Len(seen[t]) <= Len(chain)
       /\ \A i \in DOMAIN seen[t] : seen[t][i] = chain[i]
       /\ pc[t] = "sign" =>
            held[t] = Manifest /\ NonEmpty(accepted)
       /\ pc[t] = "after" =>
            held[t] # None /\ held[t].seq \in DOMAIN chain /\ chain[held[t].seq] = held[t]
  /\ \A t, u \in Thread : pc[t] = "sign" /\ pc[u] = "sign" => t = u

IInv == /\ TypeOK /\ VerdictsHold /\ DeliveriesCounted /\ ChainVerifies
        /\ ReturnedKept /\ NoFalseAlarm /\ EchoInv /\ ThreadInv
=============================================================================
