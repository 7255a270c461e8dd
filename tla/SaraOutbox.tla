----------------------------- MODULE SaraOutbox -----------------------------
(***************************************************************************)
(* The SARA durable store and its transactional event outbox              *)
(* (worldshepherd_sara/storage.py, event_outbox.py, the lifespan and the   *)
(* registry/relay handlers of app.py).                                     *)
(*                                                                         *)
(* One process owns two files: registry.json, replaced atomically under a  *)
(* re-entrant lock, and audit.jsonl, appended to under the same lock.  The *)
(* outbox lives in the registry; a drain copies its oldest pending event   *)
(* to the audit file and then marks it DELIVERED in the registry.  The two *)
(* files are not one transaction: a write can fail and the process can     *)
(* stop between the two steps, and an append can leave half a line.        *)
(*                                                                         *)
(* Data abstracted: an outbox record is its event; the pending records are *)
(* kept in created_at order and the delivered ones in delivered_at order   *)
(* (the wall clock is taken not to step back between two queueings); the   *)
(* serialized size of the registry is a weight per record.                 *)
(***************************************************************************)
EXTENDS Naturals, Sequences, FiniteSets

CONSTANTS
  Event,          \* the outbox event identifiers (fresh uuid4 / transition ids)
  Handler,        \* request threads of the service
  boot,           \* the lifespan start-up, which drains like a handler
  NoEvent,        \* a handler that queued nothing
  MaxPending,     \* MAX_PENDING_OUTBOX_EVENTS
  MaxDelivered,   \* MAX_RETAINED_DELIVERED_EVENTS
  DrainLimit,     \* limit a request handler gives drain_event_outbox
  PendingSize,    \* serialized weight of a PENDING record
  DeliveredSize,  \* serialized weight of the same record once DELIVERED
  SizeLimit,      \* MAX_SERIALIZED_BYTES of the whole registry
  OtherSizes,     \* weights the rest of the registry may take
  TornWrites,     \* may a failed append leave a fragment of a line?
  MaxFaults       \* bound on write failures and crashes in one behaviour

ASSUME ActorAssumption == boot \notin Handler /\ NoEvent \notin Event
ASSUME LimitAssumption ==
  /\ MaxPending \in Nat \ {0} /\ MaxDelivered \in Nat \ {0}
  /\ DrainLimit \in Nat \ {0} /\ MaxFaults \in Nat
ASSUME SizeAssumption ==
  /\ PendingSize \in Nat /\ DeliveredSize \in Nat /\ SizeLimit \in Nat
  /\ OtherSizes \subseteq Nat /\ 0 \in OtherSizes
ASSUME TornAssumption == TornWrites \in BOOLEAN

VARIABLES
  pending,   \* registry: PENDING outbox records, oldest first
  retained,  \* registry: DELIVERED outbox records, oldest delivery first
  other,     \* registry: weight of every other namespace
  readable,  \* audit: events with a complete line of their own
  garbled,   \* audit: events whose line was appended onto a fragment
  torn,      \* audit: does the file end in a fragment without newline?
  proc,      \* "stopped" by the operator, "down", "booting" or "up"
  pc,        \* where each actor is
  budget,    \* iterations left in each actor's drain loop
  mine,      \* the event each handler queued
  reply,     \* the provenance_delivery (or failure) last returned
  queued,    \* history: events some committed transaction queued
  repeated,  \* history: events with more than one line in the audit file
  unmarked,  \* history: events appended and then not marked DELIVERED
  backlog,   \* history: events pending when the current process started
  faults     \* faults so far

Actor == Handler \union {boot}
registry == <<pending, retained, other>>
audit == <<readable, garbled, torn, repeated>>
session == <<pc, budget, mine, reply>>
history == <<queued, unmarked, backlog>>
vars == <<registry, audit, proc, session, history, faults>>

Elements(s) == {s[i] : i \in DOMAIN s}
Delivering == readable \union garbled

(* The DurableStore lock: a drain iteration holds it from its append to    *)
(* its registry write; every other step here takes and releases it.        *)
LockFree == \A a \in Actor : pc[a] # "mark"

(* validate_json_resource: the serialized registry has to fit.             *)
Weight(p, r, o) == PendingSize * p + DeliveredSize * r + o
Fits(p, r, o) == Weight(p, r, o) <= SizeLimit

Init ==
  /\ pending = <<>> /\ retained = <<>> /\ other = 0
  /\ readable = {} /\ garbled = {} /\ torn = FALSE /\ repeated = {}
  /\ proc = "stopped"
  /\ pc = [a \in Actor |-> "idle"]
  /\ budget = [a \in Actor |-> 0]
  /\ mine = [h \in Handler |-> NoEvent]
  /\ reply = [h \in Handler |-> "none"]
  /\ queued = {} /\ unmarked = {} /\ backlog = {}
  /\ faults = 0

Fault == faults < MaxFaults /\ faults' = faults + 1

(* Mutants: a drain that raised is reported as a delivery; a start-up that *)
(* raises exits as an operator's stop does, and nothing restarts it.       *)
EndSessionDelivered(a, r) ==
  /\ pc' = [pc EXCEPT ![a] = "idle"]
  /\ proc' = IF a = boot THEN "down" ELSE proc
  /\ reply' = IF a = boot THEN reply ELSE [reply EXCEPT ![a] = "DELIVERED"]
  /\ UNCHANGED <<budget, mine>>

EndSessionStopped(a, r) ==
  /\ pc' = [pc EXCEPT ![a] = "idle"]
  /\ proc' = IF a = boot THEN "stopped" ELSE proc
  /\ reply' = IF a = boot THEN reply ELSE [reply EXCEPT ![a] = r]
  /\ UNCHANGED <<budget, mine>>

(* A session that ends in an exception: a request answers r, a start-up    *)
(* that raises never reaches "up".                                         *)
EndSession(a, r) ==
  /\ pc' = [pc EXCEPT ![a] = "idle"]
  /\ proc' = IF a = boot THEN "down" ELSE proc
  /\ reply' = IF a = boot THEN reply ELSE [reply EXCEPT ![a] = r]
  /\ UNCHANGED <<budget, mine>>

-----------------------------------------------------------------------------
(* Queueing: the handler's registry transaction.                           *)

(* queue_event_outbox_patch makes room only when the retained records have *)
(* reached their limit, and then for one more below it.                    *)
Evicted == IF Len(retained) >= MaxDelivered
             THEN SubSeq(retained, Len(retained) - MaxDelivered + 2, Len(retained))
             ELSE retained

CanQueue == /\ Len(pending) < MaxPending
            /\ Fits(Len(pending) + 1, Len(Evicted), other)

Queue(e) ==
  /\ pending' = Append(pending, e)
  /\ retained' = Evicted
  /\ queued' = queued \union {e}
  /\ UNCHANGED <<other, unmarked, backlog>>

(* transact_registry commits; the handler goes on to drain.                *)
Submit(h, e) ==
  /\ proc = "up" /\ pc[h] = "idle" /\ LockFree
  /\ e \notin queued /\ CanQueue
  /\ Queue(e)
  /\ pc' = [pc EXCEPT ![h] = "drain"]
  /\ budget' = [budget EXCEPT ![h] = DrainLimit]
  /\ mine' = [mine EXCEPT ![h] = e]
  /\ reply' = [reply EXCEPT ![h] = "none"]
  /\ UNCHANGED <<audit, proc, faults>>

(* Capacity or size refuses the event: nothing is written.                 *)
SubmitRefused(h) ==
  /\ proc = "up" /\ pc[h] = "idle" /\ LockFree /\ ~CanQueue
  /\ mine' = [mine EXCEPT ![h] = NoEvent]
  /\ reply' = [reply EXCEPT ![h] = "ERROR"]
  /\ UNCHANGED <<registry, audit, proc, pc, budget, history, faults>>

(* _atomic_write_json raises before os.replace (nothing changed) or after  *)
(* it (directory fsync): the request fails, the event is in the registry.  *)
SubmitFails(h, e) ==
  /\ proc = "up" /\ pc[h] = "idle" /\ LockFree
  /\ e \notin queued /\ CanQueue /\ Fault
  /\ \/ Queue(e) /\ mine' = [mine EXCEPT ![h] = e]
     \/ UNCHANGED <<registry, history>> /\ mine' = [mine EXCEPT ![h] = NoEvent]
  /\ reply' = [reply EXCEPT ![h] = "ERROR"]
  /\ UNCHANGED <<audit, proc, pc, budget>>

-----------------------------------------------------------------------------
(* Appending to the audit file.                                            *)

(* Mutant: the fragment is still at the end of the file after the append.  *)
AppendLineTorn(e) ==
  /\ readable' = IF torn THEN readable ELSE readable \union {e}
  /\ garbled' = IF torn THEN garbled \union {e} ELSE garbled
  /\ repeated' = IF e \in Delivering THEN repeated \union {e} ELSE repeated
  /\ UNCHANGED torn

(* A complete line: after a fragment it is glued to it and unreadable.     *)
AppendLine(e) ==
  /\ readable' = IF torn THEN readable ELSE readable \union {e}
  /\ garbled' = IF torn THEN garbled \union {e} ELSE garbled
  /\ repeated' = IF e \in Delivering THEN repeated \union {e} ELSE repeated
  /\ torn' = FALSE

(* A line that is no outbox event ends whatever fragment is there.         *)
AppendPlain == torn' = FALSE /\ UNCHANGED <<readable, garbled, repeated>>

AppendPart == TornWrites /\ torn' = TRUE /\ UNCHANGED <<readable, garbled, repeated>>

(* Mutants: the lock misses the whole iteration; the event is marked       *)
(* without its line.                                                       *)
DrainAppendNoLock(a) ==
  /\ pc[a] = "drain" /\ budget[a] > 0 /\ pending # <<>>
  /\ AppendLine(Head(pending))
  /\ pc' = [pc EXCEPT ![a] = "mark"]
  /\ UNCHANGED <<registry, proc, budget, mine, reply, history, faults>>

DrainAppendSkips(a) ==
  /\ pc[a] = "drain" /\ LockFree /\ budget[a] > 0 /\ pending # <<>>
  /\ pc' = [pc EXCEPT ![a] = "mark"]
  /\ UNCHANGED <<registry, audit, proc, budget, mine, reply, history, faults>>

DrainAppend(a) ==
  /\ pc[a] = "drain" /\ LockFree /\ budget[a] > 0 /\ pending # <<>>
  /\ AppendLine(Head(pending))
  /\ pc' = [pc EXCEPT ![a] = "mark"]
  /\ UNCHANGED <<registry, proc, budget, mine, reply, history, faults>>

(* append_audit raises: nothing, a part, or (fsync failed) the whole line. *)
DrainAppendFails(a) ==
  /\ pc[a] = "drain" /\ LockFree /\ budget[a] > 0 /\ pending # <<>> /\ Fault
  /\ \/ UNCHANGED <<audit, unmarked>>
     \/ AppendPart /\ UNCHANGED unmarked
     \/ AppendLine(Head(pending)) /\ unmarked' = unmarked \union {Head(pending)}
  /\ EndSession(a, "PENDING_REPLAY")
  /\ UNCHANGED <<registry, queued, backlog>>

-----------------------------------------------------------------------------
(* Marking the appended event DELIVERED, still under the lock.             *)

Mark == /\ pending' = Tail(pending)
        /\ retained' = Append(retained, Head(pending))
        /\ UNCHANGED other

(* Mutant: the drain writes the registry without validating it.            *)
MarkUnchecked == TRUE

MarkFits == Fits(Len(pending) - 1, Len(retained) + 1, other)

DrainMark(a) ==
  /\ pc[a] = "mark" /\ MarkFits
  /\ Mark
  /\ pc' = [pc EXCEPT ![a] = "drain"]
  /\ budget' = [budget EXCEPT ![a] = @ - 1]
  /\ UNCHANGED <<audit, proc, mine, reply, history, faults>>

(* Mutant: the refused registry write is retried at once, line included.   *)
DrainMarkRetried(a) ==
  /\ pc[a] = "mark" /\ ~MarkFits
  /\ unmarked' = unmarked \union {Head(pending)}
  /\ pc' = [pc EXCEPT ![a] = "drain"]
  /\ UNCHANGED <<registry, audit, proc, budget, mine, reply, queued, backlog, faults>>

(* A DELIVERED record is longer than the PENDING one: the registry may be  *)
(* refused after the line is already in the audit file.                    *)
DrainMarkRefused(a) ==
  /\ pc[a] = "mark" /\ ~MarkFits
  /\ unmarked' = unmarked \union {Head(pending)}
  /\ EndSession(a, "PENDING_REPLAY")
  /\ UNCHANGED <<registry, audit, queued, backlog, faults>>

DrainMarkFails(a) ==
  /\ pc[a] = "mark" /\ MarkFits /\ Fault
  /\ \/ Mark /\ UNCHANGED unmarked
     \/ UNCHANGED registry /\ unmarked' = unmarked \union {Head(pending)}
  /\ EndSession(a, "PENDING_REPLAY")
  /\ UNCHANGED <<audit, queued, backlog>>

-----------------------------------------------------------------------------
(* The end of a drain: a handler reads the registry again to report, the   *)
(* start-up appends service_started and opens the service.                 *)

DrainEnds(a) ==
  /\ pc[a] = "drain" /\ LockFree /\ (budget[a] = 0 \/ pending = <<>>)
  /\ pc' = [pc EXCEPT ![a] = "status"]
  /\ UNCHANGED <<registry, audit, proc, budget, mine, reply, history, faults>>

Report(h) ==
  /\ pc[h] = "status" /\ LockFree
  /\ pc' = [pc EXCEPT ![h] = "idle"]
  /\ reply' = [reply EXCEPT ![h] =
                 IF pending = <<>> THEN "DELIVERED" ELSE "PENDING_REPLAY"]
  /\ UNCHANGED <<registry, audit, proc, budget, mine, history, faults>>

(* Mutant: the start-up replays one event.                                 *)
BootOnce ==
  /\ proc \in {"down", "stopped"}
  /\ proc' = "booting"
  /\ pc' = [pc EXCEPT ![boot] = "drain"]
  /\ budget' = [budget EXCEPT ![boot] = 1]
  /\ backlog' = Elements(pending)
  /\ UNCHANGED <<registry, audit, mine, reply, queued, unmarked, faults>>

Boot ==
  /\ proc \in {"down", "stopped"}
  /\ proc' = "booting"
  /\ pc' = [pc EXCEPT ![boot] = "drain"]
  /\ budget' = [budget EXCEPT ![boot] = MaxPending]
  /\ backlog' = Elements(pending)
  /\ UNCHANGED <<registry, audit, mine, reply, queued, unmarked, faults>>

BootDone ==
  /\ pc[boot] = "status" /\ AppendPlain
  /\ proc' = "up"
  /\ pc' = [pc EXCEPT ![boot] = "idle"]
  /\ UNCHANGED <<registry, budget, mine, reply, history, faults>>

BootFails ==
  /\ pc[boot] = "status" /\ Fault
  /\ AppendPart \/ AppendPlain \/ UNCHANGED audit
  /\ EndSession(boot, "none")
  /\ UNCHANGED <<registry, history>>

-----------------------------------------------------------------------------
(* The rest of the service that shares the two files.                      *)

(* registry_patch on an unprotected namespace; its audit line follows in a *)
(* lock section of its own.                                                *)
RegistryPatch(h, size) ==
  /\ proc = "up" /\ pc[h] = "idle" /\ LockFree
  /\ Fits(Len(pending), Len(retained), size)
  /\ other' = size
  /\ pc' = [pc EXCEPT ![h] = "audit"]
  /\ UNCHANGED <<pending, retained, audit, proc, budget, mine, reply, history, faults>>

(* Any direct append_audit: relay, self-test, rejected or accepted patch.  *)
DirectAudit(h) ==
  /\ proc = "up" /\ pc[h] \in {"idle", "audit"} /\ LockFree
  /\ AppendPlain
  /\ pc' = [pc EXCEPT ![h] = "idle"]
  /\ UNCHANGED <<registry, proc, budget, mine, reply, history, faults>>

DirectAuditFails(h) ==
  /\ proc = "up" /\ pc[h] \in {"idle", "audit"} /\ LockFree /\ Fault
  /\ AppendPart \/ AppendPlain \/ UNCHANGED audit
  /\ pc' = [pc EXCEPT ![h] = "idle"]
  /\ UNCHANGED <<registry, proc, budget, mine, reply, history>>

(* Shutdown waits for the requests and appends service_stopped.            *)
Stop ==
  /\ proc = "up" /\ \A a \in Actor : pc[a] = "idle"
  /\ AppendPlain
  /\ proc' = "stopped"
  /\ UNCHANGED <<registry, session, history, faults>>

(* The process dies.  An iteration past its append may or may not have     *)
(* replaced the registry; one about to append may leave a fragment or a    *)
(* whole line.                                                             *)
Crash ==
  /\ proc \in {"booting", "up"} /\ Fault
  /\ proc' = "down"
  /\ pc' = [a \in Actor |-> "idle"]
  /\ UNCHANGED <<budget, mine, reply, queued, backlog>>
  /\ \/ UNCHANGED <<pending, retained, audit>>
        /\ unmarked' = IF LockFree THEN unmarked ELSE unmarked \union {Head(pending)}
     \/ ~LockFree /\ MarkFits /\ Mark /\ UNCHANGED <<audit, unmarked>>
     \/ /\ LockFree /\ \E a \in Actor : pc[a] = "drain" /\ budget[a] > 0
        /\ pending # <<>>
        /\ \/ AppendPart /\ UNCHANGED unmarked
           \/ AppendLine(Head(pending)) /\ unmarked' = unmarked \union {Head(pending)}
        /\ UNCHANGED <<pending, retained>>
  /\ UNCHANGED other

-----------------------------------------------------------------------------
Drain(a) == DrainAppend(a) \/ DrainMark(a) \/ DrainMarkRefused(a) \/ DrainEnds(a)

Serve(h) ==
  \/ \E e \in Event : Submit(h, e) \/ SubmitFails(h, e)
  \/ SubmitRefused(h)
  \/ \E size \in OtherSizes : RegistryPatch(h, size)
  \/ DirectAudit(h) \/ DirectAuditFails(h)
  \/ Report(h)

Next ==
  \/ \E a \in Actor : Drain(a) \/ DrainAppendFails(a) \/ DrainMarkFails(a)
  \/ \E h \in Handler : Serve(h)
  \/ Boot \/ BootDone \/ BootFails
  \/ Stop \/ Crash

Spec == Init /\ [][Next]_vars

(* A thread that holds or can take the lock goes on, and compose restarts  *)
(* ("unless-stopped") a service that died; no client has to send anything. *)
Fairness ==
  /\ \A a \in Actor : WF_vars(Drain(a))
  /\ \A h \in Handler : WF_vars(Report(h))
  /\ WF_vars(proc = "down" /\ Boot) /\ WF_vars(BootDone)

FairSpec == Spec /\ Fairness

-----------------------------------------------------------------------------
(* Properties                                                              *)

(* Every variable has the values its place in the two files allows.        *)
TypeOK ==
  /\ pending \in Seq(Event) /\ retained \in Seq(Event) /\ other \in OtherSizes
  /\ readable \subseteq Event /\ garbled \subseteq Event /\ torn \in BOOLEAN
  /\ proc \in {"stopped", "down", "booting", "up"}
  /\ pc \in [Actor -> {"idle", "drain", "mark", "status", "audit"}]
  /\ budget \in [Actor -> Nat]
  /\ mine \in [Handler -> Event \union {NoEvent}]
  /\ reply \in [Handler -> {"none", "DELIVERED", "PENDING_REPLAY", "ERROR"}]
  /\ queued \subseteq Event /\ repeated \subseteq Event
  /\ unmarked \subseteq Event /\ backlog \subseteq Event
  /\ faults \in 0 .. MaxFaults

(* No committed event disappears: whatever fails or crashes, and whatever  *)
(* the retention evicts, an event queued by a committed transaction is     *)
(* still PENDING or has a line in the audit file.                          *)
NoEventLost == queued \subseteq Elements(pending) \union Delivering

(* drain_event_outbox: what the registry no longer holds as PENDING can be *)
(* read back from the audit file under its event id.                       *)
DeliveredIsReadable == queued \ Elements(pending) \subseteq readable

(* A torn write costs at most one event its readable line: of the events   *)
(* no longer PENDING, at most as many cannot be read back as there were    *)
(* faults, one less while the file still ends in a fragment (append_audit).*)
LossesBounded ==
  Cardinality((queued \ Elements(pending)) \ readable) + (IF torn THEN 1 ELSE 0) <= faults

(* A second line for an event is written only after an attempt whose mark  *)
(* did not reach the registry: two concurrent drains never both deliver.   *)
RepeatsExplained == repeated \subseteq unmarked

(* A response that reports provenance_delivery DELIVERED is true of the    *)
(* event that very request queued, whoever drained it.                     *)
ReplyHonest ==
  \A h \in Handler :
    reply[h] = "DELIVERED" => mine[h] \notin Elements(pending) /\ mine[h] \in Delivering

(* The start-up replay leaves none of the events a previous process left   *)
(* PENDING: its limit is enough whatever the backlog.                      *)
BootReplaysBacklog == proc = "up" => backlog \intersect Elements(pending) = {}

(* Records stay under the bound that keeps the outbox mapping below the    *)
(* 64 keys of validate_json_resource: a drain can never be refused by it.  *)
RecordsBounded == Len(pending) + Len(retained) <= MaxPending + MaxDelivered - 1

(* The registry on disk always passes the size validation that every read  *)
(* of it (get_registry) repeats.                                           *)
RegistryLoads == Fits(Len(pending), Len(retained), other)

(* A service that died is up again, unless the registry has no room to     *)
(* mark the oldest pending event: then every start-up appends it and fails.*)
NoRoom == pending # <<>> /\ ~MarkFits
RestartRecovers == proc = "down" ~> (proc = "up" \/ NoRoom)

(* Every drain a request starts returns a report to its client.            *)
DrainsEnd == \A h \in Handler : pc[h] = "drain" ~> pc[h] = "idle"

(* The outbox implements EventDelivery: marking DELIVERED settles an event *)
(* and is never reached before an append of that event completed.          *)
Delivery == INSTANCE EventDelivery
              WITH wanted <- queued, sent <- Delivering,
                   settled <- queued \ Elements(pending)
ImplementsDelivery == Delivery!Spec

-----------------------------------------------------------------------------
(* The inductive invariant behind the safety properties.                   *)

Distinct(s) == \A i, j \in DOMAIN s : s[i] = s[j] => i = j

HistoryInv ==
  /\ Distinct(pending) /\ Elements(pending) \subseteq queued
  /\ Delivering \subseteq queued /\ backlog \subseteq queued

(* Whoever holds the lock has already appended the head of the queue.      *)
LockInv ==
  /\ \A a, b \in Actor : pc[a] = "mark" /\ pc[b] = "mark" => a = b
  /\ ~LockFree => pending # <<>> /\ Head(pending) \in Delivering
  /\ \A a \in Actor : pc[a] = "mark" => budget[a] > 0

(* A pending event with a line is the one in hand or one left unmarked.    *)
AppendedInv ==
  \A e \in Elements(pending) \intersect Delivering :
    e \in unmarked \/ (~LockFree /\ e = Head(pending))

(* Requests run only while the service is up, the start-up only before.    *)
PhaseInv ==
  /\ proc # "up" => \A h \in Handler : pc[h] = "idle"
  /\ proc # "booting" => pc[boot] = "idle"
  /\ pc[boot] # "audit"

(* The start-up budget covers what is pending, so it ends with none.       *)
BootInv ==
  /\ pc[boot] \in {"drain", "mark"} => Len(pending) <= budget[boot]
  /\ pc[boot] = "status" => pending = <<>>

(* A draining request queued its event; a reported one keeps it queued.    *)
SessionInv ==
  \A h \in Handler :
    /\ pc[h] \in {"drain", "mark", "status"} => mine[h] \in queued
    /\ reply[h] = "DELIVERED" => mine[h] \in queued

CapacityInv == Len(pending) <= MaxPending

IInv == /\ TypeOK /\ NoEventLost /\ RepeatsExplained /\ ReplyHonest
        /\ BootReplaysBacklog /\ RecordsBounded /\ RegistryLoads
        /\ HistoryInv /\ LockInv /\ AppendedInv /\ PhaseInv /\ BootInv
        /\ SessionInv /\ CapacityInv
=============================================================================
