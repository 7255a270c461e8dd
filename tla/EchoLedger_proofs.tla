------------------------- MODULE EchoLedger_proofs --------------------------
(***************************************************************************)
(* Proofs about EchoLedger for every set of events, contents, keys and     *)
(* threads.  The invariant rests on ThreadInv: what an integrity check has *)
(* read is a prefix of the chain, however old, and what a creator signs is *)
(* what the next checkpoint has to be, as long as it holds the write lock. *)
(* From it, by induction along the chain, checkpoints nest.                *)
(***************************************************************************)
EXTENDS EchoLedger, Inductions, TLAPS

EventTypes == /\ accepted \in Items /\ deliveries \in [Event -> 0 .. MaxDeliveries]
              /\ conflicts \subseteq Event \X Content

ThreadTypes ==
  /\ pc \in [Thread -> {"idle", "ready", "before", "create", "sign", "after"}]
  /\ seen \in [Thread -> Seq(Checkpoint)] /\ at \in [Thread -> Nat \ {0}]
  /\ held \in [Thread -> Checkpoint \union {None}]

(* What ThreadInv says of one thread.                                      *)
ThreadOk(t) ==
  /\ pc[t] # "idle" => echo # None
  /\ Len(seen[t]) <= Len(chain)
  /\ \A i \in DOMAIN seen[t] : seen[t][i] = chain[i]
  /\ pc[t] = "sign" => held[t] = Manifest /\ NonEmpty(accepted)
  /\ pc[t] = "after" =>
       held[t] # None /\ held[t].seq \in DOMAIN chain /\ chain[held[t].seq] = held[t]

SoleSigner == \A t, u \in Thread : pc[t] = "sign" /\ pc[u] = "sign" => t = u

(* A step of one thread that leaves the tables and the process alone.      *)
Elsewhere(t) ==
  \A u \in Thread \ {t} : pc'[u] = pc[u] /\ seen'[u] = seen[u] /\ held'[u] = held[u]

-----------------------------------------------------------------------------
(* The manifest and the map of accepted events, unchanged with the tables. *)
LEMMA SameManifest ==
  ASSUME UNCHANGED <<chain, accepted, echo>>
  PROVE  Manifest' = Manifest /\ NonEmpty(accepted)' = NonEmpty(accepted)
BY DEF Manifest, Last, Digest, NonEmpty

(* ThreadInv after a step of thread t is what it says of t.                *)
LEMMA OneThread ==
  ASSUME IInv, NEW t \in Thread, UNCHANGED <<chain, accepted, echo>>,
         Elsewhere(t), ThreadOk(t)', pc'[t] = "sign" => LockFree
  PROVE  ThreadInv'
<1>1. \A u \in Thread : ThreadOk(u)
  BY DEF IInv, ThreadInv, ThreadOk
<1>2. SoleSigner
  BY DEF IInv, ThreadInv, SoleSigner
<1>3. \A u \in Thread \ {t} : ThreadOk(u)'
  BY <1>1, SameManifest DEF ThreadOk, Elsewhere
<1>4. SoleSigner'
  BY <1>2 DEF SoleSigner, Elsewhere, LockFree
<1>5. QED BY <1>3, <1>4 DEF ThreadInv, ThreadOk, SoleSigner

(* A thread that ends forgets what it held, and the others do not notice.  *)
LEMMA EndThreads ==
  ASSUME IInv, NEW t \in Thread, End(t), UNCHANGED <<chain, accepted, echo>>
  PROVE  ThreadTypes' /\ ThreadInv'
<1>1. ThreadTypes
  BY DEF IInv, TypeOK, ThreadTypes
<1>2. ThreadTypes'
  BY <1>1 DEF End, ThreadTypes
<1>3. pc'[t] = "idle" /\ seen'[t] = <<>> /\ Elsewhere(t)
  BY <1>1 DEF End, ThreadTypes, Elsewhere
<1>4. Len(chain) \in Nat
  BY DEF IInv, TypeOK
<1>5. ThreadOk(t)'
  BY <1>3, <1>4 DEF ThreadOk
<1>6. QED BY <1>2, <1>3, <1>5, OneThread

(* An integrity check that begins has the chain as it is.                  *)
LEMMA BeginThreads ==
  ASSUME IInv, echo # None, NEW t \in Thread, NEW phase \in {"ready", "before"},
         BeginCheck(t, phase), UNCHANGED <<chain, accepted, echo, held>>
  PROVE  ThreadTypes' /\ ThreadInv'
<1>1. ThreadTypes /\ chain \in Seq(Checkpoint)
  BY DEF IInv, TypeOK, ThreadTypes
<1>2. ThreadTypes'
  BY <1>1 DEF BeginCheck, ThreadTypes
<1>3. pc'[t] = phase /\ seen'[t] = chain /\ Elsewhere(t)
  BY <1>1 DEF BeginCheck, ThreadTypes, Elsewhere
<1>4. ThreadOk(t)'
  BY <1>1, <1>3 DEF ThreadOk
<1>5. QED BY <1>2, <1>3, <1>4, OneThread

(* A step that leaves the tables, the keys and the process alone, and adds *)
(* to the history only what is so.                                         *)
LEMMA StoreSame ==
  ASSUME IInv, ThreadTypes', ThreadInv',
         UNCHANGED <<accepted, deliveries, chain, members, bound, echo, answered>>,
         conflicts' \subseteq Event \X Content,
         told' \in [same : SUBSET (Event \X Content), different : SUBSET (Event \X Content)],
         VerdictsHold', returned' \subseteq Checkpoint, ReturnedKept',
         alarmed' = alarmed,
         faults' \in 0 .. MaxFaults, faults <= faults'
  PROVE  IInv'
<1>1. TypeOK'
  BY DEF IInv, TypeOK, ThreadTypes
<1>2. DeliveriesCounted'
  <2>1. \A e \in Event : answered[e] \in Nat /\ deliveries[e] \in Nat /\ faults \in Nat
    BY DEF IInv, TypeOK
  <2>2. \A e \in Event : Stored(e)' <=> Stored(e)
    BY DEF Stored
  <2>3. QED BY <2>1, <2>2 DEF IInv, DeliveriesCounted
<1>3. ChainVerifies'
  BY DEF IInv, ChainVerifies, Last, Extends, ChainOk, NonEmpty, Digest
<1>4. NoFalseAlarm' /\ EchoInv'
  BY DEF IInv, NoFalseAlarm, EchoInv
<1>5. QED BY <1>1, <1>2, <1>3, <1>4 DEF IInv

(* Nothing of the history changes either.                                  *)
LEMMA HistorySame ==
  ASSUME IInv, UNCHANGED <<accepted, chain, told, returned, conflicts>>
  PROVE  /\ VerdictsHold' /\ ReturnedKept' /\ returned' \subseteq Checkpoint
         /\ told' \in [same : SUBSET (Event \X Content), different : SUBSET (Event \X Content)]
         /\ conflicts' \subseteq Event \X Content
BY DEF IInv, TypeOK, VerdictsHold, ReturnedKept, Stored

-----------------------------------------------------------------------------
(* The initial state is empty.                                             *)
LEMMA InitIInv == Init => IInv
<1> SUFFICES ASSUME Init PROVE IInv
  OBVIOUS
<1>1. TypeOK
  <2>1. chain \in Seq(Checkpoint) /\ members \in Seq(Items) /\ faults \in 0 .. MaxFaults
    BY LimitAssumption DEF Init
  <2>2. accepted \in Items /\ deliveries \in [Event -> 0 .. MaxDeliveries]
    BY LimitAssumption DEF Init, Items
  <2>3. /\ pc \in [Thread -> {"idle", "ready", "before", "create", "sign", "after"}]
        /\ seen \in [Thread -> Seq(Checkpoint)] /\ at \in [Thread -> Nat \ {0}]
        /\ held \in [Thread -> Checkpoint \union {None}]
        /\ bound \in [KeyId -> Material \union {None}] /\ answered \in [Event -> Nat]
    BY DEF Init
  <2>4. /\ conflicts \subseteq Event \X Content /\ returned \subseteq Checkpoint
        /\ alarmed \in BOOLEAN /\ echo \in (KeyId \X Material) \union {None}
        /\ told \in [same : SUBSET (Event \X Content), different : SUBSET (Event \X Content)]
    BY DEF Init
  <2>5. QED BY <2>1, <2>2, <2>3, <2>4 DEF TypeOK
<1>2. VerdictsHold /\ ReturnedKept /\ NoFalseAlarm /\ EchoInv
  BY DEF Init, VerdictsHold, ReturnedKept, NoFalseAlarm, EchoInv
<1>3. DeliveriesCounted
  BY DEF Init, DeliveriesCounted, Stored
<1>4. ChainVerifies
  <2>1. [i \in DOMAIN chain |-> chain[i].items] = <<>>
    BY DEF Init
  <2>2. QED BY <2>1 DEF Init, ChainVerifies
<1>5. ThreadInv
  BY DEF Init, ThreadInv
<1>6. QED BY <1>1, <1>2, <1>3, <1>4, <1>5 DEF IInv

-----------------------------------------------------------------------------
(* An accepted delivery stores the content of a new event, leaves that of  *)
(* every stored one and counts.                                            *)
LEMMA RecordFacts ==
  ASSUME IInv, NEW e \in Event, NEW c \in Content, Record(e, c)
  PROVE  /\ EventTypes' /\ conflicts' = conflicts
         /\ accepted'[e] = c /\ deliveries'[e] = deliveries[e] + 1
         /\ \A f \in Event \ {e} : accepted'[f] = accepted[f] /\ deliveries'[f] = deliveries[f]
         /\ \A f \in Event : Stored(f) => accepted'[f] = accepted[f]
<1>1. EventTypes
  BY DEF IInv, TypeOK, EventTypes
<1>2. /\ accepted' = [accepted EXCEPT ![e] = c]
      /\ deliveries' = [deliveries EXCEPT ![e] = @ + 1]
      /\ deliveries[e] < MaxDeliveries /\ conflicts' = conflicts
  BY DEF Record
<1>3. accepted' \in Items
  BY <1>1, <1>2 DEF EventTypes, Items
<1>4. deliveries' \in [Event -> 0 .. MaxDeliveries]
  <2>1. deliveries[e] + 1 \in 0 .. MaxDeliveries
    BY <1>1, <1>2, LimitAssumption DEF EventTypes
  <2>2. QED BY <1>1, <1>2, <2>1 DEF EventTypes
<1>5. /\ accepted'[e] = c /\ deliveries'[e] = deliveries[e] + 1
      /\ \A f \in Event \ {e} : accepted'[f] = accepted[f] /\ deliveries'[f] = deliveries[f]
  BY <1>1, <1>2 DEF EventTypes, Items
<1>6. \A f \in Event : Stored(f) => accepted'[f] = accepted[f]
  BY <1>5 DEF Record, Stored
<1>7. QED BY <1>1, <1>2, <1>3, <1>4, <1>5, <1>6 DEF EventTypes

(* Accepting more events leaves the chain and its head as they were.       *)
LEMMA ChainUnderGrowth ==
  ASSUME IInv, \A f \in Event : Stored(f) => accepted'[f] = accepted[f],
         UNCHANGED <<chain, members, echo>>
  PROVE  ChainVerifies'
<1>1. ChainVerifies /\ chain \in Seq(Checkpoint)
  BY DEF IInv, TypeOK
<1>2. ASSUME chain # <<>> PROVE Extends(accepted', Last.items)
  <2>1. \A f \in Event : Last.items[f] # None => accepted[f] = Last.items[f]
    BY <1>1, <1>2 DEF ChainVerifies, Extends
  <2>2. QED BY <2>1 DEF Extends, Stored
<1>3. QED
  BY <1>1, <1>2 DEF ChainVerifies, Last, Extends, ChainOk, NonEmpty, Digest

(* ThreadInv does not depend on the accepted events while nobody signs.    *)
LEMMA ThreadsUnderGrowth ==
  ASSUME IInv, LockFree, UNCHANGED <<chain, echo, threads>>
  PROVE  ThreadTypes' /\ ThreadInv'
BY DEF IInv, TypeOK, ThreadTypes, ThreadInv, LockFree, threads

(* The transaction of ingest, answered or not.                             *)
LEMMA RecordIInv ==
  ASSUME IInv, NEW e \in Event, NEW c \in Content, Ingest(e, c) \/ IngestFails(e, c)
  PROVE  IInv'
<1>1. /\ Record(e, c) /\ LockFree
      /\ UNCHANGED <<chain, members, bound, echo, threads, returned, alarmed>>
  BY DEF Ingest, IngestFails, checkpoints, history
<1>2. /\ EventTypes' /\ conflicts' = conflicts
      /\ accepted'[e] = c /\ deliveries'[e] = deliveries[e] + 1
      /\ \A f \in Event \ {e} : accepted'[f] = accepted[f] /\ deliveries'[f] = deliveries[f]
      /\ \A f \in Event : Stored(f) => accepted'[f] = accepted[f]
  BY <1>1, RecordFacts
<1>3. ChainVerifies' /\ ThreadTypes' /\ ThreadInv'
  BY <1>1, <1>2, ChainUnderGrowth, ThreadsUnderGrowth
<1>4. ReturnedKept' /\ NoFalseAlarm' /\ EchoInv'
  BY <1>1 DEF IInv, ReturnedKept, NoFalseAlarm, EchoInv
<1>5. /\ faults \in Nat /\ faults' \in 0 .. MaxFaults
      /\ \A f \in Event : answered[f] \in Nat /\ deliveries[f] \in Nat
      /\ answered \in [Event -> Nat]
  <2>1. /\ faults \in 0 .. MaxFaults /\ answered \in [Event -> Nat]
        /\ deliveries \in [Event -> 0 .. MaxDeliveries]
    BY DEF IInv, TypeOK
  <2>2. faults' = faults \/ (faults < MaxFaults /\ faults' = faults + 1)
    BY DEF Ingest, IngestFails, Fault
  <2>3. QED BY <2>1, <2>2, LimitAssumption
<1>6. c # None
  BY NoneAssumption
<1>7. \A f \in Event \ {e} : Stored(f)' <=> Stored(f)
  BY <1>2 DEF Stored
<1>8. Stored(e)'
  BY <1>2, <1>6 DEF Stored
<1>9. \A f \in Event : /\ answered[f] <= deliveries[f]
                       /\ deliveries[f] <= answered[f] + faults
                       /\ Stored(f) <=> deliveries[f] > 0
  BY DEF IInv, DeliveriesCounted
<1>10. told \in [same : SUBSET (Event \X Content), different : SUBSET (Event \X Content)]
  BY DEF IInv, TypeOK
<1>11. VerdictsHold
  BY DEF IInv
<1>12. /\ \A x \in told.same : accepted'[x[1]] = x[2]
       /\ \A x \in told.different : Stored(x[1])' /\ accepted'[x[1]] # x[2]
  <2>1. \A x \in told.same : x[1] \in Event /\ x[2] # None /\ accepted[x[1]] = x[2]
    BY <1>10, <1>11, NoneAssumption DEF VerdictsHold
  <2>2. \A x \in told.different : x[1] \in Event /\ Stored(x[1]) /\ accepted[x[1]] # x[2]
    BY <1>10, <1>11 DEF VerdictsHold
  <2>3. QED BY <1>2, <2>1, <2>2 DEF Stored
<1>13. CASE Ingest(e, c)
  <2>1. /\ answered' = [answered EXCEPT ![e] = @ + 1] /\ faults' = faults
        /\ told' = [told EXCEPT !.same = @ \union {<<e, c>>}]
    BY <1>13 DEF Ingest, TellSame
  <2>2. answered' \in [Event -> Nat]
    BY <1>5, <2>1
  <2>3. /\ answered'[e] = answered[e] + 1
        /\ \A f \in Event \ {e} : answered'[f] = answered[f]
    BY <1>5, <2>1
  <2>4. DeliveriesCounted'
    <3>1. answered'[e] <= deliveries'[e] /\ deliveries'[e] <= answered'[e] + faults'
          /\ deliveries'[e] > 0
      BY <1>2, <1>5, <1>9, <2>1, <2>3
    <3>2. QED BY <1>2, <1>5, <1>7, <1>8, <1>9, <2>1, <2>3, <3>1 DEF DeliveriesCounted
  <2>5. told' = [same |-> told.same \union {<<e, c>>}, different |-> told.different]
    BY <1>10, <2>1
  <2>6. told' \in [same : SUBSET (Event \X Content), different : SUBSET (Event \X Content)]
    BY <1>10, <2>5
  <2>7. VerdictsHold'
    BY <1>2, <1>12, <2>5 DEF VerdictsHold, Stored
  <2>8. TypeOK'
    <3>1. EventTypes /\ chain \in Seq(Checkpoint) /\ members \in Seq(Items)
      BY DEF IInv, TypeOK, EventTypes
    <3>2. QED BY <1>1, <1>2, <1>3, <1>5, <2>2, <2>6 DEF IInv, TypeOK, EventTypes, ThreadTypes
  <2>9. QED BY <1>3, <1>4, <2>4, <2>7, <2>8 DEF IInv
<1>14. CASE IngestFails(e, c)
  <2>1. answered' = answered /\ told' = told /\ faults' = faults + 1
    BY <1>14 DEF IngestFails, history, Fault
  <2>2. DeliveriesCounted'
    <3>1. answered'[e] <= deliveries'[e] /\ deliveries'[e] <= answered'[e] + faults'
          /\ deliveries'[e] > 0
      BY <1>2, <1>5, <1>9, <2>1
    <3>2. QED BY <1>2, <1>5, <1>7, <1>8, <1>9, <2>1, <3>1 DEF DeliveriesCounted
  <2>3. VerdictsHold'
    BY <1>12, <2>1 DEF VerdictsHold, Stored
  <2>4. TypeOK'
    BY <1>1, <1>2, <1>3, <1>5, <2>1 DEF IInv, TypeOK, EventTypes, ThreadTypes
  <2>5. QED BY <1>3, <1>4, <2>2, <2>3, <2>4 DEF IInv
<1>15. QED BY <1>13, <1>14

(* A conflict, and a verdict of reconcile.                                 *)
LEMMA TellIInv ==
  ASSUME IInv, NEW e \in Event, NEW c \in Content,
         IngestConflict(e, c) \/ Reconcile(e, c)
  PROVE  IInv'
<1>1. /\ UNCHANGED <<accepted, deliveries, chain, members, bound, echo, answered>>
      /\ UNCHANGED <<pc, seen, at, held, returned, alarmed, faults>>
      /\ conflicts' \subseteq conflicts \union {<<e, c>>}
      /\ Stored(e)
      /\ \/ accepted[e] = c /\ TellSame(e, c)
         \/ accepted[e] # c /\ TellDifferent(e, c)
  BY DEF IngestConflict, Reconcile, events, checkpoints, threads
<1>2. /\ told \in [same : SUBSET (Event \X Content), different : SUBSET (Event \X Content)]
      /\ conflicts \subseteq Event \X Content
  BY DEF IInv, TypeOK
<1>3. \/ /\ accepted[e] = c
         /\ told' = [same |-> told.same \union {<<e, c>>}, different |-> told.different]
      \/ /\ accepted[e] # c
         /\ told' = [same |-> told.same, different |-> told.different \union {<<e, c>>}]
  BY <1>1, <1>2 DEF TellSame, TellDifferent
<1>4. told' \in [same : SUBSET (Event \X Content), different : SUBSET (Event \X Content)]
  BY <1>2, <1>3
<1>5. VerdictsHold'
  BY <1>1, <1>3 DEF IInv, VerdictsHold, Stored
<1>6. ThreadTypes' /\ ThreadInv'
  BY <1>1, SameManifest DEF IInv, TypeOK, ThreadTypes, ThreadInv
<1>7. ReturnedKept' /\ returned' \subseteq Checkpoint
  BY <1>1 DEF IInv, TypeOK, ReturnedKept
<1>8. faults' \in 0 .. MaxFaults /\ faults <= faults'
  BY <1>1 DEF IInv, TypeOK
<1>9. conflicts' \subseteq Event \X Content
  BY <1>1, <1>2
<1>10. QED BY <1>1, <1>4, <1>5, <1>6, <1>7, <1>8, <1>9, StoreSame

-----------------------------------------------------------------------------
(* A thread at work has a process whose key is bound, and has read a       *)
(* prefix of a chain that verifies under that key.                         *)
LEMMA WorkerFacts ==
  ASSUME IInv, NEW t \in Thread, pc[t] # "idle"
  PROVE  /\ echo # None /\ echo \in KeyId \X Material /\ bound[echo[1]] = echo[2]
         /\ chain \in Seq(Checkpoint) /\ seen[t] \in Seq(Checkpoint) /\ at[t] \in Nat \ {0}
         /\ DOMAIN seen[t] \subseteq DOMAIN chain
         /\ \A i \in DOMAIN seen[t] : seen[t][i] = chain[i]
         /\ ChainOk(chain, echo[2])
<1>1. /\ echo # None /\ Len(seen[t]) <= Len(chain)
      /\ \A i \in DOMAIN seen[t] : seen[t][i] = chain[i]
  BY DEF IInv, ThreadInv
<1>2. /\ echo \in KeyId \X Material /\ chain \in Seq(Checkpoint)
      /\ seen[t] \in Seq(Checkpoint) /\ at[t] \in Nat \ {0}
  BY <1>1 DEF IInv, TypeOK
<1>3. DOMAIN seen[t] \subseteq DOMAIN chain
  BY <1>1, <1>2
<1>4. bound[echo[1]] = echo[2]
  BY <1>1 DEF IInv, EchoInv
<1>5. ChainOk(chain, echo[2])
  <2>1. CASE chain = <<>>
    BY <2>1 DEF ChainOk
  <2>2. CASE chain # <<>>
    BY <1>1, <2>2 DEF IInv, ChainVerifies
  <2>3. QED BY <2>1, <2>2
<1>6. QED BY <1>1, <1>2, <1>3, <1>4, <1>5

(* A prefix of a chain that verifies, verifies.                            *)
LEMMA CheckPasses ==
  ASSUME IInv, NEW t \in Thread, pc[t] # "idle"
  PROVE  CheckOk(t)
<1>1. /\ seen[t] \in Seq(Checkpoint) /\ DOMAIN seen[t] \subseteq DOMAIN chain
      /\ \A i \in DOMAIN seen[t] : seen[t][i] = chain[i]
      /\ ChainOk(chain, echo[2]) /\ bound[echo[1]] = echo[2]
  BY WorkerFacts
<1>2. \A i \in DOMAIN seen[t] : i # 1 => i - 1 \in DOMAIN seen[t]
  BY <1>1
<1>3. ChainOk(seen[t], echo[2])
  BY <1>1, <1>2 DEF ChainOk
<1>4. QED BY <1>1, <1>3 DEF CheckOk

(* The members of a checkpoint, read later than the checkpoint, are its.   *)
LEMMA MembersMatch ==
  ASSUME IInv, NEW t \in Thread, pc[t] # "idle", at[t] \in DOMAIN seen[t]
  PROVE  at[t] \in DOMAIN members /\ members[at[t]] = seen[t][at[t]].items
<1>1. at[t] \in DOMAIN chain /\ seen[t][at[t]] = chain[at[t]]
  BY WorkerFacts
<1>2. members = [i \in DOMAIN chain |-> chain[i].items]
  BY DEF IInv, ChainVerifies
<1>3. QED BY <1>1, <1>2

(* The steps of a thread that only reads.                                  *)
LEMMA ReadIInv ==
  ASSUME IInv, NEW t \in Thread, Ready(t) \/ Request(t) \/ ReadMembers(t)
  PROVE  IInv'
<1>1. /\ UNCHANGED <<accepted, deliveries, conflicts, chain, members, bound, echo>>
      /\ UNCHANGED <<answered, told, returned, faults>>
  BY DEF Ready, Request, ReadMembers, events, checkpoints, history
<1>2. faults' \in 0 .. MaxFaults /\ faults <= faults'
  BY <1>1 DEF IInv, TypeOK
<1>3. ThreadTypes' /\ ThreadInv' /\ alarmed' = alarmed
  <2>1. CASE Ready(t) \/ Request(t)
    BY <1>1, <2>1, BeginThreads DEF Ready, Request, history
  <2>2. CASE ReadMembers(t)
    <3>1. pc[t] # "idle" /\ at[t] \in DOMAIN seen[t]
      BY <2>2 DEF ReadMembers, Checking
    <3>2. /\ at' = [at EXCEPT ![t] = @ + 1]
          /\ UNCHANGED <<pc, seen, held, alarmed>>
      BY <2>2, <3>1, MembersMatch DEF ReadMembers
    <3>3. ThreadTypes'
      BY <3>2 DEF IInv, TypeOK, ThreadTypes
    <3>4. ThreadInv'
      BY <1>1, <3>2, SameManifest DEF IInv, ThreadInv
    <3>5. QED BY <3>2, <3>3, <3>4
  <2>3. QED BY <2>1, <2>2
<1>4. QED BY <1>1, <1>2, <1>3, HistorySame, StoreSame

(* The end of a check, which succeeds; after a checkpoint was made, it is  *)
(* returned.                                                               *)
LEMMA EndCheckIInv ==
  ASSUME IInv, NEW t \in Thread, EndCheck(t)
  PROVE  IInv'
<1>1. /\ UNCHANGED <<accepted, deliveries, conflicts, chain, members, bound, echo>>
      /\ UNCHANGED <<answered, told, faults>>
  BY DEF EndCheck, events, checkpoints
<1>2. faults' \in 0 .. MaxFaults /\ faults <= faults'
  BY <1>1 DEF IInv, TypeOK
<1>3. pc[t] # "idle" /\ CheckOk(t)
  BY CheckPasses DEF EndCheck, Checking
<1>4. alarmed' = alarmed
  BY <1>3 DEF EndCheck
<1>5. CASE pc[t] = "before"
  <2>1. pc' = [pc EXCEPT ![t] = "create"] /\ UNCHANGED <<seen, at, held, returned>>
    BY <1>3, <1>5 DEF EndCheck
  <2>2. ThreadTypes'
    BY <2>1 DEF IInv, TypeOK, ThreadTypes
  <2>3. pc'[t] = "create" /\ Elsewhere(t)
    BY <2>1 DEF IInv, TypeOK, Elsewhere
  <2>4. ThreadOk(t)'
    BY <1>1, <1>3, <2>1, <2>3 DEF IInv, ThreadInv, ThreadOk
  <2>5. ThreadInv'
    BY <1>1, <2>3, <2>4, OneThread
  <2>6. QED BY <1>1, <1>2, <1>4, <2>1, <2>2, <2>5, HistorySame, StoreSame
<1>6. CASE pc[t] # "before"
  <2>1. /\ End(t)
        /\ returned' = IF pc[t] = "after" THEN returned \union {held[t]} ELSE returned
    BY <1>3, <1>6 DEF EndCheck
  <2>2. ThreadTypes' /\ ThreadInv'
    BY <1>1, <2>1, EndThreads
  <2>3. pc[t] = "after" => /\ held[t] \in Checkpoint /\ held[t].seq \in DOMAIN chain
                           /\ chain[held[t].seq] = held[t]
    BY DEF IInv, TypeOK, ThreadInv
  <2>4. returned' \subseteq Checkpoint /\ ReturnedKept'
    BY <1>1, <2>1, <2>3 DEF IInv, TypeOK, ReturnedKept
  <2>5. /\ VerdictsHold'
        /\ told' \in [same : SUBSET (Event \X Content), different : SUBSET (Event \X Content)]
        /\ conflicts' \subseteq Event \X Content
    BY <1>1 DEF IInv, TypeOK, VerdictsHold, Stored
  <2>6. QED BY <1>1, <1>2, <1>4, <2>2, <2>4, <2>5, StoreSame
<1>7. QED BY <1>5, <1>6

(* The steps that end a request with nothing returned.                     *)
LEMMA EndIInv ==
  ASSUME IInv, NEW t \in Thread, CreateRefused(t) \/ GiveUp(t)
  PROVE  IInv'
<1>1. /\ UNCHANGED <<accepted, deliveries, conflicts, chain, members, bound, echo>>
      /\ UNCHANGED <<answered, told, returned, alarmed>>
      /\ End(t)
  BY DEF CreateRefused, GiveUp, events, checkpoints, history
<1>2. faults' \in 0 .. MaxFaults /\ faults <= faults'
  <2>1. faults \in 0 .. MaxFaults
    BY DEF IInv, TypeOK
  <2>2. faults' = faults \/ (faults < MaxFaults /\ faults' = faults + 1)
    BY DEF CreateRefused, GiveUp, Fault
  <2>3. QED BY <2>1, <2>2, LimitAssumption
<1>3. ThreadTypes' /\ ThreadInv'
  BY <1>1, EndThreads
<1>4. QED BY <1>1, <1>2, <1>3, HistorySame, StoreSame

-----------------------------------------------------------------------------
(* The manifest is a checkpoint, the next of the chain.                    *)
LEMMA ManifestTyped ==
  ASSUME IInv, echo # None
  PROVE  Manifest \in Checkpoint /\ Manifest # None
<1>1. /\ chain \in Seq(Checkpoint) /\ accepted \in Items /\ echo \in KeyId \X Material
  BY DEF IInv, TypeOK
<1>2. chain # <<>> => Last \in Checkpoint
  BY <1>1 DEF Last
<1>3. chain # <<>> => Digest(Last) \in (Nat \ {0}) \X Items
  BY <1>2 DEF Checkpoint, Digest
<1>4. Len(chain) + 1 \in Nat \ {0}
  BY <1>1
<1>5. echo[1] \in KeyId /\ echo[2] \in Material
  BY <1>1
<1>6. Manifest \in Checkpoint
  BY <1>1, <1>3, <1>4, <1>5 DEF Manifest, Checkpoint
<1>7. QED BY <1>6, NoneAssumption

(* A manifest is made and handed to the signer.                            *)
LEMMA BeginCreateIInv ==
  ASSUME IInv, NEW t \in Thread, BeginCreate(t)
  PROVE  IInv'
<1>1. /\ UNCHANGED <<accepted, deliveries, conflicts, chain, members, bound, echo>>
      /\ UNCHANGED <<answered, told, returned, alarmed, faults, seen, at>>
      /\ pc[t] = "create" /\ LockFree /\ NonEmpty(accepted)
      /\ held' = [held EXCEPT ![t] = Manifest]
      /\ pc' = [pc EXCEPT ![t] = "sign"]
  BY DEF BeginCreate, Sealable, events, checkpoints, history
<1>2. echo # None
  BY <1>1 DEF IInv, ThreadInv
<1>3. Manifest \in Checkpoint
  BY <1>2, ManifestTyped
<1>4. ThreadTypes'
  BY <1>1, <1>3 DEF IInv, TypeOK, ThreadTypes
<1>5. pc'[t] = "sign" /\ held'[t] = Manifest /\ Elsewhere(t)
  BY <1>1 DEF IInv, TypeOK, Elsewhere
<1>6. ThreadOk(t)'
  BY <1>1, <1>2, <1>5, SameManifest DEF IInv, ThreadInv, ThreadOk
<1>7. ThreadInv'
  BY <1>1, <1>5, <1>6, OneThread
<1>8. faults' \in 0 .. MaxFaults /\ faults <= faults'
  BY <1>1 DEF IInv, TypeOK
<1>9. QED BY <1>1, <1>4, <1>7, <1>8, HistorySame, StoreSame

(* The commit appends the checkpoint that the present state calls for.     *)
LEMMA CommitFacts ==
  ASSUME IInv, NEW t \in Thread, CommitCreate(t)
  PROVE  /\ echo # None /\ held[t] = Manifest /\ Manifest \in Checkpoint
         /\ Manifest # None /\ NonEmpty(accepted)
         /\ chain \in Seq(Checkpoint) /\ members \in Seq(Items)
         /\ chain' \in Seq(Checkpoint) /\ members' \in Seq(Items)
         /\ Len(chain) \in Nat /\ Len(chain') = Len(chain) + 1
         /\ DOMAIN chain = 1 .. Len(chain) /\ DOMAIN chain' = 1 .. Len(chain) + 1
         /\ \A i \in DOMAIN chain : chain'[i] = chain[i]
         /\ chain'[Len(chain) + 1] = Manifest
         /\ members' = Append(members, accepted)
         /\ Manifest.items = accepted /\ Manifest.seq = Len(chain) + 1
         /\ Manifest.by = echo[2]
<1>1. /\ pc[t] = "sign" /\ chain' = Append(chain, held[t])
      /\ members' = Append(members, held[t].items)
  BY DEF CommitCreate
<1>2. echo # None /\ held[t] = Manifest /\ NonEmpty(accepted)
  BY <1>1 DEF IInv, ThreadInv
<1>3. Manifest \in Checkpoint /\ Manifest # None
  BY <1>2, ManifestTyped
<1>4. /\ Manifest.items = accepted /\ Manifest.seq = Len(chain) + 1
      /\ Manifest.by = echo[2]
  BY DEF Manifest
<1>5. accepted \in Items /\ chain \in Seq(Checkpoint) /\ members \in Seq(Items)
  BY DEF IInv, TypeOK
<1>6. chain' = Append(chain, Manifest) /\ members' = Append(members, accepted)
  BY <1>1, <1>2, <1>4
<1>7. QED BY <1>2, <1>3, <1>4, <1>5, <1>6

(* The chain that the commit leaves verifies, and so does its table of     *)
(* members.                                                                *)
LEMMA CommitVerifies ==
  ASSUME IInv, NEW t \in Thread, CommitCreate(t)
  PROVE  ChainVerifies'
<1>1. /\ echo # None /\ NonEmpty(accepted)
      /\ chain \in Seq(Checkpoint) /\ members \in Seq(Items)
      /\ Len(chain) \in Nat /\ Len(chain') = Len(chain) + 1
      /\ DOMAIN chain = 1 .. Len(chain) /\ DOMAIN chain' = 1 .. Len(chain) + 1
      /\ \A i \in DOMAIN chain : chain'[i] = chain[i]
      /\ chain'[Len(chain) + 1] = Manifest
      /\ members' = Append(members, accepted)
      /\ Manifest.items = accepted /\ Manifest.seq = Len(chain) + 1
      /\ Manifest.by = echo[2]
  BY CommitFacts
<1>2. accepted' = accepted /\ echo' = echo
  BY DEF CommitCreate, events
<1>3. ChainVerifies
  BY DEF IInv
<1>4. chain'[1].by = echo[2]
  <2>1. CASE chain = <<>>
    BY <1>1, <2>1
  <2>2. CASE chain # <<>>
    <3>1. 1 \in DOMAIN chain /\ echo[2] = chain[1].by
      BY <1>1, <1>3, <2>2 DEF ChainVerifies
    <3>2. QED BY <1>1, <3>1
  <2>3. QED BY <2>1, <2>2
<1>5. ChainOk(chain, echo[2])
  <2>1. CASE chain = <<>>
    BY <2>1 DEF ChainOk
  <2>2. CASE chain # <<>>
    BY <1>1, <1>3, <2>2 DEF ChainVerifies
  <2>3. QED BY <2>1, <2>2
<1>6. ChainOk(chain', echo[2])
  <2>1. ASSUME NEW i \in DOMAIN chain
        PROVE  /\ chain'[i].seq = i /\ chain'[i].by = echo[2] /\ NonEmpty(chain'[i].items)
               /\ IF i = 1 THEN chain'[i].prev = None
                  ELSE /\ chain'[i].prev = Digest(chain'[i - 1])
                       /\ Extends(chain'[i].items, chain'[i - 1].items)
    <3>1. i # 1 => i - 1 \in DOMAIN chain
      BY <1>1
    <3>2. QED BY <1>1, <1>5, <3>1 DEF ChainOk
  <2>2. LET i == Len(chain) + 1
        IN  /\ chain'[i].seq = i /\ chain'[i].by = echo[2] /\ NonEmpty(chain'[i].items)
            /\ IF i = 1 THEN chain'[i].prev = None
               ELSE /\ chain'[i].prev = Digest(chain'[i - 1])
                    /\ Extends(chain'[i].items, chain'[i - 1].items)
    <3>1. CASE chain = <<>>
      <4>1. Len(chain) + 1 = 1 /\ Manifest.prev = None
        BY <3>1 DEF Manifest
      <4>2. QED BY <1>1, <4>1
    <3>2. CASE chain # <<>>
      <4>1. /\ Len(chain) + 1 # 1 /\ (Len(chain) + 1) - 1 = Len(chain)
            /\ chain'[Len(chain)] = Last
        BY <1>1, <3>2 DEF Last
      <4>2. Manifest.prev = Digest(Last)
        BY <3>2 DEF Manifest
      <4>3. Extends(accepted, Last.items)
        BY <1>3, <3>2 DEF ChainVerifies
      <4>4. QED BY <1>1, <4>1, <4>2, <4>3
    <3>3. QED BY <3>1, <3>2
  <2>3. \A i \in DOMAIN chain' : i \in DOMAIN chain \/ i = Len(chain) + 1
    BY <1>1
  <2>4. QED BY <2>1, <2>2, <2>3 DEF ChainOk
<1>7. Extends(accepted, chain'[Len(chain')].items)
  BY <1>1 DEF Extends
<1>8. members' = [i \in DOMAIN chain' |-> chain'[i].items]
  <2>1. members = [i \in DOMAIN chain |-> chain[i].items]
    BY <1>3 DEF ChainVerifies
  <2>2. DOMAIN members = 1 .. Len(chain) /\ Len(members) = Len(chain)
    BY <1>1, <2>1
  <2>3. /\ DOMAIN members' = DOMAIN chain'
        /\ members' = [i \in DOMAIN members' |-> members'[i]]
        /\ members'[Len(chain) + 1] = accepted
        /\ \A i \in DOMAIN chain : members'[i] = chain[i].items
    BY <1>1, <2>1, <2>2
  <2>4. \A i \in DOMAIN chain' : members'[i] = chain'[i].items
    BY <1>1, <2>3
  <2>5. QED BY <2>3, <2>4
<1>9. QED BY <1>1, <1>2, <1>4, <1>6, <1>7, <1>8 DEF ChainVerifies, Last

(* A committed checkpoint disturbs no other thread: it is the only signer, *)
(* and what the others have read is a prefix of the longer chain too.      *)
LEMMA CommitIInv ==
  ASSUME IInv, NEW t \in Thread, CommitCreate(t)
  PROVE  IInv'
<1>1. /\ UNCHANGED <<accepted, deliveries, conflicts, bound, echo, held>>
      /\ UNCHANGED <<answered, told, returned, alarmed, faults>>
      /\ pc[t] = "sign" /\ pc' = [pc EXCEPT ![t] = "after"]
      /\ seen' = [seen EXCEPT ![t] = chain'] /\ at' = [at EXCEPT ![t] = 1]
  BY DEF CommitCreate, events, history
<1>2. /\ echo # None /\ held[t] = Manifest /\ Manifest # None
      /\ chain \in Seq(Checkpoint) /\ chain' \in Seq(Checkpoint) /\ members' \in Seq(Items)
      /\ Len(chain) \in Nat /\ Len(chain') = Len(chain) + 1
      /\ DOMAIN chain = 1 .. Len(chain) /\ DOMAIN chain' = 1 .. Len(chain) + 1
      /\ \A i \in DOMAIN chain : chain'[i] = chain[i]
      /\ chain'[Len(chain) + 1] = Manifest /\ Manifest.seq = Len(chain) + 1
  BY CommitFacts
<1>3. ThreadTypes'
  BY <1>1, <1>2 DEF IInv, TypeOK, ThreadTypes
<1>4. ThreadInv'
  <2>1. /\ pc'[t] = "after" /\ seen'[t] = chain' /\ held'[t] = Manifest
        /\ \A u \in Thread \ {t} :
             pc'[u] = pc[u] /\ seen'[u] = seen[u] /\ held'[u] = held[u] /\ pc[u] # "sign"
    BY <1>1, <1>2 DEF IInv, TypeOK, ThreadInv
  <2>2. ThreadOk(t)'
    <3>1. held'[t].seq \in DOMAIN chain' /\ chain'[held'[t].seq] = held'[t]
      BY <1>2, <2>1
    <3>2. QED BY <1>1, <1>2, <2>1, <3>1 DEF ThreadOk
  <2>3. ASSUME NEW u \in Thread \ {t} PROVE ThreadOk(u)'
    <3>1. /\ ThreadOk(u) /\ seen[u] \in Seq(Checkpoint)
      BY DEF IInv, TypeOK, ThreadInv, ThreadOk
    <3>2. DOMAIN seen[u] \subseteq DOMAIN chain /\ Len(seen[u]) <= Len(chain')
      BY <1>2, <3>1 DEF ThreadOk
    <3>3. \A i \in DOMAIN seen'[u] : seen'[u][i] = chain'[i]
      BY <1>2, <2>1, <3>1, <3>2 DEF ThreadOk
    <3>4. pc'[u] = "after" => /\ held'[u] # None /\ held'[u].seq \in DOMAIN chain'
                              /\ chain'[held'[u].seq] = held'[u]
      BY <1>2, <2>1, <3>1 DEF ThreadOk
    <3>5. QED BY <1>1, <2>1, <3>1, <3>2, <3>3, <3>4 DEF ThreadOk
  <2>4. SoleSigner'
    BY <2>1 DEF SoleSigner
  <2>5. QED BY <2>2, <2>3, <2>4 DEF ThreadInv, ThreadOk, SoleSigner
<1>5. TypeOK'
  BY <1>1, <1>2, <1>3 DEF IInv, TypeOK, ThreadTypes
<1>6. ReturnedKept'
  BY <1>1, <1>2 DEF IInv, ReturnedKept
<1>7. VerdictsHold' /\ DeliveriesCounted' /\ NoFalseAlarm' /\ EchoInv'
  BY <1>1 DEF IInv, VerdictsHold, DeliveriesCounted, NoFalseAlarm, EchoInv, Stored
<1>8. QED BY <1>4, <1>5, <1>6, <1>7, CommitVerifies DEF IInv

-----------------------------------------------------------------------------
(* Start-up admits a process only if the stored chain is its key's.        *)
LEMMA StartIInv ==
  ASSUME IInv, NEW ring \in KeyRings, Start(ring[1], ring[2])
  PROVE  IInv'
<1> DEFINE k == ring[1]
           m == ring[2]
<1>1. k \in KeyId /\ m \in Material
  BY KeyAssumption
<1>2. /\ echo = None /\ bound' = [bound EXCEPT ![k] = m]
      /\ echo' = IF ChainOk(chain, m) /\ members = [i \in DOMAIN chain |-> chain[i].items]
                   THEN <<k, m>> ELSE None
      /\ UNCHANGED <<events, checkpoints, threads, history, faults>>
  BY DEF Start
<1>3. echo' = <<k, m>> \/ echo' = None
  BY <1>2
<1>4. UNCHANGED <<accepted, deliveries, conflicts, chain, members, pc, seen, at, held,
                  answered, told, returned, alarmed, faults>>
  BY <1>2 DEF events, checkpoints, threads, history
<1>5. bound' \in [KeyId -> Material \union {None}] /\ bound'[k] = m
  BY <1>1, <1>2 DEF IInv, TypeOK
<1>6. TypeOK'
  BY <1>1, <1>3, <1>4, <1>5 DEF IInv, TypeOK
<1>7. EchoInv'
  BY <1>3, <1>5 DEF EchoInv
<1>8. ASSUME chain # <<>>, echo' # None PROVE echo'[2] = chain[1].by
  <2>1. ChainOk(chain, m) /\ echo'[2] = m
    BY <1>2, <1>8
  <2>2. chain \in Seq(Checkpoint)
    BY DEF IInv, TypeOK
  <2>3. 1 \in DOMAIN chain
    BY <1>8, <2>2
  <2>4. QED BY <2>1, <2>3 DEF ChainOk
<1>9. ChainVerifies'
  BY <1>4, <1>8 DEF IInv, ChainVerifies, Last, Extends, ChainOk, NonEmpty, Digest
<1>10. ThreadInv'
  BY <1>2, <1>4 DEF IInv, TypeOK, ThreadInv
<1>11. VerdictsHold' /\ DeliveriesCounted' /\ NoFalseAlarm' /\ ReturnedKept'
  BY <1>4 DEF IInv, VerdictsHold, DeliveriesCounted, NoFalseAlarm, ReturnedKept, Stored
<1>12. QED BY <1>6, <1>7, <1>9, <1>10, <1>11 DEF IInv

(* A crash leaves the tables and empties the threads.                      *)
LEMMA CrashIInv ==
  ASSUME IInv, Crash
  PROVE  IInv'
<1>1. /\ UNCHANGED <<accepted, deliveries, conflicts, chain, members, bound>>
      /\ UNCHANGED <<answered, told, returned, alarmed>>
      /\ echo' = None /\ faults < MaxFaults /\ faults' = faults + 1
      /\ pc' = [t \in Thread |-> "idle"] /\ seen' = [t \in Thread |-> <<>>]
      /\ at' = [t \in Thread |-> 1] /\ held' = [t \in Thread |-> None]
  BY DEF Crash, events, checkpoints, history, Fault
<1>2. faults' \in 0 .. MaxFaults /\ faults <= faults' /\ faults \in Nat
  BY <1>1, LimitAssumption DEF IInv, TypeOK
<1>3. ThreadTypes'
  BY <1>1 DEF ThreadTypes
<1>4. ThreadInv'
  BY <1>1 DEF IInv, TypeOK, ThreadInv
<1>5. TypeOK'
  BY <1>1, <1>2, <1>3 DEF IInv, TypeOK, ThreadTypes
<1>6. DeliveriesCounted'
  <2>1. \A e \in Event : answered[e] \in Nat /\ deliveries[e] \in Nat
    BY DEF IInv, TypeOK
  <2>2. \A e \in Event : Stored(e)' <=> Stored(e)
    BY <1>1 DEF Stored
  <2>3. QED BY <1>1, <1>2, <2>1, <2>2 DEF IInv, DeliveriesCounted
<1>7. ChainVerifies'
  BY <1>1 DEF IInv, ChainVerifies, Last, Extends, ChainOk, NonEmpty, Digest
<1>8. VerdictsHold' /\ NoFalseAlarm' /\ ReturnedKept' /\ EchoInv'
  BY <1>1 DEF IInv, VerdictsHold, NoFalseAlarm, ReturnedKept, EchoInv, Stored
<1>9. QED BY <1>4, <1>5, <1>6, <1>7, <1>8 DEF IInv

(* A step that changes nothing.                                            *)
LEMMA QuietIInv ==
  ASSUME IInv, UNCHANGED vars
  PROVE  IInv'
<1>1. UNCHANGED <<accepted, deliveries, conflicts, chain, members, bound, echo, pc, seen,
                  at, held, answered, told, returned, alarmed, faults>>
  BY DEF vars, events, checkpoints, threads, history
<1>2. ThreadTypes' /\ ThreadInv'
  BY <1>1, SameManifest DEF IInv, TypeOK, ThreadTypes, ThreadInv
<1>3. faults' \in 0 .. MaxFaults /\ faults <= faults'
  BY <1>1 DEF IInv, TypeOK
<1>4. QED BY <1>1, <1>2, <1>3, HistorySame, StoreSame

(* Every step keeps the invariant.                                         *)
LEMMA NextIInv ==
  ASSUME IInv, [Next]_vars
  PROVE  IInv'
<1>1. CASE \E e \in Event, c \in Content : Transfer(e, c)
  BY <1>1, RecordIInv, TellIInv DEF Transfer
<1>2. CASE \E t \in Thread : Handle(t)
  BY <1>2, ReadIInv, EndCheckIInv, EndIInv, BeginCreateIInv, CommitIInv DEF Handle
<1>3. CASE \E ring \in KeyRings : Start(ring[1], ring[2])
  BY <1>3, StartIInv
<1>4. CASE Crash
  BY <1>4, CrashIInv
<1>5. CASE UNCHANGED vars
  BY <1>5, QuietIInv
<1>6. QED BY <1>1, <1>2, <1>3, <1>4, <1>5 DEF Next

(* The inductive invariant holds in every reachable state.                 *)
THEOREM Invariant == Spec => []IInv
<1>1. IInv /\ [Next]_vars => IInv'
  BY NextIInv
<1>2. QED BY <1>1, InitIInv, PTL DEF Spec

(* Every variable has its type.                                            *)
THEOREM TypeCorrect == Spec => []TypeOK
<1>1. IInv => TypeOK
  BY DEF IInv
<1>2. QED BY <1>1, Invariant, PTL

(* What ingest and reconcile reported of a record stays true.              *)
THEOREM VerdictsStay == Spec => []VerdictsHold
<1>1. IInv => VerdictsHold
  BY DEF IInv
<1>2. QED BY <1>1, Invariant, PTL

(* delivery_count covers what was answered, and beyond it only failures.   *)
THEOREM DeliveriesAccounted == Spec => []DeliveriesCounted
<1>1. IInv => DeliveriesCounted
  BY DEF IInv
<1>2. QED BY <1>1, Invariant, PTL

(* The stored chain verifies under one key, and its head is extended by    *)
(* the accepted events, in every state a crash may leave.                  *)
THEOREM ChainsVerify == Spec => []ChainVerifies
<1>1. IInv => ChainVerifies
  BY DEF IInv
<1>2. QED BY <1>1, Invariant, PTL

(* A checkpoint that create_checkpoint's caller was given stays stored.    *)
THEOREM ReturnedStay == Spec => []ReturnedKept
<1>1. IInv => ReturnedKept
  BY DEF IInv
<1>2. QED BY <1>1, Invariant, PTL

(* check_checkpoint_integrity, read piece by piece, never fails.           *)
THEOREM NoAlarms == Spec => []NoFalseAlarm
<1>1. IInv => NoFalseAlarm
  BY DEF IInv
<1>2. QED BY <1>1, Invariant, PTL

-----------------------------------------------------------------------------
(* What a step may do to the events and the chain.                         *)
LedgerStep ==
  \/ /\ UNCHANGED <<accepted, chain>>
     /\ conflicts \subseteq conflicts'
  \/ /\ \E e \in Event, c \in Content : Record(e, c)
     /\ UNCHANGED chain
  \/ \E t \in Thread : CommitCreate(t)

(* Every step is one of these.                                             *)
LEMMA StepIsLedgerStep == IInv /\ [Next]_vars => LedgerStep
<1>1. ASSUME NEW e \in Event, NEW c \in Content, Transfer(e, c) PROVE LedgerStep
  BY <1>1 DEF Transfer, Ingest, IngestFails, IngestConflict, Reconcile,
              events, checkpoints, LedgerStep
<1>2. ASSUME NEW t \in Thread, Handle(t) PROVE LedgerStep
  <2>1. CASE CommitCreate(t)
    BY <2>1 DEF LedgerStep
  <2>2. CASE ~CommitCreate(t)
    BY <1>2, <2>2 DEF Handle, Ready, Request, ReadMembers, EndCheck, BeginCreate,
                      CreateRefused, GiveUp, events, checkpoints, LedgerStep
  <2>3. QED BY <2>1, <2>2
<1>3. CASE Crash \/ \E ring \in KeyRings : Start(ring[1], ring[2])
  BY <1>3 DEF Crash, Start, events, checkpoints, LedgerStep
<1>4. CASE UNCHANGED vars
  BY <1>4 DEF vars, events, checkpoints, LedgerStep
<1>5. ASSUME IInv, [Next]_vars PROVE LedgerStep
  BY <1>1, <1>2, <1>3, <1>4, <1>5 DEF Next
<1>6. QED BY <1>5

(* No accepted event is replaced, no conflict is forgotten and the chain   *)
(* only grows, across faults and restarts.                                 *)
THEOREM ProvenanceStays == Spec => ProvenanceKept
<1> DEFINE Kept ==
      /\ \A e \in Event : Stored(e) => accepted'[e] = accepted[e]
      /\ conflicts \subseteq conflicts'
      /\ Len(chain) <= Len(chain')
      /\ \A i \in DOMAIN chain : chain'[i] = chain[i]
<1>1. ASSUME IInv, LedgerStep PROVE Kept
  <2>1. chain \in Seq(Checkpoint) /\ Len(chain) \in Nat
    BY <1>1 DEF IInv, TypeOK
  <2>2. CASE UNCHANGED <<accepted, chain>> /\ conflicts \subseteq conflicts'
    BY <2>1, <2>2
  <2>3. CASE (\E e \in Event, c \in Content : Record(e, c)) /\ UNCHANGED chain
    BY <1>1, <2>1, <2>3, RecordFacts
  <2>4. ASSUME NEW t \in Thread, CommitCreate(t) PROVE Kept
    BY <1>1, <2>4, CommitFacts DEF CommitCreate, events
  <2>5. QED BY <1>1, <2>2, <2>3, <2>4 DEF LedgerStep
<1>2. IInv /\ [Next]_vars => [Kept]_vars
  BY <1>1, StepIsLedgerStep
<1>3. QED BY <1>2, Invariant, PTL DEF Spec, ProvenanceKept

-----------------------------------------------------------------------------
(* ECHO implements AppendOnlyProvenance: an ingest accepts a fact or       *)
(* stutters, and a commit seals every fact accepted at that moment.        *)
THEOREM Refinement == Spec => ImplementsProvenance
<1> DEFINE seals == [i \in DOMAIN chain |-> chain[i].items]
<1>1. Init => Provenance!Init
  <2>1. Init => seals = <<>>
    BY DEF Init
  <2>2. QED BY <2>1 DEF Init, Provenance!Init
<1>2. ASSUME IInv, LedgerStep PROVE [Provenance!Next]_(Provenance!vars)
  <2>1. CASE UNCHANGED <<accepted, chain>>
    BY <2>1 DEF Provenance!vars
  <2>2. ASSUME NEW e \in Event, NEW c \in Content, Record(e, c), UNCHANGED chain
        PROVE  [Provenance!Next]_(Provenance!vars)
    <3>1. accepted' = [accepted EXCEPT ![e] = c] /\ accepted \in Items /\ seals' = seals
      BY <1>2, <2>2 DEF IInv, TypeOK, Record
    <3>2. CASE accepted[e] = c
      <4>1. accepted' = accepted
        BY <3>1, <3>2 DEF Items
      <4>2. QED BY <3>1, <4>1 DEF Provenance!vars
    <3>3. CASE ~Stored(e)
      <4>1. accepted[e] = None /\ c # None
        BY <3>3, NoneAssumption DEF Stored
      <4>2. Provenance!Accept(e, c)
        BY <3>1, <4>1 DEF Provenance!Accept
      <4>3. QED BY <4>2 DEF Provenance!Next
    <3>4. QED BY <2>2, <3>2, <3>3 DEF Record
  <2>3. ASSUME NEW t \in Thread, CommitCreate(t)
        PROVE  [Provenance!Next]_(Provenance!vars)
    <3>1. /\ NonEmpty(accepted) /\ members \in Seq(Items)
          /\ members' = Append(members, accepted)
      BY <1>2, <2>3, CommitFacts
    <3>2. accepted' = accepted
      BY <2>3 DEF CommitCreate, events
    <3>3. members = seals
      BY <1>2 DEF IInv, ChainVerifies
    <3>4. members' = seals'
      BY <1>2, <2>3, CommitVerifies DEF ChainVerifies
    <3>5. seals' = Append(seals, accepted)
      BY <3>1, <3>3, <3>4
    <3>6. Provenance!Seal
      BY <3>1, <3>2, <3>5 DEF Provenance!Seal, NonEmpty
    <3>7. QED BY <3>6 DEF Provenance!Next
  <2>4. QED BY <1>2, <2>1, <2>2, <2>3 DEF LedgerStep
<1>3. IInv /\ [Next]_vars => [Provenance!Next]_(Provenance!vars)
  BY <1>2, StepIsLedgerStep
<1>4. QED BY <1>1, <1>3, Invariant, PTL DEF Spec, ImplementsProvenance, Provenance!Spec

-----------------------------------------------------------------------------
(* What verify_chain checks from one checkpoint to the next holds between  *)
(* any two: a later one has all the items of an earlier one, unchanged.    *)
LEMMA ChainNests ==
  ASSUME NEW ch \in Seq(Checkpoint), NEW m, ChainOk(ch, m),
         NEW i \in DOMAIN ch, NEW j \in DOMAIN ch, i <= j
  PROVE  Extends(ch[j].items, ch[i].items)
<1> DEFINE S == {n \in i .. Len(ch) : Extends(ch[n].items, ch[i].items)}
<1>1. i \in Nat \ {0} /\ j \in i .. Len(ch) /\ Len(ch) \in Nat /\ DOMAIN ch = 1 .. Len(ch)
  OBVIOUS
<1>2. i \in S
  BY <1>1 DEF Extends
<1>3. ASSUME NEW n \in i .. Len(ch), n \in S, n < Len(ch) PROVE n + 1 \in S
  <2>1. n + 1 \in DOMAIN ch /\ n + 1 # 1 /\ (n + 1) - 1 = n /\ n + 1 \in i .. Len(ch)
    BY <1>1, <1>3
  <2>2. Extends(ch[n + 1].items, ch[n].items)
    BY <2>1 DEF ChainOk
  <2>3. Extends(ch[n].items, ch[i].items)
    BY <1>3
  <2>4. Extends(ch[n + 1].items, ch[i].items)
    BY <2>2, <2>3 DEF Extends
  <2>5. QED BY <2>1, <2>4
<1>4. \A n \in i .. Len(ch) : n \in S
  <2> HIDE DEF S
  <2>1. QED BY <1>1, <1>2, <1>3, Stepwise
<1>5. QED BY <1>1, <1>4

(* What is sealed in any checkpoint, and what was returned to a caller, is *)
(* in every later checkpoint and among the accepted events.                *)
CheckpointsNest ==
  /\ \A i, j \in DOMAIN chain : i <= j => Extends(chain[j].items, chain[i].items)
  /\ \A i \in DOMAIN chain : Extends(accepted, chain[i].items)
  /\ \A b \in returned : Extends(accepted, b.items)

(* Every checkpoint, whenever it was made, agrees with every verdict,      *)
(* whenever it was given.                                                  *)
VerdictsSealed ==
  \A i \in DOMAIN chain :
    /\ \A x \in told.same : chain[i].items[x[1]] \in {None, x[2]}
    /\ \A x \in told.different : chain[i].items[x[1]] # x[2]

(* The accepted events extend the last checkpoint, and that all before it. *)
LEMMA InvariantNests == IInv => CheckpointsNest
<1> SUFFICES ASSUME IInv PROVE CheckpointsNest
  OBVIOUS
<1>1. chain \in Seq(Checkpoint) /\ ChainVerifies /\ ReturnedKept
  BY DEF IInv, TypeOK
<1>2. ASSUME NEW i \in DOMAIN chain, NEW j \in DOMAIN chain, i <= j
      PROVE  Extends(chain[j].items, chain[i].items)
  <2>1. ChainOk(chain, chain[1].by)
    BY <1>1 DEF ChainVerifies
  <2>2. QED BY <1>1, <1>2, <2>1, ChainNests
<1>3. ASSUME NEW i \in DOMAIN chain PROVE Extends(accepted, chain[i].items)
  <2>1. Len(chain) \in DOMAIN chain /\ i <= Len(chain) /\ chain # <<>>
    BY <1>1
  <2>2. Extends(chain[Len(chain)].items, chain[i].items)
    BY <1>2, <2>1
  <2>3. Extends(accepted, chain[Len(chain)].items)
    BY <1>1, <2>1 DEF ChainVerifies, Last
  <2>4. QED BY <2>2, <2>3 DEF Extends
<1>4. ASSUME NEW b \in returned PROVE Extends(accepted, b.items)
  BY <1>1, <1>3 DEF ReturnedKept
<1>5. QED BY <1>2, <1>3, <1>4 DEF CheckpointsNest

(* No checkpoint ever drops or changes what an earlier one sealed, and the *)
(* store still holds it (create_checkpoint, verify_chain).                 *)
THEOREM CheckpointsNested == Spec => []CheckpointsNest
BY Invariant, InvariantNests, PTL

(* What ingest and reconcile said of a record agrees with every checkpoint *)
(* sealed before it or after it.                                           *)
THEOREM VerdictsSealedToo == Spec => []VerdictsSealed
<1>1. ASSUME IInv, CheckpointsNest PROVE VerdictsSealed
  <2> SUFFICES ASSUME NEW i \in DOMAIN chain
               PROVE  /\ \A x \in told.same : chain[i].items[x[1]] \in {None, x[2]}
                      /\ \A x \in told.different : chain[i].items[x[1]] # x[2]
    BY DEF VerdictsSealed
  <2>1. \A e \in Event : chain[i].items[e] # None => accepted[e] = chain[i].items[e]
    BY <1>1 DEF CheckpointsNest, Extends
  <2>2. /\ \A x \in told.same : x[1] \in Event /\ accepted[x[1]] = x[2]
        /\ \A x \in told.different : /\ x[1] \in Event /\ x[2] \in Content
                                     /\ accepted[x[1]] # x[2]
    BY <1>1 DEF IInv, TypeOK, VerdictsHold
  <2>3. \A x \in told.different : x[2] # None
    BY <2>2, NoneAssumption
  <2>4. QED BY <2>1, <2>2, <2>3
<1>2. QED BY <1>1, Invariant, InvariantNests, PTL

=============================================================================
