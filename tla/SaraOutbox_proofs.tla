------------------------- MODULE SaraOutbox_proofs -------------------------
(***************************************************************************)
(* Proofs about SaraOutbox, for every set of events and of threads, every  *)
(* limit and size, and any number of faults.                               *)
(***************************************************************************)
EXTENDS SaraOutbox, SequenceTheorems, FiniteSetTheorems, TLAPS

(* The elements of a queue that is appended to, and of its tail.           *)
LEMMA ElementsAppend ==
  ASSUME NEW S, NEW s \in Seq(S), NEW e \in S
  PROVE  Elements(Append(s, e)) = Elements(s) \union {e}
<1>1. ASSUME NEW x \in Elements(Append(s, e)) PROVE x \in Elements(s) \union {e}
  BY DEF Elements
<1>2. ASSUME NEW x \in Elements(s) PROVE x \in Elements(Append(s, e))
  <2>1. PICK i \in DOMAIN s : x = s[i]
    BY DEF Elements
  <2>2. i \in DOMAIN Append(s, e) /\ Append(s, e)[i] = x
    BY <2>1
  <2>3. QED
    BY <2>2 DEF Elements
<1>3. e \in Elements(Append(s, e))
  <2>1. Len(s) + 1 \in DOMAIN Append(s, e) /\ Append(s, e)[Len(s) + 1] = e
    OBVIOUS
  <2>2. QED
    BY <2>1 DEF Elements
<1>4. QED
  BY <1>1, <1>2, <1>3

(* The head and the tail make up the elements of a sequence.               *)
LEMMA ElementsTail ==
  ASSUME NEW S, NEW s \in Seq(S), s # <<>>
  PROVE  /\ Head(s) \in Elements(s)
         /\ Elements(Tail(s)) \subseteq Elements(s)
         /\ Elements(s) = {Head(s)} \union Elements(Tail(s))
<1>1. Tail(s) \in Seq(S) /\ Len(Tail(s)) = Len(s) - 1 /\ Len(s) > 0
  OBVIOUS
<1>2. \A i \in DOMAIN Tail(s) : i + 1 \in DOMAIN s /\ Tail(s)[i] = s[i + 1]
  BY <1>1
<1>3. \A i \in DOMAIN s : i = 1 \/ (i - 1 \in DOMAIN Tail(s) /\ Tail(s)[i - 1] = s[i])
  BY <1>1
<1>4. 1 \in DOMAIN s /\ Head(s) = s[1]
  BY <1>1
<1>5. Head(s) \in Elements(s)
  BY <1>4 DEF Elements
<1>6. Elements(Tail(s)) \subseteq Elements(s)
  BY <1>2 DEF Elements
<1>7. Elements(s) \subseteq {Head(s)} \union Elements(Tail(s))
  <2> SUFFICES ASSUME NEW i \in DOMAIN s
               PROVE  s[i] \in {Head(s)} \union Elements(Tail(s))
    BY DEF Elements
  <2>1. CASE i = 1
    BY <2>1, <1>4
  <2>2. CASE i - 1 \in DOMAIN Tail(s) /\ Tail(s)[i - 1] = s[i]
    BY <2>2 DEF Elements
  <2>3. QED
    BY <2>1, <2>2, <1>3
<1>8. QED
  BY <1>5, <1>6, <1>7

(* A queue without repetitions stays so, and its tail forgets its head.    *)
LEMMA DistinctTail ==
  ASSUME NEW S, NEW s \in Seq(S), s # <<>>, Distinct(s)
  PROVE  Distinct(Tail(s)) /\ Head(s) \notin Elements(Tail(s))
<1>1. Tail(s) \in Seq(S) /\ Len(Tail(s)) = Len(s) - 1 /\ Len(s) > 0
  OBVIOUS
<1>2. \A i \in DOMAIN Tail(s) : i + 1 \in DOMAIN s /\ i + 1 # 1 /\ Tail(s)[i] = s[i + 1]
  BY <1>1
<1>3. 1 \in DOMAIN s /\ Head(s) = s[1]
  BY <1>1
<1>4. Distinct(Tail(s))
  <2> SUFFICES ASSUME NEW i \in DOMAIN Tail(s), NEW j \in DOMAIN Tail(s),
                      Tail(s)[i] = Tail(s)[j]
               PROVE  i = j
    BY DEF Distinct
  <2>1. i + 1 = j + 1
    BY <1>2 DEF Distinct
  <2>2. QED
    BY <2>1, <1>1
<1>5. Head(s) \notin Elements(Tail(s))
  BY <1>2, <1>3 DEF Distinct, Elements
<1>6. QED
  BY <1>4, <1>5

(* Appending a new element keeps a sequence free of repeats.               *)
LEMMA DistinctAppend ==
  ASSUME NEW S, NEW s \in Seq(S), NEW e \in S, Distinct(s), e \notin Elements(s)
  PROVE  Distinct(Append(s, e))
<1>1. \A i \in DOMAIN Append(s, e) :
        \/ i \in DOMAIN s /\ Append(s, e)[i] = s[i]
        \/ i = Len(s) + 1 /\ Append(s, e)[i] = e
  OBVIOUS
<1>2. QED
  BY <1>1 DEF Distinct, Elements

(* What queueing keeps of the delivered records.                           *)
LEMMA EvictedBound ==
  ASSUME NEW S, retained \in Seq(S)
  PROVE  Evicted \in Seq(S) /\ Len(Evicted) <= MaxDelivered - 1
<1> USE LimitAssumption
<1>1. CASE Len(retained) >= MaxDelivered
  <2> DEFINE m == Len(retained) - MaxDelivered + 2
  <2>1. m \in Nat /\ m >= 1 /\ Len(retained) \in Nat /\ m <= Len(retained) + 1
    BY <1>1
  <2>2. \A i \in m .. Len(retained) : retained[i] \in S
    BY <2>1
  <2>3. /\ SubSeq(retained, m, Len(retained)) \in Seq(S)
        /\ Len(SubSeq(retained, m, Len(retained))) = Len(retained) - m + 1
    BY <2>1, <2>2, SubSeqProperties
  <2>4. Evicted = SubSeq(retained, m, Len(retained))
    BY <1>1 DEF Evicted
  <2>5. QED
    BY <2>1, <2>3, <2>4
<1>2. CASE Len(retained) < MaxDelivered
  BY <1>2 DEF Evicted
<1>3. QED
  BY <1>1, <1>2

-----------------------------------------------------------------------------

(* The initial states satisfy the invariant.                               *)
LEMMA InitIInv == Init => IInv
<1> USE ActorAssumption, LimitAssumption, SizeAssumption
<1> SUFFICES ASSUME Init PROVE IInv
  OBVIOUS
<1>1. Elements(pending) = {} /\ Distinct(pending) /\ Len(pending) = 0 /\ Len(retained) = 0
  BY DEF Init, Elements, Distinct
<1>2. LockFree
  BY DEF Init, LockFree
<1>3. TypeOK
  <2>1. pending \in Seq(Event) /\ retained \in Seq(Event)
    BY DEF Init
  <2>2. torn \in BOOLEAN
    BY Zenon DEF Init
  <2>3. faults \in 0 .. MaxFaults /\ other \in OtherSizes
    BY DEF Init
  <2>4. QED
    BY <2>1, <2>2, <2>3 DEF Init, TypeOK
<1>4. RecordsBounded /\ RegistryLoads /\ CapacityInv
  BY <1>1 DEF Init, RecordsBounded, RegistryLoads, CapacityInv, Fits, Weight
<1>5. QED
  BY <1>1, <1>2, <1>3, <1>4 DEF Init, IInv, NoEventLost, RepeatsExplained, ReplyHonest,
     BootReplaysBacklog, HistoryInv, LockInv, AppendedInv, PhaseInv, BootInv, SessionInv,
     Delivering, Actor

(* Queueing an event preserves the invariant.                              *)
LEMMA SubmitIInv ==
  ASSUME NEW h \in Handler, NEW e \in Event, IInv, Submit(h, e)
  PROVE  IInv'
<1> USE ActorAssumption, LimitAssumption DEF Submit, Queue, audit, IInv
<1>1. h # boot /\ h \in Actor /\ pending \in Seq(Event) /\ e \in Event
  BY DEF Actor, TypeOK
<1>2. /\ Elements(pending') = Elements(pending) \union {e}
      /\ Len(pending') = Len(pending) + 1 /\ pending' \in Seq(Event)
  BY <1>1, ElementsAppend
<1>3. e \notin Elements(pending) /\ e \notin Delivering /\ e \notin backlog
  BY DEF HistoryInv
<1>4. Distinct(pending')
  BY <1>1, <1>3, DistinctAppend DEF HistoryInv
<1>5. retained' \in Seq(Event) /\ Len(retained') <= MaxDelivered - 1
  BY EvictedBound DEF TypeOK
<1>6. LockFree' /\ Delivering' = Delivering
  BY DEF LockFree, Delivering, TypeOK
<1>7. TypeOK'
  BY <1>1, <1>2, <1>5 DEF TypeOK
<1>8. NoEventLost' /\ RepeatsExplained' /\ HistoryInv'
  BY <1>2, <1>4, <1>6 DEF NoEventLost, RepeatsExplained, HistoryInv
<1>9. RecordsBounded' /\ CapacityInv' /\ RegistryLoads'
  BY <1>2, <1>5 DEF RecordsBounded, CapacityInv, CanQueue, TypeOK, RegistryLoads
<1>10. LockInv' /\ AppendedInv'
  BY <1>2, <1>3, <1>6, <1>1 DEF LockInv, AppendedInv, LockFree, TypeOK
<1>11. PhaseInv' /\ BootInv' /\ BootReplaysBacklog'
  BY <1>1, <1>2, <1>3 DEF PhaseInv, BootInv, BootReplaysBacklog, TypeOK
<1>12. SessionInv' /\ ReplyHonest'
  BY <1>1, <1>2, <1>3, <1>6 DEF SessionInv, ReplyHonest, TypeOK, Actor
<1>13. QED
  BY <1>7, <1>8, <1>9, <1>10, <1>11, <1>12

(* A submit whose write fails preserves it.                                *)
LEMMA SubmitFailsIInv ==
  ASSUME NEW h \in Handler, NEW e \in Event, IInv, SubmitFails(h, e)
  PROVE  IInv'
<1> USE ActorAssumption, LimitAssumption DEF SubmitFails, audit, IInv, Fault
<1>1. h # boot /\ h \in Actor /\ pending \in Seq(Event) /\ e \in Event
  BY DEF Actor, TypeOK
<1>2. CASE Queue(e) /\ mine' = [mine EXCEPT ![h] = e]
  <2> USE <1>2 DEF Queue
  <2>1. /\ Elements(pending') = Elements(pending) \union {e}
        /\ Len(pending') = Len(pending) + 1 /\ pending' \in Seq(Event)
    BY <1>1, ElementsAppend
  <2>2. e \notin Elements(pending) /\ e \notin Delivering /\ e \notin backlog
    BY DEF HistoryInv
  <2>3. Distinct(pending')
    BY <1>1, <2>2, DistinctAppend DEF HistoryInv
  <2>4. retained' \in Seq(Event) /\ Len(retained') <= MaxDelivered - 1
    BY EvictedBound DEF TypeOK
  <2>5. LockFree' /\ Delivering' = Delivering
    BY DEF LockFree, Delivering, TypeOK
  <2>6. TypeOK'
    BY <1>1, <2>1, <2>4 DEF TypeOK
  <2>7. NoEventLost' /\ RepeatsExplained' /\ HistoryInv'
    BY <2>1, <2>3, <2>5 DEF NoEventLost, RepeatsExplained, HistoryInv
  <2>8. RecordsBounded' /\ CapacityInv' /\ RegistryLoads'
    BY <2>1, <2>4 DEF RecordsBounded, CapacityInv, CanQueue, TypeOK, RegistryLoads
  <2>9. LockInv' /\ AppendedInv'
    BY <2>1, <2>2, <2>5, <1>1 DEF LockInv, AppendedInv, LockFree, TypeOK
  <2>10. PhaseInv' /\ BootInv' /\ BootReplaysBacklog'
    BY <1>1, <2>1, <2>2 DEF PhaseInv, BootInv, BootReplaysBacklog, TypeOK
  <2>11. SessionInv' /\ ReplyHonest'
    BY <1>1, <2>1, <2>2, <2>5 DEF SessionInv, ReplyHonest, TypeOK, Actor
  <2>12. QED
    BY <2>6, <2>7, <2>8, <2>9, <2>10, <2>11
<1>3. CASE UNCHANGED <<registry, history>> /\ mine' = [mine EXCEPT ![h] = NoEvent]
  <2> USE <1>3 DEF registry, history
  <2>1. LockFree' = LockFree /\ Delivering' = Delivering
    BY DEF LockFree, Delivering
  <2>2. TypeOK'
    BY DEF TypeOK
  <2>3. SessionInv' /\ ReplyHonest'
    BY <1>1, <2>1 DEF SessionInv, ReplyHonest, TypeOK
  <2>4. QED
    BY <2>1, <2>2, <2>3, <1>1 DEF NoEventLost, RepeatsExplained, BootReplaysBacklog,
       RecordsBounded, RegistryLoads, HistoryInv, LockInv, AppendedInv, PhaseInv, BootInv,
       CapacityInv
<1>4. QED
  BY <1>2, <1>3

(* The steps that only move a thread, report or append a plain line.       *)
LEMMA QuietIInv ==
  ASSUME NEW h \in Handler, IInv,
         \/ SubmitRefused(h) \/ Report(h) \/ DirectAudit(h) \/ DirectAuditFails(h)
         \/ \E size \in OtherSizes : RegistryPatch(h, size)
  PROVE  IInv'
<1> USE ActorAssumption, LimitAssumption DEF SubmitRefused, Report, DirectAudit,
     DirectAuditFails, RegistryPatch, registry, audit, history, AppendPlain, AppendPart
<1>1. h # boot /\ h \in Actor /\ boot \in Actor
  BY DEF Actor
<1>2. /\ UNCHANGED <<pending, retained, readable, garbled, repeated, proc, budget, history>>
      /\ pc' = [pc EXCEPT ![h] = pc'[h]] /\ pc'[h] \in {"idle", "audit"}
      /\ proc = "up" \/ pc[h] = "status"
  BY <1>1 DEF IInv, TypeOK
<1>3. proc = "up" /\ LockFree
  BY <1>2 DEF IInv, PhaseInv
<1>4. LockFree' /\ Delivering' = Delivering
  BY <1>1, <1>2, <1>3 DEF LockFree, Delivering, IInv, TypeOK
<1>5. torn' \in BOOLEAN
  BY Zenon DEF IInv, TypeOK
<1>6. TypeOK'
  <2>1. pc' \in [Actor -> {"idle", "drain", "mark", "status", "audit"}]
    BY <1>1, <1>2 DEF IInv, TypeOK
  <2>2. other' \in OtherSizes
    BY DEF IInv, TypeOK
  <2>3. /\ mine' \in [Handler -> Event \union {NoEvent}]
        /\ reply' \in [Handler -> {"none", "DELIVERED", "PENDING_REPLAY", "ERROR"}]
    BY DEF IInv, TypeOK
  <2>4. faults' \in 0 .. MaxFaults
    BY DEF IInv, TypeOK, Fault
  <2>5. QED
    BY <1>2, <1>5, <2>1, <2>2, <2>3, <2>4 DEF IInv, TypeOK
<1>7. RegistryLoads'
  BY DEF IInv, RegistryLoads
<1>8. /\ \A g \in Handler : pc'[g] = pc[g] \/ (g = h /\ pc'[g] \in {"idle", "audit"})
      /\ pc'[boot] = pc[boot]
  <2>1. pc \in [Actor -> {"idle", "drain", "mark", "status", "audit"}]
    BY DEF IInv, TypeOK
  <2>2. \A g \in Actor : pc'[g] = pc[g] \/ g = h
    BY <1>2, <2>1
  <2>3. QED
    BY <1>1, <1>2, <2>2 DEF Actor
<1>9. SessionInv' /\ ReplyHonest'
  <2>1. CASE SubmitRefused(h)
    BY <2>1, <1>1, <1>4, <1>8 DEF IInv, SessionInv, ReplyHonest, TypeOK
  <2>2. CASE Report(h)
    <3>1. pending = <<>> => mine[h] \in Delivering /\ mine[h] \notin Elements(pending)
      BY <2>2, <1>1 DEF IInv, SessionInv, NoEventLost, Elements
    <3>2. \A g \in Handler : reply'[g] = reply[g] \/ (g = h /\ (reply'[g] = "DELIVERED" => pending = <<>>))
      BY <2>2, <1>1 DEF IInv, TypeOK
    <3>3. mine[h] \in queued
      BY <2>2, <1>1 DEF IInv, SessionInv
    <3>4. UNCHANGED <<mine, queued, pending>>
      BY <2>2
    <3>5. SessionInv'
      BY <3>2, <3>3, <3>4, <1>8 DEF IInv, SessionInv
    <3>6. ReplyHonest'
      BY <3>1, <3>2, <3>4, <1>4 DEF IInv, ReplyHonest
    <3>7. QED
      BY <3>5, <3>6
  <2>3. CASE UNCHANGED <<mine, reply>>
    BY <2>3, <1>2, <1>4, <1>8 DEF IInv, SessionInv, ReplyHonest
  <2>4. QED
    BY <2>1, <2>2, <2>3
<1>10. LockInv' /\ AppendedInv'
  BY <1>2, <1>3, <1>4, <1>1 DEF IInv, LockInv, AppendedInv, LockFree, TypeOK
<1>11. PhaseInv' /\ BootInv' /\ BootReplaysBacklog'
  <2>1. UNCHANGED <<proc, pending, budget, backlog>>
    BY <1>2
  <2>2. QED
    BY <2>1, <1>3, <1>8 DEF IInv, PhaseInv, BootInv, BootReplaysBacklog
<1>12. NoEventLost' /\ RepeatsExplained' /\ HistoryInv' /\ RecordsBounded' /\ CapacityInv'
  BY <1>2, <1>4 DEF IInv, NoEventLost, RepeatsExplained, HistoryInv, RecordsBounded, CapacityInv
<1>13. QED
  BY <1>6, <1>7, <1>9, <1>10, <1>11, <1>12 DEF IInv

-----------------------------------------------------------------------------
(* Steps of a drain.  What a complete line does to the audit file:         *)
LEMMA AppendLineFacts ==
  ASSUME NEW e \in Event, TypeOK, AppendLine(e)
  PROVE  /\ Delivering' = Delivering \union {e}
         /\ readable' \subseteq Event /\ garbled' \subseteq Event
         /\ repeated' \subseteq Event /\ torn' \in BOOLEAN
         /\ repeated' = IF e \in Delivering THEN repeated \union {e} ELSE repeated
<1>1. torn' \in BOOLEAN
  BY Zenon DEF AppendLine
<1>2. CASE torn
  BY <1>1, <1>2 DEF AppendLine, TypeOK, Delivering
<1>3. CASE ~torn
  BY <1>1, <1>3 DEF AppendLine, TypeOK, Delivering
<1>4. QED
  BY <1>2, <1>3

(* What marking the oldest pending event does to the registry.             *)
LEMMA MarkFacts ==
  ASSUME TypeOK, Distinct(pending), pending # <<>>, Mark
  PROVE  /\ pending' \in Seq(Event) /\ retained' \in Seq(Event)
         /\ Len(pending') = Len(pending) - 1 /\ Len(retained') = Len(retained) + 1
         /\ Distinct(pending')
         /\ Elements(pending) = {Head(pending)} \union Elements(pending')
         /\ Head(pending) \notin Elements(pending')
         /\ Head(pending) \in Event
<1>1. pending \in Seq(Event) /\ retained \in Seq(Event)
  BY DEF TypeOK
<1>2. Head(pending) \in Event
  BY <1>1
<1>3. QED
  BY <1>1, <1>2, ElementsTail, DistinctTail DEF Mark

(* The data a step that gives up a drain may leave behind, and what it may *)
(* do to the threads.                                                      *)
DataLeft ==
  /\ pending' \in Seq(Event) /\ retained' \in Seq(Event)
  /\ Len(pending') <= Len(pending)
  /\ Len(pending') + Len(retained') = Len(pending) + Len(retained)
  /\ Distinct(pending') /\ Elements(pending') \subseteq Elements(pending)
  /\ Delivering \subseteq Delivering' /\ Delivering' \subseteq queued
  /\ readable' \subseteq Event /\ garbled' \subseteq Event /\ torn' \in BOOLEAN
  /\ repeated' \subseteq unmarked' /\ unmarked' \subseteq Event
  /\ queued \subseteq Elements(pending') \union Delivering'
  /\ \A e \in Elements(pending') \intersect Delivering' : e \in unmarked'
  /\ UNCHANGED <<queued, backlog, other>>
  /\ RegistryLoads' /\ faults' \in 0 .. MaxFaults

ThreadsLeft ==
  /\ pc' \in [Actor -> {"idle", "drain", "mark", "status", "audit"}]
  /\ \A g \in Actor : pc'[g] = pc[g] \/ pc'[g] = "idle"
  /\ LockFree' /\ PhaseInv'
  /\ proc' = proc \/ proc' = "down"
  /\ reply' \in [Handler -> {"none", "DELIVERED", "PENDING_REPLAY", "ERROR"}]
  /\ \A h \in Handler : reply'[h] = "DELIVERED" => reply[h] = "DELIVERED"
  /\ UNCHANGED <<mine, budget>>

(* Data as a step may leave it, and threads as they were but for one that  *)
(* ended, satisfy the invariant.                                           *)
LEMMA GiveUpIInv ==
  ASSUME IInv, DataLeft, ThreadsLeft
  PROVE  IInv'
<1>1. TypeOK'
  BY DEF IInv, TypeOK, DataLeft, ThreadsLeft
<1>2. /\ NoEventLost' /\ RepeatsExplained' /\ HistoryInv'
      /\ RegistryLoads' /\ AppendedInv'
  BY DEF IInv, DataLeft, NoEventLost, RepeatsExplained, HistoryInv, AppendedInv
<1>3. RecordsBounded' /\ CapacityInv'
  BY LimitAssumption DEF IInv, DataLeft, RecordsBounded, CapacityInv, TypeOK
<1>4. LockInv'
  BY DEF ThreadsLeft, LockInv, LockFree
<1>5. PhaseInv'
  BY DEF ThreadsLeft
<1>6. BootReplaysBacklog'
  BY DEF IInv, DataLeft, ThreadsLeft, BootReplaysBacklog
<1>7. BootInv'
  <2>1. boot \in Actor /\ budget' = budget /\ (pc'[boot] = pc[boot] \/ pc'[boot] = "idle")
    BY DEF ThreadsLeft, Actor
  <2>2. Len(pending') <= Len(pending) /\ Len(pending') \in Nat /\ Len(pending) \in Nat
    BY DEF DataLeft, IInv, TypeOK
  <2>3. budget[boot] \in Nat
    BY <2>1 DEF IInv, TypeOK
  <2>4. pc'[boot] = "status" => pending' = <<>>
    <3>1. SUFFICES ASSUME pc'[boot] = "status" PROVE pending' = <<>>
      OBVIOUS
    <3>2. Len(pending) = 0
      BY <2>1, <3>1 DEF IInv, BootInv
    <3>3. Len(pending') = 0 /\ pending' \in Seq(Event)
      BY <2>2, <3>2 DEF DataLeft
    <3>4. QED
      BY <3>3
  <2>5. pc'[boot] \in {"drain", "mark"} => Len(pending') <= budget'[boot]
    BY <2>1, <2>2, <2>3 DEF IInv, BootInv
  <2>6. QED
    BY <2>4, <2>5 DEF BootInv
<1>8. SessionInv' /\ ReplyHonest'
  <2>1. \A h \in Handler : h \in Actor
    BY DEF Actor
  <2>2. SessionInv'
    BY <2>1 DEF IInv, DataLeft, ThreadsLeft, SessionInv
  <2>3. ReplyHonest'
    BY DEF IInv, DataLeft, ThreadsLeft, ReplyHonest
  <2>4. QED
    BY <2>2, <2>3
<1>9. QED
  BY <1>1, <1>2, <1>3, <1>4, <1>5, <1>6, <1>7, <1>8 DEF IInv

(* A session that ends leaves the threads consistent.                      *)
LEMMA EndSessionThreads ==
  ASSUME IInv, NEW a \in Actor, NEW r \in {"none", "PENDING_REPLAY"},
         pc[a] \in {"drain", "mark", "status"}, LockFree \/ pc[a] = "mark",
         EndSession(a, r)
  PROVE  ThreadsLeft
<1> USE ActorAssumption DEF EndSession
<1>1. /\ pc \in [Actor -> {"idle", "drain", "mark", "status", "audit"}]
      /\ boot \in Actor /\ Handler \subseteq Actor
  BY DEF IInv, TypeOK, Actor
<1>2. /\ pc' \in [Actor -> {"idle", "drain", "mark", "status", "audit"}]
      /\ \A g \in Actor : pc'[g] = IF g = a THEN "idle" ELSE pc[g]
  BY <1>1
<1>3. LockFree'
  BY <1>2 DEF LockFree, IInv, LockInv
<1>4. PhaseInv'
  <2>1. CASE a = boot
    <3>1. proc = "booting" /\ proc' = "down"
      BY <2>1 DEF IInv, PhaseInv
    <3>2. \A h \in Handler : pc'[h] = "idle"
      BY <3>1, <1>1, <1>2 DEF IInv, PhaseInv
    <3>3. QED
      BY <3>1, <3>2, <2>1, <1>1, <1>2 DEF PhaseInv
  <2>2. CASE a # boot
    <3>1. proc' = proc /\ pc'[boot] = pc[boot]
      BY <2>2, <1>1, <1>2
    <3>2. \A h \in Handler : pc[h] = "idle" => pc'[h] = "idle"
      BY <1>1, <1>2
    <3>3. QED
      BY <3>1, <3>2 DEF IInv, PhaseInv
  <2>3. QED
    BY <2>1, <2>2
<1>5. /\ reply' \in [Handler -> {"none", "DELIVERED", "PENDING_REPLAY", "ERROR"}]
      /\ \A h \in Handler : reply'[h] = "DELIVERED" => reply[h] = "DELIVERED"
  <2>1. reply \in [Handler -> {"none", "DELIVERED", "PENDING_REPLAY", "ERROR"}]
    BY DEF IInv, TypeOK
  <2>2. CASE a = boot
    BY <2>1, <2>2
  <2>3. CASE a # boot
    BY <2>1, <2>3 DEF Actor
  <2>4. QED
    BY <2>2, <2>3
<1>6. QED
  BY <1>2, <1>3, <1>4, <1>5 DEF ThreadsLeft

(* What the data looks like when the step leaves registry and lines alone, *)
(* gives up the appended head, marks it, or appends its line last.         *)
LEMMA DataLeftSame ==
  ASSUME IInv, faults' \in 0 .. MaxFaults, torn' \in BOOLEAN,
         UNCHANGED <<pending, retained, other, readable, garbled, repeated, queued, backlog>>,
         unmarked' = IF LockFree THEN unmarked ELSE unmarked \union {Head(pending)}
  PROVE  DataLeft
<1>1. Delivering' = Delivering
  BY DEF Delivering
<1>2. LockFree \/ Head(pending) \in Event
  <2>1. ~LockFree => pending # <<>> /\ pending \in Seq(Event)
    BY DEF IInv, LockInv, TypeOK
  <2>2. QED
    BY <2>1
<1>3. unmarked' \subseteq Event /\ unmarked \subseteq unmarked'
  BY <1>2 DEF IInv, TypeOK
<1>4. repeated' \subseteq unmarked'
  BY <1>3 DEF IInv, RepeatsExplained
<1>5. \A e \in Elements(pending') \intersect Delivering' : e \in unmarked'
  BY <1>1, <1>3 DEF IInv, AppendedInv
<1>6. RegistryLoads'
  BY DEF IInv, RegistryLoads
<1>7. QED
  BY <1>1, <1>3, <1>4, <1>5, <1>6 DEF IInv, DataLeft, TypeOK, HistoryInv, NoEventLost

(* A DELIVERED mark leaves data the invariant accepts.                     *)
LEMMA DataLeftMark ==
  ASSUME IInv, ~LockFree, MarkFits, Mark, faults' \in 0 .. MaxFaults,
         UNCHANGED <<audit, unmarked, queued, backlog>>
  PROVE  DataLeft
<1>1. Delivering' = Delivering /\ UNCHANGED <<readable, garbled, torn, repeated>>
  BY DEF Delivering, audit
<1>2. pending # <<>> /\ Head(pending) \in Delivering
  BY DEF IInv, LockInv
<1>3. /\ pending' \in Seq(Event) /\ retained' \in Seq(Event)
      /\ Len(pending') = Len(pending) - 1 /\ Len(retained') = Len(retained) + 1
      /\ Distinct(pending')
      /\ Elements(pending) = {Head(pending)} \union Elements(pending')
      /\ Head(pending) \notin Elements(pending')
  BY <1>2, MarkFacts DEF IInv, HistoryInv
<1>4. Len(pending) \in Nat /\ Len(retained) \in Nat
  BY DEF IInv, TypeOK
<1>5. RegistryLoads'
  BY <1>3 DEF Mark, MarkFits, RegistryLoads
<1>6. \A e \in Elements(pending') \intersect Delivering' : e \in unmarked'
  BY <1>1, <1>3 DEF IInv, AppendedInv
<1>7. queued \subseteq Elements(pending') \union Delivering'
  BY <1>1, <1>2, <1>3 DEF IInv, NoEventLost
<1>8. QED
  BY <1>1, <1>3, <1>4, <1>5, <1>6, <1>7
  DEF IInv, DataLeft, TypeOK, HistoryInv, RepeatsExplained, Mark

(* An appended line leaves data the invariant accepts.                     *)
LEMMA DataLeftLine ==
  ASSUME IInv, LockFree, pending # <<>>, AppendLine(Head(pending)),
         unmarked' = unmarked \union {Head(pending)}, faults' \in 0 .. MaxFaults,
         UNCHANGED <<pending, retained, other, queued, backlog>>
  PROVE  DataLeft
<1>1. pending \in Seq(Event)
  BY DEF IInv, TypeOK
<1>2. Head(pending) \in Event /\ Head(pending) \in Elements(pending)
  BY <1>1, ElementsTail
<1>3. /\ Delivering' = Delivering \union {Head(pending)}
      /\ readable' \subseteq Event /\ garbled' \subseteq Event
      /\ repeated' \subseteq Event /\ torn' \in BOOLEAN
      /\ repeated' \subseteq repeated \union {Head(pending)}
  BY <1>2, AppendLineFacts DEF IInv
<1>4. RegistryLoads'
  BY DEF IInv, RegistryLoads
<1>5. \A e \in Elements(pending') \intersect Delivering' : e \in unmarked'
  BY <1>3 DEF IInv, AppendedInv
<1>6. QED
  BY <1>2, <1>3, <1>4, <1>5
  DEF IInv, DataLeft, TypeOK, HistoryInv, NoEventLost, RepeatsExplained

-----------------------------------------------------------------------------
(* The steps themselves.                                                   *)

(* Counting a fault keeps the count within its bound.                      *)
LEMMA FaultBound == ASSUME TypeOK, Fault PROVE faults' \in 0 .. MaxFaults
BY LimitAssumption DEF TypeOK, Fault

(* A failed append preserves the invariant.                                *)
LEMMA DrainAppendFailsIInv ==
  ASSUME IInv, NEW a \in Actor, DrainAppendFails(a)
  PROVE  IInv'
<1> USE DEF DrainAppendFails
<1>1. faults' \in 0 .. MaxFaults
  BY FaultBound DEF IInv
<1>2. ThreadsLeft
  BY EndSessionThreads
<1>3. CASE UNCHANGED <<audit, unmarked>>
  <2>1. torn' \in BOOLEAN
    BY <1>3, Zenon DEF audit, IInv, TypeOK
  <2>2. DataLeft
    BY <1>1, <1>3, <2>1, DataLeftSame DEF audit, registry
  <2>3. QED
    BY <1>2, <2>2, GiveUpIInv
<1>4. CASE AppendPart /\ UNCHANGED unmarked
  <2>1. torn' \in BOOLEAN
    BY <1>4, Zenon DEF AppendPart
  <2>2. DataLeft
    BY <1>1, <1>4, <2>1, DataLeftSame DEF AppendPart, registry
  <2>3. QED
    BY <1>2, <2>2, GiveUpIInv
<1>5. CASE AppendLine(Head(pending)) /\ unmarked' = unmarked \union {Head(pending)}
  <2>1. DataLeft
    BY <1>1, <1>5, DataLeftLine DEF registry
  <2>2. QED
    BY <1>2, <2>1, GiveUpIInv
<1>6. QED
  BY <1>3, <1>4, <1>5

(* A thread about to mark holds the lock and has work left.                *)
LEMMA MarkHolder == ASSUME IInv, NEW a \in Actor, pc[a] = "mark"
                    PROVE  ~LockFree /\ pending # <<>> /\ Head(pending) \in Event
<1>1. ~LockFree
  BY DEF LockFree
<1>2. pending # <<>> /\ pending \in Seq(Event)
  BY <1>1 DEF IInv, LockInv, TypeOK
<1>3. QED
  BY <1>1, <1>2

(* A mark the registry has no room for preserves it.                       *)
LEMMA DrainMarkRefusedIInv ==
  ASSUME IInv, NEW a \in Actor, DrainMarkRefused(a)
  PROVE  IInv'
<1>1. ThreadsLeft
  BY EndSessionThreads DEF DrainMarkRefused
<1>2. torn' \in BOOLEAN
  BY Zenon DEF DrainMarkRefused, audit, IInv, TypeOK
<1>3. DataLeft
  BY <1>2, MarkHolder, DataLeftSame DEF DrainMarkRefused, audit, registry, IInv, TypeOK
<1>4. QED
  BY <1>1, <1>3, GiveUpIInv

(* A mark whose write fails preserves it.                                  *)
LEMMA DrainMarkFailsIInv ==
  ASSUME IInv, NEW a \in Actor, DrainMarkFails(a)
  PROVE  IInv'
<1> USE DEF DrainMarkFails
<1>1. ThreadsLeft /\ faults' \in 0 .. MaxFaults /\ ~LockFree
  BY EndSessionThreads, FaultBound, MarkHolder DEF IInv
<1>2. CASE Mark /\ UNCHANGED unmarked
  BY <1>1, <1>2, DataLeftMark, GiveUpIInv
<1>3. CASE UNCHANGED registry /\ unmarked' = unmarked \union {Head(pending)}
  <2>1. torn' \in BOOLEAN
    BY Zenon DEF audit, IInv, TypeOK
  <2>2. DataLeft
    BY <1>1, <1>3, <2>1, DataLeftSame DEF audit, registry
  <2>3. QED
    BY <1>1, <2>2, GiveUpIInv
<1>4. QED
  BY <1>2, <1>3

(* A start-up that fails preserves it.                                     *)
LEMMA BootFailsIInv ==
  ASSUME IInv, BootFails
  PROVE  IInv'
<1> USE ActorAssumption DEF BootFails
<1>1. boot \in Actor
  BY DEF Actor
<1>2. LockFree
  BY DEF IInv, BootInv, LockInv
<1>3. ThreadsLeft /\ faults' \in 0 .. MaxFaults
  BY <1>1, <1>2, EndSessionThreads, FaultBound DEF IInv
<1>4. torn' \in BOOLEAN
  BY Zenon DEF AppendPart, AppendPlain, audit, IInv, TypeOK
<1>5. DataLeft
  BY <1>2, <1>3, <1>4, DataLeftSame DEF AppendPart, AppendPlain, audit, registry, history
<1>6. QED
  BY <1>3, <1>5, GiveUpIInv

(* A crash, with its partial append, preserves it.                         *)
LEMMA CrashIInv ==
  ASSUME IInv, Crash
  PROVE  IInv'
<1> USE ActorAssumption DEF Crash
<1>1. faults' \in 0 .. MaxFaults
  BY FaultBound DEF IInv
<1>2. ThreadsLeft
  BY DEF ThreadsLeft, LockFree, PhaseInv, IInv, TypeOK, Actor
<1>3. CASE /\ UNCHANGED <<pending, retained, audit>>
           /\ unmarked' = IF LockFree THEN unmarked ELSE unmarked \union {Head(pending)}
  <2>1. torn' \in BOOLEAN
    BY <1>3, Zenon DEF audit, IInv, TypeOK
  <2>2. DataLeft
    BY <1>1, <1>3, <2>1, DataLeftSame DEF audit
  <2>3. QED
    BY <1>2, <2>2, GiveUpIInv
<1>4. CASE ~LockFree /\ MarkFits /\ Mark /\ UNCHANGED <<audit, unmarked>>
  BY <1>1, <1>2, <1>4, DataLeftMark, GiveUpIInv
<1>5. CASE /\ LockFree /\ pending # <<>> /\ AppendPart /\ UNCHANGED unmarked
           /\ UNCHANGED <<pending, retained>>
  <2>1. torn' \in BOOLEAN
    BY <1>5, Zenon DEF AppendPart
  <2>2. DataLeft
    BY <1>1, <1>5, <2>1, DataLeftSame DEF AppendPart
  <2>3. QED
    BY <1>2, <2>2, GiveUpIInv
<1>6. CASE /\ LockFree /\ pending # <<>> /\ AppendLine(Head(pending))
           /\ unmarked' = unmarked \union {Head(pending)}
           /\ UNCHANGED <<pending, retained>>
  <2>1. DataLeft
    BY <1>1, <1>6, DataLeftLine
  <2>2. QED
    BY <1>2, <2>1, GiveUpIInv
<1>7. QED
  BY <1>3, <1>4, <1>5, <1>6

(* The threads of a process that is not up, and of the one lock holder.    *)
LEMMA DrainAppendIInv ==
  ASSUME IInv, NEW a \in Actor, DrainAppend(a)
  PROVE  IInv'
<1> USE ActorAssumption DEF DrainAppend
<1> DEFINE e == Head(pending)
<1>1. pending \in Seq(Event) /\ pc \in [Actor -> {"idle", "drain", "mark", "status", "audit"}]
  BY DEF IInv, TypeOK
<1>2. e \in Event /\ e \in Elements(pending)
  BY <1>1, ElementsTail
<1>3. /\ Delivering' = Delivering \union {e}
      /\ readable' \subseteq Event /\ garbled' \subseteq Event
      /\ repeated' \subseteq Event /\ torn' \in BOOLEAN
      /\ repeated' = IF e \in Delivering THEN repeated \union {e} ELSE repeated
  BY <1>2, AppendLineFacts DEF IInv
<1>4. UNCHANGED <<pending, retained, other, proc, budget, mine, reply, queued, unmarked, backlog, faults>>
  BY DEF registry, history
<1>5. /\ pc' \in [Actor -> {"idle", "drain", "mark", "status", "audit"}]
      /\ \A g \in Actor : pc'[g] = IF g = a THEN "mark" ELSE pc[g]
      /\ boot \in Actor /\ Handler \subseteq Actor
  BY <1>1 DEF Actor
<1>6. ~LockFree' /\ \A g \in Actor : pc'[g] = "mark" => g = a
  BY <1>5 DEF LockFree
<1>7. TypeOK'
  BY <1>3, <1>4, <1>5 DEF IInv, TypeOK
<1>8. RepeatsExplained'
  BY <1>2, <1>3, <1>4 DEF IInv, RepeatsExplained, AppendedInv
<1>9. NoEventLost' /\ HistoryInv'
  BY <1>2, <1>3, <1>4 DEF IInv, NoEventLost, HistoryInv
<1>10. LockInv' /\ AppendedInv'
  BY <1>3, <1>4, <1>5, <1>6, <1>1 DEF IInv, LockInv, AppendedInv, TypeOK
<1>11. PhaseInv' /\ BootInv'
  BY <1>4, <1>5 DEF IInv, PhaseInv, BootInv
<1>12. SessionInv' /\ ReplyHonest'
  BY <1>3, <1>4, <1>5 DEF IInv, SessionInv, ReplyHonest
<1>13. BootReplaysBacklog' /\ RecordsBounded' /\ RegistryLoads' /\ CapacityInv'
  BY <1>4 DEF IInv, BootReplaysBacklog, RecordsBounded, RegistryLoads, CapacityInv
<1>14. QED
  BY <1>7, <1>8, <1>9, <1>10, <1>11, <1>12, <1>13 DEF IInv

(* A DELIVERED mark preserves it.                                          *)
LEMMA DrainMarkIInv ==
  ASSUME IInv, NEW a \in Actor, DrainMark(a)
  PROVE  IInv'
<1> USE ActorAssumption, LimitAssumption DEF DrainMark
<1>1. /\ ~LockFree /\ pending # <<>> /\ Head(pending) \in Delivering
      /\ budget[a] > 0 /\ budget \in [Actor -> Nat] /\ pending \in Seq(Event)
      /\ retained \in Seq(Event)
      /\ pc \in [Actor -> {"idle", "drain", "mark", "status", "audit"}]
  BY MarkHolder DEF IInv, LockInv, TypeOK
<1>2. /\ pending' \in Seq(Event) /\ retained' \in Seq(Event)
      /\ Len(pending') = Len(pending) - 1 /\ Len(retained') = Len(retained) + 1
      /\ Distinct(pending')
      /\ Elements(pending) = {Head(pending)} \union Elements(pending')
      /\ Head(pending) \notin Elements(pending')
  BY <1>1, MarkFacts DEF IInv, HistoryInv
<1>3. /\ Delivering' = Delivering
      /\ UNCHANGED <<other, readable, garbled, torn, repeated, proc, mine, reply,
                     queued, unmarked, backlog, faults>>
  BY DEF Mark, audit, history, Delivering
<1>4. /\ pc' \in [Actor -> {"idle", "drain", "mark", "status", "audit"}]
      /\ \A g \in Actor : pc'[g] = IF g = a THEN "drain" ELSE pc[g]
      /\ budget' \in [Actor -> Nat]
      /\ \A g \in Actor : budget'[g] = IF g = a THEN budget[a] - 1 ELSE budget[g]
      /\ boot \in Actor /\ Handler \subseteq Actor
  BY <1>1 DEF Actor
<1>5. LockFree'
  BY <1>4 DEF IInv, LockInv, LockFree
<1>6. TypeOK'
  BY <1>2, <1>3, <1>4 DEF IInv, TypeOK
<1>7. NoEventLost' /\ RepeatsExplained' /\ HistoryInv' /\ BootReplaysBacklog'
  BY <1>1, <1>2, <1>3 DEF IInv, NoEventLost, RepeatsExplained, HistoryInv, BootReplaysBacklog
<1>8. LockInv' /\ AppendedInv'
  BY <1>2, <1>3, <1>5 DEF IInv, LockInv, LockFree, AppendedInv
<1>9. PhaseInv'
  BY <1>3, <1>4 DEF IInv, PhaseInv
<1>10. BootInv'
  <2>1. Len(pending) \in Nat /\ Len(pending) # 0
    BY <1>1
  <2>2. CASE a = boot
    BY <2>1, <2>2, <1>1, <1>2, <1>4 DEF IInv, BootInv
  <2>3. CASE a # boot
    <3>1. proc = "up"
      BY <2>3 DEF IInv, PhaseInv, Actor
    <3>2. pc'[boot] = "idle"
      BY <3>1, <2>3, <1>4 DEF IInv, PhaseInv
    <3>3. QED
      BY <3>2 DEF BootInv
  <2>4. QED
    BY <2>2, <2>3
<1>11. SessionInv' /\ ReplyHonest'
  BY <1>2, <1>3, <1>4 DEF IInv, SessionInv, ReplyHonest
<1>12. RecordsBounded' /\ CapacityInv' /\ RegistryLoads'
  <2>1. Len(pending) \in Nat /\ Len(retained) \in Nat
    BY <1>1
  <2>2. RegistryLoads'
    BY <1>2, <1>3 DEF MarkFits, RegistryLoads
  <2>3. QED
    BY <2>1, <2>2, <1>2 DEF IInv, RecordsBounded, CapacityInv
<1>13. QED
  BY <1>6, <1>7, <1>8, <1>9, <1>10, <1>11, <1>12 DEF IInv

(* The end of a drain preserves it.                                        *)
LEMMA DrainEndsIInv ==
  ASSUME IInv, NEW a \in Actor, DrainEnds(a)
  PROVE  IInv'
<1> USE ActorAssumption DEF DrainEnds
<1>1. /\ UNCHANGED <<pending, retained, other, readable, garbled, torn, repeated, proc,
                     budget, mine, reply, queued, unmarked, backlog, faults>>
      /\ Delivering' = Delivering
  BY DEF registry, audit, history, Delivering
<1>2. /\ pc \in [Actor -> {"idle", "drain", "mark", "status", "audit"}]
      /\ pending \in Seq(Event) /\ budget \in [Actor -> Nat]
  BY DEF IInv, TypeOK
<1>3. /\ pc' \in [Actor -> {"idle", "drain", "mark", "status", "audit"}]
      /\ \A g \in Actor : pc'[g] = IF g = a THEN "status" ELSE pc[g]
      /\ boot \in Actor /\ Handler \subseteq Actor
  BY <1>2 DEF Actor
<1>4. LockFree'
  BY <1>3 DEF LockFree
<1>5. TypeOK'
  BY <1>1, <1>3 DEF IInv, TypeOK
<1>6. LockInv' /\ AppendedInv'
  BY <1>1, <1>4 DEF IInv, LockInv, LockFree, AppendedInv
<1>7. PhaseInv'
  BY <1>1, <1>3 DEF IInv, PhaseInv
<1>8. BootInv'
  <2>1. CASE a = boot
    <3>1. pending = <<>>
      BY <2>1, <1>2, <1>3 DEF IInv, BootInv
    <3>2. QED
      BY <3>1, <2>1, <1>1, <1>3 DEF BootInv
  <2>2. CASE a # boot
    BY <2>2, <1>1, <1>3 DEF IInv, BootInv
  <2>3. QED
    BY <2>1, <2>2
<1>9. SessionInv' /\ ReplyHonest'
  BY <1>1, <1>3 DEF IInv, SessionInv, ReplyHonest
<1>10. /\ NoEventLost' /\ RepeatsExplained' /\ HistoryInv' /\ BootReplaysBacklog'
       /\ RecordsBounded' /\ RegistryLoads' /\ CapacityInv'
  BY <1>1 DEF IInv, NoEventLost, RepeatsExplained, HistoryInv, BootReplaysBacklog,
     RecordsBounded, RegistryLoads, CapacityInv
<1>11. QED
  BY <1>5, <1>6, <1>7, <1>8, <1>9, <1>10 DEF IInv

(* Starting, opening and stopping the service.                             *)
LEMMA LifecycleIInv ==
  ASSUME IInv, Boot \/ BootDone \/ Stop
  PROVE  IInv'
<1> USE ActorAssumption, LimitAssumption
<1>1. /\ UNCHANGED <<pending, retained, other, readable, garbled, repeated,
                     mine, reply, queued, unmarked, faults>>
      /\ Delivering' = Delivering
  BY DEF Boot, BootDone, Stop, registry, session, audit, AppendPlain, history, Delivering
<1>2. /\ pc \in [Actor -> {"idle", "drain", "mark", "status", "audit"}]
      /\ pending \in Seq(Event) /\ budget \in [Actor -> Nat]
      /\ boot \in Actor /\ Handler \subseteq Actor
  BY DEF IInv, TypeOK, Actor
<1>3. torn' \in BOOLEAN
  BY Zenon DEF Boot, BootDone, Stop, AppendPlain, audit, IInv, TypeOK
<1>4. LockFree /\ LockFree'
  <2>1. CASE Boot
    BY <2>1, <1>2 DEF Boot, LockFree, IInv, PhaseInv, Actor
  <2>2. CASE BootDone
    <3>1. LockFree
      BY <2>2 DEF BootDone, IInv, BootInv, LockInv
    <3>2. QED
      BY <2>2, <3>1, <1>2 DEF BootDone, LockFree
  <2>3. CASE Stop
    BY <2>3 DEF Stop, session, LockFree
  <2>4. QED
    BY <2>1, <2>2, <2>3
<1>5. /\ budget' \in [Actor -> Nat] /\ proc' \in {"stopped", "down", "booting", "up"}
      /\ pc' \in [Actor -> {"idle", "drain", "mark", "status", "audit"}]
      /\ backlog' \subseteq Event /\ backlog' \subseteq queued
      /\ \A h \in Handler : pc'[h] = pc[h]
  <2>1. CASE Boot
    BY <2>1, <1>2 DEF Boot, Elements, IInv, HistoryInv, TypeOK
  <2>2. CASE BootDone
    BY <2>2, <1>2 DEF BootDone, IInv, TypeOK, HistoryInv, history
  <2>3. CASE Stop
    BY <2>3, <1>2 DEF Stop, session, history, IInv, TypeOK, HistoryInv
  <2>4. QED
    BY <2>1, <2>2, <2>3
<1>6. TypeOK'
  BY <1>1, <1>3, <1>5 DEF IInv, TypeOK
<1>7. PhaseInv' /\ BootInv'
  <2>1. CASE Boot
    BY <2>1, <1>1, <1>2, <1>5 DEF Boot, IInv, PhaseInv, BootInv, CapacityInv
  <2>2. CASE BootDone
    BY <2>2, <1>1, <1>2, <1>5 DEF BootDone, IInv, PhaseInv, BootInv
  <2>3. CASE Stop
    BY <2>3, <1>1, <1>2, <1>5 DEF Stop, session, IInv, PhaseInv, BootInv
  <2>4. QED
    BY <2>1, <2>2, <2>3
<1>8. BootReplaysBacklog'
  <2>1. CASE Boot
    BY <2>1 DEF Boot, BootReplaysBacklog
  <2>2. CASE BootDone
    BY <2>2, <1>1 DEF BootDone, IInv, BootInv, BootReplaysBacklog, Elements
  <2>3. CASE Stop
    BY <2>3 DEF Stop, BootReplaysBacklog
  <2>4. QED
    BY <2>1, <2>2, <2>3
<1>9. /\ NoEventLost' /\ RepeatsExplained' /\ HistoryInv'
      /\ RecordsBounded' /\ RegistryLoads' /\ CapacityInv'
  BY <1>1, <1>5 DEF IInv, NoEventLost, RepeatsExplained, HistoryInv,
     RecordsBounded, RegistryLoads, CapacityInv
<1>10. LockInv' /\ AppendedInv'
  BY <1>1, <1>4 DEF IInv, LockInv, LockFree, AppendedInv
<1>11. SessionInv' /\ ReplyHonest'
  BY <1>1, <1>5 DEF IInv, SessionInv, ReplyHonest
<1>12. QED
  BY <1>6, <1>7, <1>8, <1>9, <1>10, <1>11 DEF IInv

-----------------------------------------------------------------------------
(* Every step preserves the invariant.                                     *)
LEMMA NextIInv == IInv /\ [Next]_vars => IInv'
<1> SUFFICES ASSUME IInv, [Next]_vars PROVE IInv'
  OBVIOUS
<1>1. CASE UNCHANGED vars
  <2>1. /\ UNCHANGED <<pending, retained, other, readable, garbled, torn, repeated, proc, pc,
                       budget, mine, reply, queued, unmarked, backlog, faults>>
    BY <1>1 DEF vars, registry, audit, session, history
  <2>2. LockFree' = LockFree /\ Delivering' = Delivering
    BY <2>1 DEF LockFree, Delivering
  <2>3. torn' \in BOOLEAN
    BY <2>1, Zenon DEF IInv, TypeOK
  <2>4. TypeOK'
    BY <2>1, <2>3 DEF IInv, TypeOK
  <2>5. QED
    BY <2>1, <2>2, <2>4 DEF IInv, NoEventLost, RepeatsExplained, ReplyHonest,
       BootReplaysBacklog, RecordsBounded, RegistryLoads, HistoryInv, LockInv, AppendedInv,
       PhaseInv, BootInv, SessionInv, CapacityInv
<1>2. ASSUME NEW a \in Actor, Drain(a) \/ DrainAppendFails(a) \/ DrainMarkFails(a)
      PROVE  IInv'
  BY <1>2, DrainAppendIInv, DrainMarkIInv, DrainMarkRefusedIInv, DrainEndsIInv,
     DrainAppendFailsIInv, DrainMarkFailsIInv DEF Drain
<1>3. ASSUME NEW h \in Handler, Serve(h) PROVE IInv'
  BY <1>3, SubmitIInv, SubmitFailsIInv, QuietIInv DEF Serve
<1>4. CASE Boot \/ BootDone \/ Stop
  BY <1>4, LifecycleIInv
<1>5. CASE BootFails
  BY <1>5, BootFailsIInv
<1>6. CASE Crash
  BY <1>6, CrashIInv
<1>7. QED
  BY <1>1, <1>2, <1>3, <1>4, <1>5, <1>6 DEF Next

(* The inductive invariant: whatever the number of threads, events, faults *)
(* and the limits, registry, audit file and threads fit together.          *)
THEOREM Invariant == Spec => []IInv
<1>1. Init => IInv
  BY InitIInv
<1>2. QED
  BY <1>1, NextIInv, PTL DEF Spec

(* The types of all the variables of store, outbox and threads.            *)
THEOREM TypeCorrect == Spec => []TypeOK
<1>1. IInv => TypeOK
  BY DEF IInv
<1>2. QED
  BY <1>1, Invariant, PTL

(* No committed outbox event is ever lost: it is pending or has a line.    *)
THEOREM NothingLost == Spec => []NoEventLost
<1>1. IInv => NoEventLost
  BY DEF IInv
<1>2. QED
  BY <1>1, Invariant, PTL

(* A second audit line exists only for an event whose mark was lost.       *)
THEOREM RepeatsOnlyExplained == Spec => []RepeatsExplained
<1>1. IInv => RepeatsExplained
  BY DEF IInv
<1>2. QED
  BY <1>1, Invariant, PTL

(* What a response, the start-up and the record bound promise.             *)
THEOREM RepliesHonest == Spec => []ReplyHonest
<1>1. IInv => ReplyHonest
  BY DEF IInv
<1>2. QED
  BY <1>1, Invariant, PTL

(* For every value of the constants, a start-up that completes has left no *)
(* event it found PENDING (event_outbox.drain_event_outbox with the limit  *)
(* lifespan gives it).                                                     *)
THEOREM BootReplays == Spec => []BootReplaysBacklog
<1>1. IInv => BootReplaysBacklog
  BY DEF IInv
<1>2. QED
  BY <1>1, Invariant, PTL

(* For every value of the constants, queueing evicts early enough          *)
(* (queue_event_outbox_patch) for the outbox never to reach its limit of   *)
(* keys.                                                                   *)
THEOREM BoundedRecords == Spec => [](RecordsBounded /\ RegistryLoads)
<1>1. IInv => RecordsBounded /\ RegistryLoads
  BY DEF IInv
<1>2. QED
  BY <1>1, Invariant, PTL

(* The registry on disk passes the validation of its next read             *)
(* (get_registry), for any sizes of its records and namespaces.            *)
THEOREM RegistryStaysLoadable == Spec => []RegistryLoads
<1>1. IInv => RegistryLoads
  BY DEF IInv
<1>2. QED
  BY <1>1, Invariant, PTL

-----------------------------------------------------------------------------
(* How many lines a fragment can spoil: every garbled line used one up, and*)
(* every fragment took a fault.                                            *)
Fragment == IF torn THEN 1 ELSE 0
LossInv == /\ faults \in Nat /\ IsFiniteSet(garbled)
           /\ Cardinality(garbled) + Fragment <= faults

(* What a step does to the audit file.                                     *)
AuditStep ==
  /\ faults' \in {faults, faults + 1}
  /\ \/ garbled' = garbled /\ torn' \in {torn, FALSE}
     \/ \E e \in Event : AppendLine(e)
     \/ garbled' = garbled /\ torn' = TRUE /\ faults' = faults + 1

(* Every step of the service is one of those.                              *)
LEMMA NextAudits == IInv /\ [Next]_vars => AuditStep
<1> SUFFICES ASSUME IInv, [Next]_vars PROVE AuditStep
  OBVIOUS
<1>1. pending # <<>> => Head(pending) \in Event
  BY DEF IInv, TypeOK
<1> USE DEF AuditStep, AppendPlain, AppendPart, audit, Fault
<1>2. CASE UNCHANGED vars
  BY <1>2 DEF vars
<1>3. ASSUME NEW a \in Actor, Drain(a) \/ DrainAppendFails(a) \/ DrainMarkFails(a)
      PROVE  AuditStep
  BY <1>1, <1>3 DEF Drain, DrainAppend, DrainMark, DrainMarkRefused, DrainEnds,
     DrainAppendFails, DrainMarkFails
<1>4. ASSUME NEW h \in Handler, Serve(h) PROVE AuditStep
  BY <1>4 DEF Serve, Submit, SubmitFails, SubmitRefused, RegistryPatch, DirectAudit,
     DirectAuditFails, Report
<1>5. CASE Boot \/ BootDone \/ BootFails \/ Stop
  BY <1>5 DEF Boot, BootDone, BootFails, Stop
<1>6. CASE Crash
  BY <1>1, <1>6 DEF Crash
<1>7. QED
  BY <1>2, <1>3, <1>4, <1>5, <1>6 DEF Next

(* None of them spoils more lines than there were fragments.               *)
LEMMA AuditKeepsLosses == LossInv /\ AuditStep => LossInv'
<1> SUFFICES ASSUME LossInv, AuditStep PROVE LossInv'
  OBVIOUS
<1>1. PICK n : n = Cardinality(garbled)
  OBVIOUS
<1>2. n \in Nat /\ faults \in Nat /\ n + Fragment <= faults
  BY <1>1, FS_CardinalityType DEF LossInv
<1>3. CASE garbled' = garbled /\ torn' \in {torn, FALSE}
  <2>1. Cardinality(garbled') = n /\ IsFiniteSet(garbled')
    BY <1>1, <1>3 DEF LossInv
  <2>2. Fragment' <= Fragment /\ Fragment' \in Nat
    <3>1. CASE torn' = torn
      <4>1. Fragment' = Fragment
        BY <3>1, Zenon DEF Fragment
      <4>2. Fragment \in Nat
        BY DEF Fragment
      <4>3. QED BY <1>2, <3>1, <4>1, <4>2
    <3>2. CASE torn' = FALSE
      <4>1. Fragment' = 0
        BY <3>2 DEF Fragment
      <4>2. Fragment \in Nat
        BY DEF Fragment
      <4>3. QED BY <4>1, <4>2
    <3>3. QED BY <1>3, <3>1, <3>2
  <2>3. faults' \in Nat /\ faults <= faults'
    BY <1>2 DEF AuditStep
  <2>4. Fragment \in Nat
    BY DEF Fragment
  <2>5. n + Fragment' <= faults'
    <3>1. PICK f, g, k, l : f = Fragment /\ g = Fragment' /\ k = faults /\ l = faults'
      OBVIOUS
    <3>2. f \in Nat /\ g \in Nat /\ k \in Nat /\ l \in Nat /\ g <= f /\ k <= l /\ n + f <= k
      BY <1>2, <2>2, <2>3, <2>4, <3>1
    <3>3. n + g <= l
      BY <1>2, <3>2
    <3>4. QED BY <3>1, <3>3
  <2>6. QED BY <2>1, <2>3, <2>5 DEF LossInv
<1>4. CASE garbled' = garbled /\ torn' = TRUE /\ faults' = faults + 1
  <2>1. Cardinality(garbled') = n /\ IsFiniteSet(garbled')
    BY <1>1, <1>4 DEF LossInv
  <2>2. n + Fragment' <= faults' /\ faults' \in Nat
    BY <1>2, <1>4 DEF Fragment
  <2>3. QED BY <2>1, <2>2 DEF LossInv
<1>5. ASSUME NEW e \in Event, AppendLine(e) PROVE LossInv'
  <2>1. CASE ~torn
    <3>1. garbled' = garbled /\ torn' = FALSE
      BY <1>5, <2>1 DEF AppendLine
    <3>2. QED BY <1>3, <3>1
  <2>2. CASE torn
    <3>1. garbled' = garbled \union {e} /\ torn' = FALSE
      BY <1>5, <2>2 DEF AppendLine
    <3>2. IsFiniteSet(garbled \union {e})
      BY FS_AddElement DEF LossInv
    <3>3. \/ Cardinality(garbled \union {e}) = Cardinality(garbled)
          \/ Cardinality(garbled \union {e}) = Cardinality(garbled) + 1
      BY FS_AddElement DEF LossInv
    <3>4. Cardinality(garbled') <= n + 1 /\ Cardinality(garbled') \in Nat
      BY <1>1, <1>2, <3>1, <3>3
    <3>5. Fragment' = 0 /\ Fragment = 1
      BY <2>2, <3>1 DEF Fragment
    <3>6. Cardinality(garbled') + Fragment' <= faults' /\ faults' \in Nat
      BY <1>2, <3>4, <3>5 DEF AuditStep
    <3>7. QED BY <3>1, <3>2, <3>6 DEF LossInv
  <2>3. QED BY <1>2, <2>1, <2>2
<1>6. QED
  BY <1>3, <1>4, <1>5 DEF AuditStep

(* Whatever appends fail or are cut short (append_audit), at most as many  *)
(* delivered events are unreadable as there were faults.                   *)
THEOREM LossesStayBounded == Spec => []LossesBounded
<1>1. Init => LossInv
  <2> SUFFICES ASSUME Init PROVE LossInv
    OBVIOUS
  <2>1. garbled = {} /\ torn = FALSE /\ faults = 0
    BY DEF Init
  <2>2. IsFiniteSet(garbled) /\ Cardinality(garbled) = 0
    BY <2>1, FS_EmptySet
  <2>3. Fragment = 0
    BY <2>1 DEF Fragment
  <2>4. QED BY <2>1, <2>2, <2>3 DEF LossInv
<1>2. IInv /\ LossInv /\ [Next]_vars => LossInv'
  BY NextAudits, AuditKeepsLosses
<1>3. IInv /\ LossInv => LossesBounded
  <2> SUFFICES ASSUME IInv, LossInv PROVE LossesBounded
    OBVIOUS
  <2>1. PICK L : L = (queued \ Elements(pending)) \ readable
    OBVIOUS
  <2>2. L \subseteq garbled
    BY <2>1 DEF IInv, NoEventLost, Delivering
  <2>3. /\ Cardinality(L) <= Cardinality(garbled) /\ Cardinality(L) \in Nat
        /\ Cardinality(garbled) \in Nat
    BY <2>2, FS_Subset, FS_CardinalityType DEF LossInv
  <2>4. Cardinality(L) + Fragment <= faults
    BY <2>3 DEF LossInv, Fragment
  <2>5. QED BY <2>1, <2>4 DEF LossesBounded, Fragment
<1>4. QED
  BY <1>1, <1>2, <1>3, Invariant, PTL DEF Spec

-----------------------------------------------------------------------------
(* Without fragments no line is ever glued to one.                         *)
CleanInv == torn = FALSE /\ garbled = {}

(* Without partial appends the log keeps only whole lines.                 *)
LEMMA NextClean == ~TornWrites /\ CleanInv /\ [Next]_vars => CleanInv'
<1> SUFFICES ASSUME ~TornWrites, CleanInv, [Next]_vars PROVE CleanInv'
  OBVIOUS
<1> USE DEF CleanInv, AppendLine, AppendPlain, AppendPart, audit
<1>1. CASE UNCHANGED vars
  BY <1>1 DEF vars
<1>2. ASSUME NEW a \in Actor, Drain(a) \/ DrainAppendFails(a) \/ DrainMarkFails(a)
      PROVE  CleanInv'
  BY <1>2 DEF Drain, DrainAppend, DrainMark, DrainMarkRefused, DrainEnds,
     DrainAppendFails, DrainMarkFails
<1>3. ASSUME NEW h \in Handler, Serve(h) PROVE CleanInv'
  BY <1>3 DEF Serve, Submit, SubmitFails, SubmitRefused, RegistryPatch, DirectAudit,
     DirectAuditFails, Report
<1>4. CASE Boot \/ BootDone \/ BootFails \/ Stop \/ Crash
  BY <1>4 DEF Boot, BootDone, BootFails, Stop, Crash
<1>5. QED
  BY <1>1, <1>2, <1>3, <1>4 DEF Next

(* When no append leaves a fragment behind, every event that is no longer  *)
(* pending can be read back from the audit file.                           *)
THEOREM ReadableWithoutFragments == ~TornWrites => (Spec => []DeliveredIsReadable)
<1> SUFFICES ASSUME ~TornWrites PROVE Spec => []DeliveredIsReadable
  OBVIOUS
<1>1. Init => CleanInv
  BY DEF Init, CleanInv
<1>2. CleanInv /\ [Next]_vars => CleanInv'
  BY NextClean
<1>3. CleanInv /\ NoEventLost => DeliveredIsReadable
  BY DEF CleanInv, NoEventLost, DeliveredIsReadable, Delivering
<1>4. QED
  BY <1>1, <1>2, <1>3, NothingLost, PTL DEF Spec

-----------------------------------------------------------------------------
(* Refinement: what each kind of step is in EventDelivery.                 *)
Settled == queued \ Elements(pending)
AbstractStep ==
  \/ UNCHANGED <<queued, Delivering, Settled>>
  \/ \E e \in Event :
       \/ /\ e \notin queued /\ queued' = queued \union {e}
          /\ UNCHANGED <<Delivering, Settled>>
       \/ /\ e \in queued \ Settled /\ Delivering' = Delivering \union {e}
          /\ UNCHANGED <<queued, Settled>>
       \/ /\ e \in Delivering \ Settled /\ Settled' = Settled \union {e}
          /\ UNCHANGED <<queued, Delivering>>

(* A queued event is a Want of EventDelivery.                              *)
LEMMA QueueIsWant ==
  ASSUME IInv, NEW e \in Event, e \notin queued, Queue(e), UNCHANGED audit
  PROVE  AbstractStep
<1>1. Elements(pending') = Elements(pending) \union {e}
  BY ElementsAppend DEF Queue, IInv, TypeOK
<1>2. queued' = queued \union {e} /\ Delivering' = Delivering /\ Settled' = Settled
  BY <1>1 DEF Queue, audit, Delivering, Settled
<1>3. QED
  BY <1>2 DEF AbstractStep

(* An appended line is a Send of EventDelivery.                            *)
LEMMA LineIsSend ==
  ASSUME IInv, pending # <<>>, AppendLine(Head(pending)), UNCHANGED <<pending, queued>>
  PROVE  AbstractStep
<1>1. Head(pending) \in Elements(pending) /\ Head(pending) \in Event
  BY ElementsTail DEF IInv, TypeOK
<1>2. Delivering' = Delivering \union {Head(pending)}
  BY <1>1, AppendLineFacts DEF IInv
<1>3. Head(pending) \in queued \ Settled /\ UNCHANGED <<queued, Settled>>
  BY <1>1 DEF IInv, HistoryInv, Settled
<1>4. QED
  BY <1>1, <1>2, <1>3 DEF AbstractStep

(* A DELIVERED mark is a Settle of EventDelivery.                          *)
LEMMA MarkIsSettle ==
  ASSUME IInv, ~LockFree, Mark, UNCHANGED <<audit, queued>>
  PROVE  AbstractStep
<1>1. pending # <<>> /\ Head(pending) \in Delivering
  BY DEF IInv, LockInv
<1>2. /\ Elements(pending) = {Head(pending)} \union Elements(pending')
      /\ Head(pending) \notin Elements(pending') /\ Head(pending) \in Event
  BY <1>1, MarkFacts DEF IInv, HistoryInv
<1>3. Settled' = Settled \union {Head(pending)} /\ Head(pending) \notin Settled
  BY <1>2 DEF Settled, IInv, HistoryInv
<1>4. Delivering' = Delivering
  BY DEF audit, Delivering
<1>5. QED
  BY <1>1, <1>2, <1>3, <1>4 DEF AbstractStep

(* A step that leaves what is sent and settled alone stutters.             *)
LEMMA SameIsStutter ==
  ASSUME UNCHANGED <<pending, queued, readable, garbled>>
  PROVE  AbstractStep
BY DEF AbstractStep, Delivering, Settled

(* Every step is a step of EventDelivery or a stutter.                     *)
LEMMA NextIsAbstract == IInv /\ [Next]_vars => AbstractStep
<1> SUFFICES ASSUME IInv, [Next]_vars PROVE AbstractStep
  OBVIOUS
<1> USE DEF registry, audit, session, history
<1>1. CASE UNCHANGED vars
  BY <1>1, SameIsStutter DEF vars
<1>2. ASSUME NEW a \in Actor, Drain(a) \/ DrainAppendFails(a) \/ DrainMarkFails(a)
      PROVE  AbstractStep
  <2>1. CASE DrainAppend(a)
    BY <2>1, LineIsSend DEF DrainAppend
  <2>2. CASE DrainMark(a)
    BY <2>2, MarkHolder, MarkIsSettle DEF DrainMark
  <2>3. CASE DrainMarkRefused(a) \/ DrainEnds(a)
    BY <2>3, SameIsStutter DEF DrainMarkRefused, DrainEnds
  <2>4. CASE DrainAppendFails(a)
    BY <2>4, LineIsSend, SameIsStutter DEF DrainAppendFails, AppendPart
  <2>5. CASE DrainMarkFails(a)
    BY <2>5, MarkHolder, MarkIsSettle, SameIsStutter DEF DrainMarkFails
  <2>6. QED
    BY <1>2, <2>1, <2>2, <2>3, <2>4, <2>5 DEF Drain
<1>3. ASSUME NEW h \in Handler, Serve(h) PROVE AbstractStep
  <2>1. ASSUME NEW e \in Event, Submit(h, e) \/ SubmitFails(h, e) PROVE AbstractStep
    BY <2>1, QueueIsWant, SameIsStutter DEF Submit, SubmitFails
  <2>2. CASE \/ SubmitRefused(h) \/ DirectAudit(h) \/ DirectAuditFails(h) \/ Report(h)
             \/ \E size \in OtherSizes : RegistryPatch(h, size)
    BY <2>2, SameIsStutter DEF SubmitRefused, DirectAudit, DirectAuditFails, Report,
       RegistryPatch, AppendPlain, AppendPart
  <2>3. QED
    BY <1>3, <2>1, <2>2 DEF Serve
<1>4. CASE Boot \/ BootDone \/ BootFails \/ Stop
  BY <1>4, SameIsStutter DEF Boot, BootDone, BootFails, Stop, AppendPlain, AppendPart
<1>5. CASE Crash
  BY <1>5, LineIsSend, MarkIsSettle, SameIsStutter DEF Crash, AppendPart
<1>6. QED
  BY <1>1, <1>2, <1>3, <1>4, <1>5 DEF Next

(* The outbox, its files, threads, failures and crashes implement the      *)
(* abstract delivery service.                                              *)
THEOREM Refinement == Spec => ImplementsDelivery
<1>1. Init => Delivery!Init
  BY DEF Init, Delivery!Init, Delivering, Elements
<1>2. AbstractStep => [Delivery!Next]_(Delivery!vars)
  BY DEF AbstractStep, Settled, Delivery!Next, Delivery!Want, Delivery!Send,
     Delivery!Settle, Delivery!vars
<1>3. IInv /\ [Next]_vars => [Delivery!Next]_(Delivery!vars)
  BY <1>2, NextIsAbstract
<1>4. QED
  BY <1>1, <1>3, Invariant, PTL DEF Spec, ImplementsDelivery, Delivery!Spec
=============================================================================
