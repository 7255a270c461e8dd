------------------------------ MODULE Soe_proofs ------------------------------
(***************************************************************************)
(* Proofs about the two WS-SOE machines.                                   *)
(*                                                                         *)
(* EffectReconciliation, for any intents, callers and number of            *)
(* exceptions: the inductive invariant SoeIInv, the safety properties, how *)
(* often an effect may be dispatched, and the refinement of                *)
(* ReconciledEffect.                                                       *)
(*                                                                         *)
(* ExecutionConformance, for any intents, decisions, runners and foreign   *)
(* observations: a row of executions keeps what execute checked when its   *)
(* call started, however late the commit was; a receipt over its           *)
(* observation was made after it, because an id not yet taken cannot stand *)
(* in a receipt; and the chain is made in the order of time.  With that    *)
(* the verdict on the executor's own trace has no branch left but MATCH    *)
(* and STALE.                                                              *)
(***************************************************************************)
EXTENDS EffectReconciliation, ExecutionConformance, FiniteSetTheorems, SequenceTheorems,
        Inductions, TLAPS

RowType == [state : RowStates, sealed : Nat]
CallType == [pc : CallPCs, intent : Intent \union {NoIntent}, read : RowStates, effect : Nat]

(* A sequence of one element.                                              *)
LEMMA LenOne == \A x : Len(<<x>>) = 1 /\ <<x>>[1] = x
OBVIOUS

(* The empty tables satisfy the inductive invariant.                       *)
LEMMA SoeInitIInv == SoeInit => SoeIInv
<1> SUFFICES ASSUME SoeInit PROVE SoeIInv
  OBVIOUS
<1>1. SoeTypeOK
  <2>1. Waiting \in CallType
    BY DEF Waiting, CallType, CallPCs, RowStates, NoEffect
  <2>2. \A S : << >> \in Seq(S)
    OBVIOUS
  <2>3. [state |-> "ABSENT", sealed |-> NoEffect] \in RowType
    BY DEF RowType, RowStates, NoEffect
  <2>4. trail \in [Intent -> Seq(TrailStates)] /\ operation \in [Intent -> RowType]
        /\ call \in [Caller -> CallType]
    BY <2>1, <2>2, <2>3 DEF SoeInit
  <2>5. QED BY <2>4, SoeAssumption
             DEF SoeInit, SoeTypeOK, RowType, CallType, NoEffect, InitialCounter
<1>2. Effective = {} /\ \A i \in Intent : Dispatches(i) = {} /\ Calling(i) = {}
  BY DEF SoeInit, Effective, Dispatches, Calling, Waiting
<1>3. EffectsCounted
  BY <1>2, FS_EmptySet DEF SoeInit, EffectsCounted, InitialCounter
<1>4. RequestsDispatched
  <2>1. \A i \in Intent : /\ sent[i] = 0 /\ Cardinality(Calling(i)) = 0
                         /\ Cardinality(Dispatches(i)) = 0
    BY <1>2, FS_EmptySet DEF SoeInit
  <2>2. QED BY <2>1 DEF RequestsDispatched
<1>5. /\ EffectsBelow /\ SealsTrue /\ DispatchesConfirmed /\ UncertainNotFailed
      /\ TrailMatches /\ TrailShape
  BY <1>2 DEF SoeInit, EffectsBelow, SealsTrue, DispatchesConfirmed, UncertainNotFailed,
              TrailMatches, TrailShape, State, NoEffect, InitialCounter
<1>6. CallsKnow
  BY DEF SoeInit, CallsKnow, Knows, Waiting
<1>7. QED BY <1>1, <1>3, <1>4, <1>5, <1>6 DEF SoeIInv

-----------------------------------------------------------------------------
(* Frames: what each part of the invariant reads.                          *)
LocalOK == /\ operation \in [Intent -> RowType] /\ trail \in [Intent -> Seq(TrailStates)]
           /\ SealsTrue /\ DispatchesConfirmed /\ UncertainNotFailed /\ TrailMatches /\ TrailShape

(* The part of the invariant that is about the ledger alone.               *)
LEMMA LocalFromIInv == SoeIInv => LocalOK
BY DEF SoeIInv, SoeTypeOK, LocalOK, RowType

(* The ledger stays fine while it does not change and effects only appear. *)
LEMMA LocalKept ==
  ASSUME LocalOK, UNCHANGED local,
         \A j \in Intent : effects[j] # NoEffect => effects'[j] = effects[j]
  PROVE  LocalOK'
<1>1. operation' = operation /\ trail' = trail
  BY DEF local
<1>2. \A j \in Effective : j \in Effective' /\ effects'[j] = effects[j]
  BY DEF Effective
<1>3. SealsTrue'
  BY <1>1, <1>2 DEF LocalOK, SealsTrue, State
<1>4. DispatchesConfirmed' /\ UncertainNotFailed'
  <2>1. DispatchesConfirmed'
    BY <1>1 DEF LocalOK, DispatchesConfirmed, Dispatches
  <2>2. UncertainNotFailed'
    BY <1>1, <1>2 DEF LocalOK, UncertainNotFailed
  <2>3. QED BY <2>1, <2>2
<1>5. TrailMatches' /\ TrailShape'
  BY <1>1 DEF LocalOK, TrailMatches, TrailShape, State
<1>6. QED BY <1>1, <1>3, <1>4, <1>5 DEF LocalOK

(* What one transition of a row does to the ledger.                        *)
LEMMA Moved ==
  ASSUME LocalOK, NEW i \in Intent, NEW s \in TrailStates \intersect RowStates, Move(i, s)
  PROVE  /\ operation' \in [Intent -> RowType] /\ trail' \in [Intent -> Seq(TrailStates)]
         /\ State(i)' = s /\ operation'[i].sealed = operation[i].sealed
         /\ \A j \in Intent \ {i} : operation'[j] = operation[j] /\ trail'[j] = trail[j]
         /\ Len(trail[i]) \in Nat /\ Len(trail'[i]) = Len(trail[i]) + 1
         /\ trail'[i][Len(trail[i]) + 1] = s
         /\ \A k \in 1..Len(trail[i]) : trail'[i][k] = trail[i][k]
<1>1. trail[i] \in Seq(TrailStates) /\ operation[i] \in RowType
  BY DEF LocalOK
<1>2. trail'[i] = Append(trail[i], s) /\ \A j \in Intent \ {i} : trail'[j] = trail[j]
  BY DEF LocalOK, Move
<1>3. Append(trail[i], s) \in Seq(TrailStates)
  BY <1>1
<1>4. trail' \in [Intent -> Seq(TrailStates)]
  BY <1>3 DEF LocalOK, Move
<1>5. /\ operation' \in [Intent -> RowType]
      /\ State(i)' = s /\ operation'[i].sealed = operation[i].sealed
      /\ \A j \in Intent \ {i} : operation'[j] = operation[j]
  BY <1>1 DEF LocalOK, Move, State, RowType
<1>6. QED BY <1>1, <1>2, <1>4, <1>5

(* The transitions of the coordinator keep the ledger in order.            *)
LEMMA MoveKeeps ==
  ASSUME LocalOK, NEW i \in Intent, NEW s \in TrailStates \intersect RowStates, Move(i, s),
         UNCHANGED effects,
         \/ s = "PREPARED" /\ State(i) = "ABSENT"
         \/ s = "DISPATCHING" /\ State(i) \in {"PREPARED", "NO_EFFECT_CONFIRMED"}
         \/ s = "UNCERTAIN" /\ State(i) = "DISPATCHING" /\ i \in Effective
         \/ s = "NO_EFFECT_CONFIRMED" /\ State(i) = "DISPATCHING"
  PROVE  LocalOK'
<1> DEFINE t == trail[i]
           n == Len(t)
<1>1. /\ State(i)' = s /\ operation'[i].sealed = operation[i].sealed
      /\ \A j \in Intent \ {i} : operation'[j] = operation[j] /\ trail'[j] = trail[j]
      /\ n \in Nat /\ Len(trail'[i]) = n + 1 /\ trail'[i][n + 1] = s
      /\ \A k \in 1..n : trail'[i][k] = t[k]
  BY Moved
<1>2. Effective' = Effective
  BY DEF Effective
<1>3. /\ State(i) = IF t = << >> THEN "ABSENT" ELSE t[n]
      /\ \A k \in 1..n : t[k] = "SEALED" => k = n
      /\ State(i) = "PREPARED" => t = <<"PREPARED">>
      /\ \A k \in 1..n : t[k] = "UNCERTAIN" => k = n \/ State(i) = "SEALED"
      /\ t \in Seq(TrailStates)
  BY DEF LocalOK, TrailMatches, TrailShape
<1>4. t # << >> => n \in 1..n /\ State(i) = t[n]
  BY <1>1, <1>3
<1>5. /\ State(i) # "SEALED" /\ s # "SEALED"
      /\ \A k \in 1..n : t[k] # "SEALED" /\ t[k] # "UNCERTAIN"
  <2>1. State(i) # "SEALED" /\ State(i) # "UNCERTAIN" /\ s # "SEALED"
    OBVIOUS
  <2>2. \A k \in 1..n : t[k] # "SEALED" /\ t[k] # "UNCERTAIN"
    BY <1>1, <1>3, <1>4, <2>1
  <2>3. QED BY <2>1, <2>2
<1>6. SealsTrue'
  BY <1>1, <1>2, <1>5 DEF LocalOK, SealsTrue, State
<1>7. TrailMatches'
  <2> SUFFICES ASSUME NEW j \in Intent
               PROVE  /\ State(j)' = IF trail'[j] = << >> THEN "ABSENT" ELSE trail'[j][Len(trail'[j])]
                      /\ \A k \in 1..Len(trail'[j]) : trail'[j][k] = "SEALED" => k = Len(trail'[j])
    BY DEF TrailMatches
  <2>1. CASE j = i
    <3>1. trail'[i] # << >>
      BY <1>1
    <3>2. \A k \in 1..(n + 1) : trail'[i][k] = "SEALED" => k = n + 1
      BY <1>1, <1>5
    <3>3. QED BY <1>1, <2>1, <3>1, <3>2
  <2>2. CASE j # i
    BY <1>1, <2>2 DEF LocalOK, TrailMatches, State
  <2>3. QED BY <2>1, <2>2
<1>8. TrailShape'
  <2> SUFFICES ASSUME NEW j \in Intent
               PROVE  /\ State(j)' = "PREPARED" => trail'[j] = <<"PREPARED">>
                      /\ \A k \in 1..Len(trail'[j]) : trail'[j][k] = "UNCERTAIN" =>
                           k = Len(trail'[j]) \/ State(j)' = "SEALED"
    BY DEF TrailShape
  <2>1. CASE j = i
    <3>1. s = "PREPARED" => trail'[i] = <<"PREPARED">>
      <4>1. ASSUME s = "PREPARED" PROVE trail'[i] = <<"PREPARED">>
        <5>1. State(i) = "ABSENT"
          BY <4>1
        <5>2. t = << >>
          BY <1>3, <1>4, <5>1 DEF TrailStates, RowStates
        <5>3. trail'[i] = Append(<< >>, "PREPARED")
          BY <4>1, <5>2 DEF Move, LocalOK
        <5>4. QED BY <5>3
      <4>2. QED BY <4>1
    <3>2. \A k \in 1..(n + 1) : trail'[i][k] = "UNCERTAIN" => k = n + 1
      BY <1>1, <1>5, SMTT(30)
    <3>3. QED BY <1>1, <2>1, <3>1, <3>2
  <2>2. CASE j # i
    BY <1>1, <2>2 DEF LocalOK, TrailShape, State
  <2>3. QED BY <2>1, <2>2
<1>9. DispatchesConfirmed'
  <2> SUFFICES ASSUME NEW j \in Intent, NEW k \in Dispatches(j)'
               PROVE  k = 2 \/ (k > 2 /\ trail'[j][k-1] = "NO_EFFECT_CONFIRMED")
    BY DEF DispatchesConfirmed
  <2>1. k \in 1..Len(trail'[j]) /\ trail'[j][k] = "DISPATCHING"
    BY DEF Dispatches
  <2>2. CASE j # i
    <3>1. trail'[j] = trail[j]
      BY <1>1, <2>2
    <3>2. k \in Dispatches(j)
      BY <2>1, <3>1 DEF Dispatches
    <3>3. QED BY <3>1, <3>2 DEF LocalOK, DispatchesConfirmed
  <2>3. CASE j = i /\ k \in 1..n
    <3>1. k \in Dispatches(i)
      BY <1>1, <2>1, <2>3 DEF Dispatches
    <3>2. k = 2 \/ (k > 2 /\ t[k-1] = "NO_EFFECT_CONFIRMED")
      BY <3>1 DEF LocalOK, DispatchesConfirmed
    <3>3. k > 2 => k - 1 \in 1..n
      BY <1>1, <2>3
    <3>4. QED BY <1>1, <2>3, <3>2, <3>3
  <2>4. CASE j = i /\ k = n + 1
    <3>1. s = "DISPATCHING"
      BY <1>1, <2>1, <2>4
    <3>2. CASE State(i) = "PREPARED"
      <4>1. n = 1
        BY <1>3, <3>2, LenOne
      <4>2. QED BY <2>4, <4>1
    <3>3. CASE State(i) = "NO_EFFECT_CONFIRMED"
      <4>1. n > 0 /\ t[n] = "NO_EFFECT_CONFIRMED"
        BY <1>3, <1>4, <3>3
      <4>2. QED BY <1>1, <2>4, <4>1
    <3>4. QED BY <3>1, <3>2, <3>3
  <2>5. QED BY <1>1, <2>1, <2>2, <2>3, <2>4
<1>10. UncertainNotFailed'
  <2> SUFFICES ASSUME NEW j \in Intent, NEW k \in 1..Len(trail'[j]), trail'[j][k] = "UNCERTAIN"
               PROVE  /\ j \in Effective
                      /\ \A m \in k..Len(trail'[j]) : trail'[j][m] # "NO_EFFECT_CONFIRMED"
    BY <1>2 DEF UncertainNotFailed
  <2>1. CASE j # i
    BY <1>1, <2>1 DEF LocalOK, UncertainNotFailed
  <2>2. CASE j = i
    <3>1. k = n + 1 /\ s = "UNCERTAIN"
      BY <1>1, <1>5, <2>2
    <3>2. QED BY <1>1, <2>2, <3>1
  <2>3. QED BY <2>1, <2>2
<1>11. QED BY <1>6, <1>7, <1>8, <1>9, <1>10, Moved DEF LocalOK

(* A seal extends a history that nobody else has closed.                   *)
LEMMA SealKeeps ==
  ASSUME LocalOK, NEW i \in Intent, NEW e \in Nat,
         State(i) \in {"DISPATCHING", "UNCERTAIN"}, i \in Effective, e = effects[i],
         UNCHANGED effects,
         operation' = [operation EXCEPT ![i] = [state |-> "SEALED", sealed |-> e]],
         trail' = [trail EXCEPT ![i] = @ \o <<"EFFECT_OBSERVED", "RECONCILED", "SEALED">>]
  PROVE  LocalOK' /\ \A j \in Intent : Dispatches(j)' = Dispatches(j)
<1> DEFINE t == trail[i]
           n == Len(t)
           u == <<"EFFECT_OBSERVED", "RECONCILED", "SEALED">>
<1>1. t \in Seq(TrailStates) /\ u \in Seq(TrailStates) /\ n \in Nat
  BY DEF LocalOK, TrailStates, RowStates
<1>2. /\ trail'[i] = t \o u /\ t \o u \in Seq(TrailStates)
      /\ \A j \in Intent \ {i} : trail'[j] = trail[j] /\ operation'[j] = operation[j]
  BY <1>1 DEF LocalOK
<1>3. /\ Len(trail'[i]) = n + 3
      /\ \A k \in 1..n : trail'[i][k] = t[k]
      /\ trail'[i][n+1] = "EFFECT_OBSERVED" /\ trail'[i][n+2] = "RECONCILED"
      /\ trail'[i][n+3] = "SEALED"
  BY <1>1, <1>2
<1>4. /\ operation' \in [Intent -> RowType] /\ trail' \in [Intent -> Seq(TrailStates)]
      /\ State(i)' = "SEALED" /\ operation'[i].sealed = e
  BY <1>2 DEF LocalOK, RowType, RowStates, State
<1>5. Effective' = Effective
  BY DEF Effective
<1>6. /\ \A k \in 1..n : t[k] = "SEALED" => k = n
      /\ State(i) = IF t = << >> THEN "ABSENT" ELSE t[n]
  BY DEF LocalOK, TrailMatches
<1>7. \A k \in 1..n : t[k] # "SEALED"
  BY <1>1, <1>6
<1>8. \A j \in Intent : Dispatches(j)' = Dispatches(j)
  <2>1. Dispatches(i)' = Dispatches(i)
    <3>1. \A k \in 1..(n+3) : trail'[i][k] = "DISPATCHING" <=> k \in 1..n /\ t[k] = "DISPATCHING"
      BY <1>1, <1>3
    <3>2. QED BY <1>1, <1>3, <3>1 DEF Dispatches
  <2>2. QED BY <1>2, <2>1 DEF Dispatches
<1>9. SealsTrue'
  BY <1>2, <1>4, <1>5 DEF LocalOK, SealsTrue, State
<1>10. TrailMatches'
  <2>1. trail'[i] # << >> /\ trail'[i][Len(trail'[i])] = "SEALED"
    BY <1>1, <1>3
  <2>2. \A k \in 1..Len(trail'[i]) : trail'[i][k] = "SEALED" => k = Len(trail'[i])
    BY <1>1, <1>3, <1>7
  <2>3. QED BY <1>2, <1>4, <2>1, <2>2 DEF LocalOK, TrailMatches, State
<1>11. TrailShape'
  BY <1>2, <1>4 DEF LocalOK, TrailShape, State
<1>12. DispatchesConfirmed'
  <2> SUFFICES ASSUME NEW j \in Intent, NEW k \in Dispatches(j)
               PROVE  k = 2 \/ (k > 2 /\ trail'[j][k-1] = "NO_EFFECT_CONFIRMED")
    BY <1>8 DEF DispatchesConfirmed
  <2>1. k = 2 \/ (k > 2 /\ trail[j][k-1] = "NO_EFFECT_CONFIRMED")
    BY DEF LocalOK, DispatchesConfirmed
  <2>2. CASE j = i
    <3>1. k \in 1..n
      BY <2>2 DEF Dispatches
    <3>2. k > 2 => k - 1 \in 1..n
      BY <1>1, <3>1
    <3>3. QED BY <1>3, <2>1, <2>2, <3>2
  <2>3. QED BY <1>2, <2>1, <2>2
<1>13. UncertainNotFailed'
  <2> SUFFICES ASSUME NEW j \in Intent, NEW k \in 1..Len(trail'[j]), trail'[j][k] = "UNCERTAIN"
               PROVE  /\ j \in Effective
                      /\ \A m \in k..Len(trail'[j]) : trail'[j][m] # "NO_EFFECT_CONFIRMED"
    BY <1>5 DEF UncertainNotFailed
  <2>1. CASE j # i
    BY <1>2, <2>1 DEF LocalOK, UncertainNotFailed
  <2>2. CASE j = i
    <3>1. k \in 1..n /\ t[k] = "UNCERTAIN"
      BY <1>1, <1>3, <2>2
    <3>2. \A m \in k..n : t[m] # "NO_EFFECT_CONFIRMED"
      BY <3>1 DEF LocalOK, UncertainNotFailed
    <3>3. \A m \in k..(n+3) : trail'[i][m] # "NO_EFFECT_CONFIRMED"
      BY <1>1, <1>3, <3>1, <3>2, SMTT(30)
    <3>4. QED BY <1>3, <2>2, <3>3
  <2>3. QED BY <2>1, <2>2
<1>14. QED BY <1>4, <1>8, <1>9, <1>10, <1>11, <1>12, <1>13 DEF LocalOK

-----------------------------------------------------------------------------
(* Counting.                                                               *)
LEMMA CountsTyped ==
  ASSUME SoeTypeOK, NEW i \in Intent
  PROVE  /\ IsFiniteSet(Calling(i)) /\ IsFiniteSet(Dispatches(i))
         /\ Cardinality(Calling(i)) \in Nat /\ Cardinality(Dispatches(i)) \in Nat
<1>1. IsFiniteSet(Calling(i))
  BY SoeAssumption, FS_Subset DEF Calling
<1>2. Len(trail[i]) \in Nat
  BY DEF SoeTypeOK
<1>3. IsFiniteSet(1..Len(trail[i]))
  BY <1>2, FS_Interval
<1>4. IsFiniteSet(Dispatches(i))
  BY <1>3, FS_Subset DEF Dispatches
<1>5. QED BY <1>1, <1>4, FS_CardinalityType

(* A step of a caller changes at most its own place.                       *)
LEMMA EnterCounts ==
  ASSUME SoeTypeOK, NEW c \in Caller, NEW w, Enter(c, w), NEW i \in Intent
  PROVE  /\ Cardinality(Calling(i)') <= Cardinality(Calling(i)) + 1
         /\ (w.pc # "calling" \/ w.intent # i) =>
              Cardinality(Calling(i)') <= Cardinality(Calling(i))
         /\ w.pc # "calling" /\ c \in Calling(i) =>
              Cardinality(Calling(i)') = Cardinality(Calling(i)) - 1
         /\ Cardinality(Calling(i)') \in Nat
<1>1. call'[c] = w /\ \A d \in Caller \ {c} : call'[d] = call[d]
  BY DEF SoeTypeOK, Enter
<1>2. PICK Q, R : Q = Calling(i) /\ R = Calling(i)'
  OBVIOUS
<1>3. IsFiniteSet(Q) /\ Cardinality(Q) \in Nat
  BY <1>2, CountsTyped
<1>4. R \subseteq Q \union {c}
  BY <1>1, <1>2 DEF Calling
<1>5. /\ IsFiniteSet(Q \union {c})
      /\ Cardinality(Q \union {c}) <= Cardinality(Q) + 1 /\ Cardinality(Q \union {c}) \in Nat
  <2>1. IsFiniteSet(Q \union {c})
    BY <1>3, FS_AddElement
  <2>2. Cardinality(Q \union {c}) = Cardinality(Q) \/ Cardinality(Q \union {c}) = Cardinality(Q) + 1
    BY <1>3, FS_AddElement
  <2>3. QED BY <1>3, <2>1, <2>2, FS_CardinalityType
<1>6. Cardinality(R) \in Nat /\ Cardinality(R) <= Cardinality(Q) + 1
  BY <1>3, <1>4, <1>5, FS_Subset, FS_CardinalityType
<1>7. ASSUME w.pc # "calling" \/ w.intent # i PROVE Cardinality(R) <= Cardinality(Q)
  <2>1. R \subseteq Q
    BY <1>1, <1>2, <1>7 DEF Calling
  <2>2. QED BY <1>3, <2>1, FS_Subset
<1>8. ASSUME w.pc # "calling", c \in Q PROVE Cardinality(R) = Cardinality(Q) - 1
  <2>1. R = Q \ {c}
    BY <1>1, <1>2, <1>8 DEF Calling
  <2>2. QED BY <1>3, <1>8, <2>1, FS_RemoveElement
<1>9. QED BY <1>2, <1>6, <1>7, <1>8

(* A transition of a row adds a dispatch exactly when it is one.           *)
LEMMA MoveCounts ==
  ASSUME SoeTypeOK, LocalOK, NEW i \in Intent, NEW s \in TrailStates \intersect RowStates, Move(i, s)
  PROVE  /\ \A j \in Intent \ {i} : Dispatches(j)' = Dispatches(j)
         /\ s # "DISPATCHING" => Dispatches(i)' = Dispatches(i)
         /\ s = "DISPATCHING" => Cardinality(Dispatches(i)') = Cardinality(Dispatches(i)) + 1
<1>1. \A j \in Intent \ {i} : Dispatches(j)' = Dispatches(j)
  BY Moved DEF Dispatches
<1>2. PICK Q, R, n : Q = Dispatches(i) /\ R = Dispatches(i)' /\ n = Len(trail[i])
  OBVIOUS
<1>3. n \in Nat /\ Q \subseteq 1..n
  BY <1>2, Moved DEF Dispatches
<1>4. s # "DISPATCHING" => R = Q
  BY <1>2, Moved DEF Dispatches
<1>5. s = "DISPATCHING" => R = Q \union {n + 1}
  BY <1>2, Moved DEF Dispatches
<1>6. n + 1 \notin Q /\ IsFiniteSet(Q) /\ Cardinality(Q) \in Nat
  BY <1>2, <1>3, CountsTyped
<1>7. s = "DISPATCHING" => Cardinality(R) = Cardinality(Q) + 1
  BY <1>5, <1>6, FS_AddElement
<1>8. QED BY <1>1, <1>2, <1>4, <1>7

(* What a caller knows stays true: effects only appear.                    *)
LEMMA KnowledgeStays ==
  ASSUME SoeIInv, NEW c \in Caller, NEW w \in CallType, Enter(c, w), Knows(w)',
         \A j \in Intent : effects[j] # NoEffect => effects'[j] = effects[j]
  PROVE  CallsKnow' /\ call' \in [Caller -> CallType]
<1>1. call \in [Caller -> CallType]
  BY DEF SoeIInv, SoeTypeOK, CallType
<1>2. call'[c] = w /\ \A d \in Caller \ {c} : call'[d] = call[d]
  BY <1>1 DEF Enter
<1>3. call' \in [Caller -> CallType]
  BY <1>1 DEF Enter
<1>4. \A j \in Effective : j \in Effective' /\ effects'[j] = effects[j]
  BY DEF Effective
<1>5. ASSUME NEW d \in Caller, NEW v, v = call[d], Knows(v) PROVE Knows(v)'
  BY <1>4, <1>5 DEF Knows
<1>6. ASSUME NEW d \in Caller, NEW v, v = call'[d] PROVE Knows(v)'
  <2>1. CASE d = c
    BY <1>2, <1>6, <2>1
  <2>2. CASE d # c
    <3>1. v = call[d] /\ Knows(v)
      BY <1>2, <1>6, <2>2 DEF SoeIInv, CallsKnow
    <3>2. QED BY <1>5, <3>1
  <2>3. QED BY <2>1, <2>2
<1>7. QED BY <1>3, <1>6 DEF CallsKnow, Knows

-----------------------------------------------------------------------------
(* The steps.                                                              *)
LEMMA CallTyped ==
  ASSUME SoeIInv, NEW c \in Caller
  PROVE  /\ call[c] \in CallType /\ Knows(call[c])
         /\ Waiting \in CallType /\ Knows(Waiting)
<1>1. call[c] \in CallType
  BY DEF SoeIInv, SoeTypeOK, CallType
<1>2. Knows(call[c])
  BY DEF SoeIInv, CallsKnow
<1>3. Waiting \in CallType /\ Knows(Waiting)
  BY DEF Waiting, CallType, CallPCs, RowStates, NoEffect, Knows
<1>4. QED BY <1>1, <1>2, <1>3

(* Steps that touch only the caller's place.                               *)
LEMMA QuietStep ==
  ASSUME SoeIInv, NEW c \in Caller, NEW w \in CallType, Enter(c, w),
         w.pc # "calling", Knows(w), UNCHANGED <<local, external>>,
         exceptions' \in 0..MaxExceptions
  PROVE  SoeIInv'
<1>1. UNCHANGED <<operation, trail, counter, effects, sent>>
  BY DEF local, external
<1>2. Knows(w)'
  BY <1>1 DEF Knows, Effective
<1>3. CallsKnow' /\ call' \in [Caller -> CallType]
  BY <1>1, <1>2, KnowledgeStays
<1>4. LocalOK'
  BY <1>1, LocalFromIInv, LocalKept
<1>5. RequestsDispatched'
  <2> SUFFICES ASSUME NEW i \in Intent
               PROVE  sent'[i] + Cardinality(Calling(i)') <= Cardinality(Dispatches(i)')
    BY DEF RequestsDispatched
  <2>1. sent[i] + Cardinality(Calling(i)) <= Cardinality(Dispatches(i)) /\ sent[i] \in Nat
    BY DEF SoeIInv, RequestsDispatched, SoeTypeOK
  <2>2. Cardinality(Calling(i)') <= Cardinality(Calling(i)) /\ Cardinality(Calling(i)') \in Nat
    BY EnterCounts DEF SoeIInv
  <2>3. Dispatches(i)' = Dispatches(i)
    BY <1>1 DEF Dispatches
  <2>4. Cardinality(Calling(i)) \in Nat /\ Cardinality(Dispatches(i)) \in Nat
    BY CountsTyped DEF SoeIInv
  <2>5. QED BY <1>1, <2>1, <2>2, <2>3, <2>4
<1>6. EffectsCounted' /\ EffectsBelow'
  BY <1>1 DEF SoeIInv, EffectsCounted, EffectsBelow, Effective
<1>7. SoeTypeOK'
  BY <1>1, <1>3 DEF SoeIInv, SoeTypeOK, CallType
<1>8. QED BY <1>3, <1>4, <1>5, <1>6, <1>7 DEF SoeIInv, LocalOK

(* Steps that make one transition of a row.                                *)
LEMMA MoveStep ==
  ASSUME SoeIInv, NEW c \in Caller, NEW w \in CallType, Enter(c, w),
         NEW i \in Intent, NEW s \in TrailStates \intersect RowStates, Move(i, s),
         w.pc = "calling" => s = "DISPATCHING" /\ w.intent = i,
         Knows(w), UNCHANGED <<external, exceptions>>, LocalOK'
  PROVE  SoeIInv'
<1>1. UNCHANGED <<counter, effects, sent, exceptions>>
  BY DEF external
<1>2. Knows(w)'
  BY <1>1 DEF Knows, Effective
<1>3. CallsKnow' /\ call' \in [Caller -> CallType]
  BY <1>1, <1>2, KnowledgeStays
<1>4. LocalOK
  BY LocalFromIInv
<1>5. RequestsDispatched'
  <2> SUFFICES ASSUME NEW j \in Intent
               PROVE  sent'[j] + Cardinality(Calling(j)') <= Cardinality(Dispatches(j)')
    BY DEF RequestsDispatched
  <2>1. sent[j] + Cardinality(Calling(j)) <= Cardinality(Dispatches(j)) /\ sent[j] \in Nat
    BY DEF SoeIInv, RequestsDispatched, SoeTypeOK
  <2>2. Cardinality(Calling(j)) \in Nat /\ Cardinality(Dispatches(j)) \in Nat
        /\ Cardinality(Calling(j)') \in Nat
    BY CountsTyped, EnterCounts DEF SoeIInv
  <2>3. SoeTypeOK
    BY DEF SoeIInv
  <2>4. CASE w.pc = "calling" /\ j = i
    <3>1. Cardinality(Calling(j)') <= Cardinality(Calling(j)) + 1
      BY <2>3, EnterCounts
    <3>2. Cardinality(Dispatches(j)') = Cardinality(Dispatches(j)) + 1
      BY <1>4, <2>3, <2>4, MoveCounts
    <3>3. QED BY <1>1, <2>1, <2>2, <3>1, <3>2
  <2>5. CASE ~(w.pc = "calling" /\ j = i)
    <3>1. Cardinality(Calling(j)') <= Cardinality(Calling(j))
      BY <2>3, <2>5, EnterCounts
    <3>2. \/ Cardinality(Dispatches(j)') = Cardinality(Dispatches(j))
          \/ Cardinality(Dispatches(j)') = Cardinality(Dispatches(j)) + 1
      BY <1>4, <2>3, MoveCounts
    <3>3. QED BY <1>1, <2>1, <2>2, <3>1, <3>2
  <2>6. QED BY <2>4, <2>5
<1>6. EffectsCounted' /\ EffectsBelow'
  BY <1>1 DEF SoeIInv, EffectsCounted, EffectsBelow, Effective
<1>7. SoeTypeOK'
  BY <1>1, <1>3 DEF SoeIInv, SoeTypeOK, CallType, LocalOK, RowType
<1>8. QED BY <1>3, <1>5, <1>6, <1>7 DEF SoeIInv, LocalOK

(* A call that starts reads the row and may move it.                       *)
LEMMA PrepareSteps ==
  ASSUME SoeIInv, NEW c \in Caller, NEW i \in Intent,
         Prepare(c, i) \/ Redispatch(c, i) \/ Reconcile(c, i)
  PROVE  SoeIInv'
<1>1. LocalOK /\ State(i) \in RowStates
  BY LocalFromIInv DEF SoeIInv, SoeTypeOK, State
<1>2. CASE Prepare(c, i)
  <2>1. PICK w : w = [pc |-> "prepared", intent |-> i, read |-> State(i), effect |-> NoEffect]
    OBVIOUS
  <2>2. w \in CallType /\ Knows(w) /\ w.pc = "prepared" /\ Enter(c, w)
    BY <1>1, <1>2, <2>1 DEF Prepare, Begin, CallType, CallPCs, NoEffect, Knows
  <2>3. "PREPARED" \in TrailStates \intersect RowStates /\ Move(i, "PREPARED") /\ State(i) = "ABSENT"
        /\ UNCHANGED <<external, exceptions>> /\ UNCHANGED effects
    BY <1>2 DEF Prepare, TrailStates, RowStates, external
  <2>4. LocalOK'
    BY <1>1, <2>3, MoveKeeps
  <2>5. QED BY <2>2, <2>3, <2>4, MoveStep
<1>3. CASE Redispatch(c, i)
  <2>1. PICK w : w = [pc |-> "calling", intent |-> i, read |-> State(i), effect |-> NoEffect]
    OBVIOUS
  <2>2. w \in CallType /\ Knows(w) /\ w.pc = "calling" /\ w.intent = i /\ Enter(c, w)
    BY <1>1, <1>3, <2>1 DEF Redispatch, Begin, CallType, CallPCs, NoEffect, Knows
  <2>3. "DISPATCHING" \in TrailStates \intersect RowStates /\ Move(i, "DISPATCHING")
        /\ State(i) = "NO_EFFECT_CONFIRMED"
        /\ UNCHANGED <<external, exceptions>> /\ UNCHANGED effects
    BY <1>3 DEF Redispatch, TrailStates, RowStates, external
  <2>4. LocalOK'
    BY <1>1, <2>3, MoveKeeps
  <2>5. QED BY <2>2, <2>3, <2>4, MoveStep
<1>4. CASE Reconcile(c, i)
  <2>1. PICK w : w = [pc |-> "looking", intent |-> i, read |-> State(i), effect |-> NoEffect]
    OBVIOUS
  <2>2. State(i) = "UNCERTAIN" => i \in Effective
    <3>1. ASSUME State(i) = "UNCERTAIN" PROVE i \in Effective
      <4>1. trail[i] # << >> /\ trail[i][Len(trail[i])] = "UNCERTAIN" /\ trail[i] \in Seq(TrailStates)
        BY <1>1, <3>1 DEF LocalOK, TrailMatches
      <4>2. Len(trail[i]) \in 1..Len(trail[i])
        BY <4>1
      <4>3. QED BY <1>1, <4>1, <4>2 DEF LocalOK, UncertainNotFailed
    <3>2. QED BY <3>1
  <2>3. w \in CallType /\ Knows(w) /\ w.pc = "looking" /\ Enter(c, w)
    BY <1>1, <1>4, <2>1, <2>2 DEF Reconcile, Begin, CallType, CallPCs, NoEffect, Knows
  <2>4. UNCHANGED <<local, external>> /\ exceptions' \in 0..MaxExceptions
    BY <1>4 DEF Reconcile, SoeIInv, SoeTypeOK
  <2>5. QED BY <2>3, <2>4, QuietStep
<1>5. QED BY <1>2, <1>3, <1>4

(* A dispatch is recorded by the call that prepared the intent.            *)
LEMMA DispatchStep ==
  ASSUME SoeIInv, NEW c \in Caller, Dispatch(c)
  PROVE  SoeIInv'
<1>1. PICK i, w : i = call[c].intent /\ w = [call[c] EXCEPT !.pc = "calling"]
  OBVIOUS
<1>2. i \in Intent /\ w \in CallType /\ Knows(w) /\ w.pc = "calling" /\ w.intent = i
  BY <1>1, CallTyped DEF Dispatch, Knows, CallType, CallPCs
<1>3. /\ "DISPATCHING" \in TrailStates \intersect RowStates /\ Move(i, "DISPATCHING")
      /\ State(i) = "PREPARED" /\ Enter(c, w)
      /\ UNCHANGED <<external, exceptions>> /\ UNCHANGED effects
  BY <1>1 DEF Dispatch, To, TrailStates, RowStates, external
<1>4. LocalOK /\ LocalOK'
  BY <1>2, <1>3, LocalFromIInv, MoveKeeps
<1>5. QED BY <1>2, <1>3, <1>4, MoveStep

(* A caller that ends its call with at most one transition of its row.     *)
LEMMA LeaveStep ==
  ASSUME SoeIInv, NEW c \in Caller, Uncertain(c) \/ ConfirmNoEffect(c)
  PROVE  SoeIInv'
<1>1. PICK i : i = call[c].intent
  OBVIOUS
<1>2. /\ i \in Intent /\ Waiting \in CallType /\ Knows(Waiting) /\ Waiting.pc # "calling"
      /\ Enter(c, Waiting) /\ UNCHANGED <<external, exceptions>> /\ UNCHANGED effects
  BY <1>1, CallTyped DEF Uncertain, ConfirmNoEffect, Leave, Knows, Waiting, external
<1>3. CASE UNCHANGED local
  <2>1. exceptions' \in 0..MaxExceptions /\ UNCHANGED <<local, external>>
    BY <1>2, <1>3 DEF SoeIInv, SoeTypeOK
  <2>2. QED BY <1>2, <2>1, QuietStep
<1>4. CASE /\ Uncertain(c) /\ State(i) = "DISPATCHING" /\ Move(i, "UNCERTAIN")
  <2>1. i \in Effective /\ "UNCERTAIN" \in TrailStates \intersect RowStates
    BY <1>1, <1>4, CallTyped DEF Uncertain, Knows, TrailStates, RowStates
  <2>2. LocalOK'
    BY <1>2, <1>4, <2>1, LocalFromIInv, MoveKeeps
  <2>3. QED BY <1>2, <1>4, <2>1, <2>2, MoveStep
<1>5. CASE /\ ConfirmNoEffect(c) /\ State(i) = call[c].read /\ Move(i, "NO_EFFECT_CONFIRMED")
  <2>1. State(i) = "DISPATCHING" /\ "NO_EFFECT_CONFIRMED" \in TrailStates \intersect RowStates
    BY <1>1, <1>5, CallTyped DEF ConfirmNoEffect, Knows, TrailStates, RowStates
  <2>2. LocalOK'
    BY <1>2, <1>5, <2>1, LocalFromIInv, MoveKeeps
  <2>3. QED BY <1>2, <1>5, <2>1, <2>2, MoveStep
<1>6. QED BY <1>1, <1>3, <1>4, <1>5 DEF Uncertain, ConfirmNoEffect

(* What the service answers a lookup is its effect, and an intent without  *)
(* one was not UNCERTAIN when it was read.                                 *)
LEMMA LookupStep ==
  ASSUME SoeIInv, NEW c \in Caller, Lookup(c)
  PROVE  SoeIInv'
<1>1. PICK i, e : i = call[c].intent /\ e = effects[i]
  OBVIOUS
<1>2. PICK w : w = [call[c] EXCEPT !.pc = IF e = NoEffect THEN "absent" ELSE "sealing", !.effect = e]
  OBVIOUS
<1>3. call[c].pc = "looking" /\ Enter(c, w) /\ UNCHANGED <<local, external, exceptions>>
  BY <1>1, <1>2 DEF Lookup
<1>4. call[c] \in CallType /\ Knows(call[c]) /\ i \in Intent
  BY <1>1, <1>3, CallTyped DEF Knows
<1>5. e \in Nat
  BY <1>1, <1>4 DEF SoeIInv, SoeTypeOK
<1>6. e # NoEffect <=> i \in Effective
  BY <1>1, <1>4 DEF Effective
<1>7. w \in CallType /\ w.pc # "calling"
  BY <1>2, <1>4, <1>5 DEF CallType, CallPCs
<1>8. Knows(w)
  BY <1>1, <1>2, <1>3, <1>4, <1>6 DEF Knows, CallType
<1>9. UNCHANGED <<local, external>> /\ exceptions' \in 0..MaxExceptions
  BY <1>3 DEF SoeIInv, SoeTypeOK
<1>10. QED BY <1>3, <1>7, <1>8, <1>9, QuietStep

(* A caller that raises or dies leaves the tables as they are.             *)
LEMMA RaiseStep ==
  ASSUME SoeIInv, NEW c \in Caller, Raise(c)
  PROVE  SoeIInv'
<1>1. Waiting \in CallType /\ Knows(Waiting) /\ Waiting.pc # "calling" /\ Enter(c, Waiting)
  BY CallTyped DEF Raise, Leave, Waiting
<1>2. UNCHANGED <<local, external>> /\ exceptions' \in 0..MaxExceptions
  BY SoeAssumption DEF Raise, SoeIInv, SoeTypeOK
<1>3. QED BY <1>1, <1>2, QuietStep

(* A seal writes the effect its caller knows, if nobody was faster.        *)
LEMMA SealStep ==
  ASSUME SoeIInv, NEW c \in Caller, Seal(c)
  PROVE  SoeIInv'
<1>1. PICK i, e : i = call[c].intent /\ e = call[c].effect
  OBVIOUS
<1>2. /\ i \in Effective /\ i \in Intent /\ e = effects[i] /\ e \in Nat
      /\ call[c].read \in {"DISPATCHING", "UNCERTAIN"}
  BY <1>1, CallTyped DEF Seal, Knows, CallType
<1>3. /\ Waiting \in CallType /\ Knows(Waiting) /\ Waiting.pc # "calling"
      /\ Enter(c, Waiting) /\ UNCHANGED <<external, exceptions>>
  BY CallTyped DEF Seal, Leave, Waiting
<1>4. UNCHANGED <<counter, effects, sent, exceptions>>
  BY <1>3 DEF external
<1>5. CASE UNCHANGED local
  <2>1. exceptions' \in 0..MaxExceptions /\ UNCHANGED <<local, external>>
    BY <1>3, <1>5 DEF SoeIInv, SoeTypeOK
  <2>2. QED BY <1>3, <2>1, QuietStep
<1>6. CASE /\ State(i) = call[c].read
           /\ operation' = [operation EXCEPT ![i] = [state |-> "SEALED", sealed |-> e]]
           /\ trail' = [trail EXCEPT ![i] = @ \o <<"EFFECT_OBSERVED", "RECONCILED", "SEALED">>]
  <2>1. LocalOK' /\ \A j \in Intent : Dispatches(j)' = Dispatches(j)
    BY <1>2, <1>4, <1>6, LocalFromIInv, SealKeeps
  <2>2. Knows(Waiting)'
    BY DEF Knows, Waiting
  <2>3. CallsKnow' /\ call' \in [Caller -> CallType]
    BY <1>3, <1>4, <2>2, KnowledgeStays
  <2>4. RequestsDispatched'
    <3> SUFFICES ASSUME NEW j \in Intent
                 PROVE  sent'[j] + Cardinality(Calling(j)') <= Cardinality(Dispatches(j)')
      BY DEF RequestsDispatched
    <3>1. sent[j] + Cardinality(Calling(j)) <= Cardinality(Dispatches(j)) /\ sent[j] \in Nat
      BY DEF SoeIInv, RequestsDispatched, SoeTypeOK
    <3>2. Cardinality(Calling(j)') <= Cardinality(Calling(j)) /\ Cardinality(Calling(j)') \in Nat
      BY <1>3, EnterCounts DEF SoeIInv
    <3>3. Cardinality(Calling(j)) \in Nat /\ Cardinality(Dispatches(j)) \in Nat
      BY CountsTyped DEF SoeIInv
    <3>4. QED BY <1>4, <2>1, <3>1, <3>2, <3>3
  <2>5. EffectsCounted' /\ EffectsBelow'
    BY <1>4 DEF SoeIInv, EffectsCounted, EffectsBelow, Effective
  <2>6. SoeTypeOK'
    BY <1>4, <2>1, <2>3 DEF SoeIInv, SoeTypeOK, CallType, LocalOK, RowType
  <2>7. QED BY <2>1, <2>3, <2>4, <2>5, <2>6 DEF SoeIInv, LocalOK
<1>7. QED BY <1>1, <1>5, <1>6 DEF Seal

(* A request that reaches the service.                                     *)
LEMMA ServiceStep ==
  ASSUME SoeIInv, NEW i \in Intent, Apply(i)
  PROVE  /\ counter' \in Nat /\ effects' \in [Intent -> Nat] /\ sent' \in [Intent -> Nat]
         /\ sent'[i] = sent[i] + 1 /\ \A j \in Intent \ {i} : sent'[j] = sent[j]
         /\ \A j \in Intent : effects[j] # NoEffect => effects'[j] = effects[j]
         /\ i \in Effective' /\ EffectsCounted' /\ EffectsBelow'
<1>1. /\ counter \in Nat /\ effects \in [Intent -> Nat] /\ sent \in [Intent -> Nat]
      /\ \A j \in Intent : effects[j] <= counter
      /\ counter = InitialCounter + Cardinality(Effective)
      /\ \A j, k \in Effective : effects[j] = effects[k] => j = k
  BY DEF SoeIInv, SoeTypeOK, EffectsBelow, EffectsCounted
<1>2. /\ sent' \in [Intent -> Nat] /\ sent'[i] = sent[i] + 1
      /\ \A j \in Intent \ {i} : sent'[j] = sent[j]
  BY <1>1 DEF Apply
<1>3. CASE effects[i] # NoEffect
  <2>1. counter' = counter /\ effects' = effects
    BY <1>3 DEF Apply
  <2>2. Effective' = Effective /\ i \in Effective
    BY <1>3, <2>1 DEF Effective
  <2>3. EffectsCounted' /\ EffectsBelow'
    BY <1>1, <2>1, <2>2 DEF EffectsCounted, EffectsBelow
  <2>4. QED BY <1>1, <1>2, <2>1, <2>2, <2>3
<1>4. CASE effects[i] = NoEffect
  <2>1. counter' = counter + 1 /\ effects' = [effects EXCEPT ![i] = counter + 1]
    BY <1>4 DEF Apply
  <2>2. /\ effects' \in [Intent -> Nat] /\ effects'[i] = counter + 1 /\ counter' \in Nat
        /\ \A j \in Intent \ {i} : effects'[j] = effects[j]
    BY <1>1, <2>1
  <2>3. PICK Q : Q = Effective
    OBVIOUS
  <2>4. Effective' = Q \union {i} /\ i \notin Q
    BY <1>1, <1>4, <2>2, <2>3 DEF Effective, NoEffect
  <2>5. IsFiniteSet(Q)
    BY <2>3, SoeAssumption, FS_Subset DEF Effective
  <2>6. Cardinality(Q \union {i}) = Cardinality(Q) + 1
    BY <2>4, <2>5, FS_AddElement
  <2>7. counter' = InitialCounter + Cardinality(Effective')
    <3>1. Cardinality(Q) \in Nat
      BY <2>5, FS_CardinalityType
    <3>2. Cardinality(Effective') = Cardinality(Q) + 1
      BY <2>4, <2>6
    <3>3. counter = InitialCounter + Cardinality(Q)
      BY <1>1, <2>3
    <3>4. QED BY <2>1, <3>1, <3>2, <3>3 DEF InitialCounter
  <2>8. \A j, k \in Effective' : effects'[j] = effects'[k] => j = k
    <3>1. \A j \in Q : j # i /\ effects'[j] = effects[j] /\ effects'[j] # counter + 1 /\ j \in Intent
      BY <1>1, <2>2, <2>3, <2>4 DEF Effective
    <3>2. QED BY <1>1, <2>2, <2>3, <2>4, <3>1
  <2>9. EffectsBelow'
    BY <1>1, <2>1, <2>2 DEF EffectsBelow
  <2>10. QED BY <1>1, <1>2, <1>4, <2>2, <2>4, <2>7, <2>8, <2>9 DEF EffectsCounted
<1>5. QED BY <1>3, <1>4

(* The one request of a call: its caller has now sent it, whether or not   *)
(* it hears the answer.                                                    *)
LEMMA AnswerStep ==
  ASSUME SoeIInv, NEW c \in Caller, Acknowledged(c) \/ AcknowledgementLost(c)
  PROVE  SoeIInv'
<1>1. PICK i : i = call[c].intent
  OBVIOUS
<1>2. i \in Intent /\ call[c] \in CallType /\ call[c].pc = "calling" /\ Apply(i)
      /\ UNCHANGED <<local, exceptions>>
  BY <1>1, CallTyped DEF Acknowledged, AcknowledgementLost, Knows
<1>3. /\ counter' \in Nat /\ effects' \in [Intent -> Nat] /\ sent' \in [Intent -> Nat]
      /\ sent'[i] = sent[i] + 1 /\ \A j \in Intent \ {i} : sent'[j] = sent[j]
      /\ \A j \in Intent : effects[j] # NoEffect => effects'[j] = effects[j]
      /\ i \in Effective' /\ EffectsCounted' /\ EffectsBelow'
  BY <1>2, ServiceStep
<1>4. PICK e : e = effects'[i]
  OBVIOUS
<1>5. e \in Nat
  BY <1>2, <1>3, <1>4
<1>6. \E w \in CallType : Enter(c, w) /\ w.pc # "calling" /\ Knows(w)'
  <2>1. CASE Acknowledged(c)
    <3>1. PICK w : w = [call[c] EXCEPT !.pc = "sealing", !.read = "DISPATCHING", !.effect = e]
      OBVIOUS
    <3>2. Enter(c, w)
      BY <1>1, <1>4, <2>1, <3>1 DEF Acknowledged
    <3>3. /\ w \in CallType /\ w.pc = "sealing" /\ w.intent = i /\ w.read = "DISPATCHING"
          /\ w.effect = e
      BY <1>1, <1>2, <1>5, <3>1 DEF CallType, CallPCs, RowStates
    <3>4. Knows(w)'
      BY <1>2, <1>3, <1>4, <3>3 DEF Knows
    <3>5. QED BY <3>2, <3>3, <3>4
  <2>2. CASE AcknowledgementLost(c)
    <3>1. PICK w : w = [call[c] EXCEPT !.pc = "uncertain"]
      OBVIOUS
    <3>2. Enter(c, w)
      BY <2>2, <3>1 DEF AcknowledgementLost, To
    <3>3. w \in CallType /\ w.pc = "uncertain" /\ w.intent = i
      BY <1>1, <1>2, <3>1 DEF CallType, CallPCs
    <3>4. Knows(w)'
      BY <1>2, <1>3, <3>3 DEF Knows
    <3>5. QED BY <3>2, <3>3, <3>4
  <2>3. QED BY <2>1, <2>2
<1>7. PICK w \in CallType : Enter(c, w) /\ w.pc # "calling" /\ Knows(w)'
  BY <1>6
<1>8. CallsKnow' /\ call' \in [Caller -> CallType]
  BY <1>3, <1>7, KnowledgeStays
<1>9. operation' = operation /\ trail' = trail /\ exceptions' = exceptions
  BY <1>2 DEF local
<1>10. LocalOK'
  BY <1>2, <1>3, LocalFromIInv, LocalKept
<1>11. RequestsDispatched'
  <2> SUFFICES ASSUME NEW j \in Intent
               PROVE  sent'[j] + Cardinality(Calling(j)') <= Cardinality(Dispatches(j)')
    BY DEF RequestsDispatched
  <2>1. sent[j] + Cardinality(Calling(j)) <= Cardinality(Dispatches(j)) /\ sent[j] \in Nat
    BY DEF SoeIInv, RequestsDispatched, SoeTypeOK
  <2>2. Cardinality(Calling(j)) \in Nat /\ Cardinality(Dispatches(j)) \in Nat
    BY CountsTyped DEF SoeIInv
  <2>3. Dispatches(j)' = Dispatches(j)
    BY <1>9 DEF Dispatches
  <2>4. CASE j = i
    <3>1. c \in Calling(i)
      BY <1>1, <1>2 DEF Calling
    <3>2. Cardinality(Calling(i)') = Cardinality(Calling(i)) - 1
      BY <1>2, <1>7, <3>1, EnterCounts DEF SoeIInv
    <3>3. QED BY <1>3, <2>1, <2>2, <2>3, <2>4, <3>2
  <2>5. CASE j # i
    <3>1. Cardinality(Calling(j)') <= Cardinality(Calling(j)) /\ Cardinality(Calling(j)') \in Nat
      BY <1>7, EnterCounts DEF SoeIInv
    <3>2. sent'[j] = sent[j]
      BY <1>3, <2>5
    <3>3. QED BY <2>1, <2>2, <2>3, <3>1, <3>2
  <2>6. QED BY <2>4, <2>5
<1>12. SoeTypeOK'
  BY <1>3, <1>8, <1>9 DEF SoeIInv, SoeTypeOK, CallType
<1>13. QED BY <1>3, <1>8, <1>10, <1>11, <1>12 DEF SoeIInv, LocalOK

(* Every step keeps the inductive invariant.                               *)
LEMMA SoeNextIInv == SoeIInv /\ [SoeNext]_soeVars => SoeIInv'
<1> SUFFICES ASSUME SoeIInv, [SoeNext]_soeVars PROVE SoeIInv'
  OBVIOUS
<1>1. CASE UNCHANGED soeVars
  <2>1. UNCHANGED <<operation, trail, counter, effects, sent, call, exceptions>>
    BY <1>1 DEF soeVars
  <2>2. SoeTypeOK' /\ EffectsCounted' /\ EffectsBelow' /\ SealsTrue' /\ TrailMatches' /\ TrailShape'
    BY <2>1 DEF SoeIInv, SoeTypeOK, EffectsCounted, EffectsBelow, SealsTrue, TrailMatches,
                TrailShape, State, Effective
  <2>3. RequestsDispatched' /\ DispatchesConfirmed'
    <3>1. \A i \in Intent : Dispatches(i)' = Dispatches(i) /\ Calling(i)' = Calling(i)
      BY <2>1 DEF Dispatches, Calling
    <3>2. RequestsDispatched'
      BY <2>1, <3>1 DEF SoeIInv, RequestsDispatched
    <3>3. DispatchesConfirmed'
      BY <2>1, <3>1 DEF SoeIInv, DispatchesConfirmed
    <3>4. QED BY <3>2, <3>3
  <2>4. UncertainNotFailed'
    BY <2>1 DEF SoeIInv, UncertainNotFailed, Effective
  <2>5. CallsKnow'
    BY <2>1 DEF SoeIInv, CallsKnow, Knows, Effective
  <2>6. QED BY <2>2, <2>3, <2>4, <2>5 DEF SoeIInv
<1>2. ASSUME NEW c \in Caller, CallStep(c) PROVE SoeIInv'
  BY <1>2, DispatchStep, LeaveStep, LookupStep, SealStep, AnswerStep DEF CallStep
<1>3. ASSUME NEW c \in Caller, Raise(c) PROVE SoeIInv'
  BY <1>3, RaiseStep
<1>4. ASSUME NEW c \in Caller, NEW i \in Intent, Prepare(c, i) \/ Reconcile(c, i) \/ Redispatch(c, i)
      PROVE  SoeIInv'
  BY <1>4, PrepareSteps
<1>5. QED BY <1>1, <1>2, <1>3, <1>4 DEF SoeNext

-----------------------------------------------------------------------------
(* The inductive invariant of the coordinator and the service.             *)
THEOREM SoeInvariant == SoeSpec => []SoeIInv
BY SoeInitIInv, SoeNextIInv, PTL DEF SoeSpec

(* Rows, histories, effects and calls keep the shapes of ws_soe_v01c.      *)
THEOREM SoeTypeCorrect == SoeSpec => []SoeTypeOK
<1>1. SoeIInv => SoeTypeOK
  BY DEF SoeIInv
<1>2. QED BY <1>1, SoeInvariant, PTL

(* The counter moves once per intent with an effect, and a sealed row holds*)
(* that effect, for any callers, losses, crashes and redispatches (apply,  *)
(* _seal_effect).                                                          *)
THEOREM OneEffect == SoeSpec => []OneEffectEach
<1>1. SoeIInv => OneEffectEach
  BY DEF SoeIInv, OneEffectEach
<1>2. QED BY <1>1, SoeInvariant, PTL

(* The service never gets more requests than the history has dispatches,   *)
(* each but the first after a confirmation (redispatch_after_no_effect).   *)
THEOREM NoRetryBlind == SoeSpec => []NoBlindRetry
<1>1. SoeIInv => NoBlindRetry
  BY DEF SoeIInv, NoBlindRetry
<1>2. QED BY <1>1, SoeInvariant, PTL

(* An effect recorded as UNCERTAIN is never recorded as absent (reconcile).*)
THEOREM UncertainStays == SoeSpec => []UncertainNotFailed
<1>1. SoeIInv => UncertainNotFailed
  BY DEF SoeIInv
<1>2. QED BY <1>1, SoeInvariant, PTL

(* The transition history ends in the row's state, and a seal ends it      *)
(* (_transition, _seal_effect).                                            *)
THEOREM TrailsMatch == SoeSpec => []TrailMatches
<1>1. SoeIInv => TrailMatches
  BY DEF SoeIInv
<1>2. QED BY <1>1, SoeInvariant, PTL

(* The intents that have been dispatched: a transition adds one when it is *)
(* a dispatch.                                                             *)
Committed == {i \in Intent : Dispatches(i) # {}}
Recorded == {i \in Intent : State(i) = "SEALED"}

(* A transition other than a seal commits an intent when it dispatches it. *)
LEMMA MoveMaps ==
  ASSUME LocalOK, NEW i \in Intent, NEW s \in TrailStates \intersect RowStates, Move(i, s),
         s # "SEALED", State(i) # "SEALED"
  PROVE  /\ s = "DISPATCHING" => Committed' = Committed \union {i}
         /\ s # "DISPATCHING" => Committed' = Committed
         /\ Recorded' = Recorded
<1>1. \A j \in Intent \ {i} : Dispatches(j)' = Dispatches(j) /\ State(j)' = State(j)
  BY Moved DEF Dispatches, State
<1>2. State(i)' = s
  BY Moved
<1>3. Recorded' = Recorded
  BY <1>1, <1>2 DEF Recorded
<1>4. s # "DISPATCHING" => Dispatches(i)' = Dispatches(i)
  BY Moved DEF Dispatches
<1>5. s = "DISPATCHING" => Dispatches(i)' # {}
  <2>1. s = "DISPATCHING" => Len(trail[i]) + 1 \in Dispatches(i)'
    BY Moved DEF Dispatches
  <2>2. QED BY <2>1
<1>6. QED BY <1>1, <1>3, <1>4, <1>5 DEF Committed

(* Initial states map to initial states.                                   *)
LEMMA RefineInit == SoeInit => Outcome!Init
BY DEF SoeInit, Outcome!Init, Dispatches, Effective, State, NoEffect

(* An effect happens to an intent that has been dispatched.                *)
LEMMA ApplyMaps ==
  ASSUME SoeIInv, NEW c \in Caller, call[c].pc = "calling", NEW i \in Intent,
         i = call[c].intent, Apply(i)
  PROVE  i \in Committed /\ (Effective' = Effective \/ Effective' = Effective \union {i})
<1>1. i \in Committed
  <2>1. PICK Q, D : Q = Calling(i) /\ D = Dispatches(i)
    OBVIOUS
  <2>2. IsFiniteSet(Q) /\ Cardinality(Q) \in Nat /\ Cardinality(D) \in Nat
    BY <2>1, CountsTyped DEF SoeIInv
  <2>3. c \in Q
    BY <2>1 DEF Calling
  <2>4. Cardinality(Q) # 0
    BY <2>2, <2>3, FS_EmptySet
  <2>5. sent[i] \in Nat /\ sent[i] + Cardinality(Q) <= Cardinality(D)
    BY <2>1 DEF SoeIInv, SoeTypeOK, RequestsDispatched
  <2>6. Cardinality(D) # 0
    BY <2>2, <2>4, <2>5
  <2>7. D # {}
    BY <2>6, FS_EmptySet
  <2>8. QED BY <2>1, <2>7 DEF Committed
<1>2. effects \in [Intent -> Nat] /\ counter \in Nat
  BY DEF SoeIInv, SoeTypeOK
<1>3. CASE effects[i] # NoEffect
  BY <1>1, <1>3 DEF Apply, Effective
<1>4. CASE effects[i] = NoEffect
  <2>1. /\ effects'[i] # NoEffect
        /\ \A j \in Intent \ {i} : effects'[j] = effects[j]
    BY <1>2, <1>4 DEF Apply, NoEffect
  <2>2. Effective' = Effective \union {i}
    BY <2>1 DEF Effective
  <2>3. QED BY <1>1, <2>2
<1>5. QED BY <1>3, <1>4

(* Every step of a caller is a commitment, an effect, a record or nothing. *)
LEMMA RefineStep == SoeIInv /\ [SoeNext]_soeVars => [Outcome!Next]_(Outcome!vars)
<1> SUFFICES ASSUME SoeIInv, [SoeNext]_soeVars
             PROVE  \/ UNCHANGED <<Committed, Effective, Recorded>>
                    \/ \E i \in Intent :
                         \/ /\ Committed' = Committed \union {i}
                            /\ Effective' = Effective /\ Recorded' = Recorded
                         \/ /\ i \in Committed \ Effective
                            /\ Effective' = Effective \union {i}
                            /\ Committed' = Committed /\ Recorded' = Recorded
                         \/ /\ i \in Effective \ Recorded
                            /\ Recorded' = Recorded \union {i}
                            /\ Committed' = Committed /\ Effective' = Effective
  BY DEF Outcome!Next, Outcome!vars, Outcome!Commit, Outcome!Happen, Outcome!Record,
         Committed, Recorded
<1>0. LocalOK
  BY LocalFromIInv
<1>1. ASSUME UNCHANGED local PROVE Committed' = Committed /\ Recorded' = Recorded
  BY <1>1 DEF local, Committed, Recorded, Dispatches, State
<1>2. ASSUME UNCHANGED external PROVE Effective' = Effective
  BY <1>2 DEF external, Effective
<1>3. CASE UNCHANGED soeVars
  <2>1. UNCHANGED local /\ UNCHANGED external
    BY <1>3 DEF soeVars, local, external
  <2>2. QED BY <1>1, <1>2, <2>1
<1>4. ASSUME NEW c \in Caller, Dispatch(c) PROVE
         /\ call[c].intent \in Intent
         /\ Committed' = Committed \union {call[c].intent}
         /\ Effective' = Effective /\ Recorded' = Recorded
  <2>1. call[c].intent \in Intent
    BY <1>4, CallTyped DEF Dispatch, Knows
  <2>2. /\ "DISPATCHING" \in TrailStates \intersect RowStates
        /\ Move(call[c].intent, "DISPATCHING") /\ State(call[c].intent) # "SEALED"
        /\ UNCHANGED external
    BY <1>4 DEF Dispatch, TrailStates, RowStates
  <2>3. QED BY <1>0, <1>2, <2>1, <2>2, MoveMaps
<1>5. ASSUME NEW c \in Caller, NEW i \in Intent, Prepare(c, i) \/ Redispatch(c, i) PROVE
         /\ Committed' = Committed \/ Committed' = Committed \union {i}
         /\ Effective' = Effective /\ Recorded' = Recorded
  <2>1. PICK s : (Prepare(c, i) /\ s = "PREPARED") \/ (Redispatch(c, i) /\ s = "DISPATCHING")
    BY <1>5
  <2>2. /\ s \in TrailStates \intersect RowStates /\ s # "SEALED"
        /\ Move(i, s) /\ State(i) # "SEALED" /\ UNCHANGED external
    BY <2>1 DEF Prepare, Redispatch, TrailStates, RowStates
  <2>3. QED BY <1>0, <1>2, <2>2, MoveMaps
<1>6. ASSUME NEW c \in Caller, Uncertain(c) \/ ConfirmNoEffect(c) PROVE
         Committed' = Committed /\ Effective' = Effective /\ Recorded' = Recorded
  <2>1. PICK i : i = call[c].intent
    OBVIOUS
  <2>2. i \in Intent /\ Effective' = Effective
    BY <1>2, <1>6, <2>1, CallTyped DEF Uncertain, ConfirmNoEffect, Knows
  <2>3. CASE UNCHANGED local
    BY <1>1, <2>2, <2>3
  <2>4. CASE Move(i, "UNCERTAIN") /\ State(i) = "DISPATCHING"
    <3>1. "UNCERTAIN" \in TrailStates \intersect RowStates
      BY DEF TrailStates, RowStates
    <3>2. QED BY <1>0, <2>2, <2>4, <3>1, MoveMaps
  <2>5. CASE Move(i, "NO_EFFECT_CONFIRMED") /\ State(i) # "SEALED"
    <3>1. "NO_EFFECT_CONFIRMED" \in TrailStates \intersect RowStates
      BY DEF TrailStates, RowStates
    <3>2. QED BY <1>0, <2>2, <2>5, <3>1, MoveMaps
  <2>6. ConfirmNoEffect(c) => call[c].read = "DISPATCHING"
    BY CallTyped DEF ConfirmNoEffect, Knows
  <2>7. QED BY <1>6, <2>1, <2>3, <2>4, <2>5, <2>6 DEF Uncertain, ConfirmNoEffect
<1>7. ASSUME NEW c \in Caller, Seal(c) PROVE
         \/ UNCHANGED <<Committed, Effective, Recorded>>
         \/ \E i \in Effective \ Recorded :
              /\ Recorded' = Recorded \union {i}
              /\ Committed' = Committed /\ Effective' = Effective
  <2>1. PICK i, e : i = call[c].intent /\ e = call[c].effect
    OBVIOUS
  <2>2. /\ i \in Effective /\ i \in Intent /\ e = effects[i] /\ e \in Nat
        /\ call[c].read \in {"DISPATCHING", "UNCERTAIN"}
    BY <1>7, <2>1, CallTyped DEF Seal, Knows, CallType
  <2>3. Effective' = Effective /\ UNCHANGED effects
    BY <1>2, <1>7 DEF Seal, external
  <2>4. CASE UNCHANGED local
    BY <1>1, <2>3, <2>4
  <2>5. CASE /\ State(i) = call[c].read
             /\ operation' = [operation EXCEPT ![i] = [state |-> "SEALED", sealed |-> e]]
             /\ trail' = [trail EXCEPT ![i] = @ \o <<"EFFECT_OBSERVED", "RECONCILED", "SEALED">>]
    <3>1. \A j \in Intent : Dispatches(j)' = Dispatches(j)
      BY <1>0, <2>2, <2>3, <2>5, SealKeeps
    <3>2. Committed' = Committed
      BY <3>1 DEF Committed
    <3>3. State(i)' = "SEALED" /\ \A j \in Intent \ {i} : State(j)' = State(j)
      BY <1>0, <2>2, <2>5 DEF LocalOK, State
    <3>4. Recorded' = Recorded \union {i} /\ i \notin Recorded
      BY <2>2, <2>5, <3>3 DEF Recorded
    <3>5. QED BY <2>2, <2>3, <3>2, <3>4
  <2>6. QED BY <1>7, <2>1, <2>4, <2>5 DEF Seal
<1>8. ASSUME NEW c \in Caller, Acknowledged(c) \/ AcknowledgementLost(c) PROVE
         \/ UNCHANGED <<Committed, Effective, Recorded>>
         \/ \E i \in Committed \ Effective :
              /\ Effective' = Effective \union {i}
              /\ Committed' = Committed /\ Recorded' = Recorded
  <2>1. PICK i : i = call[c].intent
    OBVIOUS
  <2>2. i \in Intent /\ call[c].pc = "calling" /\ Apply(i) /\ UNCHANGED local
    BY <1>8, <2>1, CallTyped DEF Acknowledged, AcknowledgementLost, Knows
  <2>3. i \in Committed /\ (Effective' = Effective \/ Effective' = Effective \union {i})
    BY <2>1, <2>2, ApplyMaps
  <2>4. Committed' = Committed /\ Recorded' = Recorded
    BY <1>1, <2>2
  <2>5. CASE i \in Effective
    <3>1. Effective' = Effective
      BY <2>3, <2>5
    <3>2. QED BY <2>4, <3>1
  <2>6. CASE i \notin Effective
    BY <2>3, <2>4, <2>6
  <2>7. QED BY <2>5, <2>6
<1>9. ASSUME NEW c \in Caller, NEW i \in Intent, Lookup(c) \/ Raise(c) \/ Reconcile(c, i)
      PROVE  UNCHANGED <<Committed, Effective, Recorded>>
  <2>1. UNCHANGED local /\ UNCHANGED external
    BY <1>9 DEF Lookup, Raise, Reconcile
  <2>2. QED BY <1>1, <1>2, <2>1
<1>10. ASSUME NEW c \in Caller, Lookup(c) \/ Raise(c)
       PROVE  UNCHANGED <<Committed, Effective, Recorded>>
  <2>1. UNCHANGED local /\ UNCHANGED external
    BY <1>10 DEF Lookup, Raise
  <2>2. QED BY <1>1, <1>2, <2>1
<1>11. ASSUME SoeNext PROVE \E c \in Caller :
         \/ Dispatch(c) \/ Uncertain(c) \/ ConfirmNoEffect(c) \/ Seal(c)
         \/ Acknowledged(c) \/ AcknowledgementLost(c) \/ Lookup(c) \/ Raise(c)
         \/ \E i \in Intent : Prepare(c, i) \/ Redispatch(c, i) \/ Reconcile(c, i)
  BY <1>11 DEF SoeNext, CallStep
<1>12. Effective \subseteq Intent /\ Committed \subseteq Intent
  BY DEF Effective, Committed
<1>13. ASSUME NEW c \in Caller, Dispatch(c) PROVE
         \E i \in Intent : /\ Committed' = Committed \union {i}
                           /\ Effective' = Effective /\ Recorded' = Recorded
  BY <1>4, <1>13
<1>14. ASSUME NEW c \in Caller, Uncertain(c) \/ ConfirmNoEffect(c)
       PROVE  UNCHANGED <<Committed, Effective, Recorded>>
  BY <1>6, <1>14
<1>15. ASSUME NEW c \in Caller, NEW i \in Intent, Prepare(c, i) \/ Redispatch(c, i) PROVE
         \/ UNCHANGED <<Committed, Effective, Recorded>>
         \/ /\ Committed' = Committed \union {i}
            /\ Effective' = Effective /\ Recorded' = Recorded
  BY <1>5, <1>15
<1>16. CASE SoeNext
  <2>1. PICK c \in Caller :
         \/ Dispatch(c) \/ Uncertain(c) \/ ConfirmNoEffect(c) \/ Seal(c)
         \/ Acknowledged(c) \/ AcknowledgementLost(c) \/ Lookup(c) \/ Raise(c)
         \/ \E i \in Intent : Prepare(c, i) \/ Redispatch(c, i) \/ Reconcile(c, i)
    BY <1>11, <1>16
  <2>2. CASE Dispatch(c)
    BY <1>13, <2>2
  <2>3. CASE Uncertain(c) \/ ConfirmNoEffect(c)
    BY <1>14, <2>3
  <2>4. CASE Seal(c)
    BY <1>7, <1>12, <2>4
  <2>5. CASE Acknowledged(c) \/ AcknowledgementLost(c)
    BY <1>8, <1>12, <2>5
  <2>6. CASE Lookup(c) \/ Raise(c)
    BY <1>10, <2>6
  <2>7. ASSUME NEW i \in Intent, Prepare(c, i) \/ Redispatch(c, i)
        PROVE  \/ UNCHANGED <<Committed, Effective, Recorded>>
               \/ /\ Committed' = Committed \union {i}
                  /\ Effective' = Effective /\ Recorded' = Recorded
    BY <1>15, <2>7
  <2>8. ASSUME NEW i \in Intent, Reconcile(c, i)
        PROVE  UNCHANGED <<Committed, Effective, Recorded>>
    BY <1>9, <2>8
  <2>9. QED BY <2>1, <2>2, <2>3, <2>4, <2>5, <2>6, <2>7, <2>8
<1>17. QED BY <1>3, <1>16

(* The coordinator and its service implement a reconciled effect: one that *)
(* happens at most once, after a commitment, and is recorded only when it  *)
(* is there.                                                               *)
THEOREM SoeRefinement == SoeSpec => ImplementsReconciledEffect
BY RefineInit, RefineStep, SoeInvariant, PTL DEF SoeSpec, ImplementsReconciledEffect, Outcome!Spec

-----------------------------------------------------------------------------
(* How often an intent can be dispatched.  A redispatch needs somebody who *)
(* looked before the effect was there and confirmed after; while there is  *)
(* no effect, every dispatch is a request still under way or a call that   *)
(* raised.  So the callers bound the dispatches, one each.                 *)
At(i, p) == {c \in Caller : call[c].pc = p /\ call[c].intent = i}
Busy(i) == At(i, "calling") \union At(i, "looking") \union At(i, "absent")
Confirmed(i) == State(i) = "NO_EFFECT_CONFIRMED"

PendingDispatches(i) ==
  i \notin Effective =>
    Cardinality(Dispatches(i)) <= Cardinality(At(i, "calling")) + exceptions

ConfirmationsLeft(i) ==
  i \in Effective =>
    Cardinality(Dispatches(i)) + Cardinality(At(i, "absent")) + (IF Confirmed(i) THEN 1 ELSE 0)
      <= Cardinality(Caller) + exceptions

SomebodyFree(i) == Confirmed(i) => \E c \in Caller : c \notin Busy(i)

Within(i) == PendingDispatches(i) /\ ConfirmationsLeft(i) /\ SomebodyFree(i)

RetriesWithin == \A i \in Intent : Within(i)

RetriesBounded ==
  \A i \in Intent : Cardinality(Dispatches(i)) <= Cardinality(Caller) + exceptions

(* Callers are finitely many, and so are those in one place.               *)
LEMMA SomeCallers ==
  ASSUME NEW S, S \subseteq Caller
  PROVE  IsFiniteSet(S) /\ Cardinality(S) \in Nat /\ Cardinality(S) <= Cardinality(Caller)
<1>1. IsFiniteSet(S) /\ Cardinality(S) <= Cardinality(Caller)
  BY SoeAssumption, FS_Subset
<1>2. QED BY <1>1, FS_CardinalityType

(* The counts are numbers, before a step and after it.                     *)
LEMMA CountsAreNat ==
  ASSUME SoeIInv, SoeIInv', NEW i \in Intent
  PROVE  /\ Cardinality(Caller) \in Nat /\ exceptions \in Nat /\ exceptions' \in Nat
         /\ Cardinality(Dispatches(i)) \in Nat /\ Cardinality(Dispatches(i)') \in Nat
         /\ Cardinality(At(i, "calling")) \in Nat /\ Cardinality(At(i, "calling")') \in Nat
         /\ Cardinality(At(i, "absent")) \in Nat /\ Cardinality(At(i, "absent")') \in Nat
<1>1. Cardinality(Caller) \in Nat
  BY SomeCallers
<1>2. exceptions \in Nat /\ exceptions' \in Nat
  BY SoeAssumption DEF SoeIInv, SoeTypeOK
<1>3. Cardinality(Dispatches(i)) \in Nat
  BY CountsTyped DEF SoeIInv
<1>4. Cardinality(Dispatches(i)') \in Nat
  <2>1. Len(trail'[i]) \in Nat
    BY DEF SoeIInv, SoeTypeOK
  <2>2. IsFiniteSet(1..Len(trail'[i])) /\ Dispatches(i)' \subseteq 1..Len(trail'[i])
    <3>1. PICK n : n = Len(trail'[i])
      OBVIOUS
    <3>2. n \in Int /\ 1 \in Int
      BY <2>1, <3>1
    <3>3. IsFiniteSet(1..n)
      BY <3>2, FS_Interval
    <3>4. Dispatches(i)' \subseteq 1..Len(trail'[i])
      BY DEF Dispatches
    <3>5. QED BY <3>1, <3>3, <3>4
  <2>3. IsFiniteSet(Dispatches(i)')
    BY <2>2, FS_Subset
  <2>4. QED BY <2>3, FS_CardinalityType
<1>5. /\ At(i, "calling") \subseteq Caller /\ At(i, "calling")' \subseteq Caller
      /\ At(i, "absent") \subseteq Caller /\ At(i, "absent")' \subseteq Caller
  BY DEF At
<1>6. QED BY <1>1, <1>2, <1>3, <1>4, <1>5, SomeCallers

(* A caller is in one place, and a step of its call moves it alone.        *)
LEMMA Places ==
  ASSUME SoeIInv, NEW c \in Caller, NEW w, Enter(c, w), NEW i \in Intent
  PROVE  \A p \in {"calling", "looking", "absent"} :
           At(i, p)' = IF w.pc = p /\ w.intent = i THEN At(i, p) \union {c} ELSE At(i, p) \ {c}
<1>1. call'[c] = w /\ \A d \in Caller \ {c} : call'[d] = call[d]
  BY DEF SoeIInv, SoeTypeOK, Enter
<1>2. QED BY <1>1 DEF At

(* A step that dispatches nothing, finds nothing absent and confirms       *)
(* nothing.  Who gives up a request under way pays with an exception, or   *)
(* has seen it answered.                                                   *)
LEMMA QuietWithin ==
  ASSUME SoeIInv, SoeIInv', NEW i \in Intent, Within(i),
         Dispatches(i)' = Dispatches(i), Confirmed(i)' => Confirmed(i),
         i \in Effective' <=> i \in Effective,
         Busy(i)' \subseteq Busy(i), At(i, "absent")' \subseteq At(i, "absent"),
         \/ At(i, "calling")' = At(i, "calling") /\ exceptions' = exceptions
         \/ \E c : At(i, "calling") \subseteq At(i, "calling")' \union {c} /\ exceptions' = exceptions + 1
         \/ i \in Effective /\ exceptions' = exceptions
  PROVE  Within(i)'
<1>1. /\ Cardinality(Caller) \in Nat /\ exceptions \in Nat
      /\ Cardinality(Dispatches(i)) \in Nat
      /\ Cardinality(At(i, "calling")) \in Nat /\ Cardinality(At(i, "calling")') \in Nat
      /\ Cardinality(At(i, "absent")) \in Nat /\ Cardinality(At(i, "absent")') \in Nat
  BY CountsAreNat
<1>2. Cardinality(At(i, "absent")') <= Cardinality(At(i, "absent"))
  <2>1. At(i, "absent") \subseteq Caller
    BY DEF At
  <2>2. QED BY <2>1, SomeCallers, FS_Subset
<1>3. exceptions' \in Nat /\ exceptions <= exceptions'
  BY <1>1
<1>4. i \notin Effective =>
        Cardinality(At(i, "calling")) + exceptions <= Cardinality(At(i, "calling")') + exceptions'
  <2>1. CASE \E c : At(i, "calling") \subseteq At(i, "calling")' \union {c} /\ exceptions' = exceptions + 1
    <3>1. PICK c : At(i, "calling") \subseteq At(i, "calling")' \union {c}
      BY <2>1
    <3>2. PICK Q, R : Q = At(i, "calling") /\ R = At(i, "calling")'
      OBVIOUS
    <3>3. IsFiniteSet(R) /\ Cardinality(R) \in Nat
      <4>1. R \subseteq Caller
        BY <3>2 DEF At
      <4>2. QED BY <4>1, SomeCallers
    <3>4. IsFiniteSet(R \union {c}) /\ Cardinality(R \union {c}) <= Cardinality(R) + 1
      <4>1. /\ IsFiniteSet(R \union {c})
            /\ Cardinality(R \union {c}) = IF c \in R THEN Cardinality(R) ELSE Cardinality(R) + 1
        BY <3>3, FS_AddElement
      <4>2. QED BY <3>3, <4>1
    <3>5. Cardinality(Q) <= Cardinality(R \union {c}) /\ Cardinality(R \union {c}) \in Nat
      BY <3>1, <3>2, <3>4, FS_Subset, FS_CardinalityType
    <3>6. Cardinality(Q) <= Cardinality(R) + 1
      BY <1>1, <3>2, <3>3, <3>4, <3>5
    <3>7. QED BY <1>1, <2>1, <3>2, <3>6
  <2>2. QED BY <1>1, <2>1
<1>5. PendingDispatches(i)'
  BY <1>1, <1>3, <1>4 DEF Within, PendingDispatches
<1>6. ConfirmationsLeft(i)'
  BY <1>1, <1>2, <1>3 DEF Within, ConfirmationsLeft
<1>7. SomebodyFree(i)'
  BY DEF Within, SomebodyFree
<1>8. QED BY <1>5, <1>6, <1>7 DEF Within

(* A dispatch of an intent without an effect, or of one whose confirmation *)
(* it uses up, puts one more caller on its way.                            *)
LEMMA DispatchWithin ==
  ASSUME SoeIInv, SoeIInv', NEW i \in Intent, Within(i), NEW c \in Caller,
         c \notin At(i, "calling"), At(i, "calling")' = At(i, "calling") \union {c},
         At(i, "absent")' \subseteq At(i, "absent"),
         Cardinality(Dispatches(i)') = Cardinality(Dispatches(i)) + 1,
         i \in Effective' <=> i \in Effective, exceptions' = exceptions,
         ~Confirmed(i)', i \in Effective => Confirmed(i)
  PROVE  Within(i)'
<1>1. /\ Cardinality(Caller) \in Nat /\ exceptions \in Nat
      /\ Cardinality(Dispatches(i)) \in Nat
      /\ Cardinality(At(i, "calling")) \in Nat /\ Cardinality(At(i, "calling")') \in Nat
      /\ Cardinality(At(i, "absent")) \in Nat /\ Cardinality(At(i, "absent")') \in Nat
  BY CountsAreNat
<1>2. Cardinality(At(i, "absent")') <= Cardinality(At(i, "absent"))
  <2>1. At(i, "absent") \subseteq Caller
    BY DEF At
  <2>2. QED BY <2>1, SomeCallers, FS_Subset
<1>3. Cardinality(At(i, "calling")') = Cardinality(At(i, "calling")) + 1
  <2>1. PICK Q : Q = At(i, "calling")
    OBVIOUS
  <2>2. IsFiniteSet(Q)
    <3>1. Q \subseteq Caller
      BY <2>1 DEF At
    <3>2. QED BY <3>1, SomeCallers
  <2>3. QED BY <2>1, <2>2, FS_AddElement
<1>4. PendingDispatches(i)'
  BY <1>1, <1>3 DEF Within, PendingDispatches
<1>5. ConfirmationsLeft(i)'
  BY <1>1, <1>2 DEF Within, ConfirmationsLeft
<1>6. SomebodyFree(i)'
  BY DEF SomebodyFree
<1>7. QED BY <1>4, <1>5, <1>6 DEF Within

(* When the effect appears, those who still may redispatch are among the   *)
(* callers that were not on their way with a request.                      *)
LEMMA EffectWithin ==
  ASSUME SoeIInv, SoeIInv', NEW i \in Intent, Within(i),
         i \in Effective', Dispatches(i)' = Dispatches(i), Confirmed(i)' <=> Confirmed(i),
         Busy(i)' \subseteq Busy(i), At(i, "absent")' = At(i, "absent"), exceptions' = exceptions
  PROVE  Within(i)'
<1>1. /\ Cardinality(Caller) \in Nat /\ exceptions \in Nat
      /\ Cardinality(Dispatches(i)) \in Nat
      /\ Cardinality(At(i, "calling")) \in Nat /\ Cardinality(At(i, "absent")) \in Nat
  BY CountsAreNat
<1>2. Cardinality(At(i, "calling")) + Cardinality(At(i, "absent")) + (IF Confirmed(i) THEN 1 ELSE 0)
        <= Cardinality(Caller)
  <2>1. PICK Q, R : Q = At(i, "calling") /\ R = At(i, "absent")
    OBVIOUS
  <2>2. IsFiniteSet(Q) /\ IsFiniteSet(R) /\ Q \subseteq Caller /\ R \subseteq Caller
    <3>1. Q \subseteq Caller /\ R \subseteq Caller
      BY <2>1 DEF At
    <3>2. QED BY <3>1, SomeCallers
  <2>3. Q \intersect R = {}
    BY <2>1 DEF At
  <2>4. PICK T : T = Q \union R
    OBVIOUS
  <2>5. IsFiniteSet(T) /\ Cardinality(T) = Cardinality(Q) + Cardinality(R) /\ Cardinality(T) \in Nat
    <3>1. IsFiniteSet(T) /\ Cardinality(T) = Cardinality(Q) + Cardinality(R) - Cardinality(Q \intersect R)
      BY <2>2, <2>4, FS_Union
    <3>2. Cardinality(Q \intersect R) = 0
      BY <2>3, FS_EmptySet
    <3>3. Cardinality(T) = Cardinality(Q) + Cardinality(R)
      BY <1>1, <2>1, <3>1, <3>2
    <3>4. QED BY <3>1, <3>3, FS_CardinalityType
  <2>6. CASE Confirmed(i)
    <3>1. PICK c \in Caller : c \notin Busy(i)
      BY <2>6 DEF Within, SomebodyFree
    <3>2. c \notin T
      BY <2>1, <2>4, <3>1 DEF Busy
    <3>3. Cardinality(T \union {c}) = Cardinality(T) + 1
      BY <2>5, <3>2, FS_AddElement
    <3>4. Cardinality(T \union {c}) <= Cardinality(Caller)
      <4>1. T \union {c} \subseteq Caller
        BY <2>2, <2>4
      <4>2. QED BY <4>1, SomeCallers
    <3>5. QED BY <1>1, <2>1, <2>5, <2>6, <3>3, <3>4
  <2>7. CASE ~Confirmed(i)
    <3>1. Cardinality(T) <= Cardinality(Caller)
      <4>1. T \subseteq Caller
        BY <2>2, <2>4
      <4>2. QED BY <4>1, SomeCallers
    <3>2. QED BY <1>1, <2>1, <2>5, <2>7, <3>1
  <2>8. QED BY <2>6, <2>7
<1>3. Cardinality(Dispatches(i)) + Cardinality(At(i, "absent")) + (IF Confirmed(i) THEN 1 ELSE 0)
        <= Cardinality(Caller) + exceptions
  <2>1. CASE i \in Effective
    BY <2>1 DEF Within, ConfirmationsLeft
  <2>2. CASE i \notin Effective
    <3>1. Cardinality(Dispatches(i)) <= Cardinality(At(i, "calling")) + exceptions
      BY <2>2 DEF Within, PendingDispatches
    <3>2. QED BY <1>1, <1>2, <3>1
  <2>3. QED BY <2>1, <2>2
<1>4. ConfirmationsLeft(i)'
  BY <1>3 DEF ConfirmationsLeft
<1>5. PendingDispatches(i)'
  BY DEF PendingDispatches
<1>6. SomebodyFree(i)'
  BY DEF Within, SomebodyFree
<1>7. QED BY <1>4, <1>5, <1>6 DEF Within

(* A step of a caller that has no request for the intent under way and     *)
(* starts none, looks for none and finds none absent.                      *)
LEMMA PlainWithin ==
  ASSUME SoeIInv, SoeIInv', NEW i \in Intent, Within(i),
         NEW c \in Caller, NEW w, Enter(c, w),
         w.pc \notin {"calling", "looking", "absent"} \/ w.intent # i,
         call[c].pc # "calling" \/ call[c].intent # i,
         Dispatches(i)' = Dispatches(i), Confirmed(i)' => Confirmed(i),
         i \in Effective' <=> i \in Effective, exceptions' = exceptions
  PROVE  Within(i)'
<1>1. \A p \in {"calling", "looking", "absent"} : At(i, p)' = At(i, p) \ {c}
  BY Places
<1>2. c \notin At(i, "calling")
  BY DEF At
<1>3. /\ At(i, "calling")' = At(i, "calling")
      /\ At(i, "absent")' \subseteq At(i, "absent") /\ Busy(i)' \subseteq Busy(i)
  BY <1>1, <1>2 DEF Busy
<1>4. QED BY <1>3, QuietWithin

(* The rows and histories of the other intents.                            *)
LEMMA OtherRows ==
  ASSUME SoeIInv, NEW i \in Intent, NEW j \in Intent, i # j,
         NEW s \in TrailStates \intersect RowStates, Move(j, s)
  PROVE  Dispatches(i)' = Dispatches(i) /\ Confirmed(i)' = Confirmed(i)
<1>1. trail'[i] = trail[i] /\ operation'[i] = operation[i]
  BY LocalFromIInv, Moved
<1>2. QED BY <1>1 DEF Dispatches, Confirmed, State

(* The transition of an intent's own row.                                  *)
LEMMA OwnRow ==
  ASSUME SoeIInv, NEW i \in Intent, NEW s \in TrailStates \intersect RowStates, Move(i, s)
  PROVE  /\ s # "DISPATCHING" => Dispatches(i)' = Dispatches(i)
         /\ s = "DISPATCHING" => Cardinality(Dispatches(i)') = Cardinality(Dispatches(i)) + 1
         /\ Confirmed(i)' <=> s = "NO_EFFECT_CONFIRMED"
<1>1. LocalOK /\ SoeTypeOK
  BY LocalFromIInv DEF SoeIInv
<1>2. State(i)' = s
  BY <1>1, Moved
<1>3. QED BY <1>1, <1>2, MoveCounts DEF Confirmed

(* The states a transition writes.                                         *)
LEMMA StatesWritten ==
  {"PREPARED", "DISPATCHING", "UNCERTAIN", "NO_EFFECT_CONFIRMED"}
    \subseteq TrailStates \intersect RowStates
BY DEF TrailStates, RowStates

(* A call that starts: only a redispatch dispatches, and it uses up the    *)
(* confirmation.                                                           *)
LEMMA StartWithin ==
  ASSUME SoeIInv, SoeIInv', NEW i \in Intent, Within(i), NEW c \in Caller, NEW j \in Intent,
         Prepare(c, j) \/ Redispatch(c, j) \/ Reconcile(c, j)
  PROVE  Within(i)'
<1>1. call[c].pc = "waiting" /\ exceptions' = exceptions /\ (i \in Effective' <=> i \in Effective)
  BY DEF Prepare, Redispatch, Reconcile, external, Effective
<1>2. PICK w, p : /\ w = [pc |-> p, intent |-> j, read |-> State(j), effect |-> NoEffect]
                  /\ Enter(c, w)
                  /\ \/ Prepare(c, j) /\ p = "prepared"
                     \/ Redispatch(c, j) /\ p = "calling"
                     \/ Reconcile(c, j) /\ p = "looking"
  BY DEF Prepare, Redispatch, Reconcile, Begin
<1>3. \A q \in {"calling", "looking", "absent"} :
         /\ c \notin At(i, q)
         /\ At(i, q)' = IF p = q /\ j = i THEN At(i, q) \union {c} ELSE At(i, q)
  <2>1. \A q \in {"calling", "looking", "absent"} : c \notin At(i, q)
    BY <1>1 DEF At
  <2>2. w.pc = p /\ w.intent = j
    BY <1>2
  <2>3. \A q \in {"calling", "looking", "absent"} :
           At(i, q)' = IF w.pc = q /\ w.intent = i THEN At(i, q) \union {c} ELSE At(i, q) \ {c}
    BY <1>2, Places
  <2>4. QED BY <2>1, <2>2, <2>3
<1>4. CASE Prepare(c, j)
  <2>1. Move(j, "PREPARED") /\ w.pc = "prepared"
    BY <1>2, <1>4 DEF Prepare, Redispatch, Reconcile
  <2>2. Dispatches(i)' = Dispatches(i) /\ (Confirmed(i)' => Confirmed(i))
    BY <2>1, StatesWritten, OtherRows, OwnRow
  <2>3. QED BY <1>1, <1>2, <2>1, <2>2, PlainWithin
<1>5. CASE Redispatch(c, j)
  <2>1. Move(j, "DISPATCHING") /\ State(j) = "NO_EFFECT_CONFIRMED" /\ p = "calling"
    BY <1>2, <1>5 DEF Prepare, Redispatch, Reconcile
  <2>2. CASE j # i
    <3>1. Dispatches(i)' = Dispatches(i) /\ Confirmed(i)' = Confirmed(i)
      BY <2>1, <2>2, StatesWritten, OtherRows
    <3>2. w.intent # i
      BY <1>2, <2>2
    <3>3. QED BY <1>1, <1>2, <3>1, <3>2, PlainWithin
  <2>3. CASE j = i
    <3>1. /\ Cardinality(Dispatches(i)') = Cardinality(Dispatches(i)) + 1
          /\ ~Confirmed(i)' /\ Confirmed(i)
      BY <2>1, <2>3, StatesWritten, OwnRow DEF Confirmed
    <3>2. /\ At(i, "calling")' = At(i, "calling") \union {c} /\ c \notin At(i, "calling")
          /\ At(i, "absent")' = At(i, "absent")
      BY <1>3, <2>1, <2>3
    <3>3. QED BY <1>1, <3>1, <3>2, DispatchWithin
  <2>4. QED BY <2>2, <2>3
<1>6. CASE Reconcile(c, j)
  <2>1. UNCHANGED local /\ State(j) \in {"DISPATCHING", "UNCERTAIN"} /\ p = "looking"
    BY <1>2, <1>6 DEF Prepare, Redispatch, Reconcile
  <2>2. Dispatches(i)' = Dispatches(i) /\ Confirmed(i)' = Confirmed(i)
    BY <2>1 DEF local, Dispatches, Confirmed, State
  <2>3. CASE j # i
    <3>1. w.intent # i
      BY <1>2, <2>3
    <3>2. QED BY <1>1, <1>2, <2>2, <3>1, PlainWithin
  <2>4. CASE j = i
    <3>1. ~Confirmed(i)
      BY <2>1, <2>4 DEF Confirmed
    <3>2. At(i, "calling")' = At(i, "calling") /\ At(i, "absent")' = At(i, "absent")
      BY <1>3, <2>1
    <3>3. PendingDispatches(i)' /\ ConfirmationsLeft(i)' /\ SomebodyFree(i)'
      BY <1>1, <2>2, <3>1, <3>2
         DEF Within, PendingDispatches, ConfirmationsLeft, SomebodyFree
    <3>4. QED BY <3>3 DEF Within
  <2>5. QED BY <2>3, <2>4
<1>7. QED BY <1>4, <1>5, <1>6

(* The first dispatch finds an empty history, so there is no effect yet.   *)
LEMMA FirstDispatchWithin ==
  ASSUME SoeIInv, SoeIInv', Effective \subseteq Committed,
         NEW i \in Intent, Within(i), NEW c \in Caller, Dispatch(c)
  PROVE  Within(i)'
<1>1. PICK j, w : j = call[c].intent /\ w = [call[c] EXCEPT !.pc = "calling"]
  OBVIOUS
<1>2. /\ call[c].pc = "prepared" /\ exceptions' = exceptions /\ Move(j, "DISPATCHING")
      /\ State(j) = "PREPARED" /\ Enter(c, w) /\ (i \in Effective' <=> i \in Effective)
  BY <1>1 DEF Dispatch, To, external, Effective
<1>3. j \in Intent /\ w.pc = "calling" /\ w.intent = j
  BY <1>1, <1>2, CallTyped DEF Knows, CallType
<1>4. CASE j # i
  <2>1. Dispatches(i)' = Dispatches(i) /\ Confirmed(i)' = Confirmed(i)
    BY <1>2, <1>3, <1>4, StatesWritten, OtherRows
  <2>2. QED BY <1>2, <1>3, <1>4, <2>1, PlainWithin
<1>5. CASE j = i
  <2>1. Cardinality(Dispatches(i)') = Cardinality(Dispatches(i)) + 1 /\ ~Confirmed(i)'
    BY <1>2, <1>5, StatesWritten, OwnRow
  <2>2. i \notin Effective
    <3>1. trail[i] = <<"PREPARED">>
      BY <1>2, <1>5 DEF SoeIInv, TrailShape
    <3>2. Dispatches(i) = {}
      BY <3>1, LenOne DEF Dispatches
    <3>3. QED BY <3>2 DEF Committed
  <2>3. c \notin At(i, "calling")
    BY <1>2 DEF At
  <2>4. /\ At(i, "calling")' = At(i, "calling") \union {c}
        /\ At(i, "absent")' \subseteq At(i, "absent")
    <3>1. \A p \in {"calling", "looking", "absent"} :
            At(i, p)' = IF w.pc = p /\ w.intent = i THEN At(i, p) \union {c} ELSE At(i, p) \ {c}
      BY <1>2, Places
    <3>2. QED BY <1>3, <1>5, <3>1
  <2>5. QED BY <1>2, <2>1, <2>2, <2>3, <2>4, DispatchWithin
<1>6. QED BY <1>4, <1>5

(* The request reaches the service.                                        *)
LEMMA ServiceWithin ==
  ASSUME SoeIInv, SoeIInv', NEW i \in Intent, Within(i), NEW c \in Caller,
         Acknowledged(c) \/ AcknowledgementLost(c)
  PROVE  Within(i)'
<1>1. PICK j, w, e : /\ j = call[c].intent /\ e = effects'[j] /\ Enter(c, w)
                     /\ \/ w = [call[c] EXCEPT !.pc = "sealing", !.read = "DISPATCHING", !.effect = e]
                        \/ w = [call[c] EXCEPT !.pc = "uncertain"]
  BY DEF Acknowledged, AcknowledgementLost, To
<1>2. call[c].pc = "calling" /\ Apply(j) /\ UNCHANGED local /\ exceptions' = exceptions
  BY <1>1 DEF Acknowledged, AcknowledgementLost
<1>3. j \in Intent /\ call[c] \in CallType
  BY <1>1, <1>2, CallTyped DEF Knows
<1>4. w.pc \notin {"calling", "looking", "absent"}
  BY <1>1, <1>3 DEF CallType
<1>5. Dispatches(i)' = Dispatches(i) /\ Confirmed(i)' = Confirmed(i)
  BY <1>2 DEF local, Dispatches, Confirmed, State
<1>6. CASE j # i
  <2>1. effects'[i] = effects[i]
    BY <1>2, <1>3, <1>6 DEF Apply, SoeIInv, SoeTypeOK
  <2>2. i \in Effective' <=> i \in Effective
    BY <2>1 DEF Effective
  <2>3. QED BY <1>1, <1>2, <1>4, <1>5, <1>6, <2>2, PlainWithin
<1>7. CASE j = i
  <2>1. i \in Effective'
    BY <1>2, <1>7, ServiceStep
  <2>2. \A p \in {"calling", "looking", "absent"} : At(i, p)' = At(i, p) \ {c}
    BY <1>1, <1>4, Places
  <2>3. c \notin At(i, "absent")
    BY <1>2 DEF At
  <2>4. At(i, "absent")' = At(i, "absent") /\ Busy(i)' \subseteq Busy(i)
    BY <2>2, <2>3 DEF Busy
  <2>5. QED BY <1>2, <1>5, <2>1, <2>4, EffectWithin
<1>8. QED BY <1>6, <1>7

(* A lookup finds an intent absent only while it has no effect.            *)
LEMMA LookupWithin ==
  ASSUME SoeIInv, SoeIInv', NEW i \in Intent, Within(i), NEW c \in Caller, Lookup(c)
  PROVE  Within(i)'
<1>1. PICK j, e : j = call[c].intent /\ e = effects[j]
  OBVIOUS
<1>2. PICK w : w = [call[c] EXCEPT !.pc = IF e = NoEffect THEN "absent" ELSE "sealing", !.effect = e]
  OBVIOUS
<1>3. /\ call[c].pc = "looking" /\ Enter(c, w) /\ UNCHANGED local /\ exceptions' = exceptions
      /\ (i \in Effective' <=> i \in Effective)
  BY <1>1, <1>2 DEF Lookup, external, Effective
<1>4. j \in Intent /\ call[c] \in CallType
  BY <1>1, <1>3, CallTyped DEF Knows
<1>5. w.intent = j /\ w.pc = IF e = NoEffect THEN "absent" ELSE "sealing"
  BY <1>1, <1>2, <1>4 DEF CallType
<1>6. Dispatches(i)' = Dispatches(i) /\ Confirmed(i)' = Confirmed(i)
  BY <1>3 DEF local, Dispatches, Confirmed, State
<1>7. CASE j # i \/ e # NoEffect
  BY <1>3, <1>5, <1>6, <1>7, PlainWithin
<1>8. CASE j = i /\ e = NoEffect
  <2>1. i \notin Effective /\ c \in At(i, "looking") /\ c \notin At(i, "calling")
    BY <1>1, <1>3, <1>8 DEF Effective, At
  <2>2. \A p \in {"calling", "looking", "absent"} :
          At(i, p)' = IF w.pc = p /\ w.intent = i THEN At(i, p) \union {c} ELSE At(i, p) \ {c}
    BY <1>3, Places
  <2>3. At(i, "calling")' = At(i, "calling") /\ Busy(i)' \subseteq Busy(i)
    BY <1>5, <1>8, <2>1, <2>2 DEF Busy
  <2>4. PendingDispatches(i)' /\ ConfirmationsLeft(i)' /\ SomebodyFree(i)'
    BY <1>3, <1>6, <2>1, <2>3 DEF Within, PendingDispatches, ConfirmationsLeft, SomebodyFree
  <2>5. QED BY <2>4 DEF Within
<1>9. QED BY <1>7, <1>8

(* A confirmation is one absent answer less, and its caller is free.       *)
LEMMA ConfirmWithin ==
  ASSUME SoeIInv, SoeIInv', NEW i \in Intent, Within(i), NEW c \in Caller,
         ConfirmNoEffect(c), call[c].intent = i, State(i) = call[c].read
  PROVE  Within(i)'
<1>1. /\ call[c].pc = "absent" /\ Enter(c, Waiting) /\ Move(i, "NO_EFFECT_CONFIRMED")
      /\ exceptions' = exceptions /\ (i \in Effective' <=> i \in Effective)
  BY DEF ConfirmNoEffect, Leave, external, Effective
<1>2. ~Confirmed(i)
  BY <1>1, CallTyped DEF Knows, Confirmed
<1>3. Dispatches(i)' = Dispatches(i)
  BY <1>1, StatesWritten, OwnRow
<1>4. \A p \in {"calling", "looking", "absent"} : At(i, p)' = At(i, p) \ {c}
  <2>1. Waiting.pc \notin {"calling", "looking", "absent"}
    BY DEF Waiting
  <2>2. QED BY <1>1, <2>1, Places
<1>5. c \in At(i, "absent") /\ c \notin At(i, "calling")
  BY <1>1 DEF At
<1>6. At(i, "calling")' = At(i, "calling") /\ c \notin Busy(i)'
  BY <1>4, <1>5 DEF Busy
<1>7. Cardinality(At(i, "absent")') = Cardinality(At(i, "absent")) - 1
  <2>1. PICK Q : Q = At(i, "absent")
    OBVIOUS
  <2>2. IsFiniteSet(Q)
    <3>1. Q \subseteq Caller
      BY <2>1 DEF At
    <3>2. QED BY <3>1, SomeCallers
  <2>3. Cardinality(Q \ {c}) = Cardinality(Q) - 1
    BY <1>5, <2>1, <2>2, FS_RemoveElement
  <2>4. QED BY <1>4, <2>1, <2>3
<1>8. /\ Cardinality(Caller) \in Nat /\ exceptions \in Nat /\ Cardinality(Dispatches(i)) \in Nat
      /\ Cardinality(At(i, "absent")) \in Nat
  BY CountsAreNat
<1>9. PendingDispatches(i)'
  BY <1>1, <1>3, <1>6 DEF Within, PendingDispatches
<1>10. ConfirmationsLeft(i)'
  BY <1>1, <1>2, <1>3, <1>7, <1>8 DEF Within, ConfirmationsLeft
<1>11. SomebodyFree(i)'
  BY <1>6, SMTT(30) DEF SomebodyFree
<1>12. QED BY <1>9, <1>10, <1>11 DEF Within

(* The other ends of a call: nothing is dispatched and nothing confirmed.  *)
LEMMA EndWithin ==
  ASSUME SoeIInv, SoeIInv', NEW i \in Intent, Within(i), NEW c \in Caller,
         Uncertain(c) \/ ConfirmNoEffect(c) \/ Seal(c)
  PROVE  Within(i)'
<1>1. PICK j : j = call[c].intent
  OBVIOUS
<1>2. /\ call[c].pc \in {"uncertain", "absent", "sealing"} /\ Enter(c, Waiting)
      /\ exceptions' = exceptions /\ UNCHANGED effects
  BY DEF Uncertain, ConfirmNoEffect, Seal, Leave, external
<1>3. (i \in Effective' <=> i \in Effective) /\ Waiting.pc \notin {"calling", "looking", "absent"}
  BY <1>2 DEF Effective, Waiting
<1>4. j \in Intent /\ Knows(call[c]) /\ call[c] \in CallType
  BY <1>1, <1>2, CallTyped DEF Knows
<1>5. ASSUME Dispatches(i)' = Dispatches(i), Confirmed(i)' => Confirmed(i) PROVE Within(i)'
  BY <1>2, <1>3, <1>5, PlainWithin
<1>6. CASE UNCHANGED local
  <2>1. Dispatches(i)' = Dispatches(i) /\ Confirmed(i)' = Confirmed(i)
    BY <1>6 DEF local, Dispatches, Confirmed, State
  <2>2. QED BY <1>5, <2>1
<1>7. CASE Move(j, "UNCERTAIN")
  <2>1. Dispatches(i)' = Dispatches(i) /\ (Confirmed(i)' => Confirmed(i))
    BY <1>4, <1>7, StatesWritten, OtherRows, OwnRow
  <2>2. QED BY <1>5, <2>1
<1>8. CASE ConfirmNoEffect(c) /\ State(j) = call[c].read /\ Move(j, "NO_EFFECT_CONFIRMED")
  <2>1. CASE j = i
    BY <1>1, <1>8, <2>1, ConfirmWithin
  <2>2. CASE j # i
    <3>1. Dispatches(i)' = Dispatches(i) /\ Confirmed(i)' = Confirmed(i)
      BY <1>4, <1>8, <2>2, StatesWritten, OtherRows
    <3>2. QED BY <1>5, <3>1
  <2>3. QED BY <2>1, <2>2
<1>9. CASE /\ Seal(c) /\ State(j) = call[c].read
           /\ operation' = [operation EXCEPT ![j] = [state |-> "SEALED", sealed |-> call[c].effect]]
           /\ trail' = [trail EXCEPT ![j] = @ \o <<"EFFECT_OBSERVED", "RECONCILED", "SEALED">>]
  <2>1. PICK e : e = call[c].effect
    OBVIOUS
  <2>2. /\ j \in Effective /\ e = effects[j] /\ e \in Nat
        /\ State(j) \in {"DISPATCHING", "UNCERTAIN"}
    BY <1>1, <1>4, <1>9, <2>1 DEF Seal, Knows, CallType
  <2>3. Dispatches(i)' = Dispatches(i)
    BY <1>2, <1>4, <1>9, <2>1, <2>2, LocalFromIInv, SealKeeps
  <2>4. Confirmed(i)' => Confirmed(i)
    BY <1>4, <1>9, LocalFromIInv DEF LocalOK, Confirmed, State
  <2>5. QED BY <1>5, <2>3, <2>4
<1>10. QED BY <1>1, <1>6, <1>7, <1>8, <1>9 DEF Uncertain, ConfirmNoEffect, Seal

(* An exception pays for the request its caller gives up.                  *)
LEMMA RaiseWithin ==
  ASSUME SoeIInv, SoeIInv', NEW i \in Intent, Within(i), NEW c \in Caller, Raise(c)
  PROVE  Within(i)'
<1>1. Enter(c, Waiting) /\ exceptions' = exceptions + 1 /\ UNCHANGED local /\ UNCHANGED effects
  BY DEF Raise, Leave, external
<1>2. Dispatches(i)' = Dispatches(i) /\ Confirmed(i)' = Confirmed(i)
      /\ (i \in Effective' <=> i \in Effective)
  BY <1>1 DEF local, Dispatches, Confirmed, State, Effective
<1>3. \A p \in {"calling", "looking", "absent"} : At(i, p)' = At(i, p) \ {c}
  <2>1. Waiting.pc \notin {"calling", "looking", "absent"}
    BY DEF Waiting
  <2>2. QED BY <1>1, <2>1, Places
<1>4. /\ At(i, "calling") \subseteq At(i, "calling")' \union {c}
      /\ At(i, "absent")' \subseteq At(i, "absent") /\ Busy(i)' \subseteq Busy(i)
  BY <1>3 DEF Busy
<1>5. QED BY <1>1, <1>2, <1>4, QuietWithin

(* An effect follows a dispatch: the refinement's steps keep that.         *)
LEMMA EffectsCommitted == SoeSpec => [](Effective \subseteq Committed)
<1>1. SoeInit => Effective \subseteq Committed
  BY DEF SoeInit, Effective
<1>2. ASSUME Effective \subseteq Committed, SoeIInv, [SoeNext]_soeVars
      PROVE  (Effective \subseteq Committed)'
  <2>1. \/ UNCHANGED <<Committed, Effective, Recorded>>
        \/ \E i \in Intent :
             \/ Committed' = Committed \union {i} /\ Effective' = Effective
             \/ i \in Committed /\ Effective' = Effective \union {i} /\ Committed' = Committed
             \/ Committed' = Committed /\ Effective' = Effective
    BY <1>2, RefineStep
       DEF Outcome!Next, Outcome!vars, Outcome!Commit, Outcome!Happen, Outcome!Record,
           Committed, Recorded
  <2>2. QED BY <1>2, <2>1
<1>3. QED BY <1>1, <1>2, SoeInvariant, PTL DEF SoeSpec

(* Nobody is dispatched and nobody looks when the machine starts.          *)
LEMMA RetriesInit == SoeInit => RetriesWithin
<1> SUFFICES ASSUME SoeInit, NEW i \in Intent PROVE Within(i)
  BY DEF RetriesWithin
<1>1. Dispatches(i) = {} /\ At(i, "calling") = {} /\ i \notin Effective /\ ~Confirmed(i)
  BY DEF SoeInit, Dispatches, At, Effective, Confirmed, State, Waiting
<1>2. Cardinality(Dispatches(i)) = 0 /\ Cardinality(At(i, "calling")) = 0 /\ exceptions = 0
  BY <1>1, FS_EmptySet DEF SoeInit
<1>3. QED BY <1>1, <1>2 DEF Within, PendingDispatches, ConfirmationsLeft, SomebodyFree

(* Every step keeps the dispatches within what callers and exceptions pay  *)
(* for.                                                                    *)
LEMMA RetriesNext ==
  ASSUME SoeIInv, SoeIInv', Effective \subseteq Committed, RetriesWithin, [SoeNext]_soeVars
  PROVE  RetriesWithin'
<1> SUFFICES ASSUME NEW i \in Intent PROVE Within(i)'
  BY DEF RetriesWithin
<1>1. Within(i)
  BY DEF RetriesWithin
<1>2. CASE UNCHANGED soeVars
  <2>1. UNCHANGED <<operation, trail, effects, call, exceptions>>
    BY <1>2 DEF soeVars
  <2>2. /\ Dispatches(i)' = Dispatches(i) /\ Confirmed(i)' = Confirmed(i)
        /\ (i \in Effective' <=> i \in Effective) /\ \A p : At(i, p)' = At(i, p)
    BY <2>1 DEF Dispatches, Confirmed, State, Effective, At
  <2>3. Busy(i)' = Busy(i)
    BY <2>2 DEF Busy
  <2>4. QED BY <1>1, <2>1, <2>2, <2>3, QuietWithin
<1>3. CASE SoeNext
  <2>1. PICK c \in Caller :
          \/ Dispatch(c) \/ Uncertain(c) \/ ConfirmNoEffect(c) \/ Seal(c)
          \/ Acknowledged(c) \/ AcknowledgementLost(c) \/ Lookup(c) \/ Raise(c)
          \/ \E j \in Intent : Prepare(c, j) \/ Redispatch(c, j) \/ Reconcile(c, j)
    BY <1>3 DEF SoeNext, CallStep
  <2>2. QED BY <1>1, <2>1, StartWithin, FirstDispatchWithin, ServiceWithin, LookupWithin,
               EndWithin, RaiseWithin
<1>4. QED BY <1>2, <1>3

(* However callers race, look and redispatch: an intent is dispatched at   *)
(* most once per caller, and once more for each call that ended in an      *)
(* exception (execute, redispatch_after_no_effect).                        *)
THEOREM RetryBound == SoeSpec => []RetriesBounded
<1>1. SoeIInv /\ SoeIInv' /\ Effective \subseteq Committed /\ RetriesWithin /\ [SoeNext]_soeVars
        => RetriesWithin'
  BY RetriesNext
<1>2. SoeSpec => []RetriesWithin
  BY <1>1, RetriesInit, EffectsCommitted, SoeInvariant, PTL DEF SoeSpec
<1>3. SoeIInv /\ RetriesWithin => RetriesBounded
  <2> SUFFICES ASSUME SoeIInv, RetriesWithin, NEW i \in Intent
               PROVE  Cardinality(Dispatches(i)) <= Cardinality(Caller) + exceptions
    BY DEF RetriesBounded
  <2>1. Cardinality(Dispatches(i)) \in Nat
    BY CountsTyped DEF SoeIInv
  <2>2. At(i, "calling") \subseteq Caller /\ At(i, "absent") \subseteq Caller
    BY DEF At
  <2>3. /\ Cardinality(Caller) \in Nat /\ Cardinality(At(i, "calling")) \in Nat
        /\ Cardinality(At(i, "absent")) \in Nat
        /\ Cardinality(At(i, "calling")) <= Cardinality(Caller)
    BY <2>2, SomeCallers
  <2>4. exceptions \in Nat
    BY SoeAssumption DEF SoeIInv, SoeTypeOK
  <2>5. PendingDispatches(i) /\ ConfirmationsLeft(i)
    BY DEF RetriesWithin, Within
  <2>6. QED BY <2>1, <2>3, <2>4, <2>5 DEF PendingDispatches, ConfirmationsLeft
<1>4. QED BY <1>2, <1>3, SoeInvariant, PTL

-----------------------------------------------------------------------------
(* A sealed row is final: no transition, no further effect of its intent.  *)
SealedStays ==
  \A i \in Intent : State(i) = "SEALED" =>
    operation'[i] = operation[i] /\ trail'[i] = trail[i] /\ effects'[i] = effects[i]

(* Every transition starts from a state that is not SEALED.                *)
LEMMA SealedStep == SoeIInv /\ [SoeNext]_soeVars => SealedStays
<1> SUFFICES ASSUME SoeIInv, [SoeNext]_soeVars, NEW i \in Intent, State(i) = "SEALED"
             PROVE  operation'[i] = operation[i] /\ trail'[i] = trail[i] /\ effects'[i] = effects[i]
  BY DEF SealedStays
<1>1. i \in Effective /\ effects \in [Intent -> Nat]
  BY DEF SoeIInv, SealsTrue, SoeTypeOK
<1>2. ASSUME UNCHANGED local PROVE operation'[i] = operation[i] /\ trail'[i] = trail[i]
  BY <1>2 DEF local
<1>3. ASSUME NEW j \in Intent, j # i, NEW s \in TrailStates \intersect RowStates, Move(j, s)
      PROVE  operation'[i] = operation[i] /\ trail'[i] = trail[i]
  BY <1>3, LocalFromIInv, Moved
<1>4. CASE UNCHANGED soeVars
  BY <1>4 DEF soeVars
<1>5. ASSUME NEW c \in Caller, NEW j \in Intent, Prepare(c, j) \/ Redispatch(c, j) \/ Reconcile(c, j)
      PROVE  operation'[i] = operation[i] /\ trail'[i] = trail[i] /\ effects'[i] = effects[i]
  <2>1. effects' = effects /\ j # i
    BY <1>5 DEF Prepare, Redispatch, Reconcile, external
  <2>2. UNCHANGED local \/ \E s \in TrailStates \intersect RowStates : Move(j, s)
    BY <1>5, StatesWritten DEF Prepare, Redispatch, Reconcile
  <2>3. QED BY <1>2, <1>3, <2>1, <2>2
<1>6. ASSUME NEW c \in Caller, Acknowledged(c) \/ AcknowledgementLost(c)
      PROVE  operation'[i] = operation[i] /\ trail'[i] = trail[i] /\ effects'[i] = effects[i]
  <2>1. UNCHANGED local /\ Apply(call[c].intent)
    BY <1>6 DEF Acknowledged, AcknowledgementLost
  <2>2. effects'[i] = effects[i]
    BY <1>1, <2>1 DEF Apply, Effective
  <2>3. QED BY <1>2, <2>1, <2>2
<1>7. ASSUME NEW c \in Caller, Lookup(c) \/ Raise(c)
      PROVE  operation'[i] = operation[i] /\ trail'[i] = trail[i] /\ effects'[i] = effects[i]
  BY <1>7 DEF Lookup, Raise, local, external
<1>8. ASSUME NEW c \in Caller, Dispatch(c) \/ Uncertain(c) \/ ConfirmNoEffect(c)
      PROVE  operation'[i] = operation[i] /\ trail'[i] = trail[i] /\ effects'[i] = effects[i]
  <2>1. PICK j : j = call[c].intent
    OBVIOUS
  <2>2. effects' = effects /\ j \in Intent /\ Knows(call[c])
    BY <1>8, <2>1, CallTyped DEF Dispatch, Uncertain, ConfirmNoEffect, external, Knows
  <2>3. \/ UNCHANGED local
        \/ State(j) # "SEALED" /\ \E s \in TrailStates \intersect RowStates : Move(j, s)
    BY <1>8, <2>1, <2>2, StatesWritten DEF Dispatch, Uncertain, ConfirmNoEffect, Knows
  <2>4. QED BY <1>2, <1>3, <2>2, <2>3
<1>9. ASSUME NEW c \in Caller, Seal(c)
      PROVE  operation'[i] = operation[i] /\ trail'[i] = trail[i] /\ effects'[i] = effects[i]
  <2>1. PICK j : j = call[c].intent
    OBVIOUS
  <2>2. effects' = effects /\ j \in Intent /\ Knows(call[c]) /\ call[c].pc = "sealing"
    BY <1>9, <2>1, CallTyped DEF Seal, external, Knows
  <2>3. \/ UNCHANGED local
        \/ j # i /\ \E x, y : operation' = [operation EXCEPT ![j] = x] /\ trail' = [trail EXCEPT ![j] = y]
    BY <1>9, <2>1, <2>2 DEF Seal, Knows
  <2>4. operation \in [Intent -> RowType] /\ trail \in [Intent -> Seq(TrailStates)]
    BY LocalFromIInv DEF LocalOK
  <2>5. QED BY <1>2, <2>2, <2>3, <2>4
<1>10. CASE SoeNext
  <2>1. PICK c \in Caller :
          \/ Dispatch(c) \/ Uncertain(c) \/ ConfirmNoEffect(c) \/ Seal(c)
          \/ Acknowledged(c) \/ AcknowledgementLost(c) \/ Lookup(c) \/ Raise(c)
          \/ \E j \in Intent : Prepare(c, j) \/ Redispatch(c, j) \/ Reconcile(c, j)
    BY <1>10 DEF SoeNext, CallStep
  <2>2. QED BY <1>5, <1>6, <1>7, <1>8, <1>9, <2>1
<1>11. QED BY <1>4, <1>10

(* Once its row is sealed, no caller moves it and the service changes its  *)
(* effect no more, whatever calls were on their way (_seal_effect).        *)
THEOREM SealedFinal == SoeSpec => [][SealedStays]_soeVars
<1>1. SoeIInv /\ [SoeNext]_soeVars => [SealedStays]_soeVars
  BY SealedStep
<1>2. QED BY <1>1, SoeInvariant, PTL DEF SoeSpec

-----------------------------------------------------------------------------
(* The executor and the conformance verdict.                               *)
USE ConformanceAssumption DEF ObservationRecord, DecisionRecord

(* What execute has checked for a call or a row.                           *)
Sound(i, d, now) ==
  /\ i \in Demo /\ d \in Decision /\ now \in Int
  /\ Authorized(i, d, now)

RunsSound ==
  \A r \in Runner : runs[r] # None =>
    /\ Sound(runs[r].intent, runs[r].decision, runs[r].now)
    /\ runs[r].now <= clock

RowsSound ==
  \A i \in Executed :
    /\ executions[i].obs.id \in ObsId
    /\ executions[i].obs.before \in Int
    /\ executions[i].obs = Observed(executions[i].obs.id, i, executions[i].obs.at,
                                    executions[i].obs.before)
    /\ Sound(i, executions[i].decision, executions[i].obs.at)
    /\ executions[i].obs.at <= clock

ReceiptsSound ==
  /\ Chained(receipts)
  /\ \A n \in DOMAIN receipts :
       /\ receipts[n].at \in Int /\ receipts[n].at <= clock
       /\ receipts[n].obs \in Observation
       /\ receipts[n].obs \in Foreign \/ receipts[n].obs.at <= receipts[n].at
  /\ \A n \in 2..Len(receipts) : receipts[n - 1].at <= receipts[n].at

Shapes ==
  /\ clock \in Int /\ demoCounter \in Int /\ demoCounter >= 41
  /\ executions = [i \in Asked |-> executions[i]]
  /\ runs = [r \in Runner |-> runs[r]]
  /\ \E S : receipts \in Seq(S)

ConformIInv == Shapes /\ RunsSound /\ RowsSound /\ ReceiptsSound /\ OneExecutionEach

-----------------------------------------------------------------------------
(* The record of an execution and the record of a call are not None.       *)
LEMMA RecordsExist ==
  ASSUME NEW i \in Demo, NEW d \in Decision, NEW now \in Int, NEW id \in ObsId, NEW b \in Int
  PROVE  /\ [intent |-> i, decision |-> d, now |-> now] # None
         /\ [decision |-> d, obs |-> Observed(id, i, now, b)] # None
         /\ Observed(id, i, now, b) # None /\ d # None
<1>1. Observed(id, i, now, b) \in ObservationRecord
  BY DEF Observed
<1>2. [intent |-> i, decision |-> d, now |-> now] \in [intent : Asked, decision : Decision, now : Int]
  OBVIOUS
<1>3. [decision |-> d, obs |-> Observed(id, i, now, b)] \in [decision : Decision, obs : ObservationRecord]
  BY <1>1
<1>4. QED BY <1>1, <1>2, <1>3

(* Sequences over a set are sequences over every larger one.               *)
LEMMA AppendAny ==
  ASSUME NEW S, NEW s \in Seq(S), NEW x
  PROVE  /\ Append(s, x) \in Seq(S \union {x})
         /\ Len(Append(s, x)) = Len(s) + 1
         /\ DOMAIN Append(s, x) = 1..Len(s) + 1 /\ DOMAIN s = 1..Len(s) /\ Len(s) \in Nat
         /\ \A n \in 1..Len(s) : Append(s, x)[n] = s[n]
         /\ Append(s, x)[Len(s) + 1] = x
<1>1. s \in Seq(S \union {x})
  BY SMT
<1>2. QED BY <1>1

-----------------------------------------------------------------------------
(* The inductive invariant holds initially.                                *)
LEMMA ConformInitial == ConformInit => ConformIInv
<1> SUFFICES ASSUME ConformInit PROVE ConformIInv
  OBVIOUS
<1>1. Executed = {}
  BY DEF ConformInit, Executed
<1>2. Shapes
  <2>1. receipts \in Seq({})
    BY DEF ConformInit
  <2>2. QED BY <2>1 DEF ConformInit, Shapes
<1>3. ReceiptsSound
  BY DEF ConformInit, ReceiptsSound, Chained
<1>4. OneExecutionEach
  BY <1>1 DEF ConformInit, OneExecutionEach
<1>5. QED BY <1>1, <1>2, <1>3, <1>4 DEF ConformInit, ConformIInv, RunsSound, RowsSound

(* Time passes: what was checked was checked earlier.                      *)
LEMMA TickKeeps == ASSUME ConformIInv, Tick PROVE ConformIInv'
<1> USE DEF Tick
<1>1. Executed' = Executed /\ Observation' = Observation
  BY DEF Executed, Observation
<1>2. Shapes'
  BY DEF ConformIInv, Shapes
<1>3. clock <= clock' /\ clock \in Int /\ clock' \in Int
  BY DEF ConformIInv, Shapes
<1>4. RunsSound'
  BY <1>3 DEF ConformIInv, RunsSound, Sound
<1>5. RowsSound'
  BY <1>1, <1>3 DEF ConformIInv, RowsSound, Sound
<1>6. ReceiptsSound'
  BY <1>1, <1>3 DEF ConformIInv, ReceiptsSound
<1>7. OneExecutionEach'
  BY <1>1 DEF ConformIInv, OneExecutionEach
<1>8. QED BY <1>2, <1>4, <1>5, <1>6, <1>7 DEF ConformIInv

(* A call that passed the checks is sound at the time it read.             *)
LEMMA CheckKeeps ==
  ASSUME ConformIInv, NEW r \in Runner, NEW i \in Asked, NEW d \in Decision, Check(r, i, d)
  PROVE  ConformIInv'
<1> USE DEF Check
<1>1. Executed' = Executed /\ Observation' = Observation
  BY DEF Executed, Observation
<1>2. Shapes'
  BY DEF ConformIInv, Shapes
<1>3. RunsSound'
  <2>1. Sound(i, d, clock) /\ clock <= clock
    BY DEF ConformIInv, Shapes, Sound
  <2>2. /\ runs'[r] = [intent |-> i, decision |-> d, now |-> clock]
        /\ \A q \in Runner : q # r => runs'[q] = runs[q]
    BY DEF ConformIInv, Shapes
  <2>3. QED BY <2>1, <2>2 DEF ConformIInv, RunsSound
<1>4. RowsSound' /\ ReceiptsSound' /\ OneExecutionEach'
  BY <1>1 DEF ConformIInv, RowsSound, ReceiptsSound, OneExecutionEach
<1>5. QED BY <1>2, <1>3, <1>4 DEF ConformIInv

(* A call that is rolled back leaves nothing.                              *)
LEMMA RollBackKeeps ==
  ASSUME ConformIInv, NEW r \in Runner, RollBack(r) PROVE ConformIInv'
<1> USE DEF RollBack
<1>1. Executed' = Executed /\ Observation' = Observation
  BY DEF Executed, Observation
<1>2. Shapes'
  BY DEF ConformIInv, Shapes
<1>3. RunsSound'
  BY DEF ConformIInv, Shapes, RunsSound, Sound
<1>4. RowsSound' /\ ReceiptsSound' /\ OneExecutionEach'
  BY <1>1 DEF ConformIInv, RowsSound, ReceiptsSound, OneExecutionEach
<1>5. QED BY <1>2, <1>3, <1>4 DEF ConformIInv

(* The new row takes the counter's step and an id that no row holds.       *)
LEMMA CommitKeeps ==
  ASSUME ConformIInv, NEW r \in Runner, NEW id \in ObsId, Commit(r, id)
  PROVE  ConformIInv'
<1> DEFINE i == runs[r].intent
           d == runs[r].decision
           now == runs[r].now
           o == Observed(id, i, now, demoCounter)
<1>1. Sound(i, d, now) /\ now <= clock /\ i \in Asked /\ demoCounter \in Int
  BY DEF Commit, ConformIInv, RunsSound, Shapes, Sound
<1>2. /\ executions' = [executions EXCEPT ![i] = [decision |-> d, obs |-> o]]
      /\ demoCounter' = demoCounter + 1 /\ clock' = clock /\ receipts' = receipts
      /\ runs' = [runs EXCEPT ![r] = None]
      /\ i \notin Executed /\ \A j \in Executed : executions[j].obs.id # id
  BY <1>1 DEF Commit, Unconsumed, Executed
<1>3. [decision |-> d, obs |-> o] # None
  BY <1>1, RecordsExist DEF Sound
<1>4. /\ executions'[i] = [decision |-> d, obs |-> o]
      /\ \A j \in Asked : j # i => executions'[j] = executions[j]
      /\ executions' = [j \in Asked |-> executions'[j]]
  BY <1>1, <1>2 DEF ConformIInv, Shapes
<1>5. Executed' = Executed \union {i}
  BY <1>1, <1>3, <1>4 DEF Executed
<1>6. \A j \in Executed : j \in Asked /\ j # i /\ executions'[j] = executions[j]
  BY <1>2, <1>4 DEF Executed
<1>7. /\ o.id = id /\ o.intent = i /\ o.at = now /\ o.before = demoCounter
      /\ executions'[i].obs = o /\ executions'[i].decision = d
  BY <1>4 DEF Observed
<1>8. Shapes'
  <2>1. runs' = [q \in Runner |-> runs'[q]]
    BY <1>2 DEF ConformIInv, Shapes
  <2>2. demoCounter' \in Int /\ demoCounter' >= 41
    BY <1>1, <1>2 DEF ConformIInv, Shapes
  <2>3. QED BY <2>1, <2>2, <1>2, <1>4 DEF ConformIInv, Shapes
<1>9. RunsSound'
  BY <1>2 DEF ConformIInv, Shapes, RunsSound
<1>10. RowsSound'
  <2> SUFFICES ASSUME NEW j \in Executed'
               PROVE  /\ executions'[j].obs.id \in ObsId
                      /\ executions'[j].obs.before \in Int
                      /\ executions'[j].obs = Observed(executions'[j].obs.id, j,
                              executions'[j].obs.at, executions'[j].obs.before)
                      /\ Sound(j, executions'[j].decision, executions'[j].obs.at)
                      /\ executions'[j].obs.at <= clock'
    BY DEF RowsSound
  <2>1. CASE j = i
    BY <2>1, <1>1, <1>2, <1>7
  <2>2. CASE j \in Executed
    BY <2>2, <1>2, <1>6 DEF ConformIInv, RowsSound
  <2>3. QED BY <2>1, <2>2, <1>5
<1>11. ReceiptsSound'
  <2>1. Observation \subseteq Observation'
    BY <1>5, <1>6 DEF Observation
  <2>2. QED BY <2>1, <1>2 DEF ConformIInv, ReceiptsSound, Chained
<1>12. OneExecutionEach'
  <2>1. \A j \in Executed : /\ executions[j].obs.before \in 41..demoCounter - 1
                            /\ executions[j].obs.id # id
    BY <1>2 DEF ConformIInv, OneExecutionEach
  <2>2. {executions'[j].obs.before : j \in Executed'}
          = {executions[j].obs.before : j \in Executed} \union {demoCounter}
    BY <1>5, <1>6, <1>7
  <2>3. (41..demoCounter - 1) \union {demoCounter} = 41..demoCounter' - 1
    BY <1>1, <1>2 DEF ConformIInv, Shapes
  <2>4. {executions'[j].obs.before : j \in Executed'} = 41..demoCounter' - 1
    BY <2>2, <2>3 DEF ConformIInv, OneExecutionEach
  <2>5. ASSUME NEW j \in Executed', NEW k \in Executed',
               \/ executions'[j].obs.before = executions'[k].obs.before
               \/ executions'[j].obs.id = executions'[k].obs.id
        PROVE  j = k
    <3>1. CASE j \in Executed /\ k \in Executed
      BY <2>5, <3>1, <1>6 DEF ConformIInv, OneExecutionEach
    <3>2. CASE j \in Executed /\ k = i
      BY <2>5, <3>2, <2>1, <1>1, <1>6, <1>7
    <3>3. CASE j = i /\ k \in Executed
      BY <2>5, <3>3, <2>1, <1>1, <1>6, <1>7
    <3>4. QED BY <3>1, <3>2, <3>3, <1>5
  <2>6. QED BY <2>4, <2>5 DEF OneExecutionEach
<1>13. QED BY <1>8, <1>9, <1>10, <1>11, <1>12 DEF ConformIInv

(* A receipt is made now, after the observation of any row it binds.       *)
LEMMA EmitKeeps ==
  ASSUME ConformIInv, NEW i \in Asked, NEW o \in Observation, EmitReceipt(i, o)
  PROVE  ConformIInv'
<1> DEFINE x == [intent |-> i, obs |-> o, at |-> clock,
                 prev |-> IF receipts = << >> THEN None ELSE receipts[Len(receipts)]]
<1>1. receipts' = Append(receipts, x) /\ UNCHANGED <<clock, demoCounter, executions, runs>>
  BY DEF EmitReceipt
<1>2. PICK S : receipts \in Seq(S)
  BY DEF ConformIInv, Shapes
<1> DEFINE n == Len(receipts)
<1>3. /\ receipts' \in Seq(S \union {x}) /\ Len(receipts') = n + 1
      /\ DOMAIN receipts' = 1..n + 1 /\ DOMAIN receipts = 1..n /\ n \in Nat
      /\ \A k \in 1..n : receipts'[k] = receipts[k]
      /\ receipts'[n + 1] = x
  BY <1>1, <1>2, AppendAny
<1>4. Executed' = Executed /\ Observation' = Observation
  BY <1>1 DEF Executed, Observation
<1>5. Shapes' /\ RunsSound' /\ RowsSound' /\ OneExecutionEach'
  <2>1. Shapes'
    BY <1>1, <1>3 DEF ConformIInv, Shapes
  <2>2. RunsSound' /\ RowsSound' /\ OneExecutionEach'
    BY <1>1, <1>4 DEF ConformIInv, RunsSound, RowsSound, OneExecutionEach
  <2>3. QED BY <2>1, <2>2
<1>6. Chained(receipts')
  <2> SUFFICES ASSUME NEW k \in 1..n + 1
               PROVE  receipts'[k].prev = IF k = 1 THEN None ELSE receipts'[k - 1]
    BY <1>3 DEF Chained
  <2>1. CASE k = n + 1
    <3>1. n = 0 <=> receipts = << >>
      BY <1>2
    <3>2. x.prev = IF n = 0 THEN None ELSE receipts[n]
      BY <3>1
    <3>3. QED BY <2>1, <3>2, <1>3
  <2>2. CASE k \in 1..n
    <3>1. receipts[k].prev = IF k = 1 THEN None ELSE receipts[k - 1]
      BY <2>2, <1>3 DEF ConformIInv, ReceiptsSound, Chained
    <3>2. k # 1 => k - 1 \in 1..n
      BY <2>2, <1>3
    <3>3. QED BY <3>1, <3>2, <2>2, <1>3
  <2>3. QED BY <2>1, <2>2, <1>3
<1>7. ReceiptsSound'
  <2>1. /\ x.at = clock /\ x.obs = o /\ clock \in Int
        /\ o \in Foreign \/ o.at <= clock
    BY DEF ConformIInv, Shapes, RowsSound, Sound, Observation
  <2>2. ASSUME NEW k \in 1..n + 1
        PROVE  /\ receipts'[k].at \in Int /\ receipts'[k].at <= clock
               /\ receipts'[k].obs \in Observation
               /\ receipts'[k].obs \in Foreign \/ receipts'[k].obs.at <= receipts'[k].at
    <3>1. CASE k = n + 1
      BY <3>1, <2>1, <1>3
    <3>2. CASE k \in 1..n
      BY <3>2, <1>3 DEF ConformIInv, ReceiptsSound
    <3>3. QED BY <3>1, <3>2, <1>3
  <2>3. ASSUME NEW k \in 2..n + 1 PROVE receipts'[k - 1].at <= receipts'[k].at
    <3>1. k - 1 \in 1..n
      BY <1>3
    <3>2. CASE k = n + 1
      <4>1. receipts[n].at <= clock /\ k - 1 = n /\ n \in DOMAIN receipts
        BY <3>1, <3>2, <1>3 DEF ConformIInv, ReceiptsSound
      <4>2. receipts'[k - 1] = receipts[n] /\ receipts'[k] = x
        BY <4>1, <3>2, <1>3
      <4>3. QED BY <4>1, <4>2, <2>1
    <3>3. CASE k \in 2..n
      BY <3>1, <3>3, <1>3 DEF ConformIInv, ReceiptsSound
    <3>4. QED BY <3>2, <3>3, <1>3
  <2>4. QED BY <2>2, <2>3, <1>1, <1>3, <1>4, <1>6 DEF ReceiptsSound
<1>8. QED BY <1>5, <1>7 DEF ConformIInv

(* Every step keeps the invariant.                                         *)
LEMMA ConformStep == ConformIInv /\ [ConformNext]_conformVars => ConformIInv'
<1> SUFFICES ASSUME ConformIInv, [ConformNext]_conformVars PROVE ConformIInv'
  OBVIOUS
<1>1. CASE UNCHANGED conformVars
  BY <1>1 DEF conformVars, ConformIInv, Shapes, RunsSound, RowsSound, ReceiptsSound,
              Chained, OneExecutionEach, Executed, Observation
<1>2. CASE ConformNext
  BY <1>2, TickKeeps, CheckKeeps, CommitKeeps, RollBackKeeps, EmitKeeps DEF ConformNext
<1>3. QED BY <1>1, <1>2

(* The inductive invariant of the executor and its receipts.               *)
THEOREM ConformInvariant == ConformSpec => []ConformIInv
BY ConformInitial, ConformStep, PTL DEF ConformSpec

(* Each execution takes its own step of the counter, for any runners that  *)
(* checked the same intent at once.                                        *)
THEOREM ExecutionsCounted == ConformSpec => []OneExecutionEach
<1>1. ConformIInv => OneExecutionEach
  BY DEF ConformIInv
<1>2. QED BY <1>1, ConformInvariant, PTL
-----------------------------------------------------------------------------
(* A prefix of a sequence.                                                 *)
LEMMA PrefixFacts ==
  ASSUME NEW S, NEW s \in Seq(S), NEW n \in 1..Len(s)
  PROVE  LET rs == SubSeq(s, 1, n) IN
         /\ Len(rs) = n /\ DOMAIN rs = 1..n /\ rs # << >>
         /\ \A k \in 1..n : rs[k] = s[k]
<1>1. Len(SubSeq(s, 1, n)) = n /\ \A k \in 1..n : SubSeq(s, 1, n)[k] = s[k]
  BY SMT
<1>2. SubSeq(s, 1, n) \in Seq(S)
  BY SMT
<1>3. QED BY <1>1, <1>2

(* With receipts of its own, the executor's trace is judged MATCH while it *)
(* is fresh and STALE afterwards, at whatever time it committed.           *)
THEOREM TracesConform == ConformSpec => []HonestTraceConforms
<1>1. ASSUME ConformIInv PROVE HonestTraceConforms
  <2> SUFFICES ASSUME NEW i \in Executed, NEW n \in DOMAIN receipts,
                      NEW now \in clock..MaxTime + MaxAge + 1,
                      receipts[n].obs = executions[i].obs,
                      \A k \in 1..n : receipts[k].intent = i
               PROVE  Verdict(i, executions[i].decision, executions[i].obs,
                              SubSeq(receipts, 1, n), now)
                        = IF now - executions[i].obs.at > MaxAge THEN "STALE" ELSE "MATCH"
    BY DEF HonestTraceConforms
  <2> DEFINE d == executions[i].decision
             o == executions[i].obs
             rs == SubSeq(receipts, 1, n)
  <2>1. PICK S : receipts \in Seq(S)
    BY <1>1 DEF ConformIInv, Shapes
  <2>2. n \in 1..Len(receipts) /\ Len(receipts) \in Nat
    BY <2>1
  <2>3. Len(rs) = n /\ DOMAIN rs = 1..n /\ rs # << >> /\ \A k \in 1..n : rs[k] = receipts[k]
    BY <2>1, <2>2, PrefixFacts, SMTT(30)
  <2>4. /\ o = Observed(o.id, i, o.at, o.before) /\ o.id \in ObsId /\ o.before \in Int
        /\ Sound(i, d, o.at) /\ o.at <= clock /\ clock \in Int
    BY <1>1 DEF ConformIInv, RowsSound, Shapes
  <2>5. d # None /\ o # None
    BY <2>4, RecordsExist DEF Sound
  <2>6. /\ o.intent = i /\ o.inScope /\ o.counted
        /\ o.after = o.before + 1 /\ o.delta = 1 /\ o.id # None
    BY <2>4 DEF Observed
  <2>7. o \notin Foreign
    BY <2>6
  <2>8. o.at <= receipts[n].at /\ receipts[n].at <= clock /\ receipts[n].at \in Int
    BY <1>1, <2>7 DEF ConformIInv, ReceiptsSound
  <2>9. Chained(rs)
    <3>1. \A k \in 1..n : receipts[k].prev = IF k = 1 THEN None ELSE receipts[k - 1]
      BY <1>1, <2>1, <2>2, SMTT(30) DEF ConformIInv, ReceiptsSound, Chained
    <3>2. \A k \in 1..n : k # 1 => k - 1 \in 1..n
      BY <2>2
    <3>3. QED BY <3>1, <3>2, <2>3, ZenonT(60) DEF Chained
  <2>10. Chronological(rs, o, now)
    <3>1. \A k \in 2..n : receipts[k - 1].at <= receipts[k].at
      BY <1>1, <2>2 DEF ConformIInv, ReceiptsSound
    <3>2. \A k \in 2..n : k \in 1..n /\ k - 1 \in 1..n
      BY <2>2
    <3>3. rs[n].at <= now
      BY <2>2, <2>3, <2>4, <2>8
    <3>4. \A k \in 2..n : rs[k - 1].at <= rs[k].at
      BY <3>1, <3>2, <2>3
    <3>5. n \in 1..n /\ rs[n] = receipts[n] /\ Len(rs) = n
      BY <2>2, <2>3, SMTT(30)
    <3>6. o.at <= rs[n].at
      BY <3>5, <2>8
    <3> HIDE DEF rs
    <3>7. QED BY <3>3, <3>4, <3>5, <3>6 DEF Chronological
  <2>11. Bound(i, o, rs, now)
    BY <2>2, <2>3, <2>9, <2>10, SMTT(30) DEF Bound
  <2>12. d.intent = i /\ ~OutOfBounds(i, d, o) /\ i \in Demo /\ Incremented(o) /\ ~(o.at > now)
    BY <2>4, <2>6 DEF Sound, Authorized, OutOfBounds, InWindow, Incremented
  <2>13. QED BY <2>3, <2>5, <2>6, <2>11, <2>12 DEF Verdict, Judged
<1>2. QED BY <1>1, ConformInvariant, PTL

(* A later assessment of the same evidence, at any time after the first,   *)
(* differs only by a MATCH that became STALE, unless the first one was a   *)
(* CONFLICT.                                                               *)
VerdictsOnlyAge ==
  \A i \in Asked, d \in Decision \union {None}, o \in Observation \union {None} :
    \A now, later \in Int :
      LET first == Verdict(i, d, o, receipts, now)
          last == Verdict(i, d, o, receipts, later)
      IN now <= later => \/ last = first
                         \/ first = "MATCH" /\ last = "STALE"
                         \/ first = "CONFLICT"

(* Nothing in the verdict but the age looks at the time that has passed.   *)
LEMMA VerdictAges == ConformIInv => VerdictsOnlyAge
<1> SUFFICES ASSUME ConformIInv,
                    NEW i \in Asked, NEW d \in Decision \union {None},
                    NEW o \in Observation \union {None}, NEW now \in Int, NEW later \in Int,
                    now <= later,
                    Verdict(i, d, o, receipts, now) # "CONFLICT",
                    Verdict(i, d, o, receipts, later) # Verdict(i, d, o, receipts, now)
             PROVE  /\ Verdict(i, d, o, receipts, now) = "MATCH"
                    /\ Verdict(i, d, o, receipts, later) = "STALE"
  BY DEF VerdictsOnlyAge
<1>1. d # None /\ d.intent = i /\ o # None
  BY DEF Verdict
<1>2. o.at \in Int
  BY <1>1 DEF ConformIInv, RowsSound, Sound, Observation
<1>3. o.intent = i /\ ~(o.at > now) /\ ~(o.at > later)
  BY <1>1, <1>2 DEF Verdict
<1>4. receipts # << >>
  BY <1>1, <1>3 DEF Verdict
<1>5. Bound(i, o, receipts, now)
  BY <1>1, <1>3, <1>4 DEF Verdict
<1>6. Bound(i, o, receipts, later)
  <2>1. PICK S : receipts \in Seq(S)
    BY DEF ConformIInv, Shapes
  <2>2. Len(receipts) \in DOMAIN receipts
    BY <1>4, <2>1
  <2>3. receipts[Len(receipts)].at \in Int
    BY <2>2 DEF ConformIInv, ReceiptsSound
  <2>4. QED BY <1>5, <2>3 DEF Bound, Chronological
<1>7. /\ Verdict(i, d, o, receipts, now) = Judged(i, d, o, now)
      /\ Verdict(i, d, o, receipts, later) = Judged(i, d, o, later)
  BY <1>1, <1>3, <1>4, <1>5, <1>6 DEF Verdict
<1>8. QED BY <1>2, <1>7, ConformanceAssumption DEF Judged

(* No verdict but a MATCH is changed by waiting, however long one waits    *)
(* (assess_conformance: the freshness is judged last).                     *)
THEOREM VerdictsAge == ConformSpec => []VerdictsOnlyAge
BY VerdictAges, ConformInvariant, PTL

(* The same for one instant after another.                                 *)
THEOREM FreshnessLast == ConformSpec => []FreshnessMasksNothing
<1>1. ConformIInv => FreshnessMasksNothing
  <2>1. \A now \in 0..MaxTime + MaxAge : now \in Int /\ now + 1 \in Int /\ now <= now + 1
    OBVIOUS
  <2>2. QED BY <2>1, VerdictAges DEF VerdictsOnlyAge, FreshnessMasksNothing
<1>2. QED BY <1>1, ConformInvariant, PTL

-----------------------------------------------------------------------------
(* What a chain of receipts proves of itself, whoever made it.             *)

(* Receipts of R in a row, each naming the one before it.                  *)
EvidenceChain(rs, R) == rs \in Seq(R) \ {<< >>} /\ Chained(rs)

(* What a chain of receipts says of its elements.                          *)
LEMMA ChainLinks ==
  ASSUME NEW R, NEW rs, EvidenceChain(rs, R)
  PROVE  /\ Len(rs) \in Nat \ {0} /\ DOMAIN rs = 1..Len(rs)
         /\ \A k \in 1..Len(rs) : rs[k] \in R
         /\ rs[1].prev = None /\ \A k \in 2..Len(rs) : rs[k].prev = rs[k - 1]
<1>1. /\ rs \in Seq(R) /\ Len(rs) \in Nat \ {0} /\ DOMAIN rs = 1..Len(rs)
      /\ \A k \in 1..Len(rs) : rs[k] \in R
  BY DEF EvidenceChain
<1>2. \A k \in 1..Len(rs) : rs[k].prev = IF k = 1 THEN None ELSE rs[k - 1]
  BY <1>1 DEF EvidenceChain, Chained
<1>3. 1 \in 1..Len(rs) /\ \A k \in 2..Len(rs) : k \in 1..Len(rs) /\ k # 1
  BY <1>1
<1>4. QED BY <1>1, <1>2, <1>3, Zenon

(* Two chains that verify and end alike agree backwards, as far as the     *)
(* shorter one goes.                                                       *)
LEMMA ChainsAgree ==
  ASSUME NEW R, NEW rs, NEW ss, EvidenceChain(rs, R), EvidenceChain(ss, R),
         rs[Len(rs)] = ss[Len(ss)], Len(rs) <= Len(ss)
  PROVE  \A k \in 0..Len(rs) - 1 : rs[Len(rs) - k] = ss[Len(ss) - k]
<1> DEFINE m == Len(rs)
           n == Len(ss)
           S == {k \in 0..m - 1 : rs[m - k] = ss[n - k]}
<1>1. /\ m \in Nat /\ n \in Nat /\ 1 <= m /\ m <= n
      /\ \A k \in 2..m : rs[k].prev = rs[k - 1]
      /\ \A k \in 2..n : ss[k].prev = ss[k - 1]
  BY ChainLinks
<1>2. rs[m] = ss[n]
  OBVIOUS
<1> HIDE DEF m, n
<1>3. 0 \in S
  BY <1>1, <1>2
<1>4. ASSUME NEW k \in 0..m - 1, k \in S, k < m - 1 PROVE k + 1 \in S
  <2>1. /\ m - k \in 2..m /\ n - k \in 2..n /\ k + 1 \in 0..m - 1
        /\ (m - k) - 1 = m - (k + 1) /\ (n - k) - 1 = n - (k + 1)
    <3>1. k \in Int /\ m \in Int /\ n \in Int /\ 0 <= k /\ k < m - 1 /\ m <= n
      BY <1>1, <1>4
    <3>2. m - k \in 2..m /\ n - k \in 2..n
      BY <3>1, SMTT(30)
    <3>3. k + 1 \in 0..m - 1
      BY <3>1
    <3>4. (m - k) - 1 = m - (k + 1) /\ (n - k) - 1 = n - (k + 1)
      BY <3>1
    <3>5. QED BY <3>2, <3>3, <3>4
  <2>2. rs[m - k].prev = rs[(m - k) - 1] /\ ss[n - k].prev = ss[(n - k) - 1]
    BY <1>1, <2>1
  <2>3. QED BY <1>4, <2>1, <2>2
<1>5. m - 1 \in Nat /\ \A k \in 0..m - 1 : k \in S /\ k < m - 1 => k + 1 \in S
  BY <1>1, <1>4
<1>6. \A k \in 0..m - 1 : k \in S
  <2> HIDE DEF S
  <2>1. QED BY <1>3, <1>5, Stepwise
<1>7. QED BY <1>6 DEF m, n

(* Of two chains that verify and end alike none is shorter: a first        *)
(* receipt has no receipt before it.                                       *)
LEMMA ChainsEquallyLong ==
  ASSUME NEW R, None \notin R, NEW rs, NEW ss, EvidenceChain(rs, R), EvidenceChain(ss, R),
         rs[Len(rs)] = ss[Len(ss)], Len(rs) <= Len(ss)
  PROVE  Len(rs) = Len(ss)
<1> DEFINE m == Len(rs)
           n == Len(ss)
<1>1. /\ m \in Nat /\ n \in Nat /\ 1 <= m /\ m <= n
      /\ rs[1].prev = None /\ \A k \in 2..n : ss[k].prev = ss[k - 1]
      /\ \A k \in 1..n : ss[k] \in R
  BY ChainLinks
<1>2. \A k \in 0..m - 1 : rs[m - k] = ss[n - k]
  BY ChainsAgree
<1> HIDE DEF m, n
<1>3. rs[1] = ss[n - (m - 1)]
  <2>1. m - 1 \in 0..m - 1 /\ m - (m - 1) = 1
    BY <1>1
  <2>2. QED BY <1>2, <2>1
<1>4. ASSUME m < n PROVE FALSE
  <2>1. n - (m - 1) \in 2..n /\ (n - (m - 1)) - 1 \in 1..n
    BY <1>1, <1>4, SMTT(30)
  <2>2. ss[n - (m - 1)].prev = ss[(n - (m - 1)) - 1]
    BY <1>1, <2>1
  <2>3. ss[(n - (m - 1)) - 1] \in R
    BY <1>1, <2>1
  <2>4. QED BY <1>1, <1>3, <2>2, <2>3
<1>5. m = n
  BY <1>1, <1>4
<1>6. QED BY <1>5 DEF m, n

(* The last receipt of a chain fixes the chain: of all the chains an       *)
(* assessor may be handed, one at most verifies and ends in that receipt   *)
(* (verify_evidence_chain).  Nothing before it can be dropped, put in,     *)
(* moved or replaced.                                                      *)
THEOREM LastReceiptFixesChain ==
  ASSUME NEW R, None \notin R, NEW rs, NEW ss, EvidenceChain(rs, R), EvidenceChain(ss, R),
         rs[Len(rs)] = ss[Len(ss)]
  PROVE  rs = ss
<1>1. Len(rs) \in Nat /\ Len(ss) \in Nat /\ rs \in Seq(R) /\ ss \in Seq(R)
  BY DEF EvidenceChain
<1>2. Len(rs) = Len(ss)
  <2>1. CASE Len(rs) <= Len(ss)
    BY <2>1, ChainsEquallyLong
  <2>2. CASE Len(ss) <= Len(rs)
    BY <2>2, ChainsEquallyLong
  <2>3. QED BY <1>1, <2>1, <2>2
<1>3. ASSUME NEW k \in 1..Len(rs) PROVE rs[k] = ss[k]
  <2>1. Len(rs) - k \in 0..Len(rs) - 1 /\ Len(rs) - (Len(rs) - k) = k
    BY <1>1
  <2>2. \A j \in 0..Len(rs) - 1 : rs[Len(rs) - j] = ss[Len(ss) - j]
    BY <1>1, <1>2, ChainsAgree
  <2>3. rs[Len(rs) - (Len(rs) - k)] = ss[Len(ss) - (Len(rs) - k)]
    BY <2>1, <2>2
  <2>4. QED BY <1>2, <2>1, <2>3
<1>4. QED BY <1>1, <1>2, <1>3, SeqEqual
=============================================================================
