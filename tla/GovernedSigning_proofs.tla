----------------------- MODULE GovernedSigning_proofs ------------------------
(***************************************************************************)
(* Proofs about GovernedSigning for any controllers, operators, policies   *)
(* and bounds: the inductive invariant GovIInv, and from it the safety     *)
(* properties, what the ledgers and the journal keep over time, and the    *)
(* refinement of SingleRelease.                                            *)
(***************************************************************************)
EXTENDS GovernedSigning, FiniteSetTheorems, Inductions, TLAPS

Rows == 1..Len(workflow)
InJournal(r) == \E k \in Rows : workflow[k] = r

(* The empty sequence is one of every set.                                 *)
LEMMA EmptySeq == \A S : << >> \in Seq(S)
OBVIOUS

(* An element of a sequence over S is in S.                                *)
LEMMA ElementTyped == ASSUME NEW S, NEW s \in Seq(S), NEW k \in 1..Len(s) PROVE s[k] \in S
OBVIOUS

(* Appending an element of S stays over S.                                 *)
LEMMA AppendTyped == ASSUME NEW S, NEW s \in Seq(S), NEW e \in S PROVE Append(s, e) \in Seq(S)
OBVIOUS

(* A record of the journal is in a state of the workflow.                  *)
LEMMA RowTyped == ASSUME GovTypeOK, NEW k \in Rows PROVE workflow[k].state \in WorkflowStates
<1>1. workflow[k] \in [state : WorkflowStates, intent : Intents, mode : 1..Len(Modes)]
  BY ElementTyped DEF GovTypeOK, Rows
<1>2. QED BY <1>1

(* The transition table moves forward and reaches each record only from    *)
(* the record it needs or from earlier ones.                               *)
LEMMA FollowsForward ==
  ASSUME NEW q \in WorkflowStates, NEW p \in Follows(q)
  PROVE  /\ p \in WorkflowStates /\ RankOf(q) < RankOf(p)
         /\ q # "EVIDENCE_COMMITTED"
         /\ RankOf(p) \in 1..7 /\ RankOf(q) \in 1..7
BY DEF Follows, WorkflowStates, RankOf

(* What p needs is no lower than the record p may follow.                  *)
LEMMA NeedsAtLeast ==
  ASSUME NEW q \in WorkflowStates, NEW p \in Follows(q), NEW i, NEW s \in Needs(p, i)
  PROVE  s \in WorkflowStates /\ RankOf(q) <= RankOf(s)
BY DEF Follows, WorkflowStates, RankOf, Needs

(* Ranks go from 1 to 7.                                                   *)
LEMMA RankTyped == \A s : RankOf(s) \in 1..7
BY DEF RankOf

(* More operators do not break a quorum.                                   *)
LEMMA LargerQuorum ==
  ASSUME NEW Q \in Quorums, NEW R \in SUBSET Approver, Q \subseteq R
  PROVE  R \in Quorums
<1>1. IsFiniteSet(R) /\ IsFiniteSet(Q)
  BY GovAssumption, FS_Subset
<1>2. Cardinality(Q) <= Cardinality(R) /\ Cardinality(Q) \in Nat /\ Cardinality(R) \in Nat
  BY <1>1, FS_Subset, FS_CardinalityType
<1>3. Cardinality(R) >= MinApprovals
  BY <1>2, GovAssumption DEF Quorums
<1>4. RequiredRoles \subseteq {RoleOf[a] : a \in R}
  BY DEF Quorums
<1>5. QED BY <1>3, <1>4 DEF Quorums

(* Only the ledgers and the approvals grow: what was vouched for stays so. *)
LEMMA VouchedStays ==
  ASSUME GovTypeOK, NEW p, NEW i, NEW m, Vouched(p, i, m),
         \A k \in 1..Len(policy) : k \in 1..Len(policy)' /\ policy'[k] = policy[k],
         \A k \in 1..Len(emergency) : k \in 1..Len(emergency)' /\ emergency'[k] = emergency[k],
         approvals \subseteq approvals', receipts \subseteq receipts'
  PROVE  Vouched(p, i, m)'
<1>1. CASE p = "resting"
  BY <1>1 DEF Vouched
<1>2. CASE p # "resting"
  <2>1. ASSUME Authorized(i) PROVE Authorized(i)'
    <3>1. PICK Q, R : Q = ApproversOf(i) /\ R = ApproversOf(i)'
      OBVIOUS
    <3>2. Q \subseteq R /\ R \subseteq Approver
      BY <3>1 DEF ApproversOf
    <3>3. R \in Quorums
      BY <2>1, <3>1, <3>2, LargerQuorum DEF Authorized
    <3>4. QED BY <2>1, <3>1, <3>3 DEF Authorized
  <2>2. QED BY <1>2, <2>1 DEF Vouched
<1>3. QED BY <1>1, <1>2

(* Empty ledgers satisfy the inductive invariant.                          *)
LEMMA GovInitIInv == GovInit => GovIInv
<1> SUFFICES ASSUME GovInit PROVE GovIInv
  OBVIOUS
<1>1. GovTypeOK
  <2>1. Resting(NoIntent) \in [pc : PCs, intent : Intents \union {NoIntent},
                               mode : 1..Len(Modes), seq : Nat \union {NoSeq}]
    BY DEF Resting, PCs, Modes
  <2>2. 0 \in 0..MaxWrecks
    BY GovAssumption
  <2>3. ctl \in [Controller -> [pc : PCs, intent : Intents \union {NoIntent},
                               mode : 1..Len(Modes), seq : Nat \union {NoSeq}]]
    BY <2>1 DEF GovInit
  <2>4. /\ policy \in Seq([level : Levels, epoch : Epoch])
        /\ emergency \in Seq(1..Len(Modes))
        /\ workflow \in Seq([state : WorkflowStates, intent : Intents, mode : 1..Len(Modes)])
    BY EmptySeq DEF GovInit
  <2>5. QED BY <2>2, <2>3, <2>4 DEF GovInit, GovTypeOK
<1>2. Forward /\ Behind /\ AllVouched /\ ReportedIsCommitted
  BY DEF GovInit, Forward, Behind, AllVouched, ReportedIsCommitted, Vouched, Resting
<1>3. QED BY <1>1, <1>2 DEF GovIInv

-----------------------------------------------------------------------------
(* A record that AppendRecord or DieAppending writes keeps the journal     *)
(* forward and behind.                                                     *)
LEMMA AppendForward ==
  ASSUME GovIInv, NEW c \in Controller, ctl[c].pc \in Allowed,
         workflow' = Append(workflow, Row(ctl[c]))
  PROVE  /\ Forward'
         /\ ctl[c].pc \in WorkflowStates /\ ctl[c].intent \in Intents
         /\ Row(ctl[c]) \in [state : WorkflowStates, intent : Intents, mode : 1..Len(Modes)]
         /\ Len(workflow') = Len(workflow) + 1 /\ workflow'[Len(workflow) + 1] = Row(ctl[c])
         /\ \A k \in Rows : workflow'[k] = workflow[k]
         /\ \A k \in Rows : workflow[k].state # "EVIDENCE_COMMITTED"
         /\ \A s \in Needs(ctl[c].pc, ctl[c].intent) :
              /\ Len(workflow) > 0
              /\ workflow[Len(workflow)] = [Row(ctl[c]) EXCEPT !.state = s]
<1> DEFINE w == ctl[c]
           n == Len(workflow)
<1>1. /\ w \in [pc : PCs, intent : Intents \union {NoIntent}, mode : 1..Len(Modes), seq : Nat \union {NoSeq}]
      /\ workflow \in Seq([state : WorkflowStates, intent : Intents, mode : 1..Len(Modes)])
      /\ n \in Nat
  BY DEF GovIInv, GovTypeOK
<1>2. n > 0 => n \in Rows /\ workflow[n].state \in WorkflowStates /\ w.pc \in Follows(workflow[n].state)
  <2> SUFFICES ASSUME n > 0
               PROVE  n \in Rows /\ workflow[n].state \in WorkflowStates /\ w.pc \in Follows(workflow[n].state)
    OBVIOUS
  <2>1. n \in Rows /\ workflow # << >>
    BY <1>1 DEF Rows
  <2>2. workflow[n].state \in WorkflowStates
    BY <2>1, RowTyped DEF GovIInv
  <2>3. QED BY <2>1, <2>2 DEF Allowed
<1>3. w.pc \in WorkflowStates
  BY <1>1, <1>2, FollowsForward DEF Allowed, WorkflowStates
<1>4. w.intent \in Intents
  BY <1>3 DEF GovIInv, AllVouched, Vouched, WorkflowStates
<1>5. Row(w) \in [state : WorkflowStates, intent : Intents, mode : 1..Len(Modes)]
  BY <1>1, <1>3, <1>4 DEF Row
<1>6. /\ Len(workflow') = n + 1 /\ workflow'[n + 1] = Row(w)
      /\ \A k \in Rows : workflow'[k] = workflow[k]
  BY <1>1, <1>5 DEF Rows
<1>7. \A k \in Rows : workflow[k].state # "EVIDENCE_COMMITTED"
  BY <1>1, <1>2, FollowsForward DEF GovIInv, Forward, Rows
<1>8. \A k \in Rows : RankOf(workflow[k].state) < RankOf(w.pc)
  <2> SUFFICES ASSUME NEW k \in Rows PROVE RankOf(workflow[k].state) < RankOf(w.pc)
    OBVIOUS
  <2>1. RankOf(workflow[n].state) < RankOf(w.pc)
    BY <1>1, <1>2, FollowsForward DEF Rows
  <2>2. k = n \/ RankOf(workflow[k].state) < RankOf(workflow[n].state)
    BY <1>1, <1>2 DEF GovIInv, Forward, Rows
  <2>3. QED BY <2>1, <2>2, RankTyped
<1>9. Forward'
  <2>1. ASSUME NEW j \in 1..(n + 1), NEW k \in 1..(n + 1), j < k
        PROVE  RankOf(workflow'[j].state) < RankOf(workflow'[k].state)
    <3>1. j \in Rows
      BY <1>1, <2>1 DEF Rows
    <3>2. CASE k = n + 1
      BY <1>6, <1>8, <3>1, <3>2 DEF Row
    <3>3. CASE k \in Rows
      BY <1>6, <2>1, <3>1, <3>3 DEF GovIInv, Forward, Rows
    <3>4. QED BY <1>1, <3>2, <3>3 DEF Rows
  <2>2. ASSUME NEW k \in 1..(n + 1), workflow'[k].state = "EVIDENCE_COMMITTED" PROVE k = n + 1
    BY <1>1, <1>6, <1>7, <2>2 DEF Rows
  <2>3. QED BY <1>6, <2>1, <2>2 DEF Forward
<1>10. ASSUME NEW s \in Needs(w.pc, w.intent)
       PROVE  n > 0 /\ workflow[n] = [Row(w) EXCEPT !.state = s]
  <2>1. PICK k \in Rows : workflow[k] = [state |-> s, intent |-> w.intent, mode |-> w.mode]
    BY <1>3, <1>10 DEF GovIInv, Behind, Rows, WorkflowStates
  <2>2. n > 0
    BY <1>1, <2>1 DEF Rows
  <2>3. RankOf(workflow[n].state) <= RankOf(s)
    BY <1>2, <1>10, <2>2, NeedsAtLeast
  <2>4. k = n
    <3>1. k # n => RankOf(workflow[k].state) < RankOf(workflow[n].state)
      BY <1>1, <1>2, <2>2 DEF GovIInv, Forward, Rows
    <3>2. QED BY <2>1, <2>3, <3>1, RankTyped
  <2>5. QED BY <2>1, <2>2, <2>4 DEF Row
<1>11. QED BY <1>3, <1>4, <1>5, <1>6, <1>7, <1>9, <1>10

CtlType == [pc : PCs, intent : Intents \union {NoIntent}, mode : 1..Len(Modes), seq : Nat \union {NoSeq}]
LedgersGrow ==
  /\ \A k \in 1..Len(policy) : k \in 1..Len(policy') /\ policy'[k] = policy[k]
  /\ \A k \in 1..Len(emergency) : k \in 1..Len(emergency') /\ emergency'[k] = emergency[k]
  /\ approvals \subseteq approvals' /\ receipts \subseteq receipts'

(* A step of one controller that leaves the journal alone.                 *)
LEMMA ControllerMoves ==
  ASSUME GovIInv, NEW c \in Controller, NEW x \in CtlType,
         workflow' = workflow, ctl' = [ctl EXCEPT ![c] = x], LedgersGrow,
         Vouched(x.pc, x.intent, x.mode)',
         x.pc # "resting" => \A s \in Needs(x.pc, x.intent) :
           InJournal([state |-> s, intent |-> x.intent, mode |-> x.mode])
  PROVE  Forward' /\ Behind' /\ AllVouched' /\ ctl' \in [Controller -> CtlType]
<1>1. ctl \in [Controller -> CtlType]
  BY DEF GovIInv, GovTypeOK, CtlType
<1>2. /\ ctl' \in [Controller -> CtlType] /\ ctl'[c] = x
      /\ \A d \in Controller \ {c} : ctl'[d] = ctl[d]
  BY <1>1
<1>3. Forward'
  BY DEF GovIInv, Forward
<1>4. Behind'
  <2>1. ASSUME NEW d \in Controller, ctl'[d].pc # "resting", NEW s \in Needs(ctl'[d].pc, ctl'[d].intent)
        PROVE  \E k \in Rows : workflow[k] = [state |-> s, intent |-> ctl'[d].intent, mode |-> ctl'[d].mode]
    <3>1. CASE d = c
      BY <1>2, <2>1, <3>1 DEF InJournal
    <3>2. CASE d # c
      BY <1>2, <2>1, <3>2 DEF GovIInv, Behind, Rows
    <3>3. QED BY <3>1, <3>2
  <2>2. \A d \in Controller : ctl'[d].pc # "resting" =>
          \A s \in Needs(ctl'[d].pc, ctl'[d].intent) : \E k \in 1..Len(workflow') :
            workflow'[k] = [state |-> s, intent |-> ctl'[d].intent, mode |-> ctl'[d].mode]
    BY <2>1 DEF Rows
  <2>3. \A k \in 1..Len(workflow') : \A s \in Needs(workflow'[k].state, workflow'[k].intent) :
          k > 1 /\ workflow'[k-1] = [workflow'[k] EXCEPT !.state = s]
    BY DEF GovIInv, Behind
  <2>4. QED BY <2>2, <2>3 DEF Behind, Needs, Hybrid
<1>5. AllVouched'
  <2>1. ASSUME NEW d \in Controller, NEW y, y = ctl'[d] PROVE Vouched(y.pc, y.intent, y.mode)'
    <3>1. CASE d = c
      BY <1>2, <2>1, <3>1
    <3>2. CASE d # c
      <4>1. Vouched(ctl[d].pc, ctl[d].intent, ctl[d].mode) /\ y = ctl[d]
        BY <1>2, <2>1, <3>2 DEF GovIInv, AllVouched
      <4>2. Vouched(y.pc, y.intent, y.mode)
        BY <4>1
      <4>3. QED BY <4>2, VouchedStays DEF LedgersGrow, GovIInv
    <3>3. QED BY <3>1, <3>2
  <2>2. ASSUME NEW k \in Rows, NEW y, y = workflow[k] PROVE Vouched(y.state, y.intent, y.mode)'
    <3>1. Vouched(y.state, y.intent, y.mode)
      BY <2>2 DEF GovIInv, AllVouched, Rows
    <3>2. QED BY <3>1, VouchedStays DEF LedgersGrow, GovIInv
  <2>3. ASSUME NEW d \in Controller PROVE Vouched(ctl[d].pc, ctl[d].intent, ctl[d].mode)'
    <3>1. PICK y : y = ctl'[d]
      OBVIOUS
    <3>2. Vouched(y.pc, y.intent, y.mode)'
      BY <2>1, <3>1
    <3>3. QED BY <3>1, <3>2 DEF Vouched, Authorized, ApproversOf
  <2>4. ASSUME NEW k \in Rows PROVE Vouched(workflow[k].state, workflow[k].intent, workflow[k].mode)'
    <3>1. PICK y : y = workflow[k]
      OBVIOUS
    <3>2. Vouched(y.state, y.intent, y.mode)'
      BY <2>2, <3>1
    <3>3. QED BY <3>1, <3>2 DEF Vouched, Authorized, ApproversOf
  <2>5. QED BY <2>3, <2>4 DEF AllVouched, Rows
<1>6. QED BY <1>2, <1>3, <1>4, <1>5

(* A controller's record enters the journal and it goes on as x.           *)
LEMMA RecordEnters ==
  ASSUME GovIInv, NEW c \in Controller, NEW x \in CtlType,
         ctl[c].pc \in Allowed, workflow' = Append(workflow, Row(ctl[c])),
         ctl' = [ctl EXCEPT ![c] = x], LedgersGrow,
         Vouched(x.pc, x.intent, x.mode)',
         x.pc # "resting" => /\ x.intent = ctl[c].intent /\ x.mode = ctl[c].mode
                             /\ Needs(x.pc, x.intent) \subseteq {ctl[c].pc}
  PROVE  /\ Forward' /\ Behind' /\ AllVouched' /\ ctl' \in [Controller -> CtlType]
         /\ workflow' \in Seq([state : WorkflowStates, intent : Intents, mode : 1..Len(Modes)])
<1> DEFINE w == ctl[c]
           n == Len(workflow)
<1>1. ctl \in [Controller -> CtlType] /\ n \in Nat
      /\ workflow \in Seq([state : WorkflowStates, intent : Intents, mode : 1..Len(Modes)])
  BY DEF GovIInv, GovTypeOK, CtlType
<1>2. /\ ctl' \in [Controller -> CtlType] /\ ctl'[c] = x
      /\ \A d \in Controller \ {c} : ctl'[d] = ctl[d]
  BY <1>1
<1>3. /\ Forward'
      /\ w.pc \in WorkflowStates /\ w.intent \in Intents
      /\ Row(w) \in [state : WorkflowStates, intent : Intents, mode : 1..Len(Modes)]
      /\ Len(workflow') = n + 1 /\ workflow'[n + 1] = Row(w)
      /\ \A k \in Rows : workflow'[k] = workflow[k]
      /\ \A s \in Needs(w.pc, w.intent) : n > 0 /\ workflow[n] = [Row(w) EXCEPT !.state = s]
  BY AppendForward
<1>4. Rows \subseteq 1..Len(workflow') /\ n + 1 \in 1..Len(workflow')
      /\ \A k \in 1..Len(workflow') : k \in Rows \/ k = n + 1
  BY <1>1, <1>3 DEF Rows
<1>5. Behind'
  <2>1. ASSUME NEW d \in Controller, ctl'[d].pc # "resting", NEW s \in Needs(ctl'[d].pc, ctl'[d].intent)
        PROVE  \E k \in 1..Len(workflow') :
                 workflow'[k] = [state |-> s, intent |-> ctl'[d].intent, mode |-> ctl'[d].mode]
    <3>1. CASE d = c
      <4>1. s = w.pc /\ ctl'[d].intent = w.intent /\ ctl'[d].mode = w.mode
        BY <1>2, <2>1, <3>1
      <4>2. workflow'[n + 1] = [state |-> s, intent |-> ctl'[d].intent, mode |-> ctl'[d].mode]
        BY <1>3, <4>1 DEF Row
      <4>3. QED BY <1>4, <4>2
    <3>2. CASE d # c
      <4>1. PICK k \in Rows : workflow[k] = [state |-> s, intent |-> ctl'[d].intent, mode |-> ctl'[d].mode]
        BY <1>2, <2>1, <3>2 DEF GovIInv, Behind, Rows
      <4>2. QED BY <1>3, <1>4, <4>1
    <3>3. QED BY <3>1, <3>2
  <2>2. ASSUME NEW k \in 1..Len(workflow'), NEW s \in Needs(workflow'[k].state, workflow'[k].intent)
        PROVE  k > 1 /\ workflow'[k-1] = [workflow'[k] EXCEPT !.state = s]
    <3>1. CASE k \in Rows
      <4>1. workflow'[k] = workflow[k]
        BY <1>3, <3>1
      <4>2. k > 1 /\ workflow[k-1] = [workflow[k] EXCEPT !.state = s]
        BY <2>2, <3>1, <4>1 DEF GovIInv, Behind, Rows
      <4>3. k - 1 \in Rows
        BY <1>1, <3>1, <4>2 DEF Rows
      <4>4. QED BY <1>3, <4>1, <4>2, <4>3
    <3>2. CASE k = n + 1
      <4>1. workflow'[k] = Row(w) /\ Row(w).state = w.pc /\ Row(w).intent = w.intent
        BY <1>3, <3>2 DEF Row
      <4>2. n > 0 /\ workflow[n] = [Row(w) EXCEPT !.state = s]
        BY <1>3, <2>2, <4>1
      <4>3. n \in Rows /\ k > 1 /\ k - 1 = n
        BY <1>1, <3>2, <4>2 DEF Rows
      <4>4. QED BY <1>3, <4>1, <4>2, <4>3
    <3>3. QED BY <1>4, <3>1, <3>2
  <2>3. QED BY <2>1, <2>2 DEF Behind, Needs, Hybrid
<1>6. AllVouched'
  <2>1. ASSUME NEW p, NEW i, NEW m, Vouched(p, i, m) PROVE Vouched(p, i, m)'
    BY <2>1, VouchedStays DEF LedgersGrow, GovIInv
  <2>2. Vouched(w.pc, w.intent, w.mode)
    BY DEF GovIInv, AllVouched
  <2>3. ASSUME NEW d \in Controller PROVE Vouched(ctl[d].pc, ctl[d].intent, ctl[d].mode)'
    <3>1. PICK y : y = ctl'[d]
      OBVIOUS
    <3>2. CASE d = c
      <4>1. y = x
        BY <1>2, <3>1, <3>2
      <4>2. Vouched(y.pc, y.intent, y.mode)'
        BY <4>1
      <4>3. QED BY <3>1, <4>2 DEF Vouched, Authorized, ApproversOf
    <3>3. CASE d # c
      <4>1. y = ctl[d] /\ Vouched(ctl[d].pc, ctl[d].intent, ctl[d].mode)
        BY <1>2, <3>1, <3>3 DEF GovIInv, AllVouched
      <4>2. Vouched(y.pc, y.intent, y.mode)'
        BY <2>1, <4>1
      <4>3. QED BY <3>1, <4>2 DEF Vouched, Authorized, ApproversOf
    <3>4. QED BY <3>2, <3>3
  <2>4. ASSUME NEW k \in 1..Len(workflow') PROVE Vouched(workflow[k].state, workflow[k].intent, workflow[k].mode)'
    <3>1. PICK y : y = workflow'[k]
      OBVIOUS
    <3>2. Vouched(y.state, y.intent, y.mode)
      <4>1. CASE k \in Rows
        BY <1>3, <3>1, <4>1 DEF GovIInv, AllVouched, Rows
      <4>2. CASE k = n + 1
        BY <1>3, <2>2, <3>1, <4>2 DEF Row
      <4>3. QED BY <1>4, <4>1, <4>2
    <3>3. Vouched(y.state, y.intent, y.mode)'
      BY <2>1, <3>2
    <3>4. QED BY <3>1, <3>3 DEF Vouched, Authorized, ApproversOf
  <2>5. QED BY <2>3, <2>4 DEF AllVouched
<1>7. workflow' \in Seq([state : WorkflowStates, intent : Intents, mode : 1..Len(Modes)])
  BY <1>1, <1>3, AppendTyped
<1>8. QED BY <1>2, <1>3, <1>5, <1>6, <1>7

-----------------------------------------------------------------------------
(* The ledgers grow when only a receipt is added.                          *)
LEMMA QuietLedgers == ASSUME GovTypeOK, UNCHANGED govern, receipts \subseteq receipts' PROVE LedgersGrow
BY DEF LedgersGrow, govern, GovTypeOK

(* The transitions of the ledgers, the operators' approvals, and stutters. *)
LEMMA LedgerSteps ==
  ASSUME GovIInv,
         \/ UNCHANGED govVars
         \/ \E l \in Levels, e \in Epoch, padded \in BOOLEAN : PolicyTransition(l, e, padded)
         \/ \E m \in 1..Len(Modes), r \in BOOLEAN : EmergencyTransition(m, r)
         \/ \E a \in Approver, c \in Controller : Approve(a, ctl[c].intent)
  PROVE  GovIInv'
<1>1. /\ policy \in Seq([level : Levels, epoch : Epoch]) /\ emergency \in Seq(1..Len(Modes))
      /\ approvals \subseteq Intents \X Approver
  BY DEF GovIInv, GovTypeOK
<1>2. /\ policy' \in Seq([level : Levels, epoch : Epoch]) /\ emergency' \in Seq(1..Len(Modes))
      /\ approvals' \subseteq Intents \X Approver /\ LedgersGrow
      /\ workflow' = workflow /\ tail' = tail /\ receipts' = receipts /\ torn' = torn
      /\ reported' = reported /\ ctl' = ctl /\ wrecks' = wrecks
  <2>1. CASE \E l \in Levels, e \in Epoch, padded \in BOOLEAN : PolicyTransition(l, e, padded)
    BY <1>1, <2>1 DEF PolicyTransition, flow, LedgersGrow
  <2>2. CASE \E m \in 1..Len(Modes), r \in BOOLEAN : EmergencyTransition(m, r)
    BY <1>1, <2>2 DEF EmergencyTransition, flow, LedgersGrow
  <2>3. CASE \E a \in Approver, c \in Controller : Approve(a, ctl[c].intent)
    <3>1. PICK a \in Approver, c \in Controller : Approve(a, ctl[c].intent)
      BY <2>3
    <3>2. \E d \in Controller : ctl[d].pc = "prepared" /\ ctl[d].intent = ctl[c].intent
      BY <3>1 DEF Approve
    <3>3. ctl[c].intent \in Intents
      BY <3>2 DEF GovIInv, AllVouched, Vouched
    <3>4. QED BY <1>1, <3>1, <3>3 DEF Approve, flow, LedgersGrow
  <2>4. CASE UNCHANGED govVars
    BY <1>1, <2>4 DEF govVars, LedgersGrow
  <2>5. QED BY <2>1, <2>2, <2>3, <2>4
<1>3. GovTypeOK'
  BY <1>2 DEF GovIInv, GovTypeOK
<1>4. Forward' /\ Behind' /\ ReportedIsCommitted'
  <2>1. Forward' /\ ReportedIsCommitted'
    BY <1>2 DEF GovIInv, Forward, ReportedIsCommitted
  <2>2. Behind'
    BY <1>2, ZenonT(60) DEF GovIInv, Behind
  <2>3. QED BY <2>1, <2>2
<1>5. AllVouched'
  <2>1. ASSUME NEW p, NEW i, NEW m, Vouched(p, i, m) PROVE Vouched(p, i, m)'
    BY <1>2, <2>1, VouchedStays DEF LedgersGrow, GovIInv
  <2>2. ASSUME NEW d \in Controller PROVE Vouched(ctl[d].pc, ctl[d].intent, ctl[d].mode)'
    <3>1. PICK y : y = ctl[d]
      OBVIOUS
    <3>2. Vouched(y.pc, y.intent, y.mode)'
      BY <2>1, <3>1 DEF GovIInv, AllVouched
    <3>3. QED BY <1>2, <3>1, <3>2 DEF Vouched, Authorized, ApproversOf
  <2>3. ASSUME NEW k \in Rows PROVE Vouched(workflow[k].state, workflow[k].intent, workflow[k].mode)'
    <3>1. PICK y : y = workflow[k]
      OBVIOUS
    <3>2. Vouched(y.state, y.intent, y.mode)'
      BY <2>1, <3>1 DEF GovIInv, AllVouched, Rows
    <3>3. QED BY <1>2, <3>1, <3>2 DEF Vouched, Authorized, ApproversOf
  <2>4. QED BY <1>2, <2>2, <2>3 DEF AllVouched, Rows
<1>6. QED BY <1>3, <1>4, <1>5 DEF GovIInv

(* The steps of a controller that leave the journal alone.                 *)
LEMMA QuietMove ==
  ASSUME GovIInv, NEW c \in Controller, NEW x \in CtlType,
         workflow' = workflow, ctl' = [ctl EXCEPT ![c] = x], UNCHANGED govern,
         receipts \subseteq receipts', receipts' \subseteq Intents,
         tail' \in {"clean", "open", "torn"}, torn' \in BOOLEAN, wrecks' \in 0..MaxWrecks,
         reported' = reported,
         Vouched(x.pc, x.intent, x.mode)',
         x.pc # "resting" => \A s \in Needs(x.pc, x.intent) :
           InJournal([state |-> s, intent |-> x.intent, mode |-> x.mode])
  PROVE  GovIInv'
<1>1. Forward' /\ Behind' /\ AllVouched' /\ ctl' \in [Controller -> CtlType]
  BY QuietLedgers, ControllerMoves DEF GovIInv
<1>2. GovTypeOK'
  BY <1>1 DEF GovIInv, GovTypeOK, CtlType, govern
<1>3. ReportedIsCommitted'
  BY DEF GovIInv, ReportedIsCommitted
<1>4. QED BY <1>1, <1>2, <1>3 DEF GovIInv

(* A controller at rest has its type.                                      *)
LEMMA RestTyped == Resting(NoIntent) \in CtlType /\ Resting(NoIntent).pc = "resting"
BY DEF Resting, CtlType, PCs, Modes

(* A controller that stops keeps the invariant, whatever it leaves at the  *)
(* end of the journal.                                                     *)
LEMMA StopMove ==
  ASSUME GovIInv, NEW c \in Controller, workflow' = workflow, Stop(c), UNCHANGED govern,
         receipts' = receipts, tail' \in {"clean", "open", "torn"}, torn' \in BOOLEAN,
         wrecks' \in 0..MaxWrecks, reported' = reported
  PROVE  GovIInv'
<1>1. PICK x \in CtlType : x = Resting(NoIntent)
  BY RestTyped
<1>2. x.pc = "resting" /\ ctl' = [ctl EXCEPT ![c] = x]
  BY <1>1, RestTyped DEF Stop
<1>3. Vouched(x.pc, x.intent, x.mode)'
  BY <1>2 DEF Vouched
<1>4. receipts \subseteq receipts' /\ receipts' \subseteq Intents
  BY DEF GovIInv, GovTypeOK
<1>5. QED BY <1>2, <1>3, <1>4, QuietMove

(* The steps of a controller that write no record.                         *)
LEMMA MoveSteps ==
  ASSUME GovIInv, NEW c \in Controller,
         \/ \E t \in Tx : Anchor(c, t)
         \/ Prepare(c) \/ StartAuthorize(c) \/ Open(c) \/ Look(c) \/ Refuse(c)
  PROVE  GovIInv'
<1> DEFINE w == ctl[c]
<1>1. /\ ctl \in [Controller -> CtlType] /\ w \in CtlType
      /\ Vouched(w.pc, w.intent, w.mode)
      /\ tail \in {"clean", "open", "torn"} /\ torn \in BOOLEAN /\ wrecks \in 0..MaxWrecks
      /\ receipts \subseteq Intents
  BY DEF GovIInv, GovTypeOK, CtlType, AllVouched
<1>2. ASSUME NEW x \in CtlType, ctl' = [ctl EXCEPT ![c] = x], UNCHANGED <<govern, flow, wrecks>>,
             Vouched(x.pc, x.intent, x.mode),
             x.pc # "resting" => \A s \in Needs(x.pc, x.intent) :
               InJournal([state |-> s, intent |-> x.intent, mode |-> x.mode])
      PROVE  GovIInv'
  <2>1. /\ workflow' = workflow /\ tail' = tail /\ receipts' = receipts /\ torn' = torn
        /\ reported' = reported /\ wrecks' = wrecks /\ UNCHANGED govern
    BY <1>2 DEF flow
  <2>2. Vouched(x.pc, x.intent, x.mode)'
    BY <1>2, <2>1 DEF Vouched, Authorized, ApproversOf, govern
  <2>3. QED BY <1>1, <1>2, <2>1, <2>2, QuietMove
<1>3. CASE \E t \in Tx : Anchor(c, t)
  <2>1. PICK t \in Tx : Anchor(c, t)
    BY <1>3
  <2>2. PICK k \in 1..Len(policy) : k = Len(policy)
    <3>1. policy # << >> /\ policy \in Seq([level : Levels, epoch : Epoch])
      BY <2>1 DEF Anchor, GovIInv, GovTypeOK
    <3>2. QED BY <3>1
  <2>3. policy[k] \in [level : Levels, epoch : Epoch]
    BY ElementTyped DEF GovIInv, GovTypeOK
  <2>4. IntentOf(t) \in Intents /\ policy[k] = [level |-> IntentOf(t).level, epoch |-> IntentOf(t).epoch]
    BY <2>2, <2>3 DEF IntentOf, Intents
  <2>5. PICK x : x = [Resting(IntentOf(t)) EXCEPT !.pc = "anchored"]
    OBVIOUS
  <2>6. x \in CtlType /\ x.pc = "anchored" /\ x.intent = IntentOf(t) /\ x.mode = 1
    BY <2>4, <2>5 DEF Resting, CtlType, PCs, Modes
  <2>7. Vouched(x.pc, x.intent, x.mode)
    BY <2>4, <2>6 DEF Vouched, Approved
  <2>8. Needs(x.pc, x.intent) = {}
    BY <2>6 DEF Needs
  <2>9. QED BY <1>2, <2>1, <2>5, <2>6, <2>7, <2>8 DEF Anchor
<1>4. CASE Prepare(c)
  <2>1. PICK x : x = [w EXCEPT !.pc = "prepared", !.mode = CurrentMode]
    OBVIOUS
  <2>2. CurrentMode \in 1..Len(Modes) /\ (CurrentMode = 1 \/ \E k \in 1..Len(emergency) : emergency[k] = CurrentMode)
    <3>1. CASE emergency = << >>
      BY <3>1 DEF CurrentMode, Modes
    <3>2. CASE emergency # << >>
      <4>1. Len(emergency) \in 1..Len(emergency) /\ emergency \in Seq(1..Len(Modes))
        BY <3>2 DEF GovIInv, GovTypeOK
      <4>2. emergency[Len(emergency)] \in 1..Len(Modes)
        BY <4>1, ElementTyped
      <4>3. QED BY <3>2, <4>1, <4>2 DEF CurrentMode
    <3>3. QED BY <3>1, <3>2
  <2>3. x \in CtlType /\ x.pc = "prepared" /\ x.intent = w.intent /\ x.mode = CurrentMode
    BY <1>1, <2>1, <2>2 DEF CtlType, PCs
  <2>4. Vouched(x.pc, x.intent, x.mode)
    BY <1>1, <1>4, <2>2, <2>3 DEF Prepare, Vouched, Approved
  <2>5. Needs(x.pc, x.intent) = {}
    BY <2>3 DEF Needs
  <2>6. ctl' = [ctl EXCEPT ![c] = x] /\ UNCHANGED <<govern, flow, wrecks>>
    BY <1>1, <1>4, <2>1 DEF Prepare
  <2>7. QED BY <1>2, <2>3, <2>4, <2>5, <2>6
<1>5. ASSUME NEW p \in PCs, NEW n \in Nat \union {NoSeq}, w.pc \notin {"resting", "anchored"},
             ctl' = [ctl EXCEPT ![c].pc = p, ![c].seq = n], UNCHANGED <<govern, flow, wrecks>>,
             p = w.pc \/ (p \notin Approved /\ Needs(p, w.intent) = {})
      PROVE  GovIInv'
  <2>1. PICK x : x = [w EXCEPT !.pc = p, !.seq = n]
    OBVIOUS
  <2>2. x \in CtlType /\ x.pc = p /\ x.intent = w.intent /\ x.mode = w.mode
    BY <1>1, <2>1 DEF CtlType
  <2>3. ctl' = [ctl EXCEPT ![c] = x]
    BY <1>1, <1>5, <2>1
  <2>4. Vouched(x.pc, x.intent, x.mode)
    BY <1>1, <1>5, <2>2 DEF Vouched
  <2>5. x.pc # "resting" => \A s \in Needs(x.pc, x.intent) :
          InJournal([state |-> s, intent |-> x.intent, mode |-> x.mode])
    BY <1>5, <2>2 DEF GovIInv, Behind, InJournal, Rows
  <2>6. QED BY <1>2, <1>5, <2>2, <2>3, <2>4, <2>5
<1>6. NoSeq \in Nat \union {NoSeq} /\ 0 \in Nat /\ Len(workflow) \in Nat
  BY DEF GovIInv, GovTypeOK
<1>7. CASE StartAuthorize(c)
  <2>1. "opening" \in PCs /\ "opening" \notin Approved /\ Needs("opening", w.intent) = {}
    BY DEF PCs, Approved, Needs
  <2>2. QED BY <1>5, <1>6, <1>7, <2>1 DEF StartAuthorize, Go
<1>8. CASE Open(c)
  <2>1. ASSUME NEW p \in {"PREPARED", AfterPrepared(w.intent)}
        PROVE  p \in PCs /\ p \notin Approved /\ Needs(p, w.intent) = {}
    BY DEF AfterPrepared, PCs, WorkflowStates, Approved, Needs
  <2>2. QED BY <1>5, <1>6, <1>8, <2>1 DEF Open, Go
<1>9. CASE Look(c)
  <2>1. w.pc \in PCs /\ w.pc \notin {"resting", "anchored"}
    BY <1>9 DEF Look, WorkflowStates, PCs
  <2>2. ctl' = [ctl EXCEPT ![c].pc = w.pc, ![c].seq = Len(workflow)]
    BY <1>1, <1>9 DEF Look, CtlType
  <2>3. QED BY <1>5, <1>6, <1>9, <2>1, <2>2 DEF Look
<1>10. CASE Refuse(c)
  <2>1. "BLOCKED" \in PCs /\ "BLOCKED" \notin Approved /\ Needs("BLOCKED", w.intent) = {}
    BY DEF PCs, WorkflowStates, Approved, Needs
  <2>2. QED BY <1>5, <1>6, <1>10, <2>1 DEF Refuse, Go
<1>11. QED BY <1>3, <1>4, <1>7, <1>8, <1>9, <1>10

(* The step in which the quorum is counted.                                *)
LEMMA GrantStep == ASSUME GovIInv, NEW c \in Controller, Grant(c) PROVE GovIInv'
<1> DEFINE w == ctl[c]
<1>1. /\ w \in CtlType /\ ctl \in [Controller -> CtlType] /\ Vouched(w.pc, w.intent, w.mode)
      /\ w.pc = "approving" /\ w.intent \in Intents /\ Authorized(w.intent)
  BY DEF GovIInv, GovTypeOK, CtlType, AllVouched, Vouched, Grant
<1>2. PICK x : x = [w EXCEPT !.pc = "OPERATOR_APPROVED", !.seq = NoSeq]
  OBVIOUS
<1>3. x \in CtlType /\ x.pc = "OPERATOR_APPROVED" /\ x.intent = w.intent /\ x.mode = w.mode
  BY <1>1, <1>2 DEF CtlType, PCs, WorkflowStates
<1>4. /\ ctl' = [ctl EXCEPT ![c] = x] /\ UNCHANGED govern /\ workflow' = workflow
      /\ tail' = tail /\ torn' = torn /\ wrecks' = wrecks /\ reported' = reported
      /\ receipts' = receipts \union {w.intent}
  BY <1>1, <1>2 DEF Grant, Go
<1>5. Vouched(x.pc, x.intent, x.mode)'
  BY <1>1, <1>3, <1>4 DEF Vouched, Approved, Authorized, ApproversOf, govern
<1>6. \A s \in Needs(x.pc, x.intent) : InJournal([state |-> s, intent |-> x.intent, mode |-> x.mode])
  <2>1. Needs(x.pc, x.intent) = Needs(w.pc, w.intent)
    BY <1>1, <1>3 DEF Needs
  <2>2. QED BY <1>1, <1>3, <2>1 DEF GovIInv, Behind, InJournal, Rows
<1>7. QED BY <1>1, <1>3, <1>4, <1>5, <1>6, QuietMove DEF GovIInv, GovTypeOK

(* What a controller becomes once its record is written.                   *)
LEMMA RecordedVouched ==
  ASSUME GovIInv, NEW c \in Controller, ctl[c].pc \in WorkflowStates, ctl[c].seq \in Nat,
         NEW x, x = Recorded(ctl[c])
  PROVE  /\ x \in CtlType /\ Vouched(x.pc, x.intent, x.mode)
         /\ x.pc # "resting" => /\ x.intent = ctl[c].intent /\ x.mode = ctl[c].mode
                                /\ Needs(x.pc, x.intent) \subseteq {ctl[c].pc}
<1> DEFINE w == ctl[c]
<1>1. w \in CtlType /\ Vouched(w.pc, w.intent, w.mode)
  BY DEF GovIInv, GovTypeOK, CtlType, AllVouched
<1>2. ASSUME NEW p \in PCs, NEW n \in Nat \union {NoSeq}, x = [w EXCEPT !.pc = p, !.seq = n],
             w.pc # "resting", p \in Approved => w.pc \in Approved,
             p \in Approved \ {"OPERATOR_APPROVED"} => Modes[w.mode] # "FREEZE",
             Needs(p, w.intent) \subseteq {w.pc}, w.pc \notin {"anchored", "prepared"}
      PROVE  /\ x \in CtlType /\ Vouched(x.pc, x.intent, x.mode)
             /\ x.intent = w.intent /\ x.mode = w.mode
             /\ Needs(x.pc, x.intent) \subseteq {w.pc}
  <2>1. x \in CtlType /\ x.pc = p /\ x.intent = w.intent /\ x.mode = w.mode
    BY <1>1, <1>2 DEF CtlType
  <2>2. QED BY <1>1, <1>2, <2>1 DEF Vouched
<1>3. CASE w.pc = "PREPARED"
  <2>1. x = [w EXCEPT !.pc = AfterPrepared(w.intent), !.seq = NoSeq]
    BY <1>3 DEF Recorded
  <2>2. /\ AfterPrepared(w.intent) \in PCs /\ AfterPrepared(w.intent) \notin Approved
        /\ Needs(AfterPrepared(w.intent), w.intent) \subseteq {w.pc}
    BY DEF AfterPrepared, PCs, WorkflowStates, Approved, Needs
  <2>3. QED BY <1>2, <1>3, <2>1, <2>2
<1>4. CASE w.pc = "PQ_AUTHORIZED"
  <2>1. x = [w EXCEPT !.pc = "approving", !.seq = NoSeq]
    BY <1>4 DEF Recorded
  <2>2. "approving" \in PCs /\ "approving" \notin Approved /\ Needs("approving", w.intent) \subseteq {w.pc}
    BY <1>4 DEF PCs, Approved, Needs
  <2>3. QED BY <1>2, <1>4, <2>1, <2>2
<1>5. CASE w.pc = "OPERATOR_APPROVED"
  <2>1. x = [w EXCEPT !.pc = IF PrimeAllows(w) THEN "PRIME_APPROVED" ELSE "BLOCKED", !.seq = NoSeq]
    BY <1>5 DEF Recorded
  <2>2. PrimeAllows(w) => Modes[w.mode] # "FREEZE"
    BY DEF PrimeAllows
  <2>3. /\ {"PRIME_APPROVED", "BLOCKED"} \subseteq PCs /\ w.pc \in Approved
        /\ Needs("PRIME_APPROVED", w.intent) \subseteq {w.pc} /\ Needs("BLOCKED", w.intent) = {}
        /\ "BLOCKED" \notin Approved
    BY <1>5 DEF PCs, WorkflowStates, Approved, Needs
  <2>4. QED BY <1>2, <1>5, <2>1, <2>2, <2>3
<1>6. CASE w.pc = "PRIME_APPROVED"
  <2>1. x = [w EXCEPT !.pc = "RELEASED", !.seq = w.seq + 1] /\ w.seq + 1 \in Nat
    BY <1>6 DEF Recorded
  <2>2. /\ "RELEASED" \in PCs /\ w.pc \in Approved /\ Modes[w.mode] # "FREEZE"
        /\ Needs("RELEASED", w.intent) \subseteq {w.pc}
    BY <1>1, <1>6 DEF PCs, WorkflowStates, Approved, Needs, Vouched
  <2>3. QED BY <1>2, <1>6, <2>1, <2>2
<1>7. CASE w.pc \in {"RELEASED", "EVIDENCE_COMMITTED"}
  <2>1. PICK p \in {"EVIDENCE_COMMITTED", "reporting"} :
          /\ x = [w EXCEPT !.pc = p, !.seq = NoSeq] /\ Needs(p, w.intent) \subseteq {w.pc}
    BY <1>7 DEF Recorded, Needs
  <2>2. p \in PCs /\ w.pc \in Approved /\ Modes[w.mode] # "FREEZE"
    BY <1>1, <1>7 DEF PCs, WorkflowStates, Approved, Vouched
  <2>3. QED BY <1>2, <1>7, <2>1, <2>2
<1>8. CASE w.pc = "BLOCKED"
  <2>1. x = Resting(NoIntent)
    BY <1>8 DEF Recorded
  <2>2. QED BY <2>1, RestTyped DEF Vouched
<1>9. QED BY <1>3, <1>4, <1>5, <1>6, <1>7, <1>8 DEF WorkflowStates

(* A record written, whatever becomes of its writer.                       *)
LEMMA WriteStep ==
  ASSUME GovIInv, NEW c \in Controller, NEW x \in CtlType, ctl[c].pc \in Allowed,
         workflow' = Append(workflow, Row(ctl[c])), ctl' = [ctl EXCEPT ![c] = x],
         Vouched(x.pc, x.intent, x.mode),
         x.pc # "resting" => /\ x.intent = ctl[c].intent /\ x.mode = ctl[c].mode
                             /\ Needs(x.pc, x.intent) \subseteq {ctl[c].pc},
         tail' \in {"clean", "open", "torn"}, wrecks' \in 0..MaxWrecks,
         UNCHANGED <<govern, receipts, torn, reported>>
  PROVE  GovIInv'
<1>1. LedgersGrow
  BY QuietLedgers DEF GovIInv
<1>2. Vouched(x.pc, x.intent, x.mode)'
  BY DEF Vouched, Authorized, ApproversOf, govern
<1>3. /\ Forward' /\ Behind' /\ AllVouched' /\ ctl' \in [Controller -> CtlType]
      /\ workflow' \in Seq([state : WorkflowStates, intent : Intents, mode : 1..Len(Modes)])
  BY <1>1, <1>2, RecordEnters
<1>4. GovTypeOK'
  BY <1>3 DEF GovIInv, GovTypeOK, CtlType, govern
<1>5. reported = {}
  <2>1. ASSUME NEW i \in reported PROVE FALSE
    <3>1. workflow # << >> /\ workflow[Len(workflow)].state = "EVIDENCE_COMMITTED"
      BY <2>1 DEF GovIInv, ReportedIsCommitted
    <3>2. QED BY <3>1 DEF Allowed, Follows
  <2>2. QED BY <2>1
<1>6. ReportedIsCommitted'
  BY <1>5 DEF ReportedIsCommitted
<1>7. QED BY <1>3, <1>4, <1>6 DEF GovIInv

(* An append that succeeds, and one its process dies in.                   *)
LEMMA AppendSteps ==
  ASSUME GovIInv, NEW c \in Controller, AppendRecord(c) \/ DieAppending(c)
  PROVE  GovIInv'
<1> DEFINE w == ctl[c]
<1>1. /\ w \in CtlType /\ w.pc \in WorkflowStates /\ w.seq \in Nat
      /\ tail \in {"clean", "open", "torn"} /\ torn \in BOOLEAN /\ wrecks \in 0..MaxWrecks
  BY DEF GovIInv, GovTypeOK, CtlType, AppendRecord, DieAppending
<1>2. CASE AppendRecord(c) /\ Len(workflow) = w.seq /\ w.pc \in Allowed
  <2>1. PICK x : x = Recorded(w)
    OBVIOUS
  <2>2. /\ x \in CtlType /\ Vouched(x.pc, x.intent, x.mode)
        /\ x.pc # "resting" => /\ x.intent = w.intent /\ x.mode = w.mode
                               /\ Needs(x.pc, x.intent) \subseteq {w.pc}
    BY <1>1, <2>1, RecordedVouched
  <2>3. /\ workflow' = Append(workflow, Row(w)) /\ ctl' = [ctl EXCEPT ![c] = x]
        /\ tail' \in {"clean", "open", "torn"} /\ wrecks' \in 0..MaxWrecks
        /\ UNCHANGED <<govern, receipts, torn, reported>>
    BY <1>1, <1>2, <2>1 DEF AppendRecord
  <2>4. QED BY <1>2, <2>2, <2>3, WriteStep
<1>3. CASE AppendRecord(c) /\ ~(Len(workflow) = w.seq /\ w.pc \in Allowed)
  BY <1>1, <1>3, StopMove DEF AppendRecord
<1>4. CASE DieAppending(c) /\ workflow' = workflow
  <2>1. wrecks' \in 0..MaxWrecks /\ tail' \in {"clean", "open", "torn"}
    BY <1>1, <1>4, GovAssumption DEF DieAppending
  <2>2. QED BY <1>1, <1>4, <2>1, StopMove DEF DieAppending
<1>5. CASE DieAppending(c) /\ workflow' = Append(workflow, Row(w))
  <2>1. PICK x \in CtlType : x = Resting(NoIntent)
    BY RestTyped
  <2>2. x.pc = "resting" /\ ctl' = [ctl EXCEPT ![c] = x] /\ Vouched(x.pc, x.intent, x.mode)
    BY <1>5, <2>1, RestTyped DEF DieAppending, Stop, Vouched
  <2>3. wrecks' \in 0..MaxWrecks /\ tail' \in {"clean", "open", "torn"}
    BY <1>1, <1>5, GovAssumption DEF DieAppending
  <2>4. w.pc \in Allowed /\ UNCHANGED <<govern, receipts, torn, reported>>
    BY <1>5 DEF DieAppending
  <2>5. QED BY <1>5, <2>2, <2>3, <2>4, WriteStep
<1>6. QED BY <1>2, <1>3, <1>4, <1>5 DEF DieAppending

(* The ways in which a workflow ends for its controller.                   *)
LEMMA EndSteps ==
  ASSUME GovIInv, NEW c \in Controller, Abandon(c) \/ DieInReceipt(c) \/ Report(c)
  PROVE  GovIInv'
<1>1. /\ tail \in {"clean", "open", "torn"} /\ torn \in BOOLEAN /\ wrecks \in 0..MaxWrecks
  BY DEF GovIInv, GovTypeOK
<1>2. CASE Abandon(c)
  BY <1>1, <1>2, StopMove DEF Abandon, flow
<1>3. CASE DieInReceipt(c)
  BY <1>1, <1>3, StopMove, GovAssumption DEF DieInReceipt
<1>4. CASE Report(c)
  <2>1. PICK x \in CtlType : x = Resting(NoIntent)
    BY RestTyped
  <2>2. x.pc = "resting" /\ ctl' = [ctl EXCEPT ![c] = x] /\ Vouched(x.pc, x.intent, x.mode)'
    BY <1>4, <2>1, RestTyped DEF Report, Stop, Vouched
  <2>3. UNCHANGED govern /\ workflow' = workflow /\ tail' = tail /\ receipts' = receipts
        /\ torn' = torn /\ wrecks' = wrecks /\ reported' = reported \union {ctl[c].intent}
    BY <1>4 DEF Report
  <2>4. Forward' /\ Behind' /\ AllVouched' /\ ctl' \in [Controller -> CtlType]
    BY <2>2, <2>3, QuietLedgers, ControllerMoves DEF GovIInv
  <2>5. ctl[c].pc = "reporting" /\ ctl[c].intent \in Intents
    BY <1>4 DEF Report, GovIInv, AllVouched, Vouched
  <2>6. PICK k \in Rows : workflow[k] = [state |-> "EVIDENCE_COMMITTED", intent |-> ctl[c].intent, mode |-> ctl[c].mode]
    BY <2>5 DEF GovIInv, Behind, Needs, Rows
  <2>7. /\ workflow # << >> /\ workflow[Len(workflow)].state = "EVIDENCE_COMMITTED"
        /\ workflow[Len(workflow)].intent = ctl[c].intent
    <3>1. k = Len(workflow)
      BY <2>6 DEF GovIInv, Forward, Rows
    <3>2. workflow # << >>
      BY <2>6 DEF Rows
    <3>3. QED BY <2>6, <3>1, <3>2
  <2>8. ReportedIsCommitted'
    BY <2>3, <2>7 DEF GovIInv, ReportedIsCommitted
  <2>9. GovTypeOK'
    BY <2>3, <2>4, <2>5 DEF GovIInv, GovTypeOK, CtlType, govern
  <2>10. QED BY <2>4, <2>8, <2>9 DEF GovIInv
<1>5. QED BY <1>2, <1>3, <1>4

(* Every step keeps the inductive invariant.                               *)
LEMMA GovNextIInv == GovIInv /\ [GovNext]_govVars => GovIInv'
<1> SUFFICES ASSUME GovIInv, [GovNext]_govVars PROVE GovIInv'
  OBVIOUS
<1>1. ASSUME NEW c \in Controller, ControllerStep(c) PROVE GovIInv'
  BY <1>1, MoveSteps, GrantStep, AppendSteps, EndSteps DEF ControllerStep
<1>2. QED BY <1>1, LedgerSteps DEF GovNext

(* GovIInv is an invariant of the specification.                           *)
THEOREM GovInvariant == GovSpec => []GovIInv
BY GovInitIInv, GovNextIInv, PTL DEF GovSpec

(* Every variable keeps its type.                                          *)
THEOREM GovTypeCorrect == GovSpec => []GovTypeOK
<1>1. GovIInv => GovTypeOK
  BY DEF GovIInv
<1>2. QED BY <1>1, GovInvariant, PTL

(* Every release is the end of one controller's unbroken run of records    *)
(* for the same intent and mode.                                           *)
THEOREM ReleasesUnbroken == GovSpec => []ReleaseUnbroken
<1>1. ASSUME GovIInv PROVE ReleaseUnbroken
  <2> SUFFICES ASSUME NEW n \in Rows, workflow[n].state = "RELEASED"
               PROVE  \A k \in 1..3, s \in WorkflowStates :
                        \/ k = 1 /\ s = "PRIME_APPROVED"
                        \/ k = 2 /\ s = "OPERATOR_APPROVED"
                        \/ k = 3 /\ s = "PQ_AUTHORIZED" /\ Hybrid(workflow[n].intent)
                        => n > k /\ workflow[n-k] = [workflow[n] EXCEPT !.state = s]
    BY DEF ReleaseUnbroken, Rows, WorkflowStates
  <2> DEFINE r == workflow[n]
  <2>1. Len(workflow) \in Nat /\ r \in [state : WorkflowStates, intent : Intents, mode : 1..Len(Modes)]
    <3>1. workflow \in Seq([state : WorkflowStates, intent : Intents, mode : 1..Len(Modes)])
      BY <1>1 DEF GovIInv, GovTypeOK
    <3>2. r \in [state : WorkflowStates, intent : Intents, mode : 1..Len(Modes)]
      BY <3>1, ElementTyped DEF Rows
    <3>3. QED BY <3>1, <3>2
  <2>2. \A k \in Rows : \A s \in Needs(workflow[k].state, workflow[k].intent) :
          k > 1 /\ workflow[k-1] = [workflow[k] EXCEPT !.state = s]
    BY <1>1 DEF GovIInv, Behind, Rows
  <2>3. n > 1 /\ n - 1 \in Rows /\ workflow[n-1] = [r EXCEPT !.state = "PRIME_APPROVED"]
    BY <2>1, <2>2, SMTT(30) DEF Needs, Rows
  <2>4. workflow[n-1].state = "PRIME_APPROVED" /\ workflow[n-1].intent = r.intent
    BY <2>1, <2>3
  <2>5. /\ n - 1 > 1 /\ n - 2 \in Rows
        /\ workflow[n-2] = [workflow[n-1] EXCEPT !.state = "OPERATOR_APPROVED"]
    <3>1. "OPERATOR_APPROVED" \in Needs(workflow[n-1].state, workflow[n-1].intent)
      BY <2>4 DEF Needs
    <3>2. n - 1 > 1 /\ workflow[(n-1)-1] = [workflow[n-1] EXCEPT !.state = "OPERATOR_APPROVED"]
      BY <2>2, <2>3, <3>1
    <3>3. (n-1)-1 = n-2 /\ n - 2 \in Rows
      BY <2>1, <3>2 DEF Rows
    <3>4. QED BY <3>2, <3>3
  <2>6. /\ workflow[n-2] = [r EXCEPT !.state = "OPERATOR_APPROVED"]
        /\ workflow[n-2].state = "OPERATOR_APPROVED" /\ workflow[n-2].intent = r.intent
    BY <2>1, <2>3, <2>5
  <2>7. ASSUME Hybrid(r.intent)
        PROVE  n - 2 > 1 /\ workflow[n-3] = [r EXCEPT !.state = "PQ_AUTHORIZED"]
    <3>1. "PQ_AUTHORIZED" \in Needs(workflow[n-2].state, workflow[n-2].intent)
      BY <2>6, <2>7 DEF Needs
    <3>2. n - 2 > 1 /\ workflow[(n-2)-1] = [workflow[n-2] EXCEPT !.state = "PQ_AUTHORIZED"]
      BY <2>2, <2>5, <3>1
    <3>3. (n-2)-1 = n-3
      BY <2>1 DEF Rows
    <3>4. QED BY <2>1, <2>6, <3>2, <3>3
  <2>8. QED BY <2>1, <2>3, <2>5, <2>6, <2>7, SMTT(30) DEF Rows
<1>2. QED BY <1>1, GovInvariant, PTL

(* What is released was anchored in both ledgers and receipted.            *)
THEOREM ReleasesAnchored == GovSpec => []ReleaseAnchored
<1>1. GovIInv => ReleaseAnchored
  BY DEF GovIInv, AllVouched, Vouched, Approved, ReleaseAnchored
<1>2. QED BY <1>1, GovInvariant, PTL

(* Only the intent whose evidence is the journal's last record is ever     *)
(* reported as authorized.                                                 *)
THEOREM ReportsCommitted == GovSpec => []ReportedIsCommitted
<1>1. GovIInv => ReportedIsCommitted
  BY DEF GovIInv
<1>2. QED BY <1>1, GovInvariant, PTL

(* A torn journal takes no more records and reports nothing more.          *)
THEOREM TornJournalFinal == GovSpec => TornIsFinal
<1>1. ASSUME [GovNext]_govVars, tail = "torn" PROVE UNCHANGED <<workflow, tail, reported>>
  <2>1. CASE \E c \in Controller : ControllerStep(c)
    BY <1>1, <2>1 DEF ControllerStep, Anchor, Prepare, Abandon, StartAuthorize, Open, Look, Grant,
                      Refuse, AppendRecord, DieAppending, DieInReceipt, Report, Readable, flow
  <2>2. CASE ~\E c \in Controller : ControllerStep(c)
    BY <1>1, <2>2 DEF GovNext, govVars, flow, PolicyTransition, EmergencyTransition, Approve
  <2>3. QED BY <2>1, <2>2
<1>2. [GovNext]_govVars => [tail = "torn" => UNCHANGED <<workflow, tail, reported>>]_govVars
  BY <1>1
<1>3. QED BY <1>2, PTL DEF GovSpec, TornIsFinal

-----------------------------------------------------------------------------
(* Refinement of SingleRelease.  What a journal with one RELEASED record,  *)
(* or none, has released.                                                  *)
LEMMA ReleasedAt ==
  ASSUME NEW rows, NEW k \in 1..Len(rows), rows[k].state = "RELEASED",
         \A j \in 1..Len(rows) : rows[j].state = "RELEASED" => j = k
  PROVE  ReleasedIn(rows) = rows[k].intent
<1>1. {n \in 1..Len(rows) : rows[n].state = "RELEASED"} = {k}
  OBVIOUS
<1>2. QED BY <1>1 DEF ReleasedIn

(* Without a RELEASED record nothing is released.                          *)
LEMMA NothingReleased ==
  ASSUME NEW rows, \A j \in 1..Len(rows) : rows[j].state # "RELEASED"
  PROVE  ReleasedIn(rows) = NoIntent
BY DEF ReleasedIn

(* The journal holds at most one RELEASED record.                          *)
LEMMA OneRelease ==
  ASSUME GovIInv, NEW j \in Rows, NEW k \in Rows,
         workflow[j].state = "RELEASED", workflow[k].state = "RELEASED"
  PROVE  j = k
<1>1. j \in Nat /\ k \in Nat
  BY DEF Rows
<1>2. ~(j < k) /\ ~(k < j)
  BY DEF GovIInv, Forward, Rows, RankOf
<1>3. QED BY <1>1, <1>2

(* A record appended to the journal releases its intent, or nothing.       *)
LEMMA AppendReleases ==
  ASSUME GovIInv, NEW c \in Controller, ctl[c].pc \in Allowed,
         workflow' = Append(workflow, Row(ctl[c])),
         approvals' = approvals, reported' = reported
  PROVE  [Single!Next]_(Single!vars)
<1> DEFINE w == ctl[c]
           n == Len(workflow)
<1>1. /\ Len(workflow') = n + 1 /\ n \in Nat /\ w.intent \in Intents
      /\ workflow'[n + 1].state = w.pc /\ workflow'[n + 1].intent = w.intent
      /\ \A k \in 1..n : workflow'[k] = workflow[k]
  <2>1. workflow \in Seq([state : WorkflowStates, intent : Intents, mode : 1..Len(Modes)])
    BY DEF GovIInv, GovTypeOK
  <2>2. QED BY <2>1, AppendForward DEF Rows, Row
<1>2. \A k \in 1..n : RankOf(workflow[k].state) < RankOf(w.pc)
  <2>1. Forward'
    BY AppendForward
  <2>2. \A k \in 1..n : RankOf(workflow'[k].state) < RankOf(workflow'[n + 1].state)
    BY <1>1, <2>1 DEF Forward
  <2>3. QED BY <1>1, <2>2
<1>3. CASE w.pc = "RELEASED"
  <2>1. \A k \in 1..n : workflow[k].state # "RELEASED"
    BY <1>2, <1>3, RankTyped
  <2>2. ReleasedIn(workflow) = NoIntent
    BY <2>1, NothingReleased
  <2>3. ReleasedIn(workflow') = w.intent
    <3>1. \A j \in 1..Len(workflow') : workflow'[j].state = "RELEASED" => j = n + 1
      BY <1>1, <2>1
    <3>2. n + 1 \in 1..Len(workflow')
      BY <1>1
    <3>3. QED BY <1>1, <1>3, <3>1, <3>2, ReleasedAt
  <2>4. ApproversOf(w.intent) \in Quorums
    BY <1>3 DEF GovIInv, AllVouched, Vouched, Approved, Authorized
  <2>5. PICK i \in Intents : i = w.intent
    BY <1>1
  <2>6. \E Q \in Quorums : \A a \in Q : <<i, a>> \in approvals
    BY <2>4, <2>5 DEF ApproversOf
  <2>7. Single!Release(i)
    BY <2>2, <2>3, <2>5, <2>6 DEF Single!Release
  <2>8. QED BY <2>7 DEF Single!Next
<1>4. CASE w.pc # "RELEASED"
  <2>1. ASSUME NEW k \in 1..n, workflow[k].state = "RELEASED"
        PROVE  ReleasedIn(workflow') = ReleasedIn(workflow)
    <3>1. \A j \in 1..n : workflow[j].state = "RELEASED" => j = k
      BY <2>1, OneRelease DEF Rows
    <3>2. ReleasedIn(workflow) = workflow[k].intent
      BY <2>1, <3>1, ReleasedAt
    <3>3. \A j \in 1..Len(workflow') : workflow'[j].state = "RELEASED" => j = k
      BY <1>1, <1>4, <3>1
    <3>4. k \in 1..Len(workflow') /\ workflow'[k].state = "RELEASED"
      BY <1>1, <2>1
    <3>5. ReleasedIn(workflow') = workflow'[k].intent
      BY <3>3, <3>4, ReleasedAt
    <3>6. QED BY <1>1, <3>2, <3>5
  <2>2. ASSUME \A k \in 1..n : workflow[k].state # "RELEASED"
        PROVE  ReleasedIn(workflow') = ReleasedIn(workflow)
    <3>1. \A j \in 1..Len(workflow') : workflow'[j].state # "RELEASED"
      BY <1>1, <1>4, <2>2
    <3>2. QED BY <2>2, <3>1, NothingReleased
  <2>3. ReleasedIn(workflow') = ReleasedIn(workflow)
    BY <2>1, <2>2
  <2>4. QED BY <2>3 DEF Single!vars
<1>5. QED BY <1>3, <1>4

(* The answer to a caller is the abstract report of the one release.       *)
LEMMA ReportReleased ==
  ASSUME GovIInv, NEW c \in Controller, Report(c)
  PROVE  Single!Report
<1> DEFINE i == ctl[c].intent
<1>1. ctl[c].pc = "reporting" /\ i \in Intents
  BY DEF Report, GovIInv, AllVouched, Vouched
<1>2. PICK k \in Rows : workflow[k] = [state |-> "EVIDENCE_COMMITTED", intent |-> i, mode |-> ctl[c].mode]
  BY <1>1 DEF GovIInv, Behind, Needs, Rows
<1>3. k > 1 /\ workflow[k-1] = [workflow[k] EXCEPT !.state = "RELEASED"]
  BY <1>2 DEF GovIInv, Behind, Needs, Rows
<1>4. k - 1 \in Rows /\ workflow[k-1].state = "RELEASED" /\ workflow[k-1].intent = i
  <2>1. Len(workflow) \in Nat
    BY DEF GovIInv, GovTypeOK
  <2>2. QED BY <1>2, <1>3, <2>1 DEF Rows
<1>5. ReleasedIn(workflow) = i
  <2>1. \A j \in 1..Len(workflow) : workflow[j].state = "RELEASED" => j = k - 1
    BY <1>4, OneRelease DEF Rows
  <2>2. QED BY <1>4, <2>1, ReleasedAt DEF Rows
<1>6. \A r \in reported : r = i
  <2>1. k = Len(workflow)
    BY <1>2 DEF GovIInv, Forward, Rows
  <2>2. QED BY <1>2, <2>1 DEF GovIInv, ReportedIsCommitted
<1>7. reported' = {i} /\ workflow' = workflow /\ approvals' = approvals
  BY <1>6 DEF Report, govern
<1>8. i # NoIntent
  BY <1>1, GovAssumption
<1>9. QED BY <1>5, <1>7, <1>8 DEF Single!Report

(* Every step maps to a step of SingleRelease or to a stutter.             *)
LEMMA GovStepRefines ==
  ASSUME GovIInv, [GovNext]_govVars
  PROVE  [Single!Next]_(Single!vars)
<1>1. CASE UNCHANGED <<workflow, approvals, reported>>
  BY <1>1 DEF Single!vars
<1>2. ASSUME NEW a \in Approver, NEW c \in Controller, Approve(a, ctl[c].intent)
      PROVE  [Single!Next]_(Single!vars)
  <2>1. PICK d \in Controller : ctl[d].pc = "prepared" /\ ctl[d].intent = ctl[c].intent
    BY <1>2 DEF Approve
  <2>2. ctl[c].intent \in Intents
    BY <2>1 DEF GovIInv, AllVouched, Vouched
  <2>3. Single!Approve(ctl[c].intent, a)
    BY <1>2 DEF Approve, Single!Approve, flow
  <2>4. QED BY <2>2, <2>3 DEF Single!Next
<1>3. ASSUME NEW c \in Controller, AppendRecord(c) \/ DieAppending(c)
      PROVE  [Single!Next]_(Single!vars)
  <2>1. approvals' = approvals /\ reported' = reported
    BY <1>3 DEF AppendRecord, DieAppending, govern
  <2>2. CASE workflow' = workflow
    BY <2>1, <2>2 DEF Single!vars
  <2>3. CASE workflow' # workflow
    <3>1. ctl[c].pc \in Allowed /\ workflow' = Append(workflow, Row(ctl[c]))
      BY <1>3, <2>3 DEF AppendRecord, DieAppending
    <3>2. QED BY <2>1, <3>1, AppendReleases
  <2>4. QED BY <2>2, <2>3
<1>4. ASSUME NEW c \in Controller, Report(c) PROVE [Single!Next]_(Single!vars)
  BY <1>4, ReportReleased DEF Single!Next
<1>5. ASSUME NEW c \in Controller, ControllerStep(c) PROVE [Single!Next]_(Single!vars)
  <2>1. \/ AppendRecord(c) \/ DieAppending(c) \/ Report(c)
        \/ UNCHANGED <<workflow, approvals, reported>>
    BY <1>5 DEF ControllerStep, Anchor, Prepare, Abandon, StartAuthorize, Open, Look,
                Grant, Refuse, DieInReceipt, flow, govern
  <2>2. QED BY <1>1, <1>3, <1>4, <2>1
<1>6. ASSUME \/ \E l \in Levels, e \in Epoch, padded \in BOOLEAN : PolicyTransition(l, e, padded)
             \/ \E m \in 1..Len(Modes), r \in BOOLEAN : EmergencyTransition(m, r)
      PROVE  [Single!Next]_(Single!vars)
  BY <1>1, <1>6 DEF PolicyTransition, EmergencyTransition, flow
<1>7. CASE UNCHANGED govVars
  BY <1>1, <1>7 DEF govVars
<1>8. QED BY <1>2, <1>5, <1>6, <1>7 DEF GovNext

(* Controllers, journal and ledgers implement a workflow that releases at  *)
(* most one intent, approved by a quorum, and reports no other.            *)
THEOREM GovRefinement == GovSpec => ImplementsSingleRelease
<1>1. GovInit => Single!Init
  <2>1. ASSUME GovInit PROVE Single!Init
    <3>1. ReleasedIn(workflow) = NoIntent
      BY <2>1, NothingReleased DEF GovInit
    <3>2. QED BY <2>1, <3>1 DEF GovInit, Single!Init
  <2>2. QED BY <2>1
<1>2. GovIInv /\ [GovNext]_govVars => [Single!Next]_(Single!vars)
  BY GovStepRefines
<1>3. QED BY <1>1, <1>2, GovInvariant, PTL DEF GovSpec, ImplementsSingleRelease, Single!Spec

-----------------------------------------------------------------------------
(* The ledgers over time.  The policy only ever gets stricter, and what a  *)
(* journal has recorded was allowed by a policy no stricter than today's.  *)
PolicyTight ==
  \A j, k \in 1..Len(policy) : j <= k => policy[j].level <= policy[k].level

RecordsNotAbove ==
  \A n \in Rows : policy # << >> /\ workflow[n].intent.level <= policy[Len(policy)].level

(* No ledger, journal or answer ever loses or changes an entry.            *)
HistoryKept ==
  /\ Len(policy) <= Len(policy') /\ \A k \in 1..Len(policy) : policy'[k] = policy[k]
  /\ Len(emergency) <= Len(emergency') /\ \A k \in 1..Len(emergency) : emergency'[k] = emergency[k]
  /\ Len(workflow) <= Len(workflow') /\ \A k \in Rows : workflow'[k] = workflow[k]
  /\ approvals \subseteq approvals' /\ receipts \subseteq receipts' /\ reported \subseteq reported'

(* A workflow ends after at most six records.                              *)
JournalShort == Len(workflow) <= 6

(* A transition of the policy ledger is refused unless it is as strict as  *)
(* the last, so the whole ledger is in order.                              *)
LEMMA TightStays == ASSUME GovIInv, PolicyTight, [GovNext]_govVars PROVE PolicyTight'
<1>1. policy \in Seq([level : Levels, epoch : Epoch])
  BY DEF GovIInv, GovTypeOK
<1>2. CASE \E l \in Levels, e \in Epoch, padded \in BOOLEAN : PolicyTransition(l, e, padded)
  <2>1. PICK l \in Levels, e \in Epoch, padded \in BOOLEAN : PolicyTransition(l, e, padded)
    BY <1>2
  <2>2. PICK n, r : n = Len(policy) /\ r = [level |-> l, epoch |-> e]
    OBVIOUS
  <2>3. policy' = Append(policy, r) /\ r.level = l /\ (policy # << >> => l >= policy[n].level)
    BY <2>1, <2>2 DEF PolicyTransition
  <2>4. /\ n \in Nat /\ Len(policy') = n + 1 /\ policy'[n + 1] = r
        /\ \A k \in 1..n : policy'[k] = policy[k] /\ policy[k].level \in Int
    <3>1. ASSUME NEW k \in 1..n PROVE policy[k].level \in Int
      <4>1. policy[k] \in [level : Levels, epoch : Epoch]
        BY <1>1, <2>2, ElementTyped
      <4>2. policy[k].level \in Levels
        BY <4>1
      <4>3. QED BY <4>2 DEF Levels
    <3>2. QED BY <1>1, <2>2, <2>3, <3>1
  <2>5. \A k \in 1..n : policy[k].level <= l
    <3>1. ASSUME NEW k \in 1..n PROVE policy[k].level <= l
      <4>1. n \in 1..n /\ k <= n /\ policy # << >>
        BY <2>2, <2>4
      <4>2. policy[k].level <= policy[n].level /\ policy[n].level <= l
        BY <2>2, <2>3, <4>1 DEF PolicyTight
      <4>3. l \in Int /\ policy[k].level \in Int /\ policy[n].level \in Int
        BY <2>4, <4>1 DEF Levels
      <4>4. QED BY <4>2, <4>3
    <3>2. QED BY <3>1
  <2>6. ASSUME NEW j \in 1..(n+1), NEW k \in 1..(n+1), j <= k
        PROVE  policy'[j].level <= policy'[k].level
    <3>1. CASE k \in 1..n
      <4>1. j \in 1..n
        BY <2>4, <2>6, <3>1
      <4>2. QED BY <2>2, <2>4, <2>6, <3>1, <4>1 DEF PolicyTight
    <3>2. CASE k = n + 1 /\ j \in 1..n
      BY <2>3, <2>4, <2>5, <3>2
    <3>3. CASE k = n + 1 /\ j = n + 1
      BY <2>3, <2>4, <3>3 DEF Levels
    <3>4. QED BY <2>4, <2>6, <3>1, <3>2, <3>3
  <2>7. QED BY <2>4, <2>6 DEF PolicyTight
<1>3. CASE UNCHANGED policy
  BY <1>3 DEF PolicyTight
<1>4. UNCHANGED policy \/ \E l \in Levels, e \in Epoch, padded \in BOOLEAN : PolicyTransition(l, e, padded)
  BY DEF GovNext, govVars, ControllerStep, EmergencyTransition, Approve, Anchor, Prepare, Abandon,
         StartAuthorize, Open, Look, Grant, Refuse, AppendRecord, DieAppending, DieInReceipt,
         Report, govern
<1>5. QED BY <1>2, <1>3, <1>4

(* The policy ledger cannot be rolled back by any writer, stale or padded  *)
(* (PolicyLedger.transition).                                              *)
THEOREM PolicyNeverLoosens == GovSpec => []PolicyTight
<1>1. GovInit => PolicyTight
  BY DEF GovInit, PolicyTight
<1>2. GovIInv /\ PolicyTight /\ [GovNext]_govVars => PolicyTight'
  BY TightStays
<1>3. QED BY <1>1, <1>2, GovInvariant, PTL DEF GovSpec

(* However long a controller held its anchor, what it recorded is no       *)
(* stricter than the policy of now (prepare_governed_signing).             *)
THEOREM RecordsUnderPolicy == GovSpec => []RecordsNotAbove
<1>1. ASSUME GovIInv, PolicyTight PROVE RecordsNotAbove
  <2> SUFFICES ASSUME NEW n \in Rows
               PROVE  policy # << >> /\ workflow[n].intent.level <= policy[Len(policy)].level
    BY DEF RecordsNotAbove
  <2>1. workflow[n].state # "resting"
    BY <1>1, RowTyped DEF GovIInv, WorkflowStates
  <2>2. PICK k \in 1..Len(policy) :
          policy[k] = [level |-> workflow[n].intent.level, epoch |-> workflow[n].intent.epoch]
    BY <1>1, <2>1 DEF GovIInv, AllVouched, Vouched, Rows
  <2>3. Len(policy) \in Nat /\ Len(policy) \in 1..Len(policy) /\ k <= Len(policy) /\ policy # << >>
    BY <1>1, <2>2 DEF GovIInv, GovTypeOK
  <2>4. policy[k].level <= policy[Len(policy)].level
    BY <1>1, <2>3 DEF PolicyTight
  <2>5. QED BY <2>2, <2>3, <2>4
<1>2. QED BY <1>1, PolicyNeverLoosens, GovInvariant, PTL

(* Every step keeps what was written.                                      *)
LEMMA StepKeepsHistory == ASSUME GovIInv, [GovNext]_govVars PROVE HistoryKept
<1>1. /\ policy \in Seq([level : Levels, epoch : Epoch]) /\ emergency \in Seq(1..Len(Modes))
      /\ workflow \in Seq([state : WorkflowStates, intent : Intents, mode : 1..Len(Modes)])
  BY DEF GovIInv, GovTypeOK
<1>2. CASE UNCHANGED govVars
  BY <1>1, <1>2 DEF govVars, HistoryKept, Rows
<1>3. ASSUME NEW l \in Levels, NEW e \in Epoch, NEW padded \in BOOLEAN, PolicyTransition(l, e, padded)
      PROVE  HistoryKept
  BY <1>1, <1>3 DEF PolicyTransition, flow, HistoryKept, Rows
<1>4. ASSUME NEW m \in 1..Len(Modes), NEW r \in BOOLEAN, EmergencyTransition(m, r)
      PROVE  HistoryKept
  BY <1>1, <1>4 DEF EmergencyTransition, flow, HistoryKept, Rows
<1>5. ASSUME NEW a \in Approver, NEW c \in Controller, Approve(a, ctl[c].intent)
      PROVE  HistoryKept
  BY <1>1, <1>5 DEF Approve, flow, HistoryKept, Rows
<1>6. ASSUME NEW c \in Controller, ControllerStep(c) PROVE HistoryKept
  <2>1. UNCHANGED govern /\ receipts \subseteq receipts' /\ reported \subseteq reported'
    BY <1>6 DEF ControllerStep, Anchor, Prepare, Abandon, StartAuthorize, Open, Look, Grant, Refuse,
                AppendRecord, DieAppending, DieInReceipt, Report, govern, flow
  <2>2. workflow' = workflow \/ workflow' = Append(workflow, Row(ctl[c]))
    BY <1>6 DEF ControllerStep, Anchor, Prepare, Abandon, StartAuthorize, Open, Look, Grant, Refuse,
                AppendRecord, DieAppending, DieInReceipt, Report, flow
  <2>3. Len(workflow) <= Len(workflow') /\ \A k \in Rows : workflow'[k] = workflow[k]
    <3>1. CASE workflow' = workflow
      BY <1>1, <3>1
    <3>2. CASE workflow' = Append(workflow, Row(ctl[c]))
      <4>1. PICK r : r = Row(ctl[c])
        OBVIOUS
      <4>2. workflow' = Append(workflow, r)
        BY <3>2, <4>1
      <4>3. Len(workflow') = Len(workflow) + 1 /\ Len(workflow) \in Nat
        BY <1>1, <4>2
      <4>4. \A k \in 1..Len(workflow) : workflow'[k] = workflow[k]
        BY <1>1, <4>2
      <4>5. QED BY <4>3, <4>4 DEF Rows
    <3>3. QED BY <2>2, <3>1, <3>2
  <2>4. UNCHANGED <<policy, emergency, approvals>> /\ Len(policy) \in Nat /\ Len(emergency) \in Nat
    BY <1>1, <2>1 DEF govern
  <2>5. QED BY <2>1, <2>3, <2>4 DEF HistoryKept
<1>7. QED BY <1>2, <1>3, <1>4, <1>5, <1>6 DEF GovNext

(* Both governance ledgers, the workflow journal, the receipts and the     *)
(* answers are append-only, over races and deaths of controllers           *)
(* (SaraWorkflowJournal.append, PolicyLedger, EmergencyLedger).            *)
THEOREM HistoriesKept == GovSpec => [][HistoryKept]_govVars
<1>1. GovIInv /\ [GovNext]_govVars => [HistoryKept]_govVars
  BY StepKeepsHistory
<1>2. QED BY <1>1, GovInvariant, PTL DEF GovSpec

(* Ranks grow from record to record, so the k-th is at least k.            *)
LEMMA RanksGrow == ASSUME GovIInv, NEW n \in Rows PROVE n <= RankOf(workflow[n].state)
<1> DEFINE S == {k \in Rows : k <= RankOf(workflow[k].state)}
<1>1. Len(workflow) \in Nat /\ 1 \in 1..Len(workflow) /\ Rows = 1..Len(workflow)
  BY DEF GovIInv, GovTypeOK, Rows
<1>2. \A k \in Rows : RankOf(workflow[k].state) \in 1..7
  BY RankTyped
<1>3. 1 \in S
  BY <1>1, <1>2
<1>4. ASSUME NEW k \in 1..Len(workflow), k \in S, k < Len(workflow) PROVE k + 1 \in S
  <2>1. k \in 1..Len(workflow) /\ k + 1 \in 1..Len(workflow) /\ k < k + 1
    BY <1>1, <1>4
  <2>2. RankOf(workflow[k].state) < RankOf(workflow[k+1].state)
    BY <2>1 DEF GovIInv, Forward
  <2>3. /\ k <= RankOf(workflow[k].state) /\ RankOf(workflow[k].state) \in 1..7
        /\ RankOf(workflow[k+1].state) \in 1..7
    BY <1>1, <1>2, <1>4, <2>1
  <2>4. k + 1 <= RankOf(workflow[k+1].state)
    <3>1. PICK a, b : a = RankOf(workflow[k].state) /\ b = RankOf(workflow[k+1].state)
      OBVIOUS
    <3>2. a \in 1..7 /\ b \in 1..7 /\ k <= a /\ a < b
      BY <2>2, <2>3, <3>1
    <3>3. QED BY <1>4, <3>1, <3>2
  <2>5. QED BY <1>1, <2>1, <2>4
<1>5. \A k \in 1..Len(workflow) : k \in S
  <2> HIDE DEF S
  <2>1. QED BY <1>1, <1>3, <1>4, Stepwise
<1>6. QED BY <1>1, <1>5

(* However many controllers share a workflow, it has at most six records:  *)
(* every append moves forward, and evidence and refusal end it             *)
(* (SaraWorkflowJournal.append, _ALLOWED).                                 *)
THEOREM JournalsShort == GovSpec => []JournalShort
<1>1. ASSUME GovIInv PROVE JournalShort
  <2>1. Len(workflow) \in Nat /\ Rows = 1..Len(workflow)
    BY <1>1 DEF GovIInv, GovTypeOK, Rows
  <2> SUFFICES ASSUME Len(workflow) > 6 PROVE FALSE
    <3>1. ~(Len(workflow) > 6) => Len(workflow) <= 6
      BY <2>1
    <3>2. QED BY <3>1 DEF JournalShort
  <2>2. 6 \in Rows /\ 7 \in Rows
    BY <2>1
  <2>3. RankOf(workflow[6].state) < RankOf(workflow[7].state) /\ 6 <= RankOf(workflow[6].state)
    BY <1>1, <2>1, <2>2, RanksGrow DEF GovIInv, Forward
  <2>4. RankOf(workflow[6].state) = 6
    <3>1. PICK a, b : a = RankOf(workflow[6].state) /\ b = RankOf(workflow[7].state)
      OBVIOUS
    <3>2. a \in 1..7 /\ b \in 1..7
      BY <3>1, RankTyped
    <3>3. QED BY <2>3, <3>1, <3>2
  <2>5. workflow[6].state = "EVIDENCE_COMMITTED"
    <3>1. \A s : RankOf(s) = 6 => s = "EVIDENCE_COMMITTED"
      BY DEF RankOf
    <3>2. QED BY <2>4, <3>1
  <2>6. 6 = Len(workflow)
    BY <1>1, <2>1, <2>2, <2>5 DEF GovIInv, Forward
  <2>7. 7 \in 1..Len(workflow)
    BY <2>1, <2>2
  <2>8. 7 \in 1..6
    BY <2>6, <2>7
  <2>9. QED BY <2>8
<1>2. QED BY <1>1, GovInvariant, PTL
=============================================================================
