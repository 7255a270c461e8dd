--------------------------- MODULE GovernedSigning ---------------------------
(***************************************************************************)
(* QCRYPTO governed signing: the anti-rollback ledgers of crypto policy    *)
(* and emergency mode, and the controllers that prepare an intent and carry  *)
(* it through the SARA workflow journal to a release                       *)
(* (control_plane.prepare_governed_signing, authorize_governed_signing).   *)
(*                                                                         *)
(* Every journal call takes the file lock on its own, so verify() and the  *)
(* append(expected_sequence) after it are two steps, and controllers that  *)
(* share one workflow interleave at every call.  A process may die inside  *)
(* an append: the journal file then ends in a torn line, or in a record    *)
(* without its newline, which the next append glues to its own.  Clocks    *)
(* are a choice: an intent or an approval may turn out to have expired.    *)
(***************************************************************************)
EXTENDS Sequences, Integers, FiniteSets

CONSTANTS Controller,    \* processes that drive the workflow
          Tx,            \* candidate transactions
          BoundTx,       \* those prepared with a migration binding
          Epoch,         \* policy epoch names
          Approver,      \* trusted operators
          RoleOf,        \* the role each operator signs with
          RequiredRoles, \* roles a quorum has to hold
          MinApprovals,  \* operators a quorum has to hold
          Provider,      \* PQ providers, in the order they are tried
          FamilyOf,      \* the algorithm family of each provider
          DomainOf,      \* the fault domain of each provider
          Families,      \* families the agility policy requires
          MinDomains,    \* fault domains a PQ quorum spans
          NoIntent,      \* no intent was released
          MaxLevel, MaxPolicy, MaxEmergency, MaxApproved, MaxWrecks  \* bounds

PolicyStates == <<"ECDSA_ALLOWED", "HYBRID_REQUIRED", "PQ_REQUIRED", "CLASSICAL_REJECTED">>
Modes == <<"NORMAL", "MIGRATION_ONLY", "FREEZE">>
Levels == 1..MaxLevel

Intents == [tx : Tx, level : Levels, epoch : Epoch]
NoSeq == -1

ASSUME GovAssumption ==
  /\ IsFiniteSet(Approver) /\ MinApprovals \in Nat /\ MinDomains \in Nat
  /\ NoIntent \notin Intents
  /\ MaxLevel \in 1..Len(PolicyStates)
  /\ {MaxPolicy, MaxEmergency, MaxApproved, MaxWrecks} \subseteq Nat

VARIABLES
  policy,     \* rows of the policy ledger: [level, epoch]
  emergency,  \* rows of the emergency ledger: indexes of Modes
  approvals,  \* <<intent, approver>>: approvals operators have signed
  workflow,   \* records of the SARA workflow journal: [state, intent, mode]
  tail,       \* how its file ends: "clean", "open" (no newline) or "torn"
  receipts,   \* intents with a record in the authorization ledger
  torn,       \* the authorization ledger can no longer be verified
  ctl,        \* controller -> [pc, intent, mode, seq]
  reported,   \* intents a caller was told are authorized (history)
  wrecks      \* processes that died inside a write

flow == <<workflow, tail, receipts, torn, reported>>
govern == <<policy, emergency, approvals>>
govVars == <<policy, emergency, approvals,
             workflow, tail, receipts, torn, ctl, reported, wrecks>>

Resting(i) == [pc |-> "resting", intent |-> i, mode |-> 1, seq |-> NoSeq]

GovInit ==
  /\ policy = << >> /\ emergency = << >>
  /\ approvals = {}
  /\ workflow = << >> /\ tail = "clean" /\ receipts = {} /\ torn = FALSE
  /\ ctl = [c \in Controller |-> Resting(NoIntent)]
  /\ reported = {} /\ wrecks = 0

Hybrid(i) == PolicyStates[i.level] = "HYBRID_REQUIRED"
Stop(c) == ctl' = [ctl EXCEPT ![c] = Resting(NoIntent)]
Go(c, p) == ctl' = [ctl EXCEPT ![c].pc = p, ![c].seq = NoSeq]

-----------------------------------------------------------------------------
(* The ledgers.  A refused transition (stale writer, downgrade) changes    *)
(* nothing.  The epoch is compared as it was given and stored stripped, so *)
(* a padded name equals no stored one.                                     *)
PolicyTransition(l, e, padded) ==
  /\ Len(policy) < MaxPolicy
  /\ policy # << >> =>
       LET last == policy[Len(policy)] IN
       /\ l >= last.level
       /\ ~padded /\ last.epoch = e => last.level = l
  /\ policy' = Append(policy, [level |-> l, epoch |-> e])
  /\ UNCHANGED <<emergency, approvals, flow, ctl, wrecks>>

CurrentMode == IF emergency = << >> THEN 1 ELSE emergency[Len(emergency)]

(* De-escalation needs the digest of a recovery authorization.             *)
EmergencyTransition(m, recovery) ==
  /\ Len(emergency) < MaxEmergency
  /\ m < CurrentMode => recovery
  /\ emergency' = Append(emergency, m)
  /\ UNCHANGED <<policy, approvals, flow, ctl, wrecks>>

-----------------------------------------------------------------------------
(* Preparation: the policy anchor, then the emergency anchor, then the     *)
(* audits, which read nothing that changes.  The intent's digest covers    *)
(* the transaction with its migration binding, the policy state and epoch. *)
IntentOf(t) ==
  LET row == policy[Len(policy)] IN [tx |-> t, level |-> row.level, epoch |-> row.epoch]

Anchor(c, t) ==
  /\ ctl[c].pc = "resting" /\ policy # << >>
  /\ ctl' = [ctl EXCEPT ![c] = [Resting(IntentOf(t)) EXCEPT !.pc = "anchored"]]
  /\ UNCHANGED <<govern, flow, wrecks>>

Prepare(c) ==
  /\ ctl[c].pc = "anchored"
  /\ ctl' = [ctl EXCEPT ![c].pc = "prepared", ![c].mode = CurrentMode]
  /\ UNCHANGED <<govern, flow, wrecks>>

(* An operator approves an intent that somebody prepared.                  *)
Approve(a, i) ==
  /\ \E c \in Controller : ctl[c].pc = "prepared" /\ ctl[c].intent = i
  /\ <<i, a>> \notin approvals /\ Cardinality(approvals) < MaxApproved
  /\ approvals' = approvals \union {<<i, a>>}
  /\ UNCHANGED <<policy, emergency, flow, ctl, wrecks>>

(* The caller gives up before authorizing, or an exception ends a call.    *)
Abandon(c) ==
  /\ ctl[c].pc # "resting" /\ Stop(c)
  /\ UNCHANGED <<govern, flow, wrecks>>

-----------------------------------------------------------------------------
(* Authorization, in the order of the code.  PQ providers are tried in     *)
(* turn, each once, until those that signed satisfy the agility policy;    *)
(* the collected attestations then have to span the fault domains.  A      *)
(* failure raises before anything is journaled.                            *)
Agile(S) == S # {} /\ Families \subseteq {FamilyOf[p] : p \in S}

Collected(signers) ==
  LET good(n) == {Provider[k] : k \in 1..n} \intersect signers
      enough == {n \in 0..Len(Provider) : n = Len(Provider) \/ Agile(good(n))}
  IN  good(CHOOSE n \in enough : \A m \in enough : n <= m)

QuorumHolds(S) == Agile(S) /\ Cardinality({DomainOf[p] : p \in S}) >= MinDomains

StartAuthorize(c) ==
  /\ ctl[c].pc = "prepared"
  /\ Hybrid(ctl[c].intent) =>
       \E signers \in SUBSET {Provider[k] : k \in 1..Len(Provider)} :
         QuorumHolds(Collected(signers))
  /\ Go(c, "opening")
  /\ UNCHANGED <<govern, flow, wrecks>>

Readable == tail # "torn"
AfterPrepared(i) == IF Hybrid(i) THEN "PQ_AUTHORIZED" ELSE "approving"

(* PREPARED is recorded only when the journal is empty.                    *)
Open(c) ==
  /\ ctl[c].pc = "opening" /\ Readable
  /\ IF workflow = << >>
     THEN ctl' = [ctl EXCEPT ![c].pc = "PREPARED", ![c].seq = 0]
     ELSE Go(c, AfterPrepared(ctl[c].intent))
  /\ UNCHANGED <<govern, flow, wrecks>>

WorkflowStates == {"PREPARED", "PQ_AUTHORIZED", "OPERATOR_APPROVED", "PRIME_APPROVED",
                   "RELEASED", "EVIDENCE_COMMITTED", "BLOCKED"}

Follows(s) ==
  CASE s = "PREPARED" -> {"PQ_AUTHORIZED", "OPERATOR_APPROVED", "BLOCKED"}
    [] s = "PQ_AUTHORIZED" -> {"OPERATOR_APPROVED", "BLOCKED"}
    [] s = "OPERATOR_APPROVED" -> {"PRIME_APPROVED", "BLOCKED"}
    [] s = "PRIME_APPROVED" -> {"RELEASED", "BLOCKED"}
    [] s = "RELEASED" -> {"EVIDENCE_COMMITTED", "BLOCKED"}
    [] OTHER -> {}

Allowed == IF workflow = << >> THEN {"PREPARED"} ELSE Follows(workflow[Len(workflow)].state)

(* verify() before an append: the sequence the append will expect.         *)
Look(c) ==
  /\ ctl[c].pc \in WorkflowStates /\ ctl[c].seq = NoSeq /\ Readable
  /\ ctl' = [ctl EXCEPT ![c].seq = Len(workflow)]
  /\ UNCHANGED <<govern, flow, wrecks>>

(* Mutant: approvals that do not name the intent they approve.             *)
ApproversOfAny(i) == {a \in Approver : \E b \in approvals : b[2] = a}

(* The expiry of the intent, the policy state, the operators' quorum, and  *)
(* a receipt.  Any failure, the receipt's too, leads to BLOCKED.           *)
ApproversOf(i) == {a \in Approver : <<i, a>> \in approvals}

Quorums == {Q \in SUBSET Approver : /\ Cardinality(Q) >= MinApprovals
                                     /\ RequiredRoles \subseteq {RoleOf[a] : a \in Q}}

Authorized(i) == /\ PolicyStates[i.level] \in {"ECDSA_ALLOWED", "HYBRID_REQUIRED"}
                 /\ ApproversOf(i) \in Quorums

(* Mutant: a receipt that cannot be written is forgotten.                  *)
GrantUnreceipted(c) ==
  /\ ctl[c].pc = "approving" /\ Authorized(ctl[c].intent)
  /\ receipts' = IF torn THEN receipts ELSE receipts \union {ctl[c].intent}
  /\ Go(c, "OPERATOR_APPROVED")
  /\ UNCHANGED <<govern, workflow, tail, torn, reported, wrecks>>

Grant(c) ==
  /\ ctl[c].pc = "approving" /\ Authorized(ctl[c].intent) /\ ~torn
  /\ receipts' = receipts \union {ctl[c].intent}
  /\ Go(c, "OPERATOR_APPROVED")
  /\ UNCHANGED <<govern, workflow, tail, torn, reported, wrecks>>

Refuse(c) ==
  /\ ctl[c].pc = "approving" /\ Go(c, "BLOCKED")
  /\ UNCHANGED <<govern, flow, wrecks>>

(* PRIME's decision: the mode anchored at preparation, and for             *)
(* MIGRATION_ONLY a validated migration binding.                           *)
PrimeAllows(w) == \/ Modes[w.mode] = "NORMAL"
                  \/ Modes[w.mode] = "MIGRATION_ONLY" /\ w.intent.tx \in BoundTx

(* Where a controller goes when its record is in the journal.              *)
Recorded(w) ==
  LET at(p, n) == [w EXCEPT !.pc = p, !.seq = n]
  IN  CASE w.pc = "PREPARED" -> at(AfterPrepared(w.intent), NoSeq)
        [] w.pc = "PQ_AUTHORIZED" -> at("approving", NoSeq)
        [] w.pc = "OPERATOR_APPROVED" ->
             at(IF PrimeAllows(w) THEN "PRIME_APPROVED" ELSE "BLOCKED", NoSeq)
        [] w.pc = "PRIME_APPROVED" -> at("RELEASED", w.seq + 1)
        [] w.pc = "RELEASED" -> at("EVIDENCE_COMMITTED", NoSeq)
        [] w.pc = "EVIDENCE_COMMITTED" -> at("reporting", NoSeq)
        [] OTHER -> Resting(NoIntent)

Row(w) == [state |-> w.pc, intent |-> w.intent, mode |-> w.mode]

(* Mutant: a refused append does not end the call.                         *)
AppendSwallowed(c) ==
  LET w == ctl[c] IN
  /\ w.pc \in WorkflowStates /\ w.seq # NoSeq /\ Readable
  /\ ctl' = [ctl EXCEPT ![c] = Recorded(w)]
  /\ IF Len(workflow) = w.seq /\ w.pc \in Allowed
     THEN /\ workflow' = Append(workflow, Row(w))
          /\ tail' = IF tail = "open" THEN "torn" ELSE tail
     ELSE UNCHANGED <<workflow, tail>>
  /\ UNCHANGED <<govern, receipts, torn, reported, wrecks>>

(* append(): a stale sequence or a forbidden transition raises and ends    *)
(* the call.  A record after one that lost its newline spoils the file.    *)
AppendRecord(c) ==
  LET w == ctl[c] IN
  /\ w.pc \in WorkflowStates /\ w.seq # NoSeq /\ Readable
  /\ IF Len(workflow) = w.seq /\ w.pc \in Allowed
     THEN /\ workflow' = Append(workflow, Row(w))
          /\ tail' = IF tail = "open" THEN "torn" ELSE tail
          /\ ctl' = [ctl EXCEPT ![c] = Recorded(w)]
     ELSE Stop(c) /\ UNCHANGED <<workflow, tail>>
  /\ UNCHANGED <<govern, receipts, torn, reported, wrecks>>

(* The process dies inside the write of a record or of a receipt: a torn   *)
(* line, or the whole record without its newline.                          *)
DieAppending(c) ==
  LET w == ctl[c] IN
  /\ w.pc \in WorkflowStates /\ w.seq # NoSeq /\ Readable
  /\ Len(workflow) = w.seq /\ w.pc \in Allowed
  /\ wrecks < MaxWrecks /\ wrecks' = wrecks + 1
  /\ \/ workflow' = workflow /\ tail' = "torn"
     \/ /\ workflow' = Append(workflow, Row(w))
        /\ tail' = IF tail = "open" THEN "torn" ELSE "open"
  /\ Stop(c)
  /\ UNCHANGED <<govern, receipts, torn, reported>>

DieInReceipt(c) ==
  /\ ctl[c].pc = "approving" /\ Authorized(ctl[c].intent) /\ ~torn
  /\ wrecks < MaxWrecks /\ wrecks' = wrecks + 1
  /\ torn' = TRUE /\ Stop(c)
  /\ UNCHANGED <<govern, workflow, tail, receipts, reported>>

(* The last verify() and the answer: authorized for local signing.         *)
Report(c) ==
  /\ ctl[c].pc = "reporting" /\ Readable
  /\ reported' = reported \union {ctl[c].intent} /\ Stop(c)
  /\ UNCHANGED <<govern, workflow, tail, receipts, torn, wrecks>>

ControllerStep(c) ==
  \/ \E t \in Tx : Anchor(c, t)
  \/ Prepare(c) \/ Abandon(c) \/ StartAuthorize(c) \/ Open(c) \/ Look(c)
  \/ Grant(c) \/ Refuse(c) \/ AppendRecord(c) \/ DieAppending(c)
  \/ DieInReceipt(c) \/ Report(c)

GovNext ==
  \/ \E l \in Levels, e \in Epoch, padded \in BOOLEAN : PolicyTransition(l, e, padded)
  \/ \E m \in 1..Len(Modes), r \in BOOLEAN : EmergencyTransition(m, r)
  \/ \E a \in Approver, c \in Controller : Approve(a, ctl[c].intent)
  \/ \E c \in Controller : ControllerStep(c)

GovSpec == GovInit /\ [][GovNext]_govVars
-----------------------------------------------------------------------------
PCs == {"resting", "anchored", "prepared", "opening", "approving", "reporting"}
       \union WorkflowStates

GovTypeOK ==
  /\ policy \in Seq([level : Levels, epoch : Epoch])
  /\ emergency \in Seq(1..Len(Modes))
  /\ approvals \subseteq Intents \X Approver
  /\ workflow \in Seq([state : WorkflowStates, intent : Intents, mode : 1..Len(Modes)])
  /\ tail \in {"clean", "open", "torn"}
  /\ receipts \subseteq Intents /\ torn \in BOOLEAN
  /\ ctl \in [Controller -> [pc : PCs, intent : Intents \union {NoIntent},
                              mode : 1..Len(Modes), seq : Nat \union {NoSeq}]]
  /\ reported \subseteq Intents /\ wrecks \in 0..MaxWrecks

(* Whatever controllers share the journal and wherever they die, a release *)
(* is the last of one controller's unbroken run of records: the operators' *)
(* approval and PRIME's of the same intent and mode come right before it,  *)
(* and for a hybrid intent its PQ authorization before them                *)
(* (authorize_governed_signing, SaraWorkflowJournal.append).               *)
ReleaseUnbroken ==
  \A n \in 1..Len(workflow) : workflow[n].state = "RELEASED" =>
    LET before(k, s) == n > k /\ workflow[n-k] = [workflow[n] EXCEPT !.state = s]
    IN  /\ before(1, "PRIME_APPROVED") /\ before(2, "OPERATOR_APPROVED")
        /\ Hybrid(workflow[n].intent) => before(3, "PQ_AUTHORIZED")

(* What is released was anchored and receipted elsewhere: its policy state *)
(* and epoch are a row of the policy ledger, its mode one the emergency    *)
(* ledger held and not FREEZE, and its receipt is in the authorization     *)
(* ledger (prepare_governed_signing, authorize_prepared_signing).          *)
ReleaseAnchored ==
  \A n \in 1..Len(workflow) : workflow[n].state = "RELEASED" =>
    LET i == workflow[n].intent  m == workflow[n].mode IN
    /\ \E k \in 1..Len(policy) : policy[k] = [level |-> i.level, epoch |-> i.epoch]
    /\ m = 1 \/ \E k \in 1..Len(emergency) : emergency[k] = m
    /\ Modes[m] # "FREEZE"
    /\ i \in receipts

(* Only the intent whose evidence the journal committed is reported as     *)
(* authorized for signing, so no two controllers get two releases out of   *)
(* one workflow (authorize_governed_signing).                              *)
ReportedIsCommitted ==
  \A i \in reported : /\ workflow # << >>
                      /\ workflow[Len(workflow)].state = "EVIDENCE_COMMITTED"
                      /\ workflow[Len(workflow)].intent = i

(* Once the journal is torn it has had its last record, and an intent that *)
(* was not reported by then never is (_read rejects the whole file).       *)
TornIsFinal == [][tail = "torn" => UNCHANGED <<workflow, tail, reported>>]_govVars

(* Controllers, journal and ledgers implement a single approved release.   *)
ReleasedIn(rows) ==
  LET released == {n \in 1..Len(rows) : rows[n].state = "RELEASED"}
  IN  IF released = {} THEN NoIntent ELSE rows[CHOOSE n \in released : TRUE].intent

Single == INSTANCE SingleRelease
            WITH approved <- approvals, released <- ReleasedIn(workflow), Quorum <- Quorums

ImplementsSingleRelease == Single!Spec
-----------------------------------------------------------------------------
(* Why these hold.  The journal only moves forward, and ends at a final    *)
(* record.                                                                 *)
RankOf(s) == CASE s = "PREPARED" -> 1 [] s = "PQ_AUTHORIZED" -> 2
               [] s = "OPERATOR_APPROVED" -> 3 [] s = "PRIME_APPROVED" -> 4
               [] s = "RELEASED" -> 5 [] s = "EVIDENCE_COMMITTED" -> 6 [] OTHER -> 7

Forward ==
  /\ \A j, k \in 1..Len(workflow) : j < k => RankOf(workflow[j].state) < RankOf(workflow[k].state)
  /\ \A k \in 1..Len(workflow) : workflow[k].state = "EVIDENCE_COMMITTED" => k = Len(workflow)

(* The record that has to come before one at p, for the same intent.       *)
Needs(p, i) ==
  CASE p = "PRIME_APPROVED" -> {"OPERATOR_APPROVED"}
    [] p = "RELEASED" -> {"PRIME_APPROVED"}
    [] p = "EVIDENCE_COMMITTED" -> {"RELEASED"}
    [] p = "reporting" -> {"EVIDENCE_COMMITTED"}
    [] p \in {"approving", "OPERATOR_APPROVED"} -> IF Hybrid(i) THEN {"PQ_AUTHORIZED"} ELSE {}
    [] OTHER -> {}

(* A controller's record is in the journal somewhere; a record's is right  *)
(* before it.                                                              *)
Behind ==
  /\ \A c \in Controller : LET w == ctl[c] IN w.pc # "resting" =>
       \A s \in Needs(w.pc, w.intent) : \E k \in 1..Len(workflow) :
         workflow[k] = [state |-> s, intent |-> w.intent, mode |-> w.mode]
  /\ \A k \in 1..Len(workflow) : \A s \in Needs(workflow[k].state, workflow[k].intent) :
       k > 1 /\ workflow[k-1] = [workflow[k] EXCEPT !.state = s]

(* What a controller or a record at p vouches for.                         *)
Approved == {"OPERATOR_APPROVED", "PRIME_APPROVED", "RELEASED", "EVIDENCE_COMMITTED", "reporting"}

Vouched(p, i, m) ==
  p # "resting" =>
    /\ i \in Intents
    /\ \E k \in 1..Len(policy) : policy[k] = [level |-> i.level, epoch |-> i.epoch]
    /\ m = 1 \/ \E k \in 1..Len(emergency) : emergency[k] = m
    /\ p \in Approved => Authorized(i) /\ i \in receipts
    /\ p \in Approved \ {"OPERATOR_APPROVED"} => Modes[m] # "FREEZE"

AllVouched ==
  /\ \A c \in Controller : Vouched(ctl[c].pc, ctl[c].intent, ctl[c].mode)
  /\ \A k \in 1..Len(workflow) : LET r == workflow[k] IN Vouched(r.state, r.intent, r.mode)

GovIInv == GovTypeOK /\ Forward /\ Behind /\ AllVouched /\ ReportedIsCommitted
=============================================================================
