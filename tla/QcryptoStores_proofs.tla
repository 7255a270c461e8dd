----------------------- MODULE QcryptoStores_proofs ------------------------
(***************************************************************************)
(* Proofs about the QCRYPTO stores, for every value of their constants:    *)
(*   - KmsSigning: a worker past its claim is the only one that holds the  *)
(*     record, and no request was sent before its own (HolderAlone);       *)
(*   - MarketCursors: what a process is about to append follows the state  *)
(*     it would append it to;                                              *)
(*   - MigrationBatches: every binding there is stays the one of its row,  *)
(*     and the rows are a cutting of the listing (CutOf).                  *)
(***************************************************************************)
EXTENDS KmsSigning, MarketCursors, MigrationBatches, Inductions, TLAPS

(* The initial states satisfy the invariant.                               *)
LEMMA InitIInv == KmsInit => KmsIInv
<1> SUFFICES ASSUME KmsInit PROVE KmsIInv
  OBVIOUS
<1>1. \A w \in Worker : \E o \in Operation : work[w] = Idle(o)
  BY DEF KmsInit
<1>2. \A w \in Worker : work[w] \in [pc : KmsPCs, op : Operation, sig : Nat] /\ work[w].pc = "idle"
  <2> SUFFICES ASSUME NEW w \in Worker
               PROVE  work[w] \in [pc : KmsPCs, op : Operation, sig : Nat] /\ work[w].pc = "idle"
    OBVIOUS
  <2>1. PICK o \in Operation : work[w] = [pc |-> "idle", op |-> o, sig |-> 0]
    BY <1>1 DEF Idle, NoSig
  <2>2. QED BY <2>1 DEF KmsPCs
<1>3. KmsTypeOK
  BY <1>2, KmsAssumption DEF KmsInit, KmsTypeOK, Record, NoSig, States
<1>4. RecordsCoherent /\ AnswersDurable
  BY DEF KmsInit, RecordsCoherent, AnswersDurable, Record, NoSig
<1>5. HolderAlone
  BY <1>2 DEF HolderAlone, Holding
<1>6. QED BY <1>3, <1>4, <1>5 DEF KmsIInv

(* Moving one worker keeps the typing of them all.                         *)
LEMMA GotoFacts ==
  ASSUME KmsTypeOK, NEW w \in Worker, NEW p \in KmsPCs, Goto(w, p)
  PROVE  /\ work' \in [Worker -> [pc : KmsPCs, op : Operation, sig : Nat]]
         /\ work'[w].pc = p /\ work'[w].op = work[w].op /\ work'[w].sig = work[w].sig
         /\ \A v \in Worker \ {w} : work'[v] = work[v]
BY DEF KmsTypeOK, Goto

(* A worker that returns is idle, and the others stay where they are.      *)
LEMMA ReturnFacts ==
  ASSUME KmsTypeOK, NEW w \in Worker, Return(w)
  PROVE  /\ work' \in [Worker -> [pc : KmsPCs, op : Operation, sig : Nat]]
         /\ work'[w].pc = "idle"
         /\ \A v \in Worker \ {w} : work'[v] = work[v]
BY DEF KmsTypeOK, Return, Idle, NoSig, KmsPCs

(* A worker that ends its call leaves the other holders alone, provided    *)
(* only the record it held may have changed.                               *)
LEMMA ReturnHolders ==
  ASSUME KmsIInv, NEW w \in Worker, Return(w), issued' = issued,
         \A o \in Operation : journal'[o] # journal[o] =>
            o = work[w].op /\ (Holding(w) \/ journal[o].state = "ABSENT")
  PROVE  HolderAlone'
<1>1. /\ work'[w].pc = "idle" /\ \A v \in Worker \ {w} : work'[v] = work[v]
      /\ \A v \in Worker : work[v].op \in Operation
  BY ReturnFacts DEF KmsIInv, KmsTypeOK
<1>2. ASSUME NEW v \in Worker, Holding(v)'
      PROVE  v # w /\ Holding(v) /\ journal'[work[v].op] = journal[work[v].op]
  <2>1. v # w /\ Holding(v)
    BY <1>1, <1>2 DEF Holding
  <2>2. QED BY <1>1, <2>1 DEF KmsIInv, HolderAlone
<1>3. QED BY <1>1, <1>2 DEF KmsIInv, HolderAlone, Holding

(* A result that the journal holds may be remembered and returned.         *)
LEMMA AnswerDurable ==
  ASSUME KmsIInv, NEW w \in Worker, NEW o \in Operation, NEW n \in Nat \ {NoSig},
         journal'[o] = Record("SIGNED", n),
         \A p \in Operation : journal[p].state = "SIGNED" => journal'[p] = journal[p],
         Remember(w, o, n), Answer(o, n)
  PROVE  /\ AnswersDurable'
         /\ cache' \in [Worker -> [Operation -> Nat]]
         /\ answers' \in [Operation -> SUBSET Nat]
<1>1. /\ cache' \in [Worker -> [Operation -> Nat]]
      /\ answers' \in [Operation -> SUBSET Nat]
      /\ \A v \in Worker, p \in Operation : cache'[v][p] # cache[v][p] => p = o /\ cache'[v][p] = n
      /\ \A p \in Operation, m \in Nat : m \in answers'[p] => m \in answers[p] \/ (p = o /\ m = n)
  BY DEF Remember, Answer, KmsIInv, KmsTypeOK
<1>2. ASSUME NEW p \in Operation,
             NEW m \in answers'[p] \union ({cache'[v][p] : v \in Worker} \ {NoSig})
      PROVE  journal'[p] = Record("SIGNED", m)
  <2>1. CASE p = o /\ m = n
    BY <2>1
  <2>2. CASE m \in answers[p] \union ({cache[v][p] : v \in Worker} \ {NoSig})
    <3>1. journal[p] = Record("SIGNED", m)
      BY <2>2 DEF KmsIInv, AnswersDurable
    <3>2. QED BY <3>1 DEF Record
  <2>3. QED BY <1>1, <1>2, <2>1, <2>2
<1>3. QED BY <1>1, <1>2 DEF AnswersDurable

(* Records that were SIGNED stay, and nothing new is given out.            *)
LEMMA QuietDurable ==
  ASSUME KmsIInv, UNCHANGED <<cache, answers>>,
         \A p \in Operation : journal[p].state = "SIGNED" => journal'[p] = journal[p]
  PROVE  AnswersDurable'
<1>1. cache' = cache /\ answers' = answers
  OBVIOUS
<1>2. ASSUME NEW o \in Operation,
             NEW n \in answers[o] \union ({cache[w][o] : w \in Worker} \ {NoSig})
      PROVE  journal'[o] = Record("SIGNED", n)
  <2>1. journal[o] = Record("SIGNED", n)
    BY <1>2 DEF KmsIInv, AnswersDurable
  <2>2. QED BY <2>1 DEF Record
<1>3. QED BY <1>1, <1>2 DEF AnswersDurable

(* The steps of a call, one by one.                                        *)
LEMMA ClaimIInv == ASSUME KmsIInv, NEW w \in Worker, Claim(w) PROVE KmsIInv'
<1> DEFINE o == work[w].op
<1>1. /\ o \in Operation /\ work[w].pc = "claiming" /\ journal[o].state = "ABSENT"
      /\ journal' \in [Operation -> [state : States, result : Nat]]
      /\ journal'[o].state = "IN_FLIGHT"
      /\ \A p \in Operation \ {o} : journal'[p] = journal[p]
      /\ UNCHANGED <<issued, cache, answers, faults>>
  BY DEF Claim, KmsIInv, KmsTypeOK, Record, NoSig, States
<1>2. /\ work' \in [Worker -> [pc : KmsPCs, op : Operation, sig : Nat]]
      /\ work'[w].pc = "signing" /\ work'[w].op = o
      /\ \A v \in Worker \ {w} : work'[v] = work[v]
  BY GotoFacts DEF Claim, KmsIInv, KmsPCs
<1>3. KmsTypeOK'
  BY <1>1, <1>2 DEF KmsIInv, KmsTypeOK
<1>4. RecordsCoherent'
  BY <1>1 DEF KmsIInv, RecordsCoherent
<1>5. \A v \in Worker : Holding(v) => work[v].op # o
  BY <1>1 DEF KmsIInv, HolderAlone
<1>6. HolderAlone'
  <2>1. issued[o] = 0 /\ issued' = issued
    BY <1>1 DEF KmsIInv, RecordsCoherent
  <2>2. ASSUME NEW v \in Worker \ {w}, Holding(v)'
        PROVE  /\ work'[v] = work[v] /\ Holding(v) /\ work[v].op # o
               /\ work[v].op \in Operation /\ journal'[work[v].op] = journal[work[v].op]
    BY <1>1, <1>2, <1>5, <2>2 DEF Holding, KmsIInv, KmsTypeOK
  <2>3. QED BY <1>1, <1>2, <2>1, <2>2 DEF KmsIInv, HolderAlone, Holding
<1>7. AnswersDurable'
  BY <1>1, QuietDurable
<1>8. QED BY <1>3, <1>4, <1>6, <1>7 DEF KmsIInv

(* A claim whose write fails, before or after its file is in place.        *)
LEMMA ClaimFailsIInv == ASSUME KmsIInv, NEW w \in Worker, ClaimFails(w) PROVE KmsIInv'
<1> DEFINE o == work[w].op
<1>1. /\ o \in Operation /\ work[w].pc = "claiming" /\ journal[o].state = "ABSENT"
      /\ journal' \in [Operation -> [state : States, result : Nat]]
      /\ journal'[o].state \in {"ABSENT", "IN_FLIGHT"}
      /\ \A p \in Operation \ {o} : journal'[p] = journal[p]
      /\ Return(w) /\ UNCHANGED <<issued, cache, answers>>
      /\ faults' \in 0..MaxFaults
  <2>1. /\ o \in Operation /\ work[w].pc = "claiming" /\ journal[o].state = "ABSENT"
        /\ Return(w) /\ UNCHANGED <<issued, cache, answers>>
    BY DEF ClaimFails, KmsIInv, KmsTypeOK
  <2>2. faults' \in 0..MaxFaults
    BY KmsAssumption DEF ClaimFails, Fault, KmsIInv, KmsTypeOK
  <2>3. CASE journal' = journal
    BY <2>1, <2>2, <2>3 DEF KmsIInv, KmsTypeOK
  <2>4. CASE journal' = [journal EXCEPT ![o] = Record("IN_FLIGHT", NoSig)]
    BY <2>1, <2>2, <2>4 DEF KmsIInv, KmsTypeOK, Record, NoSig, States
  <2>5. QED BY <2>3, <2>4 DEF ClaimFails
<1>2. KmsTypeOK'
  BY <1>1, ReturnFacts DEF KmsIInv, KmsTypeOK
<1>3. RecordsCoherent'
  BY <1>1 DEF KmsIInv, RecordsCoherent
<1>4. HolderAlone'
  BY <1>1, ReturnHolders
<1>5. AnswersDurable'
  BY <1>1, QuietDurable
<1>6. QED BY <1>2, <1>3, <1>4, <1>5 DEF KmsIInv

(* The request to the key service, answered or not.                        *)
LEMMA SignIInv == ASSUME KmsIInv, NEW w \in Worker, Sign(w) \/ SignFails(w) PROVE KmsIInv'
<1> DEFINE o == work[w].op
<1>1. /\ o \in Operation /\ work[w].pc = "signing"
      /\ journal[o].state = "IN_FLIGHT" /\ issued[o] = 0
  BY DEF Sign, SignFails, KmsIInv, KmsTypeOK, HolderAlone, Holding
<1>2. /\ issued' \in [Operation -> Nat] /\ issued'[o] \in {0, 1}
      /\ \A p \in Operation \ {o} : issued'[p] = issued[p]
      /\ UNCHANGED <<journal, cache, answers, faults>>
  BY <1>1 DEF Sign, SignFails, KmsIInv, KmsTypeOK
<1>3. /\ work' \in [Worker -> [pc : KmsPCs, op : Operation, sig : Nat]]
      /\ work'[w].op = o
      /\ work'[w].pc = "failed" \/ (work'[w].pc = "signed" /\ work'[w].sig = 1 /\ issued'[o] = 1)
      /\ \A v \in Worker \ {w} : work'[v] = work[v]
  <2>1. CASE Sign(w)
    BY <1>1, <2>1 DEF Sign, KmsIInv, KmsTypeOK, KmsPCs
  <2>2. CASE SignFails(w)
    BY <2>2, GotoFacts DEF SignFails, KmsIInv, KmsPCs
  <2>3. QED BY <2>1, <2>2
<1>4. KmsTypeOK'
  BY <1>2, <1>3 DEF KmsIInv, KmsTypeOK
<1>5. RecordsCoherent'
  BY <1>1, <1>2 DEF KmsIInv, RecordsCoherent
<1>6. \A v \in Worker \ {w} : Holding(v) => work[v].op # o
  BY <1>1 DEF KmsIInv, HolderAlone, Holding
<1>7. HolderAlone'
  <2>1. ASSUME NEW v \in Worker \ {w}, Holding(v)'
        PROVE  /\ work'[v] = work[v] /\ Holding(v) /\ work[v].op # o
               /\ work[v].op \in Operation /\ issued'[work[v].op] = issued[work[v].op]
    BY <1>2, <1>3, <1>6, <2>1 DEF Holding, KmsIInv, KmsTypeOK
  <2>2. journal' = journal
    BY <1>2
  <2>3. QED BY <1>1, <1>3, <2>1, <2>2 DEF KmsIInv, HolderAlone, Holding
<1>8. AnswersDurable'
  BY <1>2, QuietDurable
<1>9. QED BY <1>4, <1>5, <1>7, <1>8 DEF KmsIInv

(* What marking a held record does to the journal.                         *)
LEMMA MarkFacts ==
  ASSUME KmsIInv, NEW w \in Worker, Holding(w),
         \/ journal' = journal
         \/ work[w].pc = "failed" /\ journal' = Indeterminate(w)
         \/ work[w].pc = "signed" /\ journal' = Signed(w)
  PROVE  /\ journal' \in [Operation -> [state : States, result : Nat]]
         /\ \A p \in Operation : journal'[p] # journal[p] => p = work[w].op
         /\ \A p \in Operation : journal[p].state = "SIGNED" => journal'[p] = journal[p]
         /\ \A p \in Operation :
              /\ journal'[p].state = "ABSENT" => issued[p] = 0
              /\ journal'[p].state = "SIGNED" => issued[p] = 1 /\ journal'[p].result = 1
         /\ journal' = Signed(w) /\ work[w].pc = "signed"
              => journal'[work[w].op] = Record("SIGNED", work[w].sig)
<1> DEFINE o == work[w].op
<1>1. /\ o \in Operation /\ journal[o].state = "IN_FLIGHT" /\ work[w].sig \in Nat
      /\ work[w].pc = "signed" => issued[o] = 1 /\ work[w].sig = 1
  BY DEF KmsIInv, KmsTypeOK, HolderAlone
<1>2. /\ journal \in [Operation -> [state : States, result : Nat]]
      /\ \A p \in Operation :
           /\ journal[p].state = "ABSENT" => issued[p] = 0
           /\ journal[p].state = "SIGNED" => issued[p] = 1 /\ journal[p].result = 1
  BY DEF KmsIInv, KmsTypeOK, RecordsCoherent
<1>3. CASE journal' = journal
  BY <1>1, <1>2, <1>3 DEF Signed, Record
<1>4. CASE work[w].pc = "failed" /\ journal' = Indeterminate(w)
  BY <1>1, <1>2, <1>4 DEF Indeterminate, Record, NoSig, States
<1>5. CASE work[w].pc = "signed" /\ journal' = Signed(w)
  BY <1>1, <1>2, <1>5 DEF Signed, Record, States
<1>6. QED BY <1>3, <1>4, <1>5

(* The SIGNED record is written.                                           *)
LEMMA MarkSignedIInv == ASSUME KmsIInv, NEW w \in Worker, MarkSigned(w) PROVE KmsIInv'
<1> DEFINE o == work[w].op
<1>1. /\ o \in Operation /\ Holding(w) /\ work[w].pc = "signed" /\ work[w].sig = 1
      /\ journal' = Signed(w) /\ Return(w) /\ UNCHANGED <<issued, faults>>
  BY DEF MarkSigned, KmsIInv, KmsTypeOK, HolderAlone, Holding
<1>2. /\ journal' \in [Operation -> [state : States, result : Nat]]
      /\ \A p \in Operation : journal'[p] # journal[p] => p = o
      /\ \A p \in Operation : journal[p].state = "SIGNED" => journal'[p] = journal[p]
      /\ \A p \in Operation :
           /\ journal'[p].state = "ABSENT" => issued[p] = 0
           /\ journal'[p].state = "SIGNED" => issued[p] = 1 /\ journal'[p].result = 1
      /\ journal'[o] = Record("SIGNED", 1)
  BY <1>1, MarkFacts
<1>3. Remember(w, o, 1) /\ Answer(o, 1)
  BY <1>1, <1>2 DEF MarkSigned
<1>4. /\ AnswersDurable' /\ cache' \in [Worker -> [Operation -> Nat]]
      /\ answers' \in [Operation -> SUBSET Nat]
  BY <1>1, <1>2, <1>3, AnswerDurable DEF NoSig
<1>5. KmsTypeOK'
  BY <1>1, <1>2, <1>4, ReturnFacts DEF KmsIInv, KmsTypeOK
<1>6. RecordsCoherent'
  BY <1>1, <1>2 DEF KmsIInv, RecordsCoherent
<1>7. HolderAlone'
  BY <1>1, <1>2, ReturnHolders
<1>8. QED BY <1>4, <1>5, <1>6, <1>7 DEF KmsIInv

(* The INDETERMINATE record is written, or the write fails.                *)
LEMMA MarkQuietIInv ==
  ASSUME KmsIInv, NEW w \in Worker, MarkIndeterminate(w) \/ MarkFails(w) PROVE KmsIInv'
<1>1. /\ Holding(w) /\ Return(w) /\ UNCHANGED <<issued, cache, answers>>
      /\ faults' \in 0..MaxFaults
      /\ \/ journal' = journal
         \/ work[w].pc = "failed" /\ journal' = Indeterminate(w)
         \/ work[w].pc = "signed" /\ journal' = Signed(w)
  BY KmsAssumption DEF MarkIndeterminate, MarkFails, Fault, Holding, KmsIInv, KmsTypeOK
<1>2. /\ journal' \in [Operation -> [state : States, result : Nat]]
      /\ \A p \in Operation : journal'[p] # journal[p] => p = work[w].op
      /\ \A p \in Operation : journal[p].state = "SIGNED" => journal'[p] = journal[p]
      /\ \A p \in Operation :
           /\ journal'[p].state = "ABSENT" => issued[p] = 0
           /\ journal'[p].state = "SIGNED" => issued[p] = 1 /\ journal'[p].result = 1
  BY <1>1, MarkFacts
<1>3. KmsTypeOK'
  BY <1>1, <1>2, ReturnFacts DEF KmsIInv, KmsTypeOK
<1>4. RecordsCoherent'
  BY <1>1, <1>2 DEF KmsIInv, RecordsCoherent
<1>5. HolderAlone'
  BY <1>1, <1>2, ReturnHolders
<1>6. AnswersDurable'
  BY <1>1, <1>2, QuietDurable
<1>7. QED BY <1>3, <1>4, <1>5, <1>6 DEF KmsIInv

(* A durable result is replayed, by begin_sign or by reconcile.            *)
LEMMA ReplayIInv ==
  ASSUME KmsIInv, NEW w \in Worker, NEW o \in Operation,
         ReplayCached(w, o) \/ (ReplayDurable(w) /\ o = work[w].op) \/ Reconcile(w, o)
  PROVE  KmsIInv'
<1>1. /\ UNCHANGED <<journal, issued, faults>> /\ (Return(w) \/ UNCHANGED work)
      /\ RecordsCoherent' /\ journal' \in [Operation -> [state : States, result : Nat]]
  BY DEF ReplayCached, ReplayDurable, Reconcile, KmsIInv, KmsTypeOK, RecordsCoherent
<1>2. HolderAlone' /\ work' \in [Worker -> [pc : KmsPCs, op : Operation, sig : Nat]]
  <2>1. CASE Return(w)
    BY <1>1, <2>1, ReturnFacts, ReturnHolders DEF KmsIInv
  <2>2. CASE UNCHANGED work
    BY <1>1, <2>2 DEF KmsIInv, KmsTypeOK, HolderAlone, Holding
  <2>3. QED BY <1>1, <2>1, <2>2
<1>3. /\ AnswersDurable' /\ cache' \in [Worker -> [Operation -> Nat]]
      /\ answers' \in [Operation -> SUBSET Nat]
  <2>1. CASE ReplayCached(w, o)
    <3> DEFINE n == cache[w][o]
    <3>1. /\ n \in Nat \ {NoSig} /\ Answer(o, n) /\ UNCHANGED cache
          /\ journal[o] = Record("SIGNED", n)
      BY <2>1 DEF ReplayCached, KmsIInv, KmsTypeOK, AnswersDurable
    <3>2. Remember(w, o, n)
      BY <3>1 DEF Remember, KmsIInv, KmsTypeOK
    <3>3. QED BY <1>1, <3>1, <3>2, AnswerDurable
  <2>2. CASE (ReplayDurable(w) /\ o = work[w].op) \/ Reconcile(w, o)
    <3> DEFINE n == journal[o].result
    <3>1. journal[o].state = "SIGNED" /\ Remember(w, o, n) /\ Answer(o, n)
      BY <2>2 DEF ReplayDurable, Reconcile
    <3>2. /\ n \in Nat \ {NoSig} /\ journal[o] = Record("SIGNED", n)
      BY <3>1 DEF KmsIInv, KmsTypeOK, RecordsCoherent, Record, NoSig
    <3>3. QED BY <1>1, <3>1, <3>2, AnswerDurable
  <2>3. QED BY <2>1, <2>2
<1>4. KmsTypeOK'
  BY <1>1, <1>2, <1>3 DEF KmsIInv, KmsTypeOK
<1>5. QED BY <1>1, <1>2, <1>3, <1>4 DEF KmsIInv

(* Steps that touch neither the journal nor the answers.                   *)
LEMMA QuietIInv ==
  ASSUME KmsIInv, NEW w \in Worker, PreflightFails(w) \/ RefuseAmbiguous(w) \/ Crash(w)
  PROVE  KmsIInv'
<1>1. /\ Return(w) /\ UNCHANGED <<journal, issued, answers>>
      /\ faults' \in 0..MaxFaults
      /\ cache' \in [Worker -> [Operation -> Nat]]
      /\ \A v \in Worker, o \in Operation : cache'[v][o] \in {cache[v][o], NoSig}
  <2>1. CASE Crash(w)
    <3>1. faults' \in 0..MaxFaults
      BY <2>1, KmsAssumption DEF Crash, Fault, KmsIInv, KmsTypeOK
    <3>2. cache' = [cache EXCEPT ![w] = [o \in Operation |-> 0]]
      BY <2>1 DEF Crash, NoSig
    <3>3. /\ cache' \in [Worker -> [Operation -> Nat]]
          /\ \A v \in Worker, o \in Operation : cache'[v][o] \in {cache[v][o], NoSig}
      BY <3>2 DEF KmsIInv, KmsTypeOK, NoSig
    <3>4. QED BY <2>1, <3>1, <3>3 DEF Crash
  <2>2. CASE PreflightFails(w) \/ RefuseAmbiguous(w)
    BY <2>2 DEF PreflightFails, RefuseAmbiguous, KmsIInv, KmsTypeOK
  <2>3. QED BY <2>1, <2>2
<1>2. KmsTypeOK'
  BY <1>1, ReturnFacts DEF KmsIInv, KmsTypeOK
<1>3. RecordsCoherent' /\ HolderAlone'
  BY <1>1, ReturnHolders DEF KmsIInv, RecordsCoherent
<1>4. AnswersDurable'
  BY <1>1 DEF KmsIInv, AnswersDurable
<1>5. QED BY <1>2, <1>3, <1>4 DEF KmsIInv

(* A worker takes up an operation.                                         *)
LEMMA BeginIInv ==
  ASSUME KmsIInv, NEW w \in Worker, NEW o \in Operation, Begin(w, o) PROVE KmsIInv'
<1>1. /\ work' \in [Worker -> [pc : KmsPCs, op : Operation, sig : Nat]]
      /\ work'[w].pc = "claiming" /\ work[w].pc = "idle"
      /\ \A v \in Worker \ {w} : work'[v] = work[v]
      /\ UNCHANGED <<journal, issued, cache, answers, faults>>
  BY DEF Begin, KmsIInv, KmsTypeOK, Idle, NoSig, KmsPCs
<1>2. KmsTypeOK'
  BY <1>1 DEF KmsIInv, KmsTypeOK
<1>3. RecordsCoherent' /\ AnswersDurable'
  BY <1>1 DEF KmsIInv, RecordsCoherent, AnswersDurable
<1>4. HolderAlone'
  BY <1>1 DEF KmsIInv, HolderAlone, Holding
<1>5. QED BY <1>2, <1>3, <1>4 DEF KmsIInv

(* Every step keeps the invariant.                                         *)
LEMMA NextIInv == KmsIInv /\ [KmsNext]_kmsVars => KmsIInv'
<1> SUFFICES ASSUME KmsIInv, [KmsNext]_kmsVars PROVE KmsIInv'
  OBVIOUS
<1>1. ASSUME NEW w \in Worker, Step(w) PROVE KmsIInv'
  <2>1. ReplayDurable(w) => work[w].op \in Operation
    BY DEF KmsIInv, KmsTypeOK
  <2>2. QED BY <1>1, <2>1, ClaimIInv, ClaimFailsIInv, SignIInv, MarkSignedIInv,
               MarkQuietIInv, ReplayIInv, QuietIInv DEF Step
<1>2. ASSUME NEW w \in Worker, NEW o \in Operation,
             ReplayCached(w, o) \/ Begin(w, o) \/ Reconcile(w, o)
      PROVE  KmsIInv'
  BY <1>2, ReplayIInv, BeginIInv
<1>3. CASE UNCHANGED kmsVars
  BY <1>3 DEF kmsVars, KmsIInv, KmsTypeOK, RecordsCoherent, HolderAlone, Holding, AnswersDurable
<1>4. QED BY <1>1, <1>2, <1>3 DEF KmsNext

(* The inductive invariant holds in every reachable state.                 *)
THEOREM Invariant == KmsSpec => []KmsIInv
BY InitIInv, NextIInv, PTL DEF KmsSpec

(* Every variable keeps its type (KmsSigning).                             *)
THEOREM TypeCorrect == KmsSpec => []KmsTypeOK
<1>1. KmsIInv => KmsTypeOK
  BY DEF KmsIInv
<1>2. QED BY <1>1, Invariant, PTL

(* KMS executes at most one Sign request for an operation, for any number  *)
(* of workers, crashes and failed writes (operation_journal).              *)
THEOREM SignedAtMostOnce == KmsSpec => []OneSignCall
<1>1. KmsIInv => OneSignCall
  BY DEF KmsIInv, RecordsCoherent, OneSignCall
<1>2. QED BY <1>1, Invariant, PTL

(* Every signature that was returned is the durable one (begin_sign,       *)
(* reconcile).                                                             *)
THEOREM DurableAnswers == KmsSpec => []AnswersDurable
<1>1. KmsIInv => AnswersDurable
  BY DEF KmsIInv
<1>2. QED BY <1>1, Invariant, PTL

(* A record that is closed, SIGNED or INDETERMINATE, is never written      *)
(* again and no Sign request is sent for its operation; what was answered  *)
(* stays answered.                                                         *)
ClosedStays ==
  \A o \in Operation :
    /\ journal[o].state \in {"SIGNED", "INDETERMINATE"} =>
         journal'[o] = journal[o] /\ issued'[o] = issued[o]
    /\ answers[o] \subseteq answers'[o]

(* Whoever signs or ends a call holds a record that is IN_FLIGHT, so the   *)
(* closed ones are out of every worker's reach.                            *)
LEMMA ClosedStep == KmsIInv /\ [KmsNext]_kmsVars => ClosedStays
<1> SUFFICES ASSUME KmsIInv, [KmsNext]_kmsVars PROVE ClosedStays
  OBVIOUS
<1>1. /\ journal \in [Operation -> [state : States, result : Nat]]
      /\ issued \in [Operation -> Nat] /\ answers \in [Operation -> SUBSET Nat]
      /\ \A w \in Worker : work[w].op \in Operation
  BY DEF KmsIInv, KmsTypeOK
<1>2. \A w \in Worker : Holding(w) => journal[work[w].op].state = "IN_FLIGHT"
  BY DEF KmsIInv, HolderAlone
<1>3. \A o \in Operation : \A n : Answer(o, n) =>
        \A p \in Operation : answers[p] \subseteq answers'[p]
  BY <1>1 DEF Answer
<1>4. ASSUME journal' = journal, issued' = issued,
             answers' = answers \/ \E o \in Operation, n \in Nat : Answer(o, n)
      PROVE  ClosedStays
  BY <1>3, <1>4 DEF ClosedStays
<1>5. ASSUME NEW o \in Operation, journal[o].state \in {"ABSENT", "IN_FLIGHT"},
             \A p \in Operation \ {o} : journal'[p] = journal[p] /\ issued'[p] = issued[p],
             answers' = answers \/ \E n : Answer(o, n)
      PROVE  ClosedStays
  BY <1>3, <1>5 DEF ClosedStays
<1>6. ASSUME NEW w \in Worker, Claim(w) \/ ClaimFails(w) PROVE ClosedStays
  <2>1. /\ journal[work[w].op].state = "ABSENT" /\ issued' = issued /\ answers' = answers
        /\ \A p \in Operation \ {work[w].op} : journal'[p] = journal[p]
    BY <1>1, <1>6 DEF Claim, ClaimFails
  <2>2. QED BY <1>1, <1>5, <2>1
<1>7. ASSUME NEW w \in Worker, Sign(w) \/ SignFails(w) PROVE ClosedStays
  <2>1. /\ Holding(w) /\ journal' = journal /\ answers' = answers
        /\ \A p \in Operation \ {work[w].op} : issued'[p] = issued[p]
    BY <1>1, <1>7 DEF Sign, SignFails, Holding
  <2>2. QED BY <1>1, <1>2, <1>5, <2>1
<1>8. ASSUME NEW w \in Worker, MarkIndeterminate(w) \/ MarkSigned(w) \/ MarkFails(w)
      PROVE  ClosedStays
  <2>1. Holding(w) /\ issued' = issued
    BY <1>8 DEF MarkIndeterminate, MarkSigned, MarkFails, Holding
  <2>2. answers' = answers \/ \E n : Answer(work[w].op, n)
    BY <1>8 DEF MarkIndeterminate, MarkSigned, MarkFails
  <2>3. \A p \in Operation \ {work[w].op} : journal'[p] = journal[p]
    BY <1>1, <1>8 DEF MarkIndeterminate, MarkSigned, MarkFails, Indeterminate, Signed
  <2>4. QED BY <1>1, <1>2, <1>5, <2>1, <2>2, <2>3
<1>9. ASSUME NEW w \in Worker, ReplayDurable(w) PROVE ClosedStays
  BY <1>1, <1>4, <1>9 DEF ReplayDurable
<1>10. ASSUME NEW w \in Worker, PreflightFails(w) \/ RefuseAmbiguous(w) \/ Crash(w)
       PROVE  ClosedStays
  BY <1>4, <1>10 DEF PreflightFails, RefuseAmbiguous, Crash
<1>11. ASSUME NEW w \in Worker, NEW o \in Operation,
              ReplayCached(w, o) \/ Begin(w, o) \/ Reconcile(w, o)
       PROVE  ClosedStays
  <2>1. cache[w][o] \in Nat /\ journal[o].result \in Nat
    BY <1>1 DEF KmsIInv, KmsTypeOK
  <2>2. QED BY <1>4, <1>11, <2>1 DEF ReplayCached, Begin, Reconcile
<1>12. CASE UNCHANGED kmsVars
  BY <1>4, <1>12 DEF kmsVars
<1>13. QED BY <1>6, <1>7, <1>8, <1>9, <1>10, <1>11, <1>12 DEF KmsNext, Step

(* The end of an operation is its end, for any number of workers, crashes  *)
(* and failed writes: a second result, or a request for an outcome already *)
(* known or given up, cannot come about.                                   *)
THEOREM ClosedRecordsStay == KmsSpec => [][ClosedStays]_kmsVars
BY Invariant, ClosedStep, PTL DEF KmsSpec

(* How the operations look to OneShotSigning.                              *)
StatusMap == [o \in Operation |-> StatusOf(journal[o].state)]
GivenMap == [o \in Operation |-> answers[o] # {}]

(* What each state of the journal maps to.                                 *)
LEMMA StatusOfCases == /\ StatusOf("ABSENT") = "FREE" /\ StatusOf("IN_FLIGHT") = "TAKEN"
                       /\ StatusOf("SIGNED") = "SIGNED"
                       /\ StatusOf("INDETERMINATE") = "ABANDONED"
BY DEF StatusOf

(* A step that changes neither map nor the calls is a stutter.             *)
LEMMA QuietStep ==
  ASSUME journal' = journal, issued' = issued, answers' = answers
  PROVE  UNCHANGED Shot!vars
BY DEF Shot!vars

(* A claim takes the operation.                                            *)
LEMMA TakeStep ==
  ASSUME KmsIInv, NEW o \in Operation, journal[o].state = "ABSENT",
         journal' = [journal EXCEPT ![o] = Record("IN_FLIGHT", NoSig)],
         issued' = issued, answers' = answers
  PROVE  Shot!Take(o)
<1>1. /\ StatusMap[o] = "FREE" /\ StatusMap'[o] = "TAKEN"
      /\ StatusMap' = [StatusMap EXCEPT ![o] = "TAKEN"]
  BY StatusOfCases DEF KmsIInv, KmsTypeOK, StatusMap, Record
<1>2. GivenMap' = GivenMap
  BY DEF GivenMap
<1>3. QED BY <1>1, <1>2 DEF Shot!Take, StatusMap, GivenMap

(* A Sign request uses the key for the first time.                         *)
LEMMA UseStep ==
  ASSUME KmsIInv, NEW o \in Operation, journal[o].state = "IN_FLIGHT", issued[o] = 0,
         issued' = [issued EXCEPT ![o] = @ + 1], journal' = journal, answers' = answers
  PROVE  Shot!UseKey(o)
<1>1. StatusMap[o] = "TAKEN" /\ StatusMap' = StatusMap /\ GivenMap' = GivenMap
  BY StatusOfCases DEF KmsIInv, KmsTypeOK, StatusMap, GivenMap
<1>2. issued' = [issued EXCEPT ![o] = 1]
  BY DEF KmsIInv, KmsTypeOK
<1>3. QED BY <1>1, <1>2 DEF Shot!UseKey, StatusMap, GivenMap

(* A held record is finished, and its result may be returned with it.      *)
LEMMA FinishStep ==
  ASSUME KmsIInv, NEW o \in Operation, journal[o].state = "IN_FLIGHT",
         NEW r \in {Record("SIGNED", 1), Record("INDETERMINATE", NoSig)},
         r.state = "SIGNED" => issued[o] = 1,
         journal' = [journal EXCEPT ![o] = r], issued' = issued,
         answers' = answers \/ (r.state = "SIGNED" /\ Answer(o, 1)),
         NEW s, s = StatusOf(r.state),
         NEW g \in BOOLEAN, g <=> (answers' # answers)
  PROVE  Shot!Finish(o, s, g)
<1>1. answers[o] = {}
  BY DEF KmsIInv, KmsTypeOK, AnswersDurable, Record
<1>2. /\ s \in {"SIGNED", "ABANDONED"} /\ (s = "SIGNED" <=> r.state = "SIGNED")
      /\ StatusMap[o] = "TAKEN" /\ StatusMap' = [StatusMap EXCEPT ![o] = s]
  <2>1. s \in {"SIGNED", "ABANDONED"} /\ (s = "SIGNED" <=> r.state = "SIGNED")
    BY StatusOfCases DEF Record
  <2>2. /\ journal'[o] = r /\ \A p \in Operation \ {o} : journal'[p] = journal[p]
    BY DEF KmsIInv, KmsTypeOK
  <2>3. StatusMap[o] = "TAKEN"
    BY StatusOfCases DEF StatusMap
  <2>4. \A p \in Operation : StatusMap'[p] = IF p = o THEN s ELSE StatusMap[p]
    BY <2>2 DEF StatusMap
  <2>5. StatusMap' = [StatusMap EXCEPT ![o] = s]
    BY <2>4 DEF StatusMap
  <2>6. QED BY <2>1, <2>3, <2>5
<1>3. GivenMap' = [GivenMap EXCEPT ![o] = g]
  BY <1>1, ZenonT(60) DEF KmsIInv, KmsTypeOK, GivenMap, Answer
<1>4. g => r.state = "SIGNED"
  OBVIOUS
<1>5. QED BY <1>2, <1>3, <1>4 DEF Shot!Finish, StatusMap, GivenMap

(* A recorded signature is given out.                                      *)
LEMMA GiveStep ==
  ASSUME KmsIInv, NEW o \in Operation, NEW n \in Nat, journal[o].state = "SIGNED",
         Answer(o, n), journal' = journal, issued' = issued
  PROVE  Shot!Give(o)
<1>1. StatusMap[o] = "SIGNED" /\ StatusMap' = StatusMap
  BY StatusOfCases DEF KmsIInv, KmsTypeOK, StatusMap
<1>2. GivenMap' = [GivenMap EXCEPT ![o] = TRUE]
  BY DEF KmsIInv, KmsTypeOK, GivenMap, Answer
<1>3. QED BY <1>1, <1>2 DEF Shot!Give, StatusMap, GivenMap

(* The end of a held call: MarkSigned, MarkIndeterminate or a failed write.*)
LEMMA MarkStep ==
  ASSUME KmsIInv, NEW w \in Worker, MarkSigned(w) \/ MarkIndeterminate(w) \/ MarkFails(w)
  PROVE  Shot!Next \/ UNCHANGED Shot!vars
<1> DEFINE o == work[w].op
<1>1. /\ o \in Operation /\ Holding(w) /\ journal[o].state = "IN_FLIGHT" /\ issued' = issued
      /\ work[w].pc = "signed" => issued[o] = 1 /\ work[w].sig = 1
  BY DEF MarkSigned, MarkIndeterminate, MarkFails, KmsIInv, KmsTypeOK, HolderAlone, Holding
<1>2. /\ Indeterminate(w) = [journal EXCEPT ![o] = Record("INDETERMINATE", NoSig)]
      /\ work[w].pc = "signed" => Signed(w) = [journal EXCEPT ![o] = Record("SIGNED", 1)]
  BY <1>1 DEF Indeterminate, Signed, KmsIInv, KmsTypeOK
<1>3. ASSUME NEW r \in {Record("SIGNED", 1), Record("INDETERMINATE", NoSig)},
             r.state = "SIGNED" => issued[o] = 1,
             journal' = [journal EXCEPT ![o] = r],
             answers' = answers \/ (r.state = "SIGNED" /\ Answer(o, 1))
      PROVE  Shot!Next
  <2>1. StatusOf(r.state) \in {"SIGNED", "ABANDONED"}
    BY StatusOfCases DEF Record
  <2>2. PICK s \in {"SIGNED", "ABANDONED"} : s = StatusOf(r.state)
    BY <2>1
  <2>3. PICK g \in BOOLEAN : g <=> (answers' # answers)
    OBVIOUS
  <2>4. Shot!Finish(o, s, g)
    BY <1>1, <1>3, <2>2, <2>3, FinishStep
  <2>5. QED BY <1>1, <2>4 DEF Shot!Next
<1>4. CASE MarkSigned(w)
  <2>1. journal' = [journal EXCEPT ![o] = Record("SIGNED", 1)] /\ issued[o] = 1
    BY <1>1, <1>2, <1>4 DEF MarkSigned
  <2>2. answers' = answers \/ Answer(o, 1)
    BY <1>1, <1>4 DEF MarkSigned
  <2>3. QED BY <1>3, <2>1, <2>2 DEF Record
<1>5. CASE MarkIndeterminate(w) \/ (MarkFails(w) /\ journal' = Indeterminate(w))
  BY <1>2, <1>3, <1>5 DEF MarkIndeterminate, MarkFails, Record
<1>6. CASE MarkFails(w) /\ work[w].pc = "signed" /\ journal' = Signed(w)
  BY <1>1, <1>2, <1>3, <1>6 DEF MarkFails, Record
<1>7. CASE MarkFails(w) /\ journal' = journal
  BY <1>7, QuietStep DEF MarkFails
<1>8. QED BY <1>4, <1>5, <1>6, <1>7 DEF MarkFails

(* Every step is a step of OneShotSigning or a stutter.                    *)
LEMMA ShotNext == KmsIInv /\ [KmsNext]_kmsVars => [Shot!Next]_(Shot!vars)
<1> SUFFICES ASSUME KmsIInv, [KmsNext]_kmsVars PROVE Shot!Next \/ UNCHANGED Shot!vars
  OBVIOUS
<1>1. ASSUME NEW w \in Worker, Step(w) PROVE Shot!Next \/ UNCHANGED Shot!vars
  <2> DEFINE o == work[w].op
  <2>1. o \in Operation
    BY DEF KmsIInv, KmsTypeOK
  <2>2. CASE Claim(w) \/ ClaimFails(w)
    <3>1. /\ journal[o].state = "ABSENT" /\ issued' = issued /\ answers' = answers
          /\ \/ journal' = journal
             \/ journal' = [journal EXCEPT ![o] = Record("IN_FLIGHT", NoSig)]
      BY <2>2 DEF Claim, ClaimFails
    <3>2. QED BY <2>1, <3>1, TakeStep, QuietStep DEF Shot!Next
  <2>3. CASE ReplayDurable(w)
    <3>1. /\ journal[o].state = "SIGNED" /\ journal[o].result \in Nat
          /\ Answer(o, journal[o].result) /\ journal' = journal /\ issued' = issued
      BY <2>1, <2>3 DEF ReplayDurable, KmsIInv, KmsTypeOK
    <3>2. QED BY <2>1, <3>1, GiveStep DEF Shot!Next
  <2>4. CASE Sign(w) \/ SignFails(w)
    <3>1. /\ journal[o].state = "IN_FLIGHT" /\ issued[o] = 0
          /\ journal' = journal /\ answers' = answers
          /\ issued' = issued \/ issued' = [issued EXCEPT ![o] = @ + 1]
      BY <2>4 DEF Sign, SignFails, KmsIInv, HolderAlone, Holding
    <3>2. QED BY <2>1, <3>1, UseStep, QuietStep DEF Shot!Next
  <2>5. CASE MarkSigned(w) \/ MarkIndeterminate(w) \/ MarkFails(w)
    BY <2>5, MarkStep
  <2>6. CASE PreflightFails(w) \/ RefuseAmbiguous(w) \/ Crash(w)
    BY <2>6, QuietStep DEF PreflightFails, RefuseAmbiguous, Crash
  <2>7. QED BY <1>1, <2>2, <2>3, <2>4, <2>5, <2>6 DEF Step
<1>2. ASSUME NEW w \in Worker, NEW o \in Operation, ReplayCached(w, o) \/ Reconcile(w, o)
      PROVE  Shot!Next
  <2>1. ASSUME ReplayCached(w, o)
        PROVE  /\ journal[o].state = "SIGNED" /\ cache[w][o] \in Nat /\ Answer(o, cache[w][o])
               /\ journal' = journal /\ issued' = issued
    BY <2>1 DEF ReplayCached, KmsIInv, KmsTypeOK, AnswersDurable, Record
  <2>2. ASSUME Reconcile(w, o)
        PROVE  /\ journal[o].state = "SIGNED" /\ journal[o].result \in Nat
               /\ Answer(o, journal[o].result) /\ journal' = journal /\ issued' = issued
    BY <2>2 DEF Reconcile, KmsIInv, KmsTypeOK
  <2>3. Shot!Give(o)
    BY <1>2, <2>1, <2>2, GiveStep
  <2>4. QED BY <2>3 DEF Shot!Next
<1>3. ASSUME NEW w \in Worker, NEW o \in Operation, Begin(w, o)
      PROVE  UNCHANGED Shot!vars
  BY <1>3, QuietStep DEF Begin
<1>4. CASE UNCHANGED kmsVars
  BY <1>4, QuietStep DEF kmsVars
<1>5. QED BY <1>1, <1>2, <1>3, <1>4 DEF KmsNext

(* The provider over its journal implements OneShotSigning.                *)
THEOREM Refinement == KmsSpec => ImplementsOneShot
<1>1. ASSUME KmsInit PROVE Shot!Init
  <2>1. /\ \A o \in Operation : journal[o].state = "ABSENT" /\ answers[o] = {}
        /\ issued = [o \in Operation |-> 0]
    BY <1>1 DEF KmsInit, Record
  <2>2. QED BY <2>1, StatusOfCases DEF Shot!Init
<1>2. QED BY <1>1, Invariant, ShotNext, PTL DEF KmsSpec, ImplementsOneShot, Shot!Spec

-----------------------------------------------------------------------------
(* The market cursors.                                                     *)

(* A message in sequence after a state extends its history.                *)
LEMMA AppendContiguous ==
  ASSUME NEW s \in Seq(Feed), NEW m \in Feed, Contiguous(s),
         InSequence(m, CursorOf(s, m.stream))
  PROVE  Append(s, m) \in Seq(Feed) /\ Contiguous(Append(s, m))
<1> DEFINE t == Append(s, m)
<1>1. /\ t \in Seq(Feed) /\ Len(t) = Len(s) + 1 /\ t[Len(s) + 1] = m
      /\ \A i \in 1..Len(s) : t[i] = s[i]
  OBVIOUS
<1>2. Len(s) \in Nat /\ DOMAIN s = 1..Len(s) /\ DOMAIN t = 1..Len(s) + 1
  BY <1>1
<1> SUFFICES ASSUME NEW i \in DOMAIN t, NEW j \in DOMAIN t,
                    i < j, t[i].stream = t[j].stream,
                    \A k \in i+1..j-1 : t[k].stream # t[i].stream
             PROVE  t[j].seq = t[i].seq + 1 /\ t[j].at >= t[i].at
  BY <1>1 DEF Contiguous
<1>3. CASE j \in 1..Len(s)
  <2>1. i \in 1..Len(s) /\ t[i] = s[i] /\ t[j] = s[j]
    BY <1>1, <1>2, <1>3
  <2>2. \A k \in i+1..j-1 : s[k].stream # s[i].stream
    BY <1>1, <1>2, <1>3, <2>1
  <2>3. QED BY <1>2, <1>3, <2>1, <2>2 DEF Contiguous
<1>4. CASE j = Len(s) + 1
  <2>1. i \in 1..Len(s) /\ t[i] = s[i] /\ t[j] = m /\ s[i].stream = m.stream
    BY <1>1, <1>2, <1>4
  <2>2. \A k \in 1..Len(s) : s[k].stream = m.stream => k <= i
    BY <1>1, <1>2, <1>4, <2>1
  <2> DEFINE of == {k \in DOMAIN s : s[k].stream = m.stream}
             last == CHOOSE k \in of : \A n \in of : n <= k
  <2>3. i \in of /\ \A n \in of : n <= i
    BY <1>2, <2>1, <2>2
  <2>4. last \in of /\ \A n \in of : n <= last
    BY <2>3
  <2>5. last = i
    BY <1>2, <2>3, <2>4
  <2>6. CursorOf(s, m.stream) = s[i]
    BY <2>3, <2>5 DEF CursorOf
  <2>7. s[i] # NoMessage
    BY <1>2, <2>1, FeedAssumption
  <2>8. QED BY <2>1, <2>6, <2>7 DEF InSequence
<1>5. QED BY <1>2, <1>3, <1>4

(* The initial states satisfy the invariant of the cursor file.            *)
LEMMA MarketInitIInv == MarketInit => MarketIInv
BY DEF MarketInit, MarketIInv, MarketTypeOK, HistoryContiguous, Contiguous, Waiting

(* Every step keeps the invariant of the cursor file.                      *)
LEMMA MarketNextIInv == MarketIInv /\ [MarketNext]_marketVars => MarketIInv'
<1> SUFFICES ASSUME MarketIInv, [MarketNext]_marketVars PROVE MarketIInv'
  OBVIOUS
<1> USE DEF MarketIInv, MarketTypeOK, HistoryContiguous
<1>1. ASSUME NEW r \in Reader, NEW m \in Feed, LoadAndValidate(r, m) PROVE MarketIInv'
  <2>1. applying' = [applying EXCEPT ![r] =
                       [step |-> "validated", message |-> m, state |-> cursorFile]]
        /\ cursorFile' = cursorFile /\ InSequence(m, CursorOf(cursorFile, m.stream))
    BY <1>1 DEF LoadAndValidate
  <2>2. QED BY <2>1
<1>2. ASSUME NEW r \in Reader, CompareState(r) PROVE MarketIInv'
  <2>1. CASE applying' = [applying EXCEPT ![r] = Waiting] /\ cursorFile' = cursorFile
    BY <2>1 DEF Waiting
  <2>2. CASE /\ applying[r].step = "validated" /\ UnchangedSince(r) /\ cursorFile' = cursorFile
             /\ applying' = [applying EXCEPT ![r].step = "compared", ![r].state = cursorFile]
    BY <2>2 DEF UnchangedSince
  <2>3. QED BY <1>2, <2>1, <2>2 DEF CompareState
<1>3. ASSUME NEW r \in Reader, ReplaceState(r) PROVE MarketIInv'
  <2>1. /\ cursorFile' = Append(applying[r].state, applying[r].message)
        /\ applying' = [applying EXCEPT ![r] = Waiting] /\ applying[r].step # "waiting"
    BY <1>3 DEF ReplaceState
  <2>2. cursorFile' \in Seq(Feed) /\ Contiguous(cursorFile')
    BY <2>1, AppendContiguous
  <2>3. QED BY <2>1, <2>2 DEF Waiting
<1>4. ASSUME NEW r \in Reader, DieBeforeReplace(r) PROVE MarketIInv'
  BY <1>4 DEF DieBeforeReplace, Waiting
<1>5. CASE UNCHANGED marketVars
  BY <1>5 DEF marketVars
<1>6. QED BY <1>1, <1>2, <1>3, <1>4, <1>5 DEF MarketNext

(* Each state of the file of market cursors, read as the chain of states   *)
(* it descends from, has no gap, repetition, equivocation or step back in  *)
(* time, for any feed and any processes that race for it.                  *)
THEOREM HistoriesContiguous == MarketSpec => []HistoryContiguous
<1>1. MarketIInv => HistoryContiguous
  BY DEF MarketIInv
<1>2. QED BY <1>1, MarketInitIInv, MarketNextIInv, PTL DEF MarketSpec

(* In every stream of the file the sequence numbers rise and the times     *)
(* never fall, however far apart two messages are.                         *)
Advancing(s) ==
  \A i, j \in DOMAIN s :
    i < j /\ s[i].stream = s[j].stream => s[i].seq < s[j].seq /\ s[i].at <= s[j].at

(* Neighbours in sequence make a stream that advances.                     *)
LEMMA ContiguousAdvances ==
  ASSUME NEW s \in Seq(Feed), Contiguous(s) PROVE Advancing(s)
<1> DEFINE Wrong(i, j) == /\ i < j /\ s[i].stream = s[j].stream
                          /\ ~(s[i].seq < s[j].seq /\ s[i].at <= s[j].at)
           T == {d \in Nat : \E i, j \in DOMAIN s : j - i = d /\ Wrong(i, j)}
<1>1. /\ DOMAIN s = 1..Len(s) /\ Len(s) \in Nat
      /\ \A k \in DOMAIN s : s[k].seq \in Int /\ s[k].at \in Int
  BY FeedAssumption
<1> SUFFICES ASSUME ~ Advancing(s) PROVE FALSE
  OBVIOUS
<1>2. T # {}
  <2>1. PICK i, j \in DOMAIN s : Wrong(i, j)
    BY DEF Advancing
  <2>2. j - i \in Nat
    BY <1>1, <2>1
  <2>3. QED BY <2>1, <2>2
<1>3. PICK d \in T : \A e \in T : d <= e
  <2>1. T \in SUBSET Nat
    OBVIOUS
  <2> HIDE DEF T
  <2>2. QED BY <1>2, <2>1, LeastNat
<1>4. PICK i, j \in DOMAIN s : j - i = d /\ Wrong(i, j)
  OBVIOUS
<1>5. PICK k \in i+1..j-1 : s[k].stream = s[i].stream
  <2>1. CASE \A k \in i+1..j-1 : s[k].stream # s[i].stream
    <3>1. s[j].seq = s[i].seq + 1 /\ s[j].at >= s[i].at
      BY <1>4, <2>1 DEF Contiguous
    <3>2. QED BY <1>1, <1>4, <3>1
  <2>2. QED BY <2>1
<1>6. /\ k \in DOMAIN s /\ i < k /\ k < j
      /\ k - i \in Nat /\ k - i < d /\ j - k \in Nat /\ j - k < d /\ d \in Nat
  <2>1. i \in 1..Len(s) /\ j \in 1..Len(s) /\ j - i = d /\ k \in i+1..j-1
    BY <1>1, <1>4
  <2>2. i \in Int /\ j \in Int /\ k \in Int /\ i < k /\ k < j /\ 1 <= i /\ j <= Len(s)
    BY <1>1, <2>1, SMTT(30)
  <2>3. k - i \in Nat /\ k - i < j - i /\ j - k \in Nat /\ j - k < j - i
    BY <2>2, SMTT(30)
  <2>4. k \in DOMAIN s
    BY <1>1, <2>2
  <2>5. d \in Nat
    OBVIOUS
  <2> HIDE DEF T
  <2>6. QED BY <2>1, <2>2, <2>3, <2>4, <2>5
<1>7. k - i \notin T /\ j - k \notin T
  <2> HIDE DEF T
  <2>1. \A e \in Nat : e < d => ~(d <= e)
    BY <1>6
  <2>2. QED BY <1>3, <1>6, <2>1
<1>8. ~ Wrong(i, k) /\ ~ Wrong(k, j)
  <2> HIDE DEF Wrong
  <2>1. QED BY <1>6, <1>7
<1>9. /\ s[i].seq < s[k].seq /\ s[i].at <= s[k].at
      /\ s[k].seq < s[j].seq /\ s[k].at <= s[j].at
  BY <1>4, <1>5, <1>6, <1>8
<1>10. /\ s[i].seq \in Int /\ s[j].seq \in Int /\ s[k].seq \in Int
       /\ s[i].at \in Int /\ s[j].at \in Int /\ s[k].at \in Int
  BY <1>1, <1>6
<1>11. s[i].seq < s[j].seq /\ s[i].at <= s[j].at
  <2>1. \A x, y, z \in Int : x < y /\ y < z => x < z
    OBVIOUS
  <2>2. \A x, y, z \in Int : x <= y /\ y <= z => x <= z
    OBVIOUS
  <2> HIDE DEF Wrong, T
  <2>3. s[i].seq < s[j].seq
    BY <1>9, <1>10, <2>1
  <2>4. s[i].at <= s[j].at
    BY <1>9, <1>10, <2>2
  <2>5. QED BY <2>3, <2>4
<1>12. QED BY <1>4, <1>11

(* A step of the market cursors advances the file unless a process is      *)
(* overtaken.                                                              *)
LEMMA MarketStepAdvances ==
  ASSUME MarketIInv, [MarketNext]_marketVars, ~ Overtaken PROVE Advances
<1>1. CASE cursorFile' = cursorFile
  BY <1>1 DEF Advances
<1>2. ASSUME NEW r \in Reader, ReplaceState(r) PROVE Advances
  <2> DEFINE m == applying[r].message
             n == Len(cursorFile) + 1
  <2>1. /\ cursorFile \in Seq(Feed) /\ Contiguous(cursorFile) /\ m \in Feed
        /\ applying[r].state = cursorFile /\ InSequence(m, CursorOf(cursorFile, m.stream))
    BY <1>2 DEF ReplaceState, Overtaken, MarketIInv, MarketTypeOK, HistoryContiguous
  <2>2. cursorFile' = Append(cursorFile, m)
    BY <1>2, <2>1 DEF ReplaceState
  <2> HIDE DEF m
  <2>3. Append(cursorFile, m) \in Seq(Feed) /\ Contiguous(Append(cursorFile, m))
    BY <2>1, AppendContiguous
  <2>4. Advancing(cursorFile')
    BY <2>2, <2>3, ContiguousAdvances
  <2>5. /\ n \in DOMAIN cursorFile' /\ cursorFile'[n] = m
        /\ \A i \in DOMAIN cursorFile :
             i \in DOMAIN cursorFile' /\ cursorFile'[i] = cursorFile[i] /\ i < n
    BY <2>1, <2>2
  <2> HIDE DEF n
  <2>6. QED BY <2>1, <2>2, <2>4, <2>5 DEF Advances, Advancing
<1>3. QED BY <1>1, <1>2 DEF MarketNext, LoadAndValidate, CompareState, DieBeforeReplace, marketVars

(* As the file is replaced over time, every message it takes has a number  *)
(* above all its stream has in the file and a time not before them, for    *)
(* any feed and any processes, except while a process is overtaken: its    *)
(* os.replace puts an older chain back, and what was dropped is accepted   *)
(* again (durable_market_state.py:135-147).                                *)
THEOREM StreamsAdvance == MarketSpec => CursorsAdvance
<1>1. MarketIInv /\ [MarketNext]_marketVars => Overtaken \/ Advances
  BY MarketStepAdvances
<1>2. QED BY <1>1, MarketInitIInv, MarketNextIInv, PTL DEF MarketSpec, CursorsAdvance

(* Where one process applies the messages, through every death and restart *)
(* of it, the exception never happens: no message is accepted twice, and   *)
(* no stream goes back, over the whole life of the file.                   *)
THEOREM LoneProcessAdvances ==
  ASSUME \A q, r \in Reader : q = r
  PROVE  MarketSpec => [][Advances]_marketVars
<1>1. MarketInit => ~ Overtaken
  BY DEF MarketInit, Overtaken, Waiting
<1>2. MarketIInv /\ ~ Overtaken /\ [MarketNext]_marketVars => ~ Overtaken'
  <2> SUFFICES ASSUME MarketIInv, ~ Overtaken, [MarketNext]_marketVars,
                      NEW r \in Reader, (applying[r].step = "compared")'
               PROVE  (applying[r].state = cursorFile)'
    BY DEF Overtaken
  <2>1. applying \in [Reader -> [step : {"waiting", "validated", "compared"},
                                message : Feed \union {NoMessage}, state : Seq(Feed)]]
    BY DEF MarketIInv, MarketTypeOK
  <2>2. ASSUME NEW q \in Reader, applying' = [applying EXCEPT ![q] = Waiting] PROVE FALSE
    BY <2>1, <2>2 DEF Waiting
  <2>3. ASSUME NEW q \in Reader, NEW m \in Feed, LoadAndValidate(q, m) PROVE FALSE
    BY <2>1, <2>3 DEF LoadAndValidate
  <2>4. ASSUME NEW q \in Reader, CompareState(q) PROVE (applying[r].state = cursorFile)'
    BY <2>1, <2>2, <2>4 DEF CompareState
  <2>5. CASE UNCHANGED marketVars
    BY <2>5 DEF marketVars, Overtaken
  <2>6. QED BY <2>2, <2>3, <2>4, <2>5 DEF MarketNext, ReplaceState, DieBeforeReplace
<1>3. MarketIInv /\ ~ Overtaken /\ [MarketNext]_marketVars => Advances
  BY MarketStepAdvances
<1>4. QED BY <1>1, <1>2, <1>3, MarketInitIInv, MarketNextIInv, PTL DEF MarketSpec

-----------------------------------------------------------------------------
(* The wallet migration: the batches a listing is cut into.                *)

(* A batch of coins, not empty, within the limits: only a coin that alone  *)
(* exceeds the value limit exceeds it.                                     *)
WithinLimits(batch) ==
  Len(batch) \in 1..MaxInputs /\ (ValueOf(batch) <= MaxValue \/ Len(batch) = 1)

(* The batches are consecutive pieces of the first n coins of a listing,   *)
(* cut at the marks `at`.                                                  *)
Pieces(batches, at, l, n) ==
  /\ at \in [1..Len(batches) + 1 -> Nat] /\ at[1] = 0 /\ at[Len(batches) + 1] = n
  /\ \A i \in DOMAIN batches :
       /\ at[i + 1] = at[i] + Len(batches[i])
       /\ \A k \in DOMAIN batches[i] : batches[i][k] = l[at[i] + k]

(* The batches hold the first n coins of a listing in order, every one     *)
(* once; each is within the limits, and ends where the next coin would     *)
(* have broken one.                                                        *)
CutOf(batches, l, n) ==
  /\ batches \in Seq(Seq(Coin))
  /\ \E at : Pieces(batches, at, l, n)
  /\ \A i \in DOMAIN batches : WithinLimits(batches[i])
  /\ \A i \in DOMAIN batches : i # 1 => ~ Fits(batches[i - 1], batches[i][1])

(* The value of a batch is the sum its definition recurses through.        *)
LEMMA ValueSteps ==
  ASSUME NEW batch \in Seq(Coin)
  PROVE  \E sum \in [0..Len(batch) -> Nat] :
           /\ ValueOf(batch) = sum[Len(batch)] /\ sum[0] = 0
           /\ \A n \in 1..Len(batch) : sum[n] = sum[n - 1] + Sats[batch[n]]
<1> DEFINE N == Len(batch)
           Sum(f) == f = [n \in 0..N |-> IF n = 0 THEN 0 ELSE f[n - 1] + Sats[batch[n]]]
           sum == CHOOSE f : Sum(f)
           h == [p \in (1..N) \X Nat |-> p[2] + Sats[batch[p[1]]]]
<1>1. N \in Nat /\ \A n \in 1..N : Sats[batch[n]] \in Nat
  BY MigrationAssumption
<1>2. StepOver(h, N, Nat) /\ \A n \in 1..N, v \in Nat : h[<<n, v>>] = v + Sats[batch[n]]
  BY <1>1 DEF StepOver
<1>3. ValueOf(batch) = sum[N]
  BY DEF ValueOf
<1> HIDE DEF N, h
<1>4. PICK f : Recurses(f, h, N, Nat, 0)
  BY <1>1, <1>2, RecursionExists
<1>5. \A n \in 1..N : f[n] = f[n - 1] + Sats[batch[n]]
  <2>1. ASSUME NEW n \in 1..N PROVE f[n] = f[n - 1] + Sats[batch[n]]
    <3>1. f[n - 1] \in Nat /\ f[n] = h[<<n, f[n - 1]>>]
      BY <1>1, <1>4 DEF Recurses
    <3>2. QED BY <1>2, <3>1
  <2>2. QED BY <2>1
<1>6. /\ f = [n \in 0..N |-> f[n]]
      /\ \A n \in 0..N : f[n] = IF n = 0 THEN 0 ELSE f[n - 1] + Sats[batch[n]]
  BY <1>1, <1>4, <1>5 DEF Recurses
<1>7. Sum(f)
  <2> DEFINE g == [n \in 0..N |-> IF n = 0 THEN 0 ELSE f[n - 1] + Sats[batch[n]]]
  <2>1. \A n \in 0..N : g[n] = f[n]
    BY <1>6
  <2>2. g = [n \in 0..N |-> g[n]]
    OBVIOUS
  <2> HIDE DEF g
  <2>3. g = f
    BY <1>6, <2>1, <2>2
  <2>4. QED BY <2>3 DEF g
<1> HIDE DEF Sum
<1>8. Sum(sum)
  BY <1>7
<1>9. \A g : Sum(g) => /\ DOMAIN g = 0..N /\ g[0] = 0
                       /\ \A n \in 1..N : g[n] = g[n - 1] + Sats[batch[n]]
  BY <1>1 DEF Sum
<1> HIDE DEF sum
<1>10. sum \in [0..N -> Nat]
  <2> DEFINE S == {n \in 0..N : sum[n] \in Nat}
  <2>1. 0 \in S /\ \A n \in 0..N : n \in S /\ n < N => n + 1 \in S
    <3>1. 0 \in S
      BY <1>1, <1>8, <1>9
    <3>2. ASSUME NEW n \in 0..N, n \in S, n < N PROVE n + 1 \in S
      <4>1. n + 1 \in 1..N /\ (n + 1) - 1 = n /\ sum[n] \in Nat
        BY <1>1, <3>2
      <4>2. sum[n + 1] = sum[n] + Sats[batch[n + 1]]
        BY <1>8, <1>9, <4>1
      <4>3. QED BY <1>1, <4>1, <4>2
    <3>3. QED BY <3>1, <3>2
  <2>2. \A n \in 0..N : n \in S
    <3> HIDE DEF S
    <3>1. QED BY <1>1, <2>1, Stepwise
  <2>3. sum = [n \in 0..N |-> sum[n]]
    BY <1>8 DEF Sum
  <2>4. QED BY <2>2, <2>3
<1>11. QED BY <1>3, <1>8, <1>9, <1>10 DEF N

(* One more coin adds its value.                                           *)
LEMMA ValueOfAppend ==
  ASSUME NEW batch \in Seq(Coin), NEW c \in Coin
  PROVE  /\ ValueOf(batch) \in Nat
         /\ ValueOf(Append(batch, c)) = ValueOf(batch) + Sats[c]
<1> DEFINE longer == Append(batch, c)
           N == Len(batch)
<1>1. /\ longer \in Seq(Coin) /\ N \in Nat /\ Len(longer) = N + 1 /\ longer[N + 1] = c
      /\ \A n \in 1..N : longer[n] = batch[n]
  OBVIOUS
<1>2. PICK s \in [0..N -> Nat] :
        /\ ValueOf(batch) = s[N] /\ s[0] = 0 /\ \A n \in 1..N : s[n] = s[n - 1] + Sats[batch[n]]
  BY ValueSteps
<1> HIDE DEF longer
<1>3. PICK t \in [0..(N + 1) -> Nat] :
        /\ ValueOf(longer) = t[N + 1] /\ t[0] = 0
        /\ \A n \in 1..(N + 1) : t[n] = t[n - 1] + Sats[longer[n]]
  BY <1>1, ValueSteps
<1> HIDE DEF N
<1>4. s[N] = t[N]
  <2> DEFINE S == {n \in 0..N : s[n] = t[n]}
  <2>1. 0 \in S
    BY <1>1, <1>2, <1>3
  <2>2. ASSUME NEW n \in 0..N, n \in S, n < N PROVE n + 1 \in S
    <3>1. n + 1 \in 1..N /\ n + 1 \in 1..(N + 1) /\ (n + 1) - 1 = n
      BY <1>1, <2>2
    <3>2. s[n + 1] = s[n] + Sats[batch[n + 1]] /\ t[n + 1] = t[n] + Sats[batch[n + 1]]
      BY <1>1, <1>2, <1>3, <3>1
    <3>3. QED BY <2>2, <3>1, <3>2
  <2>3. N \in 0..N /\ \A n \in 0..N : n \in S /\ n < N => n + 1 \in S
    BY <1>1, <2>2
  <2> HIDE DEF S
  <2>4. N \in S
    BY <1>1, <2>1, <2>3, Stepwise
  <2>5. QED BY <2>4 DEF S
<1>5. t[N + 1] = t[(N + 1) - 1] + Sats[longer[N + 1]] /\ (N + 1) - 1 = N /\ s[N] \in Nat
  BY <1>1, <1>2, <1>3
<1>6. QED BY <1>1, <1>2, <1>3, <1>4, <1>5 DEF longer

(* Adding a coin to batches gives batches.                                 *)
LEMMA AddCoinTyped ==
  ASSUME NEW batches \in Seq(Seq(Coin)), NEW c \in Coin
  PROVE  AddCoin(batches, c) \in Seq(Seq(Coin))
<1>1. ASSUME batches # << >>
      PROVE  [batches EXCEPT ![Len(batches)] = Append(@, c)] \in Seq(Seq(Coin))
  <2>1. Len(batches) \in 1..Len(batches) /\ batches[Len(batches)] \in Seq(Coin)
    BY <1>1
  <2>2. Append(batches[Len(batches)], c) \in Seq(Coin)
    BY <2>1
  <2>3. QED BY <2>1, <2>2
<1>2. Append(batches, <<c>>) \in Seq(Seq(Coin))
  OBVIOUS
<1>3. QED BY <1>1, <1>2 DEF AddCoin

(* The cutting adds the coins of the listing in turn.                      *)
LEMMA CutSteps ==
  ASSUME NEW ranked \in Seq(Coin)
  PROVE  \E cut \in [0..Len(ranked) -> Seq(Seq(Coin))] :
           /\ BuildBatches(ranked) = cut[Len(ranked)] /\ cut[0] = << >>
           /\ \A n \in 1..Len(ranked) : cut[n] = AddCoin(cut[n - 1], ranked[n])
<1> DEFINE N == Len(ranked)
           D == Seq(Seq(Coin))
           d == << >>
           Cut(f) == f = [n \in 0..N |-> IF n = 0 THEN d ELSE AddCoin(f[n - 1], ranked[n])]
           cut == CHOOSE f : Cut(f)
           h == [p \in (1..N) \X D |-> AddCoin(p[2], ranked[p[1]])]
<1>1. N \in Nat /\ d \in D /\ \A n \in 1..N : ranked[n] \in Coin
  OBVIOUS
<1>2. BuildBatches(ranked) = cut[N]
  BY DEF BuildBatches
<1>3. \A b \in D, c \in Coin : AddCoin(b, c) \in D
  BY AddCoinTyped
<1> HIDE DEF N, D, d
<1>4. StepOver(h, N, D) /\ \A n \in 1..N, b \in D : h[<<n, b>>] = AddCoin(b, ranked[n])
  BY <1>1, <1>3 DEF StepOver
<1> HIDE DEF h
<1>5. PICK f : Recurses(f, h, N, D, d)
  BY <1>1, <1>4, RecursionExists
<1>6. \A n \in 1..N : f[n] = AddCoin(f[n - 1], ranked[n])
  <2>1. ASSUME NEW n \in 1..N PROVE f[n] = AddCoin(f[n - 1], ranked[n])
    <3>1. n - 1 \in 0..N
      BY <1>1
    <3>2. f[n - 1] \in D /\ f[n] = h[<<n, f[n - 1]>>]
      BY <1>5, <3>1 DEF Recurses
    <3>3. QED BY <1>4, <3>2
  <2>2. QED BY <2>1
<1>7. /\ f = [n \in 0..N |-> f[n]]
      /\ \A n \in 0..N : f[n] = IF n = 0 THEN d ELSE AddCoin(f[n - 1], ranked[n])
  BY <1>1, <1>5, <1>6 DEF Recurses
<1>8. Cut(f)
  <2> DEFINE g == [n \in 0..N |-> IF n = 0 THEN d ELSE AddCoin(f[n - 1], ranked[n])]
  <2>1. \A n \in 0..N : g[n] = f[n]
    BY <1>7
  <2>2. g = [n \in 0..N |-> g[n]]
    OBVIOUS
  <2> HIDE DEF g
  <2>3. g = f
    BY <1>7, <2>1, <2>2
  <2>4. QED BY <2>3 DEF g
<1> HIDE DEF Cut
<1>9. Cut(cut)
  BY <1>8
<1>10. \A g : Cut(g) => /\ DOMAIN g = 0..N /\ g[0] = d
                        /\ \A n \in 1..N : g[n] = AddCoin(g[n - 1], ranked[n])
  BY <1>1 DEF Cut
<1> HIDE DEF cut
<1>11. cut \in [0..N -> D]
  <2> DEFINE S == {n \in 0..N : cut[n] \in D}
  <2>1. 0 \in S
    BY <1>1, <1>9, <1>10
  <2>2. ASSUME NEW n \in 0..N, n \in S, n < N PROVE n + 1 \in S
    <3>1. n + 1 \in 1..N /\ n + 1 \in 0..N /\ (n + 1) - 1 = n /\ cut[n] \in D
      BY <1>1, <2>2
    <3>2. cut[n + 1] = AddCoin(cut[n], ranked[n + 1])
      BY <1>9, <1>10, <3>1
    <3>3. QED BY <1>1, <1>3, <3>1, <3>2
  <2>3. \A n \in 0..N : n \in S /\ n < N => n + 1 \in S
    BY <2>2
  <2> HIDE DEF S
  <2>4. \A n \in 0..N : n \in S
    BY <1>1, <2>1, <2>3, Stepwise
  <2>5. \A n \in 0..N : cut[n] \in D
    BY <2>4 DEF S
  <2>6. cut = [n \in 0..N |-> cut[n]]
    BY <1>9 DEF Cut
  <2>7. QED BY <2>5, <2>6
<1>12. QED BY <1>2, <1>9, <1>10, <1>11 DEF N, D, d

(* The next coin of the listing gets into the last batch or into one of    *)
(* its own.                                                                *)
LEMMA AddCoinCuts ==
  ASSUME NEW l \in Seq(Coin), NEW n \in 0..Len(l), n < Len(l), NEW batches, CutOf(batches, l, n)
  PROVE  CutOf(AddCoin(batches, l[n + 1]), l, n + 1)
<1> DEFINE K == Len(batches)
           c == l[n + 1]
           last == batches[K]
           more == AddCoin(batches, c)
<1>1. batches \in Seq(Seq(Coin)) /\ n \in Nat /\ c \in Coin
  BY DEF CutOf
<1>2. /\ K \in Nat /\ DOMAIN batches = 1..K
      /\ \A i \in 1..K : batches[i] \in Seq(Coin) /\ WithinLimits(batches[i])
      /\ \A i \in 1..K : i # 1 => ~ Fits(batches[i - 1], batches[i][1])
      /\ batches # << >> <=> K \in 1..K
  <2>1. /\ K \in Nat /\ DOMAIN batches = 1..K
        /\ \A i \in 1..K : batches[i] \in Seq(Coin)
    BY <1>1
  <2>2. batches # << >> <=> K \in 1..K
    BY <1>1
  <2>3. QED BY <2>1, <2>2 DEF CutOf
<1>3. more \in Seq(Seq(Coin))
  BY <1>1, AddCoinTyped
<1>4. PICK at : Pieces(batches, at, l, n)
  BY DEF CutOf
<1>5. /\ at \in [1..K + 1 -> Nat] /\ at[1] = 0 /\ at[K + 1] = n
      /\ \A i \in 1..K : /\ at[i + 1] = at[i] + Len(batches[i])
                         /\ \A k \in DOMAIN batches[i] : batches[i][k] = l[at[i] + k]
  BY <1>2, <1>4 DEF Pieces
<1>6. CASE batches # << >> /\ Fits(last, c)
  <2>1. more = [batches EXCEPT ![K] = Append(last, c)]
    BY <1>6, SMTT(30) DEF AddCoin
  <2>2. /\ Len(more) = K /\ DOMAIN more = 1..K /\ more[K] = Append(last, c)
        /\ \A i \in 1..K : i # K => more[i] = batches[i]
    <3>1. K \in 1..K
      BY <1>2, <1>6
    <3>2. /\ DOMAIN more = 1..K /\ more[K] = Append(last, c)
          /\ \A i \in 1..K : i # K => more[i] = batches[i]
      BY <1>2, <2>1, <3>1, ZenonT(60)
    <3> HIDE DEF more, K
    <3>3. Len(more) = K
      <4>1. PICK m \in Nat : m = Len(more) /\ 1..m = 1..K
        BY <1>3, <3>2
      <4>2. K \in 1..m /\ (m \in 1..m => m \in 1..K)
        BY <3>1, <4>1
      <4>3. QED BY <1>2, <4>1, <4>2
    <3>4. QED BY <3>2, <3>3
  <2>3. /\ last \in Seq(Coin) /\ Len(last) \in 1..MaxInputs /\ K \in 1..K
        /\ Len(last) < MaxInputs /\ ValueOf(last) + Sats[c] <= MaxValue
    BY <1>2, <1>6 DEF WithinLimits, Fits
  <2>4. /\ Len(more[K]) = Len(last) + 1 /\ DOMAIN more[K] = 1..Len(last) + 1
        /\ more[K][Len(last) + 1] = c /\ \A k \in 1..Len(last) : more[K][k] = last[k]
    BY <1>1, <2>2, <2>3
  <2>5. WithinLimits(more[K])
    <3>1. ValueOf(more[K]) = ValueOf(last) + Sats[c]
      BY <1>1, <2>2, <2>3, ValueOfAppend
    <3>2. QED BY <2>3, <2>4, <3>1, MigrationAssumption, SMTT(30) DEF WithinLimits
  <2> DEFINE then == [at EXCEPT ![K + 1] = n + 1]
  <2>6. /\ then \in [1..K + 1 -> Nat] /\ then[K + 1] = n + 1
        /\ \A i \in 1..K : then[i] = at[i]
    BY <1>1, <1>2, <1>5
  <2> HIDE DEF then, more, K, c
  <2>7. Pieces(more, then, l, n + 1)
    <3>1. then[1] = 0
      BY <1>2, <1>5, <2>3, <2>6
    <3>2. ASSUME NEW i \in 1..K, i # K
          PROVE  /\ then[i + 1] = then[i] + Len(more[i])
                 /\ \A k \in DOMAIN more[i] : more[i][k] = l[then[i] + k]
      <4>1. i + 1 \in 1..K
        BY <1>2, <3>2
      <4>2. more[i] = batches[i] /\ then[i] = at[i] /\ then[i + 1] = at[i + 1]
        BY <2>2, <2>6, <3>2, <4>1
      <4>3. QED BY <1>5, <4>2
    <3>3. n = at[K] + Len(last) /\ at[K] \in Nat
      BY <1>2, <1>5, <2>3
    <3>4. then[K + 1] = then[K] + Len(more[K])
      BY <1>1, <2>3, <2>4, <2>6, <3>3
    <3>5. ASSUME NEW k \in DOMAIN more[K] PROVE more[K][k] = l[then[K] + k]
      <4>1. CASE k \in 1..Len(last)
        <5>1. k \in DOMAIN last /\ then[K] = at[K]
          BY <2>3, <2>6, <4>1
        <5>2. QED BY <1>5, <2>3, <2>4, <4>1, <5>1
      <4>2. CASE k = Len(last) + 1
        <5>1. then[K] + k = n + 1
          BY <2>3, <2>6, <3>3, <4>2
        <5>2. QED BY <2>4, <4>2, <5>1 DEF c
      <4>3. QED BY <2>3, <2>4, <3>5, <4>1, <4>2
    <3>6. QED BY <2>2, <2>6, <3>1, <3>2, <3>4, <3>5 DEF Pieces
  <2>8. \A i \in 1..K : WithinLimits(more[i])
    BY <1>2, <2>2, <2>5
  <2>9. \A i \in 1..K : i # 1 => ~ Fits(more[i - 1], more[i][1])
    <3>1. ASSUME NEW i \in 1..K, i # 1 PROVE ~ Fits(more[i - 1], more[i][1])
      <4>1. i - 1 \in 1..K /\ i - 1 # K
        BY <1>2, <3>1
      <4>2. more[i][1] = batches[i][1] /\ more[i - 1] = batches[i - 1]
        BY <2>2, <2>3, <2>4, <4>1, SMTT(30)
      <4>3. QED BY <1>2, <3>1, <4>2
    <3>2. QED BY <3>1
  <2>10. QED BY <1>3, <2>2, <2>7, <2>8, <2>9 DEF CutOf, more, c
<1>7. CASE ~ (batches # << >> /\ Fits(last, c))
  <2>1. more = Append(batches, <<c>>)
    BY <1>7 DEF AddCoin
  <2>2. /\ Len(more) = K + 1 /\ DOMAIN more = 1..K + 1 /\ more[K + 1] = <<c>>
        /\ \A i \in 1..K : more[i] = batches[i]
    BY <1>1, <2>1
  <2>3. /\ Len(more[K + 1]) = 1 /\ DOMAIN more[K + 1] = {1} /\ more[K + 1][1] = c
        /\ WithinLimits(more[K + 1])
    BY <2>2, MigrationAssumption DEF WithinLimits
  <2> DEFINE then == [i \in 1..K + 2 |-> IF i = K + 2 THEN n + 1 ELSE at[i]]
  <2>4. /\ then \in [1..K + 2 -> Nat] /\ then[K + 2] = n + 1
        /\ \A i \in 1..K + 1 : then[i] = at[i]
    BY <1>1, <1>2, <1>5
  <2>5. \A i \in 1..K + 1 : i \in 1..K \/ i = K + 1
    BY <1>2
  <2>6. \A i \in 1..K : i \in 1..K + 1 /\ i + 1 \in 1..K + 1
    BY <1>2
  <2>7. (K + 1) + 1 = K + 2 /\ K + 1 \in 1..K + 1 /\ 1 \in 1..K + 1
    BY <1>2
  <2> HIDE DEF then, more, K, c
  <2>8. Pieces(more, then, l, n + 1)
    <3>1. \A i \in 1..K : /\ then[i + 1] = then[i] + Len(more[i])
                          /\ \A k \in DOMAIN more[i] : more[i][k] = l[then[i] + k]
      BY <1>5, <2>2, <2>4, <2>6, SMTT(30)
    <3>2. /\ then[(K + 1) + 1] = then[K + 1] + Len(more[K + 1])
          /\ \A k \in DOMAIN more[K + 1] : more[K + 1][k] = l[then[K + 1] + k]
      BY <1>5, <2>3, <2>4, <2>7 DEF c
    <3>3. QED BY <1>5, <2>2, <2>4, <2>5, <2>7, <3>1, <3>2 DEF Pieces
  <2>9. \A i \in 1..K + 1 : WithinLimits(more[i])
    BY <1>2, <2>2, <2>3, <2>5
  <2>10. \A i \in 1..K + 1 : i # 1 => ~ Fits(more[i - 1], more[i][1])
    <3>1. ASSUME NEW i \in 1..K, i # 1 PROVE ~ Fits(more[i - 1], more[i][1])
      <4>1. i - 1 \in 1..K
        BY <1>2, <3>1
      <4>2. QED BY <1>2, <2>2, <3>1, <4>1
    <3>2. ASSUME K + 1 # 1 PROVE ~ Fits(more[(K + 1) - 1], more[K + 1][1])
      <4>1. (K + 1) - 1 = K /\ K \in 1..K
        BY <1>2, <3>2
      <4>2. more[(K + 1) - 1] = last
        BY <2>2, <4>1
      <4>3. QED BY <1>2, <1>7, <2>3, <4>1, <4>2
    <3>3. QED BY <2>5, <3>1, <3>2
  <2>11. QED BY <1>3, <2>2, <2>8, <2>9, <2>10 DEF CutOf, more, c
<1>8. QED BY <1>6, <1>7

(* The batches of a listing are a cutting of all of it.                    *)
LEMMA BatchesCut ==
  ASSUME NEW l \in Seq(Coin)
  PROVE  CutOf(BuildBatches(l), l, Len(l))
<1> DEFINE N == Len(l)
<1>1. N \in Nat
  OBVIOUS
<1>2. PICK cut \in [0..N -> Seq(Seq(Coin))] :
        /\ BuildBatches(l) = cut[N] /\ cut[0] = << >>
        /\ \A n \in 1..N : cut[n] = AddCoin(cut[n - 1], l[n])
  BY CutSteps
<1> DEFINE S == {n \in 0..N : CutOf(cut[n], l, n)}
<1>3. 0 \in S
  <2>1. Pieces(<< >>, [i \in {1} |-> 0], l, 0)
    BY DEF Pieces
  <2>2. << >> \in Seq(Seq(Coin)) /\ DOMAIN << >> = {}
    OBVIOUS
  <2>3. CutOf(<< >>, l, 0)
    BY <2>1, <2>2 DEF CutOf
  <2>4. QED BY <1>1, <1>2, <2>3
<1>4. ASSUME NEW n \in 0..N, n \in S, n < N PROVE n + 1 \in S
  <2>1. n + 1 \in 1..N /\ n + 1 \in 0..N /\ (n + 1) - 1 = n
    BY <1>1, <1>4
  <2>2. cut[n + 1] = AddCoin(cut[n], l[n + 1])
    BY <1>2, <2>1
  <2>3. CutOf(cut[n + 1], l, n + 1)
    BY <1>4, <2>2, AddCoinCuts
  <2>4. QED BY <2>1, <2>3
<1>5. N \in S
  <2> HIDE DEF S, N
  <2>1. N \in 0..N /\ \A n \in 0..N : n \in S /\ n < N => n + 1 \in S
    BY <1>1, <1>4
  <2>2. QED BY <1>1, <1>3, <2>1, Stepwise
<1>6. QED BY <1>2, <1>5

(* No coin of a listing that repeats none is in two of its batches.        *)
LEMMA PiecesApart ==
  ASSUME NEW l \in Seq(Coin), \A i, j \in 1..Len(l) : l[i] = l[j] => i = j,
         NEW batches, CutOf(batches, l, Len(l)),
         NEW i \in DOMAIN batches, NEW j \in DOMAIN batches,
         CoinsOf(batches[i]) \intersect CoinsOf(batches[j]) # {}
  PROVE  i = j
<1> DEFINE K == Len(batches)
           N == Len(l)
<1>1. /\ K \in Nat /\ N \in Nat /\ DOMAIN batches = 1..K
      /\ \A x \in 1..K : batches[x] \in Seq(Coin)
  BY DEF CutOf
<1>2. PICK at : Pieces(batches, at, l, N)
  BY DEF CutOf
<1>3. /\ at \in [1..K + 1 -> Nat] /\ at[K + 1] = N
      /\ \A x \in 1..K : /\ at[x + 1] = at[x] + Len(batches[x])
                         /\ \A k \in DOMAIN batches[x] : batches[x][k] = l[at[x] + k]
  BY <1>1, <1>2 DEF Pieces
<1> HIDE DEF K, N
<1>4. \A x \in 1..K : /\ x \in 1..K + 1 /\ x + 1 \in 1..K + 1 /\ at[x] \in Nat
                      /\ Len(batches[x]) \in Nat /\ DOMAIN batches[x] = 1..Len(batches[x])
  <2> SUFFICES ASSUME NEW x \in 1..K
               PROVE  /\ x \in 1..K + 1 /\ x + 1 \in 1..K + 1 /\ at[x] \in Nat
                      /\ Len(batches[x]) \in Nat /\ DOMAIN batches[x] = 1..Len(batches[x])
    OBVIOUS
  <2>1. x \in 1..K + 1 /\ x + 1 \in 1..K + 1
    BY <1>1
  <2>2. batches[x] \in Seq(Coin) /\ at[x] \in Nat
    BY <1>1, <1>3, <2>1
  <2>3. QED BY <2>1, <2>2
<1>5. \A x \in 1..K, y \in 1..K + 1 : x + 1 <= y => at[x + 1] <= at[y]
  <2> SUFFICES ASSUME NEW x \in 1..K PROVE \A y \in x + 1..K + 1 : at[x + 1] <= at[y]
    BY <1>1
  <2> DEFINE S == {y \in x + 1..K + 1 : at[x + 1] <= at[y]}
  <2>1. x + 1 \in Nat /\ K + 1 \in Nat /\ x + 1 \in S
    BY <1>1, <1>3, <1>4
  <2>2. ASSUME NEW y \in x + 1..K + 1, y \in S, y < K + 1 PROVE y + 1 \in S
    <3>1. y \in 1..K /\ y + 1 \in x + 1..K + 1
      BY <1>1, <2>2
    <3>2. at[y + 1] = at[y] + Len(batches[y]) /\ at[y] \in Nat /\ Len(batches[y]) \in Nat
      BY <1>3, <1>4, <3>1
    <3>3. at[x + 1] \in Nat /\ at[x + 1] <= at[y]
      BY <1>3, <1>4, <2>2
    <3>4. at[x + 1] <= at[y + 1]
      BY <3>2, <3>3
    <3>5. QED BY <3>1, <3>4
  <2> HIDE DEF S
  <2>3. \A y \in x + 1..K + 1 : y \in S
    BY <2>1, <2>2, Stepwise
  <2>4. QED BY <2>3 DEF S
<1>6. PICK c : c \in CoinsOf(batches[i]) /\ c \in CoinsOf(batches[j])
  OBVIOUS
<1>7. PICK k \in DOMAIN batches[i], m \in DOMAIN batches[j] :
        batches[i][k] = c /\ batches[j][m] = c
  BY <1>6 DEF CoinsOf
<1>8. \A x \in 1..K : \A q \in DOMAIN batches[x] :
        /\ at[x] + q \in 1..N /\ batches[x][q] = l[at[x] + q]
        /\ at[x] < at[x] + q /\ at[x] + q <= at[x + 1]
  <2> SUFFICES ASSUME NEW x \in 1..K, NEW q \in DOMAIN batches[x]
               PROVE  /\ at[x] + q \in 1..N
                      /\ at[x] < at[x] + q /\ at[x] + q <= at[x + 1]
    BY <1>3
  <2>1. /\ at[x] \in Nat /\ Len(batches[x]) \in Nat /\ q \in 1..Len(batches[x])
        /\ at[x + 1] = at[x] + Len(batches[x])
    BY <1>3, <1>4
  <2>2. at[x + 1] <= N
    <3>1. K + 1 \in 1..K + 1 /\ x + 1 <= K + 1
      BY <1>1
    <3>2. QED BY <1>3, <1>5, <3>1
  <2>3. \A a, b, z, y, n \in Nat : y \in 1..b /\ z = a + b /\ z <= n =>
          a + y \in 1..n /\ a < a + y /\ a + y <= z
    OBVIOUS
  <2>4. q \in Nat /\ at[x + 1] \in Nat
    BY <2>1
  <2>5. PICK a, b, z \in Nat : a = at[x] /\ b = Len(batches[x]) /\ z = at[x + 1]
    BY <2>1, <2>4
  <2>6. q \in 1..b /\ z = a + b /\ z <= N
    BY <2>1, <2>2, <2>5
  <2>7. a + q \in 1..N /\ a < a + q /\ a + q <= z
    BY <1>1, <2>3, <2>4, <2>6
  <2>8. QED BY <2>5, <2>7
<1>9. at[i] + k = at[j] + m
  <2>1. at[i] + k \in 1..N /\ at[j] + m \in 1..N /\ l[at[i] + k] = l[at[j] + m]
    BY <1>1, <1>7, <1>8
  <2>2. QED BY <2>1 DEF N
<1>10. ASSUME NEW x \in 1..K, NEW y \in 1..K, x < y,
              NEW p \in DOMAIN batches[x], NEW q \in DOMAIN batches[y]
       PROVE  at[x] + p # at[y] + q
  <2>1. at[x + 1] <= at[y] /\ at[x + 1] \in Nat /\ at[y] \in Nat /\ at[x] \in Nat
    BY <1>1, <1>3, <1>4, <1>5, <1>10, SMTT(30)
  <2>2. at[x] + p <= at[x + 1] /\ at[y] < at[y] + q
    BY <1>8
  <2>3. p \in Int /\ q \in Int
    BY <1>4, SMTT(30)
  <2>4. QED BY <2>1, <2>2, <2>3
<1>11. QED BY <1>1, <1>7, <1>9, <1>10

-----------------------------------------------------------------------------
(* The wallet migration: its state store.                                  *)

(* The initial states satisfy the invariant of the migration.              *)
LEMMA MigInitIInv == MigInit => MigIInv
BY MigrationAssumption DEF MigInit, MigIInv, MigTypeOK

(* A step that leaves the rows alone and hands out settled bindings only   *)
(* keeps the invariant of the migration.                                   *)
LEMMA MigQuietIInv ==
  ASSUME MigIInv, rows' = rows, generation' = generation, MigTypeOK',
         \A m \in Migrator : \A b \in held'[m] : Settled(b),
         \A s \in sweeps' : Settled(s.binding) /\ s.coins = s.binding.coins
  PROVE  MigIInv'
BY DEF MigIInv, Settled

(* What a caller is told, or not told, keeps the types.                    *)
LEMMA AnsweredFacts ==
  ASSUME MigTypeOK, NEW m \in Migrator, NEW g \in Nat, NEW B \in SUBSET Binding,
         Answered(m, g, B)
  PROVE  /\ known' \in [Migrator -> Nat] /\ held' \in [Migrator -> SUBSET Binding]
         /\ lostReplies' \in 0..MaxLostReplies
         /\ \A n \in Migrator : held'[n] \subseteq held[n] \union B
<1>1. CASE /\ known' = [known EXCEPT ![m] = g] /\ held' = [held EXCEPT ![m] = @ \union B]
           /\ lostReplies' = lostReplies
  <2>1. \A n \in Migrator : held'[n] = held[n] \/ held'[n] = held[n] \union B
    BY <1>1 DEF MigTypeOK
  <2>2. held' \in [Migrator -> SUBSET Binding] /\ known' \in [Migrator -> Nat]
    BY <1>1 DEF MigTypeOK
  <2>3. QED BY <1>1, <2>1, <2>2 DEF MigTypeOK
<1>2. CASE /\ known' = known /\ held' = held
           /\ lostReplies < MaxLostReplies /\ lostReplies' = lostReplies + 1
  BY <1>2, MigrationAssumption DEF MigTypeOK
<1>3. QED BY <1>1, <1>2 DEF Answered

(* What callers offer the store are batches of coins.                      *)
LEMMA OffersTyped == Offers \subseteq Seq(Seq(Coin))
BY BatchesCut, MigrationAssumption DEF Offers, CutOf

(* Initialize keeps the invariant: nobody holds anything yet.              *)
LEMMA InitializeIInv ==
  ASSUME MigIInv, NEW m \in Migrator, Initialize(m) PROVE MigIInv'
<1>1. PICK batches \in Offers :
        rows' = [i \in DOMAIN batches |->
                   [coins |-> batches[i], status |-> "PENDING", binding |-> NoBinding]]
  BY DEF Initialize
<1>2. batches \in Seq(Seq(Coin))
  BY OffersTyped
<1>3. DOMAIN batches = 1..Len(batches) /\ Len(batches) \in Nat
  BY <1>2
<1>4. rows' \in Seq(BatchRow)
  <2>1. rows' \in [1..Len(batches) -> BatchRow]
    BY <1>1, <1>2, <1>3 DEF BatchRow
  <2>2. QED BY <1>3, <2>1
<1>5. rows = << >> /\ generation' = 1 /\ Answered(m, 1, {}) /\ lapsed' = lapsed /\ sweeps' = sweeps
  BY DEF Initialize
<1>6. /\ known' \in [Migrator -> Nat] /\ held' \in [Migrator -> SUBSET Binding]
      /\ lostReplies' \in 0..MaxLostReplies
      /\ \A n \in Migrator : held'[n] \subseteq held[n]
  BY <1>5, AnsweredFacts DEF MigIInv
<1>7. sweeps = {} /\ \A n \in Migrator : held[n] = {}
  BY <1>5 DEF MigIInv, Settled
<1>8. MigTypeOK'
  BY <1>4, <1>5, <1>6 DEF MigIInv, MigTypeOK
<1>9. QED BY <1>1, <1>5, <1>6, <1>7, <1>8, ZenonT(60) DEF MigIInv

(* A row that is written in place, from PENDING to a new binding or with   *)
(* its binding kept, leaves every settled binding settled.                 *)
LEMMA RowWritten ==
  ASSUME MigIInv, NEW i \in DOMAIN rows, NEW st \in {"RESERVED", "COMPLETED"},
         NEW b \in Binding, b.batch = i, b.coins = CoinsOf(rows[i].coins),
         rows[i].status = "PENDING" \/ rows[i].binding = b,
         rows' = Written(i, st, b)
  PROVE  /\ rows' \in Seq(BatchRow)
         /\ \A x \in DOMAIN rows' : rows'[x].binding # NoBinding =>
              rows'[x].binding.batch = x /\ Settled(rows[x].binding)'
         /\ Settled(b)'
         /\ \A c : Settled(c) => Settled(c)'
<1>1. /\ DOMAIN rows' = DOMAIN rows
      /\ rows'[i].status = st /\ rows'[i].binding = b /\ rows'[i].coins = rows[i].coins
      /\ \A x \in DOMAIN rows : x # i => rows'[x] = rows[x]
      /\ \A x \in DOMAIN rows : rows'[x].coins = rows[x].coins
  BY DEF MigIInv, MigTypeOK, Written
<1>2. Settled(b)'
  BY <1>1 DEF Settled
<1>3. \A c : Settled(c) => Settled(c)'
  <2> SUFFICES ASSUME NEW c, Settled(c) PROVE Settled(c)'
    OBVIOUS
  <2>1. CASE c.batch = i
    BY <1>1, <2>1 DEF Settled
  <2>2. CASE c.batch # i
    BY <1>1, <2>2 DEF Settled
  <2>3. QED BY <2>1, <2>2
<1>4. \A x \in DOMAIN rows' : rows'[x].binding # NoBinding =>
        rows'[x].binding.batch = x /\ Settled(rows[x].binding)'
  BY <1>1, <1>2, <1>3 DEF MigIInv
<1>5. rows' \in Seq(BatchRow)
  <2>1. rows \in Seq(BatchRow) /\ rows[i] \in BatchRow
    BY DEF MigIInv, MigTypeOK
  <2>2. [coins |-> rows[i].coins, status |-> st, binding |-> b] \in BatchRow
    BY <2>1 DEF BatchRow
  <2>3. QED BY <2>1, <2>2 DEF Written
<1>6. QED BY <1>2, <1>3, <1>4, <1>5

(* Reserve keeps the invariant: the row was PENDING, so nobody had it.     *)
LEMMA ReserveIInv ==
  ASSUME MigIInv, NEW m \in Migrator, NEW i \in DOMAIN rows, NEW n \in Nonce, Reserve(m, i, n)
  PROVE  MigIInv'
<1> DEFINE new == [batch |-> i, coins |-> CoinsOf(rows[i].coins), nonce |-> n,
                 generation |-> generation + 1]
<1>0. new \in Binding
  <2>1. rows \in Seq(BatchRow) /\ generation \in Nat
    BY DEF MigIInv, MigTypeOK
  <2>2. rows[i] \in BatchRow /\ i \in Nat
    BY <2>1
  <2>3. CoinsOf(rows[i].coins) \in SUBSET Coin
    BY <2>2 DEF BatchRow, CoinsOf
  <2>4. QED BY <2>1, <2>2, <2>3 DEF Binding
<1> PICK b \in Binding : b = new
  BY <1>0
<1>1. b \in Binding /\ b.batch = i /\ b.coins = CoinsOf(rows[i].coins) /\ {b} \in SUBSET Binding
  OBVIOUS
<1>2. /\ rows[i].status = "PENDING"
      /\ rows' = Written(i, "RESERVED", b)
      /\ Answered(m, generation + 1, {b})
      /\ generation' = generation + 1 /\ lapsed' = lapsed /\ sweeps' = sweeps
  BY DEF Reserve, Free
<1>3. generation \in Nat /\ generation + 1 \in Nat
  BY DEF MigIInv, MigTypeOK
<1> HIDE DEF new
<1>4. /\ known' \in [Migrator -> Nat] /\ held' \in [Migrator -> SUBSET Binding]
      /\ lostReplies' \in 0..MaxLostReplies
      /\ \A x \in Migrator : held'[x] \subseteq held[x] \union {b}
  BY <1>1, <1>2, <1>3, AnsweredFacts DEF MigIInv
<1>5. /\ rows' \in Seq(BatchRow)
      /\ \A x \in DOMAIN rows' : rows'[x].binding # NoBinding =>
           rows'[x].binding.batch = x /\ Settled(rows[x].binding)'
      /\ Settled(b)'
      /\ \A c : Settled(c) => Settled(c)'
  BY <1>1, <1>2, RowWritten
<1>6. MigTypeOK'
  BY <1>2, <1>3, <1>4, <1>5 DEF MigIInv, MigTypeOK
<1>7. \A x \in Migrator : \A c \in held'[x] : Settled(c)'
  <2>1. ASSUME NEW x \in Migrator, NEW c \in held'[x] PROVE Settled(c)'
    <3>1. c = b \/ c \in held[x]
      BY <1>4, <2>1
    <3>2. CASE c = b
      BY <1>5, <3>2
    <3>3. CASE c \in held[x]
      BY <1>5, <3>3 DEF MigIInv
    <3>4. QED BY <3>1, <3>2, <3>3
  <2>2. QED BY <2>1
<1>8. QED BY <1>2, <1>5, <1>6, <1>7 DEF MigIInv

(* Complete keeps the invariant: the row keeps its binding.                *)
LEMMA CompleteIInv ==
  ASSUME MigIInv, NEW m \in Migrator, NEW b \in held[m], Complete(m, b.batch, b)
  PROVE  MigIInv'
<1>1. b \in Binding /\ b.batch \in DOMAIN rows /\ b.coins = CoinsOf(rows[b.batch].coins)
      /\ rows[b.batch].binding = b
  BY DEF MigIInv, MigTypeOK, Settled
<1>2. /\ rows' = Written(b.batch, "COMPLETED", b)
      /\ Answered(m, generation + 1, {})
      /\ generation' = generation + 1 /\ lapsed' = lapsed /\ sweeps' = sweeps
  BY DEF Complete
<1>4. generation \in Nat /\ generation + 1 \in Nat
  BY DEF MigIInv, MigTypeOK
<1>5. /\ known' \in [Migrator -> Nat] /\ held' \in [Migrator -> SUBSET Binding]
      /\ lostReplies' \in 0..MaxLostReplies
      /\ \A x \in Migrator : held'[x] \subseteq held[x]
  BY <1>2, <1>4, AnsweredFacts DEF MigIInv
<1>6. /\ rows' \in Seq(BatchRow)
      /\ \A x \in DOMAIN rows' : rows'[x].binding # NoBinding =>
           rows'[x].binding.batch = x /\ Settled(rows[x].binding)'
      /\ \A c : Settled(c) => Settled(c)'
  BY <1>1, <1>2, RowWritten
<1>7. MigTypeOK'
  BY <1>2, <1>4, <1>5, <1>6 DEF MigIInv, MigTypeOK
<1>8. \A x \in Migrator : \A c \in held'[x] : Settled(c)'
  BY <1>5, <1>6 DEF MigIInv
<1>9. QED BY <1>2, <1>6, <1>7, <1>8 DEF MigIInv

(* The reservations in the rows are bindings.                              *)
LEMMA ReservationsTyped == ASSUME MigTypeOK PROVE Reservations \subseteq Binding
<1>1. ASSUME NEW i \in DOMAIN rows PROVE rows[i].binding \in Binding \union {NoBinding}
  <2>1. rows \in Seq(BatchRow)
    BY DEF MigTypeOK
  <2>2. rows[i] \in BatchRow
    BY <2>1
  <2>3. QED BY <2>2 DEF BatchRow
<1>2. QED BY <1>1 DEF Reservations

(* Every step keeps the invariant of the migration.                        *)
LEMMA MigNextIInv == MigIInv /\ [MigNext]_migVars => MigIInv'
<1> SUFFICES ASSUME MigIInv, [MigNext]_migVars PROVE MigIInv'
  OBVIOUS
<1>1. ASSUME NEW m \in Migrator, Snapshot(m) PROVE MigIInv'
  <2>1. \A b \in Reservations : b \in Binding /\ Settled(b)
    BY ReservationsTyped DEF MigIInv, Reservations
  <2>2. MigTypeOK'
    BY <1>1, <2>1 DEF Snapshot, MigIInv, MigTypeOK
  <2>3. \A n \in Migrator : \A b \in held'[n] : Settled(b)
    BY <1>1, <2>1 DEF Snapshot, MigIInv, MigTypeOK
  <2>4. QED BY <1>1, <2>2, <2>3, MigQuietIInv DEF Snapshot, MigIInv
<1>2. ASSUME NEW m \in Migrator, NEW b \in held[m], NEW coins \in SUBSET Coin, Sweep(m, b, coins)
      PROVE  MigIInv'
  <2>1. Settled(b) /\ b \in Binding /\ coins = b.coins
    BY <1>2 DEF Sweep, ExactlyReserved, MigIInv, MigTypeOK
  <2>2. MigTypeOK'
    BY <1>2, <2>1 DEF Sweep, MigIInv, MigTypeOK
  <2>3. QED BY <1>2, <2>1, <2>2, MigQuietIInv DEF Sweep, MigIInv
<1>3. ASSUME NEW b \in Reservations, Lapse(b) PROVE MigIInv'
  <2>1. b \in Binding
    BY ReservationsTyped DEF MigIInv
  <2>2. MigTypeOK'
    BY <1>3, <2>1 DEF Lapse, MigIInv, MigTypeOK
  <2>3. QED BY <1>3, <2>2, MigQuietIInv DEF Lapse, MigIInv
<1>4. CASE UNCHANGED migVars
  BY <1>4, MigQuietIInv DEF migVars, MigIInv, MigTypeOK
<1>5. QED BY <1>1, <1>2, <1>3, <1>4, InitializeIInv, ReserveIInv, CompleteIInv DEF MigNext

(* A batch is signed away under one binding, which its row carries for     *)
(* good, and with its own coins: for any batches the store is given, any   *)
(* callers, nonces and limits.                                             *)
THEOREM BatchesSweptOnce == MigSpec => []BatchSweptOnce
<1>1. ASSUME MigIInv PROVE BatchSweptOnce
  <2>1. ASSUME NEW s \in sweeps
        PROVE  /\ s.binding.batch \in DOMAIN rows /\ rows[s.binding.batch].binding = s.binding
               /\ s.coins = CoinsOf(rows[s.binding.batch].coins)
    BY <1>1, <2>1 DEF MigIInv, Settled
  <2>2. ASSUME NEW s \in sweeps, NEW t \in sweeps, NEW c \in s.coins \intersect t.coins,
               s.binding # t.binding
        PROVE  \E i, j \in DOMAIN rows :
                 i # j /\ c \in CoinsOf(rows[i].coins) /\ c \in CoinsOf(rows[j].coins)
    <3>1. s.binding.batch # t.binding.batch
      BY <2>1, <2>2
    <3>2. QED BY <2>1, <2>2, <3>1
  <2>3. QED BY <2>1, <2>2, ZenonT(60) DEF BatchSweptOnce
<1>2. QED BY <1>1, MigInitIInv, MigNextIInv, PTL DEF MigSpec

(* The rows are batches a caller gave, or the cutting of one listing.      *)
RowsCut ==
  rows # << >> =>
    \E batches \in Seq(Seq(Coin)) :
      /\ DOMAIN rows = DOMAIN batches /\ \A i \in DOMAIN rows : rows[i].coins = batches[i]
      /\ batches \in Given \/ \E l \in Listing : CutOf(batches, l, Len(l))

(* Writing a row leaves it the coins it had.                               *)
LEMMA WrittenRowsCut ==
  ASSUME RowsCut, MigTypeOK, NEW i \in DOMAIN rows, NEW st, NEW b, rows' = Written(i, st, b)
  PROVE  RowsCut'
<1>1. /\ DOMAIN rows' = DOMAIN rows
      /\ \A x \in DOMAIN rows : rows'[x].coins = rows[x].coins
  BY DEF Written, MigTypeOK
<1>2. rows # << >>
  OBVIOUS
<1>3. PICK batches \in Seq(Seq(Coin)) :
        /\ DOMAIN rows = DOMAIN batches /\ \A x \in DOMAIN rows : rows[x].coins = batches[x]
        /\ batches \in Given \/ \E l \in Listing : CutOf(batches, l, Len(l))
  BY <1>2 DEF RowsCut
<1>4. QED BY <1>1, <1>3 DEF RowsCut

(* Every step of the migration keeps the rows what they were cut as.       *)
LEMMA RowsCutStep == MigIInv /\ RowsCut /\ [MigNext]_migVars => RowsCut'
<1> SUFFICES ASSUME MigIInv, RowsCut, [MigNext]_migVars PROVE RowsCut'
  OBVIOUS
<1>1. ASSUME NEW m \in Migrator, Initialize(m) PROVE RowsCut'
  <2>1. PICK batches \in Offers :
          rows' = [i \in DOMAIN batches |->
                     [coins |-> batches[i], status |-> "PENDING", binding |-> NoBinding]]
    BY <1>1 DEF Initialize
  <2>2. batches \in Seq(Seq(Coin))
    BY OffersTyped
  <2>3. batches \in Given \/ \E l \in Listing : CutOf(batches, l, Len(l))
    BY BatchesCut, MigrationAssumption DEF Offers
  <2>4. DOMAIN rows' = DOMAIN batches /\ \A i \in DOMAIN rows' : rows'[i].coins = batches[i]
    BY <2>1
  <2>5. QED BY <2>2, <2>3, <2>4 DEF RowsCut
<1>2. ASSUME NEW m \in Migrator, NEW i \in DOMAIN rows, NEW n \in Nonce, Reserve(m, i, n)
      PROVE  RowsCut'
  <2>1. PICK b : rows' = Written(i, "RESERVED", b)
    BY <1>2 DEF Reserve
  <2>2. QED BY <2>1, WrittenRowsCut DEF MigIInv
<1>3. ASSUME NEW m \in Migrator, NEW b \in held[m], Complete(m, b.batch, b) PROVE RowsCut'
  BY <1>3, WrittenRowsCut DEF Complete, MigIInv
<1>4. ASSUME rows' = rows PROVE RowsCut'
  BY <1>4 DEF RowsCut
<1>5. QED BY <1>1, <1>2, <1>3, <1>4 DEF MigNext, Snapshot, Sweep, Lapse, migVars

(* At every time the rows of the state file are what a caller gave, or     *)
(* hold every entry of one listing in order, each once; a batch so cut is  *)
(* within both limits but for a coin that alone exceeds the value limit,   *)
(* and ends only where its next coin would have broken one.  A coin listed *)
(* twice is held twice.                                                    *)
THEOREM RowsStayCut == MigSpec => []RowsCut
<1>1. MigInit => RowsCut
  BY DEF MigInit, RowsCut
<1>2. QED BY <1>1, RowsCutStep, MigInitIInv, MigNextIInv, PTL DEF MigSpec

(* Where every store is initialized with the batches of a listing that     *)
(* repeats no coin, which the code leaves to its callers, no coin is       *)
(* signed away under two bindings.                                         *)
THEOREM CoinsSweptOnce ==
  ASSUME Given = {}, \A l \in Listing : \A i, j \in 1..Len(l) : l[i] = l[j] => i = j
  PROVE  MigSpec => [](\A s, t \in sweeps : s.coins \intersect t.coins # {} => s.binding = t.binding)
<1>1. ASSUME BatchSweptOnce, RowsCut, NEW s \in sweeps, NEW t \in sweeps,
             s.coins \intersect t.coins # {}
      PROVE  s.binding = t.binding
  <2>1. PICK c : c \in s.coins \intersect t.coins
    BY <1>1
  <2>2. SUFFICES ASSUME NEW i \in DOMAIN rows, NEW j \in DOMAIN rows,
                        c \in CoinsOf(rows[i].coins), c \in CoinsOf(rows[j].coins)
                 PROVE  i = j
    BY <1>1, <2>1 DEF BatchSweptOnce
  <2>3. PICK batches \in Seq(Seq(Coin)), l \in Listing :
          /\ DOMAIN rows = DOMAIN batches /\ \A x \in DOMAIN rows : rows[x].coins = batches[x]
          /\ CutOf(batches, l, Len(l))
    BY <1>1, <2>2 DEF RowsCut
  <2>4. CoinsOf(batches[i]) \intersect CoinsOf(batches[j]) # {}
    BY <2>2, <2>3
  <2>5. l \in Seq(Coin)
    BY MigrationAssumption
  <2>6. QED BY <2>2, <2>3, <2>4, <2>5, PiecesApart
<1>2. BatchSweptOnce /\ RowsCut =>
        \A s, t \in sweeps : s.coins \intersect t.coins # {} => s.binding = t.binding
  BY <1>1
<1>3. QED BY <1>2, BatchesSweptOnce, RowsStayCut, PTL
=============================================================================
