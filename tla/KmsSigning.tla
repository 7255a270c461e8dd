----------------------------- MODULE KmsSigning -----------------------------
(***************************************************************************)
(* The AWS KMS ML-DSA provider of QCRYPTO and its durable operation        *)
(* journal: begin_sign and reconcile in worker processes that share the    *)
(* journal directory, requests that time out before or after the key was   *)
(* used, failed journal writes, and processes that die between two steps.  *)
(*                                                                         *)
(* Every journal operation runs under one exclusive file lock and is a     *)
(* step; the calls to KMS between them are steps of their own.  An         *)
(* operation id is a hash of the key, the message and the context, so the  *)
(* binding a record carries is that of its id.  The n-th Sign request for  *)
(* an operation makes signature n: hedged ML-DSA signatures differ.        *)
(***************************************************************************)
EXTENDS Naturals, FiniteSets

CONSTANTS Operation,  \* operation ids
          Worker,     \* processes with a provider on the same journal
          MaxFaults   \* bound on failed writes and crashes

ASSUME KmsAssumption == MaxFaults \in Nat

VARIABLES
  journal,  \* operation -> [state, result], state "ABSENT" when no file
  issued,   \* operation -> Sign requests KMS executed (external)
  cache,    \* worker -> operation -> signature or NoSig (_completed)
  work,     \* worker -> [pc, op, sig], where its call of begin_sign stands
  answers,  \* operation -> the signatures returned as SIGNED (history)
  faults    \* failed writes and crashes so far

kmsVars == <<journal, issued, cache, work, answers, faults>>

NoSig == 0
Record(s, n) == [state |-> s, result |-> n]
Idle(o) == [pc |-> "idle", op |-> o, sig |-> NoSig]

KmsInit ==
  /\ journal = [o \in Operation |-> Record("ABSENT", NoSig)]
  /\ issued = [o \in Operation |-> 0]
  /\ cache = [w \in Worker |-> [o \in Operation |-> NoSig]]
  /\ work \in [Worker -> {Idle(o) : o \in Operation}]
  /\ answers = [o \in Operation |-> {}]
  /\ faults = 0

Fault == faults < MaxFaults /\ faults' = faults + 1
Goto(w, p) == work' = [work EXCEPT ![w].pc = p]
Return(w) == work' = [work EXCEPT ![w] = Idle(@.op)]
Answer(o, n) == answers' = [answers EXCEPT ![o] = @ \union {n}]
Remember(w, o, n) == cache' = [cache EXCEPT ![w][o] = n]

-----------------------------------------------------------------------------
(* begin_sign and reconcile answer from the results this process holds.    *)
ReplayCached(w, o) ==
  /\ work[w].pc = "idle" /\ cache[w][o] # NoSig
  /\ Answer(o, cache[w][o])
  /\ UNCHANGED <<journal, issued, cache, work, faults>>

(* Otherwise it reads the key's description and then claims the operation. *)
Begin(w, o) ==
  /\ work[w].pc = "idle" /\ cache[w][o] = NoSig
  /\ work' = [work EXCEPT ![w] = [Idle(o) EXCEPT !.pc = "claiming"]]
  /\ UNCHANGED <<journal, issued, cache, answers, faults>>

(* The description is unavailable or names another key: nothing is claimed.*)
PreflightFails(w) ==
  /\ work[w].pc = "claiming" /\ Return(w)
  /\ UNCHANGED <<journal, issued, cache, answers, faults>>

(* A new claim is durable before any request is sent.                      *)
Claim(w) ==
  LET o == work[w].op IN
  /\ work[w].pc = "claiming" /\ journal[o].state = "ABSENT"
  /\ journal' = [journal EXCEPT ![o] = Record("IN_FLIGHT", NoSig)]
  /\ Goto(w, "signing")
  /\ UNCHANGED <<issued, cache, answers, faults>>

(* The record was signed before: its result is the answer.                 *)
ReplayDurable(w) ==
  LET o == work[w].op  n == journal[o].result IN
  /\ work[w].pc = "claiming" /\ journal[o].state = "SIGNED"
  /\ Remember(w, o, n) /\ Answer(o, n) /\ Return(w)
  /\ UNCHANGED <<journal, issued, faults>>

(* Any other record forbids a second request.                              *)
RefuseAmbiguous(w) ==
  /\ work[w].pc = "claiming"
  /\ journal[work[w].op].state \in {"IN_FLIGHT", "INDETERMINATE"}
  /\ Return(w)
  /\ UNCHANGED <<journal, issued, cache, answers, faults>>

(* The write of the claim fails before its file replaces the old one, or   *)
(* after it did (the directory cannot be synced).  No request is sent.     *)
ClaimFails(w) ==
  LET o == work[w].op IN
  /\ work[w].pc = "claiming" /\ journal[o].state = "ABSENT" /\ Fault
  /\ journal' \in {journal, [journal EXCEPT ![o] = Record("IN_FLIGHT", NoSig)]}
  /\ Return(w)
  /\ UNCHANGED <<issued, cache, answers>>

(* Mutant: the client of KMS repeats a request by itself.                  *)
SignRepeated(w) ==
  LET o == work[w].op IN
  /\ work[w].pc = "signing"
  /\ issued' = [issued EXCEPT ![o] = @ + 2]
  /\ work' = [work EXCEPT ![w] = [pc |-> "signed", op |-> o, sig |-> issued[o] + 2]]
  /\ UNCHANGED <<journal, cache, answers, faults>>

(* The Sign request and its answer.  The client never repeats it.          *)
Sign(w) ==
  LET o == work[w].op IN
  /\ work[w].pc = "signing"
  /\ issued' = [issued EXCEPT ![o] = @ + 1]
  /\ work' = [work EXCEPT ![w] = [pc |-> "signed", op |-> o, sig |-> issued[o] + 1]]
  /\ UNCHANGED <<journal, cache, answers, faults>>

(* An exception, a wrong key or algorithm, or no signature: the request    *)
(* may have been executed.                                                 *)
SignFails(w) ==
  LET o == work[w].op IN
  /\ work[w].pc = "signing"
  /\ issued' \in {issued, [issued EXCEPT ![o] = @ + 1]}
  /\ Goto(w, "failed")
  /\ UNCHANGED <<journal, cache, answers, faults>>

Indeterminate(w) ==
  LET o == work[w].op IN
  [journal EXCEPT ![o] = IF @.state = "SIGNED" THEN @ ELSE Record("INDETERMINATE", NoSig)]

Signed(w) ==
  LET o == work[w].op IN
  [journal EXCEPT ![o] = IF @.state = "IN_FLIGHT" THEN Record("SIGNED", work[w].sig) ELSE @]

MarkIndeterminate(w) ==
  /\ work[w].pc = "failed"
  /\ journal' = Indeterminate(w) /\ Return(w)
  /\ UNCHANGED <<issued, cache, answers, faults>>

(* The result is returned when the record holds it, and only then.         *)
MarkSigned(w) ==
  LET o == work[w].op  n == work[w].sig IN
  /\ work[w].pc = "signed"
  /\ journal' = Signed(w)
  /\ IF journal'[o] = Record("SIGNED", n)
     THEN Remember(w, o, n) /\ Answer(o, n)
     ELSE UNCHANGED <<cache, answers>>
  /\ Return(w)
  /\ UNCHANGED <<issued, faults>>

(* Mutant: a result is answered although its record was not written.       *)
MarkFailsAnswered(w) ==
  /\ work[w].pc \in {"failed", "signed"} /\ Fault
  /\ journal' \in {journal, IF work[w].pc = "failed" THEN Indeterminate(w) ELSE Signed(w)}
  /\ IF work[w].pc = "signed"
     THEN Answer(work[w].op, work[w].sig) ELSE UNCHANGED answers
  /\ Return(w)
  /\ UNCHANGED <<issued, cache>>

(* Either write fails, before or after the file was replaced: the caller   *)
(* gets the error and nothing is remembered.                               *)
MarkFails(w) ==
  /\ work[w].pc \in {"failed", "signed"} /\ Fault
  /\ journal' \in {journal, IF work[w].pc = "failed" THEN Indeterminate(w) ELSE Signed(w)}
  /\ Return(w)
  /\ UNCHANGED <<issued, cache, answers>>

(* reconcile looks the operation up and never signs.                       *)
Reconcile(w, o) ==
  LET n == journal[o].result IN
  /\ work[w].pc = "idle" /\ cache[w][o] = NoSig /\ journal[o].state = "SIGNED"
  /\ Remember(w, o, n) /\ Answer(o, n)
  /\ UNCHANGED <<journal, issued, work, faults>>

(* A process dies and is started again with nothing remembered.            *)
Crash(w) ==
  /\ Fault
  /\ cache' = [cache EXCEPT ![w] = [o \in Operation |-> NoSig]]
  /\ Return(w)
  /\ UNCHANGED <<journal, issued, answers>>

Step(w) == \/ PreflightFails(w) \/ Claim(w) \/ ReplayDurable(w)
           \/ RefuseAmbiguous(w) \/ ClaimFails(w) \/ Sign(w) \/ SignFails(w)
           \/ MarkIndeterminate(w) \/ MarkSigned(w) \/ MarkFails(w) \/ Crash(w)

KmsNext == \E w \in Worker :
          \/ Step(w)
          \/ \E o \in Operation : ReplayCached(w, o) \/ Begin(w, o) \/ Reconcile(w, o)

KmsSpec == KmsInit /\ [][KmsNext]_kmsVars

-----------------------------------------------------------------------------
States == {"ABSENT", "IN_FLIGHT", "SIGNED", "INDETERMINATE"}
KmsPCs == {"idle", "claiming", "signing", "failed", "signed"}

KmsTypeOK ==
  /\ journal \in [Operation -> [state : States, result : Nat]]
  /\ issued \in [Operation -> Nat]
  /\ cache \in [Worker -> [Operation -> Nat]]
  /\ work \in [Worker -> [pc : KmsPCs, op : Operation, sig : Nat]]
  /\ answers \in [Operation -> SUBSET Nat]
  /\ faults \in 0..MaxFaults

(* KMS executes at most one Sign request for an operation, whatever the    *)
(* workers, crashes, timeouts and failed writes (operation_journal: the    *)
(* journal prevents an ambiguous outcome from being retried).              *)
OneSignCall == \A o \in Operation : issued[o] <= 1

(* A signature that was returned, or that a process still remembers, is    *)
(* the one the journal holds: it survives every crash and every other      *)
(* process replays the same one (begin_sign, reconcile).                   *)
AnswersDurable ==
  \A o \in Operation :
    \A n \in answers[o] \union ({cache[w][o] : w \in Worker} \ {NoSig}) :
      journal[o] = Record("SIGNED", n)

(* The provider and its journal implement one-shot signing.                *)
StatusOf(s) == CASE s = "ABSENT" -> "FREE"
                 [] s = "IN_FLIGHT" -> "TAKEN"
                 [] s = "SIGNED" -> "SIGNED"
                 [] s = "INDETERMINATE" -> "ABANDONED"

Shot == INSTANCE OneShotSigning
          WITH status <- [o \in Operation |-> StatusOf(journal[o].state)],
               uses <- issued,
               given <- [o \in Operation |-> answers[o] # {}]

ImplementsOneShot == Shot!Spec

-----------------------------------------------------------------------------
(* Why these hold.  A record says how far its operation can have come.     *)
RecordsCoherent ==
  \A o \in Operation :
    /\ issued[o] <= 1
    /\ journal[o].state = "ABSENT" => issued[o] = 0
    /\ journal[o].state = "SIGNED" => issued[o] = 1 /\ journal[o].result = 1

(* A worker past its claim holds the record: it is IN_FLIGHT, no request   *)
(* was sent before the worker's own, and no other worker is there.         *)
Holding(w) == work[w].pc \in {"signing", "failed", "signed"}

HolderAlone ==
  \A w \in Worker : Holding(w) =>
    /\ journal[work[w].op].state = "IN_FLIGHT"
    /\ work[w].pc = "signing" => issued[work[w].op] = 0
    /\ work[w].pc = "signed" => issued[work[w].op] = 1 /\ work[w].sig = 1
    /\ \A v \in Worker \ {w} : Holding(v) => work[v].op # work[w].op

KmsIInv == KmsTypeOK /\ RecordsCoherent /\ HolderAlone /\ AnswersDurable
=============================================================================
