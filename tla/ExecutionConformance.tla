------------------------ MODULE ExecutionConformance ------------------------
(***************************************************************************)
(* WS-SOE v0.1A and v0.1B: the durable executor of the demo counter and    *)
(* the conformance verdict drawn from what it leaves behind.               *)
(*                                                                         *)
(* A digest stands for what it digests: a decision, an observation and a   *)
(* receipt name an intent, an observation and a receipt themselves.  Time  *)
(* is a counter; the caller of execute reads it when the call starts and   *)
(* the transaction may commit later.                                       *)
(***************************************************************************)
EXTENDS Sequences, Integers

CONSTANTS Asked,         \* intents
          Issued,        \* intent -> the first instant of its validity
          Expires,       \* intent -> the first instant after it
          Demo,          \* those for the action, target and arguments of the demo
          Decision,      \* [intent, allow, at, trusted]: decisions in circulation
          ObsId,         \* observation ids callers choose
          Foreign,       \* observations from elsewhere, shaped like Observed's
          Runner,        \* threads and processes that call execute
          None,          \* nothing
          MaxTime,       \* bound on the clock
          MaxReceipts,   \* bound on the chain of receipts
          MaxAge         \* max_observation_age

ObservationRecord ==
  [id : ObsId, intent : Asked, inScope : BOOLEAN, counted : BOOLEAN,
   at : Int, before : Int, after : Int, delta : Int]
DecisionRecord == [intent : Asked, allow : BOOLEAN, at : Int, trusted : BOOLEAN]

ASSUME ConformanceAssumption ==
  /\ Demo \subseteq Asked
  /\ Issued \in [Asked -> Int] /\ Expires \in [Asked -> Int]
  /\ Decision \subseteq DecisionRecord
  /\ Foreign \subseteq [id : {None}, intent : Asked, inScope : BOOLEAN, counted : BOOLEAN,
                        at : Int, before : Int, after : Int, delta : Int]
  /\ None \notin ObsId /\ None \notin DecisionRecord /\ None \notin ObservationRecord
  /\ None \notin [decision : Decision, obs : ObservationRecord]
  /\ None \notin [intent : Asked, decision : Decision, now : Int]
  /\ MaxTime \in Nat /\ MaxReceipts \in Nat /\ MaxAge \in Nat \ {0}

VARIABLES
  clock,        \* the time
  demoCounter,  \* demo_state
  executions,   \* intent -> [decision, obs], its row, or None
  runs,         \* runner -> [intent, decision, now] checked, or None
  receipts      \* the chain of receipts [intent, obs, prev, at] made so far

conformVars == <<clock, demoCounter, executions, runs, receipts>>

ConformInit ==
  /\ clock = 0 /\ demoCounter = 41
  /\ executions = [i \in Asked |-> None]
  /\ runs = [r \in Runner |-> None]
  /\ receipts = << >>

Executed == {i \in Asked : executions[i] # None}

-----------------------------------------------------------------------------
(* The executor.                                                           *)

InWindow(i, t) == Issued[i] <= t /\ t < Expires[i]

(* Mutant: the instant of expiry still counts.                             *)
AuthorizedLate(i, d, now) ==
  /\ Issued[i] <= now /\ now <= Expires[i]
  /\ d.allow /\ Issued[i] <= d.at /\ d.at <= now
  /\ d.intent = i

(* validate_authorization                                                  *)
Authorized(i, d, now) ==
  /\ InWindow(i, now)
  /\ d.allow /\ Issued[i] <= d.at /\ d.at <= now
  /\ d.intent = i

(* What execute checks before it asks for the database: the signature, the *)
(* authorization and the demo's action, target and arguments.              *)
Check(r, i, d) ==
  /\ runs[r] = None
  /\ d.trusted /\ Authorized(i, d, clock) /\ i \in Demo
  /\ runs' = [runs EXCEPT ![r] = [intent |-> i, decision |-> d, now |-> clock]]
  /\ UNCHANGED <<clock, demoCounter, executions, receipts>>

Observed(id, i, now, before) ==
  [id |-> id, intent |-> i, inScope |-> TRUE, counted |-> TRUE,
   at |-> now, before |-> before, after |-> before + 1, delta |-> 1]

(* Mutant: a second execution replaces the row.                            *)
UnconsumedId(i, id) == \A j \in Executed : executions[j].obs.id # id

(* The table's keys: one row per intent, one per observation id.           *)
Unconsumed(i, id) == /\ executions[i] = None
                     /\ \A j \in Executed : executions[j].obs.id # id

(* BEGIN IMMEDIATE .. commit: the counter and the row change together.     *)
Commit(r, id) ==
  /\ runs[r] # None /\ Unconsumed(runs[r].intent, id)
  /\ demoCounter' = demoCounter + 1
  /\ executions' = [executions EXCEPT ![runs[r].intent] =
                      [decision |-> runs[r].decision,
                       obs |-> Observed(id, runs[r].intent, runs[r].now, demoCounter)]]
  /\ runs' = [runs EXCEPT ![r] = None]
  /\ UNCHANGED <<clock, receipts>>

(* A replay, a taken id, a lock not obtained, an exception or a crash: the *)
(* transaction is rolled back.                                             *)
RollBack(r) ==
  /\ runs[r] # None
  /\ runs' = [runs EXCEPT ![r] = None]
  /\ UNCHANGED <<clock, demoCounter, executions, receipts>>

Observation == {executions[i].obs : i \in Executed} \union Foreign

(* make_evidence_receipt over whatever observation the caller holds.       *)
EmitReceipt(i, o) ==
  /\ Len(receipts) < MaxReceipts
  /\ receipts' = Append(receipts,
       [intent |-> i, obs |-> o, at |-> clock,
        prev |-> IF receipts = << >> THEN None ELSE receipts[Len(receipts)]])
  /\ UNCHANGED <<clock, demoCounter, executions, runs>>

Tick == /\ clock < MaxTime /\ clock' = clock + 1
        /\ UNCHANGED <<demoCounter, executions, runs, receipts>>

ConformNext ==
  \/ Tick
  \/ \E r \in Runner : \/ \E i \in Asked, d \in Decision : Check(r, i, d)
                       \/ \E id \in ObsId : Commit(r, id)
                       \/ RollBack(r)
  \/ \E i \in Asked, o \in Observation : EmitReceipt(i, o)

ConformSpec == ConformInit /\ [][ConformNext]_conformVars

-----------------------------------------------------------------------------
(* The verdict on one intent, from a decision, an observation (or None)    *)
(* and a chain of receipts, at one time.                                   *)

(* verify_evidence_chain                                                   *)
Chained(rs) ==
  \A n \in DOMAIN rs : rs[n].prev = IF n = 1 THEN None ELSE rs[n - 1]

(* verify_evidence_chronology                                              *)
Chronological(rs, o, now) ==
  /\ \A n \in 2..Len(rs) : rs[n - 1].at <= rs[n].at
  /\ o.at <= rs[Len(rs)].at /\ rs[Len(rs)].at <= now

Bound(i, o, rs, now) ==
  /\ Chained(rs)
  /\ \A n \in DOMAIN rs : rs[n].intent = i
  /\ rs[Len(rs)].obs = o
  /\ Chronological(rs, o, now)

OutOfBounds(i, d, o) ==
  \/ ~d.allow
  \/ d.at < Issued[i]
  \/ d.at > o.at
  \/ ~InWindow(i, o.at)
  \/ ~o.inScope

Incremented(o) == o.after = o.before + 1 /\ o.delta = 1

(* Mutant: freshness is judged first.                                      *)
JudgedFresh(i, d, o, now) ==
  IF now - o.at > MaxAge THEN "STALE"
  ELSE IF OutOfBounds(i, d, o) THEN "VIOLATION"
  ELSE IF i \notin Demo \/ ~o.counted THEN "UNKNOWN"
  ELSE IF ~Incremented(o) THEN "DEVIATION"
  ELSE "MATCH"

(* What the evidence shows once none of it is missing or contradictory.    *)
Judged(i, d, o, now) ==
  IF OutOfBounds(i, d, o) THEN "VIOLATION"
  ELSE IF i \notin Demo \/ ~o.counted THEN "UNKNOWN"
  ELSE IF ~Incremented(o) THEN "DEVIATION"
  ELSE IF now - o.at > MaxAge THEN "STALE"
  ELSE "MATCH"

(* assess_conformance                                                      *)
Verdict(i, d, o, rs, now) ==
  IF d = None THEN "UNKNOWN"
  ELSE IF d.intent # i THEN "CONFLICT"
  ELSE IF o = None THEN "UNKNOWN"
  ELSE IF o.intent # i \/ o.at > now THEN "CONFLICT"
  ELSE IF rs = << >> THEN "UNKNOWN"
  ELSE IF ~Bound(i, o, rs, now) THEN "CONFLICT"
  ELSE Judged(i, d, o, now)
-----------------------------------------------------------------------------
(* What the executor did is never judged against it: with a receipt over   *)
(* its own observation, its trace is a MATCH as long as it is fresh and    *)
(* STALE after that.  The two functions draw the window, the decision's    *)
(* time and the increment separately, and a commit may come after a wait   *)
(* (DurableDemoCounterExecutor.execute, assess_conformance).               *)
HonestTraceConforms ==
  \A i \in Executed : \A n \in DOMAIN receipts : \A now \in clock..MaxTime + MaxAge + 1 :
    LET x == executions[i] IN
    /\ receipts[n].obs = x.obs
    /\ \A k \in 1..n : receipts[k].intent = i
    => Verdict(i, x.decision, x.obs, SubSeq(receipts, 1, n), now)
         = IF now - x.obs.at > MaxAge THEN "STALE" ELSE "MATCH"

(* Each execution took the counter one step, none took another's step, and *)
(* no two share an observation id, however many runners checked the same   *)
(* intent at once (BEGIN IMMEDIATE, the keys of executions).               *)
OneExecutionEach ==
  /\ {executions[i].obs.before : i \in Executed} = 41..demoCounter - 1
  /\ \A i, j \in Executed :
       \/ executions[i].obs.before = executions[j].obs.before
       \/ executions[i].obs.id = executions[j].obs.id
       => i = j

(* As time goes by a MATCH becomes STALE and no other verdict over         *)
(* evidence without a conflict changes: freshness masks nothing stronger   *)
(* (the comment above STALE in assess_conformance).                        *)
FreshnessMasksNothing ==
  \A i \in Asked, d \in Decision \union {None}, o \in Observation \union {None} :
    \A now \in 0..MaxTime + MaxAge :
      LET first == Verdict(i, d, o, receipts, now)
          next == Verdict(i, d, o, receipts, now + 1)
      IN \/ next = first
         \/ first = "MATCH" /\ next = "STALE"
         \/ first = "CONFLICT"
=============================================================================
