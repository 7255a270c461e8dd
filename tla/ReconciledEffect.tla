--------------------------- MODULE ReconciledEffect ---------------------------
(***************************************************************************)
(* What WS-SOE v0.1C promises of an external side effect, with no ledgers, *)
(* callers or lost answers: the effect of an intent happens at most once,  *)
(* only after somebody committed to it, and an outcome is recorded only of *)
(* an effect that happened.                                                *)
(***************************************************************************)
CONSTANTS Intent

VARIABLES committed,  \* intents somebody durably set out to carry out
          happened,   \* intents whose effect is there
          recorded    \* intents whose outcome is recorded

vars == <<committed, happened, recorded>>

Init == committed = {} /\ happened = {} /\ recorded = {}

Commit(i) == /\ committed' = committed \union {i}
             /\ UNCHANGED <<happened, recorded>>

Happen(i) == /\ i \in committed \ happened
             /\ happened' = happened \union {i}
             /\ UNCHANGED <<committed, recorded>>

Record(i) == /\ i \in happened \ recorded
             /\ recorded' = recorded \union {i}
             /\ UNCHANGED <<committed, happened>>

Next == \E i \in Intent : Commit(i) \/ Happen(i) \/ Record(i)

Spec == Init /\ [][Next]_vars
=============================================================================
