-------------------------------- MODULE MCSoe --------------------------------
(***************************************************************************)
(* Small instances of the two WS-SOE machines: the coordinator of v0.1C,   *)
(* and the executor of v0.1B with the verdicts of v0.1A.  They share no    *)
(* state, so a behaviour runs the one that part names; fairness is asked   *)
(* of the coordinator only.                                                *)
(***************************************************************************)
EXTENDS EffectReconciliation, ExecutionConformance, TLC

CONSTANTS q1, q2, q3

MCIssued == q1 :> 0 @@ q2 :> 1 @@ q3 :> 0
MCExpires == [i \in {q1, q2, q3} |-> 2]

Decided(i, allow, at, trusted) ==
  [intent |-> i, allow |-> allow, at |-> at, trusted |-> trusted]
MCDecision == {Decided(q1, TRUE, 0, TRUE), Decided(q3, TRUE, 0, TRUE),
               Decided(q2, TRUE, 1, TRUE), Decided(q2, FALSE, 1, TRUE),
               Decided(q2, TRUE, 2, TRUE)}

Reported(i, counted, at, after) ==
  [id |-> None, intent |-> i, inScope |-> TRUE, counted |-> counted, at |-> at,
   before |-> 41, after |-> after, delta |-> 1]
MCForeign == {Reported(q2, TRUE, 1, 43)}

VARIABLE part

Init == part \in {"coordinator", "executor"} /\ SoeInit /\ ConformInit

Next == /\ UNCHANGED part
        /\ \/ part = "coordinator" /\ SoeNext /\ UNCHANGED conformVars
           \/ part = "executor" /\ ConformNext /\ UNCHANGED soeVars

Spec == Init /\ [][Next]_<<part, soeVars, conformVars>> /\ (part = "coordinator" => SoeFairness)
=============================================================================
