--------------------------- MODULE OneShotSigning ---------------------------
(***************************************************************************)
(* What the QCRYPTO signing provider promises, with no files, processes or *)
(* crashes: an operation is taken once, the key is used for it at most     *)
(* once, and only a recorded signature is ever given out.                  *)
(***************************************************************************)
EXTENDS Naturals

CONSTANTS Operation

VARIABLES status,  \* operation -> "FREE", "TAKEN", "SIGNED" or "ABANDONED"
          uses,    \* operation -> how often the key was used for it
          given    \* operation -> a signature was given out

vars == <<status, uses, given>>

Init == /\ status = [o \in Operation |-> "FREE"]
        /\ uses = [o \in Operation |-> 0]
        /\ given = [o \in Operation |-> FALSE]

Take(o) == /\ status[o] = "FREE"
           /\ status' = [status EXCEPT ![o] = "TAKEN"]
           /\ UNCHANGED <<uses, given>>

UseKey(o) == /\ status[o] = "TAKEN" /\ uses[o] = 0
             /\ uses' = [uses EXCEPT ![o] = 1]
             /\ UNCHANGED <<status, given>>

(* A record is finished once; a signature needs a use of the key, and may  *)
(* leave with the record or at any later time.                             *)
Finish(o, s, g) ==
  /\ status[o] = "TAKEN" /\ s \in {"SIGNED", "ABANDONED"}
  /\ s = "SIGNED" => uses[o] = 1
  /\ g => s = "SIGNED"
  /\ status' = [status EXCEPT ![o] = s]
  /\ given' = [given EXCEPT ![o] = g]
  /\ UNCHANGED uses

Give(o) == /\ status[o] = "SIGNED"
           /\ given' = [given EXCEPT ![o] = TRUE]
           /\ UNCHANGED <<status, uses>>

Next == \E o \in Operation :
          \/ Take(o) \/ UseKey(o) \/ Give(o)
          \/ \E s \in {"SIGNED", "ABANDONED"}, g \in BOOLEAN : Finish(o, s, g)

Spec == Init /\ [][Next]_vars
=============================================================================
