---------------------------- MODULE SingleRelease ----------------------------
(***************************************************************************)
(* What a governed signing workflow promises, with no journal, no          *)
(* controllers and no crashes: it releases at most one intent, one that a  *)
(* quorum of operators approved, and only the released intent is ever      *)
(* reported as authorized.                                                 *)
(***************************************************************************)
CONSTANTS Intents,   \* what can be released
          NoIntent,  \* nothing was released
          Approver,  \* operators
          Quorum     \* the sets of operators whose approval is enough

VARIABLES approved,  \* <<intent, operator>>: who approved what
          released,  \* the intent released, or NoIntent
          reported   \* the intents reported as authorized for signing

vars == <<approved, released, reported>>

Init == /\ approved = {}
        /\ released = NoIntent
        /\ reported = {}

Approve(i, a) == /\ approved' = approved \union {<<i, a>>}
                 /\ UNCHANGED <<released, reported>>

Release(i) == /\ released = NoIntent
              /\ \E Q \in Quorum : \A a \in Q : <<i, a>> \in approved
              /\ released' = i
              /\ UNCHANGED <<approved, reported>>

Report == /\ released # NoIntent
          /\ reported' = {released}
          /\ UNCHANGED <<approved, released>>

Next == \/ \E i \in Intents : Release(i) \/ \E a \in Approver : Approve(i, a)
        \/ Report

Spec == Init /\ [][Next]_vars
=============================================================================
