------------------------ MODULE IdempotentIssuance --------------------------
(***************************************************************************)
(* What the PRIME SENTINEL signer promises its callers, with no ledger,    *)
(* threads or crashes: a request is granted one assertion for good, and    *)
(* every answer to it is that assertion.                                   *)
(***************************************************************************)
CONSTANTS Request, Grant, NoGrant

VARIABLES granted, answered

vars == <<granted, answered>>

Init == granted = [r \in Request |-> NoGrant] /\ answered = {}

Give(r, g) ==
  /\ granted[r] = NoGrant /\ g # NoGrant
  /\ granted' = [granted EXCEPT ![r] = g]

(* An answer may leave together with the grant or at any later time.       *)
Answer(r) ==
  /\ granted'[r] # NoGrant
  /\ answered' = answered \union {<<r, granted'[r]>>}

Next == \E r \in Request :
          \/ (\E g \in Grant : Give(r, g)) /\ (Answer(r) \/ UNCHANGED answered)
          \/ UNCHANGED granted /\ Answer(r)

Spec == Init /\ [][Next]_vars
=============================================================================
