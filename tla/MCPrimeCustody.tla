--------------------------- MODULE MCPrimeCustody ---------------------------
(* A small instance of PrimeCustody: authorizations for both primes, one   *)
(* that repeats a nonce, one for the other environment, and one whose      *)
(* signature does not verify.                                              *)
EXTENDS PrimeCustody, TLC

CONSTANTS p1, p2, i1, i2, n1, n2, ground, hadal, k1

Asserted(i, n, p, e) == [id |-> i, nonce |-> n, prime |-> p, env |-> e, key |-> k1]

MCGenuine == {Asserted(i1, n1, p1, ground), Asserted(i2, n2, p1, ground),
              Asserted(i2, n1, p2, hadal)}
MCAssertion == MCGenuine \union {Asserted(i1, n2, p2, hadal)}

(* The one key, trusted or revoked by the next start.                      *)
MCKeyRings == {<<{k1}, {}>>, <<{k1}, {k1}>>}

Symmetry == Permutations(Handler)
=============================================================================
