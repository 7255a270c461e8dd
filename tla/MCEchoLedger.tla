---------------------------- MODULE MCEchoLedger ----------------------------
(* Small instances of EchoLedger: model values, and the keys an operator   *)
(* may configure.                                                          *)
EXTENDS EchoLedger, TLC

CONSTANTS k1, k2, m1, m2

(* One key; a key, its successor, and a wrong file under a known id.       *)
OneRing == {<<k1, m1>>}
Rotation == {<<k1, m1>>, <<k2, m2>>, <<k1, m2>>}

Symmetry == Permutations(Thread) \union Permutations(Event) \union Permutations(Content)
=============================================================================
