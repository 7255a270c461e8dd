------------------------- MODULE MCSentinelIssuance -------------------------
(* Small instances of SentinelIssuance: model values, and the keys an      *)
(* operator may configure.                                                 *)
EXTENDS SentinelIssuance, TLC

CONSTANTS k1, k2, m1, m2

(* One key; a key and its successor, or a wrong file under a known id.     *)
OneRing == {<<k1, m1>>}
Rotation == {<<k1, m1>>, <<k2, m2>>, <<k1, m2>>}

Symmetry == Permutations(Thread) \union Permutations(Identity)
=============================================================================
