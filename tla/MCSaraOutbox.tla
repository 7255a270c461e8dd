---------------------------- MODULE MCSaraOutbox ----------------------------
(* Small instances of SaraOutbox: model values for events and handlers.    *)
EXTENDS SaraOutbox, TLC

Symmetry == Permutations(Event) \union Permutations(Handler)
=============================================================================
