------------------------ MODULE AppendOnlyProvenance ------------------------
(***************************************************************************)
(* What the ECHO SENTINEL LINK promises, with no database, threads or      *)
(* crashes: a fact is accepted once and never replaced, and a seal is a    *)
(* snapshot of every fact accepted when it is made.                        *)
(***************************************************************************)
EXTENDS Sequences

CONSTANTS Event, Content, NoContent

VARIABLES facts, seals

vars == <<facts, seals>>

Init == facts = [e \in Event |-> NoContent] /\ seals = <<>>

Accept(e, c) ==
  /\ facts[e] = NoContent /\ c # NoContent
  /\ facts' = [facts EXCEPT ![e] = c]
  /\ UNCHANGED seals

Seal ==
  /\ \E e \in Event : facts[e] # NoContent
  /\ seals' = Append(seals, facts)
  /\ UNCHANGED facts

Next == Seal \/ \E e \in Event, c \in Content : Accept(e, c)

Spec == Init /\ [][Next]_vars
=============================================================================
