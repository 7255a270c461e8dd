---------------------------- MODULE EventDelivery ----------------------------
(***************************************************************************)
(* What the SARA event outbox promises, with no files, locks or crashes:   *)
(* an event that is wanted is sent to the audit log at least once, and is  *)
(* settled (forgotten by the sender) only after it has been sent.          *)
(***************************************************************************)
CONSTANT Event

VARIABLES wanted, sent, settled

vars == <<wanted, sent, settled>>

Init == wanted = {} /\ sent = {} /\ settled = {}

Want(e) ==
  /\ e \notin wanted
  /\ wanted' = wanted \union {e}
  /\ UNCHANGED <<sent, settled>>

Send(e) ==
  /\ e \in wanted \ settled
  /\ sent' = sent \union {e}
  /\ UNCHANGED <<wanted, settled>>

Settle(e) ==
  /\ e \in sent \ settled
  /\ settled' = settled \union {e}
  /\ UNCHANGED <<wanted, sent>>

Next == \E e \in Event : Want(e) \/ Send(e) \/ Settle(e)

Spec == Init /\ [][Next]_vars
=============================================================================
