------------------------- MODULE QuarantineRelease --------------------------
(***************************************************************************)
(* What PRIME custody promises: a machine is free, held, or cleared by one *)
(* voucher; it is equipped only while free, a held one only by the release *)
(* of its voucher; and a voucher clears a machine once, whatever becomes   *)
(* of it afterwards.                                                       *)
(***************************************************************************)
CONSTANTS Machine, Voucher, NoVoucher

VARIABLES
  phase,    \* "free", "held" or "cleared"
  voucher,  \* the voucher a cleared machine is cleared by
  equipped, \* does the machine carry a mission pack?
  issued    \* vouchers that have cleared some machine

vars == <<phase, voucher, equipped, issued>>

Init == /\ phase = [m \in Machine |-> "free"]
        /\ voucher = [m \in Machine |-> NoVoucher]
        /\ equipped = [m \in Machine |-> FALSE]
        /\ issued = {}

(* A machine comes back from service and loses pack and voucher.           *)
Return(m, ph) ==
  /\ ph \in {"free", "held"}
  /\ phase' = [phase EXCEPT ![m] = ph]
  /\ voucher' = [voucher EXCEPT ![m] = NoVoucher]
  /\ equipped' = [equipped EXCEPT ![m] = FALSE]
  /\ UNCHANGED issued

Clear(m, v) ==
  /\ phase[m] \in {"held", "cleared"} /\ v \notin issued
  /\ phase' = [phase EXCEPT ![m] = "cleared"]
  /\ voucher' = [voucher EXCEPT ![m] = v]
  /\ issued' = issued \union {v}
  /\ UNCHANGED equipped

Withdraw(m) ==
  /\ phase[m] = "cleared"
  /\ phase' = [phase EXCEPT ![m] = "held"]
  /\ voucher' = [voucher EXCEPT ![m] = NoVoucher]
  /\ UNCHANGED <<equipped, issued>>

Equip(m) ==
  /\ phase[m] \in {"free", "cleared"}
  /\ phase' = [phase EXCEPT ![m] = "free"]
  /\ voucher' = [voucher EXCEPT ![m] = NoVoucher]
  /\ equipped' = [equipped EXCEPT ![m] = TRUE]
  /\ UNCHANGED issued

Next == \E m \in Machine :
          \/ \E ph \in {"free", "held"} : Return(m, ph)
          \/ \E v \in Voucher : Clear(m, v)
          \/ Withdraw(m) \/ Equip(m)

Spec == Init /\ [][Next]_vars
=============================================================================
