------------------------------ MODULE MCQcrypto ------------------------------
(***************************************************************************)
(* Small instances of the QCRYPTO machines that keep durable state: the    *)
(* KMS provider with its operation journal, governed signing, the wallet   *)
(* migration and the market cursors.                                       *)
(* They share no state, so a behaviour runs the one that part names.       *)
(***************************************************************************)
EXTENDS KmsSigning, GovernedSigning, MigrationBatches, MarketCursors, TLC

CONSTANTS a1, p1, p2, k1, k2, k3, f1, f2

MCRole == a1 :> "CREATOR"
MCProviders == <<p1, p2>>
MCFamily == p1 :> "LATTICE" @@ p2 :> "HASH_BASED"
MCDomain == p1 :> "d1" @@ p2 :> "d2"

(* k1 is above the value limit of a batch, the other two fit together.  A  *)
(* coin is listed twice: k3 is cut apart, and two of k2 share a batch.     *)
MCSats == k1 :> 3 @@ k2 :> 1 @@ k3 :> 1
MCListing == {<<k2, k3, k3>>, <<k1, k2, k2>>}
(* Batches that overlap, and one without coins.                            *)
MCGiven == {<< <<k3>>, <<k2, k3>> >>, << << >>, <<k1>> >>}

Message(s, n, p, t) == [stream |-> s, seq |-> n, payload |-> p, at |-> t]
(* One number sent with two payloads, one message that steps back in time. *)
MCFeed == {Message(f1, 1, "x", 1), Message(f1, 2, "x", 1), Message(f1, 2, "y", 2),
           Message(f1, 3, "x", 1), Message(f2, 1, "x", 1)}

Symmetry == Permutations(Controller) \union Permutations(Migrator)
            \union Permutations(Nonce) \union Permutations(Reader)

VARIABLE part

Init == /\ part \in {"kms", "governance", "migration", "market"}
        /\ KmsInit /\ GovInit /\ MigInit /\ MarketInit
        /\ part # "kms" => \A w \in Worker : work[w] = Idle(CHOOSE o \in Operation : TRUE)

Next == /\ UNCHANGED part
        /\ \/ part = "kms" /\ KmsNext /\ UNCHANGED <<govVars, migVars, marketVars>>
           \/ part = "governance" /\ GovNext /\ UNCHANGED <<kmsVars, migVars, marketVars>>
           \/ part = "migration" /\ MigNext /\ UNCHANGED <<kmsVars, govVars, marketVars>>
           \/ part = "market" /\ MarketNext /\ UNCHANGED <<kmsVars, govVars, migVars>>

Spec == Init /\ [][Next]_<<part, kmsVars, govVars, migVars, marketVars>>
=============================================================================
