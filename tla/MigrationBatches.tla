-------------------------- MODULE MigrationBatches --------------------------
(***************************************************************************)
(* Wallet migration: batches of coins, reserved, swept and completed.      *)
(*                                                                         *)
(* build_migration_batches cuts the ranked coins into batches; the state   *)
(* store keeps one row per batch under a file lock and a generation; the   *)
(* sweep builder and the signing gate hold a transaction to its binding.   *)
(* A binding stands for its digest, a coin for its outpoint, a row for its *)
(* batch_id (initialize refuses a repeated one), and a lapsed binding is   *)
(* one whose expires_at has passed.  Nothing here looks for a coin that is *)
(* listed twice but the binding, which refuses to hold it twice itself.    *)
(***************************************************************************)
EXTENDS Sequences, Integers

CONSTANTS Coin,        \* outpoints
          Sats,        \* the value of each
          Listing,     \* rankings of coins callers hold, highest priority first
          Given,       \* batches that callers initialize the store with instead
          MaxInputs,   \* max_inputs_per_batch
          MaxValue,    \* max_value_sat_per_batch
          Migrator,    \* callers of the state store
          Nonce,       \* reservation nonces they choose
          NoBinding,   \* a row without a reservation
          MaxLostReplies  \* bound on callers that die between write and answer

ASSUME MigrationAssumption ==
  /\ Sats \in [Coin -> Nat]
  /\ Listing \subseteq Seq(Coin) /\ Given \subseteq Seq(Seq(Coin))
  /\ MaxInputs \in Nat \ {0} /\ MaxValue \in Nat \ {0} /\ MaxLostReplies \in Nat

VARIABLES
  generation,   \* generation of the state file, 0 before it exists
  rows,         \* its batches: [coins, status, binding]
  known,        \* migrator -> the generation it last saw
  held,         \* migrator -> bindings it can present
  lapsed,       \* bindings that have expired
  sweeps,       \* [binding, coins]: transactions the signing gate let through
  lostReplies   \* callers that died after their write

migVars == <<generation, rows, known, held, lapsed, sweeps, lostReplies>>

MigInit ==
  /\ generation = 0 /\ rows = << >>
  /\ known = [m \in Migrator |-> 0] /\ held = [m \in Migrator |-> {}]
  /\ lapsed = {} /\ sweeps = {} /\ lostReplies = 0

-----------------------------------------------------------------------------
(* Building the batches.                                                   *)

ValueOf(batch) ==
  LET sum[n \in 0..Len(batch)] == IF n = 0 THEN 0 ELSE sum[n - 1] + Sats[batch[n]]
  IN sum[Len(batch)]

(* A batch takes the next coin while both limits allow it; a coin above    *)
(* the value limit gets a batch of its own.                                *)
Fits(batch, coin) ==
  Len(batch) < MaxInputs /\ ValueOf(batch) + Sats[coin] <= MaxValue

AddCoin(batches, coin) ==
  IF batches # << >> /\ Fits(batches[Len(batches)], coin)
  THEN [batches EXCEPT ![Len(batches)] = Append(@, coin)]
  ELSE Append(batches, <<coin>>)

BuildBatches(ranked) ==
  LET cut[n \in 0..Len(ranked)] ==
        IF n = 0 THEN << >> ELSE AddCoin(cut[n - 1], ranked[n])
  IN cut[Len(ranked)]

CoinsOf(batch) == {batch[k] : k \in DOMAIN batch}

-----------------------------------------------------------------------------
(* The state store: every call runs under the lock and replaces the file   *)
(* in one step; its caller may die before it has the answer.               *)

Answered(m, gen, bindings) ==
  \/ /\ known' = [known EXCEPT ![m] = gen]
     /\ held' = [held EXCEPT ![m] = @ \union bindings]
     /\ UNCHANGED lostReplies
  \/ /\ lostReplies < MaxLostReplies /\ lostReplies' = lostReplies + 1
     /\ UNCHANGED <<known, held>>

Offers == {BuildBatches(ranked) : ranked \in Listing} \union Given

(* Any batches whose identifiers differ: their coins are not compared.     *)
Initialize(m) ==
  /\ generation = 0 /\ rows = << >>
  /\ \E batches \in Offers :
       rows' = [i \in DOMAIN batches |->
                  [coins |-> batches[i], status |-> "PENDING", binding |-> NoBinding]]
  /\ generation' = 1
  /\ Answered(m, 1, {})
  /\ UNCHANGED <<lapsed, sweeps>>

Reservations == {rows[i].binding : i \in DOMAIN rows} \ {NoBinding}

(* The file names every reservation in full, so that a snapshot hands a    *)
(* binding to a caller that lost the answer, and to any other.             *)
Snapshot(m) ==
  /\ known' = [known EXCEPT ![m] = generation]
  /\ held' = [held EXCEPT ![m] = @ \union Reservations]
  /\ UNCHANGED <<generation, rows, lapsed, sweeps, lostReplies>>

(* Mutant: whoever knows the generation may reserve a batch again.         *)
FreeAgain(m, i) == known[m] = generation /\ rows[i].status # "COMPLETED"

(* reserve's checks: the generation the caller saw, and a PENDING row.     *)
Free(m, i) == known[m] = generation /\ rows[i].status = "PENDING"

(* A binding holds some coins, none of them twice, or there is none: the   *)
(* batch is never reserved.                                                *)
Reservable(batch) ==
  batch # << >> /\ \A j, k \in DOMAIN batch : batch[j] = batch[k] => j = k

Written(i, status, binding) ==
  [rows EXCEPT ![i] = [coins |-> rows[i].coins, status |-> status, binding |-> binding]]

Reserve(m, i, nonce) ==
  /\ i \in DOMAIN rows /\ Free(m, i) /\ Reservable(rows[i].coins)
  /\ LET binding == [batch |-> i, coins |-> CoinsOf(rows[i].coins), nonce |-> nonce,
                     generation |-> generation + 1]
     IN /\ rows' = Written(i, "RESERVED", binding)
        /\ Answered(m, generation + 1, {binding})
  /\ generation' = generation + 1
  /\ UNCHANGED <<lapsed, sweeps>>

Complete(m, i, binding) ==
  /\ known[m] = generation
  /\ i \in DOMAIN rows /\ rows[i].status = "RESERVED"
  /\ binding \in held[m] /\ rows[i].binding = binding
  /\ rows' = Written(i, "COMPLETED", binding)
  /\ generation' = generation + 1
  /\ Answered(m, generation + 1, {})
  /\ UNCHANGED <<lapsed, sweeps>>

-----------------------------------------------------------------------------
(* What is signed under a binding.                                         *)

(* The transaction spends the coins of the binding, all and only those.    *)
ExactlyReserved(binding, coins) == coins = binding.coins

(* build_sweep_migration_psbt, and validate_prepared_transaction in the    *)
(* signing gate, which also refuses a binding that has expired.            *)
Sweep(m, binding, coins) ==
  /\ binding \in held[m] /\ binding \notin lapsed
  /\ ExactlyReserved(binding, coins)
  /\ sweeps' = sweeps \union {[binding |-> binding, coins |-> coins]}
  /\ UNCHANGED <<generation, rows, known, held, lapsed, lostReplies>>

Lapse(binding) ==
  /\ lapsed' = lapsed \union {binding}
  /\ UNCHANGED <<generation, rows, known, held, sweeps, lostReplies>>

MigNext ==
  \/ \E m \in Migrator :
       \/ Initialize(m) \/ Snapshot(m)
       \/ \E i \in DOMAIN rows, nonce \in Nonce : Reserve(m, i, nonce)
       \/ \E b \in held[m] : Complete(m, b.batch, b)
       \/ \E b \in held[m] : \E coins \in SUBSET Coin : Sweep(m, b, coins)
  \/ \E b \in Reservations : Lapse(b)

MigSpec == MigInit /\ [][MigNext]_migVars

-----------------------------------------------------------------------------
(* Whatever batches the store was given and however callers race, come     *)
(* back with stale generations or expired bindings, or lose an answer, a   *)
(* batch is signed away under one binding, the one its row carries, and    *)
(* with the coins it was stored with.  So a coin is signed away under two  *)
(* bindings only when the store was given it in two batches; when it was,  *)
(* the code does so.                                                       *)
BatchSweptOnce ==
  /\ \A s \in sweeps :
       LET i == s.binding.batch
       IN i \in DOMAIN rows /\ rows[i].binding = s.binding /\ s.coins = CoinsOf(rows[i].coins)
  /\ \A s, t \in sweeps : \A c \in s.coins \intersect t.coins :
       \/ s.binding = t.binding
       \/ \E i, j \in DOMAIN rows :
            i # j /\ c \in CoinsOf(rows[i].coins) /\ c \in CoinsOf(rows[j].coins)

Binding == [batch : Nat, coins : SUBSET Coin, nonce : Nonce, generation : Nat]

BatchRow == [coins : Seq(Coin), status : {"PENDING", "RESERVED", "COMPLETED"},
             binding : Binding \union {NoBinding}]

MigTypeOK ==
  /\ generation \in Nat
  /\ rows \in Seq(BatchRow)
  /\ known \in [Migrator -> Nat] /\ held \in [Migrator -> SUBSET Binding]
  /\ lapsed \subseteq Binding
  /\ sweeps \subseteq [binding : Binding, coins : SUBSET Coin]
  /\ lostReplies \in 0..MaxLostReplies

(* A binding somebody can present is for good the one in its row.          *)
Settled(b) ==
  /\ b.batch \in DOMAIN rows /\ rows[b.batch].binding = b
  /\ rows[b.batch].status # "PENDING" /\ b.coins = CoinsOf(rows[b.batch].coins)

(* The inductive invariant: every binding there is, in a row, with a       *)
(* caller or under a transaction, is settled.                              *)
MigIInv ==
  /\ MigTypeOK
  /\ \A i \in DOMAIN rows : rows[i].binding # NoBinding =>
       rows[i].binding.batch = i /\ Settled(rows[i].binding)
  /\ \A m \in Migrator : \A b \in held[m] : Settled(b)
  /\ \A s \in sweeps : Settled(s.binding) /\ s.coins = s.binding.coins
=============================================================================
