------------------------ MODULE EffectReconciliation ------------------------
(***************************************************************************)
(* WS-SOE v0.1C: the coordinator that carries an intent across to an       *)
(* external service with a database of its own (execute, reconcile,        *)
(* redispatch_after_no_effect).  Several callers share both databases.     *)
(* Every SQLite transaction is one step; between two of them a call may    *)
(* lose its acknowledgement, raise, or die with its process.               *)
(*                                                                         *)
(* The idempotency key and the request hash are functions of the intent,   *)
(* so an intent stands for its request.                                    *)
(***************************************************************************)
EXTENDS Sequences, Integers, FiniteSets

CONSTANTS Intent,         \* authorized intents
          Caller,         \* threads and processes that use the coordinator
          NoIntent,       \* a caller between two calls
          MaxExceptions   \* bound on calls that end in an exception

ASSUME SoeAssumption ==
  /\ IsFiniteSet(Intent) /\ IsFiniteSet(Caller)
  /\ NoIntent \notin Intent /\ MaxExceptions \in Nat

VARIABLES
  operation,  \* intent -> [state, sealed]: its row in the local ledger
  trail,      \* intent -> the states its transition history records
  counter,    \* external: the counter of the service
  effects,    \* external: intent -> the counter after its effect, or NoEffect
  sent,       \* intent -> requests the service answered (history)
  call,       \* caller -> [pc, intent, read, effect]
  exceptions  \* calls that ended in an exception so far

soeVars == <<operation, trail, counter, effects, sent, call, exceptions>>
local == <<operation, trail>>
external == <<counter, effects, sent>>

InitialCounter == 41
NoEffect == 0
Waiting == [pc |-> "waiting", intent |-> NoIntent, read |-> "ABSENT", effect |-> NoEffect]

SoeInit ==
  /\ operation = [i \in Intent |-> [state |-> "ABSENT", sealed |-> NoEffect]]
  /\ trail = [i \in Intent |-> << >>]
  /\ counter = InitialCounter
  /\ effects = [i \in Intent |-> NoEffect]
  /\ sent = [i \in Intent |-> 0]
  /\ call = [c \in Caller |-> Waiting]
  /\ exceptions = 0

State(i) == operation[i].state
Enter(c, w) == call' = [call EXCEPT ![c] = w]
Leave(c) == Enter(c, Waiting)
To(c, p) == Enter(c, [call[c] EXCEPT !.pc = p])

(* _transition: the row and its history change together.                   *)
Move(i, s) == /\ operation' = [operation EXCEPT ![i].state = s]
              /\ trail' = [trail EXCEPT ![i] = Append(@, s)]

-----------------------------------------------------------------------------
(* execute: a new intent is prepared, and an intent with a row is refused  *)
(* (ReplayError); then its dispatch is recorded.                           *)
Begin(c, i, p) ==
  Enter(c, [pc |-> p, intent |-> i, read |-> State(i), effect |-> NoEffect])

Prepare(c, i) ==
  /\ call[c].pc = "waiting" /\ State(i) = "ABSENT"
  /\ Move(i, "PREPARED") /\ Begin(c, i, "prepared")
  /\ UNCHANGED <<external, exceptions>>

(* Mutant: the request is sent before its dispatch is recorded.            *)
DispatchUnrecorded(c) ==
  /\ call[c].pc = "prepared" /\ State(call[c].intent) = "PREPARED" /\ To(c, "calling")
  /\ UNCHANGED <<local, external, exceptions>>

Dispatch(c) ==
  /\ call[c].pc = "prepared" /\ State(call[c].intent) = "PREPARED"
  /\ Move(call[c].intent, "DISPATCHING") /\ To(c, "calling")
  /\ UNCHANGED <<external, exceptions>>

(* Mutant: an uncertain intent is sent again.                              *)
RedispatchUncertain(c, i) ==
  /\ call[c].pc = "waiting" /\ State(i) \in {"NO_EFFECT_CONFIRMED", "UNCERTAIN"}
  /\ Move(i, "DISPATCHING") /\ Begin(c, i, "calling")
  /\ UNCHANGED <<external, exceptions>>

(* redispatch_after_no_effect: its check and its transition expect the     *)
(* same state.                                                             *)
Redispatch(c, i) ==
  /\ call[c].pc = "waiting" /\ State(i) = "NO_EFFECT_CONFIRMED"
  /\ Move(i, "DISPATCHING") /\ Begin(c, i, "calling")
  /\ UNCHANGED <<external, exceptions>>

(* Mutant: a service that forgets its idempotency key.                     *)
ApplyAgain(i) == /\ sent' = [sent EXCEPT ![i] = @ + 1]
                 /\ counter' = counter + 1
                 /\ effects' = [effects EXCEPT ![i] = counter + 1]

(* The service's transaction: the first request of an intent increments    *)
(* the counter, a later one gets the first effect again.                   *)
Apply(i) ==
  /\ sent' = [sent EXCEPT ![i] = @ + 1]
  /\ IF effects[i] = NoEffect
     THEN counter' = counter + 1 /\ effects' = [effects EXCEPT ![i] = counter + 1]
     ELSE UNCHANGED <<counter, effects>>

Acknowledged(c) ==
  LET i == call[c].intent IN
  /\ call[c].pc = "calling" /\ Apply(i)
  /\ Enter(c, [call[c] EXCEPT !.pc = "sealing", !.read = "DISPATCHING", !.effect = effects'[i]])
  /\ UNCHANGED <<local, exceptions>>

AcknowledgementLost(c) ==
  /\ call[c].pc = "calling" /\ Apply(call[c].intent) /\ To(c, "uncertain")
  /\ UNCHANGED <<local, exceptions>>

(* A caller without an answer records that it does not know, if the row is *)
(* still DISPATCHING.                                                      *)
Uncertain(c) ==
  /\ call[c].pc = "uncertain"
  /\ IF State(call[c].intent) = "DISPATCHING"
     THEN Move(call[c].intent, "UNCERTAIN")
     ELSE UNCHANGED local
  /\ Leave(c)
  /\ UNCHANGED <<external, exceptions>>

-----------------------------------------------------------------------------
(* Mutant: only what was recorded as uncertain is reconciled.              *)
ReconcileUncertain(c, i) ==
  /\ call[c].pc = "waiting" /\ State(i) = "UNCERTAIN"
  /\ Begin(c, i, "looking")
  /\ UNCHANGED <<local, external, exceptions>>

(* reconcile: it reads the row, asks the service by key in a transaction   *)
(* of the service, and acts on the row if its state is still the one read. *)
Reconcile(c, i) ==
  /\ call[c].pc = "waiting" /\ State(i) \in {"DISPATCHING", "UNCERTAIN"}
  /\ Begin(c, i, "looking")
  /\ UNCHANGED <<local, external, exceptions>>

Lookup(c) ==
  LET e == effects[call[c].intent] IN
  /\ call[c].pc = "looking"
  /\ Enter(c, [call[c] EXCEPT !.pc = IF e = NoEffect THEN "absent" ELSE "sealing", !.effect = e])
  /\ UNCHANGED <<local, external, exceptions>>

(* Mutant: the answer is recorded whatever happened to the row meanwhile.  *)
ConfirmUnchecked(c) ==
  /\ call[c].pc = "absent" /\ State(call[c].intent) # "SEALED"
  /\ Move(call[c].intent, "NO_EFFECT_CONFIRMED") /\ Leave(c)
  /\ UNCHANGED <<external, exceptions>>

ConfirmNoEffect(c) ==
  /\ call[c].pc = "absent"
  /\ IF State(call[c].intent) = call[c].read
     THEN Move(call[c].intent, "NO_EFFECT_CONFIRMED")
     ELSE UNCHANGED local
  /\ Leave(c)
  /\ UNCHANGED <<external, exceptions>>

(* Mutant: a row that somebody else sealed is sealed again.                *)
SealUnchecked(c) ==
  LET i == call[c].intent IN
  /\ call[c].pc = "sealing"
  /\ operation' = [operation EXCEPT ![i] = [state |-> "SEALED", sealed |-> call[c].effect]]
  /\ trail' = [trail EXCEPT ![i] = @ \o <<"EFFECT_OBSERVED", "RECONCILED", "SEALED">>]
  /\ Leave(c)
  /\ UNCHANGED <<external, exceptions>>

(* _seal_effect: three transitions and the observation, in one transaction.*)
Seal(c) ==
  LET i == call[c].intent IN
  /\ call[c].pc = "sealing"
  /\ IF State(i) = call[c].read
     THEN /\ operation' = [operation EXCEPT ![i] = [state |-> "SEALED", sealed |-> call[c].effect]]
          /\ trail' = [trail EXCEPT ![i] = @ \o <<"EFFECT_OBSERVED", "RECONCILED", "SEALED">>]
     ELSE UNCHANGED local
  /\ Leave(c)
  /\ UNCHANGED <<external, exceptions>>

(* A transaction of either database fails and is rolled back, or the       *)
(* process dies between two of them.                                       *)
Raise(c) ==
  /\ call[c].pc # "waiting"
  /\ exceptions < MaxExceptions /\ exceptions' = exceptions + 1
  /\ Leave(c)
  /\ UNCHANGED <<local, external>>

CallStep(c) ==
  \/ Dispatch(c) \/ Acknowledged(c) \/ AcknowledgementLost(c) \/ Uncertain(c)
  \/ Lookup(c) \/ ConfirmNoEffect(c) \/ Seal(c)

SoeNext == \E c \in Caller :
             \/ CallStep(c) \/ Raise(c)
             \/ \E i \in Intent : Prepare(c, i) \/ Reconcile(c, i) \/ Redispatch(c, i)

SoeSpec == SoeInit /\ [][SoeNext]_soeVars

(* A call that started ends, and somebody keeps reconciling what is open,  *)
(* and redispatching what has no effect, as the gate's rule tells him to.  *)
SoeFairness ==
  /\ \A c \in Caller : WF_soeVars(CallStep(c))
  /\ \A i \in Intent : /\ SF_soeVars(\E c \in Caller : Reconcile(c, i))
                       /\ SF_soeVars(\E c \in Caller : Redispatch(c, i))

SoeFairSpec == SoeSpec /\ SoeFairness
-----------------------------------------------------------------------------
RowStates == {"ABSENT", "PREPARED", "DISPATCHING", "UNCERTAIN", "NO_EFFECT_CONFIRMED", "SEALED"}
TrailStates == (RowStates \ {"ABSENT"}) \union {"EFFECT_OBSERVED", "RECONCILED"}
CallPCs == {"waiting", "prepared", "calling", "sealing", "uncertain", "looking", "absent"}

SoeTypeOK ==
  /\ operation \in [Intent -> [state : RowStates, sealed : Nat]]
  /\ trail \in [Intent -> Seq(TrailStates)]
  /\ counter \in Nat
  /\ effects \in [Intent -> Nat] /\ sent \in [Intent -> Nat]
  /\ call \in [Caller -> [pc : CallPCs, intent : Intent \union {NoIntent},
                          read : RowStates, effect : Nat]]
  /\ exceptions \in 0..MaxExceptions

(* The counter moves once for each intent with an effect, however often it *)
(* is sent, confirmed absent by mistake and sent again, and what the ledger*)
(* seals is the one effect of its intent (apply, _seal_effect).            *)
Effective == {i \in Intent : effects[i] # NoEffect}

EffectsCounted ==
  /\ counter = InitialCounter + Cardinality(Effective)
  /\ \A i, j \in Effective : effects[i] = effects[j] => i = j

SealsTrue ==
  \A i \in Intent : State(i) = "SEALED" => i \in Effective /\ operation[i].sealed = effects[i]

OneEffectEach == EffectsCounted /\ SealsTrue

(* No blind retry: every request the service ever gets belongs to a        *)
(* dispatch of its own in the history, and each dispatch but the first     *)
(* comes right after a confirmation that there was no effect.              *)
Dispatches(i) == {k \in 1..Len(trail[i]) : trail[i][k] = "DISPATCHING"}
Calling(i) == {c \in Caller : call[c].pc = "calling" /\ call[c].intent = i}

RequestsDispatched ==
  \A i \in Intent : sent[i] + Cardinality(Calling(i)) <= Cardinality(Dispatches(i))

DispatchesConfirmed ==
  \A i \in Intent : \A k \in Dispatches(i) :
    k = 2 \/ (k > 2 /\ trail[i][k-1] = "NO_EFFECT_CONFIRMED")

NoBlindRetry == RequestsDispatched /\ DispatchesConfirmed

(* "UNCERTAIN is not FAILED": once a lost acknowledgement is recorded, the *)
(* effect is there and nobody ever records that it is not, not even who    *)
(* looked before it was.                                                   *)
UncertainNotFailed ==
  \A i \in Intent : \A k \in 1..Len(trail[i]) : trail[i][k] = "UNCERTAIN" =>
    /\ i \in Effective
    /\ \A m \in k..Len(trail[i]) : trail[i][m] # "NO_EFFECT_CONFIRMED"

(* The history of an intent ends in the state of its row, and nothing      *)
(* follows a seal.                                                         *)
TrailMatches ==
  \A i \in Intent : LET t == trail[i] IN
    /\ State(i) = IF t = << >> THEN "ABSENT" ELSE t[Len(t)]
    /\ \A k \in 1..Len(t) : t[k] = "SEALED" => k = Len(t)

(* A dispatched intent is sealed in the end, whatever callers race.        *)
DispatchedSealed ==
  \A i \in Intent : State(i) = "DISPATCHING" ~> State(i) = "SEALED"

(* Coordinator and service implement a reconciled effect.                  *)
Outcome == INSTANCE ReconciledEffect
             WITH committed <- {i \in Intent : Dispatches(i) # {}},
                  happened <- Effective,
                  recorded <- {i \in Intent : State(i) = "SEALED"}

ImplementsReconciledEffect == Outcome!Spec

-----------------------------------------------------------------------------
(* Why these hold.  PREPARED is only ever first, UNCERTAIN is left only by *)
(* a seal, and a new effect gets a value no other has.                     *)
TrailShape ==
  \A i \in Intent :
    /\ State(i) = "PREPARED" => trail[i] = <<"PREPARED">>
    /\ \A k \in 1..Len(trail[i]) : trail[i][k] = "UNCERTAIN" =>
         k = Len(trail[i]) \/ State(i) = "SEALED"

EffectsBelow == \A i \in Intent : effects[i] <= counter

(* What a caller in the middle of a call knows.                            *)
Knows(w) ==
  /\ w.pc # "waiting" => w.intent \in Intent
  /\ w.pc = "sealing" => w.intent \in Effective /\ w.effect = effects[w.intent]
  /\ w.pc = "uncertain" => w.intent \in Effective
  /\ w.pc \in {"looking", "sealing"} => w.read \in {"DISPATCHING", "UNCERTAIN"}
  /\ w.pc = "looking" /\ w.read = "UNCERTAIN" => w.intent \in Effective
  /\ w.pc = "absent" => w.read = "DISPATCHING"

CallsKnow == \A c \in Caller : Knows(call[c])

SoeIInv ==
  /\ SoeTypeOK /\ EffectsCounted /\ EffectsBelow /\ SealsTrue /\ RequestsDispatched
  /\ DispatchesConfirmed /\ UncertainNotFailed /\ TrailMatches /\ TrailShape /\ CallsKnow
=============================================================================
