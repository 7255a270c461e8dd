--------------------------- MODULE MarketCursors ----------------------------
(***************************************************************************)
(* The durable cursors of the market-data feeds: a file of one cursor per  *)
(* stream, read, judged against, read again and replaced by processes that *)
(* share nothing else.  Messages are lost, repeated and reordered.         *)
(*                                                                         *)
(* A state of the file names its predecessor by digest, so a state is the  *)
(* sequence of messages that made it, and equal digests are equal states.  *)
(***************************************************************************)
EXTENDS Sequences, Integers

CONSTANTS Feed,       \* [stream, seq, payload, at]: messages in circulation
          Reader,     \* processes that apply messages
          NoMessage,  \* a process between two messages, a stream without cursor
          MaxRevision \* bound on the revision of the file

ASSUME FeedAssumption ==
  /\ \A m \in Feed : m.seq \in Nat /\ m.at \in Nat
  /\ NoMessage \notin Feed /\ MaxRevision \in Nat

VARIABLES
  cursorFile,  \* the state of the file
  applying     \* reader -> [step, message, state], where its apply stands

marketVars == <<cursorFile, applying>>

Waiting == [step |-> "waiting", message |-> NoMessage, state |-> << >>]

MarketInit ==
  /\ cursorFile = << >>
  /\ applying = [r \in Reader |-> Waiting]

-----------------------------------------------------------------------------
CursorOf(state, stream) ==
  LET of == {i \in DOMAIN state : state[i].stream = stream}
  IN IF of = {} THEN NoMessage
     ELSE state[CHOOSE i \in of : \A j \in of : j <= i]

(* validate_market_message allows a message with a new cursor: the next    *)
(* number, no earlier in effect; a stream without a cursor starts anywhere.*)
InSequence(message, cursor) ==
  /\ message.seq >= 1
  /\ cursor # NoMessage => message.seq = cursor.seq + 1 /\ message.at >= cursor.at

(* The first load, and the validation against the cursor found.            *)
LoadAndValidate(r, message) ==
  /\ applying[r] = Waiting
  /\ InSequence(message, CursorOf(cursorFile, message.stream))
  /\ applying' = [applying EXCEPT ![r] =
       [step |-> "validated", message |-> message, state |-> cursorFile]]
  /\ UNCHANGED cursorFile

(* Mutant: the state found is taken whatever was loaded before.            *)
UnchangedAnyway(r) == TRUE

(* save_cursor's comparison of the two loads.                              *)
UnchangedSince(r) == cursorFile = applying[r].state

(* save_cursor loads again and compares.  A refusal writes nothing.        *)
CompareState(r) ==
  /\ applying[r].step = "validated"
  /\ \/ /\ UnchangedSince(r) /\ Len(cursorFile) < MaxRevision
        /\ applying' = [applying EXCEPT ![r].step = "compared", ![r].state = cursorFile]
     \/ ~UnchangedSince(r) /\ applying' = [applying EXCEPT ![r] = Waiting]
  /\ UNCHANGED cursorFile

(* os.replace puts the successor of the state compared in place of         *)
(* whatever is there by now.                                               *)
ReplaceState(r) ==
  /\ applying[r].step = "compared"
  /\ cursorFile' = Append(applying[r].state, applying[r].message)
  /\ applying' = [applying EXCEPT ![r] = Waiting]

(* A process dies, or its write fails, before the replacement.             *)
DieBeforeReplace(r) ==
  /\ applying[r] # Waiting
  /\ applying' = [applying EXCEPT ![r] = Waiting]
  /\ UNCHANGED cursorFile

MarketNext ==
  \E r \in Reader :
    \/ \E message \in Feed : LoadAndValidate(r, message)
    \/ CompareState(r) \/ ReplaceState(r) \/ DieBeforeReplace(r)

MarketSpec == MarketInit /\ [][MarketNext]_marketVars

-----------------------------------------------------------------------------
Contiguous(state) ==
  \A i, j \in DOMAIN state :
    /\ i < j /\ state[i].stream = state[j].stream
    /\ \A k \in i+1..j-1 : state[k].stream # state[i].stream
    => /\ state[j].seq = state[i].seq + 1
       /\ state[j].at >= state[i].at

(* Whatever is lost, repeated, reordered or raced for, each state of the   *)
(* file, read as the chain of states it descends from, has no gap, no      *)
(* repetition and no step back in time.  It says nothing of a chain that   *)
(* os.replace threw away (durable_market_state.py:135-147).                *)
HistoryContiguous == Contiguous(cursorFile)

(* The file stays, or takes one message: its number is above, its time not *)
(* before, whatever its stream has in the file.                            *)
Advances ==
  \/ cursorFile' = cursorFile
  \/ \E m \in Feed :
       /\ cursorFile' = Append(cursorFile, m)
       /\ \A i \in DOMAIN cursorFile : cursorFile[i].stream = m.stream =>
            cursorFile[i].seq < m.seq /\ cursorFile[i].at <= m.at

(* A process is past save_cursor's comparison with a state that another    *)
(* process has replaced since.                                             *)
Overtaken == \E r \in Reader : applying[r].step = "compared" /\ applying[r].state # cursorFile

(* As the file is replaced over time, every message it takes has a number  *)
(* above all its stream has in the file and a time not before them, except *)
(* while a process is overtaken: its os.replace puts an older chain back   *)
(* (durable_market_state.py:135-147), and what was dropped is accepted     *)
(* again.                                                                  *)
CursorsAdvance == [][Overtaken \/ Advances]_marketVars

MarketTypeOK ==
  /\ cursorFile \in Seq(Feed)
  /\ applying \in [Reader -> [step : {"waiting", "validated", "compared"},
                              message : Feed \union {NoMessage}, state : Seq(Feed)]]

(* The inductive invariant: what a process is about to append follows the  *)
(* state it would append it to, which is a contiguous history itself.      *)
MarketIInv ==
  /\ MarketTypeOK /\ HistoryContiguous
  /\ \A r \in Reader : applying[r].step # "waiting" =>
       /\ applying[r].message \in Feed /\ Contiguous(applying[r].state)
       /\ InSequence(applying[r].message,
                     CursorOf(applying[r].state, applying[r].message.stream))
=============================================================================
