-------------------------- MODULE RecordingTransport --------------------------
(***************************************************************************)
(* record_replay/src/record_replay.cpp, class RecordingTransport, between  *)
(* a recorder, used by what TraceLog promises, and a transport of which    *)
(* only Publish and Close matter here: the other calls are passed through. *)
(***************************************************************************)
EXTENDS Integers, Sequences, FiniteSets

CONSTANTS
  Callers,      \* threads that call Publish and Close
  MaxMessages   \* bound: calls to Publish

VARIABLES
  accepted, durable, sealed,   \* the recorder, as in TraceLog
  published,    \* messages the inner transport accepted
  open,         \* the inner transport was not closed
  strict,       \* failure_policy is RequireRecord
  stops,        \* stop_recorder_on_close
  closed,       \* closed
  failures,     \* record_failures
  calling,      \* where each caller is
  messages,     \* calls to Publish so far
  number,       \* the record number of each recorded message
  stopped       \* a Close got Ok from the recorder's Stop

log == <<accepted, durable, sealed>>
config == <<strict, stops>>
vars == <<log, config, published, open, closed, failures, calling, messages,
          number, stopped>>

Log == INSTANCE TraceLog

Idle == [at |-> "idle", m |-> 0]

Init ==
  /\ Log!Init /\ strict \in BOOLEAN /\ stops \in BOOLEAN
  /\ published = {} /\ open = TRUE /\ closed = FALSE /\ failures = 0
  /\ calling = [c \in Callers |-> Idle]
  /\ messages = 0 /\ number = << >> /\ stopped = FALSE

-----------------------------------------------------------------------------

(* Faulty variant: the failure policy is not looked at. *)
GoesOn_Always(recorded) == TRUE

GoesOn(recorded) == recorded \/ ~strict

(* Publish up to the policy check.  Record may refuse at any time: its      *)
(* queue is full, its writer failed or it was stopped.                      *)
Record(c) ==
  /\ calling[c] = Idle /\ messages < MaxMessages
  /\ messages' = messages + 1
  /\ \E recorded \in BOOLEAN :
       /\ IF recorded
          THEN Log!Accept /\ number' = Append(number, accepted + 1) /\ UNCHANGED failures
          ELSE failures' = failures + 1 /\ number' = Append(number, 0) /\ UNCHANGED log
       /\ calling' = IF GoesOn(recorded)
                     THEN [calling EXCEPT ![c] = [at |-> "publish", m |-> messages + 1]]
                     ELSE calling
  /\ UNCHANGED <<config, published, open, closed, stopped>>

(* The inner Publish accepts the message, unless closed or failing. *)
Publish(c) ==
  /\ calling[c].at = "publish"
  /\ \/ open /\ published' = published \cup {calling[c].m}
     \/ UNCHANGED published
  /\ calling' = [calling EXCEPT ![c] = Idle]
  /\ UNCHANGED <<log, config, open, closed, failures, messages, number, stopped>>

(* Close: the flag, Stop of the recorder, which seals it and waits for the  *)
(* queue with no deadline, and Close of the transport.                      *)
Close(c) ==
  /\ calling[c] = Idle /\ ~closed /\ closed' = TRUE
  /\ calling' = [calling EXCEPT ![c].at = IF stops THEN "stop" ELSE "close"]
  /\ UNCHANGED <<log, config, published, open, failures, messages, number, stopped>>

StopRecorder(c) ==
  /\ calling[c].at = "stop" /\ Log!Seal
  /\ calling' = [calling EXCEPT ![c].at = "join"]
  /\ UNCHANGED <<config, published, open, closed, failures, messages, number, stopped>>

Drained == Len(durable) = accepted

RecorderStopped(c) ==
  /\ calling[c].at = "join"
  /\ \/ Drained /\ stopped' = TRUE
     \/ UNCHANGED stopped   \* the writer failed
  /\ calling' = [calling EXCEPT ![c].at = "close"]
  /\ UNCHANGED <<log, config, published, open, closed, failures, messages, number>>

CloseTransport(c) ==
  /\ calling[c].at = "close" /\ open' = FALSE
  /\ calling' = [calling EXCEPT ![c] = Idle]
  /\ UNCHANGED <<log, config, published, closed, failures, messages, number, stopped>>

Next ==
  \/ \E c \in Callers :
       Record(c) \/ Publish(c) \/ Close(c) \/ StopRecorder(c)
       \/ RecorderStopped(c) \/ CloseTransport(c)
  \/ /\ Log!Persist
     /\ UNCHANGED <<config, published, open, closed, failures, calling,
                    messages, number, stopped>>

Spec == Init /\ [][Next]_vars

-----------------------------------------------------------------------------
(* Under RequireRecord nothing is published that was not recorded before,   *)
(* otherwise each such message was counted as a record failure; and once    *)
(* Close got Ok from the recorder, what was published and recorded is in    *)
(* the file, also by a Publish that was under way during Close.             *)
PublishedIsRecorded ==
  LET unrecorded == {m \in published : number[m] = 0}
  IN /\ strict => unrecorded = {}
     /\ Cardinality(unrecorded) <= failures
     /\ stopped => \A m \in published : number[m] <= Len(durable)
=============================================================================
