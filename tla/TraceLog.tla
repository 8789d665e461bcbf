------------------------------ MODULE TraceLog ------------------------------
(***************************************************************************)
(* What a trace recorder promises to the code that calls it, without its   *)
(* queue, its threads or its condition variables: records are numbered in  *)
(* the order they are accepted, they become durable in that order with no  *)
(* gap, and nothing is accepted once the log has been sealed.              *)
(***************************************************************************)
EXTENDS Naturals, Sequences

VARIABLES
  accepted,   \* how many records Record has answered Ok for
  durable,    \* the sequence numbers found in the file, in file order
  sealed      \* no further record is accepted

logVars == <<accepted, durable, sealed>>

Init ==
  /\ accepted = 0
  /\ durable = << >>
  /\ sealed = FALSE

(* A record is accepted and gets the next number.                          *)
Accept ==
  /\ ~sealed
  /\ accepted' = accepted + 1
  /\ UNCHANGED <<durable, sealed>>

(* The oldest accepted record that is not in the file yet reaches it.      *)
Persist ==
  /\ Len(durable) < accepted
  /\ durable' = Append(durable, Len(durable) + 1)
  /\ UNCHANGED <<accepted, sealed>>

Seal ==
  /\ ~sealed
  /\ sealed' = TRUE
  /\ UNCHANGED <<accepted, durable>>

Next == Accept \/ Persist \/ Seal

Spec == Init /\ [][Next]_logVars

=============================================================================
