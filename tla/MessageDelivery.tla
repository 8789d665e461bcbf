--------------------------- MODULE MessageDelivery ---------------------------
(***************************************************************************)
(* What runtime/src/node.cpp relies on in a transport, whichever it is: a  *)
(* message reaches the callback of a subscription at most once, only after *)
(* Publish gave it to the substrate, and no callback is entered for a      *)
(* subscription that has fallen silent.                                    *)
(***************************************************************************)
CONSTANTS Subs, Messages

VARIABLES
  published,  \* messages Publish accepted
  opened,     \* subscriptions that were made
  handed,     \* messages whose callback was entered, per subscription
  silent      \* subscriptions whose Unsubscribe or Close has returned

vars == <<published, opened, handed, silent>>

Init ==
  /\ published = {} /\ opened = {} /\ silent = {}
  /\ handed = [s \in Subs |-> {}]

Accept(m) ==
  /\ m \notin published /\ published' = published \cup {m}
  /\ UNCHANGED <<opened, handed, silent>>

Open(s) ==
  /\ opened' = opened \cup {s}
  /\ UNCHANGED <<published, handed, silent>>

Hand(s, m) ==
  /\ s \in opened \ silent /\ m \in published \ handed[s]
  /\ handed' = [handed EXCEPT ![s] = @ \cup {m}]
  /\ UNCHANGED <<published, opened, silent>>

Silence(ss) ==
  /\ silent' = silent \cup ss
  /\ UNCHANGED <<published, opened, handed>>

Next ==
  \/ \E m \in Messages : Accept(m)
  \/ \E s \in Subs : Open(s) \/ \E m \in Messages : Hand(s, m)
  \/ \E ss \in SUBSET Subs : Silence(ss)

Spec == Init /\ [][Next]_vars
=============================================================================
