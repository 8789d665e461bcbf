--------------------------- MODULE MembershipLease ---------------------------
(***************************************************************************)
(* The life of remote nodes as one observer sees them: each is absent,     *)
(* active under a lease, or fenced after its lease ran out.  This is the   *)
(* promise of the membership service; timers, packets and tables are left  *)
(* out.  In one step of the observer several nodes may move.               *)
(***************************************************************************)
EXTENDS Naturals

CONSTANT Nodes

VARIABLES
  phase,        \* "ABSENT", "ACTIVE" or "FENCED"
  generation,   \* of the active or fenced incarnation, 0 when absent
  sequence      \* last heartbeat of the active incarnation, else 0

leaseVars == <<phase, generation, sequence>>

Init ==
  /\ phase = [n \in Nodes |-> "ABSENT"]
  /\ generation = [n \in Nodes |-> 0]
  /\ sequence = [n \in Nodes |-> 0]

Activate(n) ==
  /\ phase'[n] = "ACTIVE"
  /\ generation'[n] > 0
  /\ sequence'[n] > 0

Join(n) == phase[n] = "ABSENT" /\ Activate(n)

(* Only a newer heartbeat, or a newer incarnation, touches the record.     *)
Heartbeat(n) ==
  /\ phase[n] = "ACTIVE"
  /\ Activate(n)
  /\ \/ generation'[n] > generation[n]
     \/ generation'[n] = generation[n] /\ sequence'[n] > sequence[n]

Expire(n) ==
  /\ phase[n] = "ACTIVE"
  /\ phase'[n] = "FENCED"
  /\ generation'[n] = generation[n]

(* Only a newer incarnation passes the fence.                              *)
Rejoin(n) ==
  /\ phase[n] = "FENCED"
  /\ Activate(n)
  /\ generation'[n] > generation[n]

(* The fence runs out, or is dropped to make room for another one.         *)
Forget(n) ==
  /\ phase[n] \in {"ACTIVE", "FENCED"}
  /\ phase'[n] = "ABSENT"

Rest(n) ==
  /\ phase'[n] = phase[n]
  /\ generation'[n] = generation[n]
  /\ sequence'[n] = sequence[n]

Next ==
  \A n \in Nodes :
    Join(n) \/ Heartbeat(n) \/ Expire(n) \/ Rejoin(n) \/ Forget(n) \/ Rest(n)

Spec == Init /\ [][Next]_leaseVars

=============================================================================
