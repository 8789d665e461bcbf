------------------------------ MODULE Discovery ------------------------------
(***************************************************************************)
(* distributed/src/discovery.cpp: one DiscoveryService that watches remote *)
(* nodes through their UDP announcements.  The remote nodes run the same   *)
(* code; here only their sending side and their restarts matter.           *)
(*                                                                         *)
(* Datagrams are lost, duplicated, delayed and reordered: whatever was     *)
(* ever sent may be received at any time, any number of times, or never.   *)
(* Only differences of steady_clock readings are compared, so a member     *)
(* carries its age (now - last_seen) and a fence the time it has left      *)
(* (expires_at - now), both saturating where the comparisons stop looking. *)
(***************************************************************************)
EXTENDS Integers, FiniteSets

CONSTANTS
  Nodes,               \* remote node ids (the observer's own id is ignored)
  LeaseTimeout,        \* DiscoveryConfig::lease_timeout, in clock ticks
  FenceTimeout,        \* DiscoveryConfig::generation_fence_timeout
  MaxMembers,          \* DiscoveryConfig::max_members
  MaxGenerationFences, \* DiscoveryConfig::max_generation_fences
  Restarting,          \* bound: the nodes that are restarted
  MaxGeneration,       \* bound: incarnations of such a node
  MaxAnnouncements     \* bound: announcements sent by all nodes together

(* DiscoveryService::Create refuses any other configuration.               *)
ASSUME ConfigAssumption ==
  /\ LeaseTimeout \in Nat \ {0}
  /\ FenceTimeout \in Nat /\ FenceTimeout >= LeaseTimeout
  /\ MaxMembers \in Nat \ {0}
  /\ MaxGenerationFences \in Nat \ {0}
ASSUME NodesAssumption == IsFiniteSet(Nodes)
ASSUME BoundsAssumption == MaxGeneration \in Nat /\ MaxAnnouncements \in Nat

VARIABLES
  running,      \* the worker thread runs
  members,      \* members, NoMember where the map has no entry
  fences,       \* generation_fences, NoFence where there is none
  up, generation, sequence,   \* the remote processes
  sent,         \* every announcement ever sent
  last,         \* history: the generation each node was last active with
  since,        \* history: ticks since the node's lease expired, saturating
  evicted       \* history: nodes whose last fence gave way to another

view == <<members, fences>>
senders == <<up, generation, sequence, sent>>
history == <<last, since, evicted>>
vars == <<running, view, senders, history>>

Announcements == [node : Nodes, gen : Nat \ {0}, seq : Nat \ {0}]

(* Generation 0 is refused by ParseAnnouncement: it can mean "no entry".   *)
NoMember == [gen |-> 0, seq |-> 0, age |-> 0]
NoFence == [gen |-> 0, ttl |-> 0]

Active(n) == members[n].gen # 0
Fenced(n) == fences[n].gen # 0
ActiveNodes == {n \in Nodes : Active(n)}
Least(a, b) == IF a <= b THEN a ELSE b
Most(a, b) == IF a >= b THEN a ELSE b

-----------------------------------------------------------------------------
(* Faulty variants of the definitions below.  No action uses them: each is *)
(* a plausible slip in the code that breaks one of the properties.         *)
FreshOrEqual(a, m) == a.gen > m.gen \/ (a.gen = m.gen /\ a.seq >= m.seq)
PassesFenceOrEqual(a, f) == a.gen >= f.gen
FenceForOneLease(n) ==
  [gen |-> members[n].gen, ttl |-> LeaseTimeout]
AcceptKeepsFence(a, live) == live

-----------------------------------------------------------------------------
(* The helpers of Accept and ExpireMembers                                 *)

(* Neither stale nor a duplicate of the active record.                     *)
Fresh(a, m) == a.gen > m.gen \/ (a.gen = m.gen /\ a.seq > m.seq)

PassesFence(a, f) == a.gen > f.gen

Room == Cardinality(ActiveNodes) < MaxMembers

(* ExpireGenerationFencesLocked.                                           *)
LiveFences ==
  [n \in Nodes |-> IF fences[n].ttl <= 0 THEN NoFence ELSE fences[n]]

(* A join over an older fence erases it.                                   *)
FencesAfterJoin(a, live) == [live EXCEPT ![a.node] = NoFence]

Overdue(n) == Active(n) /\ members[n].age > LeaseTimeout

(* RememberGenerationFenceLocked: the fence an expired member leaves.      *)
FenceOf(n) == [gen |-> Most(LiveFences[n].gen, members[n].gen), ttl |-> FenceTimeout]

(* The evictions of one ExpireMembers pass, taken together: each insertion *)
(* into a full table first erases a fence that expires earliest, so what   *)
(* is kept are fences that expire last, the last one inserted among them.  *)
Evicts(all, kept, added) ==
  LET fenced == {n \in Nodes : all[n].gen # 0}
  IN /\ kept \subseteq fenced
     /\ Cardinality(kept) = Least(Cardinality(fenced), MaxGenerationFences)
     /\ \A n \in kept, m \in fenced \ kept : all[m].ttl <= all[n].ttl
     /\ added # {} => kept \cap added # {}

-----------------------------------------------------------------------------
Init ==
  /\ running = FALSE
  /\ members = [n \in Nodes |-> NoMember]
  /\ fences = [n \in Nodes |-> NoFence]
  /\ up = [n \in Nodes |-> TRUE]
  /\ generation = [n \in Nodes |-> 1]
  /\ sequence = [n \in Nodes |-> 0]
  /\ sent = {}
  /\ last = [n \in Nodes |-> 0]
  /\ since = [n \in Nodes |-> FenceTimeout]
  /\ evicted = {}

Start == ~running /\ running' = TRUE /\ UNCHANGED <<view, senders, history>>

(* Stop joins the worker; the tables keep what they held.                  *)
Stop == running /\ running' = FALSE /\ UNCHANGED <<view, senders, history>>

(* A remote SendAnnouncement.                                              *)
SendAnnouncement(n) ==
  /\ up[n] /\ Cardinality(sent) < MaxAnnouncements
  /\ sequence' = [sequence EXCEPT ![n] = @ + 1]
  /\ sent' = sent \cup {[node |-> n, gen |-> generation[n], seq |-> sequence[n] + 1]}
  /\ UNCHANGED <<running, view, up, generation, history>>

Crash(n) ==
  /\ up[n]
  /\ up' = [up EXCEPT ![n] = FALSE]
  /\ UNCHANGED <<running, view, generation, sequence, sent, history>>

(* The deployment restarts a node with a higher generation; the new        *)
(* process counts its announcements from 1 again.                          *)
Restart(n) ==
  /\ ~up[n] /\ n \in Restarting /\ generation[n] < MaxGeneration
  /\ up' = [up EXCEPT ![n] = TRUE]
  /\ generation' = [generation EXCEPT ![n] = @ + 1]
  /\ sequence' = [sequence EXCEPT ![n] = 0]
  /\ UNCHANGED <<running, view, sent, history>>

Tick ==
  /\ members' = [n \in Nodes |->
                   IF Active(n) THEN [members[n] EXCEPT !.age = Least(@ + 1, LeaseTimeout + 1)]
                   ELSE members[n]]
  /\ fences' = [n \in Nodes |-> [fences[n] EXCEPT !.ttl = Most(@ - 1, 0)]]
  /\ since' = [n \in Nodes |-> Least(since[n] + 1, FenceTimeout)]
  /\ UNCHANGED <<running, senders, last, evicted>>

Record(a) == [gen |-> a.gen, seq |-> a.seq, age |-> 0]

(* Accept of an announcement by a node without a record: fenced off,       *)
(* dropped for lack of room, or joined.                                    *)
AcceptUnknown(a) ==
  /\ running
  /\ a \in sent /\ ~Active(a.node)
  /\ LET live == LiveFences
         joins == PassesFence(a, live[a.node]) /\ Room
     IN IF joins
          THEN /\ members' = [members EXCEPT ![a.node] = Record(a)]
               /\ fences' = FencesAfterJoin(a, live)
               /\ last' = [last EXCEPT ![a.node] = a.gen]
               /\ evicted' = evicted \ {a.node}
          ELSE /\ fences' = live
               /\ UNCHANGED <<members, last, evicted>>
  /\ UNCHANGED <<running, senders, since>>

(* Accept of an announcement by an active node: only a fresh one renews    *)
(* the lease.                                                              *)
AcceptKnown(a) ==
  /\ running
  /\ a \in sent /\ Active(a.node)
  /\ fences' = LiveFences
  /\ members' = [members EXCEPT ![a.node] = IF Fresh(a, @) THEN Record(a) ELSE @]
  /\ last' = [last EXCEPT ![a.node] = members'[a.node].gen]
  /\ UNCHANGED <<running, senders, since, evicted>>

ExpireMembers ==
  LET gone == {n \in Nodes : Overdue(n)}
      all == [n \in Nodes |-> IF n \in gone THEN FenceOf(n) ELSE LiveFences[n]]
  IN /\ running
     /\ \E kept \in SUBSET Nodes :
          /\ Evicts(all, kept, gone)
          /\ fences' = [n \in Nodes |-> IF n \in kept THEN all[n] ELSE NoFence]
          /\ evicted' = (evicted \ gone) \cup {n \in Nodes \ kept : all[n].gen # 0}
     /\ members' = [n \in Nodes |-> IF n \in gone THEN NoMember ELSE members[n]]
     /\ since' = [n \in Nodes |-> IF n \in gone THEN 0 ELSE since[n]]
     /\ UNCHANGED <<running, senders, last>>

Next ==
  \/ Start \/ Stop \/ Tick \/ ExpireMembers
  \/ \E n \in Nodes : SendAnnouncement(n) \/ Crash(n) \/ Restart(n)
  \/ \E a \in sent : AcceptUnknown(a) \/ AcceptKnown(a)

Spec == Init /\ [][Next]_vars

(* Time passes, and the worker loop reaches ExpireMembers again and again: *)
(* ReceiveAnnouncements returns when the socket is empty.                  *)
FairSpec == Spec /\ WF_vars(Tick) /\ WF_vars(ExpireMembers)

-----------------------------------------------------------------------------
(* Types.                                                                  *)
TypeOK ==
  /\ running \in BOOLEAN
  /\ members \in [Nodes -> [gen : Nat, seq : Nat, age : 0 .. LeaseTimeout + 1]]
  /\ fences \in [Nodes -> [gen : Nat, ttl : 0 .. FenceTimeout]]
  /\ up \in [Nodes -> BOOLEAN]
  /\ generation \in [Nodes -> Nat \ {0}] /\ sequence \in [Nodes -> Nat]
  /\ sent \subseteq Announcements
  /\ last \in [Nodes -> Nat]
  /\ since \in [Nodes -> 0 .. FenceTimeout]
  /\ evicted \subseteq Nodes

(* A node never has an active record and a fence at once, so that a fence  *)
(* always tells about the past of a node that is gone, and both tables     *)
(* keep within their capacities, also when several members expire in one   *)
(* pass of ExpireMembers.                                                  *)
TablesConsistent ==
  /\ TypeOK
  /\ \A n \in Nodes : ~(Active(n) /\ Fenced(n))
  /\ Cardinality(ActiveNodes) <= MaxMembers
  /\ Cardinality({n \in Nodes : Fenced(n)}) <= MaxGenerationFences

(* An incarnation that is not newer than the one whose lease expired       *)
(* becomes active only after the whole fence window has passed, whatever   *)
(* the network replays, unless its fence had to give way in a full table.  *)
NoEarlyResurrection ==
  [][ \A n \in Nodes :
        (~Active(n) /\ Active(n)' /\ members'[n].gen <= last[n])
        => since[n] >= FenceTimeout \/ n \in evicted ]_vars

(* A node that has fallen silent for good is dropped from the members,     *)
(* although its old announcements keep arriving: replays renew no lease.   *)
SilentNodeExpires ==
  \A n \in Nodes : <>[](~up[n] /\ running) => []<>(~Active(n))

(* Seen per node, the tables implement the lease automaton.  A fence whose *)
(* time has run out no longer counts, although its entry is still there.   *)
FenceInForce(n) == Fenced(n) /\ fences[n].ttl > 0

Lease == INSTANCE MembershipLease WITH
  phase <- [n \in Nodes |-> IF Active(n) THEN "ACTIVE"
                            ELSE IF FenceInForce(n) THEN "FENCED" ELSE "ABSENT"],
  generation <- [n \in Nodes |-> IF Active(n) THEN members[n].gen
                                 ELSE IF FenceInForce(n) THEN fences[n].gen ELSE 0],
  sequence <- [n \in Nodes |-> members[n].seq]

ImplementsLease == Lease!Spec
=============================================================================
