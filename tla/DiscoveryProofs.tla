--------------------------- MODULE DiscoveryProofs ---------------------------
(***************************************************************************)
(* Proofs about Discovery for any set of nodes, any timeouts and table     *)
(* sizes that Create accepts, and any traffic.                             *)
(*                                                                         *)
(* The strengthening ties the history to the tables: an active record has  *)
(* the generation seen last, and a node that left less than a fence window *)
(* ago still has its fence, with the rest of the window to go, unless the  *)
(* fence was evicted.                                                      *)
(***************************************************************************)
EXTENDS Discovery, FiniteSetTheorems, TLAPS

Member == [gen : Nat, seq : Nat, age : 0 .. LeaseTimeout + 1]
Fence == [gen : Nat, ttl : 0 .. FenceTimeout]

RecordsInv ==
  \A n \in Nodes :
    /\ Active(n) => members[n].seq > 0 /\ last[n] = members[n].gen
    /\ ~Active(n) => members[n].seq = 0

FenceInv ==
  \A n \in Nodes :
    ~Active(n) /\ last[n] > 0 /\ n \notin evicted /\ since[n] < FenceTimeout =>
      fences[n].gen >= last[n] /\ fences[n].ttl >= FenceTimeout - since[n]

Exclusive == \A n \in Nodes : ~(Active(n) /\ Fenced(n))

FencedNodes == {n \in Nodes : Fenced(n)}
Capacities ==
  Cardinality(ActiveNodes) <= MaxMembers /\ Cardinality(FencedNodes) <= MaxGenerationFences

IInv == TypeOK /\ Exclusive /\ RecordsInv /\ FenceInv /\ Capacities

-----------------------------------------------------------------------------
(* Types of the records the tables hold, field by field.                    *)
LEMMA TableTypes ==
  ASSUME TypeOK
  PROVE  /\ members \in [Nodes -> Member] /\ fences \in [Nodes -> Fence]
         /\ \A n \in Nodes :
              /\ members[n].gen \in Nat /\ members[n].seq \in Nat
              /\ members[n].age \in 0 .. LeaseTimeout + 1
              /\ fences[n].gen \in Nat /\ fences[n].ttl \in 0 .. FenceTimeout
              /\ last[n] \in Nat /\ since[n] \in 0 .. FenceTimeout
  BY Zenon DEF TypeOK, Member, Fence

(* ExpireGenerationFencesLocked erases fences whose time has run out and    *)
(* leaves the others as they are.                                           *)
LEMMA LiveFencesType ==
  ASSUME TypeOK
  PROVE  /\ LiveFences \in [Nodes -> Fence]
         /\ \A n \in Nodes :
              LiveFences[n] = IF fences[n].ttl > 0 THEN fences[n] ELSE NoFence
<1>1. NoFence \in Fence
  BY ConfigAssumption DEF NoFence, Fence
<1> QED
  BY <1>1, TableTypes, ConfigAssumption DEF LiveFences

(* An announcement has a generation and a sequence number above zero.       *)
LEMMA SentType ==
  ASSUME TypeOK, NEW a \in sent
  PROVE  /\ a.node \in Nodes /\ a.gen \in Nat /\ a.gen > 0 /\ a.seq \in Nat /\ a.seq > 0
         /\ Record(a) \in Member
         /\ Record(a).gen = a.gen /\ Record(a).seq = a.seq
<1>1. a \in Announcements
  BY Zenon DEF TypeOK
<1> QED
  BY <1>1, ConfigAssumption DEF Announcements, Record, Member

(* The fence of an expired member has its generation and a whole window.    *)
LEMMA FenceOfType ==
  ASSUME TypeOK, NEW n \in Nodes
  PROVE  /\ FenceOf(n) \in Fence /\ FenceOf(n).ttl = FenceTimeout
         /\ FenceOf(n).gen >= members[n].gen
         /\ Exclusive /\ Active(n) => FenceOf(n).gen = members[n].gen
<1>1. LiveFences[n].gen \in Nat /\ members[n].gen \in Nat
      /\ LiveFences[n] = IF fences[n].ttl > 0 THEN fences[n] ELSE NoFence
  BY Zenon, LiveFencesType, TableTypes DEF Fence
<1>2. Exclusive /\ Active(n) => LiveFences[n].gen = 0
  BY <1>1 DEF Exclusive, Fenced, NoFence
<1> QED
  BY <1>1, <1>2, ConfigAssumption DEF FenceOf, Fence, Most

-----------------------------------------------------------------------------
(* What the steps that change the tables do to each node.                   *)
Gone == {n \in Nodes : Overdue(n)}
AllFences == [n \in Nodes |-> IF n \in Gone THEN FenceOf(n) ELSE LiveFences[n]]

(* What ExpireMembers does to each table.                                  *)
LEMMA ExpireEffect ==
  ASSUME TypeOK, ExpireMembers
  PROVE  /\ running /\ UNCHANGED <<running, senders, last>>
         /\ \E kept \in SUBSET Nodes :
              /\ Evicts(AllFences, kept, Gone)
              /\ fences' = [n \in Nodes |-> IF n \in kept THEN AllFences[n] ELSE NoFence]
              /\ evicted' = (evicted \ Gone) \cup {n \in Nodes \ kept : AllFences[n].gen # 0}
         /\ members' = [n \in Nodes |-> IF n \in Gone THEN NoMember ELSE members[n]]
         /\ since' = [n \in Nodes |-> IF n \in Gone THEN 0 ELSE since[n]]
  BY Zenon DEF ExpireMembers, Gone, AllFences

(* The fences before eviction: the new ones, and the old ones still live.  *)
LEMMA AllFencesType ==
  ASSUME TypeOK
  PROVE  /\ AllFences \in [Nodes -> Fence]
         /\ \A n \in Nodes : AllFences[n] = IF n \in Gone THEN FenceOf(n) ELSE LiveFences[n]
  BY Zenon, LiveFencesType, FenceOfType DEF AllFences

(* The initial tables are well typed.                                      *)
LEMMA TypeInit == Init => TypeOK
<1> SUFFICES ASSUME Init PROVE TypeOK
  OBVIOUS
<1>1. NoMember \in Member /\ NoFence \in Fence
  BY ConfigAssumption DEF NoMember, NoFence, Member, Fence
<1>2. members \in [Nodes -> Member] /\ fences \in [Nodes -> Fence]
  BY Zenon, <1>1 DEF Init
<1>3. since \in [Nodes -> 0 .. FenceTimeout] /\ up \in [Nodes -> BOOLEAN]
  BY ConfigAssumption DEF Init
<1>4. /\ generation \in [Nodes -> Nat \ {0}] /\ sequence \in [Nodes -> Nat]
      /\ last \in [Nodes -> Nat]
  BY DEF Init
<1>5. running \in BOOLEAN /\ sent \subseteq Announcements /\ evicted \subseteq Nodes
  BY Zenon DEF Init
<1> QED
  BY Zenon, <1>2, <1>3, <1>4, <1>5 DEF TypeOK, Member, Fence

(* Every step preserves the types.                                          *)
LEMMA TypeStep == TypeOK /\ [Next]_vars => TypeOK'
<1> SUFFICES ASSUME TypeOK, [Next]_vars PROVE TypeOK'
  OBVIOUS
<1> USE DEF view, senders, history
<1>0. NoMember \in Member /\ NoFence \in Fence
  BY ConfigAssumption DEF NoMember, NoFence, Member, Fence
<1>1. CASE UNCHANGED vars \/ Start \/ Stop
  BY Zenon, <1>1 DEF TypeOK, vars, Start, Stop
<1>2. ASSUME NEW n \in Nodes, SendAnnouncement(n) PROVE TypeOK'
  <2>1. [node |-> n, gen |-> generation[n], seq |-> sequence[n] + 1] \in Announcements
    BY DEF TypeOK, Announcements
  <2> QED
    BY <1>2, <2>1 DEF TypeOK, SendAnnouncement
<1>3. ASSUME NEW n \in Nodes, Crash(n) \/ Restart(n) PROVE TypeOK'
  <2>1. up' \in [Nodes -> BOOLEAN]
    BY <1>3, Zenon DEF TypeOK, Crash, Restart
  <2>2. generation' \in [Nodes -> Nat \ {0}] /\ sequence' \in [Nodes -> Nat]
    BY <1>3 DEF TypeOK, Crash, Restart
  <2> QED
    BY Zenon, <1>3, <2>1, <2>2 DEF TypeOK, Crash, Restart
<1>4. CASE Tick
  <2>1. ASSUME NEW m \in Member
        PROVE  [m EXCEPT !.age = Least(@ + 1, LeaseTimeout + 1)] \in Member
    BY ConfigAssumption DEF Member, Least
  <2>2. ASSUME NEW f \in Fence PROVE [f EXCEPT !.ttl = Most(@ - 1, 0)] \in Fence
    BY ConfigAssumption DEF Fence, Most
  <2>3. members' \in [Nodes -> Member] /\ fences' \in [Nodes -> Fence]
    BY Zenon, <1>4, <2>1, <2>2, TableTypes DEF Tick
  <2>4. since' \in [Nodes -> 0 .. FenceTimeout]
    BY <1>4, TableTypes, ConfigAssumption DEF Tick, Least
  <2> QED
    BY Zenon, <1>4, <2>3, <2>4 DEF Tick, TypeOK, Member, Fence
<1>5. CASE ExpireMembers
  <2>1. PICK kept \in SUBSET Nodes :
          /\ fences' = [n \in Nodes |-> IF n \in kept THEN AllFences[n] ELSE NoFence]
          /\ evicted' = (evicted \ Gone) \cup {n \in Nodes \ kept : AllFences[n].gen # 0}
    BY Zenon, <1>5, ExpireEffect
  <2>2. members' \in [Nodes -> Member] /\ fences' \in [Nodes -> Fence]
    BY <1>0, <1>5, <2>1, ExpireEffect, AllFencesType, TableTypes
  <2>3. since' \in [Nodes -> 0 .. FenceTimeout] /\ evicted' \subseteq Nodes
    BY <1>5, <2>1, ExpireEffect, TableTypes, ConfigAssumption DEF TypeOK
  <2> QED
    BY Zenon, <1>5, <2>2, <2>3, ExpireEffect DEF TypeOK, Member, Fence
<1>6. ASSUME NEW a \in sent, AcceptUnknown(a) \/ AcceptKnown(a) PROVE TypeOK'
  <2>1. members' \in [Nodes -> Member] /\ fences' \in [Nodes -> Fence]
    BY <1>0, <1>6, LiveFencesType, SentType, TableTypes
       DEF AcceptUnknown, AcceptKnown, FencesAfterJoin
  <2>2. members'[a.node].gen \in Nat
    BY Zenon, <2>1, SentType DEF Member
  <2>3. last' \in [Nodes -> Nat] /\ evicted' \subseteq Nodes
    BY Zenon, <1>6, <2>2, SentType DEF AcceptUnknown, AcceptKnown, TypeOK
  <2> QED
    BY Zenon, <1>6, <2>1, <2>3 DEF TypeOK, AcceptUnknown, AcceptKnown, Member, Fence
<1> QED
  BY Zenon, <1>1, <1>2, <1>3, <1>4, <1>5, <1>6 DEF Next

-----------------------------------------------------------------------------
(* What one pass of ExpireMembers does to a node: an overdue member leaves  *)
(* a fence, which may be evicted at once; any other node keeps its record   *)
(* and its fence, unless that has run out or is evicted.                    *)
LEMMA ExpireNode ==
  ASSUME TypeOK, ExpireMembers, NEW n \in Nodes
  PROVE  /\ last'[n] = last[n]
         /\ n \in Gone =>
              /\ Active(n) /\ members'[n] = NoMember /\ since'[n] = 0
              /\ \/ fences'[n] = FenceOf(n)
                 \/ fences'[n] = NoFence /\ n \in evicted'
         /\ n \notin Gone =>
              /\ members'[n] = members[n] /\ since'[n] = since[n]
              /\ n \in evicted => n \in evicted'
              /\ \/ fences'[n] = LiveFences[n]
                 \/ fences'[n] = NoFence /\ (LiveFences[n].gen # 0 => n \in evicted')
<1>1. PICK kept \in SUBSET Nodes :
        /\ fences' = [m \in Nodes |-> IF m \in kept THEN AllFences[m] ELSE NoFence]
        /\ evicted' = (evicted \ Gone) \cup {m \in Nodes \ kept : AllFences[m].gen # 0}
  BY Zenon, ExpireEffect
<1>2. AllFences[n] = IF n \in Gone THEN FenceOf(n) ELSE LiveFences[n]
  BY Zenon, AllFencesType
<1>3. n \in Gone => Active(n) /\ FenceOf(n).gen # 0
  <2>1. ASSUME n \in Gone PROVE Active(n)
    BY Zenon, <2>1 DEF Gone, Overdue
  <2> QED
    BY <2>1, FenceOfType, TableTypes DEF Active, Fence
<1>4. /\ members'[n] = IF n \in Gone THEN NoMember ELSE members[n]
      /\ since'[n] = IF n \in Gone THEN 0 ELSE since[n]
      /\ last'[n] = last[n]
  BY Zenon, ExpireEffect
<1>5. n \in kept => fences'[n] = AllFences[n]
  BY Zenon, <1>1
<1>6. n \notin kept => fences'[n] = NoFence /\ (AllFences[n].gen # 0 => n \in evicted')
  BY Zenon, <1>1
<1>7. n \in evicted /\ n \notin Gone => n \in evicted'
  BY Zenon, <1>1
<1> QED
  BY Zenon, <1>2, <1>3, <1>4, <1>5, <1>6, <1>7

(* Every step preserves the relation of records, fences and history.        *)
LEMMA TablesStep ==
  TypeOK /\ Exclusive /\ RecordsInv /\ FenceInv /\ [Next]_vars
    => Exclusive' /\ RecordsInv' /\ FenceInv'
<1> SUFFICES ASSUME TypeOK, Exclusive, RecordsInv, FenceInv, [Next]_vars, NEW n \in Nodes
             PROVE  /\ ~(Active(n) /\ Fenced(n))'
                    /\ (Active(n) => members[n].seq > 0 /\ last[n] = members[n].gen)'
                    /\ (~Active(n) => members[n].seq = 0)'
                    /\ (~Active(n) /\ last[n] > 0 /\ n \notin evicted /\ since[n] < FenceTimeout =>
                          fences[n].gen >= last[n] /\ fences[n].ttl >= FenceTimeout - since[n])'
  BY Zenon DEF Exclusive, RecordsInv, FenceInv
<1> DEFINE Goal == /\ ~(Active(n) /\ Fenced(n))'
                   /\ (Active(n) => members[n].seq > 0 /\ last[n] = members[n].gen)'
                   /\ (~Active(n) => members[n].seq = 0)'
                   /\ (~Active(n) /\ last[n] > 0 /\ n \notin evicted /\ since[n] < FenceTimeout =>
                         fences[n].gen >= last[n] /\ fences[n].ttl >= FenceTimeout - since[n])'
<1>1. /\ members[n].gen \in Nat /\ members[n].seq \in Nat
      /\ fences[n].gen \in Nat /\ fences[n].ttl \in 0 .. FenceTimeout
      /\ last[n] \in Nat /\ since[n] \in 0 .. FenceTimeout
      /\ FenceTimeout \in Nat /\ FenceTimeout > 0
  BY TableTypes, ConfigAssumption
<1>2. /\ ~(Active(n) /\ Fenced(n))
      /\ Active(n) => members[n].seq > 0 /\ last[n] = members[n].gen
      /\ ~Active(n) => members[n].seq = 0
      /\ ~Active(n) /\ last[n] > 0 /\ n \notin evicted /\ since[n] < FenceTimeout =>
           fences[n].gen >= last[n] /\ fences[n].ttl >= FenceTimeout - since[n]
  BY Zenon DEF Exclusive, RecordsInv, FenceInv
<1> USE DEF view, senders, history
<1>3. ASSUME members'[n] = members[n], last'[n] = last[n], since'[n] = since[n],
             fences'[n] \in {fences[n], LiveFences[n]}, n \in evicted => n \in evicted'
      PROVE  Goal
  <2>1. LiveFences[n] = IF fences[n].ttl > 0 THEN fences[n] ELSE NoFence
    BY Zenon, LiveFencesType
  <2>2. fences[n].ttl <= 0 => ~(fences[n].ttl >= FenceTimeout - since[n] /\ since[n] < FenceTimeout)
    BY <1>1
  <2> QED
    BY <1>1, <1>2, <1>3, <2>1, <2>2 DEF Active, Fenced, NoFence
<1>4. CASE \/ UNCHANGED vars \/ Start \/ Stop
           \/ \E m \in Nodes : SendAnnouncement(m) \/ Crash(m) \/ Restart(m)
  <2>1. UNCHANGED <<members, fences, last, since, evicted>>
    BY Zenon, <1>4 DEF vars, Start, Stop, SendAnnouncement, Crash, Restart
  <2> QED
    BY Zenon, <1>3, <2>1
<1>5. CASE Tick
  <2>1. /\ members'[n].gen = members[n].gen /\ members'[n].seq = members[n].seq
        /\ fences'[n].gen = fences[n].gen /\ fences'[n].ttl = Most(fences[n].ttl - 1, 0)
        /\ since'[n] = Least(since[n] + 1, FenceTimeout)
        /\ last'[n] = last[n] /\ evicted' = evicted
    BY Zenon, <1>5, TableTypes DEF Tick, Member, Fence
  <2>2. since'[n] < FenceTimeout => since[n] < FenceTimeout /\ since'[n] = since[n] + 1
    BY <1>1, <2>1 DEF Least
  <2>3. fences'[n].ttl >= fences[n].ttl - 1 /\ fences'[n].ttl \in Int
    BY <1>1, <2>1 DEF Most
  <2> QED
    BY <1>1, <1>2, <2>1, <2>2, <2>3 DEF Active, Fenced
<1>6. CASE ExpireMembers
  <2>1. CASE n \in Gone
    <3>1. /\ Active(n) /\ members'[n] = NoMember /\ since'[n] = 0 /\ last'[n] = last[n]
          /\ \/ fences'[n] = FenceOf(n)
             \/ fences'[n] = NoFence /\ n \in evicted'
      BY Zenon, <1>6, <2>1, ExpireNode
    <3>2. FenceOf(n).ttl = FenceTimeout /\ FenceOf(n).gen >= last[n]
      BY Zenon, <1>2, <3>1, FenceOfType
    <3> QED
      BY <1>1, <3>1, <3>2 DEF Active, Fenced, NoMember
  <2>2. CASE n \notin Gone
    <3>1. /\ members'[n] = members[n] /\ since'[n] = since[n]
          /\ n \in evicted => n \in evicted'
          /\ \/ fences'[n] = LiveFences[n]
             \/ fences'[n] = NoFence /\ (LiveFences[n].gen # 0 => n \in evicted')
          /\ last'[n] = last[n]
      BY Zenon, <1>6, <2>2, ExpireNode
    <3>2. CASE fences'[n] = LiveFences[n]
      BY Zenon, <1>3, <3>1, <3>2
    <3>3. CASE fences'[n] = NoFence /\ (LiveFences[n].gen # 0 => n \in evicted')
      <4>1. LiveFences[n] = IF fences[n].ttl > 0 THEN fences[n] ELSE NoFence
        BY Zenon, LiveFencesType
      <4>2. ~Active(n) /\ last[n] > 0 /\ n \notin evicted /\ since[n] < FenceTimeout => n \in evicted'
        BY <1>1, <1>2, <3>3, <4>1
      <4> QED
        BY <1>2, <3>1, <3>3, <4>2 DEF Active, Fenced, NoFence
    <3> QED
      BY Zenon, <3>1, <3>2, <3>3
  <2> QED
    BY Zenon, <2>1, <2>2
<1>7. ASSUME NEW a \in sent, AcceptUnknown(a) PROVE Goal
  <2>1. CASE n # a.node \/ ~(PassesFence(a, LiveFences[a.node]) /\ Room)
    <3>1. /\ members'[n] = members[n] /\ last'[n] = last[n] /\ since' = since
          /\ fences'[n] = LiveFences[n] /\ (n \in evicted => n \in evicted')
      BY Zenon, <1>7, <2>1, SentType, LiveFencesType, TableTypes DEF AcceptUnknown, FencesAfterJoin, TypeOK
    <3> QED
      BY Zenon, <1>3, <3>1
  <2>2. CASE n = a.node /\ PassesFence(a, LiveFences[a.node]) /\ Room
    <3>1. members'[n] = Record(a) /\ last'[n] = a.gen /\ fences'[n] = NoFence
      BY Zenon, <1>7, <2>2, SentType, LiveFencesType, TableTypes DEF AcceptUnknown, FencesAfterJoin, TypeOK
    <3> QED
      BY <3>1, SentType DEF Active, Fenced, NoFence
  <2> QED
    BY Zenon, <2>1, <2>2
<1>8. ASSUME NEW a \in sent, AcceptKnown(a) PROVE Goal
  <2>1. CASE n # a.node
    <3>1. /\ members'[n] = members[n] /\ last'[n] = last[n] /\ since' = since
          /\ fences'[n] = LiveFences[n] /\ evicted' = evicted
      BY Zenon, <1>8, <2>1, SentType, TableTypes DEF AcceptKnown, TypeOK
    <3> QED
      BY Zenon, <1>3, <3>1
  <2>2. CASE n = a.node
    <3>1. /\ Active(n) /\ last'[n] = members'[n].gen
          /\ fences'[n] = LiveFences[n]
          /\ members'[n] = Record(a) \/ members'[n] = members[n]
      BY Zenon, <1>8, <2>2, SentType, TableTypes DEF AcceptKnown, TypeOK
    <3>2. LiveFences[n].gen = 0
      BY <1>2, <3>1, LiveFencesType DEF Fenced, NoFence
    <3> QED
      BY <1>1, <1>2, <3>1, <3>2, SentType DEF Active, Fenced
  <2> QED
    BY Zenon, <2>1, <2>2
<1> QED
  BY Zenon, <1>4, <1>5, <1>6, <1>7, <1>8 DEF Next

(* Every step keeps the tables within their capacities.                     *)
LEMMA CapacitiesStep ==
  ASSUME TypeOK, Capacities, [Next]_vars
  PROVE  Capacities'
<1> USE DEF view, senders, history
<1>1. /\ MaxMembers \in Nat /\ MaxGenerationFences \in Nat
      /\ \A S \in SUBSET Nodes : IsFiniteSet(S) /\ Cardinality(S) \in Nat
      /\ \A S, T \in SUBSET Nodes : S \subseteq T => Cardinality(S) <= Cardinality(T)
  BY Zenon, ConfigAssumption, NodesAssumption, FS_Subset, FS_CardinalityType
<1>2. /\ ActiveNodes \in SUBSET Nodes /\ FencedNodes \in SUBSET Nodes
      /\ ActiveNodes' \in SUBSET Nodes /\ FencedNodes' \in SUBSET Nodes
  BY Zenon DEF ActiveNodes, FencedNodes
<1>3. ASSUME ActiveNodes' \subseteq ActiveNodes
      PROVE  Cardinality(ActiveNodes') <= MaxMembers
  <2>1. Cardinality(ActiveNodes') <= Cardinality(ActiveNodes)
    BY Zenon, <1>1, <1>2, <1>3
  <2> QED
    BY <1>1, <1>2, <2>1 DEF Capacities
<1>4. ASSUME FencedNodes' \subseteq FencedNodes
      PROVE  Cardinality(FencedNodes') <= MaxGenerationFences
  <2>1. Cardinality(FencedNodes') <= Cardinality(FencedNodes)
    BY Zenon, <1>1, <1>2, <1>4
  <2> QED
    BY <1>1, <1>2, <2>1 DEF Capacities
<1>5. CASE \/ UNCHANGED vars \/ Start \/ Stop
           \/ \E m \in Nodes : SendAnnouncement(m) \/ Crash(m) \/ Restart(m)
  <2>1. UNCHANGED <<members, fences>>
    BY Zenon, <1>5 DEF vars, Start, Stop, SendAnnouncement, Crash, Restart
  <2>2. ActiveNodes' = ActiveNodes /\ FencedNodes' = FencedNodes
    BY Zenon, <2>1 DEF ActiveNodes, FencedNodes, Active, Fenced
  <2> QED
    BY Zenon, <2>2 DEF Capacities
<1>6. CASE Tick
  <2>1. \A n \in Nodes : members'[n].gen = members[n].gen /\ fences'[n].gen = fences[n].gen
    BY Zenon, <1>6, TableTypes DEF Tick, Member, Fence
  <2>2. ActiveNodes' \subseteq ActiveNodes /\ FencedNodes' \subseteq FencedNodes
    BY Zenon, <2>1 DEF ActiveNodes, FencedNodes, Active, Fenced
  <2> QED
    BY Zenon, <1>3, <1>4, <2>2 DEF Capacities
<1>7. CASE ExpireMembers
  <2>1. PICK kept \in SUBSET Nodes :
          /\ Evicts(AllFences, kept, Gone)
          /\ fences' = [n \in Nodes |-> IF n \in kept THEN AllFences[n] ELSE NoFence]
    BY Zenon, <1>7, ExpireEffect
  <2>2. ActiveNodes' \subseteq ActiveNodes
    BY <1>7, ExpireEffect DEF ActiveNodes, Active, NoMember
  <2>3. FencedNodes' \subseteq kept
    BY Zenon, <2>1 DEF FencedNodes, Fenced, NoFence
  <2>4. Cardinality(kept) <= MaxGenerationFences
    <3> DEFINE fenced == {n \in Nodes : AllFences[n].gen # 0}
    <3>1. Cardinality(fenced) \in Nat
      BY Zenon, <1>1
    <3>2. Cardinality(kept) = Least(Cardinality(fenced), MaxGenerationFences)
      BY Zenon, <2>1 DEF Evicts
    <3> HIDE DEF fenced
    <3> QED
      BY Zenon, <1>1, <3>1, <3>2 DEF Least
  <2>5. Cardinality(FencedNodes') <= Cardinality(kept)
    BY Zenon, <1>1, <1>2, <2>3
  <2>6. Cardinality(FencedNodes') <= MaxGenerationFences
    BY <1>1, <1>2, <2>4, <2>5
  <2> QED
    BY Zenon, <1>3, <2>2, <2>6 DEF Capacities
<1>8. ASSUME NEW a \in sent, AcceptUnknown(a) PROVE Capacities'
  <2>1. fences' = LiveFences \/ fences' = [LiveFences EXCEPT ![a.node] = NoFence]
    BY Zenon, <1>8 DEF AcceptUnknown, FencesAfterJoin
  <2>2. FencedNodes' \subseteq FencedNodes
    BY <2>1, LiveFencesType, SentType DEF FencedNodes, Fenced, NoFence
  <2>3. CASE members' = members
    <3>1. ActiveNodes' \subseteq ActiveNodes
      BY Zenon, <2>3 DEF ActiveNodes, Active
    <3> QED
      BY Zenon, <1>3, <1>4, <2>2, <3>1 DEF Capacities
  <2>4. CASE Room /\ members' = [members EXCEPT ![a.node] = Record(a)]
    <3>1. ActiveNodes' \subseteq ActiveNodes \cup {a.node} /\ a.node \in Nodes
      BY Zenon, <2>4, TableTypes, SentType DEF ActiveNodes, Active
    <3>2. Cardinality(ActiveNodes \cup {a.node}) <= Cardinality(ActiveNodes) + 1
      <4>1. CASE a.node \in ActiveNodes
        <5>1. ActiveNodes \cup {a.node} = ActiveNodes
          BY Zenon, <4>1
        <5> QED
          BY <1>1, <1>2, <5>1
      <4>2. CASE a.node \notin ActiveNodes
        BY <1>1, <1>2, <4>2, FS_AddElement
      <4> QED
        BY Zenon, <4>1, <4>2
    <3>3. Cardinality(ActiveNodes') <= Cardinality(ActiveNodes \cup {a.node})
          /\ Cardinality(ActiveNodes \cup {a.node}) \in Nat
      BY Zenon, <1>1, <1>2, <3>1
    <3>4. Cardinality(ActiveNodes') <= MaxMembers
      BY <1>1, <1>2, <2>4, <3>2, <3>3 DEF Room
    <3> QED
      BY Zenon, <1>4, <2>2, <3>4 DEF Capacities
  <2> QED
    BY Zenon, <1>8, <2>3, <2>4 DEF AcceptUnknown
<1>9. ASSUME NEW a \in sent, AcceptKnown(a) PROVE Capacities'
  <2>1. FencedNodes' \subseteq FencedNodes
    BY <1>9, LiveFencesType DEF AcceptKnown, FencedNodes, Fenced, NoFence
  <2>2. ActiveNodes' \subseteq ActiveNodes
    BY Zenon, <1>9, TableTypes, SentType DEF AcceptKnown, ActiveNodes, Active
  <2> QED
    BY Zenon, <1>3, <1>4, <2>1, <2>2 DEF Capacities
<1> QED
  BY Zenon, <1>5, <1>6, <1>7, <1>8, <1>9 DEF Next

(* An empty service satisfies the invariant.                               *)
LEMMA InitInv == Init => IInv
<1> SUFFICES ASSUME Init PROVE IInv
  OBVIOUS
<1>1. \A n \in Nodes : ~Active(n) /\ ~Fenced(n) /\ members[n].seq = 0 /\ last[n] = 0
  BY Zenon DEF Init, Active, Fenced, NoMember, NoFence
<1>2. Exclusive /\ RecordsInv /\ FenceInv
  BY <1>1 DEF Exclusive, RecordsInv, FenceInv
<1>3. ActiveNodes = {} /\ FencedNodes = {}
  BY Zenon, <1>1 DEF ActiveNodes, FencedNodes
<1>4. Capacities
  BY <1>3, FS_EmptySet, ConfigAssumption DEF Capacities
<1> QED
  BY Zenon, <1>2, <1>4, TypeInit DEF IInv

(* Every step keeps the invariant.                                         *)
LEMMA StepInv == IInv /\ [Next]_vars => IInv'
  BY Zenon, TypeStep, TablesStep, CapacitiesStep DEF IInv

(* A node is never active and fenced at once and the two tables keep within *)
(* max_members and max_generation_fences, for all configurations that       *)
(* DiscoveryService::Create accepts (Accept, ExpireMembers).                *)
THEOREM TablesConsistentHolds == Spec => []TablesConsistent
<1>1. IInv => TablesConsistent
  BY Zenon DEF IInv, Exclusive, Capacities, FencedNodes, TablesConsistent
<1> QED
  BY <1>1, InitInv, StepInv, PTL DEF Spec

-----------------------------------------------------------------------------
(* Only Accept makes a node active, from an announcement that passes its    *)
(* fence.                                                                   *)
LEMMA Joining ==
  ASSUME TypeOK, [Next]_vars, NEW n \in Nodes, ~Active(n), Active(n)'
  PROVE  \E a \in sent : /\ a.node = n /\ PassesFence(a, LiveFences[n])
                         /\ members'[n] = Record(a)
<1> USE DEF view, senders, history
<1>1. ASSUME members'[n].gen = members[n].gen PROVE FALSE
  BY Zenon, <1>1 DEF Active
<1>2. CASE \/ UNCHANGED vars \/ Start \/ Stop
           \/ \E m \in Nodes : SendAnnouncement(m) \/ Crash(m) \/ Restart(m)
  BY Zenon, <1>1, <1>2 DEF vars, Start, Stop, SendAnnouncement, Crash, Restart
<1>3. CASE Tick
  BY Zenon, <1>1, <1>3, TableTypes DEF Tick, Member
<1>4. CASE ExpireMembers
  BY Zenon, <1>1, <1>4, ExpireNode
<1>5. ASSUME NEW a \in sent, AcceptUnknown(a) \/ AcceptKnown(a), n # a.node PROVE FALSE
  BY Zenon, <1>1, <1>5, TableTypes, SentType DEF AcceptUnknown, AcceptKnown
<1>6. ASSUME NEW a \in sent, AcceptKnown(a), n = a.node PROVE FALSE
  BY Zenon, <1>6 DEF AcceptKnown
<1>7. ASSUME NEW a \in sent, AcceptUnknown(a), n = a.node
      PROVE  PassesFence(a, LiveFences[n]) /\ members'[n] = Record(a)
  BY Zenon, <1>1, <1>7, TableTypes DEF AcceptUnknown
<1> QED
  BY Zenon, <1>2, <1>3, <1>4, <1>5, <1>6, <1>7 DEF Next

(* No replayed announcement brings an expired incarnation back within the   *)
(* fence window, unless its fence was evicted from a full table, whatever   *)
(* the network does and however the timeouts are set (Accept against        *)
(* RememberGenerationFenceLocked).                                          *)
THEOREM NoEarlyResurrectionHolds == Spec => NoEarlyResurrection
<1> DEFINE Act == \A n \in Nodes :
                    (~Active(n) /\ Active(n)' /\ members'[n].gen <= last[n])
                    => since[n] >= FenceTimeout \/ n \in evicted
<1>1. IInv /\ [Next]_vars => [Act]_vars
  <2> SUFFICES ASSUME IInv, [Next]_vars, NEW n \in Nodes,
                      ~Active(n), Active(n)', members'[n].gen <= last[n],
                      ~(since[n] >= FenceTimeout), n \notin evicted
               PROVE  FALSE
    OBVIOUS
  <2> USE DEF IInv
  <2>1. PICK a \in sent : /\ a.node = n /\ PassesFence(a, LiveFences[n])
                          /\ members'[n] = Record(a)
    BY Zenon, Joining
  <2>2. /\ fences[n].gen \in Nat /\ fences[n].ttl \in 0 .. FenceTimeout
        /\ last[n] \in Nat /\ since[n] \in 0 .. FenceTimeout /\ FenceTimeout \in Nat
    BY Zenon, TableTypes, ConfigAssumption
  <2>3. a.gen \in Nat /\ a.gen > 0 /\ members'[n].gen = a.gen
    BY Zenon, <2>1, SentType
  <2>4. last[n] > 0 /\ since[n] < FenceTimeout
    BY <2>2, <2>3
  <2>5. fences[n].gen >= last[n] /\ fences[n].ttl >= FenceTimeout - since[n]
    BY Zenon, <2>4 DEF FenceInv
  <2>6. LiveFences[n] = fences[n]
    BY <2>2, <2>4, <2>5, LiveFencesType
  <2> QED
    BY <2>1, <2>2, <2>3, <2>5, <2>6 DEF PassesFence
<1> QED
  BY <1>1, InitInv, StepInv, PTL DEF Spec, NoEarlyResurrection

-----------------------------------------------------------------------------
(* The moves of the lease automaton, in terms of the tables.                *)
Move(n) ==
  Lease!Join(n) \/ Lease!Heartbeat(n) \/ Lease!Expire(n) \/ Lease!Rejoin(n)
    \/ Lease!Forget(n) \/ Lease!Rest(n)

(* A node that keeps its record and either keeps or loses its fence.        *)
LEMMA KeepsOrForgets ==
  ASSUME NEW n \in Nodes, Exclusive, Exclusive',
         members'[n].gen = members[n].gen, members'[n].seq = members[n].seq,
         FenceInForce(n)' => FenceInForce(n) /\ fences'[n].gen = fences[n].gen
  PROVE  Move(n)
<1>1. Active(n)' <=> Active(n)
  BY Zenon DEF Active
<1>2. CASE ~Active(n) /\ FenceInForce(n) /\ ~FenceInForce(n)'
  BY Zenon, <1>1, <1>2 DEF Move, Lease!Forget
<1>3. CASE Active(n) \/ (FenceInForce(n) <=> FenceInForce(n)')
  <2>1. Lease!Rest(n)
    BY Zenon, <1>1, <1>3 DEF Lease!Rest
  <2> QED
    BY Zenon, <2>1 DEF Move
<1> QED
  BY Zenon, <1>2, <1>3

(* A node that gets the record of a received announcement.                  *)
LEMMA Activates ==
  ASSUME TypeOK, NEW a \in sent, members'[a.node] = Record(a),
         IF Active(a.node) THEN Fresh(a, members[a.node])
         ELSE PassesFence(a, LiveFences[a.node])
  PROVE  Move(a.node)
<1>1. /\ a.node \in Nodes /\ a.gen \in Nat /\ a.gen > 0 /\ a.seq \in Nat /\ a.seq > 0
      /\ members'[a.node].gen = a.gen /\ members'[a.node].seq = a.seq
  BY Zenon, SentType
<1>2. Active(a.node)'
  BY <1>1 DEF Active
<1>3. Lease!Activate(a.node)
  BY Zenon, <1>1, <1>2 DEF Lease!Activate
<1>4. CASE Active(a.node)
  <2>1. Lease!Heartbeat(a.node)
    BY Zenon, <1>1, <1>2, <1>3, <1>4 DEF Lease!Heartbeat, Fresh
  <2> QED
    BY Zenon, <2>1 DEF Move
<1>5. CASE ~Active(a.node) /\ FenceInForce(a.node)
  <2>1. LiveFences[a.node] = fences[a.node]
    BY Zenon, <1>1, <1>5, LiveFencesType DEF FenceInForce
  <2>2. Lease!Rejoin(a.node)
    BY Zenon, <1>1, <1>2, <1>3, <1>5, <2>1 DEF Lease!Rejoin, PassesFence
  <2> QED
    BY Zenon, <2>2 DEF Move
<1>6. CASE ~Active(a.node) /\ ~FenceInForce(a.node)
  <2>1. Lease!Join(a.node)
    BY Zenon, <1>1, <1>3, <1>6 DEF Lease!Join
  <2> QED
    BY Zenon, <2>1 DEF Move
<1> QED
  BY Zenon, <1>4, <1>5, <1>6

(* A fence that is in force after ExpireGenerationFencesLocked was before.  *)
LEMMA LiveInForce ==
  ASSUME TypeOK, NEW n \in Nodes, fences'[n] \in {LiveFences[n], NoFence}
  PROVE  FenceInForce(n)' => FenceInForce(n) /\ fences'[n].gen = fences[n].gen
  BY LiveFencesType DEF FenceInForce, Fenced, NoFence

(* Every step of the tables moves each node as the automaton may.           *)
LEMMA MoveStep ==
  ASSUME IInv, IInv', [Next]_vars, NEW n \in Nodes
  PROVE  Move(n)
<1> USE DEF IInv, view, senders, history
<1>1. CASE \/ UNCHANGED vars \/ Start \/ Stop
           \/ \E m \in Nodes : SendAnnouncement(m) \/ Crash(m) \/ Restart(m)
  <2>1. UNCHANGED <<members, fences>>
    BY Zenon, <1>1 DEF vars, Start, Stop, SendAnnouncement, Crash, Restart
  <2>2. FenceInForce(n)' => FenceInForce(n)
    BY Zenon, <2>1 DEF FenceInForce, Fenced
  <2> QED
    BY Zenon, <2>1, <2>2, KeepsOrForgets
<1>2. CASE Tick
  <2>1. /\ members'[n].gen = members[n].gen /\ members'[n].seq = members[n].seq
        /\ fences'[n].gen = fences[n].gen /\ fences'[n].ttl = Most(fences[n].ttl - 1, 0)
    BY Zenon, <1>2, TableTypes DEF Tick, Member, Fence
  <2>2. FenceInForce(n)' => FenceInForce(n)
    BY <2>1, TableTypes, ConfigAssumption DEF FenceInForce, Fenced, Most
  <2> QED
    BY Zenon, <2>1, <2>2, KeepsOrForgets
<1>3. CASE ExpireMembers
  <2>1. CASE n \in Gone
    <3>1. /\ Active(n) /\ members'[n] = NoMember
          /\ fences'[n] = FenceOf(n) \/ fences'[n] = NoFence
      BY Zenon, <1>3, <2>1, ExpireNode
    <3>2. ~Active(n)'
      BY <3>1 DEF Active, NoMember
    <3>3. CASE fences'[n] = FenceOf(n)
      <4>1. fences'[n].ttl = FenceTimeout /\ fences'[n].gen = members[n].gen
        BY Zenon, <3>1, <3>3, FenceOfType
      <4>2. FenceInForce(n)'
        BY <3>1, <4>1, ConfigAssumption DEF FenceInForce, Fenced, Active
      <4>3. Lease!Expire(n)
        BY Zenon, <3>1, <3>2, <4>1, <4>2 DEF Lease!Expire
      <4> QED
        BY Zenon, <4>3 DEF Move
    <3>4. CASE fences'[n] = NoFence
      <4>1. ~FenceInForce(n)'
        BY <3>4 DEF FenceInForce, Fenced, NoFence
      <4>2. Lease!Forget(n)
        BY Zenon, <3>1, <3>2, <4>1 DEF Lease!Forget
      <4> QED
        BY Zenon, <4>2 DEF Move
    <3> QED
      BY Zenon, <3>1, <3>3, <3>4
  <2>2. CASE n \notin Gone
    <3>1. members'[n] = members[n] /\ fences'[n] \in {LiveFences[n], NoFence}
      BY Zenon, <1>3, <2>2, ExpireNode
    <3> QED
      BY Zenon, <3>1, LiveInForce, KeepsOrForgets
  <2> QED
    BY Zenon, <2>1, <2>2
<1>4. ASSUME NEW a \in sent, AcceptUnknown(a) PROVE Move(n)
  <2>1. CASE n # a.node \/ ~(PassesFence(a, LiveFences[a.node]) /\ Room)
    <3>1. members'[n] = members[n] /\ fences'[n] = LiveFences[n]
      BY Zenon, <1>4, <2>1, SentType, LiveFencesType, TableTypes DEF AcceptUnknown, FencesAfterJoin
    <3> QED
      BY Zenon, <3>1, LiveInForce, KeepsOrForgets
  <2>2. CASE n = a.node /\ PassesFence(a, LiveFences[a.node]) /\ Room
    <3>1. members'[n] = Record(a) /\ ~Active(n)
      BY Zenon, <1>4, <2>2, SentType, TableTypes DEF AcceptUnknown
    <3> QED
      BY Zenon, <2>2, <3>1, Activates
  <2> QED
    BY Zenon, <2>1, <2>2
<1>5. ASSUME NEW a \in sent, AcceptKnown(a) PROVE Move(n)
  <2>1. fences'[n] = LiveFences[n]
    BY Zenon, <1>5 DEF AcceptKnown
  <2>2. CASE n # a.node \/ ~Fresh(a, members[a.node])
    <3>1. members'[n] = members[n]
      BY Zenon, <1>5, <2>2, SentType, TableTypes DEF AcceptKnown
    <3> QED
      BY Zenon, <2>1, <3>1, LiveInForce, KeepsOrForgets
  <2>3. CASE n = a.node /\ Fresh(a, members[a.node])
    <3>1. members'[n] = Record(a) /\ Active(n)
      BY Zenon, <1>5, <2>3, SentType, TableTypes DEF AcceptKnown
    <3> QED
      BY Zenon, <2>3, <3>1, Activates
  <2> QED
    BY Zenon, <2>2, <2>3
<1> QED
  BY Zenon, <1>1, <1>2, <1>3, <1>4, <1>5 DEF Next

(* The member and fence tables implement the lease automaton for any set of *)
(* nodes, timeouts and capacities: heartbeats are taken in order, and a     *)
(* fenced node comes back only as a newer incarnation (Accept,              *)
(* ExpireMembers).                                                          *)
THEOREM LeaseRefinement == Spec => ImplementsLease
<1>1. Init => Lease!Init
  BY DEF Init, Lease!Init, Active, FenceInForce, Fenced, NoMember, NoFence
<1>2. IInv /\ IInv' /\ [Next]_vars => Lease!Next
  BY Zenon, MoveStep DEF Lease!Next, Move
<1> QED
  BY <1>1, <1>2, InitInv, StepInv, PTL DEF Spec, ImplementsLease, Lease!Spec
=============================================================================
