------------------------------ MODULE MCDdsRpc ------------------------------
(* An instance of DdsRpc for TLC: the first two callers use one            *)
(* participant, the others another.                                        *)
EXTENDS DdsRpc

CONSTANTS c1, c2, p1, p2

HomeOf == [c \in Callers |-> IF c \in {c1, c2} THEN p1 ELSE p2]
RequestBound == [p \in Participants |-> IF p = p1 THEN 2 ELSE 1]
=============================================================================
