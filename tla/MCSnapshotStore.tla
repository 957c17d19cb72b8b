-------------------------- MODULE MCSnapshotStore --------------------------
(* Two processes; when there is time, it is up after the run has begun that *)
(* permission to use an origin is reviewed.                                *)
EXTENDS SnapshotStore

CONSTANTS p1, p2, o1, o2, a, b

MCReviewedAt == [o \in Origins |-> IF MaxTime = 0 THEN 0 ELSE 1]

Ref(i, bytes) == [row |-> i, sha |-> bytes]

\* A result of one input, one of two, and one whose references may not exist.
MCOffered == {{Ref(1, a)}, {Ref(1, a), Ref(2, b)}, {Ref(2, a), Ref(3, b)}}
MCNone == {}
=============================================================================
