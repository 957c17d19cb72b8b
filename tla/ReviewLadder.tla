---------------------------- MODULE ReviewLadder ----------------------------
(***************************************************************************)
(* What the replay surface promises a reviewer: the case stands on one     *)
(* rung of a ladder, and it is climbed one rung at a time, each rung by a  *)
(* decision or an answer of its own.  Any change may knock it down, and    *)
(* nothing carries it past a rung.                                         *)
(***************************************************************************)
EXTENDS Naturals

CONSTANT Rungs    \* 0 nothing approved .. the last: a complete result

VARIABLE rung

LadderInit == rung = 0

Climb == rung + 1 \in Rungs /\ rung' = rung + 1

Fall == \E lower \in Rungs : lower < rung /\ rung' = lower

LadderNext == Climb \/ Fall

LadderSpec == LadderInit /\ [][LadderNext]_rung
=============================================================================
