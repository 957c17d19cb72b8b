---------------------------- MODULE DailyCallCap ----------------------------
(***************************************************************************)
(* What the public model budget promises the person who pays for it: on    *)
(* no day are more than Cap provider calls made.  Nothing is said of       *)
(* stores, reservations or clocks.                                         *)
(***************************************************************************)
EXTENDS Naturals

CONSTANTS Cap, CapDays

VARIABLES today, spent

capVars == <<today, spent>>

CapInit ==
    /\ today = 0
    /\ spent = [d \in CapDays |-> 0]

SpendOne ==
    /\ spent[today] < Cap
    /\ spent' = [spent EXCEPT ![today] = @ + 1]
    /\ UNCHANGED today

NextDay ==
    /\ today + 1 \in CapDays
    /\ today' = today + 1
    /\ UNCHANGED spent

CapNext == SpendOne \/ NextDay

CapSpec == CapInit /\ [][CapNext]_capVars
=============================================================================
