-------------------------- MODULE EvidenceHistory --------------------------
(***************************************************************************)
(* What the snapshot store promises its readers: each origin has a history *)
(* of bytes that only grows and in which neighbours differ, and a result,  *)
(* once there, names bytes of those histories for ever.  Transactions,     *)
(* connections and crashes do not exist here.                              *)
(***************************************************************************)
EXTENDS Naturals, Sequences

CONSTANTS HistoryOrigins, HistoryBytes

VARIABLES history, conclusions

historyVars == <<history, conclusions>>

HistoryInit ==
    /\ history = [o \in HistoryOrigins |-> << >>]
    /\ conclusions = {}

Retain(o, b) ==
    /\ Len(history[o]) > 0 => history[o][Len(history[o])] # b
    /\ history' = [history EXCEPT ![o] = Append(@, b)]
    /\ UNCHANGED conclusions

\* A place in a history: the n-th bytes of an origin.
Place(o, n) == [origin |-> o, nth |-> n, bytes |-> history[o][n]]

Places == UNION {{Place(o, n) : n \in DOMAIN history[o]} : o \in HistoryOrigins}

\* A conclusion is the set of places it was computed from.
Conclude(places) ==
    /\ places # {}
    /\ conclusions' = conclusions \cup {places}
    /\ UNCHANGED history

HistoryNext ==
    \/ \E o \in HistoryOrigins, b \in HistoryBytes : Retain(o, b)
    \/ \E places \in SUBSET Places : Conclude(places)

HistorySpec == HistoryInit /\ [][HistoryNext]_historyVars
=============================================================================
