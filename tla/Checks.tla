------------------------------- MODULE Checks -------------------------------
(***************************************************************************)
(* Validation in the code is a list of checks.  Where the first failure    *)
(* decides, the reasons are read by FirstOf; where every failure is        *)
(* reported, by Failures.                                                  *)
(***************************************************************************)
EXTENDS Integers, Sequences, FiniteSets, SequencesExt

CONSTANT Null       \* a field that is absent, a value that is not there yet

\* The reason of a check that failed.
Unless(condition, reason) == IF condition THEN "none" ELSE reason

\* The first reason given, in the order of the checks.
FirstOf(reasons) ==
    LET given == {i \in DOMAIN reasons : reasons[i] # "none"}
    IN  IF given = {} THEN "none" ELSE reasons[Min(given)]

\* The codes of the checks that failed.
Failures(reasons) == Range(reasons) \ {"none"}

Collected(s, field(_)) == {field(s[i]) : i \in DOMAIN s}

AllDistinct(s, field(_)) == Cardinality(Collected(s, field)) = Len(s)
=============================================================================
