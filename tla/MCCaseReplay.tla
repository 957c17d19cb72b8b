---------------------------- MODULE MCCaseReplay ----------------------------
(***************************************************************************)
(* The worked case, which has a manifest and whose fixture proposal flags  *)
(* one field, beside an eligible source without a manifest, for which a    *)
(* provider may draft a proposal that flags the field, one that does not    *)
(* and one under which two of the rows claim one identity.                 *)
(***************************************************************************)
EXTENDS CaseReplay

CONSTANTS fix44, dialect, flagging, clean, clashing, f1, o1, o2

MCMutationsOf ==
    [s \in Scenarios |-> IF s = fix44 THEN {"baseline", "shuffle"}
                         ELSE {"baseline"}]

MCFlaggedOf ==
    [p \in Proposals |->
        IF p.draft = flagging \/ p = Fixture(fix44) THEN {f1} ELSE {}]

MCRowsUnder ==
    [p \in Proposals |-> IF p.draft = clashing THEN "conflicting" ELSE "replayable"]
=============================================================================
