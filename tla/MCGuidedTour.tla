---------------------------- MODULE MCGuidedTour ----------------------------
(***************************************************************************)
(* The worked case, whose fixture proposal flags nothing, with a shuffle   *)
(* to choose in working mode, beside an eligible source without a case for *)
(* which a provider drafts a proposal that flags a field.                  *)
(***************************************************************************)
EXTENDS GuidedTour

CONSTANTS fix44, dialect, flagging, f1, o1, o2

MCMutationsOf ==
    [s \in Scenarios |-> IF s = fix44 THEN {"baseline", "shuffle"}
                         ELSE {"baseline"}]

MCFlaggedOf ==
    [p \in Proposals |-> IF p.draft = flagging THEN {f1} ELSE {}]

MCRowsUnder == [p \in Proposals |-> "replayable"]
=============================================================================
