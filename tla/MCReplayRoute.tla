---------------------------- MODULE MCReplayRoute ----------------------------
(***************************************************************************)
(* Requests over a committed artifact of two rows: every sequence of up to *)
(* three rows under a good mapping approval and under none, and every      *)
(* proposal with every mapping approval, and with every manifest.          *)
(***************************************************************************)
EXTENDS ReplayRoute

CONSTANTS path

MCNumbers == 1 .. 3
MCDeclared == 1 .. 2

Row(n, v) == [committedArtifact |-> TRUE, number |-> n, values |-> v]

MCRows ==
    {Row(n, v) : n \in MCNumbers, v \in {"committed", "altered", "incomplete"}}
    \cup {[committedArtifact |-> FALSE, number |-> 1, values |-> "committed"]}

RowSequences == UNION {[1 .. n -> MCRows] : n \in 1 .. 3}

Good == <<Row(2, "committed"), Row(1, "committed")>>

GoodProposal == [flagged |-> {path}, executable |-> TRUE, applies |-> TRUE,
                 eventsConflict |-> FALSE]

GoodApproval == [decision |-> "APPROVED", hashMatches |-> TRUE,
                 overrides |-> {path}]

GoodManifest == [decision |-> "APPROVED", hashMatches |-> TRUE,
                 profiled |-> TRUE, oneRule |-> TRUE]

MCRequest(b, rs, r, p, a, m) ==
    [body |-> b, rows |-> rs, receiptAccepted |-> r, proposal |-> p,
     approval |-> a, manifest |-> m]

MCSubmitted == UNION
    {{MCRequest("request", rs, TRUE, GoodProposal, a, m) :
        rs \in RowSequences, a \in {GoodApproval, Null},
        m \in {GoodManifest, Null}},
     {MCRequest("request", rs, r, p, a, m) :
        rs \in {Good, Tail(Good)}, r \in BOOLEAN, p \in Proposals,
        a \in Approvals \cup {Null}, m \in {GoodManifest, Null}},
     {MCRequest("request", Good, TRUE, p, GoodApproval, m) :
        p \in Proposals, m \in Manifests},
     {MCRequest(b, Good, TRUE, GoodProposal, Null, Null) :
        b \in {"not JSON", "not a request"}}}
=============================================================================
