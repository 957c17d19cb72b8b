----------------------------- MODULE ReplayRoute -----------------------------
(***************************************************************************)
(* One POST /api/replay, from its bytes to its response                    *)
(* (apps/web/src/app/api/replay/route.ts and replayApproved in             *)
(* packages/replay-engine/src/approval-validation.ts).                     *)
(*                                                                         *)
(* The request passes gate after gate.  The first gate with an issue sends *)
(* it back to a review state; a request with none is replayed.  Between    *)
(* gates the request's workflow moves, and throws if the move is not in    *)
(* WORKFLOW_TRANSITIONS; a response that breaks its own schema throws too. *)
(* Both throws leave the route as status 500.                              *)
(*                                                                         *)
(* A request is kept as what the gates can tell of it.  The mutation is    *)
(* not: "duplicate" repeats an event that canonicalization then drops.     *)
(***************************************************************************)
EXTENDS Naturals, Sequences

CONSTANTS
    Declared,     \* the row numbers of the committed artifact
    Numbers,      \* the row numbers a request may name
    Paths,        \* the field paths of a mapping proposal
    Submitted,    \* the requests that are sent
    Null

Rows == [committedArtifact : BOOLEAN, number : Numbers,
         values : {"committed", "altered", "incomplete"}]

Approvals == [decision : {"APPROVED", "REJECTED"}, hashMatches : BOOLEAN,
              overrides : SUBSET Paths]

Proposals == [flagged : SUBSET Paths, executable : BOOLEAN,
              applies : BOOLEAN, eventsConflict : BOOLEAN]

Manifests == [decision : {"APPROVED", "REJECTED"}, hashMatches : BOOLEAN,
              profiled : BOOLEAN, oneRule : BOOLEAN]

Requests ==
    [body : {"not JSON", "not a request", "request"},
     rows : Seq(Rows), receiptAccepted : BOOLEAN, proposal : Proposals,
     approval : Approvals \cup {Null}, manifest : Manifests \cup {Null}]

ASSUME ReplayRouteAssumption ==
    /\ Declared \subseteq Numbers
    /\ Submitted \subseteq Requests
    /\ Null \notin Approvals
    /\ Null \notin Manifests

-----------------------------------------------------------------------------
(* The workflow every request owns. *)

WorkflowStates ==
    {"UPLOADED", "MAPPING_PROPOSED", "MAPPING_REVIEW_REQUIRED",
     "MAPPING_APPROVED", "CASE_PROPOSED", "CASE_REVIEW_REQUIRED",
     "CASE_APPROVED", "INPUT_REVIEW_REQUIRED", "REPLAYED", "EXPORTED"}

ReviewStates ==
    {"MAPPING_REVIEW_REQUIRED", "CASE_REVIEW_REQUIRED",
     "INPUT_REVIEW_REQUIRED"}

\* WORKFLOW_TRANSITIONS
Transitions(from) ==
    CASE from = "UPLOADED" -> {"MAPPING_PROPOSED", "INPUT_REVIEW_REQUIRED"}
      [] from = "MAPPING_PROPOSED" ->
           {"MAPPING_REVIEW_REQUIRED", "MAPPING_APPROVED",
            "INPUT_REVIEW_REQUIRED"}
      [] from = "MAPPING_REVIEW_REQUIRED" ->
           {"MAPPING_PROPOSED", "INPUT_REVIEW_REQUIRED"}
      [] from = "MAPPING_APPROVED" ->
           {"CASE_PROPOSED", "INPUT_REVIEW_REQUIRED"}
      [] from = "CASE_PROPOSED" ->
           {"CASE_REVIEW_REQUIRED", "CASE_APPROVED", "INPUT_REVIEW_REQUIRED"}
      [] from = "CASE_REVIEW_REQUIRED" ->
           {"CASE_PROPOSED", "INPUT_REVIEW_REQUIRED"}
      [] from = "CASE_APPROVED" -> {"REPLAYED", "INPUT_REVIEW_REQUIRED"}
      [] from = "INPUT_REVIEW_REQUIRED" -> {"UPLOADED"}
      [] from = "REPLAYED" -> {"EXPORTED"}
      [] from = "EXPORTED" -> {}

ApprovalCodes ==
    {"APPROVAL_RECORD_REQUIRED", "APPROVAL_REJECTED",
     "APPROVED_ARTIFACT_HASH_MISMATCH"}

EventCodes == {"CONFLICTING_EVENT"}

\* Mutant of ReviewCodes: the contract forgets that a row may be missing.
CodesWithoutMissing(state) ==
    CASE state = "INPUT_REVIEW_REQUIRED" ->
           {"INVALID_JSON", "INVALID_REQUEST", "SOURCE_ARTIFACT_NOT_APPROVED",
            "SOURCE_ROW_MISMATCH", "APPROVED_SOURCE_COLUMN_MISSING",
            "MAPPING_APPLICATION_REVIEW_REQUIRED"} \cup EventCodes
      [] state = "MAPPING_REVIEW_REQUIRED" ->
           ApprovalCodes \cup {"MAPPING_OVERRIDE_REQUIRED",
                               "MAPPING_APPLICATION_REVIEW_REQUIRED"}
      [] state = "CASE_REVIEW_REQUIRED" ->
           ApprovalCodes \cup {"OUTSIDE_DATASET_PROFILE",
                               "RULE_CONFIGURATION_REQUIRED"}

\* The codes ReplayReviewResponseSchema admits in each review state.  The six
\* canonicalization errors stand as CONFLICTING_EVENT, the four ways a case
\* may leave its dataset as OUTSIDE_DATASET_PROFILE.
ReviewCodes(state) ==
    CASE state = "INPUT_REVIEW_REQUIRED" ->
           {"INVALID_JSON", "INVALID_REQUEST", "SOURCE_ARTIFACT_NOT_APPROVED",
            "SOURCE_ROW_MISMATCH", "SOURCE_ROW_MISSING",
            "APPROVED_SOURCE_COLUMN_MISSING",
            "MAPPING_APPLICATION_REVIEW_REQUIRED"} \cup EventCodes
      [] state = "MAPPING_REVIEW_REQUIRED" ->
           ApprovalCodes \cup {"MAPPING_OVERRIDE_REQUIRED",
                               "MAPPING_APPLICATION_REVIEW_REQUIRED"}
      [] state = "CASE_REVIEW_REQUIRED" ->
           ApprovalCodes \cup {"OUTSIDE_DATASET_PROFILE",
                               "RULE_CONFIGURATION_REQUIRED"}

AllCodes == UNION {ReviewCodes(state) : state \in ReviewStates}

-----------------------------------------------------------------------------
(* The gates: what each finds wrong with a request. *)

If(condition, code) == IF condition THEN {code} ELSE {}

Indices(q) == DOMAIN q.rows

IsDeclared(row) == row.committedArtifact /\ row.number \in Declared

\* sourceRowMismatchIssues: rows of another artifact are left to a later gate,
\* and only the columns a row has are compared.
MismatchIssues(q) ==
    If(\E i \in Indices(q) :
          /\ q.rows[i].committedArtifact
          /\ q.rows[i].number \notin Declared \/ q.rows[i].values = "altered",
       "SOURCE_ROW_MISMATCH")

\* validateApprovalRecord
RecordIssues(record) ==
    IF record = Null THEN {"APPROVAL_RECORD_REQUIRED"}
    ELSE If(record.decision # "APPROVED", "APPROVAL_REJECTED")
         \cup If(~record.hashMatches, "APPROVED_ARTIFACT_HASH_MISMATCH")

\* requiresMappingOverride and justifiedOverridePaths: a flagged field needs an
\* override with a reason; an absent record is not searched for any.
OverrideIssues(q) ==
    If(q.approval # Null
          /\ ~(q.proposal.flagged \subseteq q.approval.overrides),
       "MAPPING_OVERRIDE_REQUIRED")

\* Mutant of MissingIssues: the code counts rows instead of naming them.
EnoughRows(q) == If(q.rows = <<>>, "SOURCE_ROW_MISSING")

\* Every declared row of the approved artifact was submitted.
MissingIssues(q) ==
    If(\E n \in Declared : \A i \in Indices(q) : q.rows[i].number # n,
       "SOURCE_ROW_MISSING")

Repeated(q) ==
    \E i, j \in Indices(q) : i # j /\ q.rows[i].number = q.rows[j].number

\* applyApprovedMapping: a repeated coordinate ends it before any row is read.
ApplicationIssues(q) ==
    IF Repeated(q) THEN {"MAPPING_APPLICATION_REVIEW_REQUIRED"}
    ELSE If(\E i \in Indices(q) : q.rows[i].values = "incomplete",
            "APPROVED_SOURCE_COLUMN_MISSING")
         \cup If(~q.proposal.applies, "MAPPING_APPLICATION_REVIEW_REQUIRED")

Gates ==
    <<"json", "schema", "receipt", "rows", "approval", "structure", "foreign",
      "missing", "application", "events", "case", "profile", "rules">>

Issues(gate, q) ==
    CASE gate = "json" -> If(q.body = "not JSON", "INVALID_JSON")
      [] gate = "schema" -> If(q.body = "not a request", "INVALID_REQUEST")
      [] gate = "receipt" ->
           If(~q.receiptAccepted, "MAPPING_APPLICATION_REVIEW_REQUIRED")
      [] gate = "rows" -> MismatchIssues(q)
      [] gate = "approval" -> RecordIssues(q.approval) \cup OverrideIssues(q)
      [] gate = "structure" ->
           If(~q.proposal.executable, "MAPPING_APPLICATION_REVIEW_REQUIRED")
      [] gate = "foreign" ->
           If(\E i \in Indices(q) : ~q.rows[i].committedArtifact,
              "SOURCE_ARTIFACT_NOT_APPROVED")
      [] gate = "missing" -> MissingIssues(q)
      [] gate = "application" -> ApplicationIssues(q)
      [] gate = "events" -> If(q.proposal.eventsConflict, "CONFLICTING_EVENT")
      [] gate = "case" -> RecordIssues(q.manifest)
      [] gate = "profile" ->
           If(~q.manifest.profiled, "OUTSIDE_DATASET_PROFILE")
      [] gate = "rules" ->
           If(~q.manifest.oneRule, "RULE_CONFIGURATION_REQUIRED")

\* Where a gate sends the request it stops.
ReviewState(gate) ==
    CASE gate \in {"receipt", "approval", "structure"} ->
           "MAPPING_REVIEW_REQUIRED"
      [] gate \in {"case", "profile", "rules"} -> "CASE_REVIEW_REQUIRED"
      [] OTHER -> "INPUT_REVIEW_REQUIRED"

-----------------------------------------------------------------------------
VARIABLES
    request,     \* what was sent
    at,          \* the index in Gates of the next gate
    state,       \* workflow.state
    history,     \* workflow.history
    response     \* Null until the route answers

vars == <<request, at, state, history, response>>

\* Refusals carry codes, results none; a throw carries nothing.
Responses ==
    [status : {200}, state : {"MAPPING_APPROVED", "REPLAYED"}, codes : {{}}]
    \cup [status : {422}, state : ReviewStates,
          codes : (SUBSET AllCodes) \ {{}}]
    \cup [status : {500}, state : {"UPLOADED"}, codes : {{}}]

ASSUME NoResponseIsNull == Null \notin Responses

TypeOK ==
    /\ request \in Requests
    /\ at \in 1 .. Len(Gates) + 1
    /\ state \in WorkflowStates
    /\ history \in Seq(WorkflowStates)
    /\ response \in Responses \cup {Null}

Init ==
    /\ request \in Submitted
    /\ at = 1
    /\ state = "UPLOADED"
    /\ history = <<"UPLOADED">>
    /\ response = Null

Respond(status, inState, codes) ==
    response' = [status |-> status, state |-> inState, codes |-> codes]

InternalError == Respond(500, "UPLOADED", {}) /\ UNCHANGED <<state, history>>

\* requireTransition, when it does not throw.
Move(to) ==
    /\ to \in Transitions(state)
    /\ state' = to
    /\ history' = Append(history, to)

FoundAt == Issues(Gates[at], request)

Deciding == response = Null /\ at <= Len(Gates)

\* A gate found issues: the workflow moves to review and the route answers.
Refuse ==
    /\ Deciding
    /\ FoundAt # {}
    /\ LET to == ReviewState(Gates[at])
       IN  IF to \in Transitions(state) /\ FoundAt \subseteq ReviewCodes(to)
           THEN Move(to) /\ Respond(422, to, FoundAt)
           ELSE InternalError
    /\ UNCHANGED <<request, at>>

\* What the workflow moves to once a gate is passed, where it moves.
Milestone(gate) ==
    CASE gate = "schema" -> "MAPPING_PROPOSED"
      [] gate = "structure" -> "MAPPING_APPROVED"
      [] gate = "events" -> "CASE_PROPOSED"
      [] gate = "rules" -> "CASE_APPROVED"

Pass ==
    /\ Deciding
    /\ FoundAt = {}
    /\ Gates[at] = "events" => request.manifest # Null
    /\ IF Gates[at] \in {"schema", "structure", "events", "rules"}
       THEN IF Milestone(Gates[at]) \in Transitions(state)
            THEN Move(Milestone(Gates[at])) /\ UNCHANGED response
            ELSE InternalError
       ELSE UNCHANGED <<state, history, response>>
    /\ at' = at + 1
    /\ UNCHANGED request

\* replayFoundation: without a manifest the mapped events are the result.
ReplayFoundation ==
    /\ Deciding
    /\ Gates[at] = "events"
    /\ FoundAt = {}
    /\ request.manifest = Null
    /\ Respond(200, state, {})
    /\ UNCHANGED <<request, at, state, history>>

\* replayRapidPriceLift
Replay ==
    /\ response = Null
    /\ at = Len(Gates) + 1
    /\ IF "REPLAYED" \in Transitions(state)
       THEN Move("REPLAYED") /\ Respond(200, "REPLAYED", {})
       ELSE InternalError
    /\ UNCHANGED <<request, at>>

Next == Refuse \/ Pass \/ ReplayFoundation \/ Replay

Spec == Init /\ [][Next]_vars

-----------------------------------------------------------------------------
(* What a request must be, said without the gates. *)

\* The rows are the committed rows, in any order: all of them, each once.
RowsAreCommitted(q) ==
    /\ \A i \in Indices(q) :
         IsDeclared(q.rows[i]) /\ q.rows[i].values = "committed"
    /\ \A n \in Declared : \E i \in Indices(q) : q.rows[i].number = n
    /\ ~Repeated(q)

Stands(record) ==
    record # Null /\ record.decision = "APPROVED" /\ record.hashMatches

MappingStands(q) ==
    /\ q.receiptAccepted
    /\ Stands(q.approval)
    /\ q.proposal.flagged \subseteq q.approval.overrides
    /\ q.proposal.executable

InputStands(q) ==
    /\ q.body = "request"
    /\ RowsAreCommitted(q)
    /\ q.proposal.applies
    /\ ~q.proposal.eventsConflict

CaseStands(q) ==
    q.manifest # Null => Stands(q.manifest) /\ q.manifest.profiled /\ q.manifest.oneRule

\* A result is answered only to a request whose rows are exactly the committed
\* ones and whose mapping and case are approved as they stand, and a case is
\* evaluated only if one was submitted.
ResultIsEarned ==
    response # Null /\ response.status = 200 =>
        /\ MappingStands(request) /\ InputStands(request) /\ CaseStands(request)
        /\ response.state = "REPLAYED" <=> request.manifest # Null

\* A refusal sends the reviewer to a stage that really is at fault, and to the
\* case only once nothing before it is.
RefusalIsHonest ==
    response # Null /\ response.status = 422 =>
        /\ response.state = "MAPPING_REVIEW_REQUIRED" => ~MappingStands(request)
        /\ response.state = "INPUT_REVIEW_REQUIRED" => ~InputStands(request)
        /\ response.state = "CASE_REVIEW_REQUIRED" =>
             /\ MappingStands(request)
             /\ InputStands(request)
             /\ ~CaseStands(request)

\* What the route answers is honest, result or refusal.
ResponseIsHonest == ResultIsEarned /\ RefusalIsHonest

\* No request makes the route throw: every move it asks of the workflow is a
\* legal transition, and every refusal it writes fits the response contract.
NeverInternalError == response # Null => response.status # 500

\* The response names the state the request's workflow is in, and the history
\* leads there from UPLOADED by legal transitions.
ResponseTellsWorkflow ==
    /\ history[1] = "UPLOADED" /\ history[Len(history)] = state
    /\ \A i \in 1 .. Len(history) - 1 : history[i + 1] \in Transitions(history[i])
    /\ response # Null => response.state = state
=============================================================================
