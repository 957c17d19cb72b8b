------------------------- MODULE ReplayRouteProofs -------------------------
(***************************************************************************)
(* What holds of the replay route for every request it can be sent, over   *)
(* an artifact of any size and a proposal of any shape.  The argument: the *)
(* gates that were passed say, taken together, that the mapping, the input *)
(* and the case stand; and how far a request has come fixes the state its  *)
(* workflow is in, so that every move a gate asks for is a legal one.      *)
(***************************************************************************)
EXTENDS ReplayRoute, TLAPS

MappingGates == {"receipt", "approval", "structure"}
InputGates == {"json", "schema", "rows", "foreign", "missing", "application",
               "events"}
CaseGates == {"case", "profile", "rules"}

Clear(gate) == Issues(gate, request) = {}

\* Every gate before the next one found nothing, and the case is judged only
\* where there is one.
PassedAreClear ==
    /\ \A i \in 1 .. at - 1 : Clear(Gates[i])
    /\ at > 10 => request.manifest # Null

\* How far the request has come fixes the state its workflow is in.
StateFollowsGate ==
    response = Null =>
        /\ at \in 1 .. 2 => state = "UPLOADED"
        /\ at \in 3 .. 6 => state = "MAPPING_PROPOSED"
        /\ at \in 7 .. 10 => state = "MAPPING_APPROVED"
        /\ at \in 11 .. 13 => state = "CASE_PROPOSED"
        /\ at = 14 => state = "CASE_APPROVED"

\* What an answer says of the request, in terms of the gate it was given at.
AnswerFollowsGate ==
    response # Null =>
        \/ /\ response.status = 422
           /\ at \in 1 .. 13
           /\ ~Clear(Gates[at])
           /\ response.state = ReviewState(Gates[at])
        \/ /\ response.status = 200
           /\ response.state = "MAPPING_APPROVED"
           /\ at = 10
           /\ Clear("events")
           /\ request.manifest = Null
        \/ /\ response.status = 200
           /\ response.state = "REPLAYED"
           /\ at = 14

RInv ==
    /\ TypeOK
    /\ Len(history) >= 1
    /\ PassedAreClear
    /\ StateFollowsGate
    /\ AnswerFollowsGate
    /\ ResponseTellsWorkflow

-----------------------------------------------------------------------------
\* The gates by their index.
LEMMA GateNames ==
    /\ Len(Gates) = 13
    /\ Gates[1] = "json" /\ Gates[2] = "schema" /\ Gates[3] = "receipt"
    /\ Gates[4] = "rows" /\ Gates[5] = "approval" /\ Gates[6] = "structure"
    /\ Gates[7] = "foreign" /\ Gates[8] = "missing"
    /\ Gates[9] = "application" /\ Gates[10] = "events" /\ Gates[11] = "case"
    /\ Gates[12] = "profile" /\ Gates[13] = "rules"
  BY DEF Gates

\* Every index is the index of one gate.
LEMMA GateIndex ==
    ASSUME NEW i \in 1 .. 13
    PROVE  /\ Gates[i] \in MappingGates \cup InputGates \cup CaseGates
           /\ Gates[i] = "json" <=> i = 1
           /\ Gates[i] = "schema" <=> i = 2
           /\ Gates[i] \in {"receipt", "approval", "structure"} <=> i \in {3, 5, 6}
           /\ Gates[i] = "structure" <=> i = 6
           /\ Gates[i] = "events" <=> i = 10
           /\ Gates[i] \in CaseGates <=> i \in 11 .. 13
           /\ Gates[i] = "rules" <=> i = 13
  <1>1. i = 1 \/ i = 2 \/ i = 3 \/ i = 4 \/ i = 5 \/ i = 6 \/ i = 7 \/ i = 8
          \/ i = 9 \/ i = 10 \/ i = 11 \/ i = 12 \/ i = 13
    OBVIOUS
  <1> QED
    BY <1>1, GateNames DEF MappingGates, InputGates, CaseGates

\* What a gate finds fits the response schema of the state it refuses into.
LEMMA CodesFitTheirState ==
    ASSUME NEW g \in MappingGates \cup InputGates \cup CaseGates, NEW q
    PROVE  Issues(g, q) \subseteq ReviewCodes(ReviewState(g))
  <1>1. CASE g = "json"
    BY <1>1 DEF Issues, ReviewState, ReviewCodes, If
  <1>2. CASE g = "schema"
    BY <1>2 DEF Issues, ReviewState, ReviewCodes, If
  <1>3. CASE g = "receipt"
    BY <1>3 DEF Issues, ReviewState, ReviewCodes, If
  <1>4. CASE g = "rows"
    BY <1>4 DEF Issues, ReviewState, ReviewCodes, If, MismatchIssues
  <1>5. CASE g = "approval"
    BY <1>5 DEF Issues, ReviewState, ReviewCodes, If, RecordIssues,
                OverrideIssues, ApprovalCodes
  <1>6. CASE g = "structure"
    BY <1>6 DEF Issues, ReviewState, ReviewCodes, If
  <1>7. CASE g = "foreign"
    BY <1>7 DEF Issues, ReviewState, ReviewCodes, If
  <1>8. CASE g = "missing"
    BY <1>8 DEF Issues, ReviewState, ReviewCodes, If, MissingIssues
  <1>9. CASE g = "application"
    BY <1>9 DEF Issues, ReviewState, ReviewCodes, If, ApplicationIssues
  <1>10. CASE g = "events"
    BY <1>10 DEF Issues, ReviewState, ReviewCodes, If, EventCodes
  <1>11. CASE g = "case"
    BY <1>11 DEF Issues, ReviewState, ReviewCodes, If, RecordIssues,
                 ApprovalCodes
  <1>12. CASE g = "profile"
    BY <1>12 DEF Issues, ReviewState, ReviewCodes, If
  <1>13. CASE g = "rules"
    BY <1>13 DEF Issues, ReviewState, ReviewCodes, If
  <1> QED
    BY <1>1, <1>2, <1>3, <1>4, <1>5, <1>6, <1>7, <1>8, <1>9, <1>10, <1>11,
       <1>12, <1>13 DEF MappingGates, InputGates, CaseGates

-----------------------------------------------------------------------------
\* A submitted request has the fields, and the fields the types, of Requests.
LEMMA RequestFields ==
    ASSUME NEW q \in Requests
    PROVE  /\ q.rows \in Seq(Rows)
           /\ q.receiptAccepted \in BOOLEAN
           /\ q.proposal \in Proposals
           /\ q.approval \in Approvals \cup {Null}
           /\ q.manifest \in Manifests \cup {Null}
           /\ q.body \in {"not JSON", "not a request", "request"}
  BY DEF Requests

\* The mapping gates find nothing exactly where the mapping stands.
LEMMA MappingGatesSay ==
    ASSUME NEW q \in Requests
    PROVE  (\A g \in MappingGates : Issues(g, q) = {}) <=> MappingStands(q)
  <1>1. Issues("receipt", q) = {} <=> q.receiptAccepted
    BY RequestFields DEF Issues, If
  <1>2. Issues("structure", q) = {} <=> q.proposal.executable
    BY RequestFields DEF Issues, If, Proposals
  <1>3. RecordIssues(q.approval) = {} <=> Stands(q.approval)
    BY RequestFields DEF RecordIssues, Stands, If, Approvals
  <1>4. Stands(q.approval) =>
          (OverrideIssues(q) = {}
             <=> q.proposal.flagged \subseteq q.approval.overrides)
    BY DEF OverrideIssues, Stands, If
  <1>5. Issues("approval", q) = {} <=>
          /\ Stands(q.approval)
          /\ q.proposal.flagged \subseteq q.approval.overrides
    <2>1. Issues("approval", q) = RecordIssues(q.approval) \cup OverrideIssues(q)
      BY DEF Issues
    <2> QED
      BY <2>1, <1>3, <1>4
  <1> QED
    BY <1>1, <1>2, <1>5 DEF MappingGates, MappingStands

\* The input gates find nothing exactly where the rows are the committed ones,
\* and they apply and canonicalize.
LEMMA InputGatesSay ==
    ASSUME NEW q \in Requests
    PROVE  (\A g \in InputGates : Issues(g, q) = {}) <=> InputStands(q)
  <1> DEFINE N == DOMAIN q.rows
             NoMismatch == \A i \in N : q.rows[i].committedArtifact =>
                 q.rows[i].number \in Declared /\ q.rows[i].values # "altered"
             NoForeign == \A i \in N : q.rows[i].committedArtifact
             NoMissing == \A n \in Declared : \E i \in N : q.rows[i].number = n
             NoGap == \A i \in N : q.rows[i].values # "incomplete"
  <1>1. \A i \in N : /\ q.rows[i].committedArtifact \in BOOLEAN
                     /\ q.rows[i].values \in {"committed", "altered", "incomplete"}
    <2>1. q.rows \in Seq(Rows)
      BY RequestFields
    <2>2. \A i \in N : q.rows[i] \in Rows
      BY <2>1
    <2> QED
      BY <2>2 DEF Rows
  <1>2. Issues("json", q) = {} /\ Issues("schema", q) = {} <=> q.body = "request"
    BY RequestFields DEF Issues, If
  <1>3. Issues("rows", q) = {} <=> NoMismatch
    BY <1>1 DEF Issues, MismatchIssues, If, Indices
  <1>4. Issues("foreign", q) = {} <=> NoForeign
    BY <1>1 DEF Issues, If, Indices
  <1>5. Issues("missing", q) = {} <=> NoMissing
    BY DEF Issues, MissingIssues, If, Indices
  <1>6. Issues("application", q) = {} <=>
          ~Repeated(q) /\ NoGap /\ q.proposal.applies
    <2>1. q.proposal.applies \in BOOLEAN
      BY RequestFields DEF Proposals
    <2> QED
      BY <2>1 DEF Issues, ApplicationIssues, If, Indices
  <1>7. Issues("events", q) = {} <=> ~q.proposal.eventsConflict
    BY RequestFields DEF Issues, If, Proposals, EventCodes
  <1>8. RowsAreCommitted(q) <=>
          NoMismatch /\ NoForeign /\ NoMissing /\ NoGap /\ ~Repeated(q)
    BY <1>1 DEF RowsAreCommitted, IsDeclared, Indices
  <1>9. (\A g \in InputGates : Issues(g, q) = {}) <=>
          /\ Issues("json", q) = {} /\ Issues("schema", q) = {}
          /\ Issues("rows", q) = {} /\ Issues("foreign", q) = {}
          /\ Issues("missing", q) = {} /\ Issues("application", q) = {}
          /\ Issues("events", q) = {}
    BY DEF InputGates
  <1>10. InputStands(q) <=>
           /\ q.body = "request" /\ RowsAreCommitted(q)
           /\ q.proposal.applies /\ ~q.proposal.eventsConflict
    BY RequestFields DEF InputStands, Proposals
  <1> HIDE DEF NoMismatch, NoForeign, NoMissing, NoGap
  <1> QED
    BY <1>2, <1>3, <1>4, <1>5, <1>6, <1>7, <1>8, <1>9, <1>10

\* The case gates find nothing exactly where the submitted case stands.
LEMMA CaseGatesSay ==
    ASSUME NEW q \in Requests, q.manifest # Null
    PROVE  (\A g \in CaseGates : Issues(g, q) = {}) <=> CaseStands(q)
  <1>1. q.manifest \in Manifests
    BY RequestFields
  <1>2. Issues("case", q) = {} <=> Stands(q.manifest)
    BY <1>1 DEF Issues, RecordIssues, Stands, If, Manifests
  <1>3. Issues("profile", q) = {} <=> q.manifest.profiled
    BY <1>1 DEF Issues, If, Manifests
  <1>4. Issues("rules", q) = {} <=> q.manifest.oneRule
    BY <1>1 DEF Issues, If, Manifests
  <1> QED
    BY <1>2, <1>3, <1>4 DEF CaseGates, CaseStands

-----------------------------------------------------------------------------
\* Wherever a request stands, the moves its next gate may ask for are legal.
LEMMA LegalMoves ==
    ASSUME StateFollowsGate, response = Null, at \in 1 .. 13
    PROVE  /\ ReviewState(Gates[at]) \in ReviewStates \cap Transitions(state)
           /\ Gates[at] \in {"schema", "structure", "events", "rules"} =>
                Milestone(Gates[at]) \in Transitions(state)
  <1>1. CASE at \in 1 .. 2
    <2>1. state = "UPLOADED"
      BY <1>1 DEF StateFollowsGate
    <2>2. (at = 1 /\ Gates[at] = "json") \/ (at = 2 /\ Gates[at] = "schema")
      BY <1>1, GateNames
    <2> QED
      BY <2>1, <2>2 DEF ReviewState, ReviewStates, Transitions, Milestone
  <1>2. CASE at \in 3 .. 6
    <2>1. state = "MAPPING_PROPOSED"
      BY <1>2 DEF StateFollowsGate
    <2>2. Gates[at] \in {"receipt", "rows", "approval", "structure"}
      <3>1. at = 3 \/ at = 4 \/ at = 5 \/ at = 6
        BY <1>2
      <3> QED
        BY <3>1, GateNames
    <2> QED
      BY <2>1, <2>2 DEF ReviewState, ReviewStates, Transitions, Milestone
  <1>3. CASE at \in 7 .. 10
    <2>1. state = "MAPPING_APPROVED"
      BY <1>3 DEF StateFollowsGate
    <2>2. Gates[at] \in {"foreign", "missing", "application", "events"}
      <3>1. at = 7 \/ at = 8 \/ at = 9 \/ at = 10
        BY <1>3
      <3> QED
        BY <3>1, GateNames
    <2> QED
      BY <2>1, <2>2 DEF ReviewState, ReviewStates, Transitions, Milestone
  <1>4. CASE at \in 11 .. 13
    <2>1. state = "CASE_PROPOSED"
      BY <1>4 DEF StateFollowsGate
    <2>2. Gates[at] \in {"case", "profile", "rules"}
      <3>1. at = 11 \/ at = 12 \/ at = 13
        BY <1>4
      <3> QED
        BY <3>1, GateNames
    <2> QED
      BY <2>1, <2>2 DEF ReviewState, ReviewStates, Transitions, Milestone
  <1> QED
    BY <1>1, <1>2, <1>3, <1>4

\* A legal move to a state keeps the history a path that leads there.
LEMMA MoveKeepsHistory ==
    ASSUME RInv, NEW to \in WorkflowStates, Move(to)
    PROVE  /\ state' = to
           /\ state' \in WorkflowStates
           /\ history' \in Seq(WorkflowStates)
           /\ Len(history') >= 1
           /\ history'[1] = "UPLOADED" /\ history'[Len(history')] = state'
           /\ \A i \in 1 .. Len(history') - 1 :
                 history'[i + 1] \in Transitions(history'[i])
  <1> DEFINE n == Len(history)
  <1>1. history \in Seq(WorkflowStates) /\ n \in Nat /\ n >= 1
    BY DEF RInv, TypeOK
  <1>2. /\ history' = Append(history, to) /\ to \in Transitions(state)
        /\ state' = to
    BY DEF Move
  <1>3. /\ Len(history') = n + 1 /\ history'[n + 1] = to
        /\ \A i \in 1 .. n : history'[i] = history[i]
        /\ history' \in Seq(WorkflowStates)
    BY <1>1, <1>2
  <1>4. ASSUME NEW i \in 1 .. Len(history') - 1
        PROVE  history'[i + 1] \in Transitions(history'[i])
    <2>1. CASE i = n
      BY <2>1, <1>1, <1>2, <1>3 DEF RInv, ResponseTellsWorkflow
    <2>2. CASE i \in 1 .. n - 1
      <3>1. history'[i + 1] = history[i + 1] /\ history'[i] = history[i]
        BY <2>2, <1>1, <1>3
      <3> QED
        BY <2>2, <3>1 DEF RInv, ResponseTellsWorkflow
    <2>3. i = n \/ i \in 1 .. n - 1
      BY <1>1, <1>3
    <2> QED
      BY <2>1, <2>2, <2>3
  <1> QED
    BY <1>1, <1>2, <1>3, <1>4 DEF RInv, ResponseTellsWorkflow

-----------------------------------------------------------------------------
\* The invariant holds of a request that has just arrived.
LEMMA InitRInv == ReplayRouteAssumption /\ Init => RInv
  <1> SUFFICES ASSUME ReplayRouteAssumption, Init
               PROVE  RInv
    OBVIOUS
  <1>1. TypeOK
    <2>1. history \in Seq(WorkflowStates)
      BY DEF Init, WorkflowStates
    <2> QED
      BY <2>1, GateNames DEF Init, TypeOK, WorkflowStates, ReplayRouteAssumption
  <1>2. PassedAreClear /\ StateFollowsGate /\ AnswerFollowsGate
    BY DEF Init, PassedAreClear, StateFollowsGate, AnswerFollowsGate
  <1>3. ResponseTellsWorkflow /\ Len(history) >= 1
    BY DEF Init, ResponseTellsWorkflow
  <1> QED
    BY <1>1, <1>2, <1>3 DEF RInv

\* A gate that finds issues keeps the invariant: it answers 422, never 500.
LEMMA RefuseRInv == ASSUME RInv, Refuse PROVE RInv'
  <1> DEFINE to == ReviewState(Gates[at])
  <1>1. response = Null /\ at \in 1 .. 13 /\ FoundAt # {} /\ request' = request /\ at' = at
    BY GateNames DEF RInv, TypeOK, Refuse, Deciding
  <1>2. to \in ReviewStates /\ to \in Transitions(state)
    BY <1>1, LegalMoves DEF RInv
  <1>3. FoundAt \subseteq ReviewCodes(to)
    BY <1>1, GateIndex, CodesFitTheirState DEF FoundAt
  <1>4. Move(to) /\ Respond(422, to, FoundAt)
    BY <1>2, <1>3 DEF Refuse
  <1>5. response' = [status |-> 422, state |-> to, codes |-> FoundAt]
    BY <1>4 DEF Respond
  <1>6. to \in WorkflowStates
    BY <1>2 DEF ReviewStates, WorkflowStates
  <1>7. FoundAt \in (SUBSET AllCodes) \ {{}}
    BY <1>1, <1>2, <1>3 DEF AllCodes
  <1>8. response' \in Responses
    BY <1>2, <1>5, <1>7 DEF Responses
  <1>9. TypeOK'
    BY <1>1, <1>4, <1>6, <1>8, MoveKeepsHistory DEF RInv, TypeOK
  <1>10. PassedAreClear'
    BY <1>1 DEF RInv, PassedAreClear, Clear
  <1>11. response' # Null
    BY <1>8, NoResponseIsNull
  <1>12. StateFollowsGate'
    BY <1>11 DEF StateFollowsGate
  <1>13. AnswerFollowsGate'
    <2>1. ~Clear(Gates[at])'
      BY <1>1 DEF Clear, FoundAt
    <2> QED
      BY <1>1, <1>5, <2>1 DEF AnswerFollowsGate
  <1>14. ResponseTellsWorkflow' /\ (Len(history) >= 1)'
    BY <1>4, <1>5, <1>6, MoveKeepsHistory DEF ResponseTellsWorkflow
  <1> QED
    BY <1>9, <1>10, <1>12, <1>13, <1>14 DEF RInv

\* A gate that is passed keeps the invariant, and moves the workflow legally
\* where it moves it.
LEMMA PassRInv == ASSUME RInv, Pass PROVE RInv'
  <1> DEFINE moves == Gates[at] \in {"schema", "structure", "events", "rules"}
             to == Milestone(Gates[at])
  <1>1. /\ response = Null /\ at \in 1 .. 13 /\ FoundAt = {}
        /\ request' = request /\ at' = at + 1
    BY GateNames DEF RInv, TypeOK, Pass, Deciding
  <1>2. moves => to \in Transitions(state)
    BY <1>1, LegalMoves DEF RInv
  <1>3. /\ response' = response
        /\ moves => Move(to)
        /\ ~moves => state' = state /\ history' = history
    BY <1>2 DEF Pass
  <1>4. moves => to \in WorkflowStates
    BY DEF Milestone, WorkflowStates
  <1>5. TypeOK' /\ ResponseTellsWorkflow' /\ (Len(history) >= 1)'
    <2>1. CASE moves
      <3>1. /\ state' \in WorkflowStates /\ history' \in Seq(WorkflowStates)
            /\ Len(history') >= 1 /\ history'[1] = "UPLOADED"
            /\ history'[Len(history')] = state'
            /\ \A i \in 1 .. Len(history') - 1 :
                 history'[i + 1] \in Transitions(history'[i])
        BY <2>1, <1>3, <1>4, MoveKeepsHistory
      <3> QED
        BY <3>1, <1>1, <1>3, GateNames DEF RInv, TypeOK, ResponseTellsWorkflow
    <2>2. CASE ~moves
      BY <2>2, <1>1, <1>3, GateNames DEF RInv, TypeOK, ResponseTellsWorkflow
    <2> QED
      BY <2>1, <2>2
  <1>6. PassedAreClear'
    <2>1. ASSUME NEW i \in 1 .. at' - 1
          PROVE  Issues(Gates[i], request) = {}
      <3>1. i = at \/ i \in 1 .. at - 1
        BY <1>1
      <3> QED
        BY <3>1, <1>1 DEF RInv, PassedAreClear, Clear, FoundAt
    <2>2. at' > 10 => request.manifest # Null
      <3>1. at = 10 => Gates[at] = "events"
        BY GateNames
      <3> QED
        BY <3>1, <1>1 DEF Pass, RInv, PassedAreClear
    <2> QED
      BY <2>1, <2>2, <1>1 DEF PassedAreClear, Clear
  <1>7. StateFollowsGate'
    <2>1. at = 2 => moves /\ to = "MAPPING_PROPOSED"
      BY GateNames DEF Milestone
    <2>2. at = 6 => moves /\ to = "MAPPING_APPROVED"
      BY GateNames DEF Milestone
    <2>3. at = 10 => moves /\ to = "CASE_PROPOSED"
      BY GateNames DEF Milestone
    <2>4. at = 13 => moves /\ to = "CASE_APPROVED"
      BY GateNames DEF Milestone
    <2>5. moves <=> at \in {2, 6, 10, 13}
      BY <1>1, GateIndex
    <2>6. moves => state' = to
      BY <1>3 DEF Move
    <2> HIDE DEF moves, to
    <2> QED
      BY <2>1, <2>2, <2>3, <2>4, <2>5, <2>6, <1>1, <1>3
         DEF RInv, StateFollowsGate
  <1>8. AnswerFollowsGate'
    BY <1>1, <1>3 DEF AnswerFollowsGate
  <1> QED
    BY <1>5, <1>6, <1>7, <1>8 DEF RInv

\* Answering with the mapped events alone keeps the invariant.
LEMMA FoundationRInv == ASSUME RInv, ReplayFoundation PROVE RInv'
  <1>1. /\ response = Null /\ at \in 1 .. 13 /\ Gates[at] = "events"
        /\ FoundAt = {} /\ request.manifest = Null
        /\ response' = [status |-> 200, state |-> state, codes |-> {}]
        /\ request' = request /\ at' = at /\ state' = state
        /\ history' = history
    BY GateNames DEF RInv, TypeOK, ReplayFoundation, Deciding, Respond
  <1>2. at = 10 /\ state = "MAPPING_APPROVED"
    BY <1>1, GateIndex DEF RInv, StateFollowsGate
  <1>3. response' \in Responses /\ response' # Null
    BY <1>1, <1>2, NoResponseIsNull DEF Responses
  <1>4. TypeOK' /\ ResponseTellsWorkflow' /\ (Len(history) >= 1)'
    BY <1>1, <1>3 DEF RInv, TypeOK, ResponseTellsWorkflow
  <1>5. PassedAreClear'
    BY <1>1 DEF RInv, PassedAreClear, Clear
  <1>6. StateFollowsGate'
    BY <1>3 DEF StateFollowsGate
  <1>7. AnswerFollowsGate'
    BY <1>1, <1>2, GateNames DEF AnswerFollowsGate, Clear, FoundAt
  <1> QED
    BY <1>4, <1>5, <1>6, <1>7 DEF RInv

\* Answering with a replayed case keeps the invariant.
LEMMA ReplayRInv == ASSUME RInv, Replay PROVE RInv'
  <1>1. response = Null /\ at = 14 /\ request' = request /\ at' = at
    BY GateNames DEF Replay
  <1>2. "REPLAYED" \in Transitions(state)
    BY <1>1 DEF RInv, StateFollowsGate, Transitions
  <1>3. /\ Move("REPLAYED")
        /\ response' = [status |-> 200, state |-> "REPLAYED", codes |-> {}]
    BY <1>2 DEF Replay, Respond
  <1>4. response' \in Responses /\ response' # Null
    BY <1>3, NoResponseIsNull DEF Responses
  <1>5. "REPLAYED" \in WorkflowStates
    BY DEF WorkflowStates
  <1>6. TypeOK' /\ ResponseTellsWorkflow' /\ (Len(history) >= 1)'
    BY <1>1, <1>3, <1>4, <1>5, MoveKeepsHistory
       DEF RInv, TypeOK, ResponseTellsWorkflow
  <1>7. PassedAreClear'
    BY <1>1 DEF RInv, PassedAreClear, Clear
  <1>8. StateFollowsGate'
    BY <1>4 DEF StateFollowsGate
  <1>9. AnswerFollowsGate'
    BY <1>1, <1>3 DEF AnswerFollowsGate
  <1> QED
    BY <1>6, <1>7, <1>8, <1>9 DEF RInv

\* Every step keeps the invariant.
LEMMA NextRInv == RInv /\ [Next]_vars => RInv'
  <1> SUFFICES ASSUME RInv, [Next]_vars
               PROVE  RInv'
    OBVIOUS
  <1>1. CASE Refuse
    BY <1>1, RefuseRInv
  <1>2. CASE Pass
    BY <1>2, PassRInv
  <1>3. CASE ReplayFoundation
    BY <1>3, FoundationRInv
  <1>4. CASE Replay
    BY <1>4, ReplayRInv
  <1>5. CASE UNCHANGED vars
    <2>1. /\ request' = request /\ at' = at /\ state' = state
          /\ history' = history /\ response' = response
      BY <1>5 DEF vars
    <2>2. TypeOK' /\ (Len(history) >= 1)' /\ ResponseTellsWorkflow'
      BY <2>1 DEF RInv, TypeOK, ResponseTellsWorkflow
    <2>3. PassedAreClear'
      BY <2>1 DEF RInv, PassedAreClear, Clear
    <2>4. StateFollowsGate'
      BY <2>1 DEF RInv, StateFollowsGate
    <2>5. AnswerFollowsGate'
      BY <2>1 DEF RInv, AnswerFollowsGate, Clear
    <2> QED
      BY <2>2, <2>3, <2>4, <2>5 DEF RInv
  <1> QED
    BY <1>1, <1>2, <1>3, <1>4, <1>5 DEF Next

\* The invariant holds of every request at every moment.
LEMMA RInvHolds == Spec => []RInv
  <1>1. Init => RInv
    BY InitRInv, ReplayRouteAssumption
  <1> QED
    BY <1>1, NextRInv, PTL DEF Spec

-----------------------------------------------------------------------------
\* Past the gate of the events, the mapping and the input both stand.
LEMMA PassedMeansStands ==
    ASSUME RInv, at > 10 \/ (at = 10 /\ Clear("events"))
    PROVE  MappingStands(request) /\ InputStands(request)
  <1>1. request \in Requests /\ at \in 1 .. 14
    BY GateNames DEF RInv, TypeOK
  <1>2. \A i \in 1 .. 10 : Clear(Gates[i])
    <2>1. ASSUME NEW i \in 1 .. 10
          PROVE  Clear(Gates[i])
      <3>1. i \in 1 .. at - 1 \/ (i = 10 /\ at = 10 /\ Clear("events"))
        BY <1>1
      <3> QED
        BY <3>1, GateNames DEF RInv, PassedAreClear
    <2> QED
      BY <2>1
  <1>3. /\ Clear("json") /\ Clear("schema") /\ Clear("receipt")
        /\ Clear("rows") /\ Clear("approval") /\ Clear("structure")
        /\ Clear("foreign") /\ Clear("missing") /\ Clear("application")
        /\ Clear("events")
    BY <1>2, GateNames
  <1>4. \A g \in MappingGates \cup InputGates : Issues(g, request) = {}
    BY <1>3 DEF Clear, MappingGates, InputGates
  <1> QED
    BY <1>1, <1>4, MappingGatesSay, InputGatesSay

\* Past the last gate, the submitted case stands.
LEMMA PassedMeansCaseStands ==
    ASSUME RInv, at = 14
    PROVE  request.manifest # Null /\ CaseStands(request)
  <1>1. request \in Requests /\ request.manifest # Null
    BY DEF RInv, TypeOK, PassedAreClear
  <1>2. Clear(Gates[11]) /\ Clear(Gates[12]) /\ Clear(Gates[13])
    BY DEF RInv, PassedAreClear
  <1>3. \A g \in CaseGates : Issues(g, request) = {}
    BY <1>2, GateNames DEF Clear, CaseGates
  <1> QED
    BY <1>1, <1>3, CaseGatesSay

-----------------------------------------------------------------------------
\* Each request's state, history and response stay of their types: a response
\* carries only codes the contract knows, and a refusal at least one.
THEOREM RouteTypeCorrect == Spec => []TypeOK
  <1>1. RInv => TypeOK
    BY DEF RInv
  <1> QED
    BY <1>1, RInvHolds, PTL

\* Whatever is sent, the route never answers with an internal error: the
\* gates, the transition table and the response contract fit one another.
THEOREM NeverInternalErrorHolds == Spec => []NeverInternalError
  <1>1. RInv => NeverInternalError
    BY DEF RInv, AnswerFollowsGate, NeverInternalError
  <1> QED
    BY <1>1, RInvHolds, PTL

\* The response names the state the workflow is in, at the end of a legal
\* history.
THEOREM ResponseTellsWorkflowHolds == Spec => []ResponseTellsWorkflow
  <1>1. RInv => ResponseTellsWorkflow
    BY DEF RInv
  <1> QED
    BY <1>1, RInvHolds, PTL

\* A result is answered only to a request whose rows are exactly the committed
\* ones and whose mapping and case are approved as they stand.
THEOREM ResultIsEarnedHolds == Spec => []ResultIsEarned
  <1>1. ASSUME RInv, response # Null, response.status = 200
        PROVE  /\ MappingStands(request) /\ InputStands(request)
               /\ CaseStands(request)
               /\ response.state = "REPLAYED" <=> request.manifest # Null
    <2>1. CASE /\ response.state = "MAPPING_APPROVED" /\ at = 10
               /\ Clear("events") /\ request.manifest = Null
      BY <2>1, <1>1, PassedMeansStands DEF CaseStands
    <2>2. CASE response.state = "REPLAYED" /\ at = 14
      BY <2>2, <1>1, PassedMeansStands, PassedMeansCaseStands
    <2> QED
      BY <1>1, <2>1, <2>2 DEF RInv, AnswerFollowsGate
  <1>2. RInv => ResultIsEarned
    BY <1>1 DEF ResultIsEarned
  <1> QED
    BY <1>2, RInvHolds, PTL

\* A refusal sends the reviewer to a stage that is at fault, and to the case
\* only once nothing before it is.
THEOREM RefusalIsHonestHolds == Spec => []RefusalIsHonest
  <1>1. ASSUME RInv, response # Null, response.status = 422
        PROVE  /\ response.state = "MAPPING_REVIEW_REQUIRED" =>
                    ~MappingStands(request)
               /\ response.state = "INPUT_REVIEW_REQUIRED" =>
                    ~InputStands(request)
               /\ response.state = "CASE_REVIEW_REQUIRED" =>
                    /\ MappingStands(request)
                    /\ InputStands(request)
                    /\ ~CaseStands(request)
    <2>1. /\ request \in Requests
          /\ at \in 1 .. 13 /\ ~Clear(Gates[at])
          /\ response.state = ReviewState(Gates[at])
      BY <1>1 DEF RInv, TypeOK, AnswerFollowsGate
    <2>2. CASE Gates[at] \in MappingGates
      BY <2>1, <2>2, MappingGatesSay DEF Clear, ReviewState, MappingGates
    <2>3. CASE Gates[at] \in InputGates
      BY <2>1, <2>3, InputGatesSay DEF Clear, ReviewState, InputGates
    <2>4. CASE Gates[at] \in CaseGates
      <3>1. at > 10 /\ request.manifest # Null
        BY <1>1, <2>1, <2>4, GateIndex DEF RInv, PassedAreClear
      <3>2. MappingStands(request) /\ InputStands(request)
        BY <1>1, <3>1, PassedMeansStands
      <3>3. ~CaseStands(request)
        BY <2>1, <2>4, <3>1, CaseGatesSay DEF Clear
      <3>4. response.state = "CASE_REVIEW_REQUIRED"
        BY <2>1, <2>4 DEF ReviewState, CaseGates
      <3> QED
        BY <3>2, <3>3, <3>4
    <2> QED
      BY <2>1, <2>2, <2>3, <2>4, GateIndex
  <1>2. RInv => RefusalIsHonest
    BY <1>1 DEF RefusalIsHonest
  <1> QED
    BY <1>2, RInvHolds, PTL

\* A result is earned and a refusal sends the reviewer where the fault is.
THEOREM ResponseIsHonestHolds == Spec => []ResponseIsHonest
  <1>1. ResultIsEarned /\ RefusalIsHonest => ResponseIsHonest
    BY DEF ResponseIsHonest
  <1> QED
    BY <1>1, ResultIsEarnedHolds, RefusalIsHonestHolds, PTL
=============================================================================
