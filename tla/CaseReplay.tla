----------------------------- MODULE CaseReplay -----------------------------
(***************************************************************************)
(* The replay surface of the web application: the hook that owns every     *)
(* approval and run (apps/web/src/app/replay/use-case-replay.ts), and the  *)
(* two routes it calls, as it sees them.                                   *)
(*                                                                         *)
(* Each handler runs to its first await in one step.  What it awaits (a    *)
(* digest, a mapping, a replay) is a task that ends in a later step; in    *)
(* between the reviewer may do anything else.  The code numbers its        *)
(* requests and ignores an answer to any but the last.  Here a task is     *)
(* live until invalidateResult takes a new number, which is all that the   *)
(* comparison of numbers can tell.                                         *)
(*                                                                         *)
(* The server keeps nothing between requests, but it is redeployed, in     *)
(* another provider mode or with another engine, and its receipts lapse.   *)
(***************************************************************************)
EXTENDS Naturals, FiniteSets

CONSTANTS
    Scenarios,     \* the committed sources the page offers
    WorkedCase,    \* the one the walkthrough follows
    HasManifest,   \* those with a case manifest to approve
    Eligible,      \* those a configured provider may map
    MutationsOf,   \* availableMutations of a scenario
    Drafts,        \* the proposals a configured provider may answer with
    Fields,        \* the field paths of proposals
    FlaggedOf,     \* the paths a proposal flags for a reviewer's reason
    RowsUnder,     \* what the rows of its scenario come to under a proposal
    Orders,        \* the orders of a scenario's rows
    Committed,     \* the order in which they are committed
    Null,
    MaxEngine,     \* bound: the redeployments that change the engine
    MaxTasks       \* bound: the tasks in flight at once

Mutations == {"baseline", "shuffle", "duplicate"}

Proposals == [of : Scenarios, draft : Drafts \cup {"fixture"}]

\* The mapping cannot be executed, a row does not become an event, events share
\* an identity and differ, they are not the ones the case was declared for.
RowOutcomes == {"unexecutable", "unmapped", "conflicting", "unprofiled", "replayable"}

ASSUME CaseReplayAssumption ==
    /\ WorkedCase \in Scenarios
    /\ HasManifest \subseteq Scenarios
    /\ Eligible \subseteq Scenarios
    /\ MutationsOf \in [Scenarios -> SUBSET Mutations]
    /\ \A s \in Scenarios : "baseline" \in MutationsOf[s]
    /\ FlaggedOf \in [Proposals -> SUBSET Fields]
    /\ RowsUnder \in [Proposals -> RowOutcomes]
    \* The committed fixtures replay their committed rows under their manifests.
    /\ \A s \in Scenarios : RowsUnder[[of |-> s, draft |-> "fixture"]] = "replayable"
    /\ Committed \in Orders
    /\ MaxEngine \in Nat
    /\ MaxTasks \in Nat \ {0}

Modes == {"fixture", "ai"}
Reviews == {"MAPPING_REVIEW_REQUIRED", "INPUT_REVIEW_REQUIRED", "CASE_REVIEW_REQUIRED"}
Mappings == [mode : Modes, proposal : Proposals]

\* An approval binds to the hash of a proposal and names the fields it excuses.
ApprovalRecords == [artifact : Proposals, overrides : SUBSET Fields]

Requests ==
    [scenario : Scenarios, mutation : Mutations, rows : Orders,
     mappingApproval : ApprovalRecords, receipt : Proposals \cup {Null},
     manifest : Scenarios \cup {Null}, caseApproval : Scenarios \cup {Null}]

\* canonicalResultHash: a hash of the engine version, the mapped events and
\* the evaluation of the case, and so of nothing else in the request.
Hashes ==
    [engine : 0 .. MaxEngine, proposal : Proposals,
     manifest : Scenarios \cup {Null}]

Results == [state : {"MAPPING_APPROVED", "REPLAYED"}, hash : Hashes,
            request : Requests]

Answers ==
    [status : {"ok", "review", "failed"},
     state : Reviews \cup {"MAPPING_APPROVED", "REPLAYED", "MAPPING_PROPOSED",
                           Null},
     hash : Hashes \cup {Null}, mapping : Mappings \cup {Null}]

\* Null, which is null or undefined in the code, is none of what may be there.
ASSUME NullAssumption ==
    /\ Null \notin Scenarios
    /\ Null \notin Orders
    /\ Null \notin Proposals
    /\ Null \notin Mappings
    /\ Null \notin ApprovalRecords
    /\ Null \notin Requests
    /\ Null \notin Results
    /\ Null \notin Answers
    /\ Null \notin Reviews
    /\ Null \notin [hash : Hashes, request : Requests]

VARIABLES
    scenario, mutation, reviewReasons, requestedMapping, approval,
    caseApproval, result, previousHash, error, workflowState, running,
    requestingMapping,
    lastSubmittedRows, submittedOrder,
    tasks,          \* what the page has started and not seen the end of
    pageMode,       \* the provider mode when the page was rendered
    mode,           \* the provider mode the server is configured for
    engine,         \* the engine version the server runs
    receipts        \* the proposals whose receipts the server still accepts

review == <<reviewReasons, requestedMapping>>
approvals == <<approval, caseApproval>>
choice == <<scenario, mutation>>
shown == <<result, previousHash, error, workflowState, running,
           requestingMapping, submittedOrder>>
server == <<pageMode, mode, engine, receipts>>
vars == <<choice, review, approvals, shown, lastSubmittedRows, tasks, server>>

Fixture(s) == [of |-> s, draft |-> "fixture"]

Tasks ==
    [kind : {"approveMapping", "approveCase", "requestMapping", "runReplay"},
     live : BOOLEAN,
     scenario : Scenarios,
     approval : ApprovalRecords \cup {Null},
     request : Requests \cup {Null},
     answer : Answers \cup {Null}]

TypeOK ==
    /\ scenario \in Scenarios
    /\ mutation \in MutationsOf[scenario]
    /\ reviewReasons \subseteq Fields
    /\ requestedMapping \in Mappings \cup {Null}
    /\ approval \in ApprovalRecords \cup {Null}
    /\ caseApproval \in Scenarios \cup {Null}
    /\ result \in Results \cup {Null}
    /\ previousHash \in [hash : Hashes, request : Requests] \cup {Null}
    /\ error \in {"none", "approval-hash", "mapping-unavailable",
                  "mapping-review", "refused", "failed"}
    /\ workflowState \in Reviews \cup {"MAPPING_APPROVED", "REPLAYED",
                                       "MAPPING_PROPOSED", Null}
    /\ running \in BOOLEAN
    /\ requestingMapping \in BOOLEAN
    /\ lastSubmittedRows \in Orders \cup {Null}
    /\ submittedOrder \in Orders \cup {Null}
    /\ tasks \subseteq Tasks
    /\ Cardinality(tasks) <= MaxTasks
    /\ pageMode \in Modes
    /\ mode \in Modes
    /\ engine \in 0 .. MaxEngine
    /\ receipts \subseteq [of : Eligible, draft : Drafts]

Init ==
    /\ scenario = WorkedCase
    /\ mutation = "baseline"
    /\ reviewReasons = {}
    /\ requestedMapping = Null
    /\ approval = Null
    /\ caseApproval = Null
    /\ result = Null
    /\ previousHash = Null
    /\ error = "none"
    /\ workflowState = Null
    /\ running = FALSE
    /\ requestingMapping = FALSE
    /\ lastSubmittedRows = Null
    /\ submittedOrder = Null
    /\ tasks = {}
    /\ pageMode \in Modes
    /\ mode = pageMode
    /\ engine = 0
    /\ receipts = {}

-----------------------------------------------------------------------------
(* What the page derives on every render. *)

\* selectedScenario.mappingRequestRequired, decided when the page was rendered.
RequestRequired(s) == s \in Eligible /\ pageMode = "ai"

Proposal == IF requestedMapping # Null THEN requestedMapping.proposal
            ELSE Fixture(scenario)

ProposalPending == RequestRequired(scenario) /\ requestedMapping = Null

unresolvedMappingFields(p, reasons) == FlaggedOf[p] \ reasons

mappingOverrides(p, reasons) == FlaggedOf[p] \cap reasons

CompleteResult == result # Null /\ result.state = "REPLAYED"

RepeatMatches ==
    CompleteResult /\ previousHash # Null /\ previousHash.hash = result.hash

-----------------------------------------------------------------------------
(* The handlers the reviewer's clicks and edits run. *)

Task(kind) ==
    [kind |-> kind, live |-> TRUE, scenario |-> scenario, approval |-> Null,
     request |-> Null, answer |-> Null]

\* Taking a new number leaves every earlier task stale.
Stale == {[t EXCEPT !.live = FALSE] : t \in tasks}

Start(task) ==
    /\ tasks' = Stale \cup {task}
    /\ Cardinality(tasks') <= MaxTasks

Idle ==
    /\ running' = FALSE
    /\ requestingMapping' = FALSE
    /\ submittedOrder' = Null
    /\ previousHash' = Null

DropResult ==
    /\ result' = Null
    /\ error' = "none"
    /\ workflowState' = Null

invalidateResult == DropResult /\ Idle

\* Mutant of approveMapping: only the mapping's own approval is withdrawn.
ApprovingKeepsCase ==
    /\ unresolvedMappingFields(Proposal, reviewReasons) = {}
    /\ ~ProposalPending
    /\ ~requestingMapping
    /\ invalidateResult
    /\ approval' = Null
    /\ Start([Task("approveMapping") EXCEPT !.approval =
                [artifact |-> Proposal,
                 overrides |-> mappingOverrides(Proposal, reviewReasons)]])
    /\ UNCHANGED <<choice, review, caseApproval, lastSubmittedRows, server>>

approveMapping ==
    /\ unresolvedMappingFields(Proposal, reviewReasons) = {}
    /\ ~ProposalPending
    /\ ~requestingMapping
    /\ invalidateResult
    /\ approval' = Null
    /\ caseApproval' = Null
    /\ Start([Task("approveMapping") EXCEPT !.approval =
                [artifact |-> Proposal,
                 overrides |-> mappingOverrides(Proposal, reviewReasons)]])
    /\ UNCHANGED <<choice, review, lastSubmittedRows, server>>

Typed(fieldPath, blank) ==
    IF blank THEN reviewReasons \ {fieldPath}
    ELSE reviewReasons \cup {fieldPath}

\* Mutant of setReviewReason: the approval of the case survives the edit.
ReasonKeepsCase(fieldPath, blank) ==
    /\ invalidateResult
    /\ reviewReasons' = Typed(fieldPath, blank)
    /\ approval' = Null
    /\ tasks' = Stale
    /\ UNCHANGED <<choice, requestedMapping, caseApproval, lastSubmittedRows,
                   server>>

\* A reason is typed, or blanked: reviewReasons are the paths with a reason.
setReviewReason(fieldPath, blank) ==
    /\ invalidateResult
    /\ reviewReasons' = Typed(fieldPath, blank)
    /\ approval' = Null
    /\ caseApproval' = Null
    /\ tasks' = Stale
    /\ UNCHANGED <<choice, requestedMapping, lastSubmittedRows, server>>

\* Mutant of requestMapping: the approvals of the replaced proposal are kept.
RequestKeepsApproval ==
    /\ RequestRequired(scenario)
    /\ ~requestingMapping
    /\ DropResult
    /\ requestingMapping' = TRUE
    /\ running' = FALSE
    /\ submittedOrder' = Null
    /\ previousHash' = Null
    /\ requestedMapping' = Null
    /\ reviewReasons' = {}
    /\ Start(Task("requestMapping"))
    /\ UNCHANGED <<choice, approvals, lastSubmittedRows, server>>

\* The button is shown only where a request is required, and not while one runs.
requestMapping ==
    /\ RequestRequired(scenario)
    /\ ~requestingMapping
    /\ DropResult
    /\ requestingMapping' = TRUE
    /\ running' = FALSE
    /\ submittedOrder' = Null
    /\ previousHash' = Null
    /\ approval' = Null
    /\ caseApproval' = Null
    /\ reviewReasons' = {}
    /\ requestedMapping' = Null
    /\ Start(Task("requestMapping"))
    /\ UNCHANGED <<choice, lastSubmittedRows, server>>

approveCase ==
    /\ approval # Null
    /\ scenario \in HasManifest
    /\ invalidateResult
    /\ caseApproval' = Null
    /\ Start(Task("approveCase"))
    /\ UNCHANGED <<choice, review, approval, lastSubmittedRows, server>>

\* shuffleSourceRows never returns the previous order of two or more rows.
shuffleSourceRows(previousOrder) ==
    IF Cardinality(Orders) > 1 THEN Orders \ {previousOrder} ELSE Orders

SubmittedRows(repeat) ==
    IF repeat /\ lastSubmittedRows # Null THEN {lastSubmittedRows}
    ELSE IF mutation = "shuffle"
    THEN shuffleSourceRows(IF lastSubmittedRows # Null THEN lastSubmittedRows
                           ELSE Committed)
    ELSE {Committed}

Request(rows) ==
    [scenario |-> scenario, mutation |-> mutation, rows |-> rows,
     mappingApproval |-> approval,
     receipt |-> IF requestedMapping # Null /\ requestedMapping.mode = "ai"
                 THEN requestedMapping.proposal ELSE Null,
     manifest |-> IF scenario \in HasManifest THEN scenario ELSE Null,
     caseApproval |-> IF scenario \in HasManifest THEN caseApproval ELSE Null]

\* comparisonHash, kept here with the request whose answer carried it.
Comparison ==
    IF previousHash # Null THEN previousHash
    ELSE [hash |-> result.hash, request |-> result.request]

runReplay(repeat) ==
    /\ ~running
    /\ approval # Null
    /\ ~ProposalPending
    /\ ~requestingMapping
    /\ unresolvedMappingFields(Proposal, reviewReasons) = {}
    /\ repeat => CompleteResult \/ previousHash # Null
    /\ scenario \in HasManifest => caseApproval # Null
    /\ DropResult
    /\ previousHash' = IF repeat THEN Comparison ELSE Null
    /\ running' = TRUE
    /\ requestingMapping' = FALSE
    /\ \E rows \in SubmittedRows(repeat) :
         /\ Start([Task("runReplay") EXCEPT !.request = Request(rows)])
         /\ lastSubmittedRows' = rows
         /\ submittedOrder' = rows
    /\ UNCHANGED <<choice, review, approvals, server>>

\* Both restoreWorkedCase (entering the walkthrough) and chooseScenario.
chooseScenario(s) ==
    /\ invalidateResult
    /\ lastSubmittedRows' = Null
    /\ mutation' = "baseline"
    /\ scenario' = s
    /\ approval' = Null
    /\ caseApproval' = Null
    /\ reviewReasons' = {}
    /\ requestedMapping' = Null
    /\ tasks' = Stale
    /\ UNCHANGED server

restoreWorkedCase == chooseScenario(WorkedCase)

chooseMutation(m) ==
    /\ m \in MutationsOf[scenario]
    /\ invalidateResult
    /\ mutation' = m
    /\ tasks' = Stale
    /\ UNCHANGED <<scenario, review, approvals, lastSubmittedRows, server>>

-----------------------------------------------------------------------------
(* The server, as POST /api/mapping and POST /api/replay answer the page. *)

Answer(status, state) ==
    [status |-> status, state |-> state, hash |-> Null, mapping |-> Null]

\* replayMapping: the proposal the server will hold the request to, or Null.
Recorded(q) ==
    IF q.scenario \in Eligible /\ mode = "ai"
    THEN IF q.receipt \in receipts /\ q.receipt.of = q.scenario
         THEN q.receipt ELSE Null
    ELSE IF q.receipt = Null THEN Fixture(q.scenario) ELSE Null

\* validateMappingApproval: the hash is the proposal's, no flag is unanswered.
MappingApproved(q, p) ==
    q.mappingApproval.artifact = p /\ FlaggedOf[p] \subseteq q.mappingApproval.overrides

\* The manifest is approved, and is of the artifact that is replayed.
CaseApproved(q) == q.caseApproval = q.manifest /\ q.manifest = q.scenario

\* replayApproved in its order.  The rows are the committed ones in an order, and
\* what they come to under a proposal does not depend on it.
ReplayAnswer(q) ==
    IF \/ Recorded(q) = Null
       \/ ~MappingApproved(q, Recorded(q))
       \/ RowsUnder[Recorded(q)] = "unexecutable"
    THEN Answer("review", "MAPPING_REVIEW_REQUIRED")
    ELSE IF RowsUnder[Recorded(q)] \in {"unmapped", "conflicting"}
    THEN Answer("review", "INPUT_REVIEW_REQUIRED")
    ELSE IF /\ q.manifest # Null
            /\ ~CaseApproved(q) \/ RowsUnder[Recorded(q)] = "unprofiled"
    THEN Answer("review", "CASE_REVIEW_REQUIRED")
    ELSE [status |-> "ok",
          state |-> IF q.manifest = Null THEN "MAPPING_APPROVED"
                    ELSE "REPLAYED",
          hash |-> [engine |-> engine, proposal |-> Recorded(q),
                    manifest |-> q.manifest],
          mapping |-> Null]

ProposedMapping(m, p) ==
    [Answer("ok", "MAPPING_PROPOSED") EXCEPT
        !.mapping = [mode |-> m, proposal |-> p]]

Answered(t, answer) == tasks' = (tasks \ {t}) \cup {[t EXCEPT !.answer = answer]}

Waiting(t, kind) == t \in tasks /\ t.kind = kind /\ t.answer = Null

AnswerReplay(t) ==
    /\ Waiting(t, "runReplay")
    /\ Answered(t, ReplayAnswer(t.request))
    /\ UNCHANGED <<choice, review, approvals, shown, lastSubmittedRows,
                   server>>

\* proposeMapping: the fixture, a proposal under a receipt, or a refusal (the
\* budget's or the provider's).
AnswerMapping(t) ==
    /\ Waiting(t, "requestMapping")
    /\ \/ /\ mode = "fixture"
          /\ Answered(t, ProposedMapping("fixture", Fixture(t.scenario)))
          /\ UNCHANGED receipts
       \/ /\ mode = "ai"
          /\ \E d \in Drafts :
               LET p == [of |-> t.scenario, draft |-> d]
               IN  /\ Answered(t, ProposedMapping("ai", p))
                   /\ receipts' = receipts \cup {p}
       \/ /\ mode = "ai"
          /\ Answered(t, Answer("review", "MAPPING_REVIEW_REQUIRED"))
          /\ UNCHANGED receipts
    /\ UNCHANGED <<choice, review, approvals, shown, lastSubmittedRows,
                   pageMode, mode, engine>>

\* The connection fails, or what comes back is not the JSON that was expected.
FetchFails(t) ==
    /\ Waiting(t, "runReplay") \/ Waiting(t, "requestMapping")
    /\ Answered(t, Answer("failed", Null))
    /\ UNCHANGED <<choice, review, approvals, shown, lastSubmittedRows,
                   server>>

\* Thirty minutes pass: the receipts issued so far expire.
ReceiptsLapse ==
    /\ receipts # {}
    /\ receipts' = {}
    /\ UNCHANGED <<choice, review, approvals, shown, lastSubmittedRows, tasks,
                   pageMode, mode, engine>>

\* A redeployment: another engine, the same or another provider configuration.
Deploy ==
    /\ engine < MaxEngine
    /\ engine' = engine + 1
    /\ mode' \in Modes
    /\ receipts' \in {receipts, {}}
    /\ UNCHANGED <<choice, review, approvals, shown, lastSubmittedRows, tasks,
                   pageMode>>

-----------------------------------------------------------------------------
(* What follows an await.  Each task ends in exactly one of these. *)

\* Mutant of Current: answers are taken whatever was done since they were asked.
AnyAnswer(t) == TRUE

\* generation === requestGeneration.current
Current(t) == t.live

Ends(t, kind) ==
    /\ t \in tasks
    /\ t.kind = kind
    /\ tasks' = tasks \ {t}

\* The page ignores the answer to a question it no longer asks.
IgnoreAnswer(t) ==
    /\ t.answer # Null \/ t.kind \in {"approveMapping", "approveCase"}
    /\ Ends(t, t.kind)
    /\ ~Current(t)
    /\ UNCHANGED <<choice, review, approvals, shown, lastSubmittedRows,
                   server>>

\* attemptApproval: the digest may fail, where Web Crypto is unavailable.
ApproveMappingEnds(t) ==
    /\ Ends(t, "approveMapping")
    /\ Current(t)
    /\ \/ approval' = t.approval /\ error' = "none"
       \/ approval' = Null /\ error' = "approval-hash"
    /\ UNCHANGED <<choice, review, caseApproval, result, previousHash,
                   workflowState, running, requestingMapping, submittedOrder,
                   lastSubmittedRows, server>>

ApproveCaseEnds(t) ==
    /\ Ends(t, "approveCase")
    /\ Current(t)
    /\ \/ caseApproval' = t.scenario /\ error' = "none"
       \/ caseApproval' = Null /\ error' = "approval-hash"
    /\ UNCHANGED <<choice, review, approval, result, previousHash,
                   workflowState, running, requestingMapping, submittedOrder,
                   lastSubmittedRows, server>>

\* A mapping of another artifact is refused like one that does not parse.
RequestMappingEnds(t) ==
    /\ t.answer # Null
    /\ Ends(t, "requestMapping")
    /\ Current(t)
    /\ requestingMapping' = FALSE
    /\ IF t.answer.status = "ok" /\ t.answer.mapping.proposal.of = t.scenario
       THEN /\ requestedMapping' = t.answer.mapping
            /\ workflowState' = "MAPPING_PROPOSED"
            /\ UNCHANGED error
       ELSE /\ workflowState' = "MAPPING_REVIEW_REQUIRED"
            /\ error' = IF t.answer.status = "review" THEN "mapping-review"
                        ELSE "mapping-unavailable"
            /\ UNCHANGED requestedMapping
    /\ UNCHANGED <<choice, reviewReasons, approvals, result, previousHash,
                   running, submittedOrder, lastSubmittedRows, server>>

\* Mutant of RunReplayEnds: no finally, a failed run never stops running.
RunNeverFails(t) ==
    /\ t.answer # Null
    /\ t.answer.status # "failed"
    /\ Ends(t, "runReplay")
    /\ Current(t)
    /\ running' = FALSE
    /\ workflowState' = t.answer.state
    /\ IF t.answer.status = "ok"
       THEN /\ result' = [state |-> t.answer.state, hash |-> t.answer.hash,
                          request |-> t.request]
            /\ UNCHANGED error
       ELSE /\ error' = "refused"
            /\ UNCHANGED result
    /\ UNCHANGED <<choice, review, approvals, previousHash, requestingMapping,
                   submittedOrder, lastSubmittedRows, server>>

RunReplayEnds(t) ==
    /\ t.answer # Null
    /\ Ends(t, "runReplay")
    /\ Current(t)
    /\ running' = FALSE
    /\ workflowState' = IF t.answer.status = "failed" THEN workflowState
                        ELSE t.answer.state
    /\ result' = IF t.answer.status # "ok" THEN result
                 ELSE [state |-> t.answer.state, hash |-> t.answer.hash,
                       request |-> t.request]
    /\ error' = CASE t.answer.status = "ok" -> error
                  [] t.answer.status = "review" -> "refused"
                  [] t.answer.status = "failed" -> "failed"
    /\ UNCHANGED <<choice, review, approvals, previousHash, requestingMapping,
                   submittedOrder, lastSubmittedRows, server>>

TaskEnds(t) ==
    \/ ApproveMappingEnds(t) \/ ApproveCaseEnds(t)
    \/ RequestMappingEnds(t) \/ RunReplayEnds(t)

ServerAnswers(t) == AnswerReplay(t) \/ AnswerMapping(t) \/ FetchFails(t)

Reviewer ==
    \/ approveMapping
    \/ \E fieldPath \in Fields, blank \in BOOLEAN :
         setReviewReason(fieldPath, blank)
    \/ requestMapping
    \/ approveCase
    \/ \E repeat \in BOOLEAN : runReplay(repeat)
    \/ restoreWorkedCase
    \/ \E s \in Scenarios : chooseScenario(s)
    \/ \E m \in Mutations : chooseMutation(m)

Next ==
    \/ Reviewer
    \/ \E t \in tasks : ServerAnswers(t) \/ TaskEnds(t) \/ IgnoreAnswer(t)
    \/ ReceiptsLapse
    \/ Deploy

Spec == Init /\ [][Next]_vars

\* A browser fetch and a digest end; the reviewer and the operator owe nothing.
FairSpec ==
    /\ Spec
    /\ WF_vars(\E t \in tasks : t.live /\ (ServerAnswers(t) \/ TaskEnds(t)))

-----------------------------------------------------------------------------
\* An approval of the mapping is of the very proposal on the screen, answers
\* every field it flags with the reasons as they now read, and never stands
\* while a mapping is still owed or on its way.
ApprovalIsOfDisplayed ==
    approval # Null =>
        /\ approval.artifact = Proposal
        /\ approval.overrides = FlaggedOf[Proposal] \cap reviewReasons
        /\ approval.overrides = FlaggedOf[Proposal]
        /\ ~ProposalPending
        /\ ~requestingMapping

\* The case is approved only under an approved mapping, and it is the case of
\* the scenario on the screen.
CaseNeedsMapping ==
    caseApproval # Null => approval # Null /\ caseApproval = scenario

\* A result on the screen answers what is on the screen: the same scenario,
\* mutation, rows and approvals, with nothing running and no refusal beside it.
ResultBelongsToInputs ==
    result # Null =>
        /\ result.request = Request(lastSubmittedRows)
        /\ submittedOrder = lastSubmittedRows
        /\ workflowState = result.state
        /\ error = "none"
        /\ ~running

\* A repeat compares like with like: the earlier hash came from the request the
\* page would repeat, so hashes differ only if the engine was replaced between.
ComparisonIsLikeWithLike ==
    previousHash # Null =>
        /\ previousHash.request = Request(lastSubmittedRows)
        /\ CompleteResult /\ previousHash.hash.engine = result.hash.engine
             => RepeatMatches

\* The request maps by a draft under whose mapping the rows come to one of these.
RowsFailUnder(q, outcomes) == q.receipt # Null /\ RowsUnder[q.receipt] \in outcomes

\* A refusal names the input or the case only where the draft's rows fail there.
RefusalFits(state, q) ==
    /\ state = "INPUT_REVIEW_REQUIRED" => RowsFailUnder(q, {"unmapped", "conflicting"})
    /\ state = "CASE_REVIEW_REQUIRED" => RowsFailUnder(q, {"unprofiled"})

\* The route refuses no request the page composed for its approvals: only for a
\* receipt it does not accept, or for what the rows come to under a draft, and
\* then the refusal names the input or the case only where that is at fault.
PageAndServerAgree ==
    \A t \in tasks :
        /\ Waiting(t, "runReplay") =>
             \/ ReplayAnswer(t.request).status = "ok"
             \/ Recorded(t.request) = Null
             \/ RowsFailUnder(t.request, RowOutcomes \ {"replayable"})
        /\ t.kind = "runReplay" /\ t.answer # Null =>
             RefusalFits(t.answer.state, t.request)

\* "Running" is shown exactly while the one live run is under way, "requesting"
\* while the one live mapping request is, and one thing is live at a time.
SpinnersTrackTasks ==
    /\ Cardinality({t \in tasks : t.live}) <= 1
    /\ running <=> \E t \in tasks : t.live /\ t.kind = "runReplay"
    /\ requestingMapping <=>
         \E t \in tasks : t.live /\ t.kind = "requestMapping"

\* What the reviewer has approved is what is displayed, the case never without
\* the mapping it rests on.
ApprovalsStand == ApprovalIsOfDisplayed /\ CaseNeedsMapping

\* A result, and a comparison with the one before, is of the inputs shown.
ResultsAnswerThePage == ResultBelongsToInputs /\ ComparisonIsLikeWithLike

\* The page is in step with the server and with what is under way.
PageIsInStep == PageAndServerAgree /\ SpinnersTrackTasks

\* No run and no mapping request stays on the screen for ever.
SpinnersStop ==
    /\ running ~> ~running
    /\ requestingMapping ~> ~requestingMapping

\* The page implements the ladder: an approved mapping, an approved case and a
\* complete result come one by one and never past one another.
Ladder == INSTANCE ReviewLadder
            WITH Rungs <- 0 .. 3,
                 rung <- IF approval = Null THEN 0
                         ELSE IF caseApproval = Null THEN 1
                         ELSE IF CompleteResult THEN 3 ELSE 2

ImplementsReviewLadder == Ladder!LadderSpec
=============================================================================
