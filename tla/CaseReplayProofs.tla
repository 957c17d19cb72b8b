--------------------------- MODULE CaseReplayProofs ---------------------------
(***************************************************************************)
(* What holds of the replay page for any scenarios, proposals, reviewers   *)
(* and servers, whatever is clicked while a digest, a mapping or a run is  *)
(* on its way.  The argument rests on one inductive invariant: a task that *)
(* is still live was started from the page as it now stands, so what its   *)
(* end puts on the page fits what is there.                                *)
(***************************************************************************)
EXTENDS CaseReplay, FiniteSetTheorems, TLAPS

PageTypes == TypeOK /\ IsFiniteSet(tasks)

\* A mapping that the page requested is of the scenario it was requested for.
MappingFits(m, s) ==
    /\ m.proposal.of = s
    /\ m.mode = "fixture" => m.proposal = Fixture(s)

\* The approvals of a request are what the route will hold it to.
RequestIsApproved(q) ==
    LET p == IF q.receipt # Null THEN q.receipt ELSE Fixture(q.scenario)
    IN  /\ q \in Requests
        /\ q.mappingApproval.artifact = p
        /\ FlaggedOf[p] \subseteq q.mappingApproval.overrides
        /\ q.manifest # Null => q.caseApproval = q.manifest /\ q.manifest = q.scenario

\* A hash is of the engine and of what the request had approved.
HashIsOf(h, q) ==
    /\ h \in Hashes
    /\ h.proposal = q.mappingApproval.artifact
    /\ h.manifest = q.manifest

\* What is known of a task whether or not its answer still matters.
RunIsWhole(t) ==
    /\ RequestIsApproved(t.request)
    /\ t.answer # Null =>
         /\ RefusalFits(t.answer.state, t.request)
         /\ t.answer.status = "ok" =>
              /\ t.answer.state \in {"MAPPING_APPROVED", "REPLAYED"}
              /\ t.answer.state = "REPLAYED" => t.request.manifest # Null
              /\ HashIsOf(t.answer.hash, t.request)

MappingRequestIsWhole(t) ==
    /\ t.scenario \in Eligible
    /\ t.answer # Null /\ t.answer.status = "ok" =>
         /\ t.answer.mapping \in Mappings
         /\ MappingFits(t.answer.mapping, t.scenario)

TaskIsWhole(t) ==
    /\ t.kind = "runReplay" => RunIsWhole(t)
    /\ t.kind = "requestMapping" => MappingRequestIsWhole(t)
    /\ t.kind \in {"approveMapping", "approveCase"} => t.answer = Null

-----------------------------------------------------------------------------
(* What a live task finds when it ends. *)

ApprovableNow ==
    /\ FlaggedOf[Proposal] \subseteq reviewReasons
    /\ ~ProposalPending
    /\ ~requestingMapping

MappingUnderApproval(t) ==
    /\ approval = Null /\ caseApproval = Null
    /\ ApprovableNow
    /\ t.approval = [artifact |-> Proposal,
                     overrides |-> mappingOverrides(Proposal, reviewReasons)]

CaseUnderApproval(t) == approval # Null /\ caseApproval = Null

MappingUnderRequest(t) ==
    approval = Null /\ caseApproval = Null /\ requestedMapping = Null

RunUnderWay(t) ==
    /\ approval # Null
    /\ lastSubmittedRows \in Orders
    /\ t.request = Request(lastSubmittedRows)
    /\ submittedOrder = lastSubmittedRows
    /\ error = "none"

LiveTaskFits(t) ==
    /\ result = Null
    /\ t.scenario = scenario
    /\ t.kind # "runReplay" => previousHash = Null
    /\ t.kind = "approveMapping" => MappingUnderApproval(t)
    /\ t.kind = "approveCase" => CaseUnderApproval(t)
    /\ t.kind = "requestMapping" => MappingUnderRequest(t)
    /\ t.kind = "runReplay" => RunUnderWay(t)

-----------------------------------------------------------------------------
OneTaskIsLive == \A t, u \in tasks : t.live /\ u.live => t = u

SpinnersAgree ==
    /\ running <=> \E t \in tasks : t.live /\ t.kind = "runReplay"
    /\ requestingMapping <=>
         \E t \in tasks : t.live /\ t.kind = "requestMapping"

TasksAreWhole == \A t \in tasks : TaskIsWhole(t)

LiveTasksFit == \A t \in tasks : t.live => LiveTaskFits(t)

MappingIsOfScenario ==
    requestedMapping # Null => MappingFits(requestedMapping, scenario)

HashesAreOfRequests ==
    /\ result # Null => HashIsOf(result.hash, result.request)
    /\ previousHash # Null => HashIsOf(previousHash.hash, previousHash.request)

\* A result was approved by the route; a complete one is of an approved case.
ResultIsApproved ==
    result # Null =>
        /\ RequestIsApproved(result.request)
        /\ result.state = "REPLAYED" => result.request.manifest # Null

ComparisonIsOfRequest ==
    previousHash # Null => previousHash.request = Request(lastSubmittedRows)

CInv ==
    /\ PageTypes
    /\ OneTaskIsLive
    /\ SpinnersAgree
    /\ TasksAreWhole
    /\ LiveTasksFit
    /\ MappingIsOfScenario
    /\ HashesAreOfRequests
    /\ ResultIsApproved
    /\ ComparisonIsOfRequest
    /\ ApprovalsStand
    /\ ResultBelongsToInputs

-----------------------------------------------------------------------------
(* About the operators.                                                    *)

\* What the page derives has its type.
LEMMA DerivedTypes ==
    ASSUME TypeOK
    PROVE  /\ Proposal \in Proposals
           /\ FlaggedOf[Proposal] \subseteq Fields
           /\ mutation \in Mutations
           /\ \A s \in Scenarios : Fixture(s) \in Proposals
  <1>1. \A s \in Scenarios : Fixture(s) \in Proposals
    BY DEF Fixture, Proposals
  <1>2. Proposal \in Proposals
    BY <1>1 DEF Proposal, TypeOK, Mappings
  <1> QED
    BY <1>1, <1>2, CaseReplayAssumption DEF TypeOK

\* A staled task is a task that differs in nothing but its liveness.
LEMMA StaledTask ==
    ASSUME NEW t \in Tasks
    PROVE  LET u == [t EXCEPT !.live = FALSE]
           IN  /\ u \in Tasks
               /\ ~u.live
               /\ TaskIsWhole(t) => TaskIsWhole(u)
  <1> DEFINE u == [t EXCEPT !.live = FALSE]
  <1>1. /\ u \in Tasks
        /\ ~u.live
        /\ u.kind = t.kind /\ u.scenario = t.scenario
        /\ u.request = t.request /\ u.answer = t.answer
    BY DEF Tasks
  <1> HIDE DEF u
  <1>2. TaskIsWhole(t) => TaskIsWhole(u)
    BY <1>1 DEF TaskIsWhole, RunIsWhole, MappingRequestIsWhole
  <1> QED
    BY <1>1, <1>2 DEF u

\* Staling every task leaves as many tasks, none of them live.
LEMMA StaleTasks ==
    ASSUME PageTypes, TasksAreWhole
    PROVE  /\ IsFiniteSet(Stale)
           /\ Cardinality(Stale) \in Nat /\ Cardinality(Stale) <= MaxTasks
           /\ \A u \in Stale : u \in Tasks /\ ~u.live /\ TaskIsWhole(u)
  <1> DEFINE f == [t \in tasks |-> [t EXCEPT !.live = FALSE]]
  <1>1. f \in Surjection(tasks, Stale)
    BY DEF Surjection, Stale
  <1>2. IsFiniteSet(Stale) /\ Cardinality(Stale) <= Cardinality(tasks)
    BY <1>1, FS_Surjection DEF PageTypes
  <1>3. Cardinality(Stale) \in Nat /\ Cardinality(tasks) \in Nat
    BY <1>2, FS_CardinalityType DEF PageTypes
  <1>4. Cardinality(Stale) <= MaxTasks
    BY <1>2, <1>3, CaseReplayAssumption DEF PageTypes, TypeOK
  <1>5. \A u \in Stale : u \in Tasks /\ ~u.live /\ TaskIsWhole(u)
    BY StaledTask DEF Stale, PageTypes, TypeOK, TasksAreWhole
  <1> QED
    BY <1>2, <1>3, <1>4, <1>5

\* A task that starts is the only one that is live.
LEMMA StartedTasks ==
    ASSUME PageTypes, TasksAreWhole,
           NEW task \in Tasks, task.live, TaskIsWhole(task), Start(task)
    PROVE  /\ IsFiniteSet(tasks') /\ Cardinality(tasks') <= MaxTasks
           /\ tasks' \subseteq Tasks /\ task \in tasks'
           /\ \A u \in tasks' : TaskIsWhole(u) /\ (u.live <=> u = task)
  <1>1. IsFiniteSet(tasks')
    BY StaleTasks, FS_AddElement DEF Start
  <1> QED
    BY <1>1, StaleTasks DEF Start

\* When the live task ends, none is live.
LEMMA EndedTasks ==
    ASSUME PageTypes, TasksAreWhole, OneTaskIsLive,
           NEW t \in tasks, t.live, tasks' = tasks \ {t}
    PROVE  /\ IsFiniteSet(tasks') /\ Cardinality(tasks') <= MaxTasks
           /\ tasks' \subseteq Tasks
           /\ \A u \in tasks' : TaskIsWhole(u) /\ ~u.live
  <1>1. IsFiniteSet(tasks') /\ Cardinality(tasks') <= MaxTasks
    <2>1. IsFiniteSet(tasks') /\ Cardinality(tasks') = Cardinality(tasks) - 1
      BY FS_RemoveElement DEF PageTypes
    <2>2. Cardinality(tasks) \in Nat /\ Cardinality(tasks) <= MaxTasks
      BY FS_CardinalityType DEF PageTypes, TypeOK
    <2> QED
      BY <2>1, <2>2, CaseReplayAssumption
  <1>2. \A u \in tasks' : ~u.live
    <2> SUFFICES ASSUME NEW u \in tasks', u.live
                 PROVE  FALSE
      BY DEF PageTypes, TypeOK, Tasks
    <2> QED
      BY DEF OneTaskIsLive
  <1> QED
    BY <1>1, <1>2 DEF PageTypes, TypeOK, TasksAreWhole

\* Two tasks that differ in their answers at most.
SameTask(u, v) ==
    /\ u.live = v.live /\ u.kind = v.kind /\ u.scenario = v.scenario
    /\ u.approval = v.approval /\ u.request = v.request

\* An answer changes one task, and nothing of it but the answer.
LEMMA AnsweredTasks ==
    ASSUME PageTypes, TasksAreWhole, OneTaskIsLive,
           NEW t \in tasks, NEW a \in Answers, Answered(t, a),
           TaskIsWhole([t EXCEPT !.answer = a])
    PROVE  /\ IsFiniteSet(tasks') /\ Cardinality(tasks') <= MaxTasks
           /\ tasks' \subseteq Tasks
           /\ TasksAreWhole' /\ OneTaskIsLive'
           /\ \A u \in tasks' : \E v \in tasks : SameTask(u, v)
           /\ \A v \in tasks : \E u \in tasks' : SameTask(u, v)
  <1> DEFINE new == [t EXCEPT !.answer = a]
  <1>1. t \in Tasks /\ new \in Tasks
    BY DEF PageTypes, TypeOK, Tasks
  <1>2. SameTask(new, t)
    BY <1>1 DEF Tasks, SameTask
  <1>3. tasks' = (tasks \ {t}) \cup {new}
    BY DEF Answered
  <1>4. TaskIsWhole(new)
    OBVIOUS
  <1> HIDE DEF new
  <1>5. IsFiniteSet(tasks') /\ Cardinality(tasks') <= MaxTasks
    <2>1. /\ IsFiniteSet(tasks \ {t})
          /\ Cardinality(tasks \ {t}) = Cardinality(tasks) - 1
      BY FS_RemoveElement DEF PageTypes
    <2>2. /\ IsFiniteSet(tasks')
          /\ Cardinality(tasks') = IF new \in tasks \ {t}
                                   THEN Cardinality(tasks \ {t})
                                   ELSE Cardinality(tasks \ {t}) + 1
      BY <1>3, <2>1, FS_AddElement
    <2>3. Cardinality(tasks) \in Nat /\ Cardinality(tasks) <= MaxTasks
      BY FS_CardinalityType DEF PageTypes, TypeOK
    <2> QED
      BY <2>1, <2>2, <2>3, CaseReplayAssumption
  <1>6. TasksAreWhole'
    BY <1>3, <1>4 DEF TasksAreWhole
  <1>7. OneTaskIsLive'
    BY <1>2, <1>3 DEF OneTaskIsLive, SameTask
  <1>8. /\ \A u \in tasks' : \E v \in tasks : SameTask(u, v)
        /\ \A v \in tasks : \E u \in tasks' : SameTask(u, v)
    BY <1>2, <1>3 DEF SameTask
  <1> QED
    BY <1>1, <1>3, <1>5, <1>6, <1>7, <1>8 DEF PageTypes, TypeOK

-----------------------------------------------------------------------------
(* The handlers. *)

\* With no task live and no result, little is left to ask of the page.
LEMMA QuietPage ==
    ASSUME TypeOK', IsFiniteSet(tasks'),
           \A u \in tasks' : ~u.live /\ TaskIsWhole(u),
           result' = Null, previousHash' = Null,
           running' = FALSE, requestingMapping' = FALSE,
           MappingIsOfScenario', ApprovalsStand'
    PROVE  CInv'
  BY DEF CInv, PageTypes, OneTaskIsLive, SpinnersAgree, TasksAreWhole,
     LiveTasksFit, HashesAreOfRequests, ResultIsApproved,
     ComparisonIsOfRequest, ResultBelongsToInputs

\* A reason withdraws both approvals.
LEMMA ReasonKeeps ==
    ASSUME CInv, NEW fieldPath \in Fields, NEW blank \in BOOLEAN,
           setReviewReason(fieldPath, blank)
    PROVE  CInv'
  <1> USE DEF setReviewReason, invalidateResult, DropResult, Idle
  <1>1. /\ IsFiniteSet(tasks')
        /\ tasks' \subseteq Tasks /\ Cardinality(tasks') <= MaxTasks
        /\ \A u \in tasks' : ~u.live /\ TaskIsWhole(u)
    BY StaleTasks DEF CInv
  <1>2. TypeOK'
    BY <1>1 DEF CInv, PageTypes, TypeOK, Typed, choice, server
  <1>3. MappingIsOfScenario'
    BY DEF CInv, MappingIsOfScenario, choice
  <1>4. ApprovalsStand'
    BY DEF ApprovalsStand, ApprovalIsOfDisplayed, CaseNeedsMapping
  <1> QED
    BY <1>1, <1>2, <1>3, <1>4, QuietPage

\* Another scenario, or the worked case again, withdraws everything.
LEMMA ScenarioKeeps ==
    ASSUME CInv, NEW s \in Scenarios, chooseScenario(s)
    PROVE  CInv'
  <1> USE DEF chooseScenario, invalidateResult, DropResult, Idle
  <1>1. /\ IsFiniteSet(tasks')
        /\ tasks' \subseteq Tasks /\ Cardinality(tasks') <= MaxTasks
        /\ \A u \in tasks' : ~u.live /\ TaskIsWhole(u)
    BY StaleTasks DEF CInv
  <1>2. TypeOK'
    BY <1>1, CaseReplayAssumption DEF CInv, PageTypes, TypeOK, server
  <1>3. MappingIsOfScenario' /\ ApprovalsStand'
    BY DEF MappingIsOfScenario, ApprovalsStand, ApprovalIsOfDisplayed,
       CaseNeedsMapping
  <1> QED
    BY <1>1, <1>2, <1>3, QuietPage

\* A mutation keeps the approvals: it changes neither proposal nor reasons.
LEMMA MutationKeeps ==
    ASSUME CInv, NEW m \in Mutations, chooseMutation(m)
    PROVE  CInv'
  <1> USE DEF chooseMutation, invalidateResult, DropResult, Idle
  <1>1. /\ IsFiniteSet(tasks')
        /\ tasks' \subseteq Tasks /\ Cardinality(tasks') <= MaxTasks
        /\ \A u \in tasks' : ~u.live /\ TaskIsWhole(u)
    BY StaleTasks DEF CInv
  <1>2. TypeOK'
    BY <1>1 DEF CInv, PageTypes, TypeOK, review, approvals, server
  <1>3. MappingIsOfScenario'
    BY DEF CInv, MappingIsOfScenario, review
  <1>4. ApprovalsStand'
    BY DEF CInv, ApprovalsStand, ApprovalIsOfDisplayed, CaseNeedsMapping,
       Proposal, ProposalPending, RequestRequired, review, approvals, server
  <1> QED
    BY <1>1, <1>2, <1>3, <1>4, QuietPage

\* With one task live, it must fit the page.
LEMMA BusyPage ==
    ASSUME TypeOK', IsFiniteSet(tasks'),
           NEW task \in tasks',
           \A u \in tasks' : TaskIsWhole(u) /\ (u.live <=> u = task),
           LiveTaskFits(task)',
           running' <=> task.kind = "runReplay",
           requestingMapping' <=> task.kind = "requestMapping",
           MappingIsOfScenario', HashesAreOfRequests', ComparisonIsOfRequest',
           ApprovalsStand'
    PROVE  CInv'
  <1>1. task.live
    OBVIOUS
  <1>2. SpinnersAgree' /\ OneTaskIsLive'
    BY <1>1 DEF SpinnersAgree, OneTaskIsLive
  <1>3. TasksAreWhole' /\ LiveTasksFit'
    BY DEF TasksAreWhole, LiveTasksFit
  <1>4. result' = Null
    BY DEF LiveTaskFits
  <1> QED
    BY <1>2, <1>3, <1>4 DEF CInv, PageTypes, ResultIsApproved,
       ResultBelongsToInputs

\* The approval under way is of the page as it was when the click came.
LEMMA ApproveMappingKeeps ==
    ASSUME CInv, approveMapping
    PROVE  CInv'
  <1> DEFINE record == [artifact |-> Proposal,
                        overrides |-> mappingOverrides(Proposal, reviewReasons)]
  <1> USE DEF approveMapping, invalidateResult, DropResult, Idle
  <1>1. record \in ApprovalRecords
    BY DerivedTypes DEF ApprovalRecords, mappingOverrides, CInv, PageTypes
  <1>0. PICK task : task = [Task("approveMapping") EXCEPT !.approval = record]
    OBVIOUS
  <1>2. /\ task \in Tasks /\ task.live /\ task.kind = "approveMapping"
        /\ task.scenario = scenario /\ task.approval = record
        /\ task.answer = Null
    BY <1>0, <1>1 DEF Task, Tasks, CInv, PageTypes, TypeOK
  <1>3. Start(task)
    BY <1>0
  <1>4. TaskIsWhole(task)
    BY <1>2 DEF TaskIsWhole
  <1>5. /\ IsFiniteSet(tasks') /\ Cardinality(tasks') <= MaxTasks
        /\ tasks' \subseteq Tasks /\ task \in tasks'
        /\ \A u \in tasks' : TaskIsWhole(u) /\ (u.live <=> u = task)
    BY <1>2, <1>3, <1>4, StartedTasks DEF CInv
  <1>6. TypeOK'
    BY <1>5 DEF CInv, PageTypes, TypeOK, choice, review, server
  <1>7. LiveTaskFits(task)'
    <2>1. ApprovableNow'
      BY DEF ApprovableNow, unresolvedMappingFields, Proposal, ProposalPending,
         RequestRequired, choice, review, server
    <2>2. task.approval =
            [artifact |-> Proposal,
             overrides |-> mappingOverrides(Proposal, reviewReasons)]'
      BY <1>2 DEF Proposal, mappingOverrides, choice, review
    <2> QED
      BY <1>2, <2>1, <2>2 DEF LiveTaskFits, MappingUnderApproval, choice
  <1>8. MappingIsOfScenario' /\ HashesAreOfRequests' /\ ComparisonIsOfRequest'
        /\ ApprovalsStand'
    BY DEF CInv, MappingIsOfScenario, HashesAreOfRequests, ComparisonIsOfRequest,
       ApprovalsStand, ApprovalIsOfDisplayed, CaseNeedsMapping, choice, review
  <1> QED
    BY <1>2, <1>5, <1>6, <1>7, <1>8, BusyPage

LEMMA ApproveCaseKeeps ==
    ASSUME CInv, approveCase
    PROVE  CInv'
  <1> USE DEF approveCase, invalidateResult, DropResult, Idle
  <1>0. PICK task : task = Task("approveCase")
    OBVIOUS
  <1>1. /\ task \in Tasks /\ task.live /\ task.kind = "approveCase"
        /\ task.scenario = scenario /\ task.answer = Null
    BY <1>0 DEF Task, Tasks, CInv, PageTypes, TypeOK
  <1>2. Start(task)
    BY <1>0
  <1>3. TaskIsWhole(task)
    BY <1>1 DEF TaskIsWhole
  <1>4. /\ IsFiniteSet(tasks') /\ Cardinality(tasks') <= MaxTasks
        /\ tasks' \subseteq Tasks /\ task \in tasks'
        /\ \A u \in tasks' : TaskIsWhole(u) /\ (u.live <=> u = task)
    BY <1>1, <1>2, <1>3, StartedTasks DEF CInv
  <1>5. TypeOK'
    BY <1>4 DEF CInv, PageTypes, TypeOK, choice, review, server
  <1>6. LiveTaskFits(task)'
    BY <1>1 DEF LiveTaskFits, CaseUnderApproval, choice
  <1>7. MappingIsOfScenario' /\ HashesAreOfRequests' /\ ComparisonIsOfRequest'
    BY DEF CInv, MappingIsOfScenario, HashesAreOfRequests, ComparisonIsOfRequest,
       choice, review
  <1>8. ApprovalsStand'
    BY DEF CInv, ApprovalsStand, ApprovalIsOfDisplayed, CaseNeedsMapping,
       Proposal, ProposalPending, RequestRequired, choice, review, server
  <1> QED
    BY <1>1, <1>4, <1>5, <1>6, <1>7, <1>8, BusyPage

LEMMA RequestMappingKeeps ==
    ASSUME CInv, requestMapping
    PROVE  CInv'
  <1> USE DEF requestMapping, DropResult
  <1>0. PICK task : task = Task("requestMapping")
    OBVIOUS
  <1>1. /\ task \in Tasks /\ task.live /\ task.kind = "requestMapping"
        /\ task.scenario = scenario /\ task.answer = Null
    BY <1>0 DEF Task, Tasks, CInv, PageTypes, TypeOK
  <1>2. Start(task)
    BY <1>0
  <1>3. TaskIsWhole(task)
    BY <1>1 DEF TaskIsWhole, MappingRequestIsWhole, RequestRequired
  <1>4. /\ IsFiniteSet(tasks') /\ Cardinality(tasks') <= MaxTasks
        /\ tasks' \subseteq Tasks /\ task \in tasks'
        /\ \A u \in tasks' : TaskIsWhole(u) /\ (u.live <=> u = task)
    BY <1>1, <1>2, <1>3, StartedTasks DEF CInv
  <1>5. TypeOK'
    BY <1>4 DEF CInv, PageTypes, TypeOK, choice, server
  <1>6. LiveTaskFits(task)'
    BY <1>1 DEF LiveTaskFits, MappingUnderRequest, choice
  <1>7. MappingIsOfScenario' /\ HashesAreOfRequests' /\ ComparisonIsOfRequest'
        /\ ApprovalsStand'
    BY DEF MappingIsOfScenario, HashesAreOfRequests, ComparisonIsOfRequest,
       ApprovalsStand, ApprovalIsOfDisplayed, CaseNeedsMapping
  <1> QED
    BY <1>1, <1>4, <1>5, <1>6, <1>7, BusyPage

-----------------------------------------------------------------------------
(* A run. *)

\* The request the page composes when it may run is one the route can approve.
LEMMA ComposedRequest ==
    ASSUME CInv, NEW rows \in Orders, NEW repeat \in BOOLEAN,
           runReplay(repeat)
    PROVE  RequestIsApproved(Request(rows))
  <1> DEFINE q == Request(rows)
  <1>1. /\ approval \in ApprovalRecords
        /\ approval.artifact = Proposal
        /\ FlaggedOf[Proposal] \subseteq approval.overrides
    BY DEF CInv, PageTypes, TypeOK, ApprovalsStand, ApprovalIsOfDisplayed,
       runReplay
  <1>2. scenario \in HasManifest => caseApproval = scenario
    BY DEF CInv, ApprovalsStand, CaseNeedsMapping, runReplay
  <1>3. /\ q.mappingApproval = approval
        /\ q.scenario = scenario
        /\ q.receipt = IF requestedMapping # Null /\ requestedMapping.mode = "ai"
                       THEN requestedMapping.proposal ELSE Null
        /\ q.manifest = IF scenario \in HasManifest THEN scenario ELSE Null
        /\ q.caseApproval = IF scenario \in HasManifest THEN caseApproval ELSE Null
    BY DEF Request
  <1>4. q \in Requests
    <2>1. scenario \in Scenarios /\ mutation \in Mutations
      BY DerivedTypes DEF CInv, PageTypes, TypeOK
    <2>2. q.receipt \in Proposals \cup {Null}
      BY <1>3 DEF CInv, PageTypes, TypeOK, Mappings
    <2>3. /\ q.manifest \in Scenarios \cup {Null}
          /\ q.caseApproval \in Scenarios \cup {Null}
      BY <1>3, <2>1 DEF CInv, PageTypes, TypeOK
    <2> QED
      BY <1>1, <2>1, <2>2, <2>3 DEF Request, Requests
  <1>5. Proposal = IF q.receipt # Null THEN q.receipt ELSE Fixture(q.scenario)
    BY <1>3, NullAssumption DEF Proposal, CInv, PageTypes, TypeOK, Mappings,
       Modes, MappingIsOfScenario, MappingFits
  <1>6. q.manifest # Null => q.caseApproval = q.manifest /\ q.manifest = q.scenario
    BY <1>2, <1>3
  <1> HIDE DEF q
  <1> QED
    BY <1>1, <1>3, <1>4, <1>5, <1>6 DEF RequestIsApproved, q

\* A repeat is compared with the very request it repeats.
LEMMA RunKeeps ==
    ASSUME CInv, NEW repeat \in BOOLEAN, runReplay(repeat)
    PROVE  CInv'
  <1>1. PICK rows \in SubmittedRows(repeat) :
               /\ Start([Task("runReplay") EXCEPT !.request = Request(rows)])
               /\ lastSubmittedRows' = rows
               /\ submittedOrder' = rows
    BY DEF runReplay
  <1>2. rows \in Orders
    BY CaseReplayAssumption DEF SubmittedRows, shuffleSourceRows, CInv, PageTypes,
       TypeOK
  <1>0. PICK task : task = [Task("runReplay") EXCEPT !.request = Request(rows)]
    OBVIOUS
  <1>3. RequestIsApproved(Request(rows)) /\ Request(rows) \in Requests
    BY <1>2, ComposedRequest DEF RequestIsApproved
  <1>4. /\ task \in Tasks /\ task.live /\ task.kind = "runReplay"
        /\ task.scenario = scenario /\ task.request = Request(rows)
        /\ task.answer = Null
    BY <1>0, <1>3 DEF Task, Tasks, CInv, PageTypes, TypeOK
  <1>5. Start(task)
    BY <1>0, <1>1
  <1>6. TaskIsWhole(task)
    BY <1>3, <1>4 DEF TaskIsWhole, RunIsWhole
  <1>7. /\ IsFiniteSet(tasks') /\ Cardinality(tasks') <= MaxTasks
        /\ tasks' \subseteq Tasks /\ task \in tasks'
        /\ \A u \in tasks' : TaskIsWhole(u) /\ (u.live <=> u = task)
    BY <1>4, <1>5, <1>6, StartedTasks DEF CInv
  <1>8. repeat => previousHash # Null \/ result # Null
    BY DEF runReplay, CompleteResult
  <1>9. previousHash' \in [hash : Hashes, request : Requests] \cup {Null}
    BY <1>8 DEF runReplay, Comparison, CInv, PageTypes, TypeOK, Results
  <1>10. TypeOK'
    BY <1>1, <1>2, <1>7, <1>9 DEF runReplay, DropResult, CInv, PageTypes, TypeOK,
       choice, review, approvals, server
  <1>11. Request(rows)' = Request(rows)
    BY DEF Request, runReplay, choice, review, approvals
  <1>12. LiveTaskFits(task)'
    BY <1>1, <1>2, <1>4, <1>11 DEF LiveTaskFits, RunUnderWay, runReplay,
       DropResult, approvals, choice, Request
  <1>13. HashesAreOfRequests'
    BY <1>8 DEF HashesAreOfRequests, runReplay, DropResult, Comparison, CInv
  <1>14. ComparisonIsOfRequest'
    <2> SUFFICES ASSUME previousHash' # Null
                 PROVE  previousHash'.request = Request(lastSubmittedRows)'
      BY DEF ComparisonIsOfRequest
    <2>1. repeat /\ previousHash' = Comparison
      BY DEF runReplay
    <2>2. Comparison.request = Request(lastSubmittedRows)
      BY <1>8, <2>1 DEF Comparison, CInv, ComparisonIsOfRequest,
         ResultBelongsToInputs
    <2>3. Comparison.request \in Requests
      BY <1>8, <2>1 DEF Comparison, CInv, PageTypes, TypeOK, Results
    <2>4. lastSubmittedRows \in Orders
      BY <2>2, <2>3 DEF Request, Requests
    <2>5. rows = lastSubmittedRows
      BY <2>1, <2>4, NullAssumption DEF SubmittedRows
    <2> QED
      BY <1>1, <1>11, <2>1, <2>2, <2>5 DEF Request
  <1>15. MappingIsOfScenario' /\ ApprovalsStand'
    BY DEF CInv, MappingIsOfScenario, ApprovalsStand, ApprovalIsOfDisplayed,
       CaseNeedsMapping, Proposal, ProposalPending, RequestRequired, runReplay,
       choice, review, approvals, server
  <1> QED
    BY <1>4, <1>7, <1>10, <1>12, <1>13, <1>14, <1>15, BusyPage DEF runReplay

-----------------------------------------------------------------------------
(* The server. *)

\* What the page shows and has approved.
page == <<choice, review, approvals, shown, lastSubmittedRows, pageMode>>

\* The server touches the tasks' answers at most, and so nothing that the page
\* derives.
LEMMA ServerKeeps ==
    ASSUME CInv, UNCHANGED page,
           mode' \in Modes, engine' \in 0 .. MaxEngine,
           receipts' \subseteq [of : Eligible, draft : Drafts],
           IsFiniteSet(tasks'), Cardinality(tasks') <= MaxTasks,
           tasks' \subseteq Tasks, TasksAreWhole', OneTaskIsLive',
           \A u \in tasks' : \E v \in tasks : SameTask(u, v),
           \A v \in tasks : \E u \in tasks' : SameTask(u, v)
    PROVE  CInv'
  <1> USE DEF page, choice, review, approvals, shown
  <1>1. PageTypes'
    BY DEF CInv, PageTypes, TypeOK
  <1>2. SpinnersAgree'
    BY DEF CInv, SpinnersAgree, SameTask
  <1>3. /\ Proposal' = Proposal
        /\ ProposalPending' = ProposalPending
        /\ Request(lastSubmittedRows)' = Request(lastSubmittedRows)
    BY DEF Proposal, ProposalPending, RequestRequired, Request
  <1>4. LiveTasksFit'
    <2> SUFFICES ASSUME NEW u \in tasks', u.live
                 PROVE  LiveTaskFits(u)'
      BY DEF LiveTasksFit
    <2>1. PICK v \in tasks : SameTask(u, v)
      OBVIOUS
    <2>2. LiveTaskFits(v)
      BY <2>1 DEF CInv, LiveTasksFit, SameTask
    <2> QED
      BY <1>3, <2>1, <2>2 DEF SameTask, LiveTaskFits, MappingUnderApproval,
         ApprovableNow, mappingOverrides, CaseUnderApproval, MappingUnderRequest,
         RunUnderWay
  <1>5. MappingIsOfScenario' /\ HashesAreOfRequests' /\ ComparisonIsOfRequest'
        /\ ResultIsApproved'
    BY <1>3 DEF CInv, MappingIsOfScenario, HashesAreOfRequests,
       ComparisonIsOfRequest, ResultIsApproved
  <1>6. ApprovalsStand' /\ ResultBelongsToInputs'
    BY <1>3 DEF CInv, ApprovalsStand, ApprovalIsOfDisplayed, CaseNeedsMapping,
       ResultBelongsToInputs
  <1> QED
    BY <1>1, <1>2, <1>4, <1>5, <1>6 DEF CInv

\* What the route answers to an approved request.
LEMMA RouteAnswers ==
    ASSUME TypeOK, NEW q, RequestIsApproved(q)
    PROVE  /\ \/ Recorded(q) = Null \/ ReplayAnswer(q).status = "ok"
              \/ RowsFailUnder(q, RowOutcomes \ {"replayable"})
           /\ ReplayAnswer(q) \in Answers
           /\ RefusalFits(ReplayAnswer(q).state, q)
           /\ ReplayAnswer(q).status = "ok" =>
                /\ ReplayAnswer(q).state \in {"MAPPING_APPROVED", "REPLAYED"}
                /\ ReplayAnswer(q).state = "REPLAYED" => q.manifest # Null
                /\ HashIsOf(ReplayAnswer(q).hash, q)
  <1> DEFINE a == q.mappingApproval.artifact
  <1>1. /\ q \in Requests
        /\ a = IF q.receipt # Null THEN q.receipt ELSE Fixture(q.scenario)
        /\ FlaggedOf[a] \subseteq q.mappingApproval.overrides
        /\ q.manifest # Null => q.caseApproval = q.manifest /\ q.manifest = q.scenario
    BY DEF RequestIsApproved
  <1>2. a \in Proposals
    BY <1>1 DEF Requests, ApprovalRecords
  <1>3. Recorded(q) = Null \/ Recorded(q) = a
    <2>1. q.receipt \in receipts => q.receipt # Null
      BY NullAssumption, CaseReplayAssumption DEF TypeOK, Proposals
    <2> QED
      BY <1>1, <2>1 DEF Recorded
  <1>4. CASE Recorded(q) = Null
    <2>1. ReplayAnswer(q) = Answer("review", "MAPPING_REVIEW_REQUIRED")
      BY <1>4 DEF ReplayAnswer
    <2> QED
      BY <1>4, <2>1 DEF Answer, Answers, Reviews, RefusalFits
  <1>5. RowsUnder[a] \in RowOutcomes /\ (RowsUnder[a] # "replayable" => q.receipt = a)
    <2>1. q.scenario \in Scenarios
      BY <1>1 DEF Requests
    <2> QED
      BY <1>1, <1>2, <2>1, CaseReplayAssumption DEF Fixture
  <1>6. a # Null
    BY <1>2, NullAssumption
  <1>7. ASSUME Recorded(q) = a, NEW state \in Reviews,
               ReplayAnswer(q) = Answer("review", state),
               RowsUnder[a] # "replayable", RefusalFits(state, q)
        PROVE  /\ RowsFailUnder(q, RowOutcomes \ {"replayable"})
               /\ ReplayAnswer(q) \in Answers
               /\ RefusalFits(ReplayAnswer(q).state, q)
               /\ ReplayAnswer(q).status # "ok"
    <2>1. RowsFailUnder(q, RowOutcomes \ {"replayable"})
      BY <1>5, <1>6, <1>7 DEF RowsFailUnder
    <2> QED
      BY <1>7, <2>1 DEF Answer, Answers
  <1>8. CASE Recorded(q) # Null
    <2>1. Recorded(q) = a /\ MappingApproved(q, a)
      BY <1>1, <1>3, <1>8 DEF MappingApproved
    <2>2. q.manifest # Null => CaseApproved(q)
      BY <1>1 DEF CaseApproved
    <2> DEFINE h == [engine |-> engine, proposal |-> a, manifest |-> q.manifest]
               state == IF q.manifest = Null THEN "MAPPING_APPROVED" ELSE "REPLAYED"
    <2>3. CASE RowsUnder[a] = "unexecutable"
      <3>1. ReplayAnswer(q) = Answer("review", "MAPPING_REVIEW_REQUIRED")
        BY <2>1, <2>3 DEF ReplayAnswer
      <3> QED
        BY <1>7, <2>1, <2>3, <3>1 DEF Reviews, RefusalFits
    <2>4. CASE RowsUnder[a] \in {"unmapped", "conflicting"}
      <3>1. ReplayAnswer(q) = Answer("review", "INPUT_REVIEW_REQUIRED")
        BY <1>8, <2>1, <2>4 DEF ReplayAnswer
      <3>2. RefusalFits("INPUT_REVIEW_REQUIRED", q)
        BY <1>5, <1>6, <2>4 DEF RefusalFits, RowsFailUnder
      <3> QED
        BY <1>7, <2>1, <2>4, <3>1, <3>2 DEF Reviews
    <2>5. CASE RowsUnder[a] = "unprofiled" /\ q.manifest # Null
      <3>1. ReplayAnswer(q) = Answer("review", "CASE_REVIEW_REQUIRED")
        BY <1>8, <2>1, <2>5 DEF ReplayAnswer
      <3>2. RefusalFits("CASE_REVIEW_REQUIRED", q)
        BY <1>5, <1>6, <2>5 DEF RefusalFits, RowsFailUnder
      <3> QED
        BY <1>7, <2>1, <2>5, <3>1, <3>2 DEF Reviews
    <2> SUFFICES ASSUME \/ RowsUnder[a] = "replayable"
                        \/ RowsUnder[a] = "unprofiled" /\ q.manifest = Null
                 PROVE  /\ ReplayAnswer(q).status = "ok"
                        /\ ReplayAnswer(q) \in Answers
                        /\ RefusalFits(ReplayAnswer(q).state, q)
                        /\ ReplayAnswer(q).state \in {"MAPPING_APPROVED", "REPLAYED"}
                        /\ ReplayAnswer(q).state = "REPLAYED" => q.manifest # Null
                        /\ HashIsOf(ReplayAnswer(q).hash, q)
      BY <1>5, <2>3, <2>4, <2>5 DEF RowOutcomes
    <2>6. ReplayAnswer(q) = [status |-> "ok", state |-> state, hash |-> h,
                             mapping |-> Null]
      BY <1>8, <2>1, <2>2 DEF ReplayAnswer
    <2>7. h \in Hashes /\ HashIsOf(h, q)
      BY <1>1, <1>2 DEF TypeOK, Hashes, Requests, HashIsOf
    <2>8. /\ state \in {"MAPPING_APPROVED", "REPLAYED"}
          /\ state = "REPLAYED" => q.manifest # Null
      OBVIOUS
    <2> HIDE DEF h, state
    <2> QED
      BY <2>6, <2>7, <2>8 DEF Answers, RefusalFits
  <1> QED
    BY <1>4, <1>8

LEMMA AnswersKeep ==
    ASSUME CInv, NEW t \in tasks, ServerAnswers(t)
    PROVE  CInv'
  <1>1. t \in Tasks /\ TaskIsWhole(t)
    BY DEF CInv, PageTypes, TypeOK, TasksAreWhole
  <1>2. ASSUME NEW a \in Answers, Answered(t, a), UNCHANGED <<page, mode, engine>>,
               receipts' \subseteq [of : Eligible, draft : Drafts],
               TaskIsWhole([t EXCEPT !.answer = a])
        PROVE  CInv'
    <2>1. mode' \in Modes /\ engine' \in 0 .. MaxEngine
      BY <1>2 DEF CInv, PageTypes, TypeOK
    <2> QED
      BY <1>2, <2>1, AnsweredTasks, ServerKeeps DEF CInv
  <1>3. \A a : LET u == [t EXCEPT !.answer = a]
               IN  /\ u.kind = t.kind /\ u.scenario = t.scenario
                   /\ u.request = t.request /\ u.answer = a
    BY <1>1 DEF Tasks
  <1>4. CASE AnswerReplay(t)
    <2> DEFINE a == ReplayAnswer(t.request)
    <2>1. t.kind = "runReplay" /\ RequestIsApproved(t.request)
      BY <1>1, <1>4 DEF AnswerReplay, Waiting, TaskIsWhole, RunIsWhole
    <2>2. /\ a \in Answers /\ RefusalFits(a.state, t.request)
          /\ a.status = "ok" =>
               /\ a.state \in {"MAPPING_APPROVED", "REPLAYED"}
               /\ a.state = "REPLAYED" => t.request.manifest # Null
               /\ HashIsOf(a.hash, t.request)
      BY <2>1, RouteAnswers DEF CInv, PageTypes
    <2>3. Answered(t, a) /\ UNCHANGED <<page, mode, engine>>
          /\ receipts' \subseteq [of : Eligible, draft : Drafts]
      BY <1>4 DEF AnswerReplay, page, server, CInv, PageTypes, TypeOK
    <2> HIDE DEF a
    <2>4. TaskIsWhole([t EXCEPT !.answer = a])
      BY <1>3, <2>1, <2>2 DEF TaskIsWhole, RunIsWhole
    <2> QED
      BY <1>2, <2>2, <2>3, <2>4
  <1>5. CASE AnswerMapping(t)
    <2>1. /\ t.kind = "requestMapping" /\ t.scenario \in Scenarios
          /\ t.scenario \in Eligible
      BY <1>1, <1>5 DEF AnswerMapping, Waiting, Tasks, TaskIsWhole,
         MappingRequestIsWhole
    <2>2. UNCHANGED <<page, mode, engine>>
      BY <1>5 DEF AnswerMapping, page
    <2>3. ASSUME NEW m \in Mappings, MappingFits(m, t.scenario),
                 Answered(t, [Answer("ok", "MAPPING_PROPOSED") EXCEPT !.mapping = m]),
                 receipts' \subseteq [of : Eligible, draft : Drafts]
          PROVE  CInv'
      <3> DEFINE a == [Answer("ok", "MAPPING_PROPOSED") EXCEPT !.mapping = m]
      <3>1. /\ a \in Answers /\ a.mapping = m
            /\ a.state = "MAPPING_PROPOSED"
        BY DEF Answer, Answers
      <3>2. Answered(t, a)
        BY <2>3
      <3> HIDE DEF a
      <3>3. TaskIsWhole([t EXCEPT !.answer = a])
        BY <1>3, <2>1, <2>3, <3>1 DEF TaskIsWhole, MappingRequestIsWhole
      <3> QED
        BY <1>2, <2>2, <2>3, <3>1, <3>2, <3>3
    <2>4. CASE /\ mode = "fixture"
               /\ Answered(t, ProposedMapping("fixture", Fixture(t.scenario)))
               /\ UNCHANGED receipts
      <3> DEFINE m == [mode |-> "fixture", proposal |-> Fixture(t.scenario)]
      <3>1. m \in Mappings /\ MappingFits(m, t.scenario)
        BY <2>1 DEF Mappings, Modes, MappingFits, Fixture, Proposals
      <3>2. receipts' \subseteq [of : Eligible, draft : Drafts]
        BY <2>4 DEF CInv, PageTypes, TypeOK
      <3> QED
        BY <2>3, <2>4, <3>1, <3>2 DEF ProposedMapping
    <2>5. CASE /\ mode = "ai"
               /\ \E d \in Drafts :
                    LET p == [of |-> t.scenario, draft |-> d]
                    IN  /\ Answered(t, ProposedMapping("ai", p))
                        /\ receipts' = receipts \cup {p}
      <3>1. PICK d \in Drafts :
                   LET p == [of |-> t.scenario, draft |-> d]
                   IN  /\ Answered(t, ProposedMapping("ai", p))
                       /\ receipts' = receipts \cup {p}
        BY <2>5
      <3> DEFINE p == [of |-> t.scenario, draft |-> d]
                 m == [mode |-> "ai", proposal |-> p]
      <3>2. m \in Mappings /\ MappingFits(m, t.scenario)
        BY <2>1 DEF Mappings, Modes, MappingFits, Proposals
      <3>3. receipts' \subseteq [of : Eligible, draft : Drafts]
        BY <2>1, <2>5, <3>1 DEF CInv, PageTypes, TypeOK
      <3> QED
        BY <2>3, <3>1, <3>2, <3>3 DEF ProposedMapping
    <2>6. CASE /\ Answered(t, Answer("review", "MAPPING_REVIEW_REQUIRED"))
               /\ UNCHANGED receipts
      <3> DEFINE a == Answer("review", "MAPPING_REVIEW_REQUIRED")
      <3>1. a \in Answers /\ a.status = "review" /\ a.state = "MAPPING_REVIEW_REQUIRED"
        BY DEF Answer, Answers, Reviews
      <3>2. receipts' \subseteq [of : Eligible, draft : Drafts]
        BY <2>6 DEF CInv, PageTypes, TypeOK
      <3> HIDE DEF a
      <3>3. TaskIsWhole([t EXCEPT !.answer = a])
        BY <1>3, <2>1, <3>1 DEF TaskIsWhole, MappingRequestIsWhole
      <3> QED
        BY <1>2, <2>2, <2>6, <3>1, <3>2, <3>3 DEF a
    <2> QED
      BY <1>5, <2>4, <2>5, <2>6 DEF AnswerMapping
  <1>6. CASE FetchFails(t)
    <2> DEFINE a == Answer("failed", Null)
    <2>1. /\ a \in Answers /\ a.status = "failed" /\ a.state = Null
      BY DEF Answer, Answers
    <2>2. /\ Answered(t, a) /\ UNCHANGED <<page, mode, engine>>
          /\ receipts' \subseteq [of : Eligible, draft : Drafts]
      BY <1>6 DEF FetchFails, page, server, CInv, PageTypes, TypeOK
    <2>3. t.kind \in {"runReplay", "requestMapping"}
      BY <1>6 DEF FetchFails, Waiting
    <2>4. RefusalFits(a.state, t.request)
      BY <2>1, NullAssumption DEF RefusalFits, Reviews
    <2> HIDE DEF a
    <2>5. TaskIsWhole([t EXCEPT !.answer = a])
      BY <1>1, <1>3, <2>1, <2>3, <2>4 DEF TaskIsWhole, RunIsWhole,
         MappingRequestIsWhole
    <2> QED
      BY <1>2, <2>1, <2>2, <2>5
  <1> QED
    BY <1>4, <1>5, <1>6 DEF ServerAnswers

\* Receipts lapse and servers are replaced without the page's knowing.
LEMMA OperatorKeeps ==
    ASSUME CInv, ReceiptsLapse \/ Deploy
    PROVE  CInv'
  <1>1. UNCHANGED <<page, tasks>>
    BY DEF ReceiptsLapse, Deploy, page
  <1>2. /\ mode' \in Modes /\ engine' \in 0 .. MaxEngine
        /\ receipts' \subseteq [of : Eligible, draft : Drafts]
    BY CaseReplayAssumption DEF ReceiptsLapse, Deploy, CInv, PageTypes, TypeOK
  <1>3. /\ IsFiniteSet(tasks') /\ Cardinality(tasks') <= MaxTasks
        /\ tasks' \subseteq Tasks /\ TasksAreWhole' /\ OneTaskIsLive'
    BY <1>1 DEF CInv, PageTypes, TypeOK, TasksAreWhole, OneTaskIsLive
  <1>4. /\ \A u \in tasks' : \E v \in tasks : SameTask(u, v)
        /\ \A v \in tasks : \E u \in tasks' : SameTask(u, v)
    BY <1>1 DEF SameTask
  <1> QED
    BY <1>1, <1>2, <1>3, <1>4, ServerKeeps

-----------------------------------------------------------------------------
(* What follows an await. *)

\* The end of a task finds the page it was started from.
LEMMA EndFinds ==
    ASSUME CInv, NEW t, NEW kind, Ends(t, kind), Current(t)
    PROVE  /\ t \in tasks /\ t \in Tasks /\ t.live /\ t.kind = kind
           /\ TaskIsWhole(t) /\ LiveTaskFits(t)
           /\ IsFiniteSet(tasks') /\ Cardinality(tasks') <= MaxTasks
           /\ tasks' \subseteq Tasks
           /\ \A u \in tasks' : TaskIsWhole(u) /\ ~u.live
           /\ running => kind = "runReplay"
           /\ requestingMapping => kind = "requestMapping"
  <1>1. t \in tasks /\ t.live /\ t.kind = kind /\ tasks' = tasks \ {t}
    BY DEF Ends, Current
  <1> QED
    BY <1>1, EndedTasks DEF CInv, PageTypes, TypeOK, TasksAreWhole, LiveTasksFit,
       SpinnersAgree, OneTaskIsLive

\* The two digests: each end sets its own approval and the error beside it.
LEMMA ApprovalEndsKeep ==
    ASSUME CInv, NEW t, ApproveMappingEnds(t) \/ ApproveCaseEnds(t)
    PROVE  CInv'
  <1>1. CASE ApproveMappingEnds(t)
    <2> USE DEF ApproveMappingEnds
    <2>1. /\ t \in Tasks /\ t.kind = "approveMapping" /\ LiveTaskFits(t)
          /\ IsFiniteSet(tasks') /\ Cardinality(tasks') <= MaxTasks
          /\ tasks' \subseteq Tasks
          /\ \A u \in tasks' : TaskIsWhole(u) /\ ~u.live
          /\ ~running /\ ~requestingMapping
      BY <1>1, EndFinds
    <2>2. result = Null /\ previousHash = Null /\ MappingUnderApproval(t)
      BY <2>1 DEF LiveTaskFits
    <2>3. TypeOK'
      BY <1>1, <2>1 DEF CInv, PageTypes, TypeOK, Tasks, choice, review, server
    <2>4. ApprovalsStand'
      <3>1. /\ Proposal' = Proposal /\ ProposalPending' = ProposalPending
            /\ UNCHANGED <<reviewReasons, requestingMapping, caseApproval>>
        BY <1>1 DEF Proposal, ProposalPending, RequestRequired, choice, review,
           server
      <3>2. /\ t.approval.artifact = Proposal
            /\ t.approval.overrides = FlaggedOf[Proposal] \cap reviewReasons
            /\ t.approval.overrides = FlaggedOf[Proposal]
            /\ ~ProposalPending /\ ~requestingMapping /\ caseApproval = Null
        BY <2>2 DEF MappingUnderApproval, ApprovableNow, mappingOverrides
      <3>3. approval' # Null => approval' = t.approval
        BY <1>1
      <3> QED
        BY <3>1, <3>2, <3>3 DEF ApprovalsStand, ApprovalIsOfDisplayed,
           CaseNeedsMapping
    <2>5. MappingIsOfScenario'
      BY <1>1 DEF CInv, MappingIsOfScenario, choice, review
    <2>6. running' = FALSE /\ requestingMapping' = FALSE
      BY <1>1, <2>1 DEF CInv, PageTypes, TypeOK
    <2> QED
      BY <1>1, <2>1, <2>2, <2>3, <2>4, <2>5, <2>6, QuietPage
  <1>2. CASE ApproveCaseEnds(t)
    <2> USE DEF ApproveCaseEnds
    <2>1. /\ t \in Tasks /\ t.kind = "approveCase" /\ LiveTaskFits(t)
          /\ IsFiniteSet(tasks') /\ Cardinality(tasks') <= MaxTasks
          /\ tasks' \subseteq Tasks
          /\ \A u \in tasks' : TaskIsWhole(u) /\ ~u.live
          /\ ~running /\ ~requestingMapping
      BY <1>2, EndFinds
    <2>2. /\ result = Null /\ previousHash = Null /\ CaseUnderApproval(t)
          /\ t.scenario = scenario
      BY <2>1 DEF LiveTaskFits
    <2>3. TypeOK'
      BY <1>2, <2>1 DEF CInv, PageTypes, TypeOK, Tasks, choice, review, server
    <2>4. ApprovalsStand'
      BY <1>2, <2>2 DEF CInv, CaseUnderApproval, ApprovalsStand,
         ApprovalIsOfDisplayed, CaseNeedsMapping, Proposal, ProposalPending,
         RequestRequired, choice, review, server
    <2>5. MappingIsOfScenario'
      BY <1>2 DEF CInv, MappingIsOfScenario, choice, review
    <2>6. running' = FALSE /\ requestingMapping' = FALSE
      BY <1>2, <2>1 DEF CInv, PageTypes, TypeOK
    <2> QED
      BY <1>2, <2>1, <2>2, <2>3, <2>4, <2>5, <2>6, QuietPage
  <1> QED
    BY <1>1, <1>2

\* A mapping arrives where nothing is approved yet.
LEMMA MappingEndKeeps ==
    ASSUME CInv, NEW t, RequestMappingEnds(t)
    PROVE  CInv'
  <1> USE DEF RequestMappingEnds
  <1>1. /\ t \in Tasks /\ t.kind = "requestMapping" /\ LiveTaskFits(t)
        /\ TaskIsWhole(t)
        /\ IsFiniteSet(tasks') /\ Cardinality(tasks') <= MaxTasks
        /\ tasks' \subseteq Tasks
        /\ \A u \in tasks' : TaskIsWhole(u) /\ ~u.live
        /\ ~running
    BY EndFinds
  <1>2. /\ result = Null /\ previousHash = Null /\ MappingUnderRequest(t)
        /\ t.scenario = scenario
    BY <1>1 DEF LiveTaskFits
  <1>3. t.answer.status = "ok" =>
          t.answer.mapping \in Mappings /\ MappingFits(t.answer.mapping, scenario)
    BY <1>1, <1>2 DEF TaskIsWhole, MappingRequestIsWhole
  <1>4. TypeOK'
    BY <1>1, <1>3 DEF CInv, PageTypes, TypeOK, Reviews, choice, approvals, server
  <1>5. ApprovalsStand'
    BY <1>2 DEF MappingUnderRequest, ApprovalsStand, ApprovalIsOfDisplayed,
       CaseNeedsMapping, approvals
  <1>6. MappingIsOfScenario'
    BY <1>3 DEF CInv, MappingIsOfScenario, choice
  <1>7. running' = FALSE /\ requestingMapping' = FALSE
    BY <1>1 DEF CInv, PageTypes, TypeOK
  <1> QED
    BY <1>1, <1>2, <1>4, <1>5, <1>6, <1>7, QuietPage

\* A result arrives where its request still describes the page.
LEMMA RunEndKeeps ==
    ASSUME CInv, NEW t, RunReplayEnds(t)
    PROVE  CInv'
  <1> USE DEF RunReplayEnds
  <1>1. /\ t \in Tasks /\ t.kind = "runReplay" /\ LiveTaskFits(t)
        /\ RunIsWhole(t)
        /\ IsFiniteSet(tasks') /\ Cardinality(tasks') <= MaxTasks
        /\ tasks' \subseteq Tasks
        /\ \A u \in tasks' : TaskIsWhole(u) /\ ~u.live
        /\ ~requestingMapping
    BY EndFinds DEF TaskIsWhole
  <1>2. /\ result = Null
        /\ RunUnderWay(t)
    BY <1>1 DEF LiveTaskFits
  <1>3. /\ t.answer \in Answers /\ t.request \in Requests
        /\ t.answer.status = "ok" =>
             /\ t.answer.state \in {"MAPPING_APPROVED", "REPLAYED"}
             /\ t.answer.state = "REPLAYED" => t.request.manifest # Null
             /\ HashIsOf(t.answer.hash, t.request)
    BY <1>1 DEF Tasks, RunIsWhole, RequestIsApproved
  <1>4. TypeOK'
    <2>1. result' \in Results \cup {Null}
      BY <1>2, <1>3 DEF HashIsOf, Results
    <2>2. workflowState' \in Reviews \cup {"MAPPING_APPROVED", "REPLAYED",
                                           "MAPPING_PROPOSED", Null}
      BY <1>3 DEF Answers, CInv, PageTypes, TypeOK
    <2>3. error' \in {"none", "refused", "failed"}
      BY <1>2, <1>3 DEF RunUnderWay, Answers
    <2> QED
      BY <1>1, <2>1, <2>2, <2>3 DEF CInv, PageTypes, TypeOK, choice, review,
         approvals, server
  <1>5. SpinnersAgree' /\ OneTaskIsLive' /\ TasksAreWhole' /\ LiveTasksFit'
    BY <1>1 DEF SpinnersAgree, OneTaskIsLive, TasksAreWhole, LiveTasksFit
  <1>6. Request(lastSubmittedRows)' = Request(lastSubmittedRows)
    BY DEF Request, choice, review, approvals
  <1>7. HashesAreOfRequests' /\ ResultIsApproved' /\ ComparisonIsOfRequest'
    BY <1>1, <1>2, <1>3, <1>6 DEF CInv, HashesAreOfRequests, ResultIsApproved,
       ComparisonIsOfRequest, RunIsWhole
  <1>8. ResultBelongsToInputs'
    BY <1>2, <1>3, <1>6 DEF RunUnderWay, ResultBelongsToInputs
  <1>9. MappingIsOfScenario' /\ ApprovalsStand'
    BY DEF CInv, MappingIsOfScenario, ApprovalsStand, ApprovalIsOfDisplayed,
       CaseNeedsMapping, Proposal, ProposalPending, RequestRequired, choice,
       review, approvals, server
  <1> QED
    BY <1>1, <1>4, <1>5, <1>7, <1>8, <1>9 DEF CInv, PageTypes

\* An answer that nobody waits for changes nothing.
LEMMA IgnoringKeeps ==
    ASSUME CInv, NEW t, IgnoreAnswer(t)
    PROVE  CInv'
  <1>1. t \in tasks /\ ~t.live /\ tasks' = tasks \ {t} /\ UNCHANGED <<page, server>>
    BY DEF IgnoreAnswer, Ends, Current, page, server
  <1>2. IsFiniteSet(tasks') /\ Cardinality(tasks') <= MaxTasks
    <2>1. IsFiniteSet(tasks') /\ Cardinality(tasks') = Cardinality(tasks) - 1
      BY <1>1, FS_RemoveElement DEF CInv, PageTypes
    <2>2. Cardinality(tasks) \in Nat /\ Cardinality(tasks) <= MaxTasks
      BY FS_CardinalityType DEF CInv, PageTypes, TypeOK
    <2> QED
      BY <2>1, <2>2, CaseReplayAssumption
  <1> USE DEF page, choice, review, approvals, shown, server
  <1>3. PageTypes'
    BY <1>1, <1>2 DEF CInv, PageTypes, TypeOK
  <1>4. OneTaskIsLive' /\ SpinnersAgree' /\ TasksAreWhole'
    BY <1>1 DEF CInv, OneTaskIsLive, SpinnersAgree, TasksAreWhole
  <1>5. /\ Proposal' = Proposal
        /\ ProposalPending' = ProposalPending
        /\ Request(lastSubmittedRows)' = Request(lastSubmittedRows)
    BY <1>1 DEF Proposal, ProposalPending, RequestRequired, Request
  <1>6. LiveTasksFit'
    <2> SUFFICES ASSUME NEW u \in tasks', u.live
                 PROVE  LiveTaskFits(u)'
      BY DEF LiveTasksFit
    <2>1. LiveTaskFits(u)
      BY <1>1 DEF CInv, LiveTasksFit
    <2> QED
      BY <1>1, <1>5, <2>1 DEF LiveTaskFits, MappingUnderApproval, ApprovableNow,
         mappingOverrides, CaseUnderApproval, MappingUnderRequest, RunUnderWay
  <1>7. MappingIsOfScenario' /\ HashesAreOfRequests' /\ ComparisonIsOfRequest'
        /\ ApprovalsStand' /\ ResultBelongsToInputs' /\ ResultIsApproved'
    BY <1>1, <1>5 DEF CInv, MappingIsOfScenario, HashesAreOfRequests,
       ComparisonIsOfRequest, ResultIsApproved, ApprovalsStand, ApprovalIsOfDisplayed,
       CaseNeedsMapping, ResultBelongsToInputs
  <1> QED
    BY <1>3, <1>4, <1>6, <1>7 DEF CInv

-----------------------------------------------------------------------------
(* The inductive invariant, and what it gives. *)

LEMMA InitCInv == Init => CInv
  <1> SUFFICES ASSUME Init
               PROVE  CInv
    OBVIOUS
  <1> USE DEF Init
  <1>1. PageTypes
    <2>1. IsFiniteSet(tasks) /\ Cardinality(tasks) <= MaxTasks
      BY CaseReplayAssumption, FS_EmptySet
    <2>2. engine \in 0 .. MaxEngine
      BY CaseReplayAssumption
    <2> QED
      BY <2>1, <2>2, CaseReplayAssumption DEF PageTypes, TypeOK, Modes
  <1> QED
    BY <1>1 DEF CInv, OneTaskIsLive, SpinnersAgree, TasksAreWhole, LiveTasksFit,
       MappingIsOfScenario, HashesAreOfRequests, ResultIsApproved,
       ComparisonIsOfRequest, ApprovalsStand, ApprovalIsOfDisplayed,
       CaseNeedsMapping, ResultBelongsToInputs

LEMMA StutterKeeps ==
    ASSUME CInv, UNCHANGED vars
    PROVE  CInv'
  <1>1. UNCHANGED <<page, tasks, server>>
    BY DEF vars, page, server
  <1>2. /\ mode' \in Modes /\ engine' \in 0 .. MaxEngine
        /\ receipts' \subseteq [of : Eligible, draft : Drafts]
        /\ IsFiniteSet(tasks') /\ Cardinality(tasks') <= MaxTasks
        /\ tasks' \subseteq Tasks /\ TasksAreWhole' /\ OneTaskIsLive'
    BY <1>1 DEF CInv, PageTypes, TypeOK, TasksAreWhole, OneTaskIsLive, server
  <1> QED
    BY <1>1, <1>2, ServerKeeps DEF SameTask

LEMMA NextCInv == CInv /\ [Next]_vars => CInv'
  <1> SUFFICES ASSUME CInv, [Next]_vars
               PROVE  CInv'
    OBVIOUS
  <1>1. CASE Reviewer
    <2>1. CASE approveMapping
      BY <2>1, ApproveMappingKeeps
    <2>2. CASE \E fieldPath \in Fields, blank \in BOOLEAN :
                 setReviewReason(fieldPath, blank)
      BY <2>2, ReasonKeeps
    <2>3. CASE requestMapping
      BY <2>3, RequestMappingKeeps
    <2>4. CASE approveCase
      BY <2>4, ApproveCaseKeeps
    <2>5. CASE \E repeat \in BOOLEAN : runReplay(repeat)
      BY <2>5, RunKeeps
    <2>6. CASE restoreWorkedCase \/ \E s \in Scenarios : chooseScenario(s)
      BY <2>6, ScenarioKeeps, CaseReplayAssumption DEF restoreWorkedCase
    <2>7. CASE \E m \in Mutations : chooseMutation(m)
      BY <2>7, MutationKeeps
    <2> QED
      BY <1>1, <2>1, <2>2, <2>3, <2>4, <2>5, <2>6, <2>7 DEF Reviewer
  <1>2. ASSUME NEW t \in tasks,
               ServerAnswers(t) \/ TaskEnds(t) \/ IgnoreAnswer(t)
        PROVE  CInv'
    BY <1>2, AnswersKeep, ApprovalEndsKeep, MappingEndKeeps, RunEndKeeps,
       IgnoringKeeps DEF TaskEnds
  <1>3. CASE ReceiptsLapse \/ Deploy
    BY <1>3, OperatorKeeps
  <1>4. CASE UNCHANGED vars
    BY <1>4, StutterKeeps
  <1> QED
    BY <1>1, <1>2, <1>3, <1>4 DEF Next

\* The inductive invariant holds of every reachable state.
THEOREM CInvHolds == Spec => []CInv
  BY InitCInv, NextCInv, PTL DEF Spec

\* The approvals on the page are of the proposal, the reasons and the case that
\* are on it, whatever digest or mapping was in flight.
THEOREM ApprovalsStandHolds == Spec => []ApprovalsStand
  <1>1. CInv => ApprovalsStand
    BY DEF CInv
  <1> QED
    BY <1>1, CInvHolds, PTL

\* A result on the page answers the request the page would make now, and is
\* compared only with an earlier hash of that same request: under one engine
\* the two are equal.
THEOREM ResultsAnswerThePageHolds == Spec => []ResultsAnswerThePage
  <1>1. ASSUME CInv
        PROVE  ComparisonIsLikeWithLike
    <2> SUFFICES ASSUME previousHash # Null, CompleteResult,
                        previousHash.hash.engine = result.hash.engine
                 PROVE  previousHash.hash = result.hash
      BY <1>1 DEF CInv, ComparisonIsOfRequest, ComparisonIsLikeWithLike,
         RepeatMatches
    <2>1. previousHash.request = result.request
      BY <1>1 DEF CInv, ComparisonIsOfRequest, ResultBelongsToInputs,
         CompleteResult
    <2>2. /\ HashIsOf(previousHash.hash, result.request)
          /\ HashIsOf(result.hash, result.request)
      BY <1>1, <2>1 DEF CInv, HashesAreOfRequests, CompleteResult
    <2> QED
      BY <2>2 DEF HashIsOf, Hashes
  <1>2. CInv => ResultsAnswerThePage
    BY <1>1 DEF CInv, ResultsAnswerThePage
  <1> QED
    BY <1>2, CInvHolds, PTL

\* The route refuses nothing the page composed for its approvals, only for its
\* receipt or for what the rows come to under a draft, and the page shows as
\* under way what is under way: one run or one request at a time.
THEOREM PageIsInStepHolds == Spec => []PageIsInStep
  <1>1. ASSUME CInv
        PROVE  PageAndServerAgree
    <2> SUFFICES ASSUME NEW t \in tasks
                 PROVE  /\ Waiting(t, "runReplay") =>
                             \/ ReplayAnswer(t.request).status = "ok"
                             \/ Recorded(t.request) = Null
                             \/ RowsFailUnder(t.request, RowOutcomes \ {"replayable"})
                        /\ t.kind = "runReplay" /\ t.answer # Null =>
                             RefusalFits(t.answer.state, t.request)
      BY DEF PageAndServerAgree
    <2>1. TaskIsWhole(t) /\ t \in Tasks
      BY <1>1 DEF CInv, PageTypes, TypeOK, TasksAreWhole
    <2>2. Waiting(t, "runReplay") =>
             \/ ReplayAnswer(t.request).status = "ok"
             \/ Recorded(t.request) = Null
             \/ RowsFailUnder(t.request, RowOutcomes \ {"replayable"})
      BY <1>1, <2>1, RouteAnswers DEF CInv, PageTypes, Waiting, TaskIsWhole,
         RunIsWhole
    <2>3. t.kind = "runReplay" /\ t.answer # Null =>
             RefusalFits(t.answer.state, t.request)
      BY <2>1 DEF TaskIsWhole, RunIsWhole
    <2> QED
      BY <2>2, <2>3
  <1>2. ASSUME CInv
        PROVE  Cardinality({t \in tasks : t.live}) <= 1
    <2>1. CASE \E t \in tasks : t.live
      <3>1. PICK t \in tasks : t.live
        BY <2>1
      <3>2. {u \in tasks : u.live} = {t}
        BY <1>2, <3>1 DEF CInv, OneTaskIsLive
      <3>3. Cardinality({t}) = 1
        BY FS_Singleton
      <3> QED
        BY <3>2, <3>3
    <2>2. CASE ~ \E t \in tasks : t.live
      <3>1. {u \in tasks : u.live} = {}
        BY <2>2
      <3> QED
        BY <3>1, FS_EmptySet
    <2> QED
      BY <2>1, <2>2
  <1>3. CInv => PageIsInStep
    BY <1>1, <1>2 DEF CInv, PageIsInStep, SpinnersTrackTasks, SpinnersAgree
  <1> QED
    BY <1>3, CInvHolds, PTL

-----------------------------------------------------------------------------
(* The ladder. *)

\* The rung the page stands on, as CaseReplay maps it to the ladder's.
Rung == IF approval = Null THEN 0
        ELSE IF caseApproval = Null THEN 1
        ELSE IF CompleteResult THEN 3 ELSE 2

\* Whatever withdraws an approval or the result and adds nothing leads down.
LEMMA WithdrawingFalls ==
    ASSUME approval' = Null \/ approval' = approval,
           caseApproval' = Null \/ caseApproval' = caseApproval,
           result' = Null \/ result' = result
    PROVE  Rung' <= Rung
  BY DEF Rung, CompleteResult

\* No step gains more than one rung, for the page is bare of what rests on the
\* approval that arrives.
LEMMA OneRungAtATime ==
    ASSUME CInv, [Next]_vars
    PROVE  Rung' <= Rung + 1
  <1>1. Rung \in 0 .. 3 /\ Rung' \in 0 .. 3
    BY DEF Rung
  <1>2. CASE Rung' <= Rung
    BY <1>1, <1>2
  <1>3. CASE Reviewer
    <2>1. CASE \/ approveMapping \/ requestMapping \/ approveCase
               \/ \E fieldPath \in Fields, blank \in BOOLEAN :
                    setReviewReason(fieldPath, blank)
      BY <2>1, <1>2, WithdrawingFalls DEF approveMapping, requestMapping, approveCase,
         setReviewReason, invalidateResult, DropResult
    <2>2. CASE \/ \E repeat \in BOOLEAN : runReplay(repeat)
               \/ restoreWorkedCase
               \/ \E s \in Scenarios : chooseScenario(s)
               \/ \E m \in Mutations : chooseMutation(m)
      BY <2>2, <1>2, WithdrawingFalls DEF runReplay, restoreWorkedCase, chooseScenario,
         chooseMutation, invalidateResult, DropResult, approvals
    <2> QED
      BY <1>3, <2>1, <2>2 DEF Reviewer
  <1>4. ASSUME NEW t \in tasks, TaskEnds(t)
        PROVE  Rung' <= Rung + 1
    <2>1. CASE ApproveMappingEnds(t)
      <3>1. LiveTaskFits(t) /\ t.kind = "approveMapping"
        BY <2>1, EndFinds DEF ApproveMappingEnds
      <3>2. caseApproval = Null /\ caseApproval' = Null /\ Rung = 0
        BY <2>1, <3>1 DEF ApproveMappingEnds, LiveTaskFits, MappingUnderApproval,
           Rung
      <3> QED
        BY <3>2 DEF Rung
    <2>2. CASE ApproveCaseEnds(t)
      <3>1. LiveTaskFits(t) /\ t.kind = "approveCase"
        BY <2>2, EndFinds DEF ApproveCaseEnds
      <3>2. result = Null /\ result' = Null /\ Rung = 1
        BY <2>2, <3>1 DEF ApproveCaseEnds, LiveTaskFits, CaseUnderApproval, Rung
      <3> QED
        BY <3>2 DEF Rung, CompleteResult
    <2>3. CASE RequestMappingEnds(t)
      BY <2>3, <1>2, WithdrawingFalls DEF RequestMappingEnds, approvals
    <2>4. CASE RunReplayEnds(t)
      <3>1. UNCHANGED approvals
        BY <2>4 DEF RunReplayEnds
      <3> QED
        BY <3>1 DEF Rung, approvals
    <2> QED
      BY <1>4, <2>1, <2>2, <2>3, <2>4 DEF TaskEnds
  <1>5. CASE UNCHANGED <<approvals, result>>
    BY <1>2, <1>5, WithdrawingFalls DEF approvals
  <1>6. ASSUME NEW t \in tasks, ServerAnswers(t) \/ IgnoreAnswer(t)
        PROVE  UNCHANGED <<approvals, result>>
    BY <1>6 DEF ServerAnswers, AnswerReplay, AnswerMapping, FetchFails,
       IgnoreAnswer, shown
  <1>7. CASE ReceiptsLapse \/ Deploy \/ UNCHANGED vars
    BY <1>5, <1>7 DEF ReceiptsLapse, Deploy, vars, shown
  <1> QED
    BY <1>3, <1>4, <1>5, <1>6, <1>7 DEF Next

\* The page implements the ladder: approval of the mapping, approval of the case
\* and a complete result are each gained by a step of their own.
THEOREM ImplementsReviewLadderHolds == Spec => ImplementsReviewLadder
  <1>1. Init => Ladder!LadderInit
    BY DEF Init, Ladder!LadderInit
  <1>2. CInv /\ [Next]_vars => [Ladder!LadderNext]_Rung
    <2> SUFFICES ASSUME CInv, [Next]_vars
                 PROVE  [Ladder!LadderNext]_Rung
      OBVIOUS
    <2>1. Rung \in 0 .. 3 /\ Rung' \in 0 .. 3 /\ Rung' <= Rung + 1
      BY OneRungAtATime DEF Rung
    <2>2. Rung' = Rung \/ Rung' = Rung + 1 \/ Rung' < Rung
      BY <2>1
    <2>3. CASE Rung' = Rung + 1
      <3>1. Ladder!Climb
        BY <2>1, <2>3 DEF Ladder!Climb, Rung
      <3> QED
        BY <3>1 DEF Ladder!LadderNext
    <2>4. CASE Rung' < Rung
      <3>1. Ladder!Fall
        BY <2>1, <2>4 DEF Ladder!Fall, Rung
      <3> QED
        BY <3>1 DEF Ladder!LadderNext
    <2> QED
      BY <2>2, <2>3, <2>4
  <1> QED
    BY <1>1, <1>2, CInvHolds, PTL
    DEF Spec, ImplementsReviewLadder, Ladder!LadderSpec, Rung

=============================================================================
