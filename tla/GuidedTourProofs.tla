--------------------------- MODULE GuidedTourProofs ---------------------------
(***************************************************************************)
(* What holds of the guided walkthrough for any scenarios, proposals and   *)
(* orders.  Every step of it is a step of the replay page or leaves the    *)
(* page alone, so the page's inductive invariant stands here too; what is  *)
(* added says what a visitor can have brought from one scene to another.   *)
(***************************************************************************)
EXTENDS GuidedTour, CaseReplayProofs

\* Nothing that the walkthrough can do asks a provider for a mapping, and its
\* runs are of the committed rows.
TourKeepsToCase ==
    guided =>
        /\ scenario = WorkedCase /\ mutation = "baseline"
        /\ reviewReasons = {} /\ requestedMapping = Null
        /\ lastSubmittedRows \in {Committed, Null}
        /\ \A t \in tasks : t.live => t.kind # "requestMapping"

\* Whoever chose a scene for themselves waits for no approval.
WaitingIsStaying == advance # Null => ~left

TInv ==
    /\ CInv
    /\ TourTypeOK
    /\ SceneIsReached
    /\ TourKeepsToCase
    /\ WaitingIsStaying

-----------------------------------------------------------------------------
\* A step of the walkthrough is a step of the page, or none.
LEMMA TourStepIsPageStep ==
    ASSUME [TourNext]_tourVars
    PROVE  [Next]_vars
  <1>1. CASE \/ \E next \in Scenes : ChooseScene(next)
             \/ Back \/ onContinue \/ SwitchToWorking \/ UNCHANGED tourVars
    BY <1>1 DEF ChooseScene, Back, onContinue, go, SwitchToWorking, hook, tourVars
  <1>2. CASE VisitorActs
    BY <1>2 DEF VisitorActs, ApproveMappingHere, ApproveCaseHere, RunHere,
       RepeatHere, Next, Reviewer
  <1>3. CASE Meanwhile
    BY <1>3 DEF Meanwhile, Next
  <1>4. CASE WorkingMode \/ SwitchToGuided
    BY <1>4 DEF WorkingMode, SwitchToGuided, Next, Reviewer
  <1> QED
    BY <1>1, <1>2, <1>3, <1>4 DEF TourNext

\* A complete result is of an approved case.
LEMMA CompleteNeedsCase ==
    ASSUME CInv, CompleteResult
    PROVE  caseApproval # Null /\ approval # Null
  <1>1. /\ RequestIsApproved(result.request)
        /\ result.request.manifest # Null
        /\ result.request = Request(lastSubmittedRows)
    BY DEF CInv, CompleteResult, ResultIsApproved, ResultBelongsToInputs
  <1>2. result.request.caseApproval # Null
    BY <1>1 DEF RequestIsApproved
  <1>3. caseApproval # Null
    BY <1>1, <1>2 DEF Request
  <1> QED
    BY <1>3 DEF CInv, ApprovalsStand, CaseNeedsMapping

\* A dispute is about a hash.
LEMMA DisputeIsHash ==
    ASSUME TourTypeOK, DisputeFollows
    PROVE  disputed' \in Hashes \cup {Null}
  BY DEF DisputeFollows, Baseline, TourTypeOK, TypeOK

\* While a visitor chooses scenes the page does not change.
LEMMA PageAlone ==
    ASSUME TInv, UNCHANGED <<vars, guided>>, advance' = Null, scene' \in Scenes,
           disputed' = disputed, left' \in BOOLEAN,
           guided /\ scene' >= Scope => approval # Null,
           guided /\ scene' >= Result => caseApproval # Null,
           guided /\ scene' = Evidence => ResultHolds
    PROVE  TInv'
  <1>1. CInv'
    BY NextCInv DEF TInv
  <1> USE DEF vars, choice, review, approvals, shown, server
  <1>2. TourTypeOK'
    BY <1>1 DEF TInv, TourTypeOK, CInv, PageTypes
  <1>3. SceneIsReached'
    BY DEF SceneIsReached, ResultHolds, RepeatMatches, CompleteResult
  <1>4. TourKeepsToCase' /\ WaitingIsStaying'
    BY DEF TInv, TourKeepsToCase, WaitingIsStaying
  <1> QED
    BY <1>1, <1>2, <1>3, <1>4 DEF TInv

\* What opens a scene.
LEMMA ReachedMeans ==
    ASSUME NEW s
    PROVE  /\ s = 2 => (Reached(s) <=> approval # Null)
           /\ s = 3 => (Reached(s) <=> caseApproval # Null)
           /\ s = 4 => (Reached(s) <=> ResultHolds)
  <1>1. CASE s = 2
    BY <1>1 DEF Reached, Source, Mapping, Scope, Result, Evidence
  <1>2. CASE s = 3
    BY <1>2 DEF Reached, Source, Mapping, Scope, Result, Evidence
  <1>3. CASE s = 4
    BY <1>3 DEF Reached, Source, Mapping, Scope, Result, Evidence
  <1> QED
    BY <1>1, <1>2, <1>3

LEMMA GoKeeps ==
    ASSUME TInv,
           (\E next \in Scenes : ChooseScene(next)) \/ Back \/ onContinue
    PROVE  TInv'
  <1> USE DEF Source, Mapping, Scope, Result, Evidence
  <1>1. /\ UNCHANGED <<vars, guided>> /\ advance' = Null
        /\ disputed' = disputed /\ left' \in BOOLEAN
    BY DEF ChooseScene, Back, onContinue, go, hook
  <1>2. scene \in 0 .. 4 /\ scene' \in 0 .. 4 /\ guided
    BY DEF ChooseScene, Back, onContinue, CanContinue, go, TInv, TourTypeOK, Scenes
  <1>3. caseApproval # Null => approval # Null
    BY DEF TInv, CInv, ApprovalsStand, CaseNeedsMapping
  <1>4. ResultHolds => caseApproval # Null
    BY CompleteNeedsCase DEF TInv, ResultHolds
  <1>5. CASE Reached(scene')
    <2>1. /\ scene' = 2 => approval # Null
          /\ scene' = 3 => caseApproval # Null
          /\ scene' = 4 => ResultHolds
      BY <1>5, ReachedMeans
    <2> QED
      BY <1>1, <1>2, <1>3, <1>4, <2>1, PageAlone DEF Scenes
  <1>6. CASE Back
    <2>1. scene' = scene - 1
      BY <1>6 DEF Back, go
    <2>2. /\ scene' >= 2 => approval # Null
          /\ scene' >= 3 => caseApproval # Null
          /\ scene' # 4
      BY <1>2, <2>1 DEF TInv, SceneIsReached
    <2> QED
      BY <1>1, <1>2, <2>2, PageAlone DEF Scenes
  <1> QED
    BY <1>5, <1>6 DEF ChooseScene, onContinue, CanContinue, go

\* Switching mode starts the walkthrough over, on the worked case.
LEMMA SwitchKeeps ==
    ASSUME TInv, SwitchToWorking \/ SwitchToGuided
    PROVE  TInv'
  <1>1. CInv' /\ Mounted
    BY NextCInv, TourStepIsPageStep DEF TInv, TourNext, SwitchToWorking,
       SwitchToGuided
  <1>2. disputed' \in Hashes \cup {Null}
    BY DisputeIsHash DEF SwitchToWorking, SwitchToGuided, TInv, TourTypeOK
  <1>3. TourTypeOK' /\ WaitingIsStaying'
    <2>1. TypeOK'
      BY <1>1 DEF CInv, PageTypes
    <2>2. guided' \in BOOLEAN
      BY DEF SwitchToWorking, SwitchToGuided
    <2>3. scene' \in Scenes /\ advance' = Null /\ left' = FALSE
      BY <1>1 DEF Mounted, Scenes, Source, Evidence
    <2> QED
      BY <1>2, <2>1, <2>2, <2>3 DEF TourTypeOK, WaitingIsStaying
  <1>4. SceneIsReached'
    BY <1>1 DEF SceneIsReached, Mounted, Source, Scope, Result, Evidence
  <1>5. TourKeepsToCase'
    <2>1. CASE SwitchToWorking
      BY <2>1 DEF SwitchToWorking, TourKeepsToCase
    <2>2. CASE SwitchToGuided
      <3>1. chooseScenario(WorkedCase)
        BY <2>2 DEF SwitchToGuided, restoreWorkedCase
      <3>2. \A t \in tasks' : ~t.live
        BY <3>1, StaleTasks DEF chooseScenario, TInv, CInv
      <3> QED
        BY <3>1, <3>2 DEF chooseScenario, TourKeepsToCase
    <2> QED
      BY <2>1, <2>2
  <1> QED
    BY <1>1, <1>3, <1>4, <1>5 DEF TInv

\* Working mode is not the walkthrough.
LEMMA WorkingKeeps ==
    ASSUME TInv, WorkingMode
    PROVE  TInv'
  <1>1. CInv'
    BY NextCInv, TourStepIsPageStep DEF TInv, TourNext
  <1>2. ~guided' /\ UNCHANGED <<guided, scene, advance, left>>
    BY DEF WorkingMode, StayHere, TInv, TourTypeOK
  <1>3. disputed' \in Hashes \cup {Null}
    BY DisputeIsHash DEF WorkingMode, StayHere, TInv
  <1> QED
    BY <1>1, <1>2, <1>3 DEF TInv, CInv, PageTypes, TourTypeOK, SceneIsReached,
       TourKeepsToCase, WaitingIsStaying

-----------------------------------------------------------------------------
\* The actions a scene offers withdraw only what no scene that far rests on.
LEMMA ActsKeep ==
    ASSUME TInv, VisitorActs
    PROVE  TInv'
  <1> USE DEF Source, Mapping, Scope, Result, Evidence
  <1>1. CInv'
    BY NextCInv, TourStepIsPageStep DEF TInv, TourNext
  <1>2. /\ guided /\ guided' = guided /\ scene' = scene
        /\ DisputeFollows
        /\ \/ ApproveMappingHere /\ scene = 1 /\ advance' = 1 /\ left' = FALSE
           \/ ApproveCaseHere /\ scene = 2 /\ advance' = 2 /\ left' = FALSE
           \/ RunHere /\ scene = 3 /\ UNCHANGED <<advance, left>>
           \/ RepeatHere /\ scene = 3 /\ UNCHANGED <<advance, left>>
    BY DEF VisitorActs, ApproveMappingHere, ApproveCaseHere, RunHere,
       RepeatHere, StayHere, onApprove
  <1>3. TourTypeOK' /\ WaitingIsStaying'
    <2>1. disputed' \in Hashes \cup {Null}
      BY <1>2, DisputeIsHash DEF TInv
    <2> QED
      <3>1. TypeOK'
        BY <1>1 DEF CInv, PageTypes
      <3>2. /\ guided' \in BOOLEAN /\ left' \in BOOLEAN /\ scene' \in Scenes
            /\ advance' \in {1, 2, Null}
        BY <1>2 DEF TInv, TourTypeOK
      <3>3. WaitingIsStaying'
        BY <1>2 DEF TInv, WaitingIsStaying
      <3> QED
        BY <2>1, <3>1, <3>2, <3>3 DEF TourTypeOK
  <1>4. SceneIsReached'
    <2>1. CASE ApproveMappingHere
      BY <1>2, <2>1 DEF SceneIsReached, ApproveMappingHere
    <2>2. CASE ApproveCaseHere
      BY <1>2, <2>2 DEF TInv, SceneIsReached, ApproveCaseHere, approveCase
    <2>3. CASE RunHere \/ RepeatHere
      <3>1. UNCHANGED <<approval, caseApproval>>
        BY <2>3 DEF RunHere, RepeatHere, runReplay, approvals
      <3>2. guided /\ scene = 3 /\ scene' = 3
        BY <1>2, <2>3 DEF RunHere, RepeatHere
      <3> QED
        BY <3>1, <3>2 DEF TInv, SceneIsReached
    <2> QED
      BY <1>2, <2>1, <2>2, <2>3
  <1>5. TourKeepsToCase'
    <2>1. /\ scenario = WorkedCase /\ mutation = "baseline"
          /\ reviewReasons = {} /\ requestedMapping = Null
          /\ lastSubmittedRows \in {Committed, Null}
      BY <1>2 DEF TInv, TourKeepsToCase
    <2>2. UNCHANGED <<scenario, mutation, reviewReasons, requestedMapping>>
      BY DEF VisitorActs, ApproveMappingHere, ApproveCaseHere, RunHere, RepeatHere,
         approveMapping, approveCase, runReplay, choice, review
    <2>3. lastSubmittedRows' \in {Committed, Null}
      BY <2>1 DEF VisitorActs, ApproveMappingHere, ApproveCaseHere, RunHere,
         RepeatHere, approveMapping, approveCase, runReplay, SubmittedRows
    <2>4. requestingMapping' = FALSE
      BY DEF VisitorActs, ApproveMappingHere, ApproveCaseHere, RunHere, RepeatHere,
         approveMapping, approveCase, runReplay, invalidateResult, Idle
    <2>5. \A t \in tasks' : t.live => t.kind # "requestMapping"
      BY <1>1, <2>4 DEF CInv, SpinnersAgree
    <2> QED
      BY <2>1, <2>2, <2>3, <2>5 DEF TourKeepsToCase
  <1> QED
    BY <1>1, <1>3, <1>4, <1>5 DEF TInv

\* What arrives meanwhile adds to the page: an approval that fails was not
\* there, and a run that ends is not over a result.
LEMMA MeanwhilePage ==
    ASSUME CInv,
           \/ \E t \in tasks : ServerAnswers(t) \/ TaskEnds(t) \/ IgnoreAnswer(t)
           \/ ReceiptsLapse
           \/ Deploy
    PROVE  /\ approval # Null => approval' = approval
           /\ caseApproval # Null => caseApproval' = caseApproval
           /\ result # Null => result' = result
           /\ UNCHANGED <<scenario, mutation, reviewReasons, previousHash,
                          lastSubmittedRows>>
           /\ requestedMapping' # requestedMapping =>
                \E t \in tasks : t.live /\ t.kind = "requestMapping"
           /\ requestingMapping' => requestingMapping
  <1> USE DEF choice, review, approvals, shown, server
  <1>1. CASE \/ \E t \in tasks : ServerAnswers(t) \/ IgnoreAnswer(t)
             \/ ReceiptsLapse \/ Deploy
    BY <1>1 DEF ServerAnswers, AnswerReplay, AnswerMapping, FetchFails,
       IgnoreAnswer, ReceiptsLapse, Deploy
  <1>2. ASSUME NEW t \in tasks, ApproveMappingEnds(t)
        PROVE  approval = Null
    BY <1>2, EndFinds DEF ApproveMappingEnds, LiveTaskFits, MappingUnderApproval
  <1>3. ASSUME NEW t \in tasks, ApproveCaseEnds(t)
        PROVE  caseApproval = Null
    BY <1>3, EndFinds DEF ApproveCaseEnds, LiveTaskFits, CaseUnderApproval
  <1>4. ASSUME NEW t \in tasks, RequestMappingEnds(t)
        PROVE  t.live /\ t.kind = "requestMapping"
    BY <1>4, EndFinds DEF RequestMappingEnds
  <1>5. ASSUME NEW t \in tasks, RunReplayEnds(t)
        PROVE  result = Null
    BY <1>5, EndFinds DEF RunReplayEnds, LiveTaskFits
  <1>6. ASSUME NEW t \in tasks, ApproveMappingEnds(t) \/ ApproveCaseEnds(t)
        PROVE  UNCHANGED <<scenario, mutation, reviewReasons, requestedMapping,
                           result, previousHash, requestingMapping,
                           lastSubmittedRows>>
    BY <1>6 DEF ApproveMappingEnds, ApproveCaseEnds
  <1>7. ASSUME NEW t \in tasks, ApproveMappingEnds(t)
        PROVE  UNCHANGED caseApproval
    BY <1>7 DEF ApproveMappingEnds
  <1>8. ASSUME NEW t \in tasks, ApproveCaseEnds(t)
        PROVE  UNCHANGED approval
    BY <1>8 DEF ApproveCaseEnds
  <1>9. ASSUME NEW t \in tasks, RequestMappingEnds(t)
        PROVE  /\ UNCHANGED <<approval, caseApproval, result, scenario, mutation,
                              reviewReasons, previousHash, lastSubmittedRows>>
               /\ requestingMapping' = FALSE
    BY <1>9 DEF RequestMappingEnds
  <1>10. ASSUME NEW t \in tasks, RunReplayEnds(t)
         PROVE  UNCHANGED <<approval, caseApproval, scenario, mutation,
                            reviewReasons, requestedMapping, previousHash,
                            requestingMapping, lastSubmittedRows>>
    BY <1>10 DEF RunReplayEnds
  <1> QED
    BY <1>1, <1>2, <1>3, <1>4, <1>5, <1>6, <1>7, <1>8, <1>9, <1>10 DEF TaskEnds

LEMMA MeanwhileKeeps ==
    ASSUME TInv, Meanwhile
    PROVE  TInv'
  <1> USE DEF Source, Mapping, Scope, Result, Evidence
  <1>1. CInv'
    BY NextCInv, TourStepIsPageStep DEF TInv, TourNext
  <1>2. /\ approval # Null => approval' # Null
        /\ caseApproval # Null => caseApproval' # Null
        /\ result # Null => result' = result
        /\ UNCHANGED <<scenario, mutation, reviewReasons, previousHash,
                       lastSubmittedRows, guided, left>>
        /\ requestedMapping' # requestedMapping =>
             \E t \in tasks : t.live /\ t.kind = "requestMapping"
        /\ requestingMapping' => requestingMapping
    BY MeanwhilePage DEF Meanwhile, TInv
  <1>3. disputed' \in Hashes \cup {Null}
    BY DisputeIsHash DEF Meanwhile, TInv
  <1>4. ASSUME Advances
        PROVE  SceneIsReached' /\ TourTypeOK' /\ WaitingIsStaying'
    <2>1. /\ scene' = scene + 1 /\ advance' = Null
          /\ \/ scene' = 2 /\ approval' # Null
             \/ scene' = 3 /\ caseApproval' # Null
      BY <1>4 DEF Meanwhile, Advances
    <2>2. caseApproval' # Null => approval' # Null
      BY <1>1 DEF CInv, ApprovalsStand, CaseNeedsMapping
    <2>3. SceneIsReached'
      BY <2>1, <2>2 DEF SceneIsReached
    <2>4. TourTypeOK' /\ WaitingIsStaying'
      BY <1>1, <1>2, <1>3, <2>1 DEF CInv, PageTypes, TInv, TourTypeOK, Scenes,
         WaitingIsStaying
    <2> QED
      BY <2>3, <2>4
  <1>5. ASSUME ~Advances
        PROVE  SceneIsReached' /\ TourTypeOK' /\ WaitingIsStaying'
    <2>1. UNCHANGED <<scene, advance>>
      BY <1>5 DEF Meanwhile
    <2>2. SceneIsReached'
      BY <1>2, <2>1 DEF TInv, SceneIsReached, CompleteResult
    <2>3. TourTypeOK' /\ WaitingIsStaying'
      BY <1>1, <1>2, <1>3, <2>1 DEF CInv, PageTypes, TInv, TourTypeOK,
         WaitingIsStaying
    <2> QED
      BY <2>2, <2>3
  <1>6. TourKeepsToCase'
    <2> SUFFICES ASSUME guided'
                 PROVE  /\ requestedMapping' = Null
                        /\ \A t \in tasks' : t.live => t.kind # "requestMapping"
      BY <1>2 DEF TInv, TourKeepsToCase
    <2>1. guided /\ requestedMapping = Null
          /\ \A t \in tasks : t.live => t.kind # "requestMapping"
      BY <1>2 DEF TInv, TourKeepsToCase
    <2>2. ~requestingMapping
      BY <2>1 DEF TInv, CInv, SpinnersAgree
    <2> QED
      BY <1>1, <1>2, <2>1, <2>2 DEF CInv, SpinnersAgree
  <1> QED
    BY <1>1, <1>4, <1>5, <1>6 DEF TInv

-----------------------------------------------------------------------------
LEMMA InitTInv == TourInit => TInv
  <1> SUFFICES ASSUME TourInit
               PROVE  TInv
    OBVIOUS
  <1>1. CInv
    BY InitCInv DEF TourInit
  <1>2. /\ scenario = WorkedCase /\ mutation = "baseline"
        /\ reviewReasons = {} /\ requestedMapping = Null
        /\ lastSubmittedRows = Null /\ tasks = {}
    BY DEF TourInit, Init
  <1>3. /\ guided \in BOOLEAN /\ scene = 0 /\ advance = Null /\ left = FALSE
        /\ disputed = Null
    BY DEF TourInit, Source
  <1>4. TourTypeOK /\ WaitingIsStaying
    <2>1. scene \in Scenes
      BY <1>3 DEF Scenes, Source, Evidence
    <2> QED
      BY <1>1, <1>3, <2>1 DEF CInv, PageTypes, TourTypeOK, WaitingIsStaying
  <1>5. SceneIsReached
    BY <1>3 DEF SceneIsReached, Scope, Result, Evidence
  <1>6. TourKeepsToCase
    BY <1>2 DEF TourKeepsToCase
  <1> QED
    BY <1>1, <1>4, <1>5, <1>6 DEF TInv

LEMMA NextTInv == TInv /\ [TourNext]_tourVars => TInv'
  <1> SUFFICES ASSUME TInv, [TourNext]_tourVars
               PROVE  TInv'
    OBVIOUS
  <1>1. CASE UNCHANGED tourVars
    <2>1. CInv'
      BY <1>1, TourStepIsPageStep, NextCInv DEF TInv
    <2> USE DEF tourVars, tour, vars, choice, review, approvals, shown, server
    <2>2. TourTypeOK'
      BY <1>1, <2>1 DEF CInv, PageTypes, TInv, TourTypeOK
    <2>3. SceneIsReached' /\ TourKeepsToCase' /\ WaitingIsStaying'
      BY <1>1 DEF TInv, SceneIsReached, CompleteResult, TourKeepsToCase,
         WaitingIsStaying
    <2> QED
      BY <2>1, <2>2, <2>3 DEF TInv
  <1> QED
    BY <1>1, GoKeeps, ActsKeep, MeanwhileKeeps, WorkingKeeps, SwitchKeeps
    DEF TourNext

\* The inductive invariant holds of every reachable state.
THEOREM TInvHolds == TourSpec => []TInv
  BY InitTInv, NextTInv, PTL DEF TourSpec

\* The walkthrough implements the replay page: all that was proved of the page
\* holds of it in both modes.
THEOREM TourIsOfThePage == TourSpec => Spec
  <1>1. TourInit => Init
    BY DEF TourInit
  <1> QED
    BY <1>1, TourStepIsPageStep, PTL DEF TourSpec, Spec

\* On every scene the visitor can go on, act, or is being waited on.
LEMMA SceneLeadsOn ==
    ASSUME TInv
    PROVE  NoDeadEnd
  <1> SUFFICES ASSUME guided, scene # Evidence, \A t \in tasks : ~t.live
               PROVE  \/ CanContinue
                      \/ scene = Mapping /\ MayApproveMapping
                      \/ scene = Scope /\ MayApproveCase
                      \/ scene = Result /\ MayRun
    BY DEF NoDeadEnd
  <1>1. /\ scenario = WorkedCase /\ requestedMapping = Null
        /\ ~running /\ ~requestingMapping
    BY DEF TInv, TourKeepsToCase, CInv, SpinnersAgree
  <1>2. MayApproveMapping
    BY <1>1, WorkedCaseAssumption DEF MayApproveMapping, unresolvedMappingFields,
       Proposal, Fixture, ProposalPending, RequestRequired
  <1>3. CASE scene = Source
    <2>1. scene + 1 = 1 /\ scene < Evidence
      BY <1>3 DEF Source, Evidence
    <2>2. Reached(1)
      BY DEF Reached, Source, Mapping, Scope, Result, Evidence
    <2> QED
      BY <2>1, <2>2 DEF CanContinue
  <1>4. CASE scene = Mapping
    BY <1>2, <1>4
  <1>5. CASE scene = Scope
    BY <1>1, <1>5, WorkedCaseAssumption
    DEF TInv, SceneIsReached, MayApproveCase, Scope, Result, Evidence
  <1>6. CASE scene = Result
    <2>1. caseApproval # Null /\ approval # Null
      BY <1>6 DEF TInv, SceneIsReached, Scope, Result
    <2> QED
      BY <1>1, <1>2, <1>6, <2>1 DEF MayRun
  <1>7. scene \in {Source, Mapping, Scope, Result}
    BY DEF TInv, TourTypeOK, Scenes, Source, Mapping, Scope, Result, Evidence
  <1> QED
    BY <1>3, <1>4, <1>5, <1>6, <1>7

\* Wherever a visitor stands, the approvals and the undisputed result that
\* opened the scene are there, the page shows the worked case, and the scene
\* leads on.
THEOREM TourIsSafeHolds == TourSpec => []TourIsSafe
  <1>1. ASSUME TInv
        PROVE  TourShowsWorkedCase
    <2> SUFFICES ASSUME guided, result # Null
                 PROVE  /\ result.request.rows = Committed
                        /\ result.request.scenario = WorkedCase
      BY <1>1 DEF TInv, TourKeepsToCase, TourShowsWorkedCase
    <2>1. /\ result.request = Request(lastSubmittedRows)
          /\ result.request \in Requests
      BY <1>1 DEF TInv, CInv, ResultBelongsToInputs, ResultIsApproved,
         RequestIsApproved
    <2>2. result.request.rows # Null
      BY <2>1, NullAssumption DEF Requests
    <2> QED
      BY <1>1, <2>1, <2>2 DEF TInv, TourKeepsToCase, Request
  <1>2. TInv => TourIsSafe
    BY <1>1, SceneLeadsOn DEF TInv, TourIsSafe
  <1> QED
    BY <1>2, TInvHolds, PTL

\* An approval that arrives moves only a visitor who stayed where it was asked
\* for, and only to the scene it opens.
THEOREM MovedOnlyIfStayedHolds == TourSpec => MovedOnlyIfStayed
  <1>1. ASSUME TInv, [TourNext]_tourVars,
               guided, guided', approvals' # approvals, scene' # scene
        PROVE  ~left /\ scene' = scene + 1 /\ Reached(scene)'
    <2>1. Meanwhile
      <3>1. ~UNCHANGED tourVars
        BY <1>1 DEF tourVars, tour
      <3>2. ~((\E next \in Scenes : ChooseScene(next)) \/ Back \/ onContinue)
        BY <1>1 DEF ChooseScene, Back, onContinue, go, hook, vars
      <3>3. ~VisitorActs
        BY <1>1 DEF VisitorActs, ApproveMappingHere, ApproveCaseHere, RunHere,
           RepeatHere, StayHere, onApprove
      <3>4. ~(WorkingMode \/ SwitchToWorking \/ SwitchToGuided)
        BY <1>1 DEF WorkingMode, SwitchToWorking, SwitchToGuided
      <3> QED
        BY <1>1, <3>1, <3>2, <3>3, <3>4 DEF TourNext
    <2>2. Advances /\ scene' = scene + 1
      BY <1>1, <2>1 DEF Meanwhile
    <2>3. advance # Null
      BY <1>1, <2>2, NoScene DEF Advances, TInv, TourTypeOK
    <2>4. ~left
      BY <1>1, <2>3 DEF TInv, WaitingIsStaying
    <2>5. Reached(scene)'
      <3>1. CASE scene' = 2 /\ approval' # Null
        BY <3>1 DEF Reached, Source, Mapping, Scope, Result, Evidence
      <3>2. CASE scene' = 3 /\ caseApproval' # Null
        BY <3>2 DEF Reached, Source, Mapping, Scope, Result, Evidence
      <3> QED
        BY <2>2, <3>1, <3>2 DEF Advances, Mapping, Scope
    <2> QED
      BY <2>2, <2>4, <2>5
  <1>2. TInv /\ [TourNext]_tourVars =>
          [guided /\ guided' /\ approvals' # approvals /\ scene' # scene =>
             ~left /\ scene' = scene + 1 /\ Reached(scene)']_tourVars
    BY <1>1
  <1> QED
    BY <1>2, TInvHolds, PTL DEF TourSpec, MovedOnlyIfStayed

=============================================================================
