----------------------------- MODULE GuidedTour -----------------------------
(***************************************************************************)
(* The guided walkthrough of the worked case, beside working mode          *)
(* (apps/web/src/app/replay/tour/guided-tour.tsx and replay-surface.tsx).  *)
(*                                                                         *)
(* Both modes act through the one hook of CaseReplay.  The walkthrough     *)
(* adds the scene a visitor is on, and a note that an approval was asked   *)
(* for from a scene and should move the visitor on once it is recorded.    *)
(* An effect of React runs before the next event, so it is part of the     *)
(* step that causes it.                                                    *)
(***************************************************************************)
EXTENDS CaseReplay, Integers

\* SCENES: source, mapping, scope, result, evidence.
Source == 0
Mapping == 1
Scope == 2
Result == 3
Evidence == 4
Scenes == Source .. Evidence

ASSUME NoScene == Null \notin Scenes

\* The worked case has a manifest, no provider maps it, and its committed
\* mapping flags nothing (the walkthrough has no field for a reason).
ASSUME WorkedCaseAssumption ==
    /\ WorkedCase \in HasManifest
    /\ WorkedCase \notin Eligible
    /\ FlaggedOf[[of |-> WorkedCase, draft |-> "fixture"]] = {}

VARIABLES
    guided,     \* the mode the query of the page selects
    scene,      \* the scene the visitor is on
    advance,    \* advanceOnApproval: the scene that asked, or Null
    left,       \* history: the visitor chose a scene since asking
    disputed    \* history: the hash a repeat failed to return, or Null

tour == <<guided, scene, advance, left, disputed>>
hook == vars
tourVars == <<vars, tour>>

TourTypeOK ==
    /\ TypeOK
    /\ guided \in BOOLEAN
    /\ scene \in Scenes
    /\ advance \in {Mapping, Scope, Null}
    /\ left \in BOOLEAN
    /\ disputed \in Hashes \cup {Null}

\* A walkthrough that is mounted starts at its first scene.
Mounted == scene' = Source /\ advance' = Null /\ left' = FALSE

TourInit ==
    /\ Init
    /\ guided \in BOOLEAN
    /\ scene = Source
    /\ advance = Null
    /\ left = FALSE
    /\ disputed = Null

-----------------------------------------------------------------------------
(* What the walkthrough derives on every render. *)

\* Mutant of ResultHolds: a repeat with another hash lets the visitor go on.
AnyResultHolds == CompleteResult

\* A repeat that returned a different hash holds the visitor on the result.
ResultHolds == CompleteResult /\ (previousHash = Null \/ RepeatMatches)

Reached(s) ==
    CASE s \in {Source, Mapping} -> TRUE
      [] s = Scope -> approval # Null
      [] s = Result -> caseApproval # Null
      [] s = Evidence -> ResultHolds

CanContinue == scene < Evidence /\ Reached(scene + 1)

\* The hash a further run of the same request would be compared with.
Baseline ==
    IF disputed # Null THEN disputed
    ELSE IF previousHash # Null THEN previousHash.hash ELSE Null

\* History: a dispute lasts while the approvals stand, until a run returns the
\* hash it is about.
DisputeFollows ==
    disputed' =
        IF approvals' # approvals \/ choice' # choice THEN Null
        ELSE IF result = Null /\ result' # Null /\ Baseline # Null
        THEN IF result'.hash = Baseline THEN Null ELSE Baseline
        ELSE disputed

-----------------------------------------------------------------------------
(* Moving between scenes. *)

\* Mutant of go: the note survives the visitor's own move.
GoKeepsWaiting(next) ==
    /\ scene' = next
    /\ left' = TRUE
    /\ UNCHANGED <<hook, guided, advance, disputed>>

go(next) ==
    /\ advance' = Null
    /\ scene' = next
    /\ left' = TRUE
    /\ UNCHANGED <<hook, guided, disputed>>

\* A button of the progress bar.
ChooseScene(next) == guided /\ Reached(next) /\ next # scene /\ go(next)

Back == guided /\ scene > Source /\ go(scene - 1)

onContinue == guided /\ CanContinue /\ go(scene + 1)

-----------------------------------------------------------------------------
(* The one action a scene offers instead, while it cannot be continued. *)

onApprove ==
    /\ advance' = scene
    /\ left' = FALSE
    /\ UNCHANGED <<guided, scene>>
    /\ DisputeFollows

ApproveMappingHere ==
    guided /\ scene = Mapping /\ ~CanContinue /\ approveMapping /\ onApprove

ApproveCaseHere ==
    guided /\ scene = Scope /\ ~CanContinue /\ approveCase /\ onApprove

StayHere ==
    UNCHANGED <<guided, scene, advance, left>> /\ DisputeFollows

RunHere ==
    /\ guided /\ scene = Result /\ ~CanContinue
    /\ runReplay(FALSE)
    /\ StayHere

\* The optional second run, offered beside a complete result.
RepeatHere ==
    /\ guided /\ scene = Result /\ CompleteResult
    /\ runReplay(TRUE)
    /\ StayHere

VisitorActs ==
    ApproveMappingHere \/ ApproveCaseHere \/ RunHere \/ RepeatHere

-----------------------------------------------------------------------------
(* What happens meanwhile, and the change of mode. *)

\* The effect on [scene, approval, caseApproval].
Advances ==
    /\ advance = scene
    /\ \/ scene = Mapping /\ approval' # Null
       \/ scene = Scope /\ caseApproval' # Null

Meanwhile ==
    /\ \/ \E t \in tasks : ServerAnswers(t) \/ TaskEnds(t) \/ IgnoreAnswer(t)
       \/ ReceiptsLapse
       \/ Deploy
    /\ IF Advances
       THEN scene' = scene + 1 /\ advance' = Null
       ELSE UNCHANGED <<scene, advance>>
    /\ UNCHANGED <<guided, left>>
    /\ DisputeFollows

\* The handlers of working mode are those of the hook.
WorkingMode == ~guided /\ Reviewer /\ StayHere

\* The hand-off keeps the approved case and its result.
SwitchToWorking ==
    /\ guided
    /\ guided' = FALSE
    /\ Mounted
    /\ UNCHANGED <<hook, disputed>>

SwitchToGuided ==
    /\ ~guided
    /\ guided' = TRUE
    /\ Mounted
    /\ restoreWorkedCase
    /\ DisputeFollows

TourNext ==
    \/ \E next \in Scenes : ChooseScene(next)
    \/ Back
    \/ onContinue
    \/ VisitorActs
    \/ Meanwhile
    \/ WorkingMode
    \/ SwitchToWorking
    \/ SwitchToGuided

TourSpec == TourInit /\ [][TourNext]_tourVars

-----------------------------------------------------------------------------
\* A visitor never stands on a scene whose ground has gone: the approvals and
\* the undisputed result that opened it are still there, whatever was in
\* flight when it was entered.
SceneIsReached ==
    guided =>
        /\ scene >= Scope => approval # Null
        /\ scene >= Result => caseApproval # Null
        /\ scene = Evidence =>
             /\ CompleteResult
             /\ previousHash # Null => previousHash.hash = result.hash

\* The walkthrough only ever shows the worked case at its baseline: nothing
\* chosen, typed, requested or run in working mode is on the screen, and the
\* rows that were replayed are the rows the evidence marks.
TourShowsWorkedCase ==
    guided =>
        /\ scenario = WorkedCase /\ mutation = "baseline"
        /\ reviewReasons = {} /\ requestedMapping = Null
        /\ result # Null => result.request.rows = Committed
                            /\ result.request.scenario = WorkedCase

\* What the handlers behind the three primary buttons ask for.
MayApproveMapping ==
    /\ unresolvedMappingFields(Proposal, reviewReasons) = {}
    /\ ~ProposalPending
    /\ ~requestingMapping

MayApproveCase == approval # Null /\ scenario \in HasManifest

MayRun == MayApproveMapping /\ approval # Null /\ caseApproval # Null /\ ~running

\* Every scene but the last can be continued, or its one button is enabled and
\* does what it says, or something is under way that the page will answer: no
\* answer that was ignored, failed or refused leaves a visitor stuck.
NoDeadEnd ==
    guided =>
        \/ scene = Evidence \/ CanContinue
        \/ scene = Mapping /\ MayApproveMapping
        \/ scene = Scope /\ MayApproveCase
        \/ scene = Result /\ MayRun
        \/ \E t \in tasks : t.live

\* Wherever the visitor stands, the scene has its ground, shows the worked case
\* and leads on.
TourIsSafe == TourTypeOK /\ SceneIsReached /\ TourShowsWorkedCase /\ NoDeadEnd

\* An approval that arrives moves nobody who chose a scene since asking for it,
\* and nobody anywhere but to the scene it opens.
MovedOnlyIfStayed ==
    [][guided /\ guided' /\ approvals' # approvals /\ scene' # scene =>
         ~left /\ scene' = scene + 1 /\ Reached(scene)']_tourVars

\* ADR 0019: a mismatch "retains that baseline, and blocks both guide
\* progression and final handoff.  A matching retry may recover."
MismatchBlocksProgress == guided /\ scene = Evidence => disputed = Null
=============================================================================
