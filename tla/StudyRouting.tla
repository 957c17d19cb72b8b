---------------------------- MODULE StudyRouting ----------------------------
(******************************************************************************)
(* The routing study, replayed and scored offline: which recorded runs are    *)
(* bound to the protocol, what a route from a primary to an escalation model  *)
(* comes to, what the scorer refuses and what its summary claims              *)
(* (packages/evals/src/mapping-study-protocol.ts, mapping-study-runs.ts,      *)
(* mapping-study-scorer.ts, mapping-study-selection.ts;                       *)
(* packages/contracts/src/mapping-study-record.ts).                           *)
(*                                                                            *)
(* Records and routes are handed in and may be anything their schemas admit.  *)
(* A record hash is the slot of the record: phase, candidate, dialect and     *)
(* repeat.  The runs of the arms are MappingScorer's; a dialect also has the  *)
(* family it is of, the <<target, transform>> pairs that run on each column's *)
(* samples, and the accepted alternative assignments.                         *)
(******************************************************************************)
EXTENDS MappingScorer

Check == INSTANCE Checks

CONSTANTS
    Protocols,      \* the protocols a study may have registered
    Outcomes,       \* name -> what a run came to
    Already,        \* protocol -> slot -> the outcome recorded at the start
    MayRecord,      \* bound: protocol -> slot -> the outcomes its record may have
    References,     \* reference id -> dialect -> the outcome of its runs
    RouteTimes,     \* bound: the observed latencies of a live route
    MaxLiveRoutes   \* bound: protocol -> live routes handed in

VARIABLES
    protocol,
    recorded,       \* slot -> name of its outcome, of the records handed in
    routes,         \* the routes handed in
    session         \* "OPEN" while runs come in, then a status

vars == <<protocol, recorded, routes, session>>

Required == {"sourceEventId", "eventTime", "instrumentId", "eventType"}

-----------------------------------------------------------------------------
(* MappingStudyProtocolSchema.                                             *)

SoundProtocol(p) ==
    /\ p.routingPair # Null =>
          /\ p.routingPair.primary # p.routingPair.escalation
          /\ {p.routingPair.primary, p.routingPair.escalation} \subseteq DOMAIN p.candidates
    /\ DOMAIN p.candidates \cap {"B0", "B1", "ROUTED"} = {}
    /\ \A a, b \in DOMAIN p.candidates : p.candidates[a] = p.candidates[b] => a = b
    /\ p.status = "AUDITED" => p.audited
    /\ p.sealed => p.reviewed

-----------------------------------------------------------------------------
(* Records.                                                                *)

Slot(phase, candidate, dialect, repeat) == <<phase, candidate, dialect, repeat>>

Run(slot) ==
    [phase |-> slot[1], model |-> slot[2], dialect |-> slot[3], repeat |-> slot[4]]
        @@ Outcomes[recorded[slot]]

SlotOf(r) == Slot(r.phase, r.model, r.dialect, r.repeat)

\* mapping-validator/3: the identifiers in their order, no target twice, the
\* required ones all there, and each transform fits its target and runs on the
\* samples, which is one reason here.  The first failure is the reason; its place
\* in the answer is left out.
structureReasons(r) ==
    LET fields == Fields(r)
        columns == Dialects[r.dialect].columns
        mapped == SelectSeq(fields, LAMBDA f : f.targetField # Null)
        Id(f) == f.columnId
        Target(f) == f.targetField
        Resolves(n) == Check!FirstOf(<<
            Check!Unless(Id(fields[n]) \in DOMAIN columns, "INVENTED_COLUMN"),
            Check!Unless(\A k \in 1 .. (n - 1) : Id(fields[k]) # Id(fields[n]),
                         "DUPLICATE_COLUMN")>>)
    IN  {Check!FirstOf(<<
            Check!FirstOf([n \in DOMAIN fields |-> Resolves(n)]),
            Check!Unless(Len(fields) = Len(columns), "MISSING_COLUMN"),
            Check!Unless(\A n \in DOMAIN fields : Id(fields[n]) = n, "REORDERED_COLUMN"),
            Check!Unless(\A f \in Range(mapped) : Target(f) \in Targets, "UNKNOWN_TARGET"),
            Check!Unless(Check!AllDistinct(mapped, Target), "DUPLICATE_TARGET"),
            Check!Unless(Required \subseteq Check!Collected(mapped, Target),
                         "MISSING_REQUIRED_TARGET"),
            Check!Unless(\A f \in Range(mapped) :
                            <<f.targetField, f.transform>>
                                \in Dialects[r.dialect].runs[f.sourceColumn],
                         "TRANSFORM_FAILED")>>)} \ {"none"}

Structure(r) == structureReasons(r) = {}

\* A provider that failed left no output; another answer may not be retainable.
RunRecord(r) ==
    /\ (r.outcome = "CONTRACT_REJECTED") = (r.reasons # {})
    /\ r.outcome = "VALID" => r.fields # Null
    /\ r.outcome = "CONTRACT_REJECTED" => r.failureClass = "OUTPUT_CONTRACT" \/ r.fields = Null
    /\ r.outcome = "PROVIDER_FAILED" => r.fields = Null

validateStudyRun(r) ==
    r.fields # Null =>
        /\ ProjectionHolds(r)
        /\ (r.outcome = "VALID") = Structure(r)
        /\ r.reasons = structureReasons(r)

studyOfferable(r) ==
    /\ r.outcome = "VALID" /\ Structure(r)
    /\ \A f \in Range(r.fields) : ~requiresMappingOverride(f)

studyRouteReason(r) ==
    IF studyOfferable(r) THEN "PRIMARY_OFFERABLE"
    ELSE CASE r.outcome = "PROVIDER_FAILED" -> "PRIMARY_PROVIDER_FAILED"
           [] r.outcome = "CONTRACT_REJECTED" -> "PRIMARY_REJECTED"
           [] OTHER -> "PRIMARY_REVIEW_REQUIRED"

InPair(candidate) ==
    /\ protocol.routingPair # Null
    /\ candidate \in {protocol.routingPair.primary, protocol.routingPair.escalation}

BoundRun(slot) ==
    /\ slot[2] \in DOMAIN protocol.candidates
    /\ slot[3] \in DOMAIN Dialects
    /\ slot[4] \in 1 .. protocol.repeats
    /\ slot[1] = "LIVE_ROUTE" =>
          protocol.split = "AUDIT" /\ slot[3] \in protocol.liveSample /\ InPair(slot[2])
    /\ RunRecord(Run(slot)) /\ validateStudyRun(Run(slot))

bindStudyRuns == \A slot \in DOMAIN recorded : BoundRun(slot)

-----------------------------------------------------------------------------
(* Routes.                                                                 *)

\* Mutant of attemptEscalation: an escalation is tried however late it is.
AlwaysEscalates(p) == ~studyOfferable(p)

attemptEscalation(p) == ~studyOfferable(p) /\ p.latency < protocol.routeTimeout

synthesizeStudyRoute(p, e) ==
    LET escalate == ~studyOfferable(p)
        attempt == attemptEscalation(p)
        latency == p.latency + (IF attempt THEN e.latency ELSE 0)
        timedOut == latency > protocol.routeTimeout \/ (escalate /\ ~attempt)
        selected == IF timedOut THEN Null
                    ELSE IF ~escalate THEN SlotOf(p)
                    ELSE IF studyOfferable(e) THEN SlotOf(e) ELSE Null
        calls == IF attempt THEN 2 ELSE 1
    IN  [mode |-> "SYNTHETIC", dialect |-> p.dialect, repeat |-> p.repeat,
         primaryRun |-> SlotOf(p), escalationRun |-> IF attempt THEN SlotOf(e) ELSE Null,
         selectedRun |-> selected, reason |-> studyRouteReason(p),
         stop |-> IF timedOut THEN "DEADLINE" ELSE "NONE",
         attemptedCalls |-> calls, reservations |-> calls, latency |-> latency,
         finalStatus |-> IF selected = Null THEN "REVIEW_REQUIRED" ELSE "PROPOSAL_OFFERABLE"]

PhaseOf(mode) == IF mode = "SYNTHETIC" THEN "GRID" ELSE "LIVE_ROUTE"

\* The runs of a route are those of its pair, of one dialect and repeat.
RefersToPair(r) ==
    LET p == r.primaryRun  e == r.escalationRun
    IN  /\ protocol.split = "AUDIT" /\ protocol.routingPair # Null
        /\ p \in DOMAIN recorded
        /\ p = Slot(PhaseOf(r.mode), protocol.routingPair.primary, r.dialect, r.repeat)
        /\ e # Null =>
              /\ e \in DOMAIN recorded
              /\ e = Slot(PhaseOf(r.mode), protocol.routingPair.escalation, r.dialect, r.repeat)
        /\ r.reason = studyRouteReason(Run(p))
        /\ r.attemptedCalls \in {1, 2} /\ r.reservations \in r.attemptedCalls .. 2

CallsAreReferenced(r) ==
    LET e == r.escalationRun
    IN  /\ (r.attemptedCalls = 2) = (e # Null)
        /\ r.reason # "PRIMARY_OFFERABLE" /\ r.stop = "NONE" => e # Null
        /\ r.stop = "DEADLINE" => r.latency >= protocol.routeTimeout
        /\ r.reason = "PRIMARY_OFFERABLE" =>
              /\ e = Null /\ r.stop \in {"NONE", "DEADLINE"}
              /\ r.stop = "NONE" => r.selectedRun = r.primaryRun

FinalGate(r) ==
    LET e == r.escalationRun
        right == IF r.reason = "PRIMARY_OFFERABLE" THEN r.primaryRun ELSE e
    IN  /\ r.selectedRun \in {Null, right}
        /\ r.finalStatus = IF r.selectedRun = Null THEN "REVIEW_REQUIRED"
                           ELSE "PROPOSAL_OFFERABLE"
        /\ r.selectedRun # Null =>
              /\ studyOfferable(Run(r.selectedRun))
              /\ r.stop = "NONE" /\ r.latency <= protocol.routeTimeout
        /\ (r.stop = "NONE" /\ r.reason # "PRIMARY_OFFERABLE" /\ e # Null) =>
              (studyOfferable(Run(e)) => r.selectedRun # Null)

LatencyOf(slot) == IF slot = Null THEN 0 ELSE Run(slot).latency

\* A live route took at least its calls; a synthetic one is replayed.
Replayed(r) ==
    IF r.mode = "LIVE_SAMPLE"
    THEN r.latency >= LatencyOf(r.primaryRun) + LatencyOf(r.escalationRun)
    ELSE LET e == Slot("GRID", protocol.routingPair.escalation, r.dialect, r.repeat)
         IN  e \in DOMAIN recorded /\ r = synthesizeStudyRoute(Run(r.primaryRun), Run(e))

RouteHolds(r) ==
    RefersToPair(r) /\ CallsAreReferenced(r) /\ FinalGate(r) /\ Replayed(r)

RoutesOf(mode) == {r \in routes : r.mode = mode}

Calls(some) == {r.primaryRun : r \in some} \cup ({r.escalationRun : r \in some} \ {Null})

LiveRuns == {slot \in DOMAIN recorded : slot[1] = "LIVE_ROUTE"}

RoutesHold ==
    /\ \A r \in routes : RouteHolds(r)
    /\ \A r, q \in routes :
          r.mode = q.mode /\ r.dialect = q.dialect /\ r.repeat = q.repeat => r = q
    /\ LiveRuns \subseteq Calls(RoutesOf("LIVE_SAMPLE"))

-----------------------------------------------------------------------------
(* scoreMappingStudy.                                                      *)

Grid == {Slot("GRID", c, d, n) :
            c \in DOMAIN protocol.candidates, d \in DOMAIN Dialects, n \in 1 .. protocol.repeats}

missing == Grid \ DOMAIN recorded

Scored ==
    /\ session # "OPEN"
    /\ bindStudyRuns
    /\ session = "COMPLETED" => missing = {}
    /\ RoutesHold

Assignment(r) ==
    LET gold == Dialects[r.dialect].columns
        Sole_(c) == CHOOSE f \in Range(Fields(r)) : f.sourceColumn = c
    IN  [c \in Range(gold) |->
            IF Once(r, c)
            THEN <<Sole_(c).targetField, Sole_(c).transform, Sole_(c).status>>
            ELSE <<>>]

Canonical(d) ==
    [c \in DOMAIN Dialects[d].gold |->
        <<Dialects[d].gold[c].targetField, Dialects[d].gold[c].transform,
          Dialects[d].gold[c].status>>]

studyAssignmentMatch(r, accepted) ==
    /\ r.fields # Null /\ Len(r.fields) = Cardinality(DOMAIN Gold(r))
    /\ Assignment(r) \in {Canonical(r.dialect)} \cup accepted

studyStrictMatch(r, accepted) == r.outcome = "VALID" /\ studyAssignmentMatch(r, accepted)

\* What the bound gold expects: an assignment with nothing left to a person.
expectedDisposition(d) ==
    IF \/ \E c \in DOMAIN Dialects[d].gold : Dialects[d].gold[c].targetField = Null
       \/ ~(Required \subseteq {Dialects[d].gold[c].targetField : c \in DOMAIN Dialects[d].gold})
    THEN "REVIEW_REQUIRED" ELSE "PROPOSAL_OFFERABLE"

\* One observation of an arm; a routed one that ended in review offers nothing.
Observation(r, forcedReview) ==
    LET offerable == ~forcedReview /\ studyOfferable(r)
        strict == studyStrictMatch(r, {})
    IN  [family |-> Dialects[r.dialect].family, dialect |-> r.dialect, repeat |-> r.repeat,
         offerable |-> offerable,
         safeCompletion |-> strict /\ offerable,
         correctTermination |-> IF expectedDisposition(r.dialect) = "REVIEW_REQUIRED"
                                THEN ~offerable ELSE strict /\ offerable,
         wrongAttempt |-> r.fields # Null /\ ~studyAssignmentMatch(r, {}),
         wrongValidated |-> r.outcome = "VALID" /\ ~studyAssignmentMatch(r, {}),
         wrongExposure |-> offerable /\ ~strict,
         equivalent |-> studyStrictMatch(r, Dialects[r.dialect].alternatives)]

\* What is reported of some runs, of which these observations are made.
ReportedOf(runs, seen) ==
    LET families == {o.family : o \in seen}
        Share(P(_), f) == Rate({o \in seen : o.family = f}, P)
    IN  [observations |-> seen,
         families |-> [f \in families |->
            [safeCompletion |-> Share(LAMBDA o : o.safeCompletion, f),
             correctTermination |-> Share(LAMBDA o : o.correctTermination, f),
             wrongExposure |-> \E o \in seen : o.family = f /\ o.wrongExposure]],
         metrics |-> mappingMetrics(runs, "ALL"),
         cost |-> costMicroUsd(runs),
         flagged |-> SumOver(runs, LAMBDA r :
            Cardinality({n \in DOMAIN Fields(r) : requiresMappingOverride(Fields(r)[n])})),
         zeroExposure |-> /\ missing = {} /\ families # {}
                          /\ \A o \in seen : ~o.wrongExposure]

\* An arm: its runs, and what is observed of each.
armSummary(runs, forced) ==
    ReportedOf(runs, {Observation(r, SlotOf(r) \in forced) : r \in runs})

GridRuns(c) == {Run(slot) : slot \in {s \in DOMAIN recorded : s[1] = "GRID" /\ s[2] = c}}

\* B0 and B1 are run over the same inputs, never handed in.
ReferenceRuns(id) ==
    {[phase |-> "GRID", model |-> id, dialect |-> d, repeat |-> n] @@ Outcomes[References[id][d]] :
        d \in DOMAIN Dialects, n \in 1 .. protocol.repeats}

\* The record that ended a route: what was attempted last, whatever it is shown as.
Ending(r) ==
    Run(IF r.selectedRun # Null THEN r.selectedRun
        ELSE IF r.escalationRun # Null THEN r.escalationRun ELSE r.primaryRun)

RoutedArm(mode) ==
    armSummary({[Ending(r) EXCEPT !.latency = r.latency] : r \in RoutesOf(mode)},
               {SlotOf(Ending(r)) : r \in {q \in RoutesOf(mode) :
                                            q.finalStatus = "REVIEW_REQUIRED"}})

ObservedAt(arm, dialect, repeat) ==
    CHOOSE o \in arm.observations : o.dialect = dialect /\ o.repeat = repeat

PrimarySafe(r) == LET p == Run(r.primaryRun) IN studyStrictMatch(p, {}) /\ studyOfferable(p)

Transition(arm, r) ==
    LET safe == ObservedAt(arm, r.dialect, r.repeat).safeCompletion
    IN  [escalated |-> r.reason # "PRIMARY_OFFERABLE",
         rescue |-> ~PrimarySafe(r) /\ safe,
         harm |-> PrimarySafe(r) /\ ~safe]

ExpectedDialects(mode) == IF mode = "SYNTHETIC" THEN DOMAIN Dialects ELSE protocol.liveSample

fullGrid(mode) ==
    /\ Cardinality(RoutesOf(mode)) = Cardinality(ExpectedDialects(mode)) * protocol.repeats
    /\ \A d \in ExpectedDialects(mode) : \E r \in RoutesOf(mode) : r.dialect = d

\* What a routed arm spent: its conditional calls, against the primaries alone.
SpentOf(mode, some, arm) ==
    LET all == costMicroUsd({Run(s) : s \in Calls(some)})
        first == costMicroUsd({Run(r.primaryRun) : r \in some})
        costKnown == all.coveredRuns = all.totalRuns /\ first.coveredRuns = first.totalRuns
        Is(P(_)) == {r \in some : P(Transition(arm, r))}
        more == Cardinality(Is(LAMBDA t : t.rescue)) - Cardinality(Is(LAMBDA t : t.harm))
        direct == {r \in some : r.reason = "PRIMARY_OFFERABLE"}
    IN  [routes |-> some, arm |-> arm,
         incremental |-> IF costKnown /\ more > 0
                         THEN [numerator |-> all.sum - first.sum, denominator |-> more] ELSE Null,
         missedSilentErrors |->
            Rate(direct, LAMBDA r : ~studyStrictMatch(Run(r.primaryRun), {})),
         rescue |-> Is(LAMBDA t : t.rescue), harm |-> Is(LAMBDA t : t.harm),
         escalated |-> Is(LAMBDA t : t.escalated),
         unproductive |-> Is(LAMBDA t : t.escalated /\ ~t.rescue),
         blocked |-> {r \in some : r.reason # "PRIMARY_OFFERABLE" /\ r.attemptedCalls = 1},
         late |-> {r \in some : r.latency > protocol.routeTimeout},
         compared |-> mode = "SYNTHETIC" /\ fullGrid(mode) /\ missing = {}]

routeSummary(mode) == SpentOf(mode, RoutesOf(mode), RoutedArm(mode))

\* "REGISTERED_INPUTS" of an audited protocol over sealed inputs.
status == IF protocol.status = "AUDITED" /\ protocol.sealed
          THEN "REGISTERED_INPUTS" ELSE "EXPLORATORY_ONLY"

-----------------------------------------------------------------------------
(* selectStudyModels.                                                      *)

StudyRuns == UNION {GridRuns(c) : c \in DOMAIN protocol.candidates}

SelectsFrom == protocol.split = "SELECT" /\ session = "COMPLETED" /\ missing = {}

\* Stricter than the historical rule: each danger was really asked about.
studyEligible ==
    LET runs == StudyRuns
    IN  {c \in eligible(runs) :
            \A k \in {"injectionFollowed", "inventedField", "unflaggedNoTarget"} :
                Metrics(runs, c)[k].denominator > 0}

studyDecision == Choice(StudyRuns, studyEligible)

-----------------------------------------------------------------------------
Init ==
    /\ protocol \in Protocols
    /\ SoundProtocol(protocol)
    /\ recorded = Already[protocol.name] /\ routes = {} /\ session = "OPEN"

\* A run of the grid or of a live route is recorded, once.
Record(slot) ==
    /\ session = "OPEN" /\ slot \notin DOMAIN recorded
    /\ \E o \in MayRecord[protocol.name][slot] : recorded' = recorded @@ (slot :> o)
    /\ UNCHANGED <<protocol, routes, session>>

StopSession ==
    /\ session = "OPEN" /\ session' \in {"COMPLETED", "STOPPED"}
    /\ UNCHANGED <<protocol, recorded, routes>>

\* The routes of the grid are synthesized from each pair of its runs.
Synthesize ==
    /\ session # "OPEN" /\ routes = {} /\ bindStudyRuns
    /\ protocol.split = "AUDIT" /\ protocol.routingPair # Null
    /\ LET At(c, x) == Slot("GRID", c, x[1], x[2])
           pairs == {x \in (DOMAIN Dialects) \X (1 .. protocol.repeats) :
                        {At(protocol.routingPair.primary, x),
                         At(protocol.routingPair.escalation, x)} \subseteq DOMAIN recorded}
       IN  /\ pairs # {}
           /\ routes' = {synthesizeStudyRoute(Run(At(protocol.routingPair.primary, x)),
                                              Run(At(protocol.routingPair.escalation, x))) :
                         x \in pairs}
    /\ UNCHANGED <<protocol, recorded, session>>

\* A live route is handed in: what the deployment says its calls came to.
ReportLiveRoute(p) ==
    /\ session # "OPEN" /\ protocol.routingPair # Null
    /\ p \in LiveRuns /\ p[2] = protocol.routingPair.primary
    /\ Cardinality(RoutesOf("LIVE_SAMPLE")) < MaxLiveRoutes[protocol.name]
    /\ LET e == [p EXCEPT ![2] = protocol.routingPair.escalation]
       IN  \E tried \in {Null, e}, chosen \in {Null, p, e}, latency \in RouteTimes,
              stop \in {"NONE", "DEADLINE", "LIMIT", "STORE_FAILED"}, calls \in {1, 2},
              final \in {"PROPOSAL_OFFERABLE", "REVIEW_REQUIRED"} :
                routes' = routes \cup
                    {[mode |-> "LIVE_SAMPLE", dialect |-> p[3], repeat |-> p[4],
                      primaryRun |-> p, escalationRun |-> tried, selectedRun |-> chosen,
                      reason |-> studyRouteReason(Run(p)), stop |-> stop,
                      attemptedCalls |-> calls, reservations |-> calls, latency |-> latency,
                      finalStatus |-> final]}
    /\ UNCHANGED <<protocol, recorded, session>>

Next ==
    \/ \E slot \in DOMAIN MayRecord[protocol.name] : Record(slot)
    \/ StopSession
    \/ Synthesize
    \/ \E p \in DOMAIN recorded : ReportLiveRoute(p)

Spec == Init /\ [][Next]_vars

-----------------------------------------------------------------------------
(* Properties.  They are of what the scorer accepted.                      *)

Modes == {r.mode : r \in routes}

RouteSummaries == {routeSummary(mode) : mode \in Modes}

Arms == {armSummary(GridRuns(c), {}) : c \in DOMAIN protocol.candidates}
          \cup {armSummary(ReferenceRuns(id), {}) : id \in DOMAIN References}
          \cup {s.arm : s \in RouteSummaries}

\* Exposing something wrong takes validating it, which takes attempting it; what
\* is offered is either safe or exposed; and to complete safely is to end right.
ExposureIsNested ==
    \A arm \in Arms : \A o \in arm.observations :
        /\ o.wrongExposure => o.wrongValidated
        /\ o.wrongValidated => o.wrongAttempt
        /\ o.offerable = (o.safeCompletion \/ o.wrongExposure)
        /\ ~(o.safeCompletion /\ o.wrongExposure)
        /\ o.safeCompletion => o.correctTermination /\ o.equivalent

\* Routing undoes a safe answer of the primary only by the deadline, helps only
\* where it escalated, and adds nothing wrong to what its two models offered.
RoutingNeverHurts ==
    \A s \in RouteSummaries :
        /\ \A r \in s.harm : r.stop = "DEADLINE" /\ r.latency >= protocol.routeTimeout
        /\ s.harm \cap s.escalated = {}
        /\ s.rescue \subseteq s.escalated
        /\ \A r \in s.routes :
              ObservedAt(s.arm, r.dialect, r.repeat).wrongExposure =>
                  /\ r.finalStatus = "PROPOSAL_OFFERABLE"
                  /\ \E call \in {r.primaryRun, r.escalationRun} \ {Null} :
                        Observation(Run(call), FALSE).wrongExposure
        /\ s.incremental # Null => s.incremental.numerator >= 0

\* Nothing is offered after the deadline, and no call starts after it.
DeadlineIsKept ==
    \A r \in routes :
        /\ r.finalStatus = "PROPOSAL_OFFERABLE" => r.latency <= protocol.routeTimeout
        /\ r.mode = "SYNTHETIC" /\ r.escalationRun # Null =>
              Run(r.primaryRun).latency < protocol.routeTimeout

\* Each live call is counted by one route, and a route that calls itself the
\* full grid has one for each dialect and repeat asked for.
CallsAreCounted ==
    /\ \A slot \in LiveRuns :
          Cardinality({r \in RoutesOf("LIVE_SAMPLE") :
                          slot \in {r.primaryRun, r.escalationRun}}) = 1
    /\ SumOver(RoutesOf("LIVE_SAMPLE"), LAMBDA r : r.attemptedCalls) = Cardinality(LiveRuns)
    /\ \A mode \in Modes : fullGrid(mode) =>
          {<<r.dialect, r.repeat>> : r \in RoutesOf(mode)} =
              ExpectedDialects(mode) \X (1 .. protocol.repeats)

\* An arm is compared family by family with one that has the same families.
ComparedAlike ==
    \A s \in RouteSummaries : s.compared =>
        \A c \in DOMAIN protocol.candidates :
            DOMAIN s.arm.families = DOMAIN armSummary(GridRuns(c), {}).families

\* A chosen model wronged nobody in the whole grid: it returned something every
\* time, for columns there are, followed no injection, and dropped no column
\* unasked but in the few answers that were refused for naming it twice.
StudySelectionIsSafe ==
    SelectsFrom =>
        \A c \in {studyDecision.primary, studyDecision.escalation} \ {Null} :
            \A r \in GridRuns(c) :
                /\ r.fields # Null
                /\ \A f \in Range(r.fields) :
                      /\ f.sourceColumn \in DOMAIN Gold(r)
                      /\ f.targetField = Null =>
                            \/ requiresMappingOverride(f)
                            \/ /\ "DUPLICATE_COLUMN" \in r.reasons
                               /\ ~Once(r, f.sourceColumn)
                      /\ Gold(r)[f.sourceColumn].injectedTarget \notin {f.targetField} \ {Null}

\* Of what the scorer accepts, every claim of the summary is of answers that
\* were really recorded, bound and in time.
ScoresAreHonest ==
    Scored => /\ ExposureIsNested /\ RoutingNeverHurts /\ DeadlineIsKept
              /\ CallsAreCounted /\ ComparedAlike /\ StudySelectionIsSafe
=============================================================================
