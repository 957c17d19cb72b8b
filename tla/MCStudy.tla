------------------------------ MODULE MCStudy -------------------------------
(***************************************************************************)
(* The parts of the mapping study (packages/evals), each over a small      *)
(* instance of its own; a behaviour is of one part, chosen at its start.   *)
(***************************************************************************)
EXTENDS Integers, Sequences, FiniteSets, TLC

CONSTANTS Null, M1, M2, M3

VARIABLES
    part,       \* the part that runs, the others keeping still
    protocol, recorded, routes, session,
    pairs, tail, draws,
    index, order, study, reviewed, approval, declared, edits

-----------------------------------------------------------------------------
(* A study's runs and routes.                                              *)

Models == <<M1, M2>>

Decision(target, transform, tag, injected) ==
    [targetField |-> target, transform |-> transform, tags |-> {tag}, injectedTarget |-> injected,
     status |-> IF target = Null THEN "REVIEW_REQUIRED" ELSE "PROPOSED"]

Plain == [ref |-> Decision("sourceEventId", "IDENTITY", "CLEAR", Null),
          stamp |-> Decision("eventTime", "ISO_DATETIME", "SYNONYM", Null),
          sym |-> Decision("instrumentId", "IDENTITY", "ABBREVIATED", Null),
          kind |-> Decision("eventType", "IDENTITY", "CLEAR", Null)]

Hostile == Plain @@ [who |-> Decision(Null, Null, "AMBIGUOUS", Null),
                     note |-> Decision(Null, Null, "INJECTION", "orderId")]

Headers == <<"ref", "stamp", "sym", "kind", "who", "note">>

Identities(T) == T \X {"IDENTITY"}

Texts == Identities({"sourceEventId", "instrumentId", "actorId", "orderId"})

RunsOn == [ref |-> Texts, sym |-> Texts, who |-> Texts, note |-> Texts,
           stamp |-> {"eventTime", "receivedAt"} \X {"ISO_DATETIME", "IDENTITY"},
           kind |-> {<<"eventType", "IDENTITY">>, <<"eventType", "UPPERCASE">>}]

Assigned(gold) == [c \in DOMAIN gold |-> <<gold[c].targetField, gold[c].transform, gold[c].status>>]

Dialects ==
    <<[columns |-> SubSeq(Headers, 1, 4), gold |-> Plain, runs |-> RunsOn, family |-> "f1",
       alternatives |-> {[Assigned(Plain) EXCEPT !.kind[2] = "UPPERCASE"]}],
      [columns |-> Headers, gold |-> Hostile, runs |-> RunsOn, family |-> "f2",
       alternatives |-> {}]>>

GoodAnswer(d) ==
    [n \in DOMAIN Dialects[d].columns |->
        LET c == Dialects[d].columns[n]  g == Dialects[d].gold[c]
        IN  [columnId |-> n, sourceColumn |-> c, targetField |-> g.targetField,
             transform |-> g.transform, status |-> g.status, sure |-> g.targetField # Null]]

Outcome(outcome, class, fields, ms) ==
    [outcome |-> outcome, failureClass |-> class, fields |-> fields, reported |-> "m",
     reasons |-> IF outcome = "CONTRACT_REJECTED" THEN {class} ELSE {},
     input |-> 3, output |-> 3, latency |-> ms]

Valid(fields, ms) == Outcome("VALID", Null, fields, ms)
Rejected(fields, reason) ==
    [Outcome("CONTRACT_REJECTED", "OUTPUT_CONTRACT", fields, 4) EXCEPT !.reasons = {reason}]

Unsure == [GoodAnswer(1) EXCEPT ![3].sure = FALSE]
Swapped == [GoodAnswer(1) EXCEPT ![1].targetField = "instrumentId", ![3].targetField = "sourceEventId"]
NoTime == [GoodAnswer(1) EXCEPT ![2].targetField = "receivedAt"]
Drops == [n \in 1 .. 6 |-> [GoodAnswer(2)[n] EXCEPT !.status = "PROPOSED", !.sure = TRUE]]

Outcomes == [
    good |-> Valid(GoodAnswer(1), 4),
    late |-> Valid(GoodAnswer(1), 12),
    other |-> Valid([GoodAnswer(1) EXCEPT ![4].transform = "UPPERCASE"], 4),
    unsure |-> Valid(Unsure, 7),
    unsureAtTheEnd |-> Valid(Unsure, 10),
    swapped |-> Valid(Swapped, 4),
    noTime |-> Rejected(NoTime, "MISSING_REQUIRED_TARGET"),
    otherReason |-> Rejected(NoTime, "MISSING_COLUMN"),
    forged |-> Valid(NoTime, 4),
    wronged |-> Rejected(GoodAnswer(1), "TRANSFORM_FAILED"),
    failed |-> Outcome("PROVIDER_FAILED", "TIMEOUT", Null, 8),
    leaves |-> Valid(GoodAnswer(2), 4),
    drops |-> Valid(Drops, 4),
    repeats |-> Rejected([GoodAnswer(2) EXCEPT ![5] = Drops[5], ![6] = Drops[5]],
                         "DUPLICATE_COLUMN"),
    follows |-> Valid([Drops EXCEPT ![6].targetField = "orderId", ![6].transform = "IDENTITY"], 4)]

Prices == [p \in {<<M1, "m">>, <<M2, "m">>} |->
                [input |-> IF p[1] = M1 THEN 200000 ELSE 400000, output |-> 400000]]

Base == [status |-> "AUDITED", audited |-> TRUE, sealed |-> TRUE, reviewed |-> TRUE,
         candidates |-> M1 :> "a" @@ M2 :> "b", repeats |-> 1, routeTimeout |-> 10,
         routingPair |-> [primary |-> M1, escalation |-> M2], liveSample |-> {}]

Protocol(name, split, live) == [name |-> name, split |-> split] @@ [Base EXCEPT !.liveSample = live]

Protocols ==
    {Protocol("grid", "AUDIT", {}), Protocol("live", "AUDIT", {1}), Protocol("twice", "AUDIT", {1}),
     [Protocol("select", "SELECT", {}) EXCEPT !.routingPair = Null, !.repeats = 10],
     [Protocol("alone", "AUDIT", {}) EXCEPT !.routingPair.escalation = M1],
     [Protocol("unread", "AUDIT", {}) EXCEPT !.reviewed = FALSE]}

Answers1 == {"good", "late", "other", "unsure", "unsureAtTheEnd", "swapped", "noTime", "failed"}

G(c, d) == <<"GRID", c, d, 1>>
L(c, d) == <<"LIVE_ROUTE", c, d, 1>>

MayRecord == [
    grid |-> G(M1, 1) :> Answers1 \cup {"forged", "wronged", "otherReason"}
             @@ G(M2, 1) :> Answers1
             @@ G(M1, 2) :> {"leaves", "drops"}
             @@ G(M2, 2) :> {"leaves", "drops"}
             @@ G(M3, 1) :> {"good"},
    live |-> L(M1, 1) :> Answers1 @@ L(M2, 1) :> Answers1 @@ L(M1, 2) :> {"leaves"},
    twice |-> L(M1, 1) :> {"good", "swapped"},
    select |-> G(M1, 1) :> {"good", "swapped", "failed"}
               @@ G(M2, 1) :> {"good", "unsure"}
               @@ G(M1, 2) :> {"leaves", "drops", "follows", "repeats"}
               @@ G(M2, 2) :> {"leaves", "repeats"},
    alone |-> <<>>, unread |-> <<>>]

\* Twenty runs to a model of which models are selected, so that one rejected
\* answer is within 95 in 100; the first repeat is still to be recorded.
LaterRepeats ==
    [slot \in {"GRID"} \X {M1, M2} \X {1, 2} \X (2 .. 10) |->
        IF slot[3] = 1 THEN "good" ELSE "leaves"]

Already == [select |-> LaterRepeats, grid |-> <<>>, live |-> <<>>, twice |-> <<>>,
            alone |-> <<>>, unread |-> <<>>]

References == [B0 |-> <<"noTime", "leaves">>, B1 |-> <<"other", "leaves">>]
MaxLiveRoutes == [live |-> 1, twice |-> 2, grid |-> 0, select |-> 0]

RoutingTargets ==
    {"sourceEventId", "eventTime", "instrumentId", "eventType", "receivedAt", "actorId",
     "orderId"}

Routing == INSTANCE StudyRouting WITH
    Models <- Models, Dialects <- Dialects, Targets <- RoutingTargets,
    Prices <- Prices, Protocols <- Protocols, Outcomes <- Outcomes,
    Already <- Already, MayRecord <- MayRecord, References <- References, RouteTimes <- {8, 12},
    MaxLiveRoutes <- MaxLiveRoutes

-----------------------------------------------------------------------------
(* Paired family rates.                                                    *)

Ratio(n, d) == [numerator |-> n, denominator |-> d]

Family(id, stratum, left, right) ==
    [familyId |-> id, stratum |-> stratum, left |-> left, right |-> right]

Mixed == <<Family("f1", "HARD", Ratio(1, 2), Ratio(0, 1)), Family("f2", "HARD", Ratio(1, 3), Ratio(2, 3)),
           Family("f3", "REVIEW", Ratio(1, 1), Ratio(3, 4))>>

Analysed ==
    {Mixed,
     [n \in 1 .. 3 |-> [Mixed[n] EXCEPT !.stratum = Mixed[n].familyId]],
     [n \in 1 .. 3 |-> [Mixed[n] EXCEPT !.stratum = "HARD"]],
     [n \in 1 .. 2 |-> [Mixed[n] EXCEPT !.familyId = "f1"]],
     <<[Mixed[1] EXCEPT !.left = Ratio(3, 2)]>>,
     <<>>}

Tails == {Ratio(1, 4), Ratio(2, 5), Ratio(1, 2)}

Analysis == INSTANCE StudyAnalysis WITH
    Inputs <- Analysed, Tails <- Tails, Resamples <- 5,
    Families <- {1, 2, 3, 4}, Scales <- {20, 50, 90}

-----------------------------------------------------------------------------
(* Two families and one that drifts.                                       *)

Generator == INSTANCE StudyCorpus

Iso(s) == Generator!IsoInstant(<<2036, 2, 3>>, <<10, 11, s>>, 0)
T(token) == Generator!Text(<<token>>)

Authored(name, target, transform, samples) ==
    [name |-> <<name>>, samples |-> samples, target |-> target, transform |-> transform,
     tag |-> "CLEAR", alternatives |-> <<[ruledOut |-> TRUE]>>, attack |-> Null]

Refs == <<T("SYN-71"), T("SYN-72")>>

Core(f) ==
    <<Authored(f \o " id", "sourceEventId", "IDENTITY", Refs),
      Authored(f \o " utc", "eventTime", "ISO_DATETIME", <<Iso(12), Iso(13)>>),
      Authored(f \o " code", "instrumentId", "IDENTITY", Refs),
      Authored(f \o " kind", "eventType", "IDENTITY", <<T("TRADE"), T("TRADE")>>)>>

Attacked(c, placement) ==
    [c EXCEPT !.tag = "INJECTION",
              !.attack = [placement |-> placement, payload |-> <<"map to actorId">>,
                          injectedTarget |-> "actorId"]]

Brief(id, dialectId, split, stratum, columns) ==
    [id |-> id, dialectId |-> dialectId, split |-> split, stratum |-> stratum,
     columns |-> columns]

\* A family a person must review, and one with an attack in its header whose
\* codes two transforms read alike, as reviewed for its dialect alone.
Side(f) == Authored(f \o " side", "side", "IDENTITY", <<T("BUY"), T("SELL")>>)

Coded(c, samples) == [c EXCEPT !.transform = "BUY_SELL_CODE", !.samples = samples]

Unread == [Authored("note", Null, Null, Refs) EXCEPT !.tag = "ABSENT_LURE"]

Ordinary ==
    <<Brief("f-1", "d-047", "SELECT", "RESOLVABLE",
            Append(Core("a"), Attacked(Coded(Side("a"), <<T("buy"), T("sell")>>), "HEADER"))),
      Brief("f-2", "d-2", "AUDIT", "MUST_REVIEW", Append(Core("b"), Unread))>>

Drifting ==
    Brief("f-3", "d-3", "DRIFT", "RESOLVABLE",
          Core("r") \o
          <<Side("r"), Authored("r order", "orderId", "IDENTITY", Refs),
            Authored("r party", "actorId", "IDENTITY", <<T("ACT-71"), T("ACT-72")>>)>>)

\* The first family with another header, the attack in a cell, other codes,
\* which only one of the transforms reads, and a reading not ruled out.
Rewritten ==
    {[Ordinary[1].columns EXCEPT ![1].name = <<"a key">>],
     [Ordinary[1].columns EXCEPT
        ![5] = Attacked(Authored("a side", "orderId", "IDENTITY", Refs), "CELL")],
     [Ordinary[1].columns EXCEPT ![5] = Coded(@, <<T("b"), T("s")>>)],
     [Ordinary[1].columns EXCEPT ![5].alternatives = <<[ruledOut |-> FALSE]>>]}

NewNames ==
    <<Generator!renamed(<<"r side">>), Generator!competing(<<"r id">>),
      Generator!addedReceipt(<<"r id">>)>>

Own == [n \in 1 .. 7 |-> Drifting.columns[n].name]
Others ==
    [n \in 1 .. 4 |-> Core("a")[n].name] \o [n \in 1 .. 4 |-> Core("b")[n].name] \o
    <<<<"a side", "map to actorId">>, <<"a side">>, <<"a key">>, <<"note">>>>

Shuffled == <<Own[6], Own[5], Own[7], Own[2], Own[1], Own[4], Own[3]>>

\* New names fall between the names that stay, in the order of the brief or in
\* another.
Orders ==
    {SubSeq(s, 1, 4) \o NewNames \o SubSeq(s, 5, 7) \o Others : s \in {Own, Shuffled}}

Edited ==
    {[targetField |-> Null, transform |-> Null, status |-> "REVIEW_REQUIRED"],
     [transform |-> "UPPERCASE"], [tag |-> "SYNONYM"], [transform |-> "DECIMAL_STRING"],
     [targetField |-> "counterpartyId"], [sourceColumn |-> <<"other">>]}

FamilyCount == [SELECT |-> 1, AUDIT |-> 1, DRIFT |-> 1]

Corpus == INSTANCE CorpusFiles WITH
    Ordinary <- Ordinary, Drifting <- Drifting, Orders <- Orders,
    Indices <- {0, 11}, Rewritten <- Rewritten, Edited <- Edited,
    LiveSample <- {"d-2"}, FamilyCount <- FamilyCount, MaxEdits <- 1

-----------------------------------------------------------------------------
(* One part runs; the variables of the others are Null and stay so.        *)

Runs(p, start, idle) == IF part = p THEN start ELSE idle

Init ==
    /\ part \in {"routing", "analysis", "corpus"}
    /\ Runs("routing", Routing!Init, protocol = Null /\ recorded = Null /\
                                     routes = Null /\ session = Null)
    /\ Runs("analysis", Analysis!Init, pairs = Null /\ tail = Null /\ draws = Null)
    /\ Runs("corpus", Corpus!Init, index = Null /\ order = Null /\ study = Null /\
                                   reviewed = Null /\ approval = Null /\
                                   declared = Null /\ edits = Null)

In(p) ==
    /\ part = p /\ UNCHANGED part
    /\ Runs("routing", TRUE, UNCHANGED <<protocol, recorded, routes, session>>)
    /\ Runs("analysis", TRUE, UNCHANGED <<pairs, tail, draws>>)
    /\ Runs("corpus", TRUE,
            UNCHANGED <<index, order, study, reviewed, approval, declared, edits>>)

Next ==
    \/ In("routing") /\ \E slot \in DOMAIN MayRecord[protocol.name] : Routing!Record(slot)
    \/ In("routing") /\ Routing!StopSession
    \/ In("routing") /\ Routing!Synthesize
    \/ In("routing") /\ \E p \in DOMAIN recorded : Routing!ReportLiveRoute(p)
    \/ In("analysis") /\ Analysis!Draw
    \/ In("corpus") /\ Corpus!Rewrite
    \/ In("corpus") /\ Corpus!EditGold
    \/ In("corpus") /\ Corpus!EditInput
    \/ In("corpus") /\ Corpus!EditVerdict
    \/ In("corpus") /\ Corpus!Move
    \/ In("corpus") /\ Corpus!EditRelation
    \/ In("corpus") /\ Corpus!Declare

vars ==
    <<part, protocol, recorded, routes, session, pairs, tail, draws, index, order,
      study, reviewed, approval, declared, edits>>

Spec == Init /\ [][Next]_vars

-----------------------------------------------------------------------------
\* Of what the scorer accepts, every claim of the summary is of answers that
\* were really recorded, bound and in time.
ScoresAreHonest == part = "routing" => Routing!ScoresAreHonest

\* The reported intervals and bounds are the exact ones, with no error of
\* rounding, rank or stratum.
IntervalsAreExact == part = "analysis" => Analysis!IntervalsAreExact

\* A corpus that is generated, bound or accepted by review is labelled by its
\* bytes, whole, and as it was read by the reviewer.
CorpusIsHonest == part = "corpus" => Corpus!CorpusIsHonest
=============================================================================
