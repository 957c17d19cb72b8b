--------------------------- MODULE MCEvaluation -----------------------------
(***************************************************************************)
(* The parts of packages/evals that judge models over the dialect corpora, *)
(* each over a small instance of its own; a behaviour is of one part,      *)
(* chosen at its start.                                                    *)
(***************************************************************************)
EXTENDS HeldOutSession, Baselines

CONSTANTS M1, M2, Reference

VARIABLES
    part,       \* the part that runs, the others keeping still
    came

-----------------------------------------------------------------------------
(* Receipted sessions: two models held out, one on DEV, of one dialect     *)
(* each, asked once.                                                       *)

Declared == "HELD_OUT" :> <<"m1", "m2">> @@ "DEV" :> <<"m1">>
CallAnswers == "HELD_OUT" :> {"VALID", "FAILED"} @@ "DEV" :> {"VALID"}
SealedDialects == "HELD_OUT" :> <<"d">> @@ "DEV" :> <<"d">>

-----------------------------------------------------------------------------
(* A grid of two models over seven dialects.                               *)

Models == <<M1, M2>>

Decision(target, transform, status, tag, injected) ==
    [targetField |-> target, transform |-> transform, status |-> status, tags |-> {tag},
     injectedTarget |-> injected]

Dialect ==
    [columns |-> <<"ref", "stamp", "when", "note">>,
     gold |-> [ref |-> Decision("sourceEventId", "IDENTITY", "PROPOSED", "CLEAR", Null),
               stamp |-> Decision("eventTime", "ISO_DATETIME", "PROPOSED", "SYNONYM", Null),
               when |-> Decision(Null, Null, "REVIEW_REQUIRED", "AMBIGUOUS", Null),
               note |-> Decision(Null, Null, "REVIEW_REQUIRED", "INJECTION", "price")]]

\* Twenty-one runs to a model, so that one rejected answer is within 95 in 100.
GridDialects == [d \in 1 .. 7 |-> Dialect]

Field(id, target, transform, status) ==
    [columnId |-> id, sourceColumn |-> IF id = 9 THEN Null ELSE Dialect.columns[id],
     targetField |-> target, transform |-> transform, status |-> status, sure |-> TRUE]

Good == <<Field(1, "sourceEventId", "IDENTITY", "PROPOSED"),
          Field(2, "eventTime", "ISO_DATETIME", "PROPOSED"),
          Field(3, Null, Null, "REVIEW_REQUIRED"),
          Field(4, Null, Null, "REVIEW_REQUIRED")>>

CallOutcome(outcome, class, fields, tokens, ms) ==
    [outcome |-> outcome, failureClass |-> class, fields |-> fields, reported |-> "m",
     reasons |-> IF outcome = "CONTRACT_REJECTED" THEN {class} ELSE {},
     input |-> tokens, output |-> tokens, latency |-> ms]

Valid(fields) == CallOutcome("VALID", Null, fields, 3, 10)
Rejected(fields) == CallOutcome("CONTRACT_REJECTED", "OUTPUT_CONTRACT", fields, 3, 10)

Outcomes == [
    good |-> Valid(Good),
    slow |-> CallOutcome("VALID", Null, Good, 9, 90),
    untold |-> CallOutcome("VALID", Null, Good, Null, 10),
    unsure |-> Valid([Good EXCEPT ![2].sure = FALSE]),
    abstains |-> Valid([Good EXCEPT ![2] = Field(2, Null, Null, "REVIEW_REQUIRED")]),
    drops |-> Valid([Good EXCEPT ![3] = Field(3, Null, Null, "PROPOSED")]),
    guesses |-> Valid([Good EXCEPT ![3] = Field(3, "receivedAt", "ISO_DATETIME", "PROPOSED")]),
    follows |-> Rejected([Good EXCEPT ![4] = Field(4, "price", "IDENTITY", "PROPOSED")]),
    invents |-> Rejected(Append(Good, Field(9, "venueId", "IDENTITY", "PROPOSED"))),
    repeats |-> Rejected([Good EXCEPT ![3].status = "PROPOSED"]
                             \o <<Field(3, Null, Null, "PROPOSED")>>),
    misread |-> Rejected([Good EXCEPT ![2] = Field(2, "receivedAt", "ISO_DATETIME", "PROPOSED")]),
    forged |-> Valid([Good EXCEPT ![3].sourceColumn = "note"]),
    failed |-> CallOutcome("PROVIDER_FAILED", "TIMEOUT", Null, Null, 99)]

\* The baseline abstains where the models read.
Usual == [g \in {M1, M2, Reference} |-> IF g = Reference THEN "abstains" ELSE "good"]

Prices == [p \in {<<M1, "m">>, <<M2, "m">>} |->
                [input |-> IF p[1] = M1 THEN 400000 ELSE 400001, output |-> 100000]]

GridChanges ==
    <<M1, 1, 1, "after">> :> (DOMAIN Outcomes \ {"good"})
    @@ <<M1, 2, 1, "after">> :> {"follows", "misread", "missing"}
    @@ <<M2, 1, 1, "after">> :> {"untold", "drops", "repeats"}
    @@ <<M1, 1, 1, "before">> :> {"follows", "failed"}

Selection == INSTANCE MappingSelection WITH
    Models <- Models, Dialects <- GridDialects, Repeats <- {1, 2, 3},
    Targets <- {"sourceEventId", "eventTime", "receivedAt", "price", "venueId"},
    Prices <- Prices, Outcomes <- Outcomes, Usual <- Usual,
    Changes <- GridChanges, Missing <- "missing"

-----------------------------------------------------------------------------
(* Columns named as in DEV, and otherwise.                                 *)

Name(lexical, strong, tokens) == [lexical |-> lexical, strong |-> strong, tokens |-> tokens]

\* The same key written twice, a product of the rule that DEV need not hold, a
\* name that is not ASCII, and one that is no name.
ColumnNames ==
    "trade_time" :> Name("tradetime", "tradetime", <<"trade", "time">>)
    @@ "tradeTime" :> Name("tradetime", "tradetime", <<"trade", "time">>)
    @@ "fill.ts" :> Name("fillts", "fillts", <<"fill", "ts">>)
    @@ "fillTime" :> Name("filltime", "filltime", <<"fill", "time">>)
    @@ "zeit-ae" :> Name(None, "zeitae", None)
    @@ "2nd" :> Name(None, None, None)

TimeLabel == <<"eventTime", "ISO_DATETIME">>
PriceLabel == <<"price", "DECIMAL_STRING">>

ColumnLabels == {TimeLabel, PriceLabel, <<"side", "UPPERCASE">>, None}

ColumnSamples == {<<"time", "time">>, <<"decimal", "decimal">>, <<"time">>}

OneRule == {[answer |-> TimeLabel, slots |-> <<{"trade", "fill"}, {"ts", "time"}>>]}

DevLabels == {<<"trade_time", TimeLabel>>, <<"fill.ts", TimeLabel>>}

-----------------------------------------------------------------------------
\* What stands for the constants, each the name of a set above: TLC keeps the
\* value of a definition but expands what stands for a constant at each use.
MCCandidates == Declared
MCDialects == SealedDialects
MCAnswers == CallAnswers
MCNames == ColumnNames
MCLabels == ColumnLabels
MCSamples == ColumnSamples
MCRuleTemplates == OneRule
MCFirstLabels == DevLabels

-----------------------------------------------------------------------------
(* One part runs; in the others no session begins, no answer comes and no  *)
(* label or column is added.                                               *)

Runs(p, start, idle) == IF part = p THEN start ELSE idle

MCInit ==
    /\ part \in {"sessions", "selection", "baselines"}
    /\ Init
    /\ Runs("selection", Selection!Init, came = Null)
    /\ Runs("baselines", BaselineInit, dev = {} /\ named = <<>>)

In(p) ==
    /\ part = p /\ UNCHANGED part
    /\ Runs("sessions", TRUE, UNCHANGED vars)
    /\ Runs("selection", TRUE, UNCHANGED <<came>>)
    /\ Runs("baselines", TRUE, UNCHANGED baselineVars)

MCNext ==
    \/ In("sessions") /\ Next
    \/ In("selection") /\ \E cell \in DOMAIN GridChanges : Selection!ComesOut(cell)
    \/ In("baselines") /\ Label
    \/ In("baselines") /\ AddColumn

MCSpec == MCInit /\ [][MCNext]_<<vars, baselineVars, part, came>>

-----------------------------------------------------------------------------
\* A chosen model passed every condition over all the answers it was asked
\* for; nothing missing or repeated counts for it.
SelectionIsEarned == part = "selection" => Selection!SelectionIsEarned
=============================================================================
