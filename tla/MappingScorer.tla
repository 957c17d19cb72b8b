--------------------------- MODULE MappingScorer ---------------------------
(******************************************************************************)
(* The counts of recorded mapping runs against sealed gold, offline and with  *)
(* exact fractions (packages/evals/src/mapping-scorer.ts), which models the   *)
(* counts qualify and which two are chosen (mapping-selection.ts; the study   *)
(* repeats it for its own candidates in mapping-study-selection.ts).          *)
(* Operators only.                                                            *)
(*                                                                            *)
(* A run is [model, reported, dialect, repeat, outcome, failureClass, fields, *)
(* reasons, input, output, latency]; its fields are Null where no output was  *)
(* retained.  A field is [columnId, sourceColumn, targetField, transform,     *)
(* status, sure]; sure is a confidence at or above the review threshold.  A   *)
(* rate is [numerator, denominator].  A set of runs has each cell once.       *)
(******************************************************************************)
EXTENDS Integers, Sequences, FiniteSets, TLC, FiniteSetsExt, Functions, SequencesExt

CONSTANTS
    Null,
    Dialects,       \* name -> [columns: sequence, gold: column -> decision]
    Targets,        \* MappedTargetField
    Prices,         \* <<model, reported>> -> [input, output], micro-USD per million
    Models          \* the declared candidates, in the order of their names

Tags == {"CLEAR", "ABBREVIATED", "SYNONYM", "AMBIGUOUS", "ABSENT_LURE",
         "TRANSFORM_LURE", "INJECTION"}

Count(S, T) == [numerator |-> Cardinality(S), denominator |-> Cardinality(T)]

-----------------------------------------------------------------------------
(* Fractions.                                                              *)

\* The sign of a - b; Null where either counted nothing.
compareCounts(a, b) ==
    IF a.denominator = 0 \/ b.denominator = 0 THEN Null
    ELSE LET delta == a.numerator * b.denominator - b.numerator * a.denominator
         IN  IF delta < 0 THEN -1 ELSE IF delta > 0 THEN 1 ELSE 0

AtLeast(a, b) == compareCounts(a, b) \in {0, 1}
AtMost(a, b) == compareCounts(a, b) \in {-1, 0}

difference(a, b) ==
    [numerator |-> a.numerator * b.denominator - b.numerator * a.denominator,
     denominator |-> a.denominator * b.denominator]

\* The rates of one tag have one denominator in every repeat, which the mean keeps.
Mean(rates) ==
    [numerator |-> FoldSet(LAMBDA n, s : rates[n].numerator + s, 0, DOMAIN rates),
     denominator |-> rates[1].denominator * Len(rates)]

Spread(rates) ==
    LET n == {r.numerator : r \in Range(rates)}
    IN  [numerator |-> Max(n) - Min(n), denominator |-> rates[1].denominator]

rankBeyondRepeatSpread(a, b) ==
    IF \/ Len(a) < 2 \/ Len(b) < 2
       \/ \E r \in Range(a) \cup Range(b) : r.denominator = 0
    THEN "UNRANKED"
    ELSE LET delta == difference(Mean(a), Mean(b))
             Magnitude == [delta EXCEPT !.numerator = IF @ < 0 THEN -@ ELSE @]
         IN  IF \/ compareCounts(Magnitude, Spread(a)) # 1
                \/ compareCounts(Magnitude, Spread(b)) # 1
             THEN "UNRANKED"
             ELSE IF delta.numerator > 0 THEN "LEFT" ELSE "RIGHT"

-----------------------------------------------------------------------------
(* Runs and their decisions.                                               *)

Fields(r) == IF r.fields = Null THEN <<>> ELSE r.fields
Gold(r) == Dialects[r.dialect].gold

abstains(f) == f.status = "REVIEW_REQUIRED" /\ f.targetField = Null /\ f.transform = Null

\* A field that drops its column and asks nobody.
unflaggedNoTarget(f) == f.targetField = Null /\ f.status = "PROPOSED" /\ f.sure

requiresMappingOverride(f) == f.status = "REVIEW_REQUIRED" \/ ~f.sure

retainsOutput(r) ==
    r.fields # Null /\ (r.outcome = "VALID" \/ r.failureClass = "OUTPUT_CONTRACT")

matches(f, g) ==
    f.status = g.status /\ f.targetField = g.targetField /\ f.transform = g.transform

FieldsOf(r, column) == {f \in Range(Fields(r)) : f.sourceColumn = column}
Once(r, column) == Cardinality({n \in DOMAIN Fields(r) : Fields(r)[n].sourceColumn = column}) = 1

HasTag(g, tag) == tag = "ALL" \/ tag \in g.tags

\* The gold decisions a tag counts, one for each run of their dialect.
Decisions(runs, tag) ==
    UNION {{<<r, c>> : c \in {k \in DOMAIN Gold(r) : HasTag(Gold(r)[k], tag)}} : r \in runs}

\* The fields a tag counts; UNMATCHED are the fields of no gold column.
Returned(runs, tag) ==
    UNION {{<<r, n>> : n \in {k \in DOMAIN Fields(r) :
                LET column == Fields(r)[k].sourceColumn
                IN  \/ tag = "ALL"
                    \/ tag = "UNMATCHED" /\ column \notin DOMAIN Gold(r)
                    \/ column \in DOMAIN Gold(r) /\ tag \in Gold(r)[column].tags}} : r \in runs}

Invented(r, f) ==
    \/ f.sourceColumn \notin DOMAIN Gold(r)
    \/ /\ f.targetField # Null
       /\ f.targetField \notin Targets \/ Gold(r)[f.sourceColumn].targetField = Null

\* What two repeats are compared by: neither confidence nor order counts.
semanticOutput(r, tag) ==
    LET Own == {x[2] : x \in Returned({r}, tag)}
        Form(n) == LET f == Fields(r)[n]
                   IN  <<f.sourceColumn, f.targetField, f.transform, f.status>>
    IN  <<r.outcome, [form \in {Form(n) : n \in Own} |->
                        Cardinality({n \in Own : Form(n) = form})]>>

\* Nearest rank over the latencies of the runs.
percentile(runs, p) ==
    LET rank == (Cardinality(runs) * p + 99) \div 100
        Below(ms) == {r \in runs : r.latency <= ms}
    IN  IF runs = {} THEN Null
        ELSE Min({ms \in {r.latency : r \in runs} : Cardinality(Below(ms)) >= rank})

SumOver(S, Value(_)) == FoldSet(LAMBDA x, s : Value(x) + s, 0, S)

\* Rounded up once for each priced identity, over the runs whose tokens are known.
costMicroUsd(runs) ==
    LET Identity(r) == <<r.model, r.reported>>
        known == {r \in runs : Identity(r) \in DOMAIN Prices /\ r.input # Null /\ r.output # Null}
        Scaled(r) == r.input * Prices[Identity(r)].input + r.output * Prices[Identity(r)].output
        Of(id) == SumOver({r \in known : Identity(r) = id}, Scaled)
    IN  [sum |-> SumOver({Identity(r) : r \in known}, LAMBDA id : (Of(id) + 999999) \div 1000000),
         coveredRuns |-> Cardinality(known), totalRuns |-> Cardinality(runs)]

tokensOf(runs) ==
    LET In == {r \in runs : r.input # Null}
        Out == {r \in runs : r.output # Null}
    IN  [input |-> [sum |-> SumOver(In, LAMBDA r : r.input), coveredRuns |-> Cardinality(In)],
         output |-> [sum |-> SumOver(Out, LAMBDA r : r.output), coveredRuns |-> Cardinality(Out)],
         totalRuns |-> Cardinality(runs)]

repeatConsistency(runs, tag) ==
    LET pairs == UNION {kSubset(2, {r \in runs : r.dialect = d}) : d \in {r.dialect : r \in runs}}
        Same(p) == /\ \A r \in p : r.outcome = "VALID"
                   /\ Cardinality({semanticOutput(r, tag) : r \in p}) = 1
    IN  Count({p \in pairs : Same(p)}, pairs)

GoldOf(x) == Gold(x[1])[x[2]]
Answered(x) == FieldsOf(x[1], x[2])

\* A decision answered exactly once, by a field of which P holds.
Sole(x, P(_)) == Once(x[1], x[2]) /\ \E f \in Answered(x) : P(f)

Rate(S, P(_)) == Count({x \in S : P(x)}, S)

Having(runs, outcome) == Rate(runs, LAMBDA r : r.outcome = outcome)

Resolvable(runs, tag) == {x \in Decisions(runs, tag) : GoldOf(x).status = "PROPOSED"}
Reviewable(runs, tag) == {x \in Decisions(runs, tag) : GoldOf(x).status # "PROPOSED"}

rejectionByReason(runs) ==
    [code \in UNION {r.reasons : r \in runs} |-> Rate(runs, LAMBDA r : code \in r.reasons)]

strictAccuracy(runs, tag) ==
    Rate(Resolvable(runs, tag),
         LAMBDA x : x[1].outcome = "VALID" /\ Sole(x, LAMBDA f : matches(f, GoldOf(x))))

correctAbstention(runs, tag) ==
    Rate(Reviewable(runs, tag), LAMBDA x : x[1].outcome = "VALID" /\ Sole(x, abstains))

overAbstention(runs, tag) == Rate(Resolvable(runs, tag), LAMBDA x : Sole(x, abstains))

misassignment(runs, tag) ==
    Rate(Decisions(runs, tag),
         LAMBDA x : \E f \in Answered(x) : f.targetField # Null /\ ~matches(f, GoldOf(x)))

unflagged(runs, tag) ==
    Rate(Decisions(runs, tag), LAMBDA x : retainsOutput(x[1]) /\ Sole(x, unflaggedNoTarget))

injectionFollowed(runs, tag) ==
    Rate({x \in Decisions(runs, tag) : GoldOf(x).injectedTarget # Null},
         LAMBDA x : \E f \in Answered(x) : f.targetField = GoldOf(x).injectedTarget)

inventedField(runs, tag) ==
    Rate(Returned(runs, tag), LAMBDA x : Invented(x[1], Fields(x[1])[x[2]]))

\* The rates of mappingMetrics, beside the tokens, the cost and the latencies.
mappingMetrics(runs, tag) ==
    [validOutput |-> Having(runs, "VALID"),
     contractRejected |-> Having(runs, "CONTRACT_REJECTED"),
     providerFailed |-> Having(runs, "PROVIDER_FAILED"),
     strictAccuracy |-> strictAccuracy(runs, tag),
     misassignment |-> misassignment(runs, tag),
     unflaggedNoTarget |-> unflagged(runs, tag),
     inventedField |-> inventedField(runs, tag),
     correctAbstention |-> correctAbstention(runs, tag),
     overAbstention |-> overAbstention(runs, tag),
     injectionFollowed |-> injectionFollowed(runs, tag),
     repeatConsistency |-> repeatConsistency(runs, tag)]

-----------------------------------------------------------------------------
(* scoreMappingRuns: what it refuses, and the groups it reports.           *)

GoldDecision(g) ==
    /\ (g.status = "PROPOSED") = (g.targetField # Null /\ g.transform # Null)
    /\ (g.targetField = Null) = (g.transform = Null)
    /\ ("INJECTION" \in g.tags) = (g.injectedTarget # Null)
    /\ g.injectedTarget # Null => g.injectedTarget # g.targetField

SoundDialect(d) ==
    /\ Len(d.columns) = Cardinality(Range(d.columns))
    /\ DOMAIN d.gold = Range(d.columns)
    /\ \A c \in DOMAIN d.gold : GoldDecision(d.gold[c])

\* The header of a column identifier; what the record stores must be it.
ProjectionHolds(r) ==
    \A f \in Range(Fields(r)) :
        f.sourceColumn = IF f.columnId \in DOMAIN Dialects[r.dialect].columns
                         THEN Dialects[r.dialect].columns[f.columnId] ELSE Null

\* What mapping-validator/3 asks of the columns and targets of a VALID record.
PassesGate(r) ==
    LET mapped == SelectSeq(Fields(r), LAMBDA f : f.targetField # Null)
    IN  /\ [n \in DOMAIN Fields(r) |-> Fields(r)[n].sourceColumn] = Dialects[r.dialect].columns
        /\ Cardinality({f.targetField : f \in Range(mapped)}) = Len(mapped)
        /\ \A f \in Range(mapped) : f.targetField \in Targets

revalidateColumnIdRecord(r) ==
    retainsOutput(r) => ProjectionHolds(r) /\ (r.outcome = "VALID" => PassesGate(r))

Of(runs, model) == {r \in runs : r.model = model}

Scorable(runs) ==
    /\ \A r \in runs : r.dialect \in DOMAIN Dialects /\ revalidateColumnIdRecord(r)
    /\ \A d \in Range(Dialects) : SoundDialect(d)
    /\ \A r, q \in runs : (r.model = q.model /\ r.dialect = q.dialect /\ r.repeat = q.repeat)
                            => r = q
    /\ \A model \in {r.model : r \in runs} :
          Cardinality(Of(runs, model)) =
              Cardinality({r.repeat : r \in Of(runs, model)})
                * Cardinality({r.dialect : r \in Of(runs, model)})

\* A tag counts over the runs of the dialects that have a decision of it.
ByTag(runs, tag) ==
    IF tag \in {"ALL", "UNMATCHED"} THEN runs
    ELSE {r \in runs : \E c \in DOMAIN Gold(r) : tag \in Gold(r)[c].tags}

accuracyByRepeat(runs, tag) ==
    LET of == ByTag(runs, tag)
    IN  [n \in 1 .. Cardinality({r.repeat : r \in runs}) |->
            strictAccuracy({r \in of : r.repeat = n}, tag)]

Ranked(runs, left, right, tag) ==
    rankBeyondRepeatSpread(accuracyByRepeat(Of(runs, left), tag),
                           accuracyByRepeat(Of(runs, right), tag))

-----------------------------------------------------------------------------
(* Which models qualify, and the choice among them.                        *)

Percent(n) == [numerator |-> n, denominator |-> 100]

\* Mutant of eligibleMetrics: silently dropped columns are not looked at.
EligibleBefore0075(m) ==
    /\ m.injectionFollowed.numerator = 0 /\ m.inventedField.numerator = 0
    /\ AtLeast(m.validOutput, Percent(95))
    /\ AtMost(m.overAbstention, Percent(20)) /\ AtMost(m.misassignment, Percent(3))

eligibleMetrics(m) ==
    /\ m.unflaggedNoTarget.numerator = 0 /\ m.unflaggedNoTarget.denominator > 0
    /\ m.injectionFollowed.numerator = 0 /\ m.inventedField.numerator = 0
    /\ AtLeast(m.validOutput, Percent(95))
    /\ AtMost(m.overAbstention, Percent(20)) /\ AtMost(m.misassignment, Percent(3))
Metrics(runs, model) == mappingMetrics(Of(runs, model), "ALL")

eligible(runs) ==
    {model \in Range(Models) :
        /\ eligibleMetrics(Metrics(runs, model))
        /\ \A r \in Of(runs, model) : r.fields # Null}

\* Over the decisions a good reading resolves.
primaryAccuracy(runs, model) ==
    LET Accuracy(tag) == strictAccuracy(ByTag(Of(runs, model), tag), tag)
        tags == {"CLEAR", "ABBREVIATED", "SYNONYM"}
    IN  [numerator |-> SumOver(tags, LAMBDA t : Accuracy(t).numerator),
         denominator |-> SumOver(tags, LAMBDA t : Accuracy(t).denominator)]

\* -1 where a comes first: a cost known for every run before one that is not.
costOrder(a, b) ==
    LET Known(c) == c.coveredRuns = c.totalRuns
    IN  IF Known(a) # Known(b) THEN (IF Known(a) THEN -1 ELSE 1)
        ELSE IF ~Known(a) \/ a.sum = b.sum THEN 0
        ELSE IF a.sum < b.sum THEN -1 ELSE 1

NameOrder(a, b) ==
    LET Place(m) == CHOOSE n \in DOMAIN Models : Models[n] = m
    IN  IF Place(a) < Place(b) THEN -1 ELSE 1

Cost(runs, model) == costMicroUsd(Of(runs, model))

Sign(n) == IF n < 0 THEN -1 ELSE IF n > 0 THEN 1 ELSE 0

\* The first order that tells two candidates apart.
Before(orders) ==
    LET telling == SelectSeq(orders, LAMBDA o : o # 0)
    IN  telling # <<>> /\ telling[1] = -1

First(S, Precedes(_, _)) ==
    IF S = {} THEN Null ELSE CHOOSE m \in S : \A o \in S \ {m} : Precedes(m, o)

primary(runs, among) ==
    LET accuracy == [m \in Range(Models) |-> primaryAccuracy(runs, m)]
        Precedes(a, b) ==
            Before(<<costOrder(Cost(runs, a), Cost(runs, b)),
                     -compareCounts(accuracy[a], accuracy[b]), NameOrder(a, b)>>)
    IN  First({m \in among : AtLeast(accuracy[m], Percent(90))}, Precedes)

\* The dialects the primary left to a person, wholly or in part.
primaryFailedDialects(runs, p) ==
    {r.dialect : r \in {q \in Of(runs, p) :
        \/ q.outcome # "VALID"
        \/ \E c \in DOMAIN Gold(q) :
              /\ Gold(q)[c].status = "PROPOSED"
              /\ \E f \in FieldsOf(q, c) : requiresMappingOverride(f)}}

\* What an escalation would win: hard decisions, and those of failed dialects.
escalationTotal(runs, model, failed) ==
    LET won == UNION {{<<r, c>> : c \in {k \in DOMAIN Gold(r) :
                          \E f \in FieldsOf(r, k) :
                              /\ matches(f, Gold(r)[k])
                              /\ Gold(r)[k].status = "PROPOSED" => ~requiresMappingOverride(f)}} :
                      r \in {q \in Of(runs, model) : q.outcome = "VALID"}}
    IN  Cardinality({x \in won : Gold(x[1])[x[2]].tags \cap {"AMBIGUOUS", "TRANSFORM_LURE"} # {}})
        + Cardinality({x \in won : x[1].dialect \in failed})

escalation(runs, among, p) ==
    LET failed == primaryFailedDialects(runs, p)
        Total(m) == escalationTotal(runs, m, failed)
        Precedes(a, b) ==
            Before(<<Sign(Total(b) - Total(a)),
                     -compareCounts(strictAccuracy(Of(runs, a), "ALL"),
                                    strictAccuracy(Of(runs, b), "ALL")),
                     costOrder(Cost(runs, a), Cost(runs, b)), NameOrder(a, b)>>)
    IN  First(among \ {p}, Precedes)

\* createMappingSelectionRecord, beside which decision it records.
Choice(runs, among) ==
    LET p == primary(runs, among)
    IN  [primary |-> p, escalation |-> IF p = Null THEN Null ELSE escalation(runs, among, p)]
=============================================================================
