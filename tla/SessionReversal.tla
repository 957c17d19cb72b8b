-------------------------- MODULE SessionReversal --------------------------
(***************************************************************************)
(* The rule CROSS_MARKET_SESSION_REVERSAL, versions 1.0 and 1.1, and the   *)
(* contract its result has to meet                                         *)
(* (packages/replay-engine/src/cross-market-session-reversal.ts,           *)
(* packages/contracts/src/cross-market-session-reversal.ts).               *)
(*                                                                         *)
(* Daily quotes come in one by one, in canonical order; after any of them  *)
(* the case may be evaluated.  A price is a number of ticks, because the   *)
(* events' contract has already written every decimal canonically.         *)
(***************************************************************************)
EXTENDS Checks

CONSTANTS
    Quotes,         \* the daily quotes that may occur
    Rules,          \* the parameters a manifest may carry
    Hypothesis,     \* [instrumentIds, startTime, endTime]
    MaxQuotes,      \* bound: quotes of a case
    ReportedScale   \* 10 ^ CROSS_MARKET_REPORTED_FRACTIONAL_DIGITS

VARIABLES
    quotes,         \* the canonical events
    rule            \* the approved rule

vars == <<quotes, rule>>

LegId(l) == l.legId
InstrumentId(l) == l.instrumentId
DenominatorId(d) == d.denominatorId

-----------------------------------------------------------------------------
(* Rule parameters (contracts/src/rule-parameters.ts).                     *)

\* A source is "DECLARED_VALUE" or the field of the event.
MeaningMatchesSource(d) ==
    \/ d.meaning = "OBSERVED_PRICE_CHANGE" /\ d.source = "netChange"
    \/ /\ d.meaning = "OBSERVED_PRICE_LEVEL"
       /\ d.source \notin {"netChange", "DECLARED_VALUE"}
    \/ d.meaning = "MINIMUM_INCREMENT" /\ d.source = "DECLARED_VALUE"

LegAccepted(leg) ==
    /\ Len(leg.denominators) >= 2
    /\ AllDistinct(leg.denominators, DenominatorId)
    /\ leg.approvedDenominatorId \in Collected(leg.denominators, DenominatorId)
    /\ \A i \in DOMAIN leg.denominators :
          LET d == leg.denominators[i]
          IN  /\ MeaningMatchesSource(d)
              /\ d.source = "DECLARED_VALUE" => d.value > 0

RuleAccepted(r) ==
    /\ Len(r.legs) >= 2
    /\ AllDistinct(r.legs, LegId) /\ AllDistinct(r.legs, InstrumentId)
    /\ r.baselineLegId \in Collected(r.legs, LegId)
    /\ r.startDate <= r.endDateInclusive
    /\ r.maximumBaselineRank > 0 /\ r.minimumAgreeingLegs \in 1 .. Len(r.legs)
    /\ r.ruleVersion = "1.1" => \A i \in DOMAIN r.legs : LegAccepted(r.legs[i])

\* configuredRule: the legs are exactly the instruments of the hypothesis.
Configured(r) == Collected(r.legs, InstrumentId) = Hypothesis.instrumentIds

-----------------------------------------------------------------------------
(* The metrics of one quote.                                               *)

Abs(n) == IF n < 0 THEN -n ELSE n

\* renderExactRatioTruncated, of ratios that are never negative here.
Reported(ratio) == (ratio.numerator * ReportedScale) \div ratio.denominator

dailyQuoteIsValid(e) ==
    /\ e.openPrice > 0 /\ e.lowPrice > 0
    /\ e.highPrice >= e.openPrice /\ e.highPrice >= e.closePrice
    /\ e.lowPrice <= e.openPrice /\ e.lowPrice <= e.closePrice

eventDenominatorValue(e, d) ==
    IF d.source = "DECLARED_VALUE" THEN d.value
    ELSE IF d.source = "netChange" THEN Abs(e.netChange) ELSE e[d.source]

denominatorIssue(e, d) ==
    LET value == eventDenominatorValue(e, d)
    IN  IF value = Null THEN "DECLARED_DENOMINATOR_FIELD_ABSENT"
        ELSE IF value <= 0 THEN "NON_POSITIVE_DECLARED_DENOMINATOR" ELSE "none"

\* Version 1.0 divides by the size of the net change.
NetChange == [denominatorId |-> Null, meaning |-> "OBSERVED_PRICE_CHANGE",
              source |-> "netChange", value |-> Null]

approvedDenominator(r, leg) ==
    IF r.ruleVersion = "1.0" THEN NetChange
    ELSE leg.denominators[CHOOSE i \in DOMAIN leg.denominators :
            leg.denominators[i].denominatorId = leg.approvedDenominatorId]

\* Mutant of usesEventPriceDenominator: only the approved one is asked.
ApprovedUsesPrice(r, leg) == approvedDenominator(r, leg).source = "price"

usesEventPriceDenominator(r, leg) ==
    /\ r.ruleVersion = "1.1"
    /\ \E i \in DOMAIN leg.denominators : leg.denominators[i].source = "price"

Reversal(e) ==
    IF e.closePrice < e.openPrice THEN e.highPrice - e.closePrice
    ELSE IF e.closePrice > e.openPrice THEN e.closePrice - e.lowPrice ELSE 0

Relation(e) ==
    IF e.closePrice = e.openPrice THEN "FLAT"
    ELSE IF (e.closePrice > e.openPrice) = (e.netChange > 0)
    THEN "ALIGNED" ELSE "OPPOSED"

deriveObservation(e, d) ==
    [event |-> e, reversal |-> Reversal(e), relation |-> Relation(e),
     denominator |-> eventDenominatorValue(e, d),
     multiple |-> [numerator |-> Reversal(e),
                   denominator |-> eventDenominatorValue(e, d)]]

compareRatios(l, r) == l.numerator * r.denominator - r.numerator * l.denominator

-----------------------------------------------------------------------------
(* Why a case cannot be decided: the first reason found.                   *)

CaseEvents(s) ==
    SelectSeq(s, LAMBDA e :
        e.eventTime \in Hypothesis.startTime .. Hypothesis.endTime)

Group(s, instrument, date) ==
    SelectSeq(CaseEvents(s), LAMBDA e :
        e.instrumentId = instrument /\ e.tradingDate = date)

BaselineLeg(r) ==
    r.legs[CHOOSE i \in DOMAIN r.legs : r.legs[i].legId = r.baselineLegId]

BaselineEvents(s, r) ==
    SelectSeq(CaseEvents(s), LAMBDA e :
        /\ e.instrumentId = BaselineLeg(r).instrumentId
        /\ e.tradingDate \in r.startDate .. r.endDateInclusive)

LegReason(s, r, leg) ==
    LET matches == Group(s, leg.instrumentId, r.analysedDate)
        e == matches[1]
    IN  IF matches = <<>>
        THEN IF leg.legId = r.baselineLegId
             THEN "ANALYSED_DATE_ABSENT" ELSE "DECLARED_LEG_ABSENT"
        ELSE IF Len(matches) > 1 THEN "AMBIGUOUS_DAILY_OBSERVATION"
        ELSE IF ~dailyQuoteIsValid(e) THEN "INVALID_DAILY_QUOTE_RANGE"
        ELSE IF e.netChange = 0 THEN "ZERO_NET_CHANGE"
        ELSE IF r.ruleVersion = "1.0" THEN "none"
        ELSE FirstOf([i \in DOMAIN leg.denominators |->
                        denominatorIssue(e, leg.denominators[i])])

\* A day without a net change is left out of the population without a reason.
PopulationReason(r, e) ==
    IF ~dailyQuoteIsValid(e) THEN "INVALID_DAILY_QUOTE_RANGE"
    ELSE IF e.netChange = 0 THEN "none"
    ELSE denominatorIssue(e, approvedDenominator(r, BaselineLeg(r)))

Population(s, r) ==
    LET days == SelectSeq(BaselineEvents(s, r), LAMBDA e : e.netChange # 0)
        d == approvedDenominator(r, BaselineLeg(r))
    IN  [i \in DOMAIN days |-> deriveObservation(days[i], d)]

InconclusiveReason(s, r) ==
    LET baseline == BaselineEvents(s, r)
        dates == {baseline[i].tradingDate : i \in DOMAIN baseline}
        instrument == BaselineLeg(r).instrumentId
    IN  FirstOf(
          <<Unless(r.analysedDate \in r.startDate .. r.endDateInclusive,
                   "ANALYSED_DATE_OUTSIDE_BASELINE_RANGE"),
            Unless(baseline # <<>>, "EMPTY_BASELINE"),
            Unless(Cardinality(dates) >= 2, "INSUFFICIENT_BASELINE_POPULATION"),
            Unless(\A d \in dates : Len(Group(s, instrument, d)) = 1,
                   "AMBIGUOUS_DAILY_OBSERVATION")>>
          \o [i \in DOMAIN r.legs |-> LegReason(s, r, r.legs[i])]
          \o [i \in DOMAIN baseline |-> PopulationReason(r, baseline[i])]
          \o <<Unless(Cardinality({i \in DOMAIN baseline : baseline[i].netChange # 0})
                        >= 2, "INSUFFICIENT_BASELINE_POPULATION")>>)

-----------------------------------------------------------------------------
(* The verdict and the numbers reported with it.                           *)

LegObservation(r, leg, o) ==
    [legId |-> leg.legId, instrumentId |-> leg.instrumentId,
     eventId |-> o.event.eventId,
     openPrice |-> o.event.openPrice, highPrice |-> o.event.highPrice,
     lowPrice |-> o.event.lowPrice, closePrice |-> o.event.closePrice,
     netChange |-> o.event.netChange,
     price |-> IF usesEventPriceDenominator(r, leg) THEN o.event.price ELSE Null,
     sessionReversal |-> o.reversal,
     relation |-> o.relation,
     reversalMultiple |-> Reported(o.multiple),
     approvedDenominatorId |-> approvedDenominator(r, leg).denominatorId,
     approvedDenominatorValue |-> o.denominator]

Metric(o, d) ==
    LET value == eventDenominatorValue(o.event, d)
    IN  [denominatorId |-> d.denominatorId, meaning |-> d.meaning,
         source |-> d.source, denominatorValue |-> value,
         metricValue |-> Reported([numerator |-> o.reversal, denominator |-> value])]

SensitivityLeg(r, leg, o) ==
    LET approved == Metric(o, approvedDenominator(r, leg))
        others == SelectSeq(leg.denominators,
                    LAMBDA d : d.denominatorId # leg.approvedDenominatorId)
        alternative(d) ==
            LET metric == Metric(o, d)
                bothMetricsZero == approved.metricValue = 0 /\ metric.metricValue = 0
            IN  [metric |-> metric,
                 bothMetricsZero |-> bothMetricsZero,
                 ratioToApprovedMetric |->
                    IF bothMetricsZero THEN Null
                    ELSE Reported([numerator |-> approved.denominatorValue,
                                   denominator |-> metric.denominatorValue])]
    IN  [legId |-> leg.legId, instrumentId |-> leg.instrumentId,
         eventId |-> o.event.eventId, approved |-> approved,
         alternatives |-> [i \in DOMAIN others |-> alternative(others[i])]]

LegFinding(leg, o) ==
    [legId |-> leg.legId, observedValue |-> Reported(o.multiple),
     passed |-> /\ o.relation = "OPPOSED"
                /\ o.multiple.numerator
                     >= leg.minimumReversalMultiple * o.multiple.denominator]

evaluateSessionReversal(s, r) ==
    LET reason == InconclusiveReason(s, r)
        population == Population(s, r)
        observed == [i \in DOMAIN r.legs |->
                       deriveObservation(
                         Group(s, r.legs[i].instrumentId, r.analysedDate)[1],
                         approvedDenominator(r, r.legs[i]))]
        target == observed[CHOOSE i \in DOMAIN r.legs :
                              r.legs[i].legId = r.baselineLegId]
        rank == 1 + Cardinality({i \in DOMAIN population :
                       compareRatios(population[i].multiple, target.multiple) > 0})
        findings == [i \in DOMAIN r.legs |-> LegFinding(r.legs[i], observed[i])]
        agreeing == Cardinality({i \in DOMAIN findings : findings[i].passed})
    IN  IF reason # "none"
        THEN [result |-> "INCONCLUSIVE", reason |-> reason]
        ELSE [result |-> IF /\ rank <= r.maximumBaselineRank
                            /\ agreeing >= r.minimumAgreeingLegs
                         THEN "SUPPORTED" ELSE "NOT_SUPPORTED",
              ruleVersion |-> r.ruleVersion,
              rank |-> rank,
              populationSize |-> Len(population),
              legFindings |-> findings,
              agreeing |-> agreeing,
              analysis |-> [i \in DOMAIN r.legs |->
                              LegObservation(r, r.legs[i], observed[i])],
              sensitivity |->
                 IF r.ruleVersion = "1.0" THEN Null
                 ELSE [i \in DOMAIN r.legs |->
                         SensitivityLeg(r, r.legs[i], observed[i])]]

-----------------------------------------------------------------------------
(* The contract of a conclusive result.                                    *)

ratioMatchesReportedPrecision(numerator, denominator, reported) ==
    denominator # 0 /\ reported = (numerator * ReportedScale) \div denominator

MetricAccepted(m, leg) ==
    /\ MeaningMatchesSource(m)
    /\ m.denominatorValue > 0 /\ m.metricValue >= 0
    /\ ratioMatchesReportedPrecision(leg.sessionReversal, m.denominatorValue,
                                     m.metricValue)
    /\ m.source # "DECLARED_VALUE" =>
         LET observed == leg[m.source]
         IN  /\ observed # Null
             /\ m.denominatorValue = IF m.source = "netChange"
                                     THEN Abs(observed) ELSE observed

SensitivityLegAccepted(s, leg) ==
    LET others == s.alternatives
        DenominatorOf(a) == a.metric.denominatorId
    IN  /\ s.instrumentId = leg.instrumentId /\ s.eventId = leg.eventId
        /\ s.approved.denominatorId = leg.approvedDenominatorId
        /\ s.approved.denominatorValue = leg.approvedDenominatorValue
        /\ s.approved.metricValue = leg.reversalMultiple
        /\ MetricAccepted(s.approved, leg)
        /\ Len(others) >= 1 /\ AllDistinct(others, DenominatorOf)
        /\ s.approved.denominatorId \notin Collected(others, DenominatorOf)
        /\ \A i \in DOMAIN others :
             LET a == others[i]
             IN  /\ MetricAccepted(a.metric, leg)
                 /\ (a.ratioToApprovedMetric = Null) = a.bothMetricsZero
                 /\ a.bothMetricsZero
                      = (s.approved.metricValue = 0 /\ a.metric.metricValue = 0)
                 /\ a.ratioToApprovedMetric # Null =>
                      ratioMatchesReportedPrecision(s.approved.denominatorValue,
                         a.metric.denominatorValue, a.ratioToApprovedMetric)

ConclusiveAccepted(v) ==
    /\ v.rank > 0 /\ v.populationSize > 0
    /\ Len(v.analysis) >= 2
    /\ v.ruleVersion = "1.1" =>
         /\ AllDistinct(v.analysis, LegId) /\ AllDistinct(v.sensitivity, LegId)
         /\ Collected(v.analysis, LegId) = Collected(v.sensitivity, LegId)
         /\ \A i \in DOMAIN v.analysis, j \in DOMAIN v.sensitivity :
              v.analysis[i].legId = v.sensitivity[j].legId =>
                 SensitivityLegAccepted(v.sensitivity[j], v.analysis[i])

-----------------------------------------------------------------------------
Init ==
    /\ quotes = <<>>
    /\ rule \in {r \in Rules : RuleAccepted(r) /\ Configured(r)}

Occurs(e) ==
    /\ Len(quotes) < MaxQuotes
    /\ quotes # <<>> => e.eventTime >= Last(quotes).eventTime
    /\ e.eventId \notin {quotes[i].eventId : i \in DOMAIN quotes}
    /\ quotes' = Append(quotes, e)
    /\ UNCHANGED rule

Next == \E e \in Quotes : Occurs(e)

Spec == Init /\ [][Next]_vars

-----------------------------------------------------------------------------
Verdict == evaluateSessionReversal(quotes, rule)

\* The engine parses its own verdict before it returns it: whatever the quotes
\* and the denominators, the contract finds nothing to refuse, so no case ends
\* in an exception.
ContractAccepts == Verdict.result # "INCONCLUSIVE" => ConclusiveAccepted(Verdict)

\* The day that is ranked is one of the days it is ranked among, and there is
\* another: its position lies within the population.
RankIsWithinPopulation ==
    Verdict.result # "INCONCLUSIVE" =>
        Verdict.populationSize >= 2 /\ Verdict.rank <= Verdict.populationSize

\* Version 1.1 with the net change approved in every leg decides as 1.0 does;
\* an alternative denominator is reported and moves no gate.
VersionsAgree ==
    (rule.ruleVersion = "1.1" /\ Verdict.result # "INCONCLUSIVE"
      /\ \A i \in DOMAIN rule.legs :
            approvedDenominator(rule, rule.legs[i]).source = "netChange")
    => LET old == evaluateSessionReversal(quotes,
                    [rule EXCEPT !.ruleVersion = "1.0"])
       IN  /\ old.result = Verdict.result
           /\ old.rank = Verdict.rank
           /\ old.legFindings = Verdict.legFindings

\* A verdict is one its contract admits, with a rank inside its population,
\* and both versions of the rule agree on what they both measure.
ReversalVerdictHolds ==
    ContractAccepts /\ RankIsWithinPopulation /\ VersionsAgree
=============================================================================
