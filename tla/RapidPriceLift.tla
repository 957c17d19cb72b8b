--------------------------- MODULE RapidPriceLift ---------------------------
(***************************************************************************)
(* The rule RAPID_PRICE_LIFT 1.1 over a canonical sequence of events       *)
(* (packages/replay-engine/src/rapid-price-lift.ts).                       *)
(*                                                                         *)
(* The canonical events come in one by one; after any of them the case may *)
(* be evaluated under the rule of its manifest.                            *)
(*                                                                         *)
(* A decimal is a coefficient and a scale, as in the code; its text is the *)
(* same pair, because rendering writes every digit of the scale.           *)
(***************************************************************************)
EXTENDS Integers, Sequences, SequencesExt

CONSTANTS
    Events,         \* the trade events that may occur
    Hypothesis,     \* [instrumentId, startTime, endTime, actorIds]
    Rules,          \* the thresholds a manifest may approve, by gate
    MaxEvents,      \* bound: canonical events of a case
    BasisPoints,    \* BASIS_POINTS
    ReportedDigits, \* REPORTED_FRACTIONAL_DIGITS
    Null            \* a field the source does not have

VARIABLES
    events,         \* the canonical events, in canonical order
    rule            \* the approved thresholds

vars == <<events, rule>>

Gates == {"PRICE_CHANGE", "AGGRESSIVE_BUY_SHARE", "ACTOR_CONCENTRATION",
          "REPEATED_EXECUTION", "REMOVAL_SENSITIVITY"}

-----------------------------------------------------------------------------
(* Exact decimals (packages/canonical-kernel/src/scaled-decimal.ts).       *)

ZERO == [coefficient |-> 0, scale |-> 0]

Wider(left, right) == IF left.scale > right.scale THEN left.scale ELSE right.scale

alignCoefficient(value, scale) == value.coefficient * 10 ^ (scale - value.scale)

addScaledDecimals(left, right) ==
    LET scale == Wider(left, right)
    IN  [coefficient |-> alignCoefficient(left, scale)
                           + alignCoefficient(right, scale),
         scale |-> scale]

subtractScaledDecimals(left, right) ==
    addScaledDecimals(left, [right EXCEPT !.coefficient = -@])

multiplyScaledDecimals(left, right) ==
    [coefficient |-> left.coefficient * right.coefficient,
     scale |-> left.scale + right.scale]

\* The sign of the difference, which the code clamps to -1, 0 and 1.
compareScaledDecimals(left, right) ==
    LET scale == Wider(left, right)
    IN  alignCoefficient(left, scale) - alignCoefficient(right, scale)

compareExactRatioToDecimal(ratio, threshold) ==
    ratio.numerator * 10 ^ threshold.scale
      - threshold.coefficient * ratio.denominator

\* Division of bigints: toward zero, for a positive denominator.
Quotient(n, d) == IF n < 0 THEN -((-n) \div d) ELSE n \div d

renderExactRatioTruncated(ratio, fractionalDigits) ==
    [coefficient |-> Quotient(ratio.numerator * 10 ^ fractionalDigits,
                              ratio.denominator),
     scale |-> fractionalDigits]

\* decimalRatio, and ratio of the cross-market rule: both coefficients at the
\* wider scale.
decimalRatio(numerator, denominator, multiplier) ==
    LET scale == Wider(numerator, denominator)
    IN  [numerator |-> alignCoefficient(numerator, scale) * multiplier,
         denominator |-> alignCoefficient(denominator, scale)]

subtractRatios(left, right) ==
    [numerator |-> left.numerator * right.denominator
                     - right.numerator * left.denominator,
     denominator |-> left.denominator * right.denominator]

-----------------------------------------------------------------------------
(* The rule.                                                               *)

isComparableCandidate(e) ==
    /\ e.instrumentId = Hypothesis.instrumentId
    /\ e.eventType = "TRADE"
    /\ e.eventTime \in Hypothesis.startTime .. Hypothesis.endTime

hasComparableRuleInputs(e) ==
    /\ Null \notin {e.price, e.quantity, e.side, e.actorId}
    /\ compareScaledDecimals(e.price, ZERO) > 0
    /\ compareScaledDecimals(e.quantity, ZERO) > 0

isEligible(e) == isComparableCandidate(e) /\ hasComparableRuleInputs(e)

TotalNotional(s) ==
    FoldLeft(LAMBDA sum, e :
                addScaledDecimals(sum, multiplyScaledDecimals(e.price, e.quantity)),
             ZERO, s)

PeakPrice(s) ==
    FoldLeft(LAMBDA peak, e :
                IF compareScaledDecimals(e.price, peak) > 0 THEN e.price ELSE peak,
             s[1].price, s)

\* Mutant of priceChange: the coefficients are not brought to one scale.
PriceChangeUnaligned(s) ==
    [numerator |-> (PeakPrice(s).coefficient - s[1].price.coefficient) * BasisPoints,
     denominator |-> s[1].price.coefficient]

\* From the first price to the peak, against the first price.
priceChange(s) ==
    decimalRatio(subtractScaledDecimals(PeakPrice(s), s[1].price),
                 s[1].price, BasisPoints)

\* Parts of the eligible events: the aggressive buys, those of the approved
\* actors, those above the first price, and all events without these actors.
IsBuy(e) == e.side = "BUY"
OfApprovedActor(e) == e.actorId \in Hypothesis.actorIds

Buys(s) == SelectSeq(s, IsBuy)
ApprovedActorBuys(s) == SelectSeq(Buys(s), OfApprovedActor)
AboveReference(s) ==
    SelectSeq(ApprovedActorBuys(s),
              LAMBDA e : compareScaledDecimals(e.price, s[1].price) > 0)
WithoutApprovedActors(s) == SelectSeq(s, LAMBDA e : ~OfApprovedActor(e))

\* What each gate compares with its threshold.
Observed(eligible) ==
    LET buys == Buys(eligible)
    IN  [PRICE_CHANGE |-> priceChange(eligible),
         AGGRESSIVE_BUY_SHARE |->
            decimalRatio(TotalNotional(buys), TotalNotional(eligible), BasisPoints),
         ACTOR_CONCENTRATION |->
            decimalRatio(TotalNotional(ApprovedActorBuys(eligible)), TotalNotional(buys),
                         BasisPoints),
         REPEATED_EXECUTION |->
            [numerator |-> Len(AboveReference(eligible)), denominator |-> 1],
         REMOVAL_SENSITIVITY |->
            subtractRatios(priceChange(eligible),
                           priceChange(WithoutApprovedActors(eligible)))]

\* The events each gate refers to.
EventIds(s) == [n \in DOMAIN s |-> s[n].eventId]

Referenced(gate, eligible) ==
    CASE gate = "ACTOR_CONCENTRATION" -> EventIds(Buys(eligible))
      [] gate = "REPEATED_EXECUTION" ->
            EventIds(<<eligible[1]>> \o AboveReference(eligible))
      [] OTHER -> EventIds(eligible)

Reported(ratio) == renderExactRatioTruncated(ratio, ReportedDigits)

finding(gate, observed, threshold, referenced) ==
    [observedValue |-> IF gate = "REPEATED_EXECUTION"
                       THEN [coefficient |-> observed.numerator, scale |-> 0]
                       ELSE Reported(observed),
     passed |-> compareExactRatioToDecimal(observed, threshold) >= 0,
     referencedEventIds |-> referenced]

inconclusive(reason, nonComparable) ==
    [result |-> "INCONCLUSIVE", reason |-> reason, sensitivity |-> Null,
     nonComparableEventCount |-> nonComparable]

evaluateRapidPriceLift(canonical, thresholds) ==
    LET eligible == SelectSeq(canonical, isEligible)
        without == WithoutApprovedActors(eligible)
        nonComparable ==
            Len(SelectSeq(canonical, isComparableCandidate)) - Len(eligible)
    IN  IF Len(eligible) < 2
        THEN inconclusive("INSUFFICIENT_ELIGIBLE_EVENTS", nonComparable)
        ELSE IF compareScaledDecimals(TotalNotional(Buys(eligible)), ZERO) <= 0
        THEN inconclusive("NO_AGGRESSIVE_BUY_NOTIONAL", nonComparable)
        ELSE IF Len(without) < 2
        THEN inconclusive("REMOVAL_LEAVES_INSUFFICIENT_EVENTS", nonComparable)
        ELSE LET observed == Observed(eligible)
                 findings == [g \in Gates |-> finding(g, observed[g], thresholds[g],
                                                      Referenced(g, eligible))]
             IN  [result |-> IF \A g \in Gates : findings[g].passed
                             THEN "SUPPORTED" ELSE "NOT_SUPPORTED",
                  nonComparableEventCount |-> nonComparable,
                  findings |-> findings,
                  sensitivity |->
                      [priceChangeBps |-> Reported(priceChange(eligible)),
                       withoutApprovedActors |-> Reported(priceChange(without)),
                       removalSensitivityBps |-> Reported(observed.REMOVAL_SENSITIVITY)]]

-----------------------------------------------------------------------------
Init == events = <<>> /\ rule \in Rules

Occurs(e) ==
    /\ Len(events) < MaxEvents
    /\ events # <<>> => e.eventTime >= Last(events).eventTime
    /\ events' = Append(events, e)
    /\ UNCHANGED rule

Next == \E e \in Events : Occurs(e)

Spec == Init /\ [][Next]_vars

-----------------------------------------------------------------------------
\* The same number written with one more zero.
Longer(d) == [coefficient |-> d.coefficient * 10, scale |-> d.scale + 1]

Rewritten(e) == IF e.price = Null THEN e ELSE [e EXCEPT !.price = Longer(@)]

\* A verdict is about the numbers and not about how they are written: a source
\* that writes one of its prices with another zero, or a manifest that does so
\* with a threshold, gets the same verdict and the same reported values.
WritingDoesNotMatter ==
    LET verdict == evaluateRapidPriceLift(events, rule)
    IN  /\ \A i \in DOMAIN events :
             evaluateRapidPriceLift([events EXCEPT ![i] = Rewritten(@)], rule)
               = verdict
        /\ evaluateRapidPriceLift(events, [g \in Gates |-> Longer(rule[g])])
             = verdict

\* Gates compare exact ratios and report truncated ones.  What a reader sees
\* still decides the gate, for a value that is not negative and a threshold
\* with no more digits than are reported.
ShownValueDecides ==
    LET verdict == evaluateRapidPriceLift(events, rule)
    IN  verdict.result # "INCONCLUSIVE" =>
          \A g \in Gates :
             LET shown == verdict.findings[g].observedValue
                 exact == Observed(SelectSeq(events, isEligible))[g]
             IN  exact.numerator >= 0 /\ rule[g].scale <= ReportedDigits =>
                   (verdict.findings[g].passed
                      <=> compareScaledDecimals(shown, rule[g]) >= 0)

\* Events outside the hypothesis and events that lack an input of the rule
\* change nothing but the count of the latter: removing them leaves the verdict,
\* its findings and the events they refer to as they are.
OnlyEligibleCount ==
    evaluateRapidPriceLift(SelectSeq(events, isEligible), rule)
      = [evaluateRapidPriceLift(events, rule) EXCEPT !.nonComparableEventCount = 0]

\* The verdict is of the numbers traded: not of how they are written, and no
\* gate passes or fails against the value that is shown for it.
VerdictIsOfTheNumbers ==
    WritingDoesNotMatter /\ ShownValueDecides /\ OnlyEligibleCount
=============================================================================
