--------------------------- MODULE StudyAnalysis ---------------------------
(****************************************************************************)
(* The intervals the study reports: exact rationals, the paired bootstrap   *)
(* over families and the bound on a rate that was never seen                *)
(* (packages/evals/src/mapping-study-analysis.ts).                          *)
(*                                                                          *)
(* The sampler's hash stream is any choice of a member of the stratum.  The *)
(* draws are kept ascending, as the code sorts them before it reads any.    *)
(****************************************************************************)
EXTENDS Integers, Sequences, FiniteSets, FiniteSetsExt, Functions, SequencesExt

CONSTANTS
    Inputs,         \* what may be analysed: sequences of paired family rates
    Tails,          \* the tail probabilities that may be configured
    Resamples,      \* bound: draws of a bootstrap
    Families,       \* bound: families of a zero-event bound
    Scales          \* bound: its scales

VARIABLES
    pairs,          \* [familyId, stratum, left, right]
    tail,
    draws           \* the differences drawn, ascending

vars == <<pairs, tail, draws>>

-----------------------------------------------------------------------------
(* Rationals.                                                              *)

Abs(n) == IF n < 0 THEN -n ELSE n

\* The remainder of the language: it has the sign of the dividend.
Remainder(a, b) == IF a < 0 THEN -(Abs(a) % Abs(b)) ELSE a % Abs(b)

gcd(a, b) ==
    LET euclid[x \in -Abs(a) .. Abs(a) \cup -Abs(b) .. Abs(b),
               y \in -Abs(a) .. Abs(a) \cup -Abs(b) .. Abs(b)] ==
            IF y = 0 THEN Abs(x) ELSE euclid[y, Remainder(x, y)]
    IN  euclid[a, b]

Quotient(n, d) == IF n < 0 THEN -(Abs(n) \div d) ELSE n \div d

rational(n, d) ==
    [numerator |-> Quotient(n, gcd(n, d)), denominator |-> d \div gcd(n, d)]

addRationals(a, b) ==
    rational(a.numerator * b.denominator + b.numerator * a.denominator,
             a.denominator * b.denominator)

subtractRationals(a, b) == addRationals(a, [b EXCEPT !.numerator = -@])

meanRationals(values) ==
    LET sum == FoldLeft(addRationals, rational(0, 1), values)
    IN  rational(sum.numerator, sum.denominator * Len(values))

AtMostRational(a, b) == a.numerator * b.denominator <= b.numerator * a.denominator

-----------------------------------------------------------------------------
(* pairedFamilyBootstrap.                                                  *)

Accepted ==
    /\ pairs # <<>>
    /\ Cardinality({p.familyId : p \in Range(pairs)}) = Len(pairs)
    /\ tail.numerator > 0 /\ 2 * tail.numerator < tail.denominator
    /\ \A p \in Range(pairs) : \A v \in {p.left, p.right} :
          v.denominator > 0 /\ v.numerator \in 0 .. v.denominator

Stratum(s) == {n \in DOMAIN pairs : pairs[n].stratum = s}

Difference(n) == subtractRationals(pairs[n].left, pairs[n].right)

\* One resample: for each family, some family of its stratum.
Resample ==
    {picked \in [DOMAIN pairs -> DOMAIN pairs] :
        \A n \in DOMAIN pairs : picked[n] \in Stratum(pairs[n].stratum)}

Point == meanRationals([n \in DOMAIN pairs |-> Difference(n)])

\* Mutant of Rank: the rank is rounded down.
RoundedDown(n) == Max({1, (Len(draws) * n) \div tail.denominator})

\* Nearest rank, with no interpolation.
Rank(n) == (Len(draws) * n + tail.denominator - 1) \div tail.denominator

quantile(n) == draws[Rank(n)]

lower == quantile(tail.numerator)
upper == quantile(tail.denominator - tail.numerator)
degenerate == draws[1] = draws[Len(draws)]

-----------------------------------------------------------------------------
(* zeroEventFamilyUpperBound: u with (1 - u)^n = 1/20, from both sides.     *)

Power(b, n) == LET p[k \in 0 .. n] == IF k = 0 THEN 1 ELSE b * p[k - 1] IN p[n]

zeroEventFamilyUpperBound(families, scale) ==
    LET bisect[low \in 0 .. scale, high \in 0 .. scale] ==
            LET middle == (low + high) \div 2
            IN  IF high - low <= 1 THEN <<low, high>>
                ELSE IF 20 * Power(scale - middle, families) > Power(scale, families)
                     THEN bisect[middle, high] ELSE bisect[low, middle]
    IN  bisect[0, scale]

-----------------------------------------------------------------------------
Init ==
    /\ pairs \in Inputs /\ tail \in Tails
    /\ draws = <<>>

Draw ==
    /\ Accepted /\ Len(draws) < Resamples
    /\ \E picked \in Resample :
          draws' = SortSeq(Append(draws, meanRationals([n \in DOMAIN pairs |->
                                                            Difference(picked[n])])),
                           LAMBDA a, b : AtMostRational(a, b) /\ a # b)
    /\ UNCHANGED <<pairs, tail>>

Next == Draw

Spec == Init /\ [][Next]_vars

-----------------------------------------------------------------------------
(* Properties.                                                             *)

Complete == Accepted /\ Len(draws) = Resamples

\* A quantile is the least draw that its share of the draws does not exceed.
InverseCDF(value, share) ==
    LET Below(v) == Cardinality({n \in DOMAIN draws : AtMostRational(draws[n], v)})
        enough == {v \in Range(draws) : Below(v) * tail.denominator >= share * Len(draws)}
    IN  value \in enough /\ \A v \in enough : AtMostRational(value, v)

\* The interval is of the draws, in order, and of rates that were paired: no
\* draw leaves the range of the families' differences, nor does the point.
IntervalIsOfDraws ==
    Complete =>
        LET differences == {Difference(n) : n \in DOMAIN pairs}
            Within(v) == /\ \E d \in differences : AtMostRational(d, v)
                         /\ \E d \in differences : AtMostRational(v, d)
        IN  /\ InverseCDF(lower, tail.numerator)
            /\ InverseCDF(upper, tail.denominator - tail.numerator)
            /\ AtMostRational(lower, upper)
            /\ \A v \in Range(draws) \cup {Point} : Within(v)
            /\ degenerate => lower = upper

\* A family alone in its stratum is always drawn: if all are, each draw is the
\* point.  Whatever the order the families come in, the point is the same.
StrataAreKept ==
    Accepted =>
        /\ (\A n \in DOMAIN pairs : Stratum(pairs[n].stratum) = {n}) =>
              \A v \in Range(draws) : v = Point
        /\ Point = meanRationals(Reverse([n \in DOMAIN pairs |-> Difference(n)]))

\* Two rationals are equal only if written alike.
LowestTerms ==
    \A v \in Range(draws) :
        /\ v.denominator > 0
        /\ \A k \in 2 .. v.denominator : v.numerator % k # 0 \/ v.denominator % k # 0

\* The bound that is reported is not below the true one, by one step at most.
BoundIsUpward ==
    \A families \in Families, scale \in Scales :
        LET b == zeroEventFamilyUpperBound(families, scale)
        IN  /\ b[2] = b[1] + 1
            /\ 20 * Power(scale - b[2], families) <= Power(scale, families)
            /\ 20 * Power(scale - b[1], families) > Power(scale, families)

\* The reported intervals and bounds are the exact ones, with no error of
\* rounding, rank or stratum.
IntervalsAreExact ==
    IntervalIsOfDraws /\ StrataAreKept /\ LowestTerms /\ (draws = <<>> => BoundIsUpward)
=============================================================================
