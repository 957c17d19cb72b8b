---------------------------- MODULE PartsProofs ----------------------------
(***************************************************************************)
(* What holds of parts that MCReplayEngine and MCEvaluation check side by  *)
(* side, each for every value of its constants: the profile of a case, the *)
(* evidence of a sentence, an evidence bundle, the gate of an answer, the  *)
(* mapping baselines, the arithmetic of event times, the answer of         *)
(* canonicalization, what a name in a claim leads to.  A constant's shape, *)
(* where a theorem needs one, is an assumption of the part's module.       *)
(***************************************************************************)
EXTENDS EvidenceGrade, EvidenceBundle, CaseProfile, MappingValidator, Baselines,
        EventTime, Canonicalize, ClaimScope,
        FiniteSetTheorems, FunctionTheorems, SequenceTheorems, WellFoundedInduction, TLAPS

-----------------------------------------------------------------------------
(* Sequences.                                                              *)

\* As many numbers as the last.
LEMMA SizeOfInterval ==
    ASSUME NEW n \in Nat
    PROVE  IsFiniteSet(1 .. n) /\ Cardinality(1 .. n) = n
BY FS_Interval

\* A function over the first places is a sequence of its values.
LEMMA OverPlaces ==
    ASSUME NEW n \in Nat, NEW s, s = [k \in 1 .. n |-> s[k]]
    PROVE  s \in Seq(Range(s)) /\ Len(s) = n /\ DOMAIN s = 1 .. n
<1>1. s \in [1 .. n -> Range(s)]
  BY DEF Range
<1> QED BY <1>1

\* A sequence whose values are as many as its places repeats none.
LEMMA DistinctMembers ==
    ASSUME NEW s, s \in Seq(Range(s)), Cardinality(Range(s)) = Len(s)
    PROVE  \A m, n \in 1 .. Len(s) : s[m] = s[n] => m = n
<1> DEFINE N == Len(s)
           T == Range(s)
<1>1. s \in Surjection(1 .. N, T)
  BY DEF Surjection, Range
<1>2. N \in Nat
  OBVIOUS
<1> HIDE DEF N, T
<1>3. IsFiniteSet(1 .. N) /\ Cardinality(1 .. N) = N
  BY <1>2, SizeOfInterval
<1>4. s \in Injection(1 .. N, T)
  <2>1. Cardinality(T) = N
    BY DEF N, T
  <2> QED BY <1>1, <1>3, <2>1, FS_Surjection
<1> QED BY <1>4 DEF Injection, IsInjective, N

-----------------------------------------------------------------------------
(* Finite sets of numbers.                                                 *)

\* By the smallest set that would have no least element.
LEMMA FiniteHasLeast ==
    ASSUME NEW S \in SUBSET Int, IsFiniteSet(S), S # {}
    PROVE  \E x \in S : \A y \in S : x <= y
<1> DEFINE Bad == {T \in SUBSET S : T # {} /\ ~\E x \in T : \A y \in T : x <= y}
<1> SUFFICES ASSUME Bad # {} PROVE FALSE
  OBVIOUS
<1>1. Bad \subseteq FiniteSubsetsOf(S)
  BY FS_Subset DEF FiniteSubsetsOf
<1>2. IsWellFoundedOn(StrictSubsetOrdering(S), FiniteSubsetsOf(S))
  BY FS_StrictSubsetOrderingWellFounded
<1>3. PICK M \in Bad : \A T \in Bad : ~(<<T, M>> \in StrictSubsetOrdering(S))
  <2> HIDE DEF Bad
  <2> QED BY <1>1, <1>2, WFMin
<1>4. PICK a \in M : TRUE
  OBVIOUS
<1>5. M \ {a} \notin Bad
  <2>1. <<M \ {a}, M>> \in StrictSubsetOrdering(S)
    BY <1>4 DEF StrictSubsetOrdering
  <2> QED BY <1>3, <2>1
<1>6. M \subseteq Int /\ a \in Int
  OBVIOUS
<1>7. CASE M \ {a} = {}
  BY <1>4, <1>6, <1>7
<1>8. CASE M \ {a} # {}
  <2>1. PICK b \in M \ {a} : \A y \in M \ {a} : b <= y
    BY <1>5, <1>8
  <2>2. \A y \in M : (IF a <= b THEN a ELSE b) <= y
    BY <1>6, <2>1
  <2> QED BY <2>1, <2>2
<1> QED BY <1>7, <1>8

LEMMA FiniteHasGreatest ==
    ASSUME NEW S \in SUBSET Int, IsFiniteSet(S), S # {}
    PROVE  \E x \in S : \A y \in S : x >= y
<1> DEFINE T == {-x : x \in S}
           f == [x \in S |-> -x]
<1>0. PICK a \in S : a \in Int
  OBVIOUS
<1>1. T \in SUBSET Int /\ T # {}
  <2>1. -a \in T
    BY <1>0
  <2>2. T \subseteq Int
    <3> SUFFICES ASSUME NEW x \in S PROVE -x \in Int
      OBVIOUS
    <3>1. x \in Int
      OBVIOUS
    <3> QED BY <3>1
  <2> QED BY <2>1, <2>2
<1>2. f \in [S -> T] /\ (\A t \in T : \E x \in S : f[x] = t)
  OBVIOUS
<1>3. f \in Surjection(S, T)
  <2> HIDE DEF f, T
  <2> QED BY <1>2, Fun_IsSurj
<1>4. IsFiniteSet(T)
  <2> HIDE DEF f, T
  <2> QED BY <1>3, FS_Surjection
<1>5. PICK t \in T : \A u \in T : t <= u
  <2> HIDE DEF T
  <2> QED BY <1>1, <1>4, FiniteHasLeast
<1>6. PICK x \in S : t = -x
  OBVIOUS
<1>7. \A y \in S : -x <= -y
  BY <1>5, <1>6
<1> QED BY <1>7

\* The values of a list are finitely many.
LEMMA ListValuesFinite ==
    ASSUME NEW f, NEW n \in Nat, DOMAIN f = 1 .. n
    PROVE  IsFiniteSet(Range(f))
<1>1. IsFiniteSet(1 .. n)
  BY FS_Interval
<1>2. [i \in 1 .. n |-> f[i]] \in Surjection(1 .. n, Range(f))
  BY Fun_IsSurj DEF Range
<1> QED BY <1>1, <1>2, FS_Surjection

-----------------------------------------------------------------------------
(* A case is declared against the profile of a dataset.                    *)

\* A case is declared on a dataset that is not empty, for a window of times.
CaseInv ==
    /\ arrived \in Seq(Arrivals)
    /\ manifest # Null =>
          /\ arrived # <<>>
          /\ manifest.hypothesis.startTime \in CaseTime
          /\ manifest.hypothesis.endTime \in CaseTime
          /\ manifest.manifestVersion \in {"1.3", "1.4"}

LEMMA CaseInvHolds == CaseSpec => []CaseInv
<1>1. CaseInit => CaseInv
  BY DEF CaseInit, CaseInv
<1>2. CaseInv /\ [CaseNext]_caseVars => CaseInv'
  <2> SUFFICES ASSUME CaseInv, [CaseNext]_caseVars PROVE CaseInv'
    OBVIOUS
  <2>1. ASSUME NEW e \in Arrivals, Arrive(e) PROVE CaseInv'
    <3>1. /\ arrived' \in Seq(Arrivals) /\ arrived' # <<>>
      BY <2>1, AppendProperties DEF Arrive, CaseInv
    <3> QED BY <2>1, <3>1 DEF Arrive, CaseInv
  <2>2. ASSUME NEW m \in CaseManifests, DeclareCase(m) PROVE CaseInv'
    BY <2>2, CaseAssumption DEF DeclareCase, CaseInv
  <2>3. CASE UNCHANGED caseVars
    BY <2>3 DEF caseVars, CaseInv
  <2> QED BY <2>1, <2>2, <2>3 DEF CaseNext
<1> QED BY <1>1, <1>2, PTL DEF CaseSpec

\* The events have a first and a last of them, at an instant each.
LEMMA ProfileTimes ==
    ASSUME NEW s \in Seq(Arrivals), s # <<>>
    PROVE  /\ \E e \in canonicalEvents(s) :
                  computeDatasetProfile(s).earliestEventTime = e.eventTime
           /\ \E e \in canonicalEvents(s) :
                  computeDatasetProfile(s).latestEventTime = e.eventTime
           /\ \A e \in canonicalEvents(s) :
                  e.eventTime.local \in Int /\ e.eventTime.offset = 0
<1> DEFINE at == [i \in 1 .. Len(s) |-> caseTimeToEpoch(s[i].eventTime)]
           Locals == Range(at)
<1>1. Len(s) \in Nat \ {0} /\ DOMAIN s = 1 .. Len(s)
  BY EmptySeq
<1>2. ASSUME NEW i \in 1 .. Len(s)
      PROVE  /\ s[i].eventTime \in CaseTime
             /\ at[i] \in Int
             /\ inUTC(s[i]).eventTime = [local |-> at[i], offset |-> 0]
  <2>1. /\ s[i] \in Arrivals
        /\ "eventTime" \in DOMAIN s[i]
        /\ s[i].eventTime \in CaseTime
    BY <1>1, ElementOfSeq, CaseAssumption
  <2>2. caseTimeToEpoch(s[i].eventTime) \in Int
    BY <2>1 DEF caseTimeToEpoch, CaseTime
  <2> QED BY <2>1, <2>2 DEF inUTC
<1>3. /\ IsFiniteSet(Locals) /\ Locals \in SUBSET Int /\ Locals # {}
  <2>1. at[1] \in Locals
    BY <1>1 DEF Range
  <2>2. Locals \in SUBSET Int
    BY <1>2 DEF Range
  <2>3. IsFiniteSet(Locals)
    <3> HIDE DEF Locals
    <3> SUFFICES IsFiniteSet(Range(at))
      BY DEF Locals
    <3>1. DOMAIN at = 1 .. Len(s)
      OBVIOUS
    <3> HIDE DEF at
    <3> QED BY <1>1, <3>1, ListValuesFinite
  <2> QED BY <2>1, <2>2, <2>3
<1>4. Times(s) = {[local |-> x, offset |-> 0] : x \in Locals}
  BY <1>1, <1>2 DEF Times, canonicalEvents, Range
<1> HIDE DEF Locals
<1>5. PICK x \in Locals : \A y \in Locals : x <= y
  BY <1>3, FiniteHasLeast
<1>6. PICK z \in Locals : \A y \in Locals : z >= y
  BY <1>3, FiniteHasGreatest
<1>7. computeDatasetProfile(s).earliestEventTime \in Times(s)
  <2>1. \E t \in Times(s) : \A u \in Times(s) : t.local <= u.local
    <3>1. [local |-> x, offset |-> 0] \in Times(s)
      BY <1>4
    <3>2. \A u \in Times(s) : x <= u.local
      BY <1>4, <1>5
    <3> QED BY <3>1, <3>2
  <2> QED BY <2>1 DEF computeDatasetProfile
<1>8. computeDatasetProfile(s).latestEventTime \in Times(s)
  <2>1. \E t \in Times(s) : \A u \in Times(s) : t.local >= u.local
    <3>1. [local |-> z, offset |-> 0] \in Times(s)
      BY <1>4
    <3>2. \A u \in Times(s) : z >= u.local
      BY <1>4, <1>6
    <3> QED BY <3>1, <3>2
  <2> QED BY <2>1 DEF computeDatasetProfile
<1>9. \A e \in canonicalEvents(s) : e.eventTime.local \in Int /\ e.eventTime.offset = 0
  <2> HIDE DEF at
  <2> SUFFICES ASSUME NEW i \in 1 .. Len(s)
               PROVE  /\ inUTC(s[i]).eventTime.local \in Int
                      /\ inUTC(s[i]).eventTime.offset = 0
    BY <1>1 DEF canonicalEvents
  <2>1. /\ inUTC(s[i]).eventTime = [local |-> at[i], offset |-> 0]
        /\ at[i] \in Int
    BY <1>2
  <2> DEFINE t == inUTC(s[i]).eventTime
  <2> HIDE DEF t
  <2>2. t = [local |-> at[i], offset |-> 0]
    BY <2>1 DEF t
  <2>3. t.local \in Int /\ t.offset = 0
    BY <2>1, <2>2
  <2> QED BY <2>3 DEF t
<1> QED BY <1>7, <1>8, <1>9 DEF Times

\* Five checks with nothing to report all passed.
LEMMA FiveChecks ==
    ASSUME NEW a, NEW b, NEW c, NEW d, NEW e,
           Failures(<<a, b, c, d, e>>) = {}
    PROVE  a = "none" /\ b = "none" /\ c = "none" /\ d = "none" /\ e = "none"
<1> DEFINE r == <<a, b, c, d, e>>
<1>1. \A i \in DOMAIN r : r[i] = "none"
  BY DEF Failures, Range
<1>2. 1 \in DOMAIN r /\ 2 \in DOMAIN r /\ 3 \in DOMAIN r /\ 4 \in DOMAIN r /\ 5 \in DOMAIN r
  OBVIOUS
<1> QED BY <1>1, <1>2

\* A case that is accepted, on a dataset that is not empty.
LEMMA AcceptedFits ==
    ASSUME CaseInv
    PROVE  AcceptedCaseFits
<1> DEFINE h == manifest.hypothesis
           happened == canonicalEvents(arrived)
           profile == computeDatasetProfile(arrived)
           start == caseTimeToEpoch(h.startTime)
           end == caseTimeToEpoch(h.endTime)
<1> SUFFICES ASSUME manifest # Null, Accepted(manifest, arrived)
             PROVE  /\ happened = manifest.canonicalDatasetHash
                    /\ \A i \in Range(h.instrumentIds) :
                          \E e \in happened : e.instrumentId = i
                    /\ \A a \in Range(h.actorIds) : \E e \in happened : e.actorId = a
                    /\ h.actorIds = <<>> => \A e \in happened : e.actorId = Null
                    /\ \E e, f \in happened :
                          /\ e.eventTime.local <= start
                          /\ start <= end
                          /\ end <= f.eventTime.local
  BY DEF AcceptedCaseFits
<1>1. /\ arrived \in Seq(Arrivals) /\ arrived # <<>>
      /\ h.startTime \in CaseTime /\ h.endTime \in CaseTime
      /\ manifest.manifestVersion \in {"1.3", "1.4"}
  BY DEF CaseInv
<1>2. /\ profile.canonicalDatasetHash = happened
      /\ profile.instrumentIds = {e.instrumentId : e \in happened}
      /\ profile.actorIds = {e.actorId : e \in happened} \ {Null}
  BY DEF computeDatasetProfile
<1>3. CaseManifest(manifest) /\ validateCaseAgainstProfile(manifest, profile) = {}
  BY DEF Accepted
<1>4. /\ manifest.canonicalDatasetHash = profile.canonicalDatasetHash
      /\ Range(h.instrumentIds) \subseteq profile.instrumentIds
      /\ ~(/\ manifest.manifestVersion = "1.4"
           /\ h.actorIds = <<>>
           /\ profile.actorIds # {})
      /\ Range(h.actorIds) \subseteq profile.actorIds
      /\ compareCanonicalEventTimes(h.startTime, profile.earliestEventTime) >= 0
      /\ compareCanonicalEventTimes(h.endTime, profile.latestEventTime) <= 0
  <2> DEFINE u1 == Unless(manifest.canonicalDatasetHash = profile.canonicalDatasetHash,
                               "CANONICAL_DATASET_HASH_MISMATCH")
             u2 == Unless(Range(h.instrumentIds) \subseteq profile.instrumentIds,
                               "INSTRUMENT_OUTSIDE_DATASET_PROFILE")
             u3 == Unless(~(/\ manifest.manifestVersion = "1.4"
                                 /\ h.actorIds = <<>>
                                 /\ profile.actorIds # {}),
                               "ACTORLESS_HYPOTHESIS_PROFILE_MISMATCH")
             u4 == Unless(Range(h.actorIds) \subseteq profile.actorIds,
                               "ACTOR_OUTSIDE_DATASET_PROFILE")
             u5 == Unless(
                      /\ compareCanonicalEventTimes(h.startTime,
                                                        profile.earliestEventTime) >= 0
                      /\ compareCanonicalEventTimes(h.endTime,
                                                        profile.latestEventTime) <= 0,
                      "TIME_WINDOW_OUTSIDE_DATASET_PROFILE")
  <2>1. Failures(<<u1, u2, u3, u4, u5>>) = {}
    BY <1>3 DEF validateCaseAgainstProfile
  <2>2. u1 = "none" /\ u2 = "none" /\ u3 = "none" /\ u4 = "none" /\ u5 = "none"
    <3> HIDE DEF u1, u2, u3, u4, u5
    <3> QED BY <2>1, FiveChecks
  <2> HIDE DEF profile, h
  <2> QED BY <2>2, Zenon DEF Unless
<1>5. ASSUME h.actorIds = <<>> PROVE \A e \in happened : e.actorId = Null
  <2> HIDE DEF profile, happened
  <2> QED BY <1>1, <1>2, <1>3, <1>4, <1>5
     DEF CaseManifest, DeclaredHypothesis, Participants
<1>6. start \in Int /\ end \in Int /\ start <= end
  BY <1>1, <1>3 DEF CaseManifest, caseWindowIsOrdered, caseTimeToEpoch,
                    CaseTime
<1>7. PICK e \in happened : profile.earliestEventTime = e.eventTime
  <2> HIDE DEF profile
  <2> QED BY <1>1, ProfileTimes DEF profile
<1>8. PICK f \in happened : profile.latestEventTime = f.eventTime
  BY <1>1, ProfileTimes
<1>9. /\ e.eventTime.local \in Int /\ e.eventTime.offset = 0
      /\ f.eventTime.local \in Int /\ f.eventTime.offset = 0
  BY <1>1, <1>7, <1>8, ProfileTimes
<1>10. e.eventTime.local <= start /\ end <= f.eventTime.local
  <2> HIDE DEF profile, h, happened
  <2> QED BY <1>4, <1>6, <1>7, <1>8, <1>9
          DEF compareCanonicalEventTimes, caseTimeToEpoch
<1> QED BY <1>2, <1>4, <1>5, <1>6, <1>10

\* What makes a profile is the set of events.
LEMMA ProfileIsOfTheSet ==
    ASSUME NEW m, NEW s, NEW t, canonicalEvents(s) = canonicalEvents(t)
    PROVE  Accepted(m, s) = Accepted(m, t)
<1>1. Times(s) = Times(t)
  BY DEF Times
<1>2. computeDatasetProfile(s) = computeDatasetProfile(t)
  BY <1>1 DEF computeDatasetProfile
<1> QED BY <1>2 DEF Accepted

LEMMA OrderIsNothing ==
    ASSUME CaseInv
    PROVE  ArrivalDoesNotMatter
<1> SUFFICES ASSUME manifest # Null, NEW i \in DOMAIN arrived
             PROVE  /\ Accepted(manifest, Append(arrived, arrived[i]))
                           = Accepted(manifest, arrived)
                    /\ Accepted(manifest, <<arrived[i]>> \o RemoveAt(arrived, i))
                           = Accepted(manifest, arrived)
  BY DEF ArrivalDoesNotMatter
<1> DEFINE n == Len(arrived)
           again == Append(arrived, arrived[i])
           rest == RemoveAt(arrived, i)
           moved == <<arrived[i]>> \o rest
<1>1. /\ arrived \in Seq(Arrivals) /\ n \in Nat /\ DOMAIN arrived = 1 .. n
      /\ i \in 1 .. n
  BY DEF CaseInv
<1>2. /\ DOMAIN again = 1 .. (n + 1)
      /\ \A k \in 1 .. (n + 1) : again[k] = IF k = n + 1 THEN arrived[i] ELSE arrived[k]
  BY <1>1, AppendProperties
<1>3. canonicalEvents(again) = canonicalEvents(arrived)
  <2> HIDE DEF again, n
  <2>1. \A k \in DOMAIN again : \E j \in DOMAIN arrived : again[k] = arrived[j]
    BY <1>1, <1>2
  <2>2. \A j \in DOMAIN arrived : \E k \in DOMAIN again : again[k] = arrived[j]
    BY <1>1, <1>2
  <2> QED BY <2>1, <2>2 DEF canonicalEvents
<1>4. /\ DOMAIN moved = 1 .. n
      /\ moved[1] = arrived[i]
      /\ \A k \in 2 .. n : moved[k] = IF k <= i THEN arrived[k - 1] ELSE arrived[k]
  <2>1. /\ SubSeq(arrived, 1, i - 1) \in Seq(Arrivals)
        /\ Len(SubSeq(arrived, 1, i - 1)) = i - 1
        /\ \A k \in 1 .. (i - 1) : SubSeq(arrived, 1, i - 1)[k] = arrived[k]
    BY <1>1, SubSeqProperties
  <2>2. /\ SubSeq(arrived, i + 1, n) \in Seq(Arrivals)
        /\ Len(SubSeq(arrived, i + 1, n)) = n - i
        /\ \A k \in 1 .. (n - i) : SubSeq(arrived, i + 1, n)[k] = arrived[i + k]
    BY <1>1, SubSeqProperties
  <2>3. /\ rest \in Seq(Arrivals) /\ Len(rest) = n - 1
        /\ \A k \in 1 .. (n - 1) : rest[k] = IF k < i THEN arrived[k] ELSE arrived[k + 1]
    <3> DEFINE before == SubSeq(arrived, 1, i - 1)
               after == SubSeq(arrived, i + 1, n)
    <3>1. rest = before \o after
      BY DEF RemoveAt
    <3> HIDE DEF rest, before, after, n
    <3>2. /\ rest \in Seq(Arrivals) /\ Len(rest) = n - 1
          /\ \A k \in 1 .. (n - 1) :
                rest[k] = IF k <= i - 1 THEN before[k] ELSE after[k - (i - 1)]
      <4>1. /\ before \in Seq(Arrivals) /\ Len(before) = i - 1
            /\ after \in Seq(Arrivals) /\ Len(after) = n - i
        BY <2>1, <2>2 DEF before, after
      <4>2. /\ Len(rest) = (i - 1) + (n - i)
            /\ rest \in Seq(Arrivals)
            /\ \A k \in 1 .. ((i - 1) + (n - i)) :
                  rest[k] = IF k <= i - 1 THEN before[k] ELSE after[k - (i - 1)]
        BY <3>1, <4>1, ConcatProperties
      <4>3. (i - 1) + (n - i) = n - 1
        BY <1>1 DEF n
      <4> QED BY <4>2, <4>3
    <3>3. ASSUME NEW k \in 1 .. (n - 1)
          PROVE  rest[k] = IF k < i THEN arrived[k] ELSE arrived[k + 1]
      <4>1. CASE k < i
        BY <1>1, <2>1, <3>2, <4>1 DEF before
      <4>2. CASE ~(k < i)
        <5>1. k - (i - 1) \in 1 .. (n - i) /\ i + (k - (i - 1)) = k + 1
          BY <1>1, <4>2
        <5>2. after[k - (i - 1)] = arrived[i + (k - (i - 1))]
          BY <2>2, <5>1 DEF after
        <5> QED BY <1>1, <3>2, <4>2, <5>1, <5>2
      <4> QED BY <4>1, <4>2
    <3> QED BY <3>2, <3>3
  <2>4. <<arrived[i]>> \in Seq(Arrivals) /\ Len(<<arrived[i]>>) = 1
    BY <1>1
  <2> HIDE DEF rest, n
  <2> QED BY <1>1, <2>3, <2>4, ConcatProperties
<1>5. canonicalEvents(moved) = canonicalEvents(arrived)
  <2> HIDE DEF moved, n
  <2>1. ASSUME NEW k \in DOMAIN moved PROVE \E j \in DOMAIN arrived : moved[k] = arrived[j]
    <3>1. CASE k = 1
      BY <1>1, <1>4, <3>1
    <3>2. CASE k # 1
      <4>1. k \in 2 .. n /\ k - 1 \in 1 .. n /\ k \in 1 .. n
        BY <1>1, <1>4, <3>2
      <4> QED BY <1>1, <1>4, <4>1
    <3> QED BY <3>1, <3>2
  <2>2. ASSUME NEW j \in DOMAIN arrived PROVE \E k \in DOMAIN moved : moved[k] = arrived[j]
    <3>1. CASE j = i
      BY <1>1, <1>4, <3>1
    <3>2. CASE j < i
      <4>1. j + 1 \in 2 .. n /\ j + 1 <= i /\ (j + 1) - 1 = j
        BY <1>1, <3>2
      <4>2. moved[j + 1] = arrived[(j + 1) - 1]
        BY <1>4, <4>1
      <4> QED BY <1>1, <1>4, <4>1, <4>2
    <3>3. CASE j > i
      <4>1. j \in 2 .. n /\ ~(j <= i)
        BY <1>1, <3>3
      <4> QED BY <1>1, <1>4, <4>1
    <3> QED BY <1>1, <3>1, <3>2, <3>3
  <2> QED BY <2>1, <2>2 DEF canonicalEvents
<1> QED BY <1>3, <1>5, ProfileIsOfTheSet

\* Whatever arrives, before a case is declared and after: an accepted case is of
\* the events it was declared on, everything it names is in them, its window
\* lies between two of them, and order and repetition decide nothing
\* (validateCaseAgainstProfile over computeDatasetProfile).
THEOREM CaseFitsItsDatasetHolds == CaseSpec => []CaseFitsItsDataset
<1>1. CaseInv => CaseFitsItsDataset
  BY AcceptedFits, OrderIsNothing DEF CaseFitsItsDataset
<1> QED BY <1>1, CaseInvHolds, PTL

-----------------------------------------------------------------------------
(* The evidence of a sentence, over a store that changes.                  *)

\* A check whose first failure decides passes only if every check does.
LEMMA FirstOfNone ==
    ASSUME NEW n \in Nat, NEW r, DOMAIN r = 1 .. n, FirstOf(r) = "none"
    PROVE  \A i \in 1 .. n : r[i] = "none"
<1> DEFINE given == {i \in DOMAIN r : r[i] # "none"}
<1> SUFFICES ASSUME given # {} PROVE FALSE
  OBVIOUS
<1>1. given \in SUBSET Int
  OBVIOUS
<1>2. IsFiniteSet(given)
  <2>1. given \subseteq 1 .. n /\ IsFiniteSet(1 .. n)
    BY FS_Interval
  <2> QED BY <2>1, FS_Subset
<1>3. PICK x \in given : \A y \in given : x <= y
  <2> HIDE DEF given
  <2> QED BY <1>1, <1>2, FiniteHasLeast
<1>4. Min(given) \in given
  <2> HIDE DEF given
  <2> QED BY <1>3 DEF Min
<1>5. FirstOf(r) = r[Min(given)]
  BY DEF FirstOf
<1> QED BY <1>4, <1>5

\* Checks that all passed have no first failure.
LEMMA NoneFirst ==
    ASSUME NEW r, \A n \in DOMAIN r : r[n] = "none"
    PROVE  FirstOf(r) = "none"
BY DEF FirstOf

\* What the author saw, and the sentence that was written from it.
GradeInv ==
    /\ sourceRows \in [Coordinates -> [value : Values, timeOfDay : BOOLEAN]]
    /\ seen \in [Coordinates -> [value : Values, timeOfDay : BOOLEAN]]
    /\ declared.grade \in {"none", "QUOTED", "COMPUTED", "DIFFERS", "UNCONFIRMABLE"}
    /\ declared.grade \in {"COMPUTED", "DIFFERS"} =>
          \A c \in Coordinates : declared.sourceRows[c].rawRowHash = seen[c]

LEMMA GradeInvHolds == Spec => []GradeInv
<1>1. Init => GradeInv
  <2> SUFFICES ASSUME Init PROVE GradeInv
    OBVIOUS
  <2>1. /\ sourceRows \in [Coordinates -> [value : Values, timeOfDay : {FALSE}]]
        /\ seen = sourceRows /\ declared = [grade |-> "none"]
    BY DEF Init, NoSentence
  <2>2. sourceRows \in [Coordinates -> [value : Values, timeOfDay : BOOLEAN]]
    BY <2>1
  <2>3. declared.grade = "none"
    BY <2>1
  <2> QED BY <2>1, <2>2, <2>3 DEF GradeInv
<1>2. GradeInv /\ [Next]_vars => GradeInv'
  <2> SUFFICES ASSUME GradeInv, [Next]_vars PROVE GradeInv'
    OBVIOUS
  <2>1. CASE DeclareQuoted
    <3>1. PICK s : /\ Declare(s) /\ s.grade = "QUOTED"
      BY <2>1 DEF DeclareQuoted
    <3> QED BY <3>1 DEF GradeInv, Declare, World
  <2>2. CASE DeclareCalculated
    <3>1. PICK s : /\ Declare(s) /\ s.grade \in {"COMPUTED", "DIFFERS"}
                   /\ s.sourceRows = [c \in Coordinates |-> Reference(c)]
      BY <2>2 DEF DeclareCalculated
    <3>2. \A c \in Coordinates : s.sourceRows[c].rawRowHash = sourceRows[c]
      BY <3>1 DEF Reference
    <3> QED BY <3>1, <3>2 DEF GradeInv, Declare, World
  <2>3. CASE DeclareUnconfirmable
    <3> DEFINE s == [grade |-> "UNCONFIRMABLE", text |-> <<"no time of day">>,
                     approvedDatasetHash |-> canonicalDatasetForHash(sourceRows)]
    <3>1. Declare(s) /\ s.grade = "UNCONFIRMABLE"
      BY <2>3 DEF DeclareUnconfirmable
    <3> HIDE DEF s
    <3> QED BY <3>1 DEF GradeInv, Declare, World
  <2>4. ASSUME NEW c \in Coordinates, Correct(c) PROVE GradeInv'
    <3>1. PICK row \in [value : Values, timeOfDay : BOOLEAN] :
             sourceRows' = [sourceRows EXCEPT ![c] = row]
      BY <2>4 DEF Correct
    <3> QED BY <2>4, <3>1 DEF GradeInv, Correct, Change
  <2>5. ASSUME NEW c \in Coordinates, Ingest(c) PROVE GradeInv'
    BY <2>5 DEF GradeInv, Ingest, Change
  <2>6. CASE Register \/ Rot
    BY <2>6 DEF GradeInv, Register, Rot, Change
  <2>7. CASE UNCHANGED vars
    BY <2>7 DEF GradeInv, vars
  <2> QED BY <2>1, <2>2, <2>3, <2>4, <2>5, <2>6, <2>7 DEF Next
<1> QED BY <1>1, <1>2, PTL DEF Spec

\* A grade that is granted passed the contract and the verifier of its kind.
LEMMA GrantedPasses ==
    ASSUME NEW s, Granted(s)
    PROVE  /\ ContractAccepts(s)
           /\ s.grade = "QUOTED" => QuotedVerdict(s) = "none"
           /\ s.grade \in {"COMPUTED", "DIFFERS"} => CalculatedVerdict(s) = "none"
           /\ s.grade = "UNCONFIRMABLE" => UnconfirmableVerdict(s) = "none"
<1> DEFINE contract == Unless(ContractAccepts(s), "CONTRACT_INVALID")
           verdict == CASE s.grade = "QUOTED" -> QuotedVerdict(s)
                        [] s.grade \in {"COMPUTED", "DIFFERS"} -> CalculatedVerdict(s)
                        [] s.grade = "UNCONFIRMABLE" -> UnconfirmableVerdict(s)
                        [] OTHER -> "none"
<1>1. FirstOf(<<contract, verdict>>) = "none"
  BY DEF Granted, Verdict
<1>2. contract = "none" /\ verdict = "none"
  <2> HIDE DEF contract, verdict
  <2> DEFINE r == <<contract, verdict>>
  <2>1. DOMAIN r = 1 .. 2 /\ r[1] = contract /\ r[2] = verdict
    OBVIOUS
  <2>2. \A i \in 1 .. 2 : r[i] = "none"
    <3>1. FirstOf(r) = "none"
      BY <1>1
    <3> HIDE DEF r
    <3> QED BY <2>1, <3>1, FirstOfNone
  <2> QED BY <2>1, <2>2
<1>3. ContractAccepts(s)
  BY <1>2 DEF Unless
<1>4. s.grade = "QUOTED" => QuotedVerdict(s) = "none"
  BY <1>2
<1>5. s.grade \in {"COMPUTED", "DIFFERS"} => CalculatedVerdict(s) = "none"
  BY <1>2
<1>6. s.grade = "UNCONFIRMABLE" => UnconfirmableVerdict(s) = "none"
  BY <1>2
<1> QED BY <1>3, <1>4, <1>5, <1>6

\* A quotation passes over the bytes that were collected.
LEMMA QuotedPasses ==
    ASSUME NEW s, QuotedVerdict(s) = "none"
    PROVE  s.text = SubSeq(Bytes, s.start + 1, s.end)
<1> DEFINE a == Unless(s.sourceArtifactHash = Bytes, "SOURCE_ARTIFACT_NOT_REGISTERED")
           b == Unless(artifact = s.sourceArtifactHash, "SOURCE_ARTIFACT_HASH_MISMATCH")
           c == Unless(s.end <= Len(artifact), "SOURCE_SPAN_OUT_OF_BOUNDS")
           d == Unless(s.text = SubSeq(artifact, s.start + 1, s.end),
                             "SOURCE_SPAN_TEXT_MISMATCH")
           r == <<a, b, c, d>>
<1>1. FirstOf(r) = "none"
  BY DEF QuotedVerdict
<1>2. a = "none" /\ b = "none" /\ d = "none"
  <2> HIDE DEF a, b, c, d
  <2>1. DOMAIN r = 1 .. 4 /\ r[1] = a /\ r[2] = b /\ r[4] = d
    OBVIOUS
  <2>2. \A i \in 1 .. 4 : r[i] = "none"
    <3> HIDE DEF r
    <3> QED BY <1>1, <2>1, FirstOfNone
  <2> QED BY <2>1, <2>2
<1> QED BY <1>2, Zenon DEF Unless

\* A number passes over the rows it was written from, and is theirs.
LEMMA CalculatedPasses ==
    ASSUME NEW s, CalculatedVerdict(s) = "none"
    PROVE  /\ RowsMatch(s)
           /\ s.computedValue = Calculate(s.calculationVersion,
                                                RowValues(sourceRows))
           /\ s.grade = "DIFFERS" => s.reportedValue = ReportedValue(sourceRows)
<1> DEFINE a == Unless(s.calculationVersion \in versions,
                             "CALCULATION_VERSION_MISMATCH")
           b == Unless(RowsMatch(s), "SOURCE_ROWS_MISMATCH")
           c == Unless(s.computedValue = Calculate(s.calculationVersion,
                                                  RowValues(sourceRows)),
                             "COMPUTED_VALUE_MISMATCH")
           d == Unless(s.grade = "DIFFERS"
                                => s.reportedValue = ReportedValue(sourceRows),
                             "REPORTED_VALUE_MISMATCH")
           e == Unless(s.displayTemplateId \in Templates,
                             "DISPLAY_TEMPLATE_NOT_REGISTERED")
           f == Unless(/\ s.displayedValueAt = 2
                             /\ s.text = Display(s.displayTemplateId, s.grade,
                                                 s.reportedValue, s.computedValue),
                             "DISPLAY_TEMPLATE_MISMATCH")
           r == <<a, b, c, d, e, f>>
<1>1. FirstOf(r) = "none"
  BY DEF CalculatedVerdict
<1>2. b = "none" /\ c = "none" /\ d = "none"
  <2> HIDE DEF a, b, c, d, e, f
  <2>1. DOMAIN r = 1 .. 6 /\ r[2] = b /\ r[3] = c /\ r[4] = d
    OBVIOUS
  <2>2. \A i \in 1 .. 6 : r[i] = "none"
    <3> HIDE DEF r
    <3> QED BY <1>1, <2>1, FirstOfNone
  <2> QED BY <2>1, <2>2
<1> QED BY <1>2, Zenon DEF Unless

\* Evidence passes as missing only where it is.
LEMMA UnconfirmablePasses ==
    ASSUME NEW s, UnconfirmableVerdict(s) = "none"
    PROVE  \A c \in Coordinates : ~sourceRows[c].timeOfDay
<1> DEFINE dataset == canonicalDatasetForHash(sourceRows)
           a == Unless(s.approvedDatasetHash = dataset,
                             "MISSING_EVIDENCE_CHECK_MISMATCH")
           b == Unless(isMissing(dataset), "EVIDENCE_AVAILABLE")
           c == Unless(s.text = <<"no time of day">>, "DISPLAY_TEMPLATE_MISMATCH")
           r == <<a, b, c>>
<1>1. FirstOf(r) = "none"
  BY DEF UnconfirmableVerdict
<1>2. b = "none"
  <2> HIDE DEF a, b, c
  <2>1. DOMAIN r = 1 .. 3 /\ r[2] = b
    OBVIOUS
  <2>2. \A i \in 1 .. 3 : r[i] = "none"
    <3> HIDE DEF r
    <3> QED BY <1>1, <2>1, FirstOfNone
  <2> QED BY <2>1, <2>2
<1>3. isMissing(dataset)
  <2> HIDE DEF dataset
  <2> QED BY <1>2, Zenon DEF Unless
<1> QED BY <1>3 DEF isMissing, canonicalDatasetForHash

\* Whatever is corrected, ingested again, registered or rots between the writing
\* of a sentence and its verification: a quotation is of the bytes collected, a
\* number follows from the rows the author saw, which are the rows as they are
\* and those the events were built from, and what is called missing is missing
\* (verifyQuotedEvidence, verifyCalculatedEvidence, verifyUnconfirmableEvidence).
THEOREM GradeIsEarnedHolds == Spec => []GradeIsEarned
<1>1. GradeInv => GradeIsEarned
  <2> SUFFICES ASSUME GradeInv PROVE GradeIsEarned
    OBVIOUS
  <2>1. QuotedIsQuoted
    BY GrantedPasses, QuotedPasses DEF QuotedIsQuoted
  <2>2. NumberFollows
    <3> SUFFICES ASSUME declared.grade \in {"COMPUTED", "DIFFERS"}, Granted(declared)
                 PROVE  NumberFollows
      BY DEF NumberFollows
    <3> DEFINE recalculated == Calculate(declared.calculationVersion,
                                               RowValues(sourceRows))
    <3>1. /\ declared.text[declared.displayedValueAt] = declared.reportedValue
          /\ (declared.grade = "COMPUTED") = (declared.reportedValue = declared.computedValue)
      BY GrantedPasses DEF ContractAccepts, CalculatedAccepted
    <3>2. /\ RowsMatch(declared)
          /\ declared.computedValue = recalculated
          /\ declared.grade = "DIFFERS"
                => declared.reportedValue = ReportedValue(sourceRows)
      BY GrantedPasses, CalculatedPasses
    <3>3. \A c \in Coordinates : /\ sourceRows[c] = seen[c]
                                 /\ ingested[c].rawRowHash = sourceRows[c]
      BY <3>2 DEF RowsMatch, RowMatches, GradeInv
    <3>4. sourceRows = seen
      BY <3>3 DEF GradeInv
    <3> HIDE DEF recalculated
    <3> QED BY <3>1, <3>2, <3>3, <3>4 DEF NumberFollows, recalculated
  <2>3. MissingIsMissing
    BY GrantedPasses, UnconfirmablePasses DEF MissingIsMissing
  <2> QED BY <2>1, <2>2, <2>3 DEF GradeIsEarned
<1> QED BY <1>1, GradeInvHolds, PTL

-----------------------------------------------------------------------------
(* The baselines, authored from labels that were added one by one.         *)

\* Labels stay finitely many, and every label and column has a known name.
BaseInv ==
    /\ IsFiniteSet(dev)
    /\ \A l \in dev : l[1] \in DOMAIN Names
    /\ named \in Seq([name : DOMAIN Names, samples : Samples])

LEMMA BaseInvHolds == BaselineSpec => []BaseInv
<1>1. BaselineInit => BaseInv
  BY BaselineAssumption DEF BaselineInit, BaseInv
<1>2. BaseInv /\ [BaselineNext]_baselineVars => BaseInv'
  <2> SUFFICES ASSUME BaseInv, [BaselineNext]_baselineVars PROVE BaseInv'
    OBVIOUS
  <2>1. CASE Label
    <3>1. PICK name \in DOMAIN Names, label \in Labels : dev' = dev \cup {<<name, label>>}
      BY <2>1 DEF Label
    <3>2. IsFiniteSet(dev')
      BY <3>1, FS_AddElement DEF BaseInv
    <3> QED BY <2>1, <3>1, <3>2 DEF Label, BaseInv
  <2>2. CASE AddColumn
    <3>1. PICK name \in DOMAIN Names, samples \in Samples :
             named' = Append(named, [name |-> name, samples |-> samples])
      BY <2>2 DEF AddColumn
    <3>2. named' \in Seq([name : DOMAIN Names, samples : Samples])
      BY <3>1, AppendProperties DEF BaseInv
    <3> QED BY <2>2, <3>2 DEF AddColumn, BaseInv
  <2>3. CASE UNCHANGED baselineVars
    BY <2>3 DEF baselineVars, BaseInv
  <2> QED BY <2>1, <2>2, <2>3 DEF BaselineNext
<1> QED BY <1>1, <1>2, PTL DEF BaselineSpec

LEMMA ColumnIsNamed ==
    ASSUME BaseInv, NEW n \in DOMAIN named
    PROVE  named[n].name \in DOMAIN Names
<1> DEFINE Columns == [name : DOMAIN Names, samples : Samples]
<1>1. named[n] \in Columns
  <2>1. named \in Seq(Columns) /\ n \in 1 .. Len(named)
    BY DEF BaseInv
  <2> HIDE DEF Columns
  <2> QED BY <2>1
<1> QED BY <1>1

\* What a function takes of a finite set is finite.
LEMMA ImageFinite ==
    ASSUME NEW S, IsFiniteSet(S), NEW f, DOMAIN f = S
    PROVE  IsFiniteSet(Range(f))
<1>1. [x \in S |-> f[x]] \in Surjection(S, Range(f))
  BY Fun_IsSurj DEF Range
<1> QED BY <1>1, FS_Surjection

LEMMA DecisionsFinite ==
    ASSUME BaseInv, NEW key
    PROVE  /\ IsFiniteSet(Decisions(key, lexicalKey))
           /\ IsFiniteSet(StrongDecisions(key))
<1> DEFINE D == {x \in dev : lexicalKey(x[1]) = key}
           E == {x \in dev : strongNameKey(x[1]) = key}
           f == [l \in D |-> l[2]]
           g == [l \in E |-> Answer(l[2])]
<1>1. IsFiniteSet(D) /\ IsFiniteSet(E)
  BY FS_Subset DEF BaseInv
<1>2. Decisions(key, lexicalKey) = Range(f)
  BY DEF Decisions, Range
<1>3. StrongDecisions(key) = Range(g)
  BY DEF StrongDecisions, Decisions, Range
<1>4. DOMAIN f = D /\ DOMAIN g = E
  OBVIOUS
<1> HIDE DEF D, E, f, g
<1> QED BY <1>1, <1>2, <1>3, <1>4, ImageFinite

\* What a column is offered is the one answer there is for it, and fits.
LEMMA OfferIsTheAnswer ==
    ASSUME NEW column, NEW answers, IsFiniteSet(answers),
           Offer(column, answers) # None
    PROVE  /\ answers = {Offer(column, answers)}
           /\ EverySampleFits(column, Offer(column, answers))
<1>1. /\ Cardinality(answers) = 1
      /\ \A a \in answers : EverySampleFits(column, a)
      /\ Offer(column, answers) = CHOOSE a \in answers : TRUE
  <2> DEFINE only == /\ Cardinality(answers) = 1
                     /\ \A a \in answers : EverySampleFits(column, a)
             chosen == CHOOSE a \in answers : TRUE
  <2>1. Offer(column, answers) = IF only THEN chosen ELSE None
    BY DEF Offer
  <2>2. only /\ Offer(column, answers) = chosen
    <3> HIDE DEF only, chosen
    <3> QED BY <2>1
  <2> QED BY <2>2
<1>2. PICK a : answers = {a}
  BY <1>1, FS_Singleton
<1> QED BY <1>1, <1>2

\* A key in the vocabulary always meant its answer.
LEMMA LexicalMeaning ==
    ASSUME BaseInv, NEW name
    PROVE  /\ IsFiniteSet(LexicalAnswers(name, buildLexicalVocabulary))
           /\ \A a : LexicalAnswers(name, buildLexicalVocabulary) = {a} =>
                 /\ lexicalKey(name) # None
                 /\ \E l \in dev : lexicalKey(l[1]) = lexicalKey(name)
                 /\ \A l \in dev : lexicalKey(l[1]) = lexicalKey(name) => l[2] = a
<1> DEFINE key == lexicalKey(name)
           v == buildLexicalVocabulary
           d == Decisions(key, lexicalKey)
<1>1. \/ LexicalAnswers(name, v) = {}
      \/ key \in DOMAIN v /\ LexicalAnswers(name, v) = {v[key]}
  BY DEF LexicalAnswers
<1>2. IsFiniteSet(LexicalAnswers(name, v))
  BY <1>1, FS_EmptySet, FS_Singleton
<1>3. ASSUME NEW a, LexicalAnswers(name, v) = {a}
      PROVE  /\ key # None
             /\ \E l \in dev : lexicalKey(l[1]) = key
             /\ \A l \in dev : lexicalKey(l[1]) = key => l[2] = a
  <2>1. key \in DOMAIN v /\ a = v[key]
    BY <1>1, <1>3
  <2>2. /\ key \in Keys(lexicalKey)
        /\ Cardinality(d) = 1
        /\ v[key] = CHOOSE answer \in d : TRUE
    <3> DEFINE Of(k) == Decisions(k, lexicalKey)
               sure == {k \in Keys(lexicalKey) :
                           Cardinality(Of(k)) = 1 /\ None \notin Of(k)}
               w == [k \in sure |-> CHOOSE answer \in Of(k) : TRUE]
    <3>1. v = w
      BY DEF buildLexicalVocabulary
    <3>2. key \in sure
      <4> HIDE DEF sure, v, key
      <4> QED BY <2>1, <3>1
    <3>3. w[key] = CHOOSE answer \in Of(key) : TRUE
      <4> HIDE DEF sure, key
      <4> QED BY <3>2
    <3>4. key \in Keys(lexicalKey) /\ Cardinality(Of(key)) = 1
      <4> HIDE DEF key, Of
      <4> QED BY <3>2
    <3>5. Of(key) = d
      OBVIOUS
    <3> HIDE DEF w, Of, d, v, key
    <3> QED BY <3>1, <3>3, <3>4, <3>5
  <2>3. PICK x : d = {x}
    BY <2>2, DecisionsFinite, FS_Singleton
  <2>4. a = x
    BY <2>1, <2>2, <2>3
  <2>5. \A l \in dev : lexicalKey(l[1]) = key => l[2] \in d
    BY DEF Decisions
  <2>6. key # None /\ \E l \in dev : lexicalKey(l[1]) = key
    BY <2>2 DEF Keys
  <2> HIDE DEF d, v, key
  <2> QED BY <2>3, <2>4, <2>5, <2>6
<1> QED BY <1>2, <1>3

\* The second baseline contradicts no label, and answers a name DEV did not hold
\* from a rule.
LEMMA StrongMeaning ==
    ASSUME BaseInv, NEW name, buildStrongBaselineConfig # None
    PROVE  /\ IsFiniteSet(StrongAnswers(name, buildStrongBaselineConfig))
           /\ \A a : StrongAnswers(name, buildStrongBaselineConfig) = {a} =>
                 /\ strongNameKey(name) # None
                 /\ \A l \in dev :
                       strongNameKey(l[1]) = strongNameKey(name) => l[2] = a
                 /\ \/ \E l \in dev : strongNameKey(l[1]) = strongNameKey(name)
                    \/ \E r \in RuleTemplates :
                          r.answer = a /\ Fills(r, strongNameTokens(name))
<1> DEFINE key == strongNameKey(name)
           config == buildStrongBaselineConfig
           keys == Keys(strongNameKey)
           entry == {config.entries[k] : k \in {key} \cap DOMAIN config.entries}
           fits == {t \in RuleTemplates : Fills(t, strongNameTokens(name))}
           ruled == {r.answer : r \in fits}
           d == StrongDecisions(key)
<1>1. /\ config.blocked = Blocked
      /\ DOMAIN config.entries = keys \ Blocked
      /\ \A k \in keys \ Blocked :
            config.entries[k] = CHOOSE a \in StrongDecisions(k) : TRUE
  <2> DEFINE entries == [k \in keys \ Blocked |->
                            CHOOSE a \in StrongDecisions(k) : TRUE]
  <2>1. config = [entries |-> entries, blocked |-> Blocked]
    BY DEF buildStrongBaselineConfig
  <2>2. config.entries = entries /\ config.blocked = Blocked
    <3> HIDE DEF entries, config
    <3> QED BY <2>1
  <2> QED BY <2>2
<1>2. IF key = None \/ key \in Blocked THEN StrongAnswers(name, config) = {}
      ELSE StrongAnswers(name, config) = entry \cup ruled
  BY <1>1 DEF StrongAnswers
<1>3. entry = {} \/ entry = {config.entries[key]}
  OBVIOUS
<1>4. IsFiniteSet(entry)
  <2>1. CASE entry = {}
    BY <2>1, FS_EmptySet, Zenon
  <2>2. CASE entry = {config.entries[key]}
    <3> DEFINE x == config.entries[key]
    <3> HIDE DEF x, entry
    <3>1. entry = {x}
      BY <2>2 DEF x
    <3> QED BY <3>1, FS_Singleton
  <2> QED BY <1>3, <2>1, <2>2
<1>5. IsFiniteSet(ruled)
  <2> DEFINE f == [r \in fits |-> r.answer]
  <2>1. IsFiniteSet(fits)
    BY FS_Subset, BaselineAssumption
  <2>2. ruled = Range(f) /\ DOMAIN f = fits
    BY DEF Range
  <2> HIDE DEF fits, f, ruled
  <2> QED BY <2>1, <2>2, ImageFinite
<1>6. IsFiniteSet(StrongAnswers(name, config))
  <2> HIDE DEF entry, ruled, config, key
  <2> QED BY <1>2, <1>4, <1>5, FS_EmptySet, FS_Union
<1>7. ASSUME NEW a, StrongAnswers(name, config) = {a}
      PROVE  /\ key # None
             /\ \A l \in dev : strongNameKey(l[1]) = key => l[2] = a
             /\ \/ \E l \in dev : strongNameKey(l[1]) = key
                \/ \E r \in RuleTemplates :
                      r.answer = a /\ Fills(r, strongNameTokens(name))
  <2>1. /\ key # None /\ key \notin Blocked /\ entry \cup ruled = {a}
    <3> HIDE DEF entry, ruled, config, key
    <3> QED BY <1>2, <1>7
  <2>2. ASSUME NEW l \in dev, strongNameKey(l[1]) = key PROVE l[2] = a
    <3>1. key \in keys
      BY <2>1, <2>2 DEF Keys
    <3>2. Cardinality(d) = 1 /\ None \notin d
      <4>1. Blocked = {k \in keys : \/ Cardinality(StrongDecisions(k)) # 1
                                         \/ None \in StrongDecisions(k)}
        BY DEF Blocked
      <4> HIDE DEF keys, key
      <4> QED BY <2>1, <3>1, <4>1 DEF d
    <3>3. PICK x : d = {x}
      BY <3>2, DecisionsFinite, FS_Singleton
    <3>4. config.entries[key] \in entry /\ config.entries[key] = x
      <4> HIDE DEF config, d, key
      <4> QED BY <1>1, <2>1, <3>1, <3>3 DEF d
    <3>5. a = x
      <4> HIDE DEF entry, ruled, config, key
      <4> QED BY <2>1, <3>4
    <3>6. Answer(l[2]) \in d
      BY <2>2 DEF StrongDecisions, Decisions
    <3>7. Answer(l[2]) = x /\ x # None
      <4> HIDE DEF d
      <4> QED BY <3>2, <3>3, <3>6
    <3> QED BY <3>5, <3>7 DEF Answer
  <2>3. CASE \E l \in dev : strongNameKey(l[1]) = key
    BY <2>1, <2>2, <2>3
  <2>4. CASE ~\E l \in dev : strongNameKey(l[1]) = key
    <3>1. key \notin keys
      BY <2>4 DEF Keys
    <3>2. entry = {}
      <4> HIDE DEF config, key, keys
      <4> QED BY <1>1, <3>1
    <3>3. a \in ruled
      <4> HIDE DEF entry, ruled
      <4> QED BY <2>1, <3>2
    <3> QED BY <2>1, <2>2, <3>3
  <2> QED BY <2>3, <2>4
<1> QED BY <1>6, <1>7

\* An answer that stands was offered, and no other has its target.
LEMMA UncontestedStands ==
    ASSUME NEW o
    PROVE  LET F == Uncontested(o)
           IN  /\ DOMAIN F = DOMAIN o
               /\ \A n \in DOMAIN o : F[n] # None =>
                     /\ F[n] = o[n]
                     /\ \A k \in DOMAIN o \ {n} : F[k] # None => F[k][1] # F[n][1]
<1> DEFINE F == Uncontested(o)
           Contested(n) == /\ o[n] # None
                           /\ \E k \in DOMAIN o \ {n} : o[k] # None /\ o[k][1] = o[n][1]
<1>1. F = [n \in DOMAIN o |-> IF Contested(n) THEN None ELSE o[n]]
  BY DEF Uncontested
<1>2. ASSUME NEW n \in DOMAIN o, F[n] # None PROVE ~Contested(n) /\ F[n] = o[n]
  <2> HIDE DEF F, Contested
  <2> QED BY <1>1, <1>2
<1>3. ASSUME NEW n \in DOMAIN o, F[n] # None, NEW k \in DOMAIN o \ {n}, F[k] # None
      PROVE  F[k][1] # F[n][1]
  <2>1. F[n] = o[n] /\ F[k] = o[k] /\ ~Contested(n)
    <3> HIDE DEF F, Contested
    <3> QED BY <1>2, <1>3
  <2> HIDE DEF F
  <2> QED BY <1>3, <2>1
<1>4. DOMAIN F = DOMAIN o
  <2> HIDE DEF F, Contested
  <2> QED BY <1>1
<1> QED BY <1>2, <1>3, <1>4

\* Answers over the columns turned round are the answers turned round.
LEMMA UncontestedTurned ==
    ASSUME NEW n \in Nat, NEW a, NEW b, DOMAIN a = 1 .. n, DOMAIN b = 1 .. n,
           \A i \in 1 .. n : b[i] = a[(n - i) + 1]
    PROVE  Uncontested(b) = Reverse(Uncontested(a))
<1> DEFINE Contested(o, m) == /\ o[m] # None
                              /\ \E k \in DOMAIN o \ {m} : o[k] # None /\ o[k][1] = o[m][1]
           F == [m \in 1 .. n |-> IF Contested(a, m) THEN None ELSE a[m]]
           G == [m \in 1 .. n |-> IF Contested(b, m) THEN None ELSE b[m]]
           turn(i) == (n - i) + 1
<1>1. Uncontested(a) = F /\ Uncontested(b) = G
  BY DEF Uncontested
<1>2. \A i \in 1 .. n : turn(i) \in 1 .. n /\ turn(turn(i)) = i
  OBVIOUS
<1>3. ASSUME NEW i \in 1 .. n PROVE Contested(b, i) <=> Contested(a, turn(i))
  <2>1. ASSUME Contested(b, i) PROVE Contested(a, turn(i))
    <3>1. PICK k \in 1 .. n : k # i /\ b[k] # None /\ b[k][1] = b[i][1]
      BY <2>1
    <3>2. turn(k) \in 1 .. n /\ turn(k) # turn(i)
      BY <3>1
    <3>3. a[turn(k)] = b[k] /\ a[turn(i)] = b[i]
      OBVIOUS
    <3> HIDE DEF turn
    <3> QED BY <2>1, <3>1, <3>2, <3>3
  <2>2. ASSUME Contested(a, turn(i)) PROVE Contested(b, i)
    <3>1. PICK k \in 1 .. n : k # turn(i) /\ a[k] # None /\ a[k][1] = a[turn(i)][1]
      BY <2>2
    <3>2. turn(k) \in 1 .. n /\ turn(k) # i
      BY <3>1
    <3>3. b[turn(k)] = a[k] /\ a[turn(i)] = b[i]
      <4>1. b[turn(k)] = a[turn(turn(k))]
        BY <3>2
      <4> QED BY <1>2, <4>1
    <3> HIDE DEF turn
    <3> QED BY <2>2, <3>1, <3>2, <3>3
  <2> QED BY <2>1, <2>2
<1>4. \A i \in 1 .. n : G[i] = F[turn(i)]
  <2> SUFFICES ASSUME NEW i \in 1 .. n PROVE G[i] = F[turn(i)]
    OBVIOUS
  <2>1. b[i] = a[turn(i)] /\ turn(i) \in 1 .. n
    OBVIOUS
  <2> HIDE DEF turn, Contested
  <2> QED BY <1>3, <2>1
<1>5. F \in Seq(Range(F)) /\ Len(F) = n
  <2>1. DOMAIN F = 1 .. n /\ \A i \in 1 .. n : F[i] \in Range(F)
    BY DEF Range
  <2>2. F = [i \in 1 .. n |-> F[i]]
    OBVIOUS
  <2> HIDE DEF F
  <2> QED BY <2>1, <2>2
<1>6. Reverse(F) = [i \in 1 .. n |-> F[turn(i)]]
  <2> HIDE DEF F
  <2> QED BY <1>5 DEF Reverse
<1>7. G = [i \in 1 .. n |-> F[turn(i)]]
  <2>1. G = [i \in 1 .. n |-> G[i]]
    OBVIOUS
  <2> HIDE DEF F, G, turn
  <2> QED BY <1>4, <2>1
<1> HIDE DEF F, G
<1> QED BY <1>1, <1>6, <1>7

\* A record that counts has a column for each required target, and one only.
LEMMA ValidRecordCovers ==
    ASSUME NEW o
    PROVE  ValidCovers(Uncontested(o))
<1> DEFINE F == Uncontested(o)
<1> SUFFICES ASSUME Outcome(F) = "VALID", NEW t \in Required
             PROVE  Cardinality({n \in DOMAIN F : F[n] # None /\ F[n][1] = t}) = 1
  BY DEF ValidCovers
<1>1. PICK n \in DOMAIN F : F[n] # None /\ F[n][1] = t
  <2> HIDE DEF F
  <2>1. Required \subseteq {f[1] : f \in Range(F) \ {None}}
    BY DEF Outcome
  <2> QED BY <2>1 DEF Range
<1>2. {m \in DOMAIN F : F[m] # None /\ F[m][1] = t} = {n}
  <2>1. \A m \in DOMAIN F \ {n} : F[m] # None => F[m][1] # F[n][1]
    BY <1>1, UncontestedStands
  <2> HIDE DEF F
  <2> QED BY <1>1, <2>1
<1> QED BY <1>2, FS_Singleton

\* The offers a list of columns gets from either baseline.
LexicalOffers(columns) ==
    [n \in DOMAIN columns |->
        Offer(columns[n],
                   LexicalAnswers(columns[n].name, buildLexicalVocabulary))]

StrongOffers(columns) ==
    [n \in DOMAIN columns |->
        Offer(columns[n],
                   StrongAnswers(columns[n].name, buildStrongBaselineConfig))]

LEMMA ColumnsTurned ==
    ASSUME BaseInv
    PROVE  /\ Uncontested(LexicalOffers(Reverse(named)))
                 = Reverse(Uncontested(LexicalOffers(named)))
           /\ Uncontested(StrongOffers(Reverse(named)))
                 = Reverse(Uncontested(StrongOffers(named)))
<1> DEFINE n == Len(named)
           r == Reverse(named)
<1>1. n \in Nat /\ DOMAIN named = 1 .. n
  BY DEF BaseInv
<1>2. r = [i \in 1 .. n |-> named[(n - i) + 1]]
  BY DEF Reverse
<1>3. /\ DOMAIN r = 1 .. n
      /\ \A i \in 1 .. n : (n - i) + 1 \in 1 .. n /\ r[i] = named[(n - i) + 1]
  <2> HIDE DEF r, n
  <2> QED BY <1>1, <1>2
<1>4. /\ DOMAIN LexicalOffers(named) = 1 .. n /\ DOMAIN LexicalOffers(r) = 1 .. n
      /\ \A i \in 1 .. n : LexicalOffers(r)[i] = LexicalOffers(named)[(n - i) + 1]
  <2> HIDE DEF r, n
  <2> QED BY <1>1, <1>3 DEF LexicalOffers
<1>5. /\ DOMAIN StrongOffers(named) = 1 .. n /\ DOMAIN StrongOffers(r) = 1 .. n
      /\ \A i \in 1 .. n : StrongOffers(r)[i] = StrongOffers(named)[(n - i) + 1]
  <2> HIDE DEF r, n
  <2> QED BY <1>1, <1>3 DEF StrongOffers
<1> HIDE DEF r, n
<1>6. Uncontested(LexicalOffers(r)) = Reverse(Uncontested(LexicalOffers(named)))
  BY <1>1, <1>4, UncontestedTurned
<1>7. Uncontested(StrongOffers(r)) = Reverse(Uncontested(StrongOffers(named)))
  BY <1>1, <1>5, UncontestedTurned
<1> QED BY <1>6, <1>7 DEF r

\* What a column was answered, and why.
LEMMA LexicalStands ==
    ASSUME BaseInv, NEW n \in DOMAIN named,
           Uncontested(LexicalOffers(named))[n] # None
    PROVE  LET F == Uncontested(LexicalOffers(named))
               key == lexicalKey(named[n].name)
           IN  /\ key # None
               /\ \E l \in dev : lexicalKey(l[1]) = key
               /\ \A l \in dev : lexicalKey(l[1]) = key => l[2] = F[n]
               /\ EverySampleFits(named[n], F[n])
<1> DEFINE F == Uncontested(LexicalOffers(named))
           answers == LexicalAnswers(named[n].name, buildLexicalVocabulary)
<1>1. DOMAIN LexicalOffers(named) = DOMAIN named
  BY DEF LexicalOffers
<1>2. F[n] = LexicalOffers(named)[n]
  BY <1>1, UncontestedStands
<1>3. F[n] = Offer(named[n], answers)
  BY <1>2 DEF LexicalOffers
<1>4. IsFiniteSet(answers)
  BY LexicalMeaning
<1>5. answers = {F[n]} /\ EverySampleFits(named[n], F[n])
  <2> HIDE DEF F, answers
  <2>1. Offer(named[n], answers) # None
    BY <1>3 DEF F
  <2> QED BY <1>3, <1>4, <2>1, OfferIsTheAnswer
<1> HIDE DEF F
<1> QED BY <1>5, LexicalMeaning DEF F

LEMMA StrongStands ==
    ASSUME BaseInv, buildStrongBaselineConfig # None,
           NEW n \in DOMAIN named, Uncontested(StrongOffers(named))[n] # None
    PROVE  LET F == Uncontested(StrongOffers(named))
               key == strongNameKey(named[n].name)
           IN  /\ key # None
               /\ \A l \in dev : strongNameKey(l[1]) = key => l[2] = F[n]
               /\ EverySampleFits(named[n], F[n])
               /\ \/ \E l \in dev : strongNameKey(l[1]) = key
                  \/ \E r \in RuleTemplates :
                        r.answer = F[n] /\ Fills(r, strongNameTokens(named[n].name))
<1> DEFINE F == Uncontested(StrongOffers(named))
           answers == StrongAnswers(named[n].name, buildStrongBaselineConfig)
<1>1. DOMAIN StrongOffers(named) = DOMAIN named
  BY DEF StrongOffers
<1>2. F[n] = StrongOffers(named)[n]
  BY <1>1, UncontestedStands
<1>3. F[n] = Offer(named[n], answers)
  BY <1>2 DEF StrongOffers
<1>4. IsFiniteSet(answers)
  BY StrongMeaning
<1>5. answers = {F[n]} /\ EverySampleFits(named[n], F[n])
  <2> HIDE DEF F, answers
  <2>1. Offer(named[n], answers) # None
    BY <1>3 DEF F
  <2> QED BY <1>3, <1>4, <2>1, OfferIsTheAnswer
<1> HIDE DEF F
<1> QED BY <1>5, StrongMeaning DEF F

LEMMA LexicalNotGuessed ==
    ASSUME BaseInv
    PROVE  NothingIsGuessed(Uncontested(LexicalOffers(named)), lexicalKey)
<1> DEFINE F == Uncontested(LexicalOffers(named))
<1> SUFFICES ASSUME NEW n \in DOMAIN F, F[n] # None
             PROVE  /\ lexicalKey(named[n].name) # None
                    /\ \A l \in dev : lexicalKey(l[1]) = lexicalKey(named[n].name)
                          => l[2] = F[n]
                    /\ EverySampleFits(named[n], F[n])
                    /\ \A k \in DOMAIN F \ {n} : F[k] # None => F[k][1] # F[n][1]
  BY DEF NothingIsGuessed
<1>1. DOMAIN F = DOMAIN LexicalOffers(named) /\ DOMAIN F = DOMAIN named
  BY UncontestedStands DEF LexicalOffers
<1>2. \A k \in DOMAIN F \ {n} : F[k] # None => F[k][1] # F[n][1]
  <2> DEFINE o == LexicalOffers(named)
  <2> HIDE DEF o
  <2> QED BY <1>1, UncontestedStands DEF o
<1>3. n \in DOMAIN named
  BY <1>1
<1> QED BY <1>2, <1>3, LexicalStands

LEMMA StrongNotGuessed ==
    ASSUME BaseInv, buildStrongBaselineConfig # None
    PROVE  NothingIsGuessed(Uncontested(StrongOffers(named)), strongNameKey)
<1> DEFINE F == Uncontested(StrongOffers(named))
<1> SUFFICES ASSUME NEW n \in DOMAIN F, F[n] # None
             PROVE  /\ strongNameKey(named[n].name) # None
                    /\ \A l \in dev :
                          strongNameKey(l[1]) = strongNameKey(named[n].name)
                             => l[2] = F[n]
                    /\ EverySampleFits(named[n], F[n])
                    /\ \A k \in DOMAIN F \ {n} : F[k] # None => F[k][1] # F[n][1]
  BY DEF NothingIsGuessed
<1>1. DOMAIN F = DOMAIN StrongOffers(named) /\ DOMAIN F = DOMAIN named
  BY UncontestedStands DEF StrongOffers
<1>2. \A k \in DOMAIN F \ {n} : F[k] # None => F[k][1] # F[n][1]
  <2> DEFINE o == StrongOffers(named)
  <2> HIDE DEF o
  <2> QED BY <1>1, UncontestedStands DEF o
<1>3. n \in DOMAIN named
  BY <1>1
<1> QED BY <1>2, <1>3, StrongStands

\* A rule that answers has, for each token of the name, a label of DEV with that
\* token at that place and with that meaning.
LEMMA WitnessedAnswers ==
    ASSUME BaseInv, buildStrongBaselineConfig # None
    PROVE  RulesHaveWitnesses(Uncontested(StrongOffers(named)))
<1> DEFINE F == Uncontested(StrongOffers(named))
<1> SUFFICES ASSUME NEW n \in DOMAIN named, F[n] # None,
                    ~\E l \in dev :
                        strongNameKey(l[1]) = strongNameKey(named[n].name),
                    NEW i \in DOMAIN strongNameTokens(named[n].name)
             PROVE  \E l \in dev :
                       /\ l[2] = F[n]
                       /\ strongNameTokens(l[1]) # None
                       /\ strongNameTokens(l[1])[i]
                             = strongNameTokens(named[n].name)[i]
  BY DEF RulesHaveWitnesses
<1> DEFINE tokens == strongNameTokens(named[n].name)
<1>1. PICK r \in RuleTemplates : r.answer = F[n] /\ Fills(r, tokens)
  BY StrongStands
<1>2. Witnessed(r)
  BY DEF buildStrongBaselineConfig
<1>3. i \in DOMAIN r.slots /\ tokens[i] \in r.slots[i]
  <2>1. /\ tokens # None /\ Len(tokens) = Len(r.slots)
        /\ \A m \in DOMAIN tokens : tokens[m] \in r.slots[m]
    BY <1>1 DEF Fills
  <2>2. named[n].name \in DOMAIN Names
    BY ColumnIsNamed
  <2>3. DOMAIN tokens = 1 .. Len(tokens)
    BY <2>1, <2>2, BaselineAssumption DEF strongNameTokens
  <2>4. DOMAIN r.slots = 1 .. Len(r.slots)
    BY BaselineAssumption
  <2> HIDE DEF tokens
  <2>5. i \in DOMAIN tokens
    BY DEF tokens
  <2> QED BY <2>1, <2>3, <2>4, <2>5
<1>4. PICK w \in Witnesses(r) : strongNameTokens(w)[i] = tokens[i]
  <2> HIDE DEF tokens
  <2> QED BY <1>2, <1>3 DEF Witnessed
<1>5. PICK l \in dev : /\ w = l[1]
                       /\ Answer(l[2]) = r.answer
                       /\ Fills(r, strongNameTokens(l[1]))
  BY DEF Witnesses
<1>6. l[2] = F[n]
  <2> HIDE DEF F
  <2>1. F[n] # None
    BY DEF F
  <2> QED BY <1>1, <1>5, <2>1 DEF Answer
<1>7. strongNameTokens(l[1]) # None
  BY <1>5 DEF Fills
<1> HIDE DEF F, tokens
<1> QED BY <1>4, <1>5, <1>6, <1>7 DEF tokens

\* Where both answer, they have a label in common.
LEMMA BothAgree ==
    ASSUME BaseInv, buildStrongBaselineConfig # None
    PROVE  BaselinesAgree(Uncontested(LexicalOffers(named)),
                               Uncontested(StrongOffers(named)))
<1> DEFINE F == Uncontested(LexicalOffers(named))
           G == Uncontested(StrongOffers(named))
<1> SUFFICES ASSUME NEW n \in DOMAIN named, F[n] # None, G[n] # None PROVE F[n] = G[n]
  BY DEF BaselinesAgree
<1> DEFINE name == named[n].name
<1>1. /\ lexicalKey(name) # None
      /\ \E l \in dev : lexicalKey(l[1]) = lexicalKey(name)
      /\ \A l \in dev : lexicalKey(l[1]) = lexicalKey(name) => l[2] = F[n]
  BY LexicalStands
<1>2. \A l \in dev : strongNameKey(l[1]) = strongNameKey(name) => l[2] = G[n]
  BY StrongStands
<1>3. name \in DOMAIN Names
  BY ColumnIsNamed
<1> HIDE DEF F, G, name
<1>4. PICK l \in dev : lexicalKey(l[1]) = lexicalKey(name)
  BY <1>1
<1>5. strongNameKey(l[1]) = strongNameKey(name)
  BY <1>1, <1>3, <1>4, BaselineAssumption DEF BaseInv, lexicalKey, strongNameKey
<1> QED BY <1>1, <1>2, <1>4, <1>5

\* Whatever DEV holds and however its labels came in, a baseline proposes only
\* what every label of that name meant or what a witnessed rule says, it fits
\* every sample, no target is answered twice, the order of the columns decides
\* nothing, and the two baselines never contradict each other
\* (buildLexicalVocabulary, proposeLexicalMapping, proposeStrongMapping).
THEOREM BaselinesNeverGuessHolds == BaselineSpec => []BaselinesNeverGuess
<1>1. BaseInv => BaselinesNeverGuess
  <2> SUFFICES ASSUME BaseInv PROVE BaselinesNeverGuess
    OBVIOUS
  <2> DEFINE vocabulary == buildLexicalVocabulary
             config == buildStrongBaselineConfig
             lexical == proposeLexicalMapping(named, vocabulary)
             strong == proposeStrongMapping(named, config)
  <2>1. /\ lexical = Uncontested(LexicalOffers(named))
        /\ proposeLexicalMapping(Reverse(named), vocabulary)
              = Uncontested(LexicalOffers(Reverse(named)))
    BY DEF proposeLexicalMapping, LexicalOffers
  <2>2. /\ strong = Uncontested(StrongOffers(named))
        /\ proposeStrongMapping(Reverse(named), config)
              = Uncontested(StrongOffers(Reverse(named)))
    BY DEF proposeStrongMapping, StrongOffers
  <2>3. /\ NothingIsGuessed(lexical, lexicalKey)
        /\ ValidCovers(lexical)
        /\ proposeLexicalMapping(Reverse(named), vocabulary) = Reverse(lexical)
    <3> HIDE DEF lexical, vocabulary
    <3> QED BY <2>1, LexicalNotGuessed, ValidRecordCovers, ColumnsTurned
  <2>4. ASSUME config # None
        PROVE  /\ NothingIsGuessed(strong, strongNameKey)
               /\ RulesHaveWitnesses(strong)
               /\ ValidCovers(strong)
               /\ proposeStrongMapping(Reverse(named), config)
                     = Reverse(strong)
               /\ BaselinesAgree(lexical, strong)
    <3>1. buildStrongBaselineConfig # None
      BY <2>4
    <3> HIDE DEF lexical, strong, vocabulary, config
    <3> QED BY <2>1, <2>2, <3>1, StrongNotGuessed, WitnessedAnswers, ValidRecordCovers,
               ColumnsTurned, BothAgree
  <2>5. OrderDecidesNothing(lexical,
                                 LAMBDA c : proposeLexicalMapping(c, vocabulary))
    BY <2>3 DEF OrderDecidesNothing
  <2>6. ASSUME config # None
        PROVE  OrderDecidesNothing(strong,
                                        LAMBDA c : proposeStrongMapping(c, config))
    BY <2>4, <2>6 DEF OrderDecidesNothing
  <2> QED BY <2>3, <2>4, <2>5, <2>6 DEF BaselinesNeverGuess
<1> QED BY <1>1, BaseInvHolds, PTL

-----------------------------------------------------------------------------
(* The calendar.  A year is counted from March, so that a leap day ends it; *)
(* an era is 400 of them, or 146097 days.                                  *)

\* The day of its era on which a year begins, and that of its year on which a
\* month does.
FirstDayOf(year) == year * 365 + year \div 4 - year \div 100
FirstDayOfMonth(month) == (153 * month + 2) \div 5

LastsLonger(year) == (year + 1) % 4 = 0 /\ ((year + 1) % 100 # 0 \/ (year + 1) % 400 = 0)

\* A year of an era and a day of that year.
DayOfYear(k, n) ==
    /\ 0 <= k /\ k < 400
    /\ 0 <= n /\ n <= 365
    /\ n = 365 => LastsLonger(k)

\* Day n of year k of era e, counted from the epoch.
DayAt(e, k, n) == e * 146097 + FirstDayOf(k) + n - 719468

\* The date of that day.
DateAt(e, k, n) ==
    LET p == (5 * n + 2) \div 153
        month == p + (IF p < 10 THEN 3 ELSE -9)
    IN  [year |-> k + e * 400 + (IF month <= 2 THEN 1 ELSE 0),
         month |-> month,
         day |-> n - FirstDayOfMonth(p) + 1]

ValidDate(d) == d \in Dates /\ d.day <= daysInMonth(d.year, d.month)

\* A day of a year of an era is found again in that year, and is in the era.
LEMMA YearOfEra ==
    ASSUME NEW k \in Int, NEW n \in Int, DayOfYear(k, n)
    PROVE  /\ yearOfEraAt(FirstDayOf(k) + n) = k
           /\ 0 <= FirstDayOf(k) + n /\ FirstDayOf(k) + n < 146097
<1>1. yearOfEraAt(FirstDayOf(k) + n) = k
  BY SMTT(60) DEF yearOfEraAt, FirstDayOf, LastsLonger, DayOfYear
<1>2. 0 <= FirstDayOf(k) + n /\ FirstDayOf(k) + n < 146097
  BY SMTT(60) DEF FirstDayOf, LastsLonger, DayOfYear
<1> QED BY <1>1, <1>2

\* Every day of an era is a day of one of its years.
LEMMA EraSplits ==
    ASSUME NEW x \in Int, 0 <= x, x < 146097
    PROVE  /\ yearOfEraAt(x) \in Int
           /\ FirstDayOf(yearOfEraAt(x)) \in Int
           /\ DayOfYear(yearOfEraAt(x), x - FirstDayOf(yearOfEraAt(x)))
<1>1. yearOfEraAt(x) \in Int /\ 0 <= yearOfEraAt(x) /\ yearOfEraAt(x) < 400
  BY SMTT(60) DEF yearOfEraAt
<1>2. FirstDayOf(yearOfEraAt(x)) \in Int
  BY <1>1, SMT DEF FirstDayOf
<1>3. x - FirstDayOf(yearOfEraAt(x)) >= 0
  BY SMTT(60) DEF yearOfEraAt, FirstDayOf
<1>4. x - FirstDayOf(yearOfEraAt(x)) <= 365
  BY SMTT(60) DEF yearOfEraAt, FirstDayOf
<1>5. x - FirstDayOf(yearOfEraAt(x)) = 365 => LastsLonger(yearOfEraAt(x))
  BY SMTT(60) DEF yearOfEraAt, FirstDayOf, LastsLonger
<1> QED BY <1>1, <1>2, <1>3, <1>4, <1>5, SMT DEF DayOfYear

\* A date is that of a day of an era, and has its number.
LEMMA DatePlace ==
    ASSUME NEW y \in Int, NEW m \in 1 .. 12, NEW d \in 1 .. 31, d <= daysInMonth(y, m)
    PROVE  \E e \in Int, k \in Int, n \in Int :
              /\ DayOfYear(k, n)
              /\ daysFromCivil(y, m, d) = DayAt(e, k, n)
              /\ DateAt(e, k, n) = [year |-> y, month |-> m, day |-> d]
<1> DEFINE a == y - (IF m <= 2 THEN 1 ELSE 0)
           e == a \div 400
           k == a - e * 400
           p == m + (IF m > 2 THEN -3 ELSE 9)
           n == FirstDayOfMonth(p) + d - 1
<1>1. a \in Int /\ e \in Int /\ k \in Int /\ 0 <= k /\ k < 400
  BY SMT
<1>2. /\ p \in 0 .. 11
      /\ m = p + (IF p < 10 THEN 3 ELSE -9)
      /\ p \in {1, 3, 6, 8} => d <= 30
      /\ p = 11 => d <= 29 /\ (d = 29 => isLeapYear(y))
  BY SMT DEF daysInMonth
<1>3. /\ n \in Int /\ 0 <= n /\ n <= 365
      /\ (5 * n + 2) \div 153 = p
      /\ n = 365 => p = 11 /\ d = 29
  <2> HIDE DEF p
  <2> QED BY <1>2, SMTT(60) DEF FirstDayOfMonth
<1>4. n = 365 => LastsLonger(k)
  <2>1. ASSUME n = 365 PROVE m = 2 /\ isLeapYear(y)
    <3> HIDE DEF p, n
    <3> QED BY <1>2, <1>3, <2>1, SMT
  <2> HIDE DEF p, n
  <2> QED BY <2>1, SMTT(60) DEF LastsLonger, isLeapYear
<1>5. daysFromCivil(y, m, d) = DayAt(e, k, n)
  BY SMT DEF daysFromCivil, FirstDayOf, FirstDayOfMonth, DayAt
<1>6. y = k + e * 400 + (IF m <= 2 THEN 1 ELSE 0)
  BY SMT
<1>7. d = n - FirstDayOfMonth(p) + 1
  <2>1. FirstDayOfMonth(p) \in Int
    BY SMT DEF FirstDayOfMonth
  <2> HIDE DEF p
  <2> QED BY <2>1, SMT
<1> HIDE DEF e, k, n, p
<1>8. DateAt(e, k, n) = [year |-> y, month |-> m, day |-> d]
  BY <1>2, <1>3, <1>6, <1>7, SMT DEF DateAt
<1> QED BY <1>1, <1>3, <1>4, <1>5, <1>8, SMT DEF DayOfYear

\* The number of a day of an era gives the date of that day.
LEMMA CivilOfPlace ==
    ASSUME NEW e \in Int, NEW k \in Int, NEW n \in Int, DayOfYear(k, n)
    PROVE  civilFromDays(DayAt(e, k, n)) = DateAt(e, k, n)
<1> DEFINE x == FirstDayOf(k) + n
           days == DayAt(e, k, n)
<1>0. FirstDayOf(k) \in Int
  BY SMT DEF FirstDayOf
<1>1. x \in Int /\ 0 <= x /\ x < 146097 /\ yearOfEraAt(x) = k
  BY <1>0, YearOfEra, SMT
<1>2. days \in Int /\ days + 719468 = e * 146097 + x
  BY <1>0, SMT DEF DayAt
<1>3. x - (365 * k + k \div 4 - k \div 100) = n
  BY SMT DEF FirstDayOf
<1> HIDE DEF x, days
<1>4. (e * 146097 + x) \div 146097 = e /\ e * 146097 + x - e * 146097 = x
  BY <1>1, SMT
<1>5. civilFromDays(days) = DateAt(e, k, n)
  <2> DEFINE era == (days + 719468) \div 146097
             doe == days + 719468 - era * 146097
             doy == doe - (365 * yearOfEraAt(doe) + yearOfEraAt(doe) \div 4
                             - yearOfEraAt(doe) \div 100)
             p == (5 * doy + 2) \div 153
             month == p + (IF p < 10 THEN 3 ELSE -9)
  <2>1. era = e /\ doe = x
    BY <1>1, <1>2, <1>4, SMT
  <2>2. yearOfEraAt(doe) = k /\ doy = n
    <3> HIDE DEF era, doe
    <3> QED BY <1>1, <1>3, <2>1, SMT
  <2>3. civilFromDays(days)
          = [year |-> yearOfEraAt(doe) + era * 400 + (IF month <= 2 THEN 1 ELSE 0),
             month |-> month,
             day |-> doy - (153 * p + 2) \div 5 + 1]
    BY <1>2, SMT DEF civilFromDays
  <2> HIDE DEF era, doe, doy
  <2> QED BY <2>1, <2>2, <2>3, SMT DEF DateAt, FirstDayOfMonth
<1> QED BY <1>5, SMT DEF days

\* A date is that of its number.
LEMMA DateComesBack ==
    ASSUME NEW d, ValidDate(d)
    PROVE  /\ daysFromCivil(d.year, d.month, d.day) \in Int
           /\ civilFromDays(daysFromCivil(d.year, d.month, d.day)) = d
<1>1. /\ d.year \in Int /\ d.month \in 1 .. 12 /\ d.day \in 1 .. 31
      /\ d = [year |-> d.year, month |-> d.month, day |-> d.day]
      /\ d.day <= daysInMonth(d.year, d.month)
  BY SMT DEF ValidDate, Dates
<1>2. PICK e \in Int, k \in Int, n \in Int :
              /\ DayOfYear(k, n)
              /\ daysFromCivil(d.year, d.month, d.day) = DayAt(e, k, n)
              /\ DateAt(e, k, n) = [year |-> d.year, month |-> d.month, day |-> d.day]
  BY <1>1, DatePlace, Zenon
<1>3. civilFromDays(DayAt(e, k, n)) = DateAt(e, k, n)
  BY <1>2, CivilOfPlace
<1>4. DayAt(e, k, n) \in Int
  BY SMT DEF DayAt, FirstDayOf
<1> QED BY <1>1, <1>2, <1>3, <1>4, Zenon

\* Every day has a date, and is the number of it.
LEMMA DayComesBack ==
    ASSUME NEW x \in Int
    PROVE  /\ ValidDate(civilFromDays(x))
           /\ daysFromCivil(civilFromDays(x).year, civilFromDays(x).month,
                            civilFromDays(x).day) = x
<1> DEFINE e == (x + 719468) \div 146097
           r == x + 719468 - e * 146097
           k == yearOfEraAt(r)
           n == r - FirstDayOf(k)
           p == (5 * n + 2) \div 153
           m == p + (IF p < 10 THEN 3 ELSE -9)
           y == k + e * 400 + (IF m <= 2 THEN 1 ELSE 0)
           d == n - FirstDayOfMonth(p) + 1
<1>1. e \in Int /\ r \in Int /\ 0 <= r /\ r < 146097 /\ x = e * 146097 + r - 719468
  BY SMT
<1> HIDE DEF e, r
<1>2. k \in Int /\ FirstDayOf(k) \in Int /\ n \in Int /\ DayOfYear(k, n)
  <2>1. k \in Int /\ FirstDayOf(k) \in Int /\ DayOfYear(k, n)
    BY <1>1, EraSplits, SMT
  <2> HIDE DEF k
  <2> QED BY <1>1, <2>1, SMT
<1>3. x = DayAt(e, k, n)
  <2> HIDE DEF k
  <2> QED BY <1>1, <1>2, SMT DEF DayAt
<1> HIDE DEF k, n
<1>4. /\ p \in 0 .. 11 /\ d \in 1 .. 31
      /\ p \in {1, 3, 6, 8} => d <= 30
      /\ p = 11 => d <= 29
      /\ n = 365 <=> p = 11 /\ d = 29
  BY <1>2, SMTT(60) DEF FirstDayOfMonth, DayOfYear
<1>5. civilFromDays(x) = [year |-> y, month |-> m, day |-> d]
  <2>1. civilFromDays(x) = DateAt(e, k, n)
    BY <1>1, <1>2, <1>3, CivilOfPlace, SMT
  <2> QED BY <2>1, Zenon DEF DateAt
<1>6. FirstDayOfMonth(p) \in Int
  BY <1>2, SMT DEF FirstDayOfMonth
<1>7. m \in 1 .. 12 /\ p = m + (IF m > 2 THEN -3 ELSE 9) /\ y \in Int
  <2> HIDE DEF p
  <2> QED BY <1>1, <1>2, <1>4, SMT
<1>8. n = FirstDayOfMonth(p) + d - 1
  <2> HIDE DEF p
  <2> QED BY <1>2, <1>6, SMT
<1>9. d <= daysInMonth(y, m)
  <2>1. ASSUME p = 11, d = 29 PROVE isLeapYear(y)
    <3>1. LastsLonger(k)
      BY <1>2, <1>4, <2>1 DEF DayOfYear
    <3>2. y = k + e * 400 + 1
      BY <2>1, SMT
    <3> HIDE DEF y, m, p, d
    <3> QED BY <1>1, <1>2, <3>1, <3>2, SMTT(60) DEF LastsLonger, isLeapYear
  <2> HIDE DEF p, d, y
  <2> QED BY <1>4, <2>1, SMT DEF daysInMonth
<1>10. daysFromCivil(y, m, d) = DayAt(e, k, n)
  <2>1. y - (IF m <= 2 THEN 1 ELSE 0) = k + e * 400
    <3> HIDE DEF m
    <3> QED BY <1>1, <1>2, <1>7, SMT
  <2>2. (k + e * 400) \div 400 = e /\ k + e * 400 - e * 400 = k
    BY <1>1, <1>2, SMT DEF DayOfYear
  <2>3. e * 146097 + (k * 365 + k \div 4 - k \div 100
                        + ((153 * p + 2) \div 5 + d - 1)) - 719468 = DayAt(e, k, n)
    <3>1. k * 365 + k \div 4 - k \div 100 = FirstDayOf(k)
      BY DEF FirstDayOf
    <3>2. (153 * p + 2) \div 5 + d - 1 = n
      BY <1>8 DEF FirstDayOfMonth
    <3> HIDE DEF y, m, d, p
    <3> QED BY <1>1, <1>2, <3>1, <3>2, SMT DEF DayAt
  <2> DEFINE a == y - (IF m <= 2 THEN 1 ELSE 0)
             era == a \div 400
             yoe == a - era * 400
             am == m + (IF m > 2 THEN -3 ELSE 9)
  <2>4. daysFromCivil(y, m, d)
          = era * 146097 + (yoe * 365 + yoe \div 4 - yoe \div 100
                              + ((153 * am + 2) \div 5 + d - 1)) - 719468
    <3> HIDE DEF y, m, d
    <3> QED BY SMT DEF daysFromCivil
  <2>5. era = e /\ yoe = k /\ am = p
    <3>1. a = k + e * 400
      BY <2>1
    <3>2. am = p
      <4> HIDE DEF p, m
      <4> QED BY <1>7, SMT
    <3> HIDE DEF a, am
    <3> QED BY <1>1, <1>2, <2>2, <3>1, <3>2, SMT
  <2> HIDE DEF y, m, d, p, era, yoe, am
  <2> QED BY <2>3, <2>4, <2>5, SMT
<1> HIDE DEF y, m, d, p
<1>11. ValidDate([year |-> y, month |-> m, day |-> d])
  BY <1>4, <1>7, <1>9, SMT DEF ValidDate, Dates
<1> QED BY <1>3, <1>5, <1>10, <1>11, SMT

\* The day after has the next number, over the end of a month, of a year and of
\* an era.
LEMMA NextDay ==
    ASSUME NEW d, ValidDate(d)
    PROVE  /\ ValidDate(NextDate(d))
           /\ daysFromCivil(NextDate(d).year, NextDate(d).month, NextDate(d).day)
                = daysFromCivil(d.year, d.month, d.day) + 1
<1> DEFINE y == d.year
           m == d.month
           a == d.day
<1>1. /\ y \in Int /\ m \in 1 .. 12 /\ a \in 1 .. 31 /\ a <= daysInMonth(y, m)
      /\ d = [year |-> y, month |-> m, day |-> a]
  BY SMT DEF ValidDate, Dates
<1> HIDE DEF y, m, a
<1>2. CASE a < daysInMonth(y, m)
  <2>1. NextDate(d) = [year |-> y, month |-> m, day |-> a + 1]
    BY <1>1, <1>2, SMT DEF NextDate
  <2>2. a + 1 \in 1 .. 31 /\ a + 1 <= daysInMonth(y, m)
    BY <1>1, <1>2, SMT DEF daysInMonth
  <2>3. daysFromCivil(y, m, a + 1) = daysFromCivil(y, m, a) + 1
    BY <1>1, SMT DEF daysFromCivil
  <2> QED BY <1>1, <2>1, <2>2, <2>3, SMT DEF ValidDate, Dates
<1>3. CASE a = daysInMonth(y, m) /\ m < 12
  <2>1. NextDate(d) = [year |-> y, month |-> m + 1, day |-> 1]
    <3>1. d.day = a /\ d.month = m /\ m < 12 /\ ~(a < daysInMonth(d.year, d.month))
      <4>1. d.day = a /\ d.month = m /\ d.year = y
        BY DEF a, m, y
      <4>2. ~(a < daysInMonth(y, m))
        BY <1>1, <1>3, SMT
      <4> QED BY <1>3, <4>1, <4>2
    <3>2. NextDate(d) = [d EXCEPT !.day = 1, !.month = @ + 1]
      BY <3>1 DEF NextDate
    <3> QED BY <1>1, <3>2
  <2>2. m + 1 \in 1 .. 12 /\ 1 <= daysInMonth(y, m + 1)
    BY <1>1, <1>3, SMT DEF daysInMonth
  <2>3. daysFromCivil(y, m + 1, 1) = daysFromCivil(y, m, a) + 1
    <3>1. CASE m = 2
      BY <1>1, <1>3, <3>1, SMTT(60) DEF daysFromCivil, daysInMonth, isLeapYear
    <3>2. CASE m # 2
      BY <1>1, <1>3, <3>2, SMTT(60) DEF daysFromCivil, daysInMonth
    <3> QED BY <3>1, <3>2
  <2> QED BY <1>1, <2>1, <2>2, <2>3, SMT DEF ValidDate, Dates
<1>4. CASE a = daysInMonth(y, m) /\ m = 12
  <2>1. NextDate(d) = [year |-> y + 1, month |-> 1, day |-> 1] /\ a = 31
    BY <1>1, <1>4, SMT DEF NextDate, daysInMonth
  <2>2. 1 <= daysInMonth(y + 1, 1)
    BY SMT DEF daysInMonth
  <2>3. daysFromCivil(y + 1, 1, 1) = daysFromCivil(y, 12, 31) + 1
    BY <1>1, SMTT(60) DEF daysFromCivil
  <2> QED BY <1>1, <1>4, <2>1, <2>2, <2>3, SMT DEF ValidDate, Dates
<1> QED BY <1>1, <1>2, <1>3, <1>4, SMT DEF daysInMonth

\* The open page of a calendar is a date, and times are written in one of the
\* ways there are.
PagesAreDates == ValidDate(page) /\ writing \in [clock : Clocks, offset : Offsets]

LEMMA CalendarInv == CalendarSpec => []PagesAreDates
<1>1. CalendarInit => PagesAreDates
  BY CalendarAssumption, Zenon DEF CalendarInit, ValidDate, PagesAreDates
<1>2. PagesAreDates /\ [Turn]_calendarVars => PagesAreDates'
  <2> SUFFICES ASSUME PagesAreDates, [Turn]_calendarVars
               PROVE  ValidDate(page') /\ writing' = writing
    BY DEF ValidDate, PagesAreDates
  <2>1. CASE Turn
    BY <2>1, NextDay DEF Turn, PagesAreDates
  <2>2. CASE UNCHANGED calendarVars
    BY <2>2 DEF calendarVars, PagesAreDates
  <2> QED BY <2>1, <2>2
<1> QED BY <1>1, <1>2, PTL DEF CalendarSpec

\* A time of a date and an offset, as days and a second of the day.
LEMMA InstantSplits ==
    ASSUME NEW d, NEW c \in Clocks, NEW o \in Offsets, ValidDate(d)
    PROVE  LET i == Instant(d, c, o)
           IN  /\ EpochDays(i) \in Int
               /\ SecondsWithinDay(i) \in Int
               /\ 0 <= SecondsWithinDay(i) /\ SecondsWithinDay(i) < 86400
               /\ i.ns = c.ns /\ c.ns \in Int
<1> DEFINE s == c.hour * 3600 + c.minute * 60 + c.second - OffsetSeconds(o)
           n == daysFromCivil(d.year, d.month, d.day)
<1>0. /\ c.hour \in Int /\ c.minute \in Int /\ c.second \in Int /\ c.ns \in Int
      /\ o.hour \in Int /\ o.minute \in Int
  <2>1. c \in [hour : Nat, minute : Nat, second : Nat, ns : Nat]
    BY CalendarAssumption, Zenon
  <2>2. o \in [sign : {"Z", "+", "-"}, hour : Nat, minute : Nat]
    BY CalendarAssumption, Zenon
  <2> QED BY <2>1, <2>2, SMT
<1>1. OffsetSeconds(o) \in Int
  BY <1>0, SMT DEF OffsetSeconds
<1>2. s \in Int /\ n \in Int
  <2>1. n \in Int
    BY DateComesBack, Zenon
  <2>2. s \in Int
    BY <1>0, <1>1, SMT
  <2> QED BY <2>1, <2>2
<1> HIDE DEF s, n
<1>3. Instant(d, c, o) = [days |-> n, seconds |-> s, ns |-> c.ns]
  BY SMT DEF Instant, s, n
<1>4. s \div 86400 \in Int /\ s % 86400 \in Int /\ 0 <= s % 86400 /\ s % 86400 < 86400
  BY <1>2, SMT
<1> QED BY <1>0, <1>2, <1>3, <1>4, SMT DEF EpochDays, SecondsWithinDay

\* An instant written in UTC is supported, is the same instant, and is written
\* the same way again.
LEMMA UtcIsTheInstant ==
    ASSUME NEW d, NEW c \in Clocks, NEW o \in Offsets, ValidDate(d)
    PROVE  LET utc == normalizeEventTime(d, c, o)
               i == Instant(d, c, o)
               j == Instant(utc.date, utc.clock, UTC)
           IN  /\ Supported(utc.date, utc.clock, UTC)
               /\ EpochDays(j) = EpochDays(i)
               /\ SecondsWithinDay(j) = SecondsWithinDay(i)
               /\ j.ns = i.ns
               /\ normalizeEventTime(utc.date, utc.clock, UTC) = utc
<1> DEFINE i == Instant(d, c, o)
           n == EpochDays(i)
           s == SecondsWithinDay(i)
           clock == [hour |-> s \div 3600, minute |-> (s % 3600) \div 60,
                     second |-> s % 60, ns |-> i.ns]
           day == civilFromDays(n)
           utc == normalizeEventTime(d, c, o)
           j == Instant(day, clock, UTC)
<1>1. n \in Int /\ s \in Int /\ 0 <= s /\ s < 86400
  BY InstantSplits, SMT
<1> HIDE DEF n, s
<1>2. utc = [date |-> day, clock |-> clock]
  BY Zenon DEF normalizeEventTime, n, s
<1>3. ValidDate(day) /\ daysFromCivil(day.year, day.month, day.day) = n
  <2>1. n \in Int
    BY <1>1
  <2> QED BY <2>1, DayComesBack, SMT
<1>4. /\ s \div 3600 <= 23 /\ (s % 3600) \div 60 <= 59 /\ s % 60 <= 59
      /\ (s \div 3600) * 3600 + ((s % 3600) \div 60) * 60 + (s % 60) = s
  BY <1>1, SMT
<1>5. OffsetSeconds(UTC) = 0
  BY SMT DEF OffsetSeconds, UTC
<1>6. j = [days |-> n, seconds |-> s, ns |-> i.ns]
  BY <1>1, <1>3, <1>4, <1>5, SMT DEF Instant
<1>7. EpochDays(j) = n /\ SecondsWithinDay(j) = s
  <2>1. s \div 86400 = 0 /\ s % 86400 = s
    BY <1>1, SMT
  <2> HIDE DEF j
  <2> QED BY <1>1, <1>6, <2>1, SMT DEF EpochDays, SecondsWithinDay
<1>8. Supported(day, clock, UTC)
  BY <1>3, <1>4, SMT DEF Supported, ValidDate, Dates, UTC
<1>9. normalizeEventTime(day, clock, UTC) = utc
  <2> HIDE DEF j, clock
  <2>1. normalizeEventTime(day, clock, UTC)
           = [date |-> civilFromDays(EpochDays(j)),
              clock |-> [hour |-> SecondsWithinDay(j) \div 3600,
                         minute |-> (SecondsWithinDay(j) % 3600) \div 60,
                         second |-> SecondsWithinDay(j) % 60, ns |-> j.ns]]
    BY DEF normalizeEventTime, j
  <2>2. j.ns = i.ns
    BY <1>6
  <2> QED BY <1>2, <1>7, <2>1, <2>2 DEF clock
<1> HIDE DEF j, clock, day, utc, i
<1>10. utc.date = day /\ utc.clock = clock /\ j.ns = i.ns
  BY <1>2, <1>6
<1> QED BY <1>2, <1>7, <1>8, <1>9, <1>10 DEF i, j, n, s, utc

\* Whatever date the calendar was opened on: a date is that of its number, the
\* next has the next number, and a time written in UTC is the instant that was
\* written, on any clock and offset that the code admits (daysFromCivil,
\* civilFromDays, normalizeEventTime, compareCanonicalEventTimes).
THEOREM TimesAreExactHolds == CalendarSpec => []TimesAreExact
<1>1. PagesAreDates => TimesAreExact
  <2> SUFFICES ASSUME PagesAreDates PROVE TimesAreExact
    OBVIOUS
  <2>0. /\ ValidDate(page)
        /\ writing.clock \in Clocks /\ writing.offset \in Offsets
    BY DEF PagesAreDates
  <2>1. civilFromDays(daysFromCivil(page.year, page.month, page.day)) = page
    BY <2>0, DateComesBack
  <2>2. LET next == NextDate(page)
        IN  daysFromCivil(next.year, next.month, next.day)
              = daysFromCivil(page.year, page.month, page.day) + 1
    BY <2>0, NextDay
  <2>3. ASSUME NEW c \in Clocks, NEW o \in Offsets
        PROVE  LET utc == normalizeEventTime(page, c, o)
               IN  /\ Supported(utc.date, utc.clock, UTC)
                   /\ ~Earlier(Instant(utc.date, utc.clock, UTC), Instant(page, c, o))
                   /\ ~Earlier(Instant(page, c, o), Instant(utc.date, utc.clock, UTC))
                   /\ normalizeEventTime(utc.date, utc.clock, UTC) = utc
    <3> DEFINE utc == normalizeEventTime(page, c, o)
               i == Instant(page, c, o)
               j == Instant(utc.date, utc.clock, UTC)
    <3>1. /\ Supported(utc.date, utc.clock, UTC)
          /\ EpochDays(j) = EpochDays(i) /\ SecondsWithinDay(j) = SecondsWithinDay(i)
          /\ j.ns = i.ns
          /\ normalizeEventTime(utc.date, utc.clock, UTC) = utc
      BY <2>0, UtcIsTheInstant, Zenon
    <3>2. EpochDays(i) \in Int /\ SecondsWithinDay(i) \in Int /\ i.ns \in Int
      BY <2>0, InstantSplits, SMT
    <3>3. ~Earlier(j, i) /\ ~Earlier(i, j)
      <4> HIDE DEF i, j
      <4> QED BY <3>1, <3>2, SMT DEF Earlier
    <3> QED BY <3>1, <3>3, Zenon
  <2> QED BY <2>0, <2>1, <2>2, <2>3, Zenon DEF TimesAreExact
<1> QED BY <1>1, CalendarInv, PTL

-----------------------------------------------------------------------------
(* An evidence bundle, edited on its way.                                  *)

\* Artifacts, whatever format each is read in.
Sourced == [artifact : Artifacts, format : Formats \cup {a.format : a \in Artifacts}]

\* The bundle declares the bytes it was assembled from, and is as it was
\* assembled until it is edited.
BundleInv ==
    /\ bundled \in AssemblyInputs
    /\ alterations \in Nat
    /\ supplied \in Seq(Sourced)
    /\ bundle # Null =>
          /\ "declaration" \in DOMAIN bundle
          /\ "sourceArtifacts" \in DOMAIN bundle.declaration
          /\ bundle.declaration.sourceArtifacts
               = [n \in DOMAIN bundled.sources |-> bundled.sources[n].artifact.bytes]
    /\ bundle # Null /\ alterations = 0 =>
          /\ bundle = assembleEvidenceBundle(bundled)
          /\ ~bundle.error

\* What assembly accepts is of distinct bytes, and is a finished declaration.
LEMMA AssembledIs ==
    ASSUME NEW i, ~assembleEvidenceBundle(i).error
    PROVE  /\ i.sources # <<>>
           /\ Cardinality({i.sources[n].artifact.bytes : n \in DOMAIN i.sources})
                = Len(i.sources)
           /\ \E state, result :
                 assembleEvidenceBundle(i) = finishBundle(Declaration(i, state, result))
<1>1. Failed.error
  BY DEF Failed
<1>2. /\ i.sources # <<>>
      /\ Cardinality({i.sources[n].artifact.bytes : n \in DOMAIN i.sources})
           = Len(i.sources)
  BY <1>1 DEF assembleEvidenceBundle, AllDistinct, Collected
<1>3. CASE i.mapping # Null
  <2>1. assembleEvidenceBundle(i) = AssembleMapped(i)
    BY <1>1, <1>3 DEF assembleEvidenceBundle
  <2>2. AssembleMapped(i) # Failed
    BY <1>1, <2>1
  <2>3. \E state, result : AssembleMapped(i) = finishBundle(Declaration(i, state, result))
    BY <2>2, Zenon DEF AssembleMapped
  <2> QED BY <1>2, <2>1, <2>3
<1>4. CASE i.mapping = Null
  BY <1>1, <1>2, <1>4 DEF assembleEvidenceBundle
<1> QED BY <1>2, <1>3, <1>4

\* Sources assembly can be asked for are sources a reader can supply.
LEMMA AskedIsSourced ==
    ASSUME NEW i \in AssemblyInputs
    PROVE  i.sources \in Seq(Sourced)
<1>1. PICK s \in SeqOf(Artifacts, MaxArtifacts) : i.sources = AsSources(s)
  BY DEF AssemblyInputs
<1>2. PICK m \in 0 .. MaxArtifacts : s \in [1 .. m -> Artifacts]
  BY <1>1 DEF SeqOf
<1>3. AsSources(s) \in [1 .. m -> Sourced]
  BY <1>2 DEF AsSources, Sourced
<1>4. m \in Nat
  BY <1>2, BundleAssumption
<1> QED BY <1>1, <1>3, <1>4

LEMMA BundleInvHolds == BundleSpec => []BundleInv
<1>1. BundleInit => BundleInv
  BY DEF BundleInit, BundleInv
<1>2. BundleInv /\ [BundleNext]_bundleVars => BundleInv'
  <2> SUFFICES ASSUME BundleInv, [BundleNext]_bundleVars PROVE BundleInv'
    OBVIOUS
  <2> USE DEF BundleInv
  <2>1. CASE Assemble
    <3>1. PICK state, result : bundle' = finishBundle(Declaration(bundled, state, result))
      BY <2>1, AssembledIs DEF Assemble
    <3>2. supplied' \in Seq(Sourced)
      BY <2>1, AskedIsSourced DEF Assemble
    <3>3. /\ "declaration" \in DOMAIN bundle'
          /\ "sourceArtifacts" \in DOMAIN bundle'.declaration
          /\ bundle'.declaration.sourceArtifacts
               = [n \in DOMAIN bundled.sources |-> bundled.sources[n].artifact.bytes]
      BY <3>1 DEF finishBundle, Declaration
    <3>4. bundle' = assembleEvidenceBundle(bundled)' /\ ~bundle'.error
      BY <2>1, <3>1 DEF Assemble, finishBundle
    <3> QED BY <2>1, <3>2, <3>3, <3>4 DEF Assemble
  <2>2. ASSUME NEW field \in {"mapping", "case", "workflowState", "replay"}, NEW v,
               Edited([bundle EXCEPT !.declaration[field] = v])
        PROVE  BundleInv'
    BY <2>2 DEF Edited
  <2>3. CASE EditState
    BY <2>2, <2>3 DEF EditState
  <2>4. CASE EditMapping
    BY <2>2, <2>4 DEF EditMapping
  <2>5. CASE EditCase
    BY <2>2, <2>5 DEF EditCase
  <2>6. CASE EditReplay
    BY <2>2, <2>6 DEF EditReplay
  <2>7. CASE HashAgain
    BY <2>7 DEF HashAgain, Edited
  <2>8. CASE SupplyOther
    <3>1. supplied' \in Seq(Sourced)
      <4>1. ASSUME NEW s \in SeqOf(Artifacts, MaxArtifacts), NEW f \in Formats
            PROVE  [n \in DOMAIN s |-> [artifact |-> s[n], format |-> f]] \in Seq(Sourced)
        <5>1. PICK m \in 0 .. MaxArtifacts : s \in [1 .. m -> Artifacts]
          BY DEF SeqOf
        <5>2. [n \in DOMAIN s |-> [artifact |-> s[n], format |-> f]] \in [1 .. m -> Sourced]
          BY <5>1 DEF Sourced
        <5>3. m \in Nat
          BY <5>1, BundleAssumption
        <5> QED BY <5>2, <5>3
      <4>2. Reverse(bundled.sources) \in Seq(Sourced)
        <5>1. bundled.sources \in Seq(Sourced)
          BY AskedIsSourced
        <5> QED BY <5>1 DEF Reverse
      <4> QED BY <2>8, <4>1, <4>2 DEF SupplyOther
    <3> QED BY <2>8, <3>1 DEF SupplyOther
  <2>9. CASE UNCHANGED bundleVars
    BY <2>9 DEF bundleVars
  <2> QED BY <2>1, <2>3, <2>4, <2>5, <2>6, <2>7, <2>8, <2>9 DEF BundleNext
<1> QED BY <1>1, <1>2, PTL DEF BundleSpec

\* One source's replay, declared, says what its approvals earn.
Earned(d, a) ==
    /\ d.replay # Null =>
         /\ d.mapping # Null /\ d.mapping.approval = "approved"
         /\ d.mapping.artifact.rows = "good"
         /\ d.replay.events = EventsOf(a)
         /\ d.sourceArtifacts = <<a.bytes>>
    /\ (d.replay # Null /\ d.replay.evaluation # Null) = (d.workflowState = "REPLAYED")
    /\ d.workflowState = "REPLAYED" =>
         d.case # Null /\ d.case.approval = "approved" /\ d.case.fits

\* Assembly declares no more than it replayed.
LEMMA AssembledEarns ==
    ASSUME NEW i, i.sources \in Seq(Sourced), ~assembleEvidenceBundle(i).error
    PROVE  Earned(assembleEvidenceBundle(i).declaration, i.sources[1].artifact)
<1> DEFINE a == i.sources[1].artifact
           foundation == replayApproved(a, i.mapping, Null)
           caseResult == replayApproved(a, i.mapping, i.case)
           d == assembleEvidenceBundle(i).declaration
<1>0. Failed.error
  BY DEF Failed
<1>1. i.sources # <<>>
  BY AssembledIs
<1>2. a \in Artifacts
  <2>1. 1 \in DOMAIN i.sources /\ i.sources[1] \in Sourced
    BY <1>1
  <2> QED BY <2>1 DEF Sourced
<1>3. /\ EventsOf(a) # Null /\ Evaluation(a) # Null
      /\ ReplayOf(EventsOf(a), Null) # Null
      /\ ReplayOf(EventsOf(a), Evaluation(a)) # Null
  BY <1>2, BundleAssumption
<1>4. /\ \A e : ReplayOf(EventsOf(a), e).events = EventsOf(a)
      /\ \A e : ReplayOf(EventsOf(a), e).evaluation = e
  BY DEF ReplayOf
<1>5. ASSUME i.mapping = Null PROVE Earned(d, a)
  <2>1. d = Declaration(i, "UPLOADED", Stopped("UPLOADED"))
    BY <1>0, <1>5 DEF assembleEvidenceBundle, finishBundle
  <2>2. d.replay = Null /\ d.workflowState = "UPLOADED"
    BY <2>1 DEF Declaration, Stopped, Replayed
  <2> HIDE DEF d
  <2> QED BY <2>2 DEF Earned
<1>6. ASSUME i.mapping # Null PROVE Earned(d, a)
  <2>1. /\ Len(i.sources) = 1 /\ a = i.mapping.artifact
        /\ i.case # Null => foundation.events # Null
        /\ d = IF i.case = Null THEN Declaration(i, foundation.state, foundation)
                ELSE Declaration(i, CaseState(i.case, caseResult),
                       IF caseResult.events # Null THEN caseResult ELSE foundation)
    BY <1>0, <1>6 DEF assembleEvidenceBundle, AssembleMapped, finishBundle
  <2>2. \A state, result :
           /\ Declaration(i, state, result).sourceArtifacts = <<a.bytes>>
           /\ Declaration(i, state, result).mapping = i.mapping
           /\ Declaration(i, state, result).case = i.case
           /\ Declaration(i, state, result).workflowState = state
           /\ Declaration(i, state, result).replay
                = IF result.events = Null THEN Null
                  ELSE ReplayOf(result.events, result.evaluation)
    BY <2>1 DEF Declaration
  <2>3. /\ foundation.state # "REPLAYED"
        /\ foundation.events # Null =>
             /\ i.mapping.approval = "approved" /\ a.rows = "good"
             /\ foundation.events = EventsOf(a) /\ foundation.evaluation = Null
    BY DEF replayApproved, Stopped, Replayed
  <2>4. CASE i.case = Null
    <3>1. d = Declaration(i, foundation.state, foundation)
      BY <2>1, <2>4
    <3> HIDE DEF d, a, foundation
    <3> QED BY <1>3, <1>4, <1>6, <2>1, <2>2, <2>3, <3>1 DEF Earned
  <2>5. CASE i.case # Null
    <3>1. d = Declaration(i, CaseState(i.case, caseResult),
                          IF caseResult.events # Null THEN caseResult ELSE foundation)
      BY <2>1, <2>5
    <3>2. foundation.events # Null
      BY <2>1, <2>5
    <3>3. IF i.case.approval # "approved" \/ ~i.case.fits
          THEN caseResult.events = Null /\ caseResult.state = "CASE_REVIEW_REQUIRED"
          ELSE /\ caseResult.events = EventsOf(a) /\ caseResult.evaluation = Evaluation(a)
               /\ caseResult.state = "REPLAYED"
      BY <1>6, <2>3, <2>5, <3>2 DEF replayApproved, Stopped, Replayed
    <3>4. CaseState(i.case, caseResult) = caseResult.state
      BY <3>3 DEF CaseState
    <3> HIDE DEF d, a, foundation, caseResult
    <3>5. CASE i.case.approval # "approved" \/ ~i.case.fits
      <4>1. d = Declaration(i, "CASE_REVIEW_REQUIRED", foundation)
        BY <3>1, <3>3, <3>4, <3>5
      <4> QED BY <1>3, <1>4, <1>6, <2>1, <2>2, <2>3, <3>2, <4>1 DEF Earned
    <3>6. CASE ~(i.case.approval # "approved" \/ ~i.case.fits)
      <4>1. d = Declaration(i, "REPLAYED", caseResult)
        BY <1>3, <3>1, <3>3, <3>4, <3>6
      <4> QED BY <1>3, <1>4, <1>6, <2>1, <2>2, <2>3, <2>5, <3>2, <3>3, <3>6, <4>1 DEF Earned
    <3> QED BY <3>5, <3>6
  <2> QED BY <2>4, <2>5
<1> QED BY <1>5, <1>6

\* Two checks with nothing to report both passed, and the other way round.
LEMMA TwoChecks ==
    ASSUME NEW a, NEW b
    PROVE  Failures(<<a, b>>) = {} <=> a = "none" /\ b = "none"
<1> DEFINE r == <<a, b>>
<1>1. Failures(r) = {} <=> \A i \in DOMAIN r : r[i] = "none"
  BY DEF Failures, Range
<1>2. DOMAIN r = {1, 2} /\ r[1] = a /\ r[2] = b
  OBVIOUS
<1> QED BY <1>1, <1>2

\* What verifies is what assembly makes of what was supplied.
LEMMA VerifiedIsRecomputed ==
    ASSUME NEW b, NEW sources, verifyBundle(b, sources) = {}
    PROVE  /\ Len(sources) = Len(b.declaration.sourceArtifacts)
           /\ \A n \in DOMAIN b.declaration.sourceArtifacts :
                 Holders(sources, b.declaration.sourceArtifacts[n]) # {}
           /\ ~Recomputed(b, sources).error
           /\ Recomputed(b, sources) = b
<1> DEFINE hashes == b.declaration.sourceArtifacts
           mismatch == \/ Len(sources) # Len(hashes)
                       \/ \E n \in DOMAIN hashes : Holders(sources, hashes[n]) = {}
           hash == Unless(b.bundleHash = b.declaration, "BUNDLE_HASH_MISMATCH")
           again == IF mismatch THEN "SOURCE_ARTIFACT_MISMATCH" ELSE RecomputedIssue(b, sources)
<1>1. Failures(<<hash, again>>) = {}
  BY DEF verifyBundle
<1>2. again = "none"
  <2> HIDE DEF hash, again
  <2> QED BY <1>1, TwoChecks
<1>3. ~mismatch /\ RecomputedIssue(b, sources) = "none"
  <2> HIDE DEF mismatch
  <2> QED BY <1>2, "SOURCE_ARTIFACT_MISMATCH" # "none"
<1>4. ~Recomputed(b, sources).error
      /\ Unless(Recomputed(b, sources) = b, "RECOMPUTED_BUNDLE_MISMATCH") = "none"
  BY <1>3 DEF RecomputedIssue
<1>5. Recomputed(b, sources) = b
  BY <1>4, Zenon DEF Unless
<1> QED BY <1>3, <1>4, <1>5

LEMMA VerifiedEarns ==
    ASSUME BundleInv
    PROVE  VerifiedIsEarned
<1> SUFFICES ASSUME Verified PROVE Earned(bundle.declaration, supplied[1].artifact)
  BY DEF VerifiedIsEarned, Earned
<1> DEFINE hashes == bundle.declaration.sourceArtifacts
           i == [sources |-> Ordered(bundle, supplied),
                 mapping |-> bundle.declaration.mapping, case |-> bundle.declaration.case]
<1>1. /\ Len(supplied) = Len(hashes)
      /\ \A n \in DOMAIN hashes : Holders(supplied, hashes[n]) # {}
      /\ ~assembleEvidenceBundle(i).error
      /\ assembleEvidenceBundle(i) = bundle
  BY VerifiedIsRecomputed DEF Verified, Recomputed
<1>2. hashes = [n \in DOMAIN bundled.sources |-> bundled.sources[n].artifact.bytes]
  BY DEF BundleInv, Verified
<1>3. /\ bundled.sources \in Seq(Sourced) /\ supplied \in Seq(Sourced)
      /\ DOMAIN hashes = 1 .. Len(hashes) /\ Len(hashes) \in Nat
  <2>1. bundled.sources \in Seq(Sourced)
    BY AskedIsSourced DEF BundleInv
  <2> HIDE DEF hashes
  <2> QED BY <1>2, <2>1 DEF BundleInv
<1>4. ASSUME NEW n \in DOMAIN hashes
      PROVE  /\ Max(Holders(supplied, hashes[n])) \in DOMAIN supplied
             /\ artifactsByHash(supplied, hashes[n]) \in Sourced
  <2> DEFINE S == Holders(supplied, hashes[n])
  <2>1. S \subseteq 1 .. Len(supplied) /\ Len(supplied) \in Nat /\ S # {}
    BY <1>1, <1>3 DEF Holders
  <2>2. IsFiniteSet(S) /\ S \in SUBSET Int
    <3>1. IsFiniteSet(1 .. Len(supplied)) /\ 1 .. Len(supplied) \subseteq Int
      BY <2>1, FS_Interval
    <3> HIDE DEF S
    <3> QED BY <2>1, <3>1, FS_Subset
  <2>3. Max(S) \in S
    <3> HIDE DEF S
    <3> QED BY <2>1, <2>2, FiniteHasGreatest DEF Max
  <2>4. Max(S) \in DOMAIN supplied
    BY <2>3 DEF Holders
  <2> QED BY <1>3, <2>4 DEF artifactsByHash
<1>5. i.sources \in Seq(Sourced) /\ DOMAIN i.sources = DOMAIN hashes
  <2>1. Ordered(bundle, supplied) \in [1 .. Len(hashes) -> Sourced]
    BY <1>3, <1>4 DEF Ordered
  <2> QED BY <1>3, <2>1
<1>6. Earned(bundle.declaration, i.sources[1].artifact)
  <2> HIDE DEF i
  <2> QED BY <1>1, <1>5, AssembledEarns
<1>7. CASE bundle.declaration.replay = Null
  BY <1>6, <1>7 DEF Earned
<1>8. CASE bundle.declaration.replay # Null
  <2>1. Len(hashes) = 1
    <3>1. hashes = <<i.sources[1].artifact.bytes>>
      BY <1>6, <1>8 DEF Earned
    <3> HIDE DEF hashes
    <3> QED BY <3>1
  <2>2. DOMAIN supplied = {1} /\ 1 \in DOMAIN hashes
    BY <1>1, <1>3, <2>1
  <2>3. i.sources[1] = supplied[1]
    <3>1. Max(Holders(supplied, hashes[1])) = 1
      BY <1>4, <2>2
    <3> QED BY <2>2, <3>1 DEF Ordered, artifactsByHash
  <2> QED BY <1>6, <2>3
<1> QED BY <1>7, <1>8

\* Sources of distinct bytes are found by their bytes, in whatever order.
LEMMA AssembledAgain ==
    ASSUME BundleInv
    PROVE  AssembledVerifies
<1> SUFFICES ASSUME bundle # Null, alterations = 0,
                    supplied \in {bundled.sources, Reverse(bundled.sources)}
             PROVE  Verified
  BY DEF AssembledVerifies
<1> DEFINE sources == bundled.sources
           bytes == [n \in DOMAIN sources |-> sources[n].artifact.bytes]
           N == Len(sources)
<1>1. /\ bundle = assembleEvidenceBundle(bundled) /\ ~assembleEvidenceBundle(bundled).error
      /\ bundled \in AssemblyInputs
  BY DEF BundleInv
<1>2. PICK state, result : bundle = finishBundle(Declaration(bundled, state, result))
  BY <1>1, AssembledIs
<1>3. sources \in Seq(Sourced) /\ N \in Nat /\ DOMAIN sources = 1 .. N
  BY <1>1, AskedIsSourced
<1>4. /\ bundle.bundleHash = bundle.declaration
      /\ bundle.declaration.sourceArtifacts = bytes
      /\ bundle.declaration.mapping = bundled.mapping
      /\ bundle.declaration.case = bundled.case
      /\ bundle.declaration.replay \in {Null, ReplayOf(result.events, result.evaluation)}
  BY <1>2 DEF finishBundle, Declaration
<1>5. \A m, n \in 1 .. N : bytes[m] = bytes[n] => m = n
  <2>1. Cardinality({sources[n].artifact.bytes : n \in DOMAIN sources}) = N
    BY <1>1, AssembledIs
  <2>2. Range(bytes) = {sources[n].artifact.bytes : n \in DOMAIN sources}
    BY DEF Range
  <2>3. bytes \in Seq(Range(bytes)) /\ Len(bytes) = N
    <3>1. bytes = [n \in 1 .. N |-> bytes[n]]
      BY <1>3
    <3>2. N \in Nat
      BY <1>3
    <3> HIDE DEF bytes, N
    <3> QED BY <3>1, <3>2, OverPlaces
  <2> HIDE DEF bytes, N
  <2> QED BY <2>1, <2>2, <2>3, DistinctMembers
<1>6. PICK turn \in [1 .. N -> 1 .. N] :
         /\ supplied = [n \in 1 .. N |-> sources[turn[n]]]
         /\ \A n \in 1 .. N : turn[turn[n]] = n
  <2>1. CASE supplied = sources
    <3> DEFINE turn == [n \in 1 .. N |-> n]
    <3>1. supplied = [n \in 1 .. N |-> sources[turn[n]]]
      <4>1. \A n \in 1 .. N : turn[n] = n
        OBVIOUS
      <4>2. sources = [n \in 1 .. N |-> sources[n]]
        BY <1>3
      <4> HIDE DEF turn, N
      <4> QED BY <2>1, <4>1, <4>2
    <3>2. turn \in [1 .. N -> 1 .. N] /\ \A n \in 1 .. N : turn[turn[n]] = n
      OBVIOUS
    <3> HIDE DEF turn
    <3> QED BY <3>1, <3>2
  <2>2. CASE supplied = Reverse(sources)
    <3> DEFINE turn == [n \in 1 .. N |-> N - n + 1]
    <3>1. turn \in [1 .. N -> 1 .. N]
      BY <1>3
    <3>2. supplied = [n \in 1 .. N |-> sources[turn[n]]]
      BY <1>3, <2>2 DEF Reverse
    <3>3. \A n \in 1 .. N : turn[turn[n]] = n
      BY <1>3
    <3> HIDE DEF turn
    <3> QED BY <3>1, <3>2, <3>3
  <2> QED BY <2>1, <2>2
<1>7. ASSUME NEW n \in 1 .. N
      PROVE  /\ Holders(supplied, bytes[n]) = {turn[n]}
             /\ artifactsByHash(supplied, bytes[n]) = sources[n]
  <2>1. \A m \in 1 .. N : supplied[m].artifact.bytes = bytes[turn[m]]
    BY <1>3, <1>6
  <2>2. Holders(supplied, bytes[n]) = {turn[n]}
    <3>1. DOMAIN supplied = 1 .. N
      BY <1>6
    <3>2. \A m \in 1 .. N : bytes[turn[m]] = bytes[n] <=> m = turn[n]
      <4> HIDE DEF bytes, N
      <4> QED BY <1>5, <1>6
    <3> HIDE DEF bytes, N
    <3> QED BY <1>6, <2>1, <3>1, <3>2 DEF Holders
  <2>3. turn[n] \in Int /\ turn[n] \in 1 .. N
    <3> HIDE DEF N
    <3> QED BY <1>3, <1>6
  <2>4. Max({turn[n]}) = turn[n]
    BY <2>3 DEF Max
  <2>5. supplied[turn[n]] = sources[n]
    <3> HIDE DEF N
    <3> QED BY <1>6, <2>3
  <2> QED BY <2>2, <2>4, <2>5 DEF artifactsByHash
<1>8. Ordered(bundle, supplied) = sources
  <2>1. Ordered(bundle, supplied) = [n \in 1 .. N |-> sources[n]]
    BY <1>3, <1>4, <1>7 DEF Ordered
  <2> QED BY <1>3, <2>1
<1>9. Recomputed(bundle, supplied) = bundle /\ ~Recomputed(bundle, supplied).error
  <2>1. [sources |-> sources, mapping |-> bundled.mapping, case |-> bundled.case] = bundled
    BY <1>1 DEF AssemblyInputs
  <2> QED BY <1>1, <1>4, <1>8, <2>1 DEF Recomputed
<1>10. RecomputedIssue(bundle, supplied) = "none"
  BY <1>9 DEF RecomputedIssue, Unless
<1>11. ReplayIssues(bundle.declaration.replay) = {}
  <2>1. ASSUME NEW r, r = ReplayOf(result.events, result.evaluation)
        PROVE  ReplayIssues(r) = {}
    <3>1. /\ r.canonicalDatasetHash = r.events
          /\ r.canonicalResultHash = ReplayResultHash(r.events, r.evaluation)
      BY <2>1 DEF ReplayOf
    <3> QED BY <3>1, TwoChecks DEF ReplayIssues, Unless
  <2> QED BY <1>4, <2>1 DEF ReplayIssues
<1>12. verifyBundle(bundle, supplied) = {}
  <2> DEFINE hashes == bundle.declaration.sourceArtifacts
  <2>1. Len(supplied) = Len(hashes)
    BY <1>3, <1>4, <1>6
  <2>2. \A n \in DOMAIN hashes : Holders(supplied, hashes[n]) # {}
    BY <1>3, <1>4, <1>7
  <2> QED BY <1>4, <1>10, <1>11, <2>1, <2>2, TwoChecks DEF verifyBundle, Unless
<1> QED BY <1>12 DEF Verified

\* What assembly made of sources and approvals is verified with those sources,
\* in whatever order; and whatever is edited, hashed again or supplied, what is
\* verified is earned by the artifact it is verified with (assembleEvidenceBundle,
\* verifyBundle).
THEOREM BundleIsHonestHolds == BundleSpec => []BundleIsHonest
<1>1. BundleInv => BundleIsHonest
  BY AssembledAgain, VerifiedEarns DEF BundleIsHonest
<1> QED BY <1>1, BundleInvHolds, PTL

-----------------------------------------------------------------------------
(* An answer under the gate.                                              *)

\* An answer is a sequence of fields, each at a place among the columns or at
\* none, and each to approve or to review.
GateInv ==
    /\ asked \in Inputs
    /\ reply \in Seq(Range(reply))
    /\ \A f \in Range(reply) :
          /\ {"column", "status"} \subseteq DOMAIN f
          /\ f.column \in 0 .. Len(asked.columns)
          /\ f.status \in MappingStatuses

LEMMA GateInvHolds == GateSpec => []GateInv
<1> DEFINE Good(f) == /\ {"column", "status"} \subseteq DOMAIN f
                      /\ f.column \in 0 .. Len(asked.columns)
                      /\ f.status \in MappingStatuses
<1>1. GateInit => GateInv
  <2> SUFFICES ASSUME GateInit PROVE GateInv
    OBVIOUS
  <2> DEFINE m == IF Len(asked.columns) < Len(GoodFields)
                  THEN Len(asked.columns) ELSE Len(GoodFields)
  <2>1. asked \in Inputs /\ reply = [n \in 1 .. m |-> [GoodFields[n] EXCEPT !.column = n]]
    BY DEF GateInit
  <2>2. /\ Len(asked.columns) \in Nat /\ Len(GoodFields) \in Nat
        /\ DOMAIN GoodFields = 1 .. Len(GoodFields)
    BY <2>1, GateAssumption
  <2>3. m \in Nat /\ m <= Len(asked.columns) /\ m <= Len(GoodFields)
    BY <2>2
  <2> HIDE DEF m
  <2>4. ASSUME NEW n \in 1 .. m PROVE Good(reply[n])
    <3>1. GoodFields[n] \in Range(GoodFields)
      BY <2>2, <2>3 DEF Range
    <3>2. /\ {"column", "status"} \subseteq DOMAIN GoodFields[n]
          /\ GoodFields[n].status \in MappingStatuses
      BY <3>1, GateAssumption
    <3>3. reply[n] = [GoodFields[n] EXCEPT !.column = n]
      BY <2>1
    <3>4. n \in 0 .. Len(asked.columns)
      BY <2>2, <2>3
    <3> QED BY <3>2, <3>3, <3>4
  <2>5. reply = [n \in 1 .. m |-> reply[n]]
    BY <2>1
  <2>6. reply \in Seq(Range(reply)) /\ DOMAIN reply = 1 .. m
    BY <2>3, <2>5, OverPlaces
  <2> QED BY <2>1, <2>4, <2>6 DEF GateInv, Range
<1>2. GateInv /\ [GateNext]_gateVars => GateInv'
  <2> SUFFICES ASSUME GateInv, [GateNext]_gateVars PROVE GateInv'
    OBVIOUS
  <2> DEFINE N == Len(reply)
  <2>1. /\ N \in Nat /\ DOMAIN reply = 1 .. N /\ reply \in Seq(Range(reply))
        /\ \A n \in 1 .. N : Good(reply[n])
    BY DEF GateInv, Range
  <2> HIDE DEF N
  <2>2. ASSUME asked' = asked,
               NEW m \in Nat, reply' = [k \in 1 .. m |-> reply'[k]],
               \A k \in 1 .. m : Good(reply'[k])
        PROVE  GateInv'
    <3>1. reply' \in Seq(Range(reply')) /\ DOMAIN reply' = 1 .. m
      BY <2>2, OverPlaces
    <3>2. asked' \in Inputs
      BY <2>2 DEF GateInv
    <3> QED BY <2>2, <3>1, <3>2 DEF GateInv, Range
  <2>3. CASE SpoilEnvelope
    BY <2>3 DEF SpoilEnvelope, Revise, GateInv
  <2>4. CASE ChangeField
    <3>1. PICK n \in DOMAIN reply, c \in Changes :
             /\ asked' = asked
             /\ reply' = [reply EXCEPT ![n] =
                    [t \in DOMAIN @ |-> IF t \in DOMAIN c THEN c[t] ELSE @[t]]]
      BY <2>4 DEF ChangeField, Revise
    <3> DEFINE f == [t \in DOMAIN reply[n] |-> IF t \in DOMAIN c THEN c[t] ELSE reply[n][t]]
    <3>2. Good(f)
      BY <2>1, GateAssumption
    <3>3. reply' = [reply EXCEPT ![n] = f]
      BY <3>1
    <3> HIDE DEF f, Good
    <3>4. \A k \in 1 .. N : Good(reply'[k])
      BY <2>1, <3>2, <3>3
    <3>5. reply' = [k \in 1 .. N |-> reply'[k]]
      BY <2>1, <3>3
    <3> USE DEF Good
    <3> QED BY <2>1, <2>2, <3>1, <3>4, <3>5
  <2>5. CASE Rename
    <3>1. PICK n \in DOMAIN reply, c \in 0 .. Len(asked.columns) :
             asked' = asked /\ reply' = [reply EXCEPT ![n].column = c]
      BY <2>5 DEF Rename, Revise
    <3> DEFINE f == [reply[n] EXCEPT !.column = c]
    <3>2. Good(f)
      BY <2>1
    <3>3. reply' = [reply EXCEPT ![n] = f]
      BY <3>1
    <3> HIDE DEF f, Good
    <3>4. \A k \in 1 .. N : Good(reply'[k])
      BY <2>1, <3>2, <3>3
    <3>5. reply' = [k \in 1 .. N |-> reply'[k]]
      BY <2>1, <3>3
    <3> USE DEF Good
    <3> QED BY <2>1, <2>2, <3>1, <3>4, <3>5
  <2>6. CASE Omit
    <3>1. PICK n \in 1 .. N : asked' = asked /\ reply' = RemoveAt(reply, n)
      BY <2>1, <2>6 DEF Omit, Revise
    <3> DEFINE S == Range(reply)
               before == SubSeq(reply, 1, n - 1)
               after == SubSeq(reply, n + 1, Len(reply))
    <3>2. before \in Seq(S) /\ after \in Seq(S)
      BY <2>1 DEF N
    <3>3. reply' = before \o after
      BY <3>1 DEF RemoveAt
    <3>4. reply' \in Seq(S)
      <4> HIDE DEF before, after, S
      <4> QED BY <3>2, <3>3
    <3>5. \A k \in 1 .. Len(reply') : Good(reply'[k])
      <4>1. \A x \in S : Good(x)
        BY <2>1 DEF Range
      <4> HIDE DEF S, Good
      <4> QED BY <3>4, <4>1
    <3>6. Len(reply') \in Nat /\ reply' = [k \in 1 .. Len(reply') |-> reply'[k]]
      <4> HIDE DEF S
      <4> QED BY <3>4
    <3> QED BY <2>2, <3>1, <3>5, <3>6
  <2>7. CASE Swap
    <3>1. PICK n \in 1 .. (N - 1) :
             /\ asked' = asked
             /\ reply' = [reply EXCEPT ![n] = reply[n + 1], ![n + 1] = reply[n]]
      BY <2>7 DEF Swap, Revise, N
    <3> HIDE DEF Good
    <3>2. \A k \in 1 .. N : Good(reply'[k])
      BY <2>1, <3>1
    <3>3. reply' = [k \in 1 .. N |-> reply'[k]]
      BY <2>1, <3>1
    <3> USE DEF Good
    <3> QED BY <2>1, <2>2, <3>1, <3>2, <3>3
  <2>8. CASE UNCHANGED gateVars
    BY <2>8 DEF gateVars, GateInv
  <2> QED BY <2>3, <2>4, <2>5, <2>6, <2>7, <2>8 DEF GateNext
<1> QED BY <1>1, <1>2, PTL DEF GateSpec

\* What version 2 passes answers each column of the input, in their order.
LEMMA PassedInOrder ==
    ASSUME GateInv, Structure = "none"
    PROVE  /\ envelope = "none"
           /\ StructureReason(ByHeader(reply, asked), asked) = "none"
           /\ SampleReason(ByHeader(reply, asked), asked) = "none"
           /\ SchemaMappingProposal(AsProposal(ByHeader(reply, asked), asked))
           /\ asked.columns \in Seq(Range(asked.columns))
           /\ \A m, n \in 1 .. Len(asked.columns) :
                 asked.columns[m] = asked.columns[n] => m = n
           /\ Len(reply) = Len(asked.columns)
           /\ \A n \in 1 .. Len(reply) : reply[n].column = n
<1> DEFINE fields == ByHeader(reply, asked)
           columns == asked.columns
<1>1. /\ envelope = "none"
      /\ StructureReason(fields, asked) = "none" /\ SampleReason(fields, asked) = "none"
  BY DEF Structure, validateMappingStructure
<1>2. /\ SchemaMappingProposal(AsProposal(fields, asked))
      /\ ColumnReason(ColumnsOf(fields), asked) = "none"
  <2> DEFINE mapped == SelectSeq(fields, LAMBDA f : f.targetField # Null)
             r == <<FirstOf([n \in DOMAIN fields |-> FieldReason(fields[n])]),
                    Unless(SchemaMappingProposal(AsProposal(fields, asked)),
                           "OUTPUT_CONTRACT"),
                    Unless(asked.constants.schemaVersion = "1.1", "INPUT_BINDING_MISMATCH"),
                    Unless(\A f \in Range(fields) : f.evidence, "OUTPUT_CONTRACT"),
                    ColumnReason(ColumnsOf(fields), asked),
                    Unless(AllDistinct(mapped, TargetOf), "DUPLICATE_TARGET"),
                    Unless({"sourceEventId", "eventTime", "instrumentId", "eventType"}
                                \subseteq Collected(mapped, TargetOf),
                           "MISSING_REQUIRED_TARGET"),
                    Unless(\A f \in Range(mapped) : compatible(f.targetField, f.transform),
                           "TARGET_TRANSFORM_MISMATCH")>>
  <2>1. FirstOf(r) = "none"
    <3> HIDE DEF fields
    <3> QED BY <1>1 DEF StructureReason
  <2>2. DOMAIN r = 1 .. 8
    OBVIOUS
  <2>3. r[2] = "none" /\ r[5] = "none"
    <3> HIDE DEF r
    <3>1. \A n \in 1 .. 8 : r[n] = "none"
      <4>1. 8 \in Nat
        OBVIOUS
      <4> QED BY <2>1, <2>2, <4>1, FirstOfNone
    <3> QED BY <3>1
  <2> HIDE DEF fields, mapped
  <2> QED BY <2>3 DEF Unless
<1>3. /\ columns \in Seq(Range(columns)) /\ Null \notin Range(columns)
      /\ reply \in Seq(Range(reply))
      /\ \A n \in DOMAIN reply : reply[n].column \in 0 .. Len(columns)
  BY GateAssumption DEF GateInv, Range
<1>4. /\ DOMAIN columns = 1 .. Len(columns) /\ Len(columns) \in Nat
      /\ DOMAIN reply = 1 .. Len(reply) /\ Len(reply) \in Nat
  BY <1>3
<1>5. AllDistinct(columns, Column) /\ ColumnsOf(fields) = columns
  <2> DEFINE answered == ColumnsOf(fields)
             r == <<FirstOf([n \in DOMAIN answered |-> NamesColumn(answered, n, asked)]),
                    Unless(AllDistinct(columns, Column), "DUPLICATE_COLUMN"),
                    Unless(Len(answered) = Len(columns), "MISSING_COLUMN"),
                    Unless(answered = columns, "REORDERED_COLUMN")>>
  <2>1. FirstOf(r) = "none"
    <3> HIDE DEF answered
    <3> QED BY <1>2 DEF ColumnReason, answered
  <2>2. DOMAIN r = 1 .. 4
    OBVIOUS
  <2>3. r[2] = "none" /\ r[4] = "none"
    <3> HIDE DEF r
    <3>1. \A n \in 1 .. 4 : r[n] = "none"
      <4>1. 4 \in Nat
        OBVIOUS
      <4> QED BY <2>1, <2>2, <4>1, FirstOfNone
    <3> QED BY <3>1
  <2> HIDE DEF answered
  <2> QED BY <2>3 DEF Unless, answered
<1>6. Cardinality(Range(columns)) = Len(columns)
  <2>1. Collected(columns, Column) = Range(columns)
    BY DEF Collected, Column, Range
  <2> QED BY <1>5, <2>1 DEF AllDistinct
<1>7. \A m, n \in 1 .. Len(columns) : columns[m] = columns[n] => m = n
  BY <1>3, <1>6, DistinctMembers
<1>8. \A n \in DOMAIN reply :
         ColumnsOf(fields)[n] = IF reply[n].column = 0 THEN Null ELSE columns[reply[n].column]
  BY DEF ColumnsOf, ByHeader
<1>9. DOMAIN columns = DOMAIN reply
  BY <1>5 DEF ColumnsOf, ByHeader
<1>10. Len(reply) = Len(columns)
  BY <1>4, <1>9
<1>11. ASSUME NEW n \in 1 .. Len(reply) PROVE reply[n].column = n
  <2>1. columns[n] = IF reply[n].column = 0 THEN Null ELSE columns[reply[n].column]
    BY <1>4, <1>5, <1>8
  <2>2. n \in 1 .. Len(columns) /\ columns[n] # Null /\ reply[n].column \in 0 .. Len(columns)
    BY <1>3, <1>4, <1>10 DEF Range
  <2>3. reply[n].column \in 1 .. Len(columns)
    BY <1>4, <2>1, <2>2
  <2> QED BY <1>7, <2>1, <2>2, <2>3
<1> HIDE DEF fields
<1> QED BY <1>1, <1>2, <1>3, <1>7, <1>10, <1>11 DEF fields

\* A name for each column that version 2 passes is an identifier for each.
LEMMA PassedById ==
    ASSUME GateInv
    PROVE  VersionsAccept
<1>1. ASSUME Structure = "none" PROVE IdReason(reply, asked) = "none"
  <2> DEFINE each == [n \in DOMAIN reply |-> NamesId(reply, n)]
             r == <<FirstOf(each), Unless(Len(reply) = Len(asked.columns), "MISSING_COLUMN"),
                    Unless(\A n \in DOMAIN reply : reply[n].column = n,
                           "REORDERED_COLUMN")>>
  <2>1. /\ Len(reply) = Len(asked.columns)
        /\ DOMAIN reply = 1 .. Len(reply) /\ Len(reply) \in Nat
        /\ \A n \in DOMAIN reply : reply[n].column = n
    BY <1>1, PassedInOrder DEF GateInv
  <2>2. ASSUME NEW n \in DOMAIN reply PROVE NamesId(reply, n) = "none"
    <3>1. reply[n].column # 0 /\ \A k \in 1 .. (n - 1) : reply[k].column # reply[n].column
      BY <2>1
    <3> DEFINE s == <<Unless(reply[n].column # 0, "INVENTED_COLUMN"),
                      Unless(\A k \in 1 .. (n - 1) : reply[k].column # reply[n].column,
                             "DUPLICATE_COLUMN")>>
    <3>2. \A k \in DOMAIN s : s[k] = "none"
      BY <3>1 DEF Unless
    <3> QED BY <3>2, NoneFirst DEF NamesId
  <2>3. FirstOf(each) = "none"
    BY <2>2, NoneFirst
  <2>4. \A k \in DOMAIN r : r[k] = "none"
    <3> HIDE DEF each
    <3> QED BY <2>1, <2>3 DEF Unless
  <2> QED BY <2>4, NoneFirst DEF IdReason
<1> QED BY <1>1 DEF VersionsAccept, Structure, validateColumnIdStructure,
                     validateMappingStructure

\* A dry run that is approved makes an event of every row.
LEMMA PassedRuns ==
    ASSUME GateInv
    PROVE  ValidIsExecutable
<1> SUFFICES ASSUME Structure = "none" PROVE ValidIsExecutable
  BY DEF ValidIsExecutable
<1> DEFINE fields == ByHeader(reply, asked)
           run == Executable(fields, asked)
           columns == asked.columns
<1>1. /\ envelope = "none" /\ SchemaMappingProposal(AsProposal(fields, asked))
      /\ SampleReason(fields, asked) = "none"
      /\ columns \in Seq(Range(columns)) /\ Len(reply) = Len(columns)
      /\ \A m, n \in 1 .. Len(columns) : columns[m] = columns[n] => m = n
      /\ \A n \in 1 .. Len(reply) : reply[n].column = n
  BY PassedInOrder
<1>2. run.status = "APPROVED"
  <2> HIDE DEF fields
  <2> QED BY <1>1 DEF SampleReason, Unless
<1>3. Len(run.events) = Len(asked.sampleRows)
  <2> DEFINE rows == [n \in DOMAIN asked.sampleRows |-> Row(asked, n)]
             mapping == deriveApprovedSourceMapping(AsProposal(fields, asked))
  <2>1. run = applyApprovedMapping(rows, mapping)
    BY DEF Executable
  <2>2. run.events = [n \in DOMAIN rows |-> candidate(rows[n], mapping)]
    <3> HIDE DEF rows, mapping
    <3> QED BY <1>2, <2>1 DEF applyApprovedMapping, Review
  <2>3. asked.sampleRows \in Seq(Range(asked.sampleRows))
    BY GateAssumption DEF GateInv
  <2>4. DOMAIN rows = 1 .. Len(asked.sampleRows) /\ Len(asked.sampleRows) \in Nat
    BY <2>3
  <2> HIDE DEF rows, mapping, run
  <2> QED BY <2>2, <2>4
<1>4. ASSUME NEW c \in Range(columns)
      PROVE  Cardinality({n \in DOMAIN fields : fields[n].sourceColumn = c}) = 1
  <2>1. PICK k \in 1 .. Len(columns) : c = columns[k]
    BY <1>1 DEF Range
  <2>2. DOMAIN fields = 1 .. Len(columns)
    BY <1>1 DEF ByHeader, GateInv
  <2>3. \A n \in 1 .. Len(columns) : fields[n].sourceColumn = columns[n]
    BY <1>1, <2>2 DEF ByHeader
  <2>4. {n \in DOMAIN fields : fields[n].sourceColumn = c} = {k}
    <3> HIDE DEF fields
    <3> QED BY <1>1, <2>1, <2>2, <2>3
  <2> QED BY <2>4, FS_Singleton
<1> HIDE DEF fields, run
<1> QED BY <1>1, <1>2, <1>3, <1>4 DEF ValidIsExecutable, fields, run

\* What an answer may be approved with was decided.
LEMMA PassedDecided ==
    ASSUME GateInv
    PROVE  ReadyIsDecided
<1> SUFFICES ASSUME approvalReady(Structure, reply) = "none", NEW n \in DOMAIN reply
             PROVE  reply[n].status = "PROPOSED" /\ reply[n].confidence = "one"
  BY DEF ReadyIsDecided
<1>1. ~requiresMappingOverride(reply[n])
  BY DEF approvalReady, Unless
<1>2. reply[n].status \in MappingStatuses
  BY DEF GateInv, Range
<1> QED BY <1>1, <1>2 DEF requiresMappingOverride, MappingStatuses

\* What a fixture does not know, the legacy contract admits as it is.
LEMMA UnknownIsAnswered ==
    ASSUME asked \in Inputs, asked.artifact \notin DOMAIN Registered,
           asked.constants = ConstantsOf("1.4")
    PROVE  /\ propose(asked) = FixtureAnswer(asked)
           /\ \A f \in Range(FixtureAnswer(asked).fields) : requiresMappingOverride(f)
<1> DEFINE p == FixtureAnswer(asked)
           Left(f) == /\ f.targetField = Null /\ f.transform = Null
                      /\ f.status = "REVIEW_REQUIRED"
<1>1. artifactMapping(asked) = Unregistered
  BY DEF artifactMapping
<1>2. /\ p.mappingVersion = "1.4" /\ p.constants = asked.constants
      /\ p.compositeSourceEventId = Null /\ p.compositeEventTime = Null
      /\ p.actorUnmapped = FALSE
      /\ p.fields = [n \in DOMAIN asked.columns |->
                        DeclaredField(Unregistered, asked.columns[n])]
  BY <1>1 DEF FixtureAnswer, Unregistered
<1>3. ASSUME NEW c PROVE Left(DeclaredField(Unregistered, c))
  BY DEF DeclaredField, Unregistered, Undeclared
<1> HIDE DEF p
<1>4. \A n \in DOMAIN p.fields : Left(p.fields[n])
  BY <1>2, <1>3
<1>5. ASSUME NEW f, Left(f) PROVE MappingField(f) /\ FieldAllowed("1.4", f)
  BY <1>5, GateAssumption DEF MappingField, FieldAllowed
<1>6. CompositeSourceEventId(p) /\ CompositeEventTime(p) /\ UnmappedFields(p)
  BY <1>2 DEF CompositeSourceEventId, CompositeEventTime, UnmappedFields
<1>7. SchemaMappingProposal(p)
  <2>1. p.constants = ConstantsOf(p.mappingVersion)
    BY <1>2
  <2>2. \A n \in DOMAIN p.fields :
           MappingField(p.fields[n]) /\ FieldAllowed(p.mappingVersion, p.fields[n])
    BY <1>2, <1>4, <1>5
  <2> QED BY <1>6, <2>1, <2>2 DEF SchemaMappingProposal
<1>8. BindsConstants(asked)
  <2>1. ConstantsOf("1.4") = [schemaVersion |-> "1.1", eventType |-> Null]
    BY DEF ConstantsOf
  <2>2. ~RequiresRegistered(asked)
    BY <2>1, GateAssumption DEF RequiresRegistered
  <2> QED BY <1>1, <2>2 DEF BindsConstants, usesRegisteredConstants, Unregistered
<1>9. \A f \in Range(p.fields) : requiresMappingOverride(f)
  BY <1>4 DEF Range, requiresMappingOverride
<1> QED BY <1>7, <1>8, <1>9 DEF propose, p

LEMMA FixtureKeeps ==
    ASSUME GateInv
    PROVE  FixtureKeepsContract
<1>1. ASSUME propose(asked) # Null
      PROVE  /\ SchemaMappingProposal(propose(asked))
             /\ propose(asked).constants = asked.constants
             /\ ColumnsOf(propose(asked).fields) = asked.columns
             /\ \/ usesRegisteredConstants(propose(asked).mappingVersion)
                \/ RequiresRegistered(asked)
                => /\ asked.artifact \in DOMAIN Registered
                   /\ propose(asked).mappingVersion
                        = Registered[asked.artifact].mappingVersion
                   /\ asked.constants = Registered[asked.artifact].constants
  <2>1. /\ BindsConstants(asked) /\ SchemaMappingProposal(FixtureAnswer(asked))
        /\ propose(asked) = FixtureAnswer(asked)
    BY <1>1 DEF propose
  <2>2. /\ FixtureAnswer(asked).constants = asked.constants
        /\ FixtureAnswer(asked).mappingVersion = artifactMapping(asked).mappingVersion
    BY DEF FixtureAnswer
  <2>3. ColumnsOf(FixtureAnswer(asked).fields) = asked.columns
    <3>1. asked.columns \in Seq(Range(asked.columns))
      BY GateAssumption DEF GateInv
    <3>2. asked.columns = [n \in DOMAIN asked.columns |-> asked.columns[n]]
      BY <3>1
    <3>3. ColumnsOf(FixtureAnswer(asked).fields)
            = [n \in DOMAIN asked.columns |-> asked.columns[n]]
      BY DEF ColumnsOf, FixtureAnswer, DeclaredField
    <3> QED BY <3>2, <3>3
  <2>4. ASSUME usesRegisteredConstants(artifactMapping(asked).mappingVersion)
                  \/ RequiresRegistered(asked)
        PROVE  /\ asked.artifact \in DOMAIN Registered
               /\ asked.constants = Registered[asked.artifact].constants
    <3>1. /\ usesRegisteredConstants(artifactMapping(asked).mappingVersion)
          /\ asked.constants = artifactMapping(asked).constants
      BY <2>1, <2>4 DEF BindsConstants
    <3>2. asked.artifact \in DOMAIN Registered
      BY <3>1 DEF artifactMapping, Unregistered, usesRegisteredConstants
    <3> QED BY <3>1, <3>2 DEF artifactMapping
  <2> QED BY <2>1, <2>2, <2>3, <2>4 DEF artifactMapping
<1>2. asked \in Inputs
  BY DEF GateInv
<1> QED BY <1>1, <1>2, UnknownIsAnswered DEF FixtureKeepsContract

\* validateMappingStructure and what it stands before: an answer it passes
\* maps each column once and runs on every sample row; naming the columns by
\* identifier passes the same answers; what is ready for approval leaves no
\* field to a person; and the fixture answers as its contract says.
THEOREM GateIsSoundHolds == GateSpec => []GateIsSound
<1>1. GateInv => GateIsSound
  BY PassedRuns, PassedById, PassedDecided, FixtureKeeps DEF GateIsSound
<1> QED BY <1>1, GateInvHolds, PTL

-----------------------------------------------------------------------------
(* Places in a finite set.                                                 *)

\* A finite set of numbers has its minimum.
LEMMA MinIsLeast ==
    ASSUME NEW S \in SUBSET Int, IsFiniteSet(S), S # {}
    PROVE  Min(S) \in S /\ \A y \in S : Min(S) <= y
BY FiniteHasLeast DEF Min

\* How many elements of a set a relation puts before one.
PlaceIn(S, R, x) == Cardinality({w \in S : <<w, x>> \in R})

\* In a finite set in strict order, the number of those before an element is
\* its place: each place from none to all but one is taken, by one element.
LEMMA PlacesAreTaken ==
    ASSUME NEW S, IsFiniteSet(S), NEW R,
           \A x \in S : <<x, x>> \notin R,
           \A x, y, z \in S : <<x, y>> \in R /\ <<y, z>> \in R => <<x, z>> \in R,
           \A x, y \in S : x # y => <<x, y>> \in R \/ <<y, x>> \in R
    PROVE  /\ \A x \in S : PlaceIn(S, R, x) \in 0 .. Cardinality(S) - 1
           /\ \A x, y \in S : <<x, y>> \in R => PlaceIn(S, R, x) < PlaceIn(S, R, y)
           /\ \A n \in 0 .. Cardinality(S) - 1 : \E x \in S : PlaceIn(S, R, x) = n
<1> DEFINE Below(x) == {w \in S : <<w, x>> \in R}
           place(x) == Cardinality(Below(x))
           N == Cardinality(S)
<1>1. \A x \in S : IsFiniteSet(Below(x)) /\ place(x) \in Nat
  BY FS_Subset, FS_CardinalityType
<1>2. N \in Nat
  BY FS_CardinalityType
<1>3. ASSUME NEW x \in S, NEW y \in S, <<x, y>> \in R PROVE place(x) < place(y)
  <2>1. Below(x) \subseteq Below(y) /\ x \in Below(y) /\ x \notin Below(x)
    BY <1>3
  <2> HIDE DEF Below
  <2>2. place(x) <= place(y) /\ place(x) # place(y)
    BY <1>1, <2>1, FS_Subset
  <2> QED BY <1>1, <2>2
<1>4. ASSUME NEW x \in S PROVE place(x) \in 0 .. N - 1
  <2>1. Below(x) \subseteq S /\ x \notin Below(x)
    OBVIOUS
  <2> HIDE DEF Below
  <2>2. place(x) <= N /\ place(x) # N
    BY <2>1, FS_Subset
  <2> QED BY <1>1, <1>2, <2>2
<1> HIDE DEF Below
<1> DEFINE f == [x \in S |-> place(x)]
<1>5. f \in Injection(S, 0 .. N - 1)
  <2>1. f \in [S -> 0 .. N - 1]
    BY <1>4
  <2>2. ASSUME NEW x \in S, NEW y \in S, f[x] = f[y] PROVE x = y
    <3>1. SUFFICES ASSUME x # y PROVE FALSE
      OBVIOUS
    <3>2. place(x) \in Int /\ place(y) \in Int /\ place(x) = place(y)
      BY <1>1, <2>2
    <3>3. <<x, y>> \in R => place(x) < place(y)
      BY <1>3
    <3>4. <<y, x>> \in R => place(y) < place(x)
      BY <1>3
    <3>5. <<x, y>> \in R \/ <<y, x>> \in R
      BY <3>1
    <3> HIDE DEF place
    <3> QED BY <3>2, <3>3, <3>4, <3>5
  <2> HIDE DEF f
  <2> QED BY <2>1, <2>2, Fun_IsInj
<1>6. IsFiniteSet(0 .. N - 1) /\ Cardinality(0 .. N - 1) = N
  <2>1. 0 \in Int /\ N - 1 \in Int
    BY <1>2
  <2> HIDE DEF N
  <2>2. IsFiniteSet(0 .. N - 1)
        /\ Cardinality(0 .. N - 1) = IF 0 > N - 1 THEN 0 ELSE N - 1 - 0 + 1
    BY <2>1, FS_Interval, Zenon
  <2> QED BY <1>2, <2>2
<1>7. f \in Surjection(S, 0 .. N - 1)
  <2> HIDE DEF f
  <2> QED BY <1>5, <1>6, FS_Injection
<1>8. ASSUME NEW n \in 0 .. N - 1 PROVE \E x \in S : place(x) = n
  BY <1>7, <1>8 DEF Surjection
<1> QED BY <1>3, <1>4, <1>8 DEF Below, PlaceIn

-----------------------------------------------------------------------------
(* Canonicalization.                                                       *)

Record ==
    [source : Int, eventId : Int, eventTime : [local : Int, offset : Int],
     sequence : [zeros : Int, value : Int] \cup {Null}, content : Int,
     rawRowHash : Int, receivedAt : Int]

\* A record in UTC is a record.
LEMMA NormalizedIsRecord ==
    ASSUME NEW e \in Record
    PROVE  normalized(e) \in Record
BY DEF normalized, Record

\* Two records of one projection differ only in when and from which bytes they
\* were collected.
LEMMA ProjectionTells ==
    ASSUME NEW e \in Record, NEW f \in Record
    PROVE  /\ projectCanonicalEvent(e) = projectCanonicalEvent(f)
                => /\ e.source = f.source /\ e.eventId = f.eventId
                   /\ e.eventTime = f.eventTime /\ e.sequence = f.sequence
                   /\ e.content = f.content
           /\ (/\ projectCanonicalEvent(e) = projectCanonicalEvent(f)
               /\ e.rawRowHash = f.rawRowHash /\ e.receivedAt = f.receivedAt)
                => e = f
<1> DEFINE kept == {"source", "eventId", "eventTime", "sequence", "content"}
<1>1. ASSUME NEW r \in Record
      PROVE  projectCanonicalEvent(r) = [x \in kept |-> r[x]]
  <2>1. DOMAIN r \ {"rawRowHash", "receivedAt"} = kept
    BY DEF Record
  <2> QED BY <2>1, Zenon DEF projectCanonicalEvent
<1>2. SUFFICES ASSUME projectCanonicalEvent(e) = projectCanonicalEvent(f)
               PROVE  /\ e.source = f.source /\ e.eventId = f.eventId
                      /\ e.eventTime = f.eventTime /\ e.sequence = f.sequence
                      /\ e.content = f.content
                      /\ e.rawRowHash = f.rawRowHash /\ e.receivedAt = f.receivedAt
                            => e = f
  OBVIOUS
<1>3. \A x \in kept : e[x] = f[x]
  <2>1. [x \in kept |-> e[x]] = [x \in kept |-> f[x]]
    BY <1>1, <1>2
  <2> HIDE DEF kept
  <2> QED BY <2>1
<1>4. /\ e.source = f.source /\ e.eventId = f.eventId
      /\ e.eventTime = f.eventTime /\ e.sequence = f.sequence
      /\ e.content = f.content
  BY <1>3
<1> QED BY <1>4 DEF Record

\* What represents a group is of it, and none of it comes sooner.
LEMMA RepresentativeIsLeast ==
    ASSUME NEW s \in Seq(Record), NEW k \in Identities(s)
    PROVE  \E i \in Group(s, k) :
              /\ representative(s, k) = s[i]
              /\ \A j \in Group(s, k) : ~Sooner(s[j], s[i])
<1> DEFINE group == Group(s, k)
           First == {i \in group : \A j \in group : ~Sooner(s[j], s[i])}
           hash == [i \in group |-> s[i].rawRowHash]
<1>1. group \subseteq 1 .. Len(s) /\ group # {}
  BY DEF Group, Identities
<1>2. IsFiniteSet(group) /\ group \subseteq Int
  <2>1. IsFiniteSet(1 .. Len(s))
    BY FS_Interval
  <2> QED BY <1>1, <2>1, FS_Subset
<1>3. \A i \in group : s[i] \in Record
  BY <1>1
<1>4. \A i \in group : s[i].rawRowHash \in Int /\ s[i].receivedAt \in Int
  BY <1>3 DEF Record
<1> HIDE DEF group
<1>5. PICK a \in group : \A j \in group : s[a].rawRowHash <= s[j].rawRowHash
  <2>1. IsFiniteSet(Range(hash)) /\ Range(hash) \in SUBSET Int /\ Range(hash) # {}
    BY <1>1, <1>2, <1>4, ImageFinite DEF Range
  <2>2. PICK h \in Range(hash) : \A y \in Range(hash) : h <= y
    BY <2>1, FiniteHasLeast
  <2> QED BY <2>2 DEF Range
<1> DEFINE Equal == {i \in group : s[i].rawRowHash = s[a].rawRowHash}
           time == [i \in Equal |-> s[i].receivedAt]
<1>6. PICK b \in Equal : \A j \in Equal : s[b].receivedAt <= s[j].receivedAt
  <2>1. IsFiniteSet(Equal) /\ Equal # {} /\ Equal \subseteq group
    BY <1>2, <1>5, FS_Subset
  <2> HIDE DEF Equal
  <2>2. IsFiniteSet(Range(time)) /\ Range(time) \in SUBSET Int /\ Range(time) # {}
    BY <1>4, <2>1, ImageFinite DEF Range
  <2>3. PICK h \in Range(time) : \A y \in Range(time) : h <= y
    BY <2>2, FiniteHasLeast
  <2> QED BY <2>3 DEF Range
<1>7. b \in First
  BY <1>4, <1>5, <1>6 DEF Sooner
<1>8. Min(First) \in First
  <2>1. First \in SUBSET Int /\ IsFiniteSet(First)
    BY <1>2, FS_Subset
  <2> QED BY <1>7, <2>1, MinIsLeast
<1>9. representative(s, k) = s[Min(First)]
  BY DEF representative, group
<1> QED BY <1>8, <1>9 DEF group

Projections(s) == {projectCanonicalEvent(s[i]) : i \in DOMAIN s}

\* A list of records has finitely many identities, each with a representative
\* of its own group.
LEMMA IdentitiesStand ==
    ASSUME NEW s \in Seq(Record)
    PROVE  /\ IsFiniteSet(Identities(s)) /\ Identities(s) \subseteq Int
           /\ \A k \in Identities(s) :
                 /\ representative(s, k) \in Record
                 /\ representative(s, k).source = k
                 /\ \E i \in Group(s, k) : representative(s, k) = s[i]
<1>1. DOMAIN s = 1 .. Len(s) /\ \A i \in DOMAIN s : s[i] \in Record
  OBVIOUS
<1>2. Identities(s) \subseteq Int
  BY <1>1 DEF Identities, Record
<1>3. IsFiniteSet(Identities(s))
  <2> DEFINE f == [i \in DOMAIN s |-> s[i].source]
  <2>1. IsFiniteSet(DOMAIN s)
    BY <1>1, FS_Interval
  <2>2. Identities(s) = Range(f) /\ DOMAIN f = DOMAIN s
    BY DEF Identities, Range
  <2> HIDE DEF f
  <2> QED BY <2>1, <2>2, ImageFinite
<1>4. ASSUME NEW k \in Identities(s)
      PROVE  /\ representative(s, k) \in Record
             /\ representative(s, k).source = k
             /\ \E i \in Group(s, k) : representative(s, k) = s[i]
  BY <1>1, RepresentativeIsLeast DEF Group
<1> QED BY <1>2, <1>3, <1>4

\* Where no group is in conflict, all of a group projects to what its
\* representative does.
LEMMA GroupIsOne ==
    ASSUME NEW s \in Seq(Record), conflictingSourceGroups(s) = {},
           NEW k \in Identities(s), NEW i \in Group(s, k)
    PROVE  projectCanonicalEvent(s[i]) = projectCanonicalEvent(representative(s, k))
<1> DEFINE T == {projectCanonicalEvent(s[j]) : j \in Group(s, k)}
           f == [j \in Group(s, k) |-> projectCanonicalEvent(s[j])]
<1>1. Cardinality(T) = 1
  BY DEF conflictingSourceGroups
<1>2. IsFiniteSet(T)
  <2>1. IsFiniteSet(Group(s, k))
    <3>1. Group(s, k) \subseteq 1 .. Len(s) /\ IsFiniteSet(1 .. Len(s))
      BY FS_Interval DEF Group
    <3> QED BY <3>1, FS_Subset
  <2>2. T = Range(f) /\ DOMAIN f = Group(s, k)
    BY DEF Range
  <2> HIDE DEF f, T
  <2> QED BY <2>1, <2>2, ImageFinite
<1>3. PICK x : T = {x}
  <2> HIDE DEF T
  <2> QED BY <1>1, <1>2, FS_Singleton
<1>4. PICK j \in Group(s, k) : representative(s, k) = s[j]
  BY IdentitiesStand
<1> QED BY <1>3, <1>4

\* What the checks find follows from the projections that a list has.
LEMMA ChecksReadProjections ==
    ASSUME NEW a \in Seq(Record), NEW b \in Seq(Record),
           Projections(a) = Projections(b)
    PROVE  /\ Identities(a) = Identities(b)
           /\ requireConsistentSequencePresence(a) = requireConsistentSequencePresence(b)
           /\ conflictingSourceGroups(a) = conflictingSourceGroups(b)
           /\ {a[i].eventId : i \in DOMAIN a} = {b[i].eventId : i \in DOMAIN b}
<1>1. ASSUME NEW s \in Seq(Record), NEW t \in Seq(Record),
             Projections(s) = Projections(t), NEW i \in DOMAIN s
      PROVE  \E j \in DOMAIN t :
                /\ projectCanonicalEvent(s[i]) = projectCanonicalEvent(t[j])
                /\ s[i].source = t[j].source /\ s[i].eventId = t[j].eventId
                /\ s[i].sequence = t[j].sequence
  <2>1. PICK j \in DOMAIN t : projectCanonicalEvent(s[i]) = projectCanonicalEvent(t[j])
    BY <1>1 DEF Projections
  <2>2. s[i] \in Record /\ t[j] \in Record
    OBVIOUS
  <2> QED BY <2>1, <2>2, ProjectionTells
<1>0. ASSUME NEW s \in Seq(Record), NEW t \in Seq(Record), Projections(s) = Projections(t)
      PROVE  /\ Identities(s) \subseteq Identities(t)
             /\ {s[i].eventId : i \in DOMAIN s} \subseteq {t[i].eventId : i \in DOMAIN t}
  <2>1. ASSUME NEW i \in DOMAIN s
        PROVE  \E j \in DOMAIN t : s[i].source = t[j].source /\ s[i].eventId = t[j].eventId
    BY <1>0, <1>1
  <2> QED BY <2>1 DEF Identities
<1>2. Identities(a) = Identities(b)
  BY <1>0
<1>3. requireConsistentSequencePresence(a) = requireConsistentSequencePresence(b)
  <2>1. ASSUME NEW s \in Seq(Record), NEW t \in Seq(Record),
               Projections(s) = Projections(t), requireConsistentSequencePresence(s)
        PROVE  requireConsistentSequencePresence(t)
    <3>1. \A j \in DOMAIN t : \E i \in DOMAIN s : s[i].sequence = t[j].sequence
      BY <1>1, <2>1
    <3> QED BY <2>1, <3>1 DEF requireConsistentSequencePresence
  <2>2. requireConsistentSequencePresence(a) \in BOOLEAN
        /\ requireConsistentSequencePresence(b) \in BOOLEAN
    BY DEF requireConsistentSequencePresence
  <2> QED BY <2>1, <2>2
<1>4. ASSUME NEW k
      PROVE  {projectCanonicalEvent(a[i]) : i \in Group(a, k)}
                = {projectCanonicalEvent(b[i]) : i \in Group(b, k)}
  <2>1. ASSUME NEW s \in Seq(Record), NEW t \in Seq(Record),
               Projections(s) = Projections(t), NEW i \in Group(s, k)
        PROVE  \E j \in Group(t, k) :
                  projectCanonicalEvent(s[i]) = projectCanonicalEvent(t[j])
    <3>1. i \in DOMAIN s /\ s[i].source = k
      BY <2>1 DEF Group
    <3>2. PICK j \in DOMAIN t :
              /\ projectCanonicalEvent(s[i]) = projectCanonicalEvent(t[j])
              /\ s[i].source = t[j].source
      BY <1>1, <2>1, <3>1
    <3> QED BY <3>1, <3>2 DEF Group
  <2> QED BY <2>1
<1>5. conflictingSourceGroups(a) = conflictingSourceGroups(b)
  BY <1>2, <1>4 DEF conflictingSourceGroups
<1>6. {a[i].eventId : i \in DOMAIN a} = {b[i].eventId : i \in DOMAIN b}
  BY <1>0
<1> QED BY <1>2, <1>3, <1>5, <1>6

\* So does what represents each group and the identifiers that groups share.
LEMMA RepresentativesProject ==
    ASSUME NEW a \in Seq(Record), NEW b \in Seq(Record),
           Projections(a) = Projections(b), conflictingSourceGroups(a) = {}
    PROVE  /\ \A k \in Identities(a) :
                 projectCanonicalEvent(representative(a, k))
                    = projectCanonicalEvent(representative(b, k))
           /\ \A id : Sharing(a, id) = Sharing(b, id)
           /\ conflictingEventIdentifiers(a) = conflictingEventIdentifiers(b)
<1>1. Identities(a) = Identities(b) /\ conflictingSourceGroups(b) = {}
  BY ChecksReadProjections
<1>2. ASSUME NEW k \in Identities(a)
      PROVE  /\ projectCanonicalEvent(representative(a, k))
                    = projectCanonicalEvent(representative(b, k))
             /\ representative(a, k).eventId = representative(b, k).eventId
  <2>1. PICK i \in Group(a, k) : representative(a, k) = a[i]
    BY IdentitiesStand
  <2>2. PICK j \in DOMAIN b : projectCanonicalEvent(a[i]) = projectCanonicalEvent(b[j])
    BY DEF Projections, Group
  <2>3. a[i] \in Record /\ b[j] \in Record
    BY DEF Group
  <2>4. j \in Group(b, k)
    BY <2>2, <2>3, ProjectionTells DEF Group
  <2>5. projectCanonicalEvent(b[j]) = projectCanonicalEvent(representative(b, k))
    BY <1>1, <2>4, GroupIsOne
  <2>6. representative(a, k) \in Record /\ representative(b, k) \in Record
    BY <1>1, IdentitiesStand
  <2> QED BY <2>1, <2>2, <2>5, <2>6, ProjectionTells
<1>3. \A id : Sharing(a, id) = Sharing(b, id)
  BY <1>1, <1>2 DEF Sharing
<1>4. conflictingEventIdentifiers(a) = conflictingEventIdentifiers(b)
  BY <1>3, ChecksReadProjections DEF conflictingEventIdentifiers
<1> QED BY <1>2, <1>3, <1>4

\* The order of events is strict, and decides between any two that differ in
\* their identifier.
LEMMA CompareIsStrict ==
    ASSUME NEW l \in Record, NEW r \in Record
    PROVE  /\ ~compareCanonicalEvents(l, l)
           /\ compareCanonicalEvents(l, r) => ~compareCanonicalEvents(r, l)
           /\ l.eventId # r.eventId
                => compareCanonicalEvents(l, r) \/ compareCanonicalEvents(r, l)
           /\ \A m \in Record : compareCanonicalEvents(l, r) /\ compareCanonicalEvents(r, m)
                                    => compareCanonicalEvents(l, m)
<1> DEFINE number(e) == IF e.sequence = Null THEN 0 ELSE e.sequence.value
<1>1. ASSUME NEW e \in Record
      PROVE  number(e) \in Int /\ e.eventTime.local \in Int /\ e.eventId \in Int
  BY DEF Record
<1>2. \A e, f \in Record : compareCanonicalEvents(e, f) <=>
         \/ e.eventTime.local < f.eventTime.local
         \/ /\ e.eventTime.local = f.eventTime.local
            /\ \/ number(e) < number(f)
               \/ number(e) = number(f) /\ e.eventId < f.eventId
  BY DEF compareCanonicalEvents
<1> HIDE DEF number
<1> QED BY <1>1, <1>2

\* It reads what the projection keeps.
LEMMA CompareReadsProjections ==
    ASSUME NEW l \in Record, NEW r \in Record, NEW m \in Record, NEW n \in Record,
           projectCanonicalEvent(l) = projectCanonicalEvent(m),
           projectCanonicalEvent(r) = projectCanonicalEvent(n)
    PROVE  compareCanonicalEvents(l, r) <=> compareCanonicalEvents(m, n)
<1>1. /\ l.eventTime = m.eventTime /\ l.sequence = m.sequence /\ l.eventId = m.eventId
      /\ r.eventTime = n.eventTime /\ r.sequence = n.sequence /\ r.eventId = n.eventId
  BY ProjectionTells
<1> QED BY <1>1 DEF compareCanonicalEvents

\* A list that the checks pass.
Unambiguous(s) ==
    conflictingSourceGroups(s) = {} /\ conflictingEventIdentifiers(s) = {}

\* Two groups of such a list have different identifiers.
LEMMA IdentifiersDiffer ==
    ASSUME NEW s \in Seq(Record), Unambiguous(s),
           NEW j \in Identities(s), NEW k \in Identities(s), j # k
    PROVE  representative(s, j).eventId # representative(s, k).eventId
<1> DEFINE id == representative(s, j).eventId
<1>0. j # k
  OBVIOUS
<1>1. SUFFICES ASSUME representative(s, k).eventId = id PROVE FALSE
  OBVIOUS
<1>2. IsFiniteSet(Sharing(s, id))
  <2>1. Sharing(s, id) \subseteq Identities(s) /\ IsFiniteSet(Identities(s))
    BY IdentitiesStand DEF Sharing
  <2> QED BY <2>1, FS_Subset
<1>3. {j, k} \subseteq Sharing(s, id)
  BY <1>1 DEF Sharing
<1>4. IsFiniteSet({j, k}) /\ Cardinality({j, k}) = 2
  <2>1. IsFiniteSet({j}) /\ Cardinality({j}) = 1
    BY FS_Singleton
  <2>2. IsFiniteSet({j} \cup {k}) /\ Cardinality({j} \cup {k}) = 2
    <3>1. k \notin {j}
      BY <1>0
    <3>2. /\ IsFiniteSet({j} \cup {k})
          /\ Cardinality({j} \cup {k})
                = IF k \in {j} THEN Cardinality({j}) ELSE Cardinality({j}) + 1
      BY <2>1, FS_AddElement, Zenon
    <3>3. IsFiniteSet({j} \cup {k}) /\ Cardinality({j} \cup {k}) = Cardinality({j}) + 1
      BY <3>1, <3>2, Zenon
    <3>4. Cardinality({j}) + 1 = 2
      BY <2>1
    <3> QED BY <3>3, <3>4, Zenon
  <2>3. {j} \cup {k} = {j, k}
    OBVIOUS
  <2> QED BY <2>2, <2>3
<1> HIDE DEF id
<1>5. Cardinality(Sharing(s, id)) > 1
  <2>1. Cardinality({j, k}) <= Cardinality(Sharing(s, id))
    BY <1>2, <1>3, FS_Subset
  <2>2. Cardinality(Sharing(s, id)) \in Nat
    BY <1>2, FS_CardinalityType
  <2> QED BY <1>4, <2>1, <2>2
<1>6. id \in {s[i].eventId : i \in DOMAIN s}
  BY IdentitiesStand DEF id, Group
<1> QED BY <1>5, <1>6 DEF Unambiguous, conflictingEventIdentifiers

\* So the order of events alone sorts it.
LEMMA BeforeIsCompare ==
    ASSUME NEW s \in Seq(Record), Unambiguous(s),
           NEW j \in Identities(s), NEW k \in Identities(s)
    PROVE  Before(s, j, k)
             <=> compareCanonicalEvents(representative(s, j), representative(s, k))
<1>1. representative(s, j) \in Record /\ representative(s, k) \in Record
  BY IdentitiesStand
<1>2. CASE j = k
  <2>1. ~(Min(Group(s, j)) < Min(Group(s, k)))
    <3>1. Group(s, j) \in SUBSET Int /\ IsFiniteSet(Group(s, j)) /\ Group(s, j) # {}
      <4>1. Group(s, j) \subseteq 1 .. Len(s) /\ IsFiniteSet(1 .. Len(s))
        BY FS_Interval DEF Group
      <4>2. Group(s, j) # {}
        BY IdentitiesStand
      <4> QED BY <4>1, <4>2, FS_Subset
    <3>2. Min(Group(s, j)) \in Int
      BY <3>1, MinIsLeast
    <3> QED BY <1>2, <3>2
  <2> QED BY <1>1, <1>2, <2>1, CompareIsStrict DEF Before
<1>3. CASE j # k
  <2>1. representative(s, j).eventId # representative(s, k).eventId
    BY <1>3, IdentifiersDiffer
  <2> QED BY <1>1, <2>1, CompareIsStrict DEF Before
<1> QED BY <1>2, <1>3

\* Each place from the first to the last is that of one group, and groups have
\* their places in the order of their representatives.
LEMMA SortedPlaces ==
    ASSUME NEW s \in Seq(Record), Unambiguous(s)
    PROVE  LET N == Cardinality(Identities(s))
           IN  /\ N \in Nat
               /\ \A k \in Identities(s) : Place(s, k) \in 0 .. N - 1
               /\ \A j, k \in Identities(s) :
                     compareCanonicalEvents(representative(s, j), representative(s, k))
                        <=> Place(s, j) < Place(s, k)
               /\ \A j, k \in Identities(s) : Place(s, j) = Place(s, k) => j = k
               /\ \A n \in 0 .. N - 1 : \E k \in Identities(s) : Place(s, k) = n
<1> DEFINE S == Identities(s)
           N == Cardinality(S)
           R == {p \in S \X S : compareCanonicalEvents(representative(s, p[1]),
                                                       representative(s, p[2]))}
           C(j, k) == compareCanonicalEvents(representative(s, j), representative(s, k))
<1>1. IsFiniteSet(S) /\ N \in Nat
  BY IdentitiesStand, FS_CardinalityType
<1>2. \A k \in S : representative(s, k) \in Record
  BY IdentitiesStand
<1>3. /\ \A x \in S : ~C(x, x)
      /\ \A x, y, z \in S : C(x, y) /\ C(y, z) => C(x, z)
      /\ \A x, y \in S : C(x, y) => ~C(y, x)
      /\ \A x, y \in S : x # y => C(x, y) \/ C(y, x)
  <2>1. \A x \in S : ~C(x, x)
    BY <1>2, CompareIsStrict
  <2>2. ASSUME NEW x \in S, NEW y \in S, NEW z \in S, C(x, y), C(y, z) PROVE C(x, z)
    BY <1>2, <2>2, CompareIsStrict
  <2>3. ASSUME NEW x \in S, NEW y \in S, C(x, y) PROVE ~C(y, x)
    BY <1>2, <2>3, CompareIsStrict
  <2>4. ASSUME NEW x \in S, NEW y \in S, x # y PROVE C(x, y) \/ C(y, x)
    BY <1>2, <2>4, CompareIsStrict, IdentifiersDiffer
  <2> QED BY <2>1, <2>2, <2>3, <2>4
<1>4. \A x, y \in S : <<x, y>> \in R <=> C(x, y)
  OBVIOUS
<1>5. \A k \in S : Place(s, k) = PlaceIn(S, R, k)
  <2> SUFFICES ASSUME NEW k \in S
               PROVE  Place(s, k) = PlaceIn(S, R, k)
    OBVIOUS
  <2>1. {j \in S : Before(s, j, k)} = {j \in S : <<j, k>> \in R}
    BY <1>4, BeforeIsCompare
  <2> QED BY <2>1 DEF Place, PlaceIn
<1> HIDE DEF S, R, C
<1>6. /\ \A x \in S : PlaceIn(S, R, x) \in 0 .. Cardinality(S) - 1
      /\ \A x, y \in S : <<x, y>> \in R => PlaceIn(S, R, x) < PlaceIn(S, R, y)
      /\ \A n \in 0 .. Cardinality(S) - 1 : \E x \in S : PlaceIn(S, R, x) = n
  <2>1. /\ \A x \in S : <<x, x>> \notin R
        /\ \A x, y, z \in S : <<x, y>> \in R /\ <<y, z>> \in R => <<x, z>> \in R
        /\ \A x, y \in S : x # y => <<x, y>> \in R \/ <<y, x>> \in R
    BY <1>3, <1>4
  <2> QED BY <1>1, <2>1, PlacesAreTaken, Zenon
<1>7. /\ \A x \in S : Place(s, x) \in 0 .. N - 1
      /\ \A x, y \in S : C(x, y) => Place(s, x) < Place(s, y)
      /\ \A n \in 0 .. N - 1 : \E x \in S : Place(s, x) = n
  BY <1>4, <1>5, <1>6
<1>8. \A x \in S : Place(s, x) \in Int
  BY <1>7
<1>9. \A x, y \in S : (C(x, y) <=> Place(s, x) < Place(s, y))
                      /\ (Place(s, x) = Place(s, y) => x = y)
  BY <1>3, <1>7, <1>8
<1> QED BY <1>1, <1>7, <1>9 DEF S, C

\* The event at a place is the representative whose place it is.
LEMMA SortedEvents ==
    ASSUME NEW s \in Seq(Record), Unambiguous(s)
    PROVE  /\ DOMAIN sorted(s) = 1 .. Cardinality(Identities(s))
           /\ \A n \in DOMAIN sorted(s) : \E k \in Identities(s) :
                 Place(s, k) = n - 1 /\ sorted(s)[n] = representative(s, k)
<1> DEFINE N == Cardinality(Identities(s))
           at(n) == CHOOSE k \in Identities(s) : Place(s, k) = n - 1
<1>1. sorted(s) = [n \in 1 .. N |-> representative(s, at(n))]
  BY DEF sorted
<1>2. ASSUME NEW n \in 1 .. N PROVE at(n) \in Identities(s) /\ Place(s, at(n)) = n - 1
  <2>1. N \in Nat
    BY SortedPlaces
  <2>2. n - 1 \in 0 .. N - 1
    BY <2>1
  <2> HIDE DEF N
  <2>3. \E k \in Identities(s) : Place(s, k) = n - 1
    BY <2>2, SortedPlaces DEF N
  <2> QED BY <2>3
<1> HIDE DEF at, N
<1> QED BY <1>1, <1>2 DEF N

\* Two lists of the same projections are sorted alike.
LEMMA SortedAlike ==
    ASSUME NEW a \in Seq(Record), NEW b \in Seq(Record),
           Projections(a) = Projections(b), Unambiguous(a)
    PROVE  /\ Identities(a) = Identities(b) /\ Unambiguous(b)
           /\ canonicalReplayResultHash(sorted(a)) = canonicalReplayResultHash(sorted(b))
           /\ (\A k \in Identities(a) : representative(a, k) = representative(b, k))
                => sorted(a) = sorted(b)
<1> DEFINE S == Identities(a)
<1>1. S = Identities(b) /\ Unambiguous(b)
  BY ChecksReadProjections, RepresentativesProject DEF Unambiguous
<1>2. \A k \in S : representative(a, k) \in Record /\ representative(b, k) \in Record
  BY <1>1, IdentitiesStand
<1>3. \A k \in S : projectCanonicalEvent(representative(a, k))
                      = projectCanonicalEvent(representative(b, k))
  BY RepresentativesProject DEF Unambiguous
<1>4. ASSUME NEW k \in S PROVE Place(a, k) = Place(b, k)
  <2>1. ASSUME NEW j \in S PROVE Before(a, j, k) <=> Before(b, j, k)
    <3>1. compareCanonicalEvents(representative(a, j), representative(a, k))
            <=> compareCanonicalEvents(representative(b, j), representative(b, k))
      BY <1>2, <1>3, CompareReadsProjections
    <3> QED BY <1>1, <3>1, BeforeIsCompare
  <2>2. {j \in S : Before(a, j, k)} = {j \in S : Before(b, j, k)}
    BY <2>1
  <2> QED BY <1>1, <2>2 DEF Place
<1>5. /\ DOMAIN sorted(a) = DOMAIN sorted(b)
      /\ \A n \in DOMAIN sorted(a) : \E k \in S :
            sorted(a)[n] = representative(a, k) /\ sorted(b)[n] = representative(b, k)
  <2>1. DOMAIN sorted(a) = DOMAIN sorted(b)
    BY <1>1, SortedEvents
  <2>2. ASSUME NEW n \in DOMAIN sorted(a)
        PROVE  \E k \in S : sorted(a)[n] = representative(a, k)
                               /\ sorted(b)[n] = representative(b, k)
    <3>1. PICK k \in S : Place(a, k) = n - 1 /\ sorted(a)[n] = representative(a, k)
      BY SortedEvents
    <3>2. PICK m \in S : Place(b, m) = n - 1 /\ sorted(b)[n] = representative(b, m)
      BY <1>1, <2>1, SortedEvents
    <3>3. k = m
      <4>1. Place(b, k) = Place(b, m)
        BY <1>4, <3>1, <3>2
      <4> QED BY <1>1, <4>1, SortedPlaces
    <3> QED BY <3>1, <3>2, <3>3
  <2> QED BY <2>1, <2>2
<1>6. canonicalReplayResultHash(sorted(a)) = canonicalReplayResultHash(sorted(b))
  <2>1. \A n \in DOMAIN sorted(a) :
           projectCanonicalEvent(sorted(a)[n]) = projectCanonicalEvent(sorted(b)[n])
    BY <1>3, <1>5
  <2> QED BY <1>5, <2>1 DEF canonicalReplayResultHash
<1>7. ASSUME \A k \in S : representative(a, k) = representative(b, k)
      PROVE  sorted(a) = sorted(b)
  <2>1. \A n \in DOMAIN sorted(a) : sorted(a)[n] = sorted(b)[n]
    BY <1>5, <1>7
  <2>2. /\ sorted(a) = [n \in DOMAIN sorted(a) |-> sorted(a)[n]]
        /\ sorted(b) = [n \in DOMAIN sorted(b) |-> sorted(b)[n]]
    BY DEF sorted
  <2> QED BY <1>5, <2>1, <2>2
<1> QED BY <1>1, <1>6, <1>7

Validated(s) == [i \in DOMAIN s |-> normalized(s[i])]

\* What canonicalizeEvents answers to n records of which these were made.
Answered(v, n) ==
    IF ~requireConsistentSequencePresence(v) THEN failure("MIXED_SEQUENCE_PRESENCE", {})
    ELSE IF conflictingSourceGroups(v) # {}
    THEN failure("CONFLICTING_SOURCE_IDENTITY", {Min(conflictingSourceGroups(v))})
    ELSE IF conflictingEventIdentifiers(v) # {}
    THEN LET sharing == Sharing(v, Min(conflictingEventIdentifiers(v)))
         IN  failure("CONFLICTING_EVENT_IDENTIFIER",
                     {Min(sharing), Min(sharing \ {Min(sharing)})})
    ELSE [code |-> "none", about |-> {}, events |-> sorted(v),
          duplicateCount |-> n - Cardinality(Identities(v))]

LEMMA CanonicalizeAnswers ==
    ASSUME NEW s \in Seq(Record)
    PROVE  /\ Validated(s) \in Seq(Record)
           /\ Len(Validated(s)) = Len(s)
           /\ canonicalizeEvents(s) = Answered(Validated(s), Len(s))
<1>1. Validated(s) \in Seq(Record) /\ Len(Validated(s)) = Len(s)
  <2>1. DOMAIN s = 1 .. Len(s) /\ \A i \in DOMAIN s : normalized(s[i]) \in Record
    BY NormalizedIsRecord
  <2> QED BY <2>1 DEF Validated
<1>2. canonicalizeEvents(s) = Answered(Validated(s), Len(s))
  BY Zenon DEF canonicalizeEvents, Answered, Validated
<1> QED BY <1>1, <1>2

\* An answer without an error is to a list that the checks pass.
LEMMA AnsweredNone ==
    ASSUME NEW v, NEW n, Answered(v, n).code = "none"
    PROVE  /\ requireConsistentSequencePresence(v) /\ Unambiguous(v)
           /\ Answered(v, n).events = sorted(v)
           /\ Answered(v, n).duplicateCount = n - Cardinality(Identities(v))
BY DEF Answered, failure, Unambiguous

\* And such a list has one.
LEMMA AnsweredOk ==
    ASSUME NEW v, NEW n, requireConsistentSequencePresence(v), Unambiguous(v)
    PROVE  /\ Answered(v, n).code = "none"
           /\ Answered(v, n).events = sorted(v)
           /\ Answered(v, n).duplicateCount = n - Cardinality(Identities(v))
<1>1. conflictingSourceGroups(v) = {} /\ conflictingEventIdentifiers(v) = {}
  BY DEF Unambiguous
<1>2. Answered(v, n) = [code |-> "none", about |-> {}, events |-> sorted(v),
          duplicateCount |-> n - Cardinality(Identities(v))]
  BY <1>1 DEF Answered
<1> QED BY <1>2

\* Two records of which none is sooner are of the same bytes and time.
LEMMA EquallySoon ==
    ASSUME NEW e \in Record, NEW f \in Record, ~Sooner(e, f), ~Sooner(f, e)
    PROVE  e.rawRowHash = f.rawRowHash /\ e.receivedAt = f.receivedAt
<1>1. /\ e.rawRowHash \in Int /\ e.receivedAt \in Int
      /\ f.rawRowHash \in Int /\ f.receivedAt \in Int
  BY DEF Record
<1> QED BY <1>1 DEF Sooner

\* The order of a list decides nothing of the answer: among records that no
\* check parts, only equal ones are equally soon.
LEMMA OrderIsNothingOfAnswer ==
    ASSUME NEW a \in Seq(Record), NEW b \in Seq(Record), NEW n,
           \A i \in DOMAIN a : \E j \in DOMAIN b : a[i] = b[j],
           \A j \in DOMAIN b : \E i \in DOMAIN a : a[i] = b[j]
    PROVE  Answered(a, n) = Answered(b, n)
<1>1. Projections(a) = Projections(b)
  BY DEF Projections
<1>2. /\ Identities(a) = Identities(b)
      /\ requireConsistentSequencePresence(a) = requireConsistentSequencePresence(b)
      /\ conflictingSourceGroups(a) = conflictingSourceGroups(b)
  BY <1>1, ChecksReadProjections
<1>3. ASSUME conflictingSourceGroups(a) = {}
      PROVE  /\ \A id : Sharing(a, id) = Sharing(b, id)
             /\ conflictingEventIdentifiers(a) = conflictingEventIdentifiers(b)
  BY <1>1, <1>3, RepresentativesProject
<1>4. ASSUME Unambiguous(a) PROVE sorted(a) = sorted(b)
  <2>1. ASSUME NEW k \in Identities(a) PROVE representative(a, k) = representative(b, k)
    <3>1. PICK i \in Group(a, k) : /\ representative(a, k) = a[i]
                                   /\ \A j \in Group(a, k) : ~Sooner(a[j], a[i])
      BY RepresentativeIsLeast
    <3>2. PICK j \in Group(b, k) : /\ representative(b, k) = b[j]
                                   /\ \A m \in Group(b, k) : ~Sooner(b[m], b[j])
      BY <1>2, RepresentativeIsLeast
    <3>3. ~Sooner(b[j], a[i])
      BY <3>1 DEF Group
    <3>4. ~Sooner(a[i], b[j])
      BY <3>2 DEF Group
    <3>5. a[i] \in Record /\ b[j] \in Record
      BY DEF Group
    <3>6. a[i].rawRowHash = b[j].rawRowHash /\ a[i].receivedAt = b[j].receivedAt
      BY <3>3, <3>4, <3>5, EquallySoon
    <3>7. projectCanonicalEvent(a[i]) = projectCanonicalEvent(b[j])
      BY <1>1, <1>4, <3>1, <3>2, RepresentativesProject DEF Unambiguous
    <3> QED BY <3>1, <3>2, <3>5, <3>6, <3>7, ProjectionTells
  <2> QED BY <1>1, <1>4, <2>1, SortedAlike
<1>5. CASE conflictingSourceGroups(a) # {}
  BY <1>2, <1>5 DEF Answered
<1>6. CASE conflictingSourceGroups(a) = {} /\ conflictingEventIdentifiers(a) # {}
  BY <1>2, <1>3, <1>6 DEF Answered
<1>7. CASE conflictingSourceGroups(a) = {} /\ conflictingEventIdentifiers(a) = {}
  BY <1>2, <1>3, <1>4, <1>7 DEF Answered, Unambiguous
<1> QED BY <1>5, <1>6, <1>7

\* A record that is collected once more, as it differs from one there is only
\* in when and from which bytes it came, is a duplicate and nothing else.
LEMMA OnceMore ==
    ASSUME NEW s \in Seq(Record), NEW e \in Record, canonicalizeEvents(s).code = "none",
           NEW i \in DOMAIN s,
           projectCanonicalEvent(normalized(s[i])) = projectCanonicalEvent(normalized(e))
    PROVE  LET result == canonicalizeEvents(s)
               again == canonicalizeEvents(Append(s, e))
           IN  /\ again.code = "none"
               /\ canonicalReplayResultHash(again.events)
                    = canonicalReplayResultHash(result.events)
               /\ again.duplicateCount = result.duplicateCount + 1
<1> DEFINE a == Validated(s)
           b == Validated(Append(s, e))
           n == Len(s)
           m == Len(Append(s, e))
<1>1. Append(s, e) \in Seq(Record) /\ m = n + 1 /\ n \in Nat
  OBVIOUS
<1>2. /\ a \in Seq(Record) /\ b \in Seq(Record)
      /\ canonicalizeEvents(s) = Answered(a, n)
      /\ canonicalizeEvents(Append(s, e)) = Answered(b, m)
  BY <1>1, CanonicalizeAnswers
<1>3. Projections(a) = Projections(b)
  <2>1. /\ DOMAIN a = 1 .. n /\ DOMAIN b = 1 .. n + 1
        /\ \A j \in 1 .. n : b[j] = a[j]
        /\ b[n + 1] = normalized(e)
        /\ i \in 1 .. n /\ a[i] = normalized(s[i])
    BY <1>1 DEF Validated
  <2> HIDE DEF a, b, n
  <2>2. Projections(a) \subseteq Projections(b)
    BY <1>1, <2>1 DEF Projections
  <2>3. ASSUME NEW j \in DOMAIN b PROVE projectCanonicalEvent(b[j]) \in Projections(a)
    <3>1. CASE j = n + 1
      BY <2>1, <3>1 DEF Projections
    <3>2. CASE j # n + 1
      <4>1. j \in 1 .. n
        BY <1>1, <2>1, <3>2
      <4> QED BY <2>1, <4>1 DEF Projections
    <3> QED BY <3>1, <3>2
  <2> QED BY <2>2, <2>3 DEF Projections
<1> HIDE DEF a, b, n, m
<1>4. /\ requireConsistentSequencePresence(a) /\ Unambiguous(a)
      /\ canonicalizeEvents(s).events = sorted(a)
      /\ canonicalizeEvents(s).duplicateCount = n - Cardinality(Identities(a))
  BY <1>2, AnsweredNone
<1>5. /\ requireConsistentSequencePresence(b) /\ Unambiguous(b)
      /\ Identities(b) = Identities(a)
      /\ canonicalReplayResultHash(sorted(a)) = canonicalReplayResultHash(sorted(b))
  BY <1>2, <1>3, <1>4, ChecksReadProjections, SortedAlike
<1>6. /\ Answered(b, m).code = "none"
      /\ Answered(b, m).events = sorted(b)
      /\ Answered(b, m).duplicateCount = m - Cardinality(Identities(b))
  BY <1>5, AnsweredOk
<1>7. Cardinality(Identities(a)) \in Nat
  BY <1>2, IdentitiesStand, FS_CardinalityType
<1> QED BY <1>1, <1>2, <1>4, <1>5, <1>6, <1>7

\* The events of an answer are in one strict order.
LEMMA AnswersAreInOrder ==
    ASSUME NEW s \in Seq(Record), Unambiguous(s),
           NEW i \in DOMAIN sorted(s), NEW j \in DOMAIN sorted(s), i < j
    PROVE  /\ compareCanonicalEvents(sorted(s)[i], sorted(s)[j])
           /\ ~compareCanonicalEvents(sorted(s)[j], sorted(s)[i])
           /\ sorted(s)[i].source # sorted(s)[j].source
<1>1. PICK k \in Identities(s) : Place(s, k) = i - 1 /\ sorted(s)[i] = representative(s, k)
  BY SortedEvents
<1>2. PICK m \in Identities(s) : Place(s, m) = j - 1 /\ sorted(s)[j] = representative(s, m)
  BY SortedEvents
<1>3. Place(s, k) < Place(s, m)
  <2>1. i \in Int /\ j \in Int /\ i < j
    BY SortedEvents
  <2> QED BY <1>1, <1>2, <2>1
<1>4. compareCanonicalEvents(representative(s, k), representative(s, m))
  BY <1>3, SortedPlaces
<1>5. /\ representative(s, k) \in Record /\ representative(s, k).source = k
      /\ representative(s, m) \in Record /\ representative(s, m).source = m
  BY IdentitiesStand
<1>6. ~compareCanonicalEvents(representative(s, m), representative(s, k))
  BY <1>4, <1>5, CompareIsStrict
<1>7. k # m
  BY <1>4, <1>6
<1> QED BY <1>1, <1>2, <1>4, <1>5, <1>6, <1>7

\* The batch is a list of records.
LEMMA BatchInv == BatchSpec => [](batch \in Seq(Records))
<1>1. BatchInit => batch \in Seq(Records)
  BY DEF BatchInit
<1>2. batch \in Seq(Records) /\ [BatchNext]_batch => (batch \in Seq(Records))'
  BY AppendProperties DEF BatchNext, Collect
<1> QED BY <1>1, <1>2, PTL DEF BatchSpec

\* Whatever records are collected, and in whatever order: the answer of
\* canonicalizeEvents is that of their set where it is an error or the events,
\* a record collected again changes nothing but the count of duplicates, and
\* the events are in one strict order.
THEOREM ReplayIsDeterministicHolds == BatchSpec => []ReplayIsDeterministic
<1>1. batch \in Seq(Records) => ReplayIsDeterministic
  <2> SUFFICES ASSUME batch \in Seq(Records) PROVE ReplayIsDeterministic
    OBVIOUS
  <2> DEFINE result == canonicalizeEvents(batch)
             v == Validated(batch)
  <2>0. Records \subseteq Record
    BY RecordsAssumption DEF Record
  <2>1. batch \in Seq(Record)
    BY <2>0
  <2>2. v \in Seq(Record) /\ result = Answered(v, Len(batch))
    BY <2>1, CanonicalizeAnswers
  <2>3. ASSUME NEW other \in Permuted(batch) PROVE canonicalizeEvents(other) = result
    <3>1. PICK p \in [DOMAIN batch -> DOMAIN batch] :
             /\ {p[i] : i \in DOMAIN batch} = DOMAIN batch
             /\ other = [i \in DOMAIN batch |-> batch[p[i]]]
      BY DEF Permuted
    <3>2. /\ other \in Seq(Record) /\ Len(other) = Len(batch)
          /\ DOMAIN other = DOMAIN batch
      <4>1. DOMAIN batch = 1 .. Len(batch) /\ \A i \in DOMAIN batch : batch[p[i]] \in Record
        BY <2>1, <3>1
      <4> QED BY <2>1, <3>1, <4>1
    <3>3. /\ \A i \in DOMAIN batch : \E j \in DOMAIN other : batch[i] = other[j]
          /\ \A j \in DOMAIN other : \E i \in DOMAIN batch : batch[i] = other[j]
      BY <3>1, <3>2
    <3> DEFINE w == Validated(other)
    <3>4. /\ \A i \in DOMAIN v : \E j \in DOMAIN w : v[i] = w[j]
          /\ \A j \in DOMAIN w : \E i \in DOMAIN v : v[i] = w[j]
      BY <3>3 DEF Validated
    <3>5. w \in Seq(Record) /\ canonicalizeEvents(other) = Answered(w, Len(batch))
      BY <3>2, CanonicalizeAnswers
    <3> HIDE DEF v, w
    <3> QED BY <2>2, <3>4, <3>5, OrderIsNothingOfAnswer
  <2>4. ASSUME result.code = "none", NEW e \in Records, NEW i \in DOMAIN batch,
               projectCanonicalEvent(normalized(batch[i]))
                 = projectCanonicalEvent(normalized(e))
        PROVE  LET again == canonicalizeEvents(Append(batch, e))
               IN  /\ again.code = "none"
                   /\ canonicalReplayResultHash(again.events)
                        = canonicalReplayResultHash(result.events)
                   /\ again.duplicateCount = result.duplicateCount + 1
    <3>1. e \in Record
      BY <2>0
    <3> QED BY <2>1, <2>4, <3>1, OnceMore
  <2>5. ASSUME result.code = "none",
               NEW i \in DOMAIN result.events, NEW j \in DOMAIN result.events, i < j
        PROVE  /\ compareCanonicalEvents(result.events[i], result.events[j])
               /\ ~compareCanonicalEvents(result.events[j], result.events[i])
               /\ result.events[i].source # result.events[j].source
    <3>1. Unambiguous(v) /\ result.events = sorted(v)
      BY <2>2, <2>5, AnsweredNone
    <3> HIDE DEF result, v
    <3> QED BY <2>2, <2>5, <3>1, AnswersAreInOrder
  <2> HIDE DEF v
  <2> QED BY <2>3, <2>4, <2>5 DEF ReplayIsDeterministic
<1> QED BY <1>1, BatchInv, PTL

-----------------------------------------------------------------------------
(* From a name to the rows that can check it.                              *)

Soonest(T, key, p) ==
    Cardinality({m \in T : key[m] < key[p] \/ (key[m] = key[p] /\ m < p)})

Arranges(q, s, T, key) ==
    /\ Members(q) /\ Len(q) = Cardinality(T) /\ DOMAIN q = 1 .. Cardinality(T)
    /\ Range(q) = {s[n] : n \in T}
    /\ \A k \in 1 .. Cardinality(T) : \E p \in T : Soonest(T, key, p) = k - 1 /\ q[k] = s[p]

\* What is kept in order is what was at the kept places, each in its place.
LEMMA InOrderMembers ==
    ASSUME NEW s, NEW T \in SUBSET Int, IsFiniteSet(T), NEW key, \A n \in T : key[n] \in Int
    PROVE  Arranges(InOrder(s, T, key), s, T, key)
<1> DEFINE Ahead(m, n) == key[m] < key[n] \/ (key[m] = key[n] /\ m < n)
           R == {w \in T \X T : Ahead(w[1], w[2])}
           N == Cardinality(T)
           at(k) == CHOOSE p \in T : Soonest(T, key, p) = k - 1
           q == InOrder(s, T, key)
<1>1. N \in Nat
  BY FS_CardinalityType
<1>2. \A m, n \in T : <<m, n>> \in R <=> Ahead(m, n)
  OBVIOUS
<1>3. \A p \in T : Soonest(T, key, p) = PlaceIn(T, R, p)
  <2> SUFFICES ASSUME NEW p \in T PROVE Soonest(T, key, p) = PlaceIn(T, R, p)
    OBVIOUS
  <2>1. {m \in T : Ahead(m, p)} = {m \in T : <<m, p>> \in R}
    BY <1>2
  <2> QED BY <2>1 DEF Soonest, PlaceIn
<1>4. /\ \A m \in T : <<m, m>> \notin R
      /\ \A m, n, p \in T : <<m, n>> \in R /\ <<n, p>> \in R => <<m, p>> \in R
      /\ \A m, n \in T : m # n => <<m, n>> \in R \/ <<n, m>> \in R
  <2> HIDE DEF R
  <2>1. \A m \in T : m \in Int
    OBVIOUS
  <2> QED BY <1>2, <2>1
<1>5. /\ \A p \in T : Soonest(T, key, p) \in 0 .. N - 1
      /\ \A m, n \in T : Ahead(m, n) => Soonest(T, key, m) < Soonest(T, key, n)
      /\ \A k \in 0 .. N - 1 : \E p \in T : Soonest(T, key, p) = k
  <2> HIDE DEF R, Ahead
  <2>1. /\ \A p \in T : PlaceIn(T, R, p) \in 0 .. N - 1
        /\ \A m, n \in T : <<m, n>> \in R => PlaceIn(T, R, m) < PlaceIn(T, R, n)
        /\ \A k \in 0 .. N - 1 : \E p \in T : PlaceIn(T, R, p) = k
    BY <1>4, PlacesAreTaken
  <2> QED BY <1>2, <1>3, <2>1
<1>6. \A m, n \in T : Soonest(T, key, m) = Soonest(T, key, n) => m = n
  <2>1. \A m, n \in T : m # n => Ahead(m, n) \/ Ahead(n, m)
    BY <1>2, <1>4
  <2> HIDE DEF Ahead
  <2> QED BY <1>1, <1>5, <2>1
<1>7. q = [k \in 1 .. N |-> s[at(k)]]
  BY DEF InOrder, Soonest
<1> HIDE DEF Ahead, R
<1>8. \A k \in 1 .. N : at(k) \in T /\ Soonest(T, key, at(k)) = k - 1
  <2> SUFFICES ASSUME NEW k \in 1 .. N PROVE \E p \in T : Soonest(T, key, p) = k - 1
    OBVIOUS
  <2>1. k - 1 \in 0 .. N - 1
    BY <1>1
  <2> QED BY <1>5, <2>1
<1>9. ASSUME NEW n \in T PROVE \E k \in 1 .. N : at(k) = n
  <2>1. Soonest(T, key, n) + 1 \in 1 .. N
        /\ Soonest(T, key, n) = (Soonest(T, key, n) + 1) - 1
    BY <1>1, <1>5
  <2> QED BY <1>6, <1>8, <2>1
<1>10. DOMAIN q = 1 .. N /\ \A k \in 1 .. N : q[k] = s[at(k)]
  BY <1>7
<1> HIDE DEF at
<1>11. Range(q) = {s[n] : n \in T}
  <2>1. \A n \in T : \E k \in 1 .. N : at(k) = n
    BY <1>9
  <2> HIDE DEF q, N
  <2>2. \A x \in Range(q) : \E n \in T : x = s[n]
    BY <1>8, <1>10 DEF Range
  <2>3. \A n \in T : s[n] \in Range(q)
    BY <1>10, <2>1 DEF Range
  <2> QED BY <2>2, <2>3
<1>12. q = [k \in 1 .. N |-> q[k]]
  BY <1>7
<1> HIDE DEF q, N
<1>13. q \in Seq(Range(q)) /\ Len(q) = N
  BY <1>1, <1>12, OverPlaces
<1> QED BY <1>8, <1>10, <1>11, <1>13 DEF q, N, Members, Arranges

\* Values that differ are as many as what they are of.
LEMMA AsManyValues ==
    ASSUME NEW A, IsFiniteSet(A), NEW key, \A m, n \in A : key[m] = key[n] => m = n,
           NEW B, \A n \in A : key[n] \in B, \A x \in B : \E n \in A : x = key[n]
    PROVE  IsFiniteSet(B) /\ Cardinality(B) = Cardinality(A)
<1> DEFINE g == [m \in A |-> key[m]]
<1>1. g \in [A -> B]
  OBVIOUS
<1>2. g \in Bijection(A, B)
  BY <1>1 DEF Bijection, Injection, IsInjective, Surjection
<1>3. ExistsBijection(A, B)
  BY <1>2 DEF ExistsBijection
<1> QED BY <1>3, FS_Bijection

Fewer(K, x) == Cardinality({y \in K : y < x})

\* Where keys differ the place of a member is the number of smaller keys.
LEMMA PlaceOfKey ==
    ASSUME NEW T \in SUBSET Int, IsFiniteSet(T), NEW key, \A n \in T : key[n] \in Int,
           \A m, n \in T : key[m] = key[n] => m = n, NEW n \in T,
           NEW K, \A m \in T : key[m] \in K, \A x \in K : \E m \in T : x = key[m]
    PROVE  Soonest(T, key, n) = Fewer(K, key[n])
<1> DEFINE A == {m \in T : key[m] < key[n] \/ (key[m] = key[n] /\ m < n)}
           B == {y \in K : y < key[n]}
<1>1. \A m \in T : m \in A <=> key[m] < key[n]
  <2> SUFFICES ASSUME NEW m \in T PROVE m \in A <=> key[m] < key[n]
    OBVIOUS
  <2>1. key[m] \in Int /\ key[n] \in Int /\ m \in Int /\ (key[m] = key[n] => m = n)
    OBVIOUS
  <2> QED BY <2>1
<1>2. A \subseteq T
  OBVIOUS
<1>3. IsFiniteSet(A)
  BY <1>2, FS_Subset
<1>4. \A y : y \in B <=> \E m \in T : y = key[m] /\ key[m] < key[n]
  OBVIOUS
<1> HIDE DEF A, B
<1>5. /\ \A m \in A : key[m] \in B
      /\ \A x \in B : \E m \in A : x = key[m]
  BY <1>1, <1>2, <1>4
<1>6. \A l, m \in A : key[l] = key[m] => l = m
  BY <1>2
<1>7. Cardinality(B) = Cardinality(A)
  BY <1>3, <1>5, <1>6, AsManyValues
<1> QED BY <1>7 DEF Soonest, Fewer, A, B

\* Two numbers below which as many numbers of a finite set are, are the same.
LEMMA AsManyBelow ==
    ASSUME NEW K \in SUBSET Int, IsFiniteSet(K), NEW x \in K, NEW y \in K,
           Fewer(K, x) = Fewer(K, y)
    PROVE  x = y
<1>1. \A a, b \in K : a < b => Fewer(K, a) # Fewer(K, b)
  <2> SUFFICES ASSUME NEW a \in K, NEW b \in K, a < b PROVE  Fewer(K, a) # Fewer(K, b)
    OBVIOUS
  <2> DEFINE A == {z \in K : z < a}
             B == {z \in K : z < b}
  <2>0. a \in Int /\ b \in Int /\ \A z \in K : z \in Int
    OBVIOUS
  <2>1. A \subseteq B
    <3> SUFFICES ASSUME NEW z \in A PROVE z \in B
      OBVIOUS
    <3> QED BY <2>0
  <2>1a. a \in B /\ a \notin A
    BY <2>0
  <2>2. IsFiniteSet(B)
    BY FS_Subset
  <2> HIDE DEF A, B
  <2>3. Cardinality(A) # Cardinality(B)
    BY <2>1, <2>1a, <2>2, FS_Subset
  <2> QED BY <2>3 DEF A, B, Fewer
<1> QED BY <1>1

FoundIn(s, T, key, t, U, other) ==
    \A n \in T : \E m \in U : s[n] = t[m] /\ key[n] = other[m]

\* Where keys differ the order of what is kept does not tell how it came.
LEMMA SameOrder ==
    ASSUME NEW s, NEW T \in SUBSET Int, IsFiniteSet(T), NEW key, \A n \in T : key[n] \in Int,
           NEW t, NEW U \in SUBSET Int, IsFiniteSet(U), NEW other, \A n \in U : other[n] \in Int,
           \A m, n \in T : key[m] = key[n] => m = n,
           \A m, n \in U : other[m] = other[n] => m = n,
           FoundIn(s, T, key, t, U, other), FoundIn(t, U, other, s, T, key)
    PROVE  InOrder(s, T, key) = InOrder(t, U, other)
<1> DEFINE K == {key[n] : n \in T}
           below(x) == Fewer(K, x)
           N == Cardinality(T)
<1>1. /\ \A n \in T : key[n] \in K
      /\ \A n \in U : other[n] \in K
      /\ \A x \in K : \E n \in T : x = key[n]
      /\ \A x \in K : \E n \in U : x = other[n]
  <2>1. \A n \in U : other[n] \in K
    BY DEF FoundIn
  <2>2. \A x \in K : \E n \in U : x = other[n]
    BY DEF FoundIn
  <2> QED BY <2>1, <2>2
<1>2. K \in SUBSET Int
  OBVIOUS
<1> HIDE DEF K
<1>3. \A n \in T : Soonest(T, key, n) = below(key[n])
  BY <1>1, PlaceOfKey
<1>4. IsFiniteSet(K) /\ Cardinality(K) = N
  BY <1>1, AsManyValues
<1>5. \A n \in U : Soonest(U, other, n) = below(other[n])
  BY <1>1, PlaceOfKey
<1>6. Cardinality(U) = N
  <2>1. Cardinality(K) = Cardinality(U)
    BY <1>1, AsManyValues
  <2> QED BY <1>4, <2>1
<1>7. \A x, y \in K : below(x) = below(y) => x = y
  BY <1>2, <1>4, AsManyBelow
<1> HIDE DEF below
<1>8. /\ DOMAIN InOrder(s, T, key) = 1 .. N
      /\ \A k \in 1 .. N : \E p \in T :
            Soonest(T, key, p) = k - 1 /\ InOrder(s, T, key)[k] = s[p]
  <2>1. Arranges(InOrder(s, T, key), s, T, key)
    BY InOrderMembers
  <2> QED BY <2>1 DEF Arranges
<1>9. /\ DOMAIN InOrder(t, U, other) = 1 .. Cardinality(U)
      /\ \A k \in 1 .. Cardinality(U) : \E p \in U :
            Soonest(U, other, p) = k - 1 /\ InOrder(t, U, other)[k] = t[p]
  <2>1. Arranges(InOrder(t, U, other), t, U, other)
    BY InOrderMembers
  <2> QED BY <2>1 DEF Arranges
<1> HIDE DEF N
<1>10. ASSUME NEW k \in 1 .. N PROVE InOrder(s, T, key)[k] = InOrder(t, U, other)[k]
  <2>1. PICK p \in T : Soonest(T, key, p) = k - 1 /\ InOrder(s, T, key)[k] = s[p]
    BY <1>8
  <2>2. PICK r \in U : Soonest(U, other, r) = k - 1 /\ InOrder(t, U, other)[k] = t[r]
    BY <1>6, <1>9
  <2>3. key[p] \in K /\ other[r] \in K /\ below(key[p]) = k - 1 /\ below(other[r]) = k - 1
    BY <1>1, <1>3, <1>5, <2>1, <2>2
  <2>3a. key[p] = other[r]
    BY <1>7, <2>3
  <2>4. PICK m \in U : s[p] = t[m] /\ key[p] = other[m]
    BY DEF FoundIn
  <2>5. m = r
    BY <2>3a, <2>4
  <2> QED BY <2>1, <2>2, <2>4, <2>5
<1>11. \A a, b, c : InOrder(a, b, c) = [k \in DOMAIN InOrder(a, b, c) |-> InOrder(a, b, c)[k]]
  BY DEF InOrder
<1>12. /\ InOrder(s, T, key) = [k \in 1 .. N |-> InOrder(s, T, key)[k]]
       /\ InOrder(t, U, other) = [k \in 1 .. N |-> InOrder(t, U, other)[k]]
  BY <1>6, <1>8, <1>9, <1>11
<1> QED BY <1>10, <1>12

Keeps(q, s, T) == Members(q) /\ \A x : x \in Range(q) <=> \E n \in T : x = s[n]

\* A filter keeps what passes it, a sort keeps everything.
LEMMA KeptMembers ==
    ASSUME NEW s, Members(s), NEW T, T \subseteq DOMAIN s
    PROVE  Keeps(Kept(s, T), s, T)
<1> DEFINE zeros == [n \in DOMAIN s |-> 0]
<1>1. DOMAIN s = 1 .. Len(s) /\ Len(s) \in Nat
  BY DEF Members
<1>2. IsFiniteSet(T) /\ T \in SUBSET Int
  BY <1>1, SizeOfInterval, FS_Subset
<1>3. \A n \in T : zeros[n] \in Int
  OBVIOUS
<1> HIDE DEF zeros
<1>4. Arranges(InOrder(s, T, zeros), s, T, zeros)
  BY <1>2, <1>3, InOrderMembers
<1> QED BY <1>4 DEF Arranges, Kept, Keeps, zeros

LEMMA SortMembers ==
    ASSUME NEW s, Members(s), NEW key, \A n \in DOMAIN s : key[n] \in Int
    PROVE  /\ Members(InOrder(s, DOMAIN s, key))
           /\ \A x : x \in Range(InOrder(s, DOMAIN s, key)) <=> x \in Range(s)
<1>1. DOMAIN s = 1 .. Len(s) /\ Len(s) \in Nat
  BY DEF Members
<1>2. IsFiniteSet(DOMAIN s) /\ DOMAIN s \in SUBSET Int
  BY <1>1, SizeOfInterval
<1>3. Arranges(InOrder(s, DOMAIN s, key), s, DOMAIN s, key)
  BY <1>2, InOrderMembers
<1> QED BY <1>3 DEF Arranges, Range

LEMMA EmptyHasNone ==
    ASSUME NEW q, Members(q)
    PROVE  q = <<>> <=> \A x : x \notin Range(q)
<1>1. DOMAIN q = 1 .. Len(q) /\ Len(q) \in Nat
  BY DEF Members
<1>2. ASSUME \A x : x \notin Range(q) PROVE q = <<>>
  <2>1. 1 \notin DOMAIN q
    BY <1>2 DEF Range
  <2>2. Len(q) = 0
    BY <1>1, <2>1
  <2> QED BY <2>2 DEF Members
<1> QED BY <1>2 DEF Range

\* A name is an instrument's on a day where an identifier of that text is
\* valid, however either is written and however the identifiers are ordered.
Bears(i, name, day) ==
    \E d \in Range(i.identifiers) :
        d.value.text = name.text /\ day \in d.validFrom .. d.validThrough

LEMMA ReasonsTell ==
    ASSUME ScopeAssumption, NEW i \in Instruments,
           NEW request, request.eventDate \in Int
    PROVE  /\ orderedIdentifiers(i).instrumentId = i.instrumentId
           /\ reasons(orderedIdentifiers(i), request) # <<>>
                 <=> Bears(i, request.query, request.eventDate)
<1> DEFINE ids == i.identifiers
           key == [n \in DOMAIN ids |-> ids[n].key]
           o == orderedIdentifiers(i)
           same(d) == normalizeInstrumentName(d.value) = normalizeInstrumentName(request.query)
           valid(d) == d.validFrom <= request.eventDate /\ request.eventDate <= d.validThrough
           E == exact(o, request.query)
           r == reasons(o, request)
<1>1. /\ i = [instrumentId |-> i.instrumentId, kind |-> i.kind, identifiers |-> ids]
      /\ Members(ids)
      /\ \A d \in Range(ids) : DatedIdentifier(d)
  BY DEF ScopeAssumption
<1>2. o = [instrumentId |-> i.instrumentId, kind |-> i.kind,
           identifiers |-> InOrder(ids, DOMAIN ids, key)]
  BY <1>1 DEF orderedIdentifiers, SortedBy, CanonicalPlace
<1>3. o.instrumentId = i.instrumentId /\ o.identifiers = InOrder(ids, DOMAIN ids, key)
  BY <1>2
<1>4. Members(o.identifiers) /\ \A x : x \in Range(o.identifiers) <=> x \in Range(ids)
  <2>1. \A n \in DOMAIN ids : key[n] \in Int
    BY <1>1 DEF DatedIdentifier, Range
  <2> HIDE DEF key, ids
  <2> QED BY <1>1, <1>3, <2>1, SortMembers
<1> HIDE DEF o
<1>5. Members(E) /\ \A x : x \in Range(E) <=> x \in Range(ids) /\ same(x)
  <2> DEFINE P == {n \in DOMAIN o.identifiers : same(o.identifiers[n])}
  <2>1. E = Kept(o.identifiers, P)
    BY DEF exact
  <2>2. P \subseteq DOMAIN o.identifiers
    OBVIOUS
  <2>3. \A x : (\E n \in P : x = o.identifiers[n]) <=> x \in Range(o.identifiers) /\ same(x)
    BY DEF Range
  <2> HIDE DEF P, E, same
  <2>4. Members(E) /\ \A x : x \in Range(E) <=> \E n \in P : x = o.identifiers[n]
    BY <1>4, <2>1, <2>2, KeptMembers DEF Keeps
  <2> QED BY <1>4, <2>3, <2>4
<1>6. Members(r) /\ \A x : x \in Range(r) <=> x \in Range(E) /\ valid(x)
  <2> DEFINE P == {n \in DOMAIN E : valid(E[n])}
  <2>1. r = Kept(E, P)
    BY DEF reasons
  <2>2. P \subseteq DOMAIN E
    OBVIOUS
  <2> HIDE DEF E
  <2>3. \A x : (\E n \in P : x = E[n]) <=> x \in Range(E) /\ valid(x)
    BY DEF Range
  <2> HIDE DEF P, r, valid
  <2>4. Members(r) /\ \A x : x \in Range(r) <=> \E n \in P : x = E[n]
    BY <1>5, <2>1, <2>2, KeptMembers DEF Keeps
  <2> QED BY <2>3, <2>4
<1>7. ASSUME NEW d \in Range(ids)
      PROVE  same(d) /\ valid(d) <=> d.value.text = request.query.text
                                     /\ request.eventDate \in d.validFrom .. d.validThrough
  <2>1. DatedIdentifier(d)
    BY <1>1
  <2> DEFINE shown(x) == [text |-> x, lower |-> FALSE, padded |-> FALSE]
  <2>3a. \A x, y : shown(x) = shown(y) <=> x = y
    <3>1. \A x : shown(x).text = x
      OBVIOUS
    <3> QED BY <3>1
  <2>4. same(d) <=> d.value.text = request.query.text
    BY <2>3a DEF normalizeInstrumentName
  <2>5. valid(d) <=> request.eventDate \in d.validFrom .. d.validThrough
    BY <2>1 DEF DatedIdentifier
  <2> QED BY <2>4, <2>5
<1> HIDE DEF same, valid, E, r
<1>8. r # <<>> <=> \E x : x \in Range(ids) /\ same(x) /\ valid(x)
  BY <1>5, <1>6, EmptyHasNone
<1> QED BY <1>3, <1>7, <1>8 DEF Bears, o, r

CandidateOf(i, request) ==
    [instrumentId |-> i.instrumentId, kind |-> orderedIdentifiers(i).kind,
     reasons |-> reasons(orderedIdentifiers(i), request)]

\* The sorted listing has each instrument with its identifiers sorted.
LEMMA ListedInOrder ==
    ASSUME ScopeAssumption, NEW l, l.instruments \in Seq(Instruments)
    PROVE  /\ Members(orderedListing(l).instruments)
           /\ \A x : x \in Range(orderedListing(l).instruments)
                 <=> \E i \in Range(l.instruments) : x = orderedIdentifiers(i)
<1> DEFINE s == l.instruments
           m == [n \in DOMAIN s |-> orderedIdentifiers(s[n])]
           key == [n \in DOMAIN m |-> m[n].instrumentId]
           o == orderedListing(l).instruments
<1>1. DOMAIN s = 1 .. Len(s) /\ Len(s) \in Nat /\ \A n \in DOMAIN s : s[n] \in Instruments
  OBVIOUS
<1>2. o = InOrder(m, DOMAIN m, key)
  BY DEF orderedListing, SortedBy, InstrumentId
<1>3. Members(m)
  <2>1. m = [n \in 1 .. Len(s) |-> m[n]]
    BY <1>1
  <2> HIDE DEF m
  <2> QED BY <1>1, <2>1, OverPlaces DEF Members
<1>4. \A n \in DOMAIN m : key[n] \in Int
  <2> SUFFICES ASSUME NEW n \in DOMAIN s PROVE key[n] \in Int
    OBVIOUS
  <2>1. s[n] \in Instruments /\ s[n].instrumentId \in Int
    BY <1>1 DEF ScopeAssumption
  <2>2. s[n] = [instrumentId |-> s[n].instrumentId, kind |-> s[n].kind,
                identifiers |-> s[n].identifiers]
    BY <2>1 DEF ScopeAssumption
  <2>3. key[n] = s[n].instrumentId
    BY <2>2 DEF orderedIdentifiers
  <2> QED BY <2>1, <2>3
<1>5. \A x : x \in Range(m) <=> \E i \in Range(s) : x = orderedIdentifiers(i)
  BY DEF Range
<1> HIDE DEF m, key, s, o
<1>6. Members(o) /\ \A x : x \in Range(o) <=> x \in Range(m)
  BY <1>2, <1>3, <1>4, SortMembers
<1> QED BY <1>5, <1>6 DEF o, s

Tells(found, s, request) ==
    /\ Members(found)
    /\ \A x : x \in Range(found) <=> \E i \in Range(s) :
          Bears(i, request.query, request.eventDate) /\ x = CandidateOf(i, request)

\* The candidates are the instruments that bear the name on the day.
LEMMA CandidatesAre ==
    ASSUME ScopeAssumption, NEW l, l.instruments \in Seq(Instruments),
           NEW request, request.eventDate \in Int
    PROVE  Tells(candidates(orderedListing(l), request), l.instruments, request)
<1> DEFINE o == orderedListing(l).instruments
           P == {n \in DOMAIN o : reasons(o[n], request) # <<>>}
           bearing == Kept(o, P)
           told(i) == [instrumentId |-> i.instrumentId, kind |-> i.kind,
                       reasons |-> reasons(i, request)]
           c == [n \in DOMAIN bearing |-> told(bearing[n])]
<1>1. candidates(orderedListing(l), request) = c
  BY DEF candidates
<1>2. /\ Members(o)
      /\ \A x : x \in Range(o) <=> \E i \in Range(l.instruments) : x = orderedIdentifiers(i)
  BY ListedInOrder
<1>3. \A i \in Range(l.instruments) :
         /\ i \in Instruments
         /\ told(orderedIdentifiers(i)) = CandidateOf(i, request)
         /\ reasons(orderedIdentifiers(i), request) # <<>>
               <=> Bears(i, request.query, request.eventDate)
  <2> SUFFICES ASSUME NEW i \in Range(l.instruments), i \in Instruments
               PROVE  /\ told(orderedIdentifiers(i)) = CandidateOf(i, request)
                      /\ reasons(orderedIdentifiers(i), request) # <<>>
                            <=> Bears(i, request.query, request.eventDate)
    BY DEF Range
  <2> QED BY ReasonsTell DEF CandidateOf
<1>4. Members(bearing) /\ \A x : x \in Range(bearing) <=> x \in Range(o) /\ reasons(x, request) # <<>>
  <2>1. P \subseteq DOMAIN o
    OBVIOUS
  <2> HIDE DEF o
  <2>2. \A x : (\E n \in P : x = o[n]) <=> x \in Range(o) /\ reasons(x, request) # <<>>
    BY DEF Range
  <2> HIDE DEF P
  <2>3. Members(bearing) /\ \A x : x \in Range(bearing) <=> \E n \in P : x = o[n]
    BY <1>2, <2>1, KeptMembers DEF Keeps
  <2> QED BY <2>2, <2>3
<1> HIDE DEF bearing, o
<1>5. DOMAIN bearing = 1 .. Len(bearing) /\ Len(bearing) \in Nat
  BY <1>4 DEF Members
<1>6. Members(c)
  <2>1. c = [n \in 1 .. Len(bearing) |-> c[n]]
    BY <1>5
  <2> HIDE DEF c
  <2> QED BY <1>5, <2>1, OverPlaces DEF Members
<1>7. \A x : x \in Range(c) <=> \E y \in Range(bearing) : x = told(y)
  BY DEF Range
<1> HIDE DEF c, told
<1>8. \A x : x \in Range(c) <=> \E i \in Range(l.instruments) :
                Bears(i, request.query, request.eventDate) /\ x = CandidateOf(i, request)
  BY <1>2, <1>3, <1>4, <1>7
<1> QED BY <1>1, <1>6, <1>8 DEF Tells

linkOf(b) == [b EXCEPT !.availableDates = SortedBy(@, Date)]

\* What a sorted link says is what its binding says.
LEMMA LinkSays ==
    ASSUME ScopeAssumption, NEW b \in Bindings
    PROVE  /\ linkOf(b).key = b.key
           /\ \A day : day \in Range(linkOf(b).availableDates) <=> day \in Range(b.availableDates)
<1> DEFINE dates == b.availableDates
           key == [n \in DOMAIN dates |-> dates[n]]
<1>1. /\ b = [key |-> b.key, datasetId |-> b.datasetId, source |-> b.source,
              instrumentId |-> b.instrumentId, availableDates |-> dates]
      /\ dates \in Seq(Int)
  BY DEF ScopeAssumption
<1>2. linkOf(b).key = b.key /\ linkOf(b).availableDates = InOrder(dates, DOMAIN dates, key)
  BY <1>1 DEF linkOf, SortedBy, Date
<1>3. Members(dates) /\ \A n \in DOMAIN dates : key[n] \in Int
  BY <1>1 DEF Members, Range
<1> HIDE DEF key, dates
<1>4. \A day : day \in Range(InOrder(dates, DOMAIN dates, key)) <=> day \in Range(dates)
  BY <1>3, SortMembers
<1> QED BY <1>2, <1>4 DEF dates

\* The links are of the bindings that have the day of the one instrument.
LEMMA LinksAre ==
    ASSUME ScopeAssumption, NEW q \in Seq(Bindings), NEW chosen, NEW request,
           NEW x \in Range(links(q, chosen, request))
    PROVE  request.eventDate \in Range(x.availableDates)
<1> DEFINE P == {n \in DOMAIN q : q[n].instrumentId = chosen.instrumentId
                                  /\ request.eventDate \in Range(q[n].availableDates)}
           onDate == Kept(q, P)
           m == [n \in DOMAIN onDate |-> linkOf(onDate[n])]
           key == [n \in DOMAIN m |-> m[n].key]
           L == links(q, chosen, request)
<1>1. L = InOrder(m, DOMAIN m, key)
  BY DEF links, linkOf, SortedBy, CanonicalPlace
<1>2. Members(q) /\ P \subseteq DOMAIN q
  BY DEF Members, Range
<1>3. \A n \in P : q[n] \in Bindings /\ request.eventDate \in Range(q[n].availableDates)
  OBVIOUS
<1> HIDE DEF P
<1>4. Members(onDate) /\ \A y : y \in Range(onDate) <=> \E n \in P : y = q[n]
  BY <1>2, KeptMembers DEF Keeps
<1> HIDE DEF onDate
<1>5. Members(m)
  <2>1. DOMAIN onDate = 1 .. Len(onDate) /\ Len(onDate) \in Nat
    BY <1>4 DEF Members
  <2>2. m = [n \in 1 .. Len(onDate) |-> m[n]]
    BY <2>1
  <2> HIDE DEF m
  <2> QED BY <2>1, <2>2, OverPlaces DEF Members
<1>6. \A n \in DOMAIN m : onDate[n] \in Bindings /\ m[n] = linkOf(onDate[n])
                          /\ request.eventDate \in Range(onDate[n].availableDates)
  <2>1. \A n \in DOMAIN onDate : onDate[n] \in Range(onDate)
    BY DEF Range
  <2> QED BY <1>3, <1>4, <2>1
<1>7. \A n \in DOMAIN m : key[n] \in Int /\ request.eventDate \in Range(m[n].availableDates)
  BY <1>6, LinkSays DEF ScopeAssumption
<1> HIDE DEF m, key
<1>8. x \in Range(m)
  BY <1>1, <1>5, <1>7, SortMembers
<1> QED BY <1>7, <1>8 DEF Range

\* Sorted by keys that differ, the same members are in the same order.
LEMMA SameSorted ==
    ASSUME NEW q, Members(q), NEW r, Members(r),
           NEW key, \A n \in DOMAIN q : key[n] \in Int,
           NEW other, \A n \in DOMAIN r : other[n] \in Int,
           \A m, n \in DOMAIN q : key[m] = key[n] => m = n,
           \A m, n \in DOMAIN r : other[m] = other[n] => m = n,
           \A n \in DOMAIN q, m \in DOMAIN r : q[n] = r[m] => key[n] = other[m],
           Range(q) = Range(r)
    PROVE  InOrder(q, DOMAIN q, key) = InOrder(r, DOMAIN r, other)
<1>1. /\ IsFiniteSet(DOMAIN q) /\ DOMAIN q \in SUBSET Int
      /\ IsFiniteSet(DOMAIN r) /\ DOMAIN r \in SUBSET Int
  <2>1. /\ DOMAIN q = 1 .. Len(q) /\ Len(q) \in Nat
        /\ DOMAIN r = 1 .. Len(r) /\ Len(r) \in Nat
    BY DEF Members
  <2> QED BY <2>1, SizeOfInterval
<1>2. /\ \A n \in DOMAIN q : \E m \in DOMAIN r : q[n] = r[m]
      /\ \A m \in DOMAIN r : \E n \in DOMAIN q : r[m] = q[n]
  BY DEF Range
<1>3. /\ FoundIn(q, DOMAIN q, key, r, DOMAIN r, other)
      /\ FoundIn(r, DOMAIN r, other, q, DOMAIN q, key)
  <2>1. FoundIn(q, DOMAIN q, key, r, DOMAIN r, other)
    <3> SUFFICES ASSUME NEW n \in DOMAIN q
                 PROVE  \E m \in DOMAIN r : q[n] = r[m] /\ key[n] = other[m]
      BY DEF FoundIn
    <3>1. PICK m \in DOMAIN r : q[n] = r[m]
      BY <1>2
    <3> QED BY <3>1
  <2>2. FoundIn(r, DOMAIN r, other, q, DOMAIN q, key)
    <3> SUFFICES ASSUME NEW m \in DOMAIN r
                 PROVE  \E n \in DOMAIN q : r[m] = q[n] /\ other[m] = key[n]
      BY DEF FoundIn
    <3>1. PICK n \in DOMAIN q : r[m] = q[n]
      BY <1>2
    <3> QED BY <3>1
  <2> QED BY <2>1, <2>2
<1> QED BY <1>1, <1>3, SameOrder

\* Fields as many as the members are of one member each.
LEMMA DistinctFields ==
    ASSUME NEW s, Members(s), NEW key, key = [n \in DOMAIN s |-> key[n]],
           Cardinality(Range(key)) = Len(s)
    PROVE  \A m, n \in DOMAIN s : key[m] = key[n] => m = n
<1>1. DOMAIN s = 1 .. Len(s) /\ Len(s) \in Nat
  BY DEF Members
<1>2. key = [n \in 1 .. Len(s) |-> key[n]]
  BY <1>1
<1>3. key \in Seq(Range(key)) /\ Len(key) = Len(s)
  BY <1>1, <1>2, OverPlaces
<1> QED BY <1>1, <1>3, DistinctMembers

LEMMA Turned ==
    ASSUME NEW S, NEW s \in Seq(S)
    PROVE  /\ Reverse(s) \in Seq(S) /\ Len(Reverse(s)) = Len(s) /\ DOMAIN Reverse(s) = DOMAIN s
           /\ \A n \in DOMAIN s : Len(s) - n + 1 \in DOMAIN s /\ Reverse(s)[n] = s[Len(s) - n + 1]
           /\ Range(Reverse(s)) = Range(s)
<1> DEFINE N == Len(s)
<1>1. DOMAIN s = 1 .. N /\ N \in Nat
  OBVIOUS
<1>2. Reverse(s) = [n \in 1 .. N |-> s[(N - n) + 1]]
  BY DEF Reverse
<1>3. \A n \in 1 .. N : (N - n) + 1 \in 1 .. N /\ (N - ((N - n) + 1)) + 1 = n
  BY <1>1
<1>4. Reverse(s) \in Seq(S) /\ Len(Reverse(s)) = N
  BY <1>1, <1>2, <1>3
<1>5. \A x : x \in Range(Reverse(s)) <=> x \in Range(s)
  <2>1. ASSUME NEW x \in Range(s) PROVE x \in Range(Reverse(s))
    <3>1. PICK n \in 1 .. N : x = s[n]
      BY <1>1 DEF Range
    <3>2. (N - n) + 1 \in 1 .. N /\ Reverse(s)[(N - n) + 1] = x
      BY <1>2, <1>3, <3>1
    <3>3. DOMAIN Reverse(s) = 1 .. N
      BY <1>2
    <3> HIDE DEF N
    <3> QED BY <3>2, <3>3 DEF Range
  <2>2. ASSUME NEW x \in Range(Reverse(s)) PROVE x \in Range(s)
    BY <1>1, <1>2, <1>3, <2>2 DEF Range
  <2> QED BY <2>1, <2>2
<1> QED BY <1>1, <1>2, <1>3, <1>4, <1>5

\* Written in another order, a listing of distinct instruments is sorted alike.
LEMMA ListingTurned ==
    ASSUME ScopeAssumption, NEW s \in Seq(Instruments), AllDistinct(s, InstrumentId)
    PROVE  orderedListing([sources |-> Sources, instruments |-> Reverse(s)])
              = orderedListing([sources |-> Sources, instruments |-> s])
<1> DEFINE t == Reverse(s)
           m(u) == [n \in DOMAIN u |-> orderedIdentifiers(u[n])]
           key(u) == [n \in DOMAIN u |-> m(u)[n].instrumentId]
           ids == [n \in DOMAIN s |-> s[n].instrumentId]
<1>1. /\ t \in Seq(Instruments) /\ Len(t) = Len(s) /\ DOMAIN t = DOMAIN s
      /\ \A n \in DOMAIN s : Len(s) - n + 1 \in DOMAIN s /\ t[n] = s[Len(s) - n + 1]
      /\ Range(t) = Range(s)
  BY Turned
<1>2. Members(s) /\ DOMAIN s = 1 .. Len(s) /\ Len(s) \in Nat
  BY DEF Members, Range
<1> HIDE DEF t
<1>3. \A n \in DOMAIN s : s[n] \in Instruments /\ s[n].instrumentId \in Int
  BY DEF ScopeAssumption
<1>4. \A i \in Instruments : orderedIdentifiers(i).instrumentId = i.instrumentId
  <2> SUFFICES ASSUME NEW i \in Instruments
               PROVE  orderedIdentifiers(i).instrumentId = i.instrumentId
    OBVIOUS
  <2>1. i = [instrumentId |-> i.instrumentId, kind |-> i.kind, identifiers |-> i.identifiers]
    BY DEF ScopeAssumption
  <2> QED BY <2>1 DEF orderedIdentifiers
<1>5. \A a, b \in DOMAIN s : s[a].instrumentId = s[b].instrumentId => a = b
  <2>1. Range(ids) = Collected(s, InstrumentId)
    BY DEF Range, Collected, InstrumentId
  <2>2. Cardinality(Range(ids)) = Len(s) /\ ids = [n \in DOMAIN s |-> ids[n]]
    BY <2>1 DEF AllDistinct
  <2>3. \A a, b \in DOMAIN s : ids[a] = ids[b] => a = b
    <3> HIDE DEF ids
    <3> QED BY <1>2, <2>2, DistinctFields
  <2> QED BY <2>3
<1>6. \A a, b \in DOMAIN t : t[a].instrumentId = t[b].instrumentId => a = b
  <2> SUFFICES ASSUME NEW a \in DOMAIN s, NEW b \in DOMAIN s,
                      t[a].instrumentId = t[b].instrumentId
               PROVE  a = b
    BY <1>1
  <2>1. Len(s) - a + 1 = Len(s) - b + 1
    BY <1>1, <1>5
  <2> QED BY <1>2, <2>1
<1>7. ASSUME NEW u, u \in {s, t}
      PROVE  /\ Members(m(u)) /\ DOMAIN m(u) = DOMAIN u
             /\ \A n \in DOMAIN u : /\ m(u)[n] = orderedIdentifiers(u[n])
                                    /\ key(u)[n] = m(u)[n].instrumentId
                                    /\ key(u)[n] = u[n].instrumentId /\ key(u)[n] \in Int
             /\ \A a, b \in DOMAIN u : key(u)[a] = key(u)[b] => a = b
  <2>1. /\ DOMAIN u = 1 .. Len(s)
        /\ \A n \in DOMAIN u : u[n] \in Instruments /\ u[n].instrumentId \in Int
        /\ \A a, b \in DOMAIN u : u[a].instrumentId = u[b].instrumentId => a = b
    <3>1. CASE u = s
      BY <1>2, <1>3, <1>5, <3>1
    <3>2. CASE u = t
      BY <1>1, <1>2, <1>3, <1>6, <3>2
    <3> QED BY <1>7, <3>1, <3>2
  <2>2. Members(m(u))
    <3>1. m(u) = [n \in 1 .. Len(s) |-> m(u)[n]]
      BY <2>1
    <3> HIDE DEF m
    <3> QED BY <1>2, <3>1, OverPlaces DEF Members
  <2> QED BY <1>4, <2>1, <2>2
<1>8. Range(m(s)) = Range(m(t))
  <2>1. \A x : x \in Range(m(s)) <=> \E i \in Range(s) : x = orderedIdentifiers(i)
    BY DEF Range
  <2>2. \A x : x \in Range(m(t)) <=> \E i \in Range(t) : x = orderedIdentifiers(i)
    BY DEF Range
  <2> HIDE DEF m
  <2> QED BY <1>1, <2>1, <2>2
<1>9. \A u : SortedBy(m(u), InstrumentId) = InOrder(m(u), DOMAIN m(u), key(u))
  BY DEF SortedBy, InstrumentId
<1>10. InOrder(m(s), DOMAIN m(s), key(s)) = InOrder(m(t), DOMAIN m(t), key(t))
  <2>1. /\ Members(m(s)) /\ DOMAIN m(s) = DOMAIN s
        /\ \A n \in DOMAIN s : key(s)[n] = m(s)[n].instrumentId /\ key(s)[n] \in Int
        /\ \A a, b \in DOMAIN s : key(s)[a] = key(s)[b] => a = b
    BY <1>7
  <2>2. /\ Members(m(t)) /\ DOMAIN m(t) = DOMAIN t
        /\ \A n \in DOMAIN t : key(t)[n] = m(t)[n].instrumentId /\ key(t)[n] \in Int
        /\ \A a, b \in DOMAIN t : key(t)[a] = key(t)[b] => a = b
    BY <1>7
  <2> HIDE DEF m, key
  <2>3. \A a \in DOMAIN m(s), b \in DOMAIN m(t) : m(s)[a] = m(t)[b] => key(s)[a] = key(t)[b]
    BY <2>1, <2>2
  <2>4. /\ Members(m(s)) /\ Members(m(t)) /\ Range(m(s)) = Range(m(t))
        /\ \A n \in DOMAIN m(s) : key(s)[n] \in Int
        /\ \A n \in DOMAIN m(t) : key(t)[n] \in Int
        /\ \A a, b \in DOMAIN m(s) : key(s)[a] = key(s)[b] => a = b
        /\ \A a, b \in DOMAIN m(t) : key(t)[a] = key(t)[b] => a = b
    BY <1>8, <2>1, <2>2
  <2> DEFINE ms == m(s)
             mt == m(t)
             ks == key(s)
             kt == key(t)
  <2> HIDE DEF ms, mt, ks, kt
  <2>5. /\ Members(ms) /\ Members(mt) /\ Range(ms) = Range(mt)
        /\ \A n \in DOMAIN ms : ks[n] \in Int
        /\ \A n \in DOMAIN mt : kt[n] \in Int
        /\ \A a, b \in DOMAIN ms : ks[a] = ks[b] => a = b
        /\ \A a, b \in DOMAIN mt : kt[a] = kt[b] => a = b
        /\ \A a \in DOMAIN ms, b \in DOMAIN mt : ms[a] = mt[b] => ks[a] = kt[b]
    BY <2>3, <2>4 DEF ms, mt, ks, kt
  <2>6. InOrder(ms, DOMAIN ms, ks) = InOrder(mt, DOMAIN mt, kt)
    BY <2>5, SameSorted
  <2> QED BY <2>6 DEF ms, mt, ks, kt
<1>11. \A u : orderedListing([sources |-> Sources, instruments |-> u])
                = [sources |-> SortedBy(Sources, SourceId),
                   instruments |-> SortedBy(m(u), InstrumentId)]
  BY DEF orderedListing
<1> HIDE DEF m, key
<1> QED BY <1>9, <1>10, <1>11 DEF t

OnDate(q, chosen, request) ==
    Kept(q, {n \in DOMAIN q : /\ q[n].instrumentId = chosen.instrumentId
                              /\ request.eventDate \in Range(q[n].availableDates)})

Unsorted(q, chosen, request) ==
    [n \in DOMAIN OnDate(q, chosen, request) |-> linkOf(OnDate(q, chosen, request)[n])]

LinkKeys(m) == [n \in DOMAIN m |-> m[n].key]

\* The links of distinct bindings have distinct keys.
LEMMA UnsortedLinks ==
    ASSUME ScopeAssumption, NEW q \in Seq(Bindings), AllDistinct(q, Identity),
           NEW chosen, NEW request, NEW m, m = Unsorted(q, chosen, request)
    PROVE  /\ Members(m)
           /\ \A n \in DOMAIN m : LinkKeys(m)[n] \in Int
           /\ \A a, b \in DOMAIN m : LinkKeys(m)[a] = LinkKeys(m)[b] => a = b
           /\ \A x : x \in Range(m) <=> \E b \in Range(q) :
                 /\ b.instrumentId = chosen.instrumentId
                 /\ request.eventDate \in Range(b.availableDates)
                 /\ x = linkOf(b)
<1> DEFINE on(b) == /\ b.instrumentId = chosen.instrumentId
                    /\ request.eventDate \in Range(b.availableDates)
           P == {n \in DOMAIN q : on(q[n])}
           zeros == [n \in DOMAIN q |-> 0]
           o == OnDate(q, chosen, request)
           ids == [n \in DOMAIN q |-> Identity(q[n])]
<1>1. Members(q) /\ DOMAIN q = 1 .. Len(q) /\ Len(q) \in Nat
  BY DEF Members, Range
<1>2. P \subseteq DOMAIN q /\ P \in SUBSET Int /\ IsFiniteSet(P) /\ \A n \in P : zeros[n] \in Int
  <2>1. P \subseteq DOMAIN q
    OBVIOUS
  <2>2. \A n \in P : zeros[n] \in Int
    OBVIOUS
  <2> HIDE DEF P, zeros
  <2> QED BY <1>1, <2>1, <2>2, SizeOfInterval, FS_Subset
<1>3. o = Kept(q, P) /\ o = InOrder(q, P, zeros)
  BY DEF OnDate, Kept
<1>4. \A a, b \in DOMAIN q : ids[a] = ids[b] => a = b
  <2>1. Range(ids) = Collected(q, Identity)
    BY DEF Range, Collected
  <2>2. Cardinality(Range(ids)) = Len(q) /\ ids = [n \in DOMAIN q |-> ids[n]]
    BY <2>1 DEF AllDistinct
  <2> HIDE DEF ids
  <2> QED BY <1>1, <2>2, DistinctFields
<1>5. \A x : (\E n \in P : x = q[n]) <=> x \in Range(q) /\ on(x)
  <2>1. \A x : x \in Range(q) <=> \E n \in DOMAIN q : x = q[n]
    BY DEF Range
  <2> HIDE DEF on
  <2> QED BY <2>1
<1>6. \A n \in DOMAIN q : q[n] \in Bindings
  OBVIOUS
<1> HIDE DEF P, zeros, o, on
<1>7. Arranges(o, q, P, zeros)
  BY <1>2, <1>3, InOrderMembers
<1>8. /\ Members(o) /\ DOMAIN o = 1 .. Len(o) /\ Len(o) \in Nat
      /\ \A k \in DOMAIN o : \E p \in P : Soonest(P, zeros, p) = k - 1 /\ o[k] = q[p]
  BY <1>7 DEF Arranges, Members
<1>9. \A x : x \in Range(o) <=> x \in Range(q) /\ on(x)
  <2>1. Keeps(Kept(q, P), q, P)
    BY <1>1, <1>2, KeptMembers
  <2> QED BY <1>3, <1>5, <2>1 DEF Keeps
<1>10. m = [n \in DOMAIN o |-> linkOf(o[n])]
  BY DEF Unsorted, o
<1>11. DOMAIN m = DOMAIN o /\ \A n \in DOMAIN m : m[n] = linkOf(o[n]) /\ LinkKeys(m)[n] = m[n].key
  BY <1>10 DEF LinkKeys
<1>12. Members(m)
  <2>1. m = [n \in 1 .. Len(o) |-> m[n]]
    BY <1>8, <1>10
  <2> QED BY <1>8, <2>1, OverPlaces DEF Members
<1>13. \A n \in DOMAIN m : o[n] \in Bindings /\ LinkKeys(m)[n] = o[n].key /\ o[n].key \in Int
  <2> SUFFICES ASSUME NEW n \in DOMAIN m
               PROVE  o[n] \in Bindings /\ LinkKeys(m)[n] = o[n].key /\ o[n].key \in Int
    OBVIOUS
  <2>1. o[n] \in Bindings
    BY <1>2, <1>6, <1>8, <1>11
  <2>2. LinkKeys(m)[n] = o[n].key
    BY <1>11, <2>1, LinkSays
  <2> QED BY <2>1, <2>2 DEF ScopeAssumption
<1>14. ASSUME NEW a \in DOMAIN m, NEW b \in DOMAIN m, LinkKeys(m)[a] = LinkKeys(m)[b]
       PROVE  a = b
  <2>1. PICK p \in P : Soonest(P, zeros, p) = a - 1 /\ o[a] = q[p]
    BY <1>8, <1>11
  <2>2. PICK r \in P : Soonest(P, zeros, r) = b - 1 /\ o[b] = q[r]
    BY <1>8, <1>11
  <2>3. o[a] \in Bindings /\ o[b] \in Bindings /\ o[a].key = o[b].key
    BY <1>13, <1>14
  <2>4. Identity(o[a]) = Identity(o[b])
    BY <2>3 DEF Identity, ScopeAssumption
  <2>5. ids[p] = ids[r] /\ p \in DOMAIN q /\ r \in DOMAIN q
    BY <1>2, <2>1, <2>2, <2>4
  <2> HIDE DEF ids
  <2>6. p = r
    BY <1>4, <2>5
  <2>7. a - 1 = b - 1
    BY <2>1, <2>2, <2>6
  <2> QED BY <1>8, <1>11, <2>7
<1>15. \A x : x \in Range(m) <=> \E b \in Range(o) : x = linkOf(b)
  BY <1>11 DEF Range
<1> QED BY <1>9, <1>12, <1>13, <1>14, <1>15 DEF on

LEMMA LinksTurned ==
    ASSUME ScopeAssumption, NEW q \in Seq(Bindings), AllDistinct(q, Identity),
           NEW chosen, NEW request
    PROVE  links(Reverse(q), chosen, request) = links(q, chosen, request)
<1> DEFINE r == Reverse(q)
           M(u) == Unsorted(u, chosen, request)
           m == M(q)
           w == M(r)
<1>1. /\ r \in Seq(Bindings) /\ Len(r) = Len(q) /\ DOMAIN r = DOMAIN q
      /\ Range(r) = Range(q)
  BY Turned
<1>2. AllDistinct(r, Identity)
  <2>1. \A s : Collected(s, Identity) = {Identity(x) : x \in Range(s)}
    BY DEF Collected, Range
  <2> HIDE DEF r
  <2> QED BY <1>1, <2>1 DEF AllDistinct
<1>3. \A u : links(u, chosen, request) = InOrder(M(u), DOMAIN M(u), LinkKeys(M(u)))
  BY DEF links, linkOf, SortedBy, CanonicalPlace, Unsorted, OnDate, LinkKeys
<1> HIDE DEF r, M
<1>4. /\ Members(m)
      /\ \A n \in DOMAIN m : LinkKeys(m)[n] \in Int
      /\ \A a, b \in DOMAIN m : LinkKeys(m)[a] = LinkKeys(m)[b] => a = b
      /\ \A x : x \in Range(m) <=> \E b \in Range(q) :
            /\ b.instrumentId = chosen.instrumentId
            /\ request.eventDate \in Range(b.availableDates)
            /\ x = linkOf(b)
  BY UnsortedLinks DEF M
<1>5. /\ Members(w)
      /\ \A n \in DOMAIN w : LinkKeys(w)[n] \in Int
      /\ \A a, b \in DOMAIN w : LinkKeys(w)[a] = LinkKeys(w)[b] => a = b
      /\ \A x : x \in Range(w) <=> \E b \in Range(r) :
            /\ b.instrumentId = chosen.instrumentId
            /\ request.eventDate \in Range(b.availableDates)
            /\ x = linkOf(b)
  BY <1>1, <1>2, UnsortedLinks DEF M
<1>6. Range(m) = Range(w)
  <2> HIDE DEF m, w
  <2>1. \A x : x \in Range(m) <=> x \in Range(w)
    BY <1>1, <1>4, <1>5
  <2> QED BY <2>1
<1>7. \A a \in DOMAIN w, b \in DOMAIN m : w[a] = m[b] => LinkKeys(w)[a] = LinkKeys(m)[b]
  BY DEF LinkKeys
<1> HIDE DEF m, w
<1>8. InOrder(w, DOMAIN w, LinkKeys(w)) = InOrder(m, DOMAIN m, LinkKeys(m))
  BY <1>4, <1>5, <1>6, <1>7, SameSorted
<1> QED BY <1>3, <1>8 DEF m, w, r

\* What is registered comes from what may be.
ScopeInv ==
    /\ instruments \in Seq(Instruments) /\ bindings \in Seq(Bindings)
    /\ datasets \in Seq(Datasets) /\ definitions \in Seq(Definitions)

LEMMA ScopeInvHolds == ScopeSpec => []ScopeInv
<1>1. ScopeInit => ScopeInv
  BY DEF ScopeInit, ScopeInv
<1>2. ScopeInv /\ [ScopeNext]_scopeVars => ScopeInv'
  <2> SUFFICES ASSUME ScopeInv, [ScopeNext]_scopeVars PROVE ScopeInv'
    OBVIOUS
  <2> USE DEF ScopeInv
  <2>1. CASE ListInstrument
    BY <2>1 DEF ListInstrument
  <2>2. CASE Bind
    BY <2>2 DEF Bind
  <2>3. CASE Publish
    BY <2>3 DEF Publish
  <2>4. CASE Define
    BY <2>4 DEF Define
  <2>5. CASE UNCHANGED scopeVars
    BY <2>5 DEF scopeVars
  <2> QED BY <2>1, <2>2, <2>3, <2>4, <2>5 DEF ScopeNext
<1> QED BY <1>1, <1>2, PTL DEF ScopeSpec

Admitted(l, quoted) ==
    /\ InstrumentListing(l)
    /\ \A b \in Range(quoted) : DailyQuoteBinding(b)
    /\ AllDistinct(quoted, Identity)
    /\ SourcesAgree(l, quoted)

\* What stands behind each answer of the resolver.
LEMMA ResolvedIs ==
    ASSUME NEW request, NEW l, NEW q
    PROVE  LET found == candidates(orderedListing(l), request)
               answer == resolveInstrument(request, l, q)
           IN  /\ answer.status = "RESOLVED" =>
                     /\ Admitted(l, q) /\ found # <<>> /\ ~(Len(found) > 1)
                     /\ answer.candidate = found[1]
                     /\ answer.quotes = links(q, found[1], request)
               /\ answer.status = "UNRESOLVED" => found = <<>>
<1> DEFINE ordered == orderedListing(l)
           found == candidates(ordered, request)
           answer == resolveInstrument(request, l, q)
           base == Resolution(ordered, request)
           reason == IF foundOutsideDate(ordered, request)
                     THEN "NAME_NOT_VALID_ON_EVENT_DATE" ELSE "NO_EXACT_MATCH"
<1>1. \/ answer = [status |-> "ERROR"]
      \/ found = <<>> /\ answer = [base |-> base, status |-> "UNRESOLVED", reason |-> reason]
      \/ answer = [base |-> base, status |-> "REVIEW_REQUIRED", candidates |-> found]
      \/ /\ Admitted(l, q) /\ found # <<>> /\ ~(Len(found) > 1)
         /\ answer = [base |-> base, status |-> "RESOLVED",
                      candidate |-> found[1], quotes |-> links(q, found[1], request)]
  <2> HIDE DEF ordered, base
  <2> QED BY DEF resolveInstrument, Admitted, ordered, base
<1> HIDE DEF answer, found, base, reason
<1>2. CASE answer = [status |-> "ERROR"]
  BY <1>2 DEF answer, found
<1>3. CASE found = <<>> /\ answer = [base |-> base, status |-> "UNRESOLVED", reason |-> reason]
  BY <1>3 DEF answer, found
<1>4. CASE answer = [base |-> base, status |-> "REVIEW_REQUIRED", candidates |-> found]
  BY <1>4 DEF answer, found
<1>5. CASE /\ Admitted(l, q) /\ found # <<>> /\ ~(Len(found) > 1)
           /\ answer = [base |-> base, status |-> "RESOLVED",
                        candidate |-> found[1], quotes |-> links(q, found[1], request)]
  BY <1>5 DEF answer, found
<1> QED BY <1>1, <1>2, <1>3, <1>4, <1>5

\* One member: the first.
LEMMA OneMember ==
    ASSUME NEW q, Members(q), q # <<>>, ~(Len(q) > 1)
    PROVE  q[1] \in Range(q) /\ \A x \in Range(q) : x = q[1]
<1>1. Len(q) \in Nat /\ DOMAIN q = 1 .. Len(q) /\ (Len(q) = 0 => q = <<>>)
  BY DEF Members
<1>2. DOMAIN q = {1}
  BY <1>1
<1> QED BY <1>2 DEF Range

Leads(answer, s, request) ==
    LET borne(i) == Bears(i, request.query, request.eventDate)
    IN  /\ answer.status = "RESOLVED" =>
              /\ \E i \in Range(s) : borne(i)
              /\ \A i \in Range(s) : borne(i) =>
                    /\ answer.candidate = CandidateOf(i, request)
                    /\ answer.candidate.instrumentId = i.instrumentId
              /\ \A x \in Range(answer.quotes) : request.eventDate \in Range(x.availableDates)
        /\ answer.status = "UNRESOLVED" => ~\E i \in Range(s) : borne(i)

\* A resolved candidate is of the only bearers; nobody bears an unresolved name.
LEMMA FoundBears ==
    ASSUME ScopeAssumption, NEW s \in Seq(Instruments), NEW q \in Seq(Bindings),
           NEW l, l = [sources |-> Sources, instruments |-> s],
           NEW name, NEW day \in Int, NEW request, request = [query |-> name, eventDate |-> day]
    PROVE  Leads(resolveInstrument(request, l, q), s, request)
<1> DEFINE answer == resolveInstrument(request, l, q)
           found == candidates(orderedListing(l), request)
<1>1. request.query = name /\ request.eventDate = day /\ l.instruments = s
  OBVIOUS
<1>2. /\ Members(found)
      /\ \A x : x \in Range(found) <=>
            \E i \in Range(s) : Bears(i, name, day) /\ x = CandidateOf(i, request)
  <2>1. Tells(found, s, request)
    BY <1>1, CandidatesAre
  <2> HIDE DEF found
  <2> QED BY <1>1, <2>1 DEF Tells
<1>3. /\ answer.status = "RESOLVED" =>
            /\ found # <<>> /\ ~(Len(found) > 1)
            /\ answer.candidate = found[1] /\ answer.quotes = links(q, found[1], request)
      /\ answer.status = "UNRESOLVED" => found = <<>>
  BY ResolvedIs
<1>4. \A i : CandidateOf(i, request).instrumentId = i.instrumentId
  BY DEF CandidateOf
<1>5. \A x \in Range(links(q, found[1], request)) : day \in Range(x.availableDates)
  BY <1>1, LinksAre
<1> HIDE DEF answer, found
<1>6. ASSUME answer.status = "RESOLVED"
      PROVE  /\ \E i \in Range(s) : Bears(i, name, day)
             /\ \A i \in Range(s) : Bears(i, name, day) =>
                   /\ answer.candidate = CandidateOf(i, request)
                   /\ answer.candidate.instrumentId = i.instrumentId
             /\ \A x \in Range(answer.quotes) : day \in Range(x.availableDates)
  <2>1. found[1] \in Range(found) /\ \A x \in Range(found) : x = found[1]
    BY <1>2, <1>3, <1>6, OneMember
  <2>2. \E i \in Range(s) : Bears(i, name, day)
    BY <1>2, <2>1
  <2>3. ASSUME NEW i \in Range(s), Bears(i, name, day)
        PROVE  /\ answer.candidate = CandidateOf(i, request)
               /\ answer.candidate.instrumentId = i.instrumentId
    <3>1. CandidateOf(i, request) \in Range(found)
      BY <1>2, <2>3
    <3>2. CandidateOf(i, request) = found[1]
      BY <2>1, <3>1
    <3> QED BY <1>3, <1>4, <1>6, <3>2
  <2>4. \A x \in Range(answer.quotes) : day \in Range(x.availableDates)
    BY <1>3, <1>5, <1>6
  <2> QED BY <2>2, <2>3, <2>4
<1>7. ASSUME answer.status = "UNRESOLVED" PROVE ~\E i \in Range(s) : Bears(i, name, day)
  BY <1>2, <1>3, <1>7, EmptyHasNone
<1> QED BY <1>1, <1>6, <1>7 DEF answer, Leads

\* Written in another order, the same is answered.
LEMMA AnswerTurned ==
    ASSUME ScopeAssumption, NEW s \in Seq(Instruments), NEW q \in Seq(Bindings), NEW request
    PROVE  resolveInstrument(request, [sources |-> Sources, instruments |-> Reverse(s)], Reverse(q))
              = resolveInstrument(request, [sources |-> Sources, instruments |-> s], q)
<1> DEFINE t == Reverse(s)
           r == Reverse(q)
           l == [sources |-> Sources, instruments |-> s]
           m == [sources |-> Sources, instruments |-> t]
<1>1. Len(t) = Len(s) /\ Range(t) = Range(s) /\ (t # <<>> <=> s # <<>>)
  BY Turned
<1>2. Len(r) = Len(q) /\ Range(r) = Range(q)
  BY Turned
<1>3. l.sources = Sources /\ l.instruments = s /\ m.sources = Sources /\ m.instruments = t
  OBVIOUS
<1>4. /\ \A u : Collected(u, Identity) = {Identity(x) : x \in Range(u)}
      /\ \A u : Collected(u, InstrumentId) = {InstrumentId(x) : x \in Range(u)}
  BY DEF Collected, Range
<1> HIDE DEF t, r
<1>5. AllDistinct(t, InstrumentId) <=> AllDistinct(s, InstrumentId)
  BY <1>1, <1>4 DEF AllDistinct
<1>6. AllDistinct(r, Identity) <=> AllDistinct(q, Identity)
  BY <1>2, <1>4 DEF AllDistinct
<1> HIDE DEF l, m
<1>7. InstrumentListing(m) <=> InstrumentListing(l)
  BY <1>1, <1>3, <1>5 DEF InstrumentListing
<1>8. SourcesAgree(m, r) <=> SourcesAgree(l, q)
  BY <1>2, <1>3 DEF SourcesAgree
<1>9. Admitted(m, r) <=> Admitted(l, q)
  BY <1>2, <1>6, <1>7, <1>8 DEF Admitted
<1>10. CASE Admitted(l, q)
  <2>1. orderedListing(m) = orderedListing(l)
    BY <1>3, <1>10, ListingTurned DEF Admitted, InstrumentListing, l, m, t
  <2>2. \A c : links(r, c, request) = links(q, c, request)
    BY <1>10, LinksTurned DEF Admitted, r
  <2> QED BY <1>9, <1>10, <2>1, <2>2 DEF resolveInstrument, Admitted, l, m, t, r
<1>11. CASE ~Admitted(l, q)
  <2>1. \A k, u : ~Admitted(k, u) => resolveInstrument(request, k, u) = [status |-> "ERROR"]
    BY DEF resolveInstrument, Admitted
  <2> QED BY <1>9, <1>11, <2>1 DEF l, m, t, r
<1> QED BY <1>10, <1>11

LEMMA OnlyBearerIs ==
    ASSUME ScopeAssumption, ScopeInv
    PROVE  ResolvedIsTheOnlyBearer
<1> SUFFICES ASSUME NEW name \in Wordings, NEW day \in Days
             PROVE  LET answer == Resolve(name, day)
                        bearers == {i.instrumentId :
                                       i \in {j \in Range(instruments) : Bears(j, name, day)}}
                    IN  /\ answer.status = "RESOLVED" =>
                              /\ bearers = {answer.candidate.instrumentId}
                              /\ \A l \in Range(answer.quotes) : day \in Range(l.availableDates)
                        /\ answer.status = "UNRESOLVED" => bearers = {}
  BY DEF ResolvedIsTheOnlyBearer, Bears
<1> DEFINE answer == Resolve(name, day)
           request == [query |-> name, eventDate |-> day]
<1>1. /\ day \in Int /\ instruments \in Seq(Instruments) /\ bindings \in Seq(Bindings)
      /\ listing = [sources |-> Sources, instruments |-> instruments]
      /\ answer = resolveInstrument(request, listing, bindings)
  BY DEF ScopeAssumption, ScopeInv, listing, Resolve
<1> HIDE DEF answer
<1>2. /\ answer.status = "RESOLVED" =>
            /\ \E i \in Range(instruments) : Bears(i, name, day)
            /\ \A i \in Range(instruments) : Bears(i, name, day) =>
                  answer.candidate.instrumentId = i.instrumentId
            /\ \A x \in Range(answer.quotes) : day \in Range(x.availableDates)
      /\ answer.status = "UNRESOLVED" => ~\E i \in Range(instruments) : Bears(i, name, day)
  <2>1. Leads(answer, instruments, request)
    BY <1>1, FoundBears DEF listing
  <2> QED BY <2>1 DEF Leads
<1> QED BY <1>2 DEF answer

LEMMA NeverSwitches ==
    ASSUME ScopeAssumption, ScopeInv
    PROVE  AnswerNeverSwitches
<1> SUFFICES ASSUME NEW name \in Wordings, NEW day \in Days
             PROVE  LET request == [query |-> name, eventDate |-> day]
                        answer == Resolve(name, day)
                        Grown(i) == [listing EXCEPT !.instruments = Append(@, i)]
                    IN  /\ resolveInstrument(request,
                              [listing EXCEPT !.instruments = Reverse(@)],
                              Reverse(bindings)) = answer
                        /\ answer.status = "RESOLVED" =>
                              \A i \in Instruments :
                                  LET later == resolveInstrument(request, Grown(i), bindings)
                                  IN  later.status = "RESOLVED" =>
                                          later.candidate = answer.candidate
  BY DEF AnswerNeverSwitches
<1> DEFINE request == [query |-> name, eventDate |-> day]
           of(s) == [sources |-> Sources, instruments |-> s]
           answer == Resolve(name, day)
<1>1. /\ day \in Int /\ instruments \in Seq(Instruments) /\ bindings \in Seq(Bindings)
      /\ listing = of(instruments)
      /\ [listing EXCEPT !.instruments = Reverse(@)] = of(Reverse(instruments))
      /\ \A i : [listing EXCEPT !.instruments = Append(@, i)] = of(Append(instruments, i))
      /\ answer = resolveInstrument(request, of(instruments), bindings)
  <2>1. \A u : [listing EXCEPT !.instruments = u] = of(u)
    BY DEF listing
  <2>2. listing = of(instruments) /\ listing.instruments = instruments
    BY DEF listing
  <2> HIDE DEF of
  <2> QED BY <2>1, <2>2 DEF ScopeAssumption, ScopeInv, Resolve
<1> HIDE DEF answer
<1>2. resolveInstrument(request, of(Reverse(instruments)), Reverse(bindings)) = answer
  BY <1>1, AnswerTurned
<1>3. ASSUME NEW i \in Instruments, answer.status = "RESOLVED",
             resolveInstrument(request, of(Append(instruments, i)), bindings).status = "RESOLVED"
      PROVE  resolveInstrument(request, of(Append(instruments, i)), bindings).candidate
                = answer.candidate
  <2> DEFINE s == Append(instruments, i)
             later == resolveInstrument(request, of(s), bindings)
  <2>1. s \in Seq(Instruments) /\ \A x \in Range(instruments) : x \in Range(s)
    <3>1. /\ s \in Seq(Instruments) /\ DOMAIN instruments = 1 .. Len(instruments)
          /\ Len(instruments) \in Nat /\ DOMAIN s = 1 .. Len(instruments) + 1
          /\ \A n \in 1 .. Len(instruments) : s[n] = instruments[n]
      BY <1>1
    <3>2. \A n \in DOMAIN instruments : n \in DOMAIN s /\ s[n] = instruments[n]
      BY <3>1
    <3> HIDE DEF s
    <3> QED BY <3>1, <3>2 DEF Range
  <2> HIDE DEF s
  <2>2. /\ \E j \in Range(instruments) : Bears(j, name, day)
        /\ \A j \in Range(instruments) : Bears(j, name, day) =>
              answer.candidate = CandidateOf(j, request)
    <3>1. Leads(answer, instruments, request)
      BY <1>1, FoundBears
    <3> QED BY <1>3, <3>1 DEF Leads
  <2>3. \A j \in Range(s) : Bears(j, name, day) => later.candidate = CandidateOf(j, request)
    <3>1. Leads(later, s, request)
      BY <1>1, <2>1, FoundBears
    <3>2. later.status = "RESOLVED"
      BY <1>3 DEF s
    <3> QED BY <3>1, <3>2 DEF Leads
  <2> QED BY <2>1, <2>2, <2>3 DEF s
<1> HIDE DEF of
<1> QED BY <1>1, <1>2, <1>3 DEF answer

\* What stands behind each answer about a claim.
LEMMA CoverageIs ==
    ASSUME NEW request
    PROVE  LET covering == Kept(datasets, {n \in DOMAIN datasets : Covers(datasets[n], request)})
               precise == Kept(covering, {n \in DOMAIN covering : Precise(covering[n], request)})
               answer == resolveClaimCoverage(request)
           IN  /\ answer.status = "READY" =>
                     /\ CoverageManifest(datasets, asOf) /\ precise # <<>> /\ Len(Bound(request)) = 1
                     /\ answer.definition = Bound(request)[1]
                     /\ answer.sources =
                           [n \in DOMAIN precise |->
                              [datasetId |-> precise[n].datasetId,
                               source |-> precise[n].source,
                               observations |-> ObservationsFor(precise[n], request)]]
               /\ answer.status = "UNCONFIRMABLE" =>
                     \/ answer.reasonCode = "OUTSIDE_COVERAGE"
                     \/ covering # <<>> /\ precise = <<>>
                     \/ Len(Bound(request)) # 1
<1> DEFINE covering == Kept(datasets, {n \in DOMAIN datasets : Covers(datasets[n], request)})
           precise == Kept(covering, {n \in DOMAIN covering : Precise(covering[n], request)})
           answer == resolveClaimCoverage(request)
           bound == Bound(request)
           sources == [n \in DOMAIN precise |->
                          [datasetId |-> precise[n].datasetId, source |-> precise[n].source,
                           observations |-> ObservationsFor(precise[n], request)]]
<1>1. \/ answer = [status |-> "ERROR"]
      \/ answer = Unavailable("OUTSIDE_COVERAGE")
      \/ answer = Unavailable("RESOLUTION_TOO_COARSE") /\ covering # <<>> /\ precise = <<>>
      \/ answer = Unavailable("DEFINITION_NOT_BOUND") /\ Len(bound) # 1
      \/ /\ CoverageManifest(datasets, asOf) /\ precise # <<>> /\ Len(bound) = 1
         /\ answer = [status |-> "READY", definition |-> bound[1], sources |-> sources]
  BY DEF resolveClaimCoverage
<1> HIDE DEF answer, covering, precise, bound, sources
<1>2. CASE answer = [status |-> "ERROR"]
  BY <1>2 DEF answer
<1>3. CASE answer = Unavailable("OUTSIDE_COVERAGE")
  BY <1>3 DEF answer, Unavailable
<1>4. CASE answer = Unavailable("RESOLUTION_TOO_COARSE") /\ covering # <<>> /\ precise = <<>>
  BY <1>4 DEF answer, Unavailable, covering, precise
<1>5. CASE answer = Unavailable("DEFINITION_NOT_BOUND") /\ Len(bound) # 1
  BY <1>5 DEF answer, Unavailable, bound
<1>6. CASE /\ CoverageManifest(datasets, asOf) /\ precise # <<>> /\ Len(bound) = 1
           /\ answer = [status |-> "READY", definition |-> bound[1], sources |-> sources]
  BY <1>6 DEF answer, bound, sources, precise, covering
<1> QED BY <1>1, <1>2, <1>3, <1>4, <1>5, <1>6

\* Rows that cover a claim are of its instrument and on both of its ends.
LEMMA RowsCover ==
    ASSUME ScopeAssumption, NEW d \in Datasets, NEW request, Covers(d, request)
    PROVE  /\ \A o \in Range(ObservationsFor(d, request)) :
                 o.instrumentId = request.instrumentId
           /\ {request.start, request.endInclusive}
                 \subseteq {o.date : o \in Range(ObservationsFor(d, request))}
<1> DEFINE w == d.observations
           wanted(o) == /\ o.instrumentId = request.instrumentId
                        /\ request.start <= o.date /\ o.date <= request.endInclusive
           P == {n \in DOMAIN w : wanted(w[n])}
<1>1. ObservationsFor(d, request) = Kept(w, P)
  BY DEF ObservationsFor
<1>2. Members(w) /\ P \subseteq DOMAIN w
  BY DEF ScopeAssumption
<1>3. \A n \in P : w[n].instrumentId = request.instrumentId
  OBVIOUS
<1> HIDE DEF P, w
<1>4. Keeps(Kept(w, P), w, P)
  BY <1>2, KeptMembers
<1>5. \A o \in Range(ObservationsFor(d, request)) : o.instrumentId = request.instrumentId
  BY <1>1, <1>3, <1>4 DEF Keeps
<1>6. {request.start, request.endInclusive}
         \subseteq {o.date : o \in Range(ObservationsFor(d, request))}
  BY DEF Covers
<1> QED BY <1>5, <1>6

\* What covers a claim, and what is precise enough for it.
LEMMA CoveringIs ==
    ASSUME ScopeInv, NEW request, NEW covering, NEW precise,
           covering = Kept(datasets, {n \in DOMAIN datasets : Covers(datasets[n], request)}),
           precise = Kept(covering, {n \in DOMAIN covering : Precise(covering[n], request)})
    PROVE  /\ Members(covering) /\ Members(precise)
           /\ \A x \in Range(covering) : x \in Range(datasets) /\ Covers(x, request)
           /\ \A x : x \in Range(precise) <=> x \in Range(covering) /\ Precise(x, request)
<1> DEFINE P == {n \in DOMAIN datasets : Covers(datasets[n], request)}
           Q == {n \in DOMAIN covering : Precise(covering[n], request)}
<1>1. covering = Kept(datasets, P) /\ precise = Kept(covering, Q)
  OBVIOUS
<1>2. Members(datasets) /\ P \subseteq DOMAIN datasets /\ Q \subseteq DOMAIN covering
  <2>1. Members(datasets)
    BY DEF ScopeInv, Members, Range
  <2> QED BY <2>1
<1>3. /\ \A x : (\E n \in P : x = datasets[n]) <=> x \in Range(datasets) /\ Covers(x, request)
      /\ \A x : (\E n \in Q : x = covering[n]) <=> x \in Range(covering) /\ Precise(x, request)
  BY DEF Range
<1> HIDE DEF P, Q
<1>4. Keeps(covering, datasets, P)
  BY <1>1, <1>2, KeptMembers
<1>5. Keeps(precise, covering, Q)
  <2>1. Members(covering)
    BY <1>4 DEF Keeps
  <2>2. Keeps(Kept(covering, Q), covering, Q)
    BY <1>2, <2>1, KeptMembers
  <2> QED BY <1>1, <2>2
<1> QED BY <1>3, <1>4, <1>5 DEF Keeps

LEMMA BoundIs ==
    ASSUME ScopeInv, NEW request, Len(Bound(request)) = 1
    PROVE  Bound(request)[1].field = request.field
<1> DEFINE P == {n \in DOMAIN definitions :
                    /\ request.definition # Null
                    /\ definitions[n].definitionId = request.definition
                    /\ definitions[n].field = request.field
                    /\ definitions[n].resolution = request.resolution}
<1>1. Bound(request) = Kept(definitions, P)
  BY DEF Bound
<1>2. Members(definitions) /\ P \subseteq DOMAIN definitions
  BY DEF ScopeInv, Members, Range
<1>3. \A n \in P : definitions[n].field = request.field
  OBVIOUS
<1> HIDE DEF P
<1>4. Keeps(Bound(request), definitions, P)
  BY <1>1, <1>2, KeptMembers
<1>5. Bound(request)[1] \in Range(Bound(request))
  BY <1>4 DEF Keeps, Members, Range
<1> QED BY <1>3, <1>4, <1>5 DEF Keeps

LEMMA RowsAreReady ==
    ASSUME ScopeAssumption, ScopeInv, NEW id, NEW start, NEW end, NEW resolution
    PROVE  HasItsRows(id, start, end, resolution)
<1> DEFINE request == [instrumentId |-> id, start |-> start, endInclusive |-> end,
                       field |-> "close", resolution |-> resolution, definition |-> "change"]
           answer == resolveClaimCoverage(request)
           covering == Kept(datasets, {n \in DOMAIN datasets : Covers(datasets[n], request)})
           precise == Kept(covering, {n \in DOMAIN covering : Precise(covering[n], request)})
           told(d) == [datasetId |-> d.datasetId, source |-> d.source,
                       observations |-> ObservationsFor(d, request)]
<1>1. /\ request.instrumentId = id /\ request.start = start /\ request.endInclusive = end
      /\ request.field = "close" /\ request.resolution = resolution
  OBVIOUS
<1> HIDE DEF request
<1>2. /\ answer.status = "READY" =>
            /\ CoverageManifest(datasets, asOf) /\ precise # <<>> /\ Len(Bound(request)) = 1
            /\ answer.definition = Bound(request)[1]
            /\ answer.sources = [n \in DOMAIN precise |-> told(precise[n])]
      /\ answer.status = "UNCONFIRMABLE" =>
            \/ answer.reasonCode = "OUTSIDE_COVERAGE"
            \/ covering # <<>> /\ precise = <<>>
            \/ Len(Bound(request)) # 1
  BY CoverageIs
<1>3. /\ Members(covering) /\ Members(precise)
      /\ \A x \in Range(covering) : x \in Range(datasets) /\ Covers(x, request)
      /\ \A x : x \in Range(precise) <=> x \in Range(covering) /\ Precise(x, request)
  BY CoveringIs
<1> HIDE DEF answer, covering, precise, told
<1>4. ASSUME answer.status = "READY"
      PROVE  /\ resolution = "DAILY"
             /\ \A s \in Range(answer.sources) :
                   /\ {start, end} \subseteq
                         {o.date : o \in {row \in Range(s.observations) : row.instrumentId = id}}
                   /\ s.source.sourceId = s.datasetId
             /\ answer.definition.field = "close"
  <2>1. \E x : x \in Range(precise)
    BY <1>2, <1>3, <1>4, EmptyHasNone
  <2>2. resolution = "DAILY"
    BY <1>1, <1>3, <2>1 DEF Precise
  <2>3. answer.definition.field = "close"
    BY <1>1, <1>2, <1>4, BoundIs
  <2>4. ASSUME NEW s \in Range(answer.sources)
        PROVE  /\ {start, end} \subseteq
                     {o.date : o \in {row \in Range(s.observations) : row.instrumentId = id}}
               /\ s.source.sourceId = s.datasetId
    <3>1. PICK d \in Range(precise) : s = told(d)
      BY <1>2, <1>4, <2>4 DEF Range
    <3>2. d \in Range(datasets) /\ d \in Datasets /\ Covers(d, request)
      <4>1. d \in Range(datasets) /\ Covers(d, request)
        BY <1>3
      <4> QED BY <4>1 DEF Range, ScopeInv
    <3>3. d.source.sourceId = d.datasetId
      BY <1>2, <1>4, <3>2 DEF CoverageManifest, CoverageDataset
    <3>4. /\ s.observations = ObservationsFor(d, request)
          /\ s.source = d.source /\ s.datasetId = d.datasetId
      BY <3>1 DEF told
    <3>5. /\ \A o \in Range(s.observations) : o.instrumentId = id
          /\ {start, end} \subseteq {o.date : o \in Range(s.observations)}
      BY <1>1, <3>2, <3>4, RowsCover
    <3> QED BY <3>3, <3>4, <3>5
  <2> QED BY <2>2, <2>3, <2>4
<1>5. ASSUME answer.status = "UNCONFIRMABLE", Len(Bound(request)) = 1, resolution = "DAILY"
      PROVE  answer.reasonCode = "OUTSIDE_COVERAGE"
  <2>1. covering # <<>> => precise # <<>>
    BY <1>1, <1>3, <1>5, EmptyHasNone DEF Precise
  <2> QED BY <1>2, <1>5, <2>1
<1> QED BY <1>4, <1>5 DEF HasItsRows, answer, request

\* A name leads to its one bearer on that day or to nobody, a growing registry
\* never switches the answer, and a ready claim has its rows: for any listing,
\* bindings, datasets and definitions that grow in any order.
THEOREM ScopeIsExactHolds == ScopeSpec => []ScopeIsExact
<1>1. ScopeInv => ScopeIsExact
  BY ScopeAssumption, OnlyBearerIs, NeverSwitches, RowsAreReady
     DEF ScopeIsExact, ReadyHasItsRows
<1> QED BY <1>1, ScopeInvHolds, PTL
=============================================================================
