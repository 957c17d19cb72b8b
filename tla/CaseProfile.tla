---------------------------- MODULE CaseProfile ----------------------------
(***************************************************************************)
(* A case is declared against the profile of a canonical dataset           *)
(* (packages/contracts/src/case-manifest.ts, packages/replay-engine/src/   *)
(* dataset-profile.ts, case-validation.ts).  Events may arrive, in any     *)
(* order and again, between the declaration and the replay.                *)
(*                                                                         *)
(* A time is a local time and an offset in hours; texts are compared only  *)
(* for equality.  A hash is what it hashes.                                *)
(***************************************************************************)
EXTENDS Checks

CONSTANTS
    Arrivals,       \* what may arrive: [instrumentId, actorId, eventTime]
    CaseManifests,  \* the hypotheses that may be declared
    MaxCaseEvents   \* bound: how many events arrive

CaseTime == [local : Int, offset : Int]

\* An event has its three fields, times are numbers, and a manifest is of one of
\* the two versions there are.
ASSUME CaseAssumption ==
    /\ \A e \in Arrivals : /\ DOMAIN e = {"instrumentId", "actorId", "eventTime"}
                           /\ e.eventTime \in CaseTime
    /\ \A m \in CaseManifests : /\ m.hypothesis.startTime \in CaseTime
                                /\ m.hypothesis.endTime \in CaseTime
                                /\ m.manifestVersion \in {"1.3", "1.4"}

VARIABLES
    arrived,        \* the events in the order of their arrival
    manifest        \* the declared case, with the hash of its dataset

caseVars == <<arrived, manifest>>

-----------------------------------------------------------------------------
(* Time.  normalizeEventTime gives an event the instant it happened at.    *)

caseTimeToEpoch(t) == t.local - t.offset

inUTC(e) == [e EXCEPT !.eventTime = [local |-> caseTimeToEpoch(@), offset |-> 0]]

\* Mutant of compareCanonicalEventTimes: the texts are compared as written.
compareAsWritten(l, r) == l.local - r.local

compareCanonicalEventTimes(l, r) == caseTimeToEpoch(l) - caseTimeToEpoch(r)

-----------------------------------------------------------------------------
(* computeDatasetProfile.  The canonical events are those of the input,    *)
(* each once; the first and the last of them are the earliest and latest.  *)

canonicalEvents(events) == {inUTC(events[i]) : i \in DOMAIN events}

Times(events) == {e.eventTime : e \in canonicalEvents(events)}

computeDatasetProfile(events) ==
    LET canonical == canonicalEvents(events)
    IN  [canonicalDatasetHash |-> canonical,
         instrumentIds |-> {e.instrumentId : e \in canonical},
         actorIds |-> {e.actorId : e \in canonical} \ {Null},
         earliestEventTime |->
            CHOOSE t \in Times(events) : \A u \in Times(events) : t.local <= u.local,
         latestEventTime |->
            CHOOSE t \in Times(events) : \A u \in Times(events) : t.local >= u.local]

-----------------------------------------------------------------------------
(* The contract of a case manifest.  Version 1.3 declares one instrument.  *)

Instrument(i) == i

caseWindowIsOrdered(h) == caseTimeToEpoch(h.startTime) <= caseTimeToEpoch(h.endTime)

Participants(h) == h.pattern = "RAPID_PRICE_LIFT" => h.actorIds # <<>>

DeclaredHypothesis(version, h) ==
    IF version = "1.3"
    THEN h.pattern = "RAPID_PRICE_LIFT" /\ Len(h.instrumentIds) = 1 /\ h.actorIds # <<>>
    ELSE h.instrumentIds # <<>> /\ AllDistinct(h.instrumentIds, Instrument)

CaseManifest(m) ==
    /\ DeclaredHypothesis(m.manifestVersion, m.hypothesis)
    /\ caseWindowIsOrdered(m.hypothesis)
    /\ m.manifestVersion = "1.4" => Participants(m.hypothesis)

-----------------------------------------------------------------------------
validateCaseAgainstProfile(m, profile) ==
    LET h == m.hypothesis
    IN  Failures(<<
            Unless(m.canonicalDatasetHash = profile.canonicalDatasetHash,
                   "CANONICAL_DATASET_HASH_MISMATCH"),
            Unless(Range(h.instrumentIds) \subseteq profile.instrumentIds,
                   "INSTRUMENT_OUTSIDE_DATASET_PROFILE"),
            Unless(~(/\ m.manifestVersion = "1.4"
                     /\ h.actorIds = <<>>
                     /\ profile.actorIds # {}),
                   "ACTORLESS_HYPOTHESIS_PROFILE_MISMATCH"),
            Unless(Range(h.actorIds) \subseteq profile.actorIds,
                   "ACTOR_OUTSIDE_DATASET_PROFILE"),
            Unless(/\ compareCanonicalEventTimes(h.startTime, profile.earliestEventTime) >= 0
                   /\ compareCanonicalEventTimes(h.endTime, profile.latestEventTime) <= 0,
                   "TIME_WINDOW_OUTSIDE_DATASET_PROFILE")>>)

Accepted(m, events) ==
    /\ CaseManifest(m)
    /\ validateCaseAgainstProfile(m, computeDatasetProfile(events)) = {}

-----------------------------------------------------------------------------
CaseInit == arrived = <<>> /\ manifest = Null

Arrive(e) ==
    /\ Len(arrived) < MaxCaseEvents
    /\ arrived' = Append(arrived, e)
    /\ UNCHANGED manifest

\* A case names the dataset it was drawn from.
DeclareCase(m) ==
    /\ arrived # <<>> /\ manifest = Null
    /\ manifest' = [manifestVersion |-> m.manifestVersion, hypothesis |-> m.hypothesis,
                    canonicalDatasetHash |-> computeDatasetProfile(arrived).canonicalDatasetHash]
    /\ UNCHANGED arrived

CaseNext == (\E e \in Arrivals : Arrive(e)) \/ (\E m \in CaseManifests : DeclareCase(m))

CaseSpec == CaseInit /\ [][CaseNext]_caseVars

-----------------------------------------------------------------------------
(* Properties.                                                             *)

\* A case is accepted only for the very events it was declared on, whatever
\* arrived since, and everything it names is in them: its instruments, its
\* actors, and a window between two events that did happen.  Without actors it
\* is accepted only where no event names any.
AcceptedCaseFits ==
    manifest # Null /\ Accepted(manifest, arrived) =>
        LET h == manifest.hypothesis
            happened == canonicalEvents(arrived)
        IN  /\ happened = manifest.canonicalDatasetHash
            /\ \A i \in Range(h.instrumentIds) : \E e \in happened : e.instrumentId = i
            /\ \A a \in Range(h.actorIds) : \E e \in happened : e.actorId = a
            /\ h.actorIds = <<>> => \A e \in happened : e.actorId = Null
            /\ \E e, f \in happened :
                  /\ e.eventTime.local <= caseTimeToEpoch(h.startTime)
                  /\ caseTimeToEpoch(h.startTime) <= caseTimeToEpoch(h.endTime)
                  /\ caseTimeToEpoch(h.endTime) <= f.eventTime.local

\* The order in which events arrived, and their repetition, decide nothing.
ArrivalDoesNotMatter ==
    manifest # Null =>
        \A i \in DOMAIN arrived :
            /\ Accepted(manifest, Append(arrived, arrived[i])) = Accepted(manifest, arrived)
            /\ Accepted(manifest, <<arrived[i]>> \o RemoveAt(arrived, i))
                    = Accepted(manifest, arrived)

\* An accepted case is of the events it was declared on, and the order in
\* which they arrive decides nothing.
CaseFitsItsDataset == AcceptedCaseFits /\ ArrivalDoesNotMatter
=============================================================================
