----------------------------- MODULE ClaimScope -----------------------------
(****************************************************************************)
(* From a name in a claim to the rows that can check it: the resolver gives *)
(* the instrument on a date                                                 *)
(* (packages/contracts/src/instrument-resolution.ts,                        *)
(* packages/instrument-resolver/src/index.ts), and the coverage of the      *)
(* published datasets gives the rows                                        *)
(* (packages/replay-engine/src/claim-coverage.ts,                           *)
(* packages/contracts/src/coverage.ts).  The listing, the quote bindings,   *)
(* the datasets and the definitions grow in any order.                      *)
(*                                                                          *)
(* A name is [text, lower, padded]: what is left of it after Unicode        *)
(* normalization, and whether ASCII case and outer blanks differ.  Days and *)
(* the positions of texts in their order are numbers.  A hash is what it    *)
(* hashes.                                                                  *)
(****************************************************************************)
EXTENDS Checks

CONSTANTS
    Instruments, Bindings, Datasets, Definitions,   \* what may be registered
    Sources,        \* the sources of the listing, a sequence
    Wordings, Days,    \* what is asked for
    MaxEntries      \* bound: how much is registered

\* What the contracts make of an identifier, an instrument, a binding.
DatedIdentifier(d) == d.key \in Int /\ d.validFrom \in Int /\ d.validThrough \in Int

Members(s) == s \in Seq(Range(s))

ASSUME ScopeAssumption ==
    /\ Days \subseteq Int
    /\ Members(Sources) /\ \A s \in Range(Sources) : s.sourceId \in Int
    /\ \A i \in Instruments :
          /\ i = [instrumentId |-> i.instrumentId, kind |-> i.kind,
                  identifiers |-> i.identifiers]
          /\ i.instrumentId \in Int
          /\ Members(i.identifiers) /\ \A d \in Range(i.identifiers) : DatedIdentifier(d)
    /\ \A b \in Bindings :
          /\ b = [key |-> b.key, datasetId |-> b.datasetId, source |-> b.source,
                  instrumentId |-> b.instrumentId, availableDates |-> b.availableDates]
          /\ b.key \in Int /\ b.availableDates \in Seq(Int)
    \* Another dataset or another instrument is another canonical JSON.
    /\ \A b, c \in Bindings : b.key = c.key =>
          b.datasetId = c.datasetId /\ b.instrumentId = c.instrumentId
    /\ \A d \in Datasets : Members(d.observations)

VARIABLES
    instruments, bindings, datasets, definitions,
    asOf            \* the retrieval the coverage manifest says is its newest

scopeVars == <<instruments, bindings, datasets, definitions, asOf>>

listing == [sources |-> Sources, instruments |-> instruments]

-----------------------------------------------------------------------------
\* The members of s at the places kept, by their keys and, of equal keys, as
\* they come: filter and sort of the language.
InOrder(s, kept, key) ==
    LET Before(m, n) == key[m] < key[n] \/ (key[m] = key[n] /\ m < n)
        At(n) == CHOOSE p \in kept : Cardinality({m \in kept : Before(m, p)}) = n - 1
    IN  [n \in 1 .. Cardinality(kept) |-> s[At(n)]]

Kept(s, places) == InOrder(s, places, [n \in DOMAIN s |-> 0])

SortedBy(s, key(_)) == InOrder(s, DOMAIN s, [n \in DOMAIN s |-> key(s[n])])

-----------------------------------------------------------------------------
(* The contract of a listing.  A source is [sourceId, reference, checkedAt, *)
(* retrievedAt].                                                            *)

permissionWasReviewedBy(s) == s.checkedAt <= s.retrievedAt

\* An identifier is [key, kind, value, validFrom, validThrough, sourceId]; its
\* key is the place of its canonical JSON among all identifiers.
InstrumentIdentifier(i) == i.validFrom <= i.validThrough

SourceId(s) == s.sourceId
InstrumentId(i) == i.instrumentId

InstrumentListing(l) ==
    /\ l.sources # <<>> /\ l.instruments # <<>>
    /\ \A s \in Range(l.sources) : permissionWasReviewedBy(s)
    /\ AllDistinct(l.sources, SourceId)
    /\ AllDistinct(l.instruments, InstrumentId)
    /\ \A i \in Range(l.instruments) :
          /\ i.identifiers # <<>>
          /\ \A d \in Range(i.identifiers) :
                InstrumentIdentifier(d) /\ d.sourceId \in Collected(l.sources, SourceId)

\* A binding is [key, datasetId, instrumentId, source, availableDates].
Date(d) == d

DailyQuoteBinding(b) ==
    /\ b.availableDates # <<>> /\ AllDistinct(b.availableDates, Date)
    /\ permissionWasReviewedBy(b.source)

-----------------------------------------------------------------------------
normalizeInstrumentName(name) == [text |-> name.text, lower |-> FALSE, padded |-> FALSE]

Identity(b) == <<b.datasetId, b.instrumentId>>

\* One source identity has one record, in the listing and in every binding.
SourcesAgree(l, quoted) ==
    \A s, t \in Range(l.sources) \cup {b.source : b \in Range(quoted)} :
        s.sourceId = t.sourceId => s = t

CanonicalPlace(r) == r.key

orderedIdentifiers(i) == [i EXCEPT !.identifiers = SortedBy(@, CanonicalPlace)]

orderedListing(l) ==
    [sources |-> SortedBy(l.sources, SourceId),
     instruments |-> SortedBy([n \in DOMAIN l.instruments |->
                                  orderedIdentifiers(l.instruments[n])], InstrumentId)]

\* Where a source came from counts in the hash of a listing, not when.
listingHash(l) ==
    [sources |-> [n \in DOMAIN l.sources |->
                    <<l.sources[n].sourceId, l.sources[n].reference>>],
     instruments |-> l.instruments]

exact(instrument, query) ==
    LET ids == instrument.identifiers
    IN  Kept(ids, {n \in DOMAIN ids :
            normalizeInstrumentName(ids[n].value) = normalizeInstrumentName(query)})

\* Mutant of reasons: a name counts on every day once it was ever valid.
reasonsOnAnyDay(instrument, request) == exact(instrument, request.query)

reasons(instrument, request) ==
    LET ids == exact(instrument, request.query)
    IN  Kept(ids, {n \in DOMAIN ids : /\ ids[n].validFrom <= request.eventDate
                                      /\ request.eventDate <= ids[n].validThrough})

candidates(ordered, request) ==
    LET all == ordered.instruments
        named == Kept(all, {n \in DOMAIN all : reasons(all[n], request) # <<>>})
    IN  [n \in DOMAIN named |->
            [instrumentId |-> named[n].instrumentId, kind |-> named[n].kind,
             reasons |-> reasons(named[n], request)]]

foundOutsideDate(ordered, request) ==
    \E i \in Range(ordered.instruments) : exact(i, request.query) # <<>>

links(quoted, candidate, request) ==
    LET onDate == Kept(quoted, {n \in DOMAIN quoted :
                    /\ quoted[n].instrumentId = candidate.instrumentId
                    /\ request.eventDate \in Range(quoted[n].availableDates)})
    IN  SortedBy([n \in DOMAIN onDate |->
                     [onDate[n] EXCEPT !.availableDates = SortedBy(@, Date)]],
                 CanonicalPlace)

Resolution(ordered, request) == [request |-> request, listing |-> listingHash(ordered)]

resolveInstrument(request, l, quoted) ==
    LET ordered == orderedListing(l)
        found == candidates(ordered, request)
    IN  IF \/ ~InstrumentListing(l)
           \/ \E b \in Range(quoted) : ~DailyQuoteBinding(b)
           \/ ~AllDistinct(quoted, Identity)
           \/ ~SourcesAgree(l, quoted)
        THEN [status |-> "ERROR"]
        ELSE IF found = <<>>
        THEN [base |-> Resolution(ordered, request), status |-> "UNRESOLVED",
              reason |-> IF foundOutsideDate(ordered, request)
                         THEN "NAME_NOT_VALID_ON_EVENT_DATE" ELSE "NO_EXACT_MATCH"]
        ELSE IF Len(found) > 1
        THEN [base |-> Resolution(ordered, request), status |-> "REVIEW_REQUIRED",
              candidates |-> found]
        ELSE [base |-> Resolution(ordered, request), status |-> "RESOLVED",
              candidate |-> found[1], quotes |-> links(quoted, found[1], request)]

-----------------------------------------------------------------------------
(* The contract of a coverage manifest.  A dataset is [datasetId, fields,   *)
(* start, endInclusive, source, observations].                             *)

CoverageWindow(w) == w.start <= w.endInclusive

ObservationIdentity(o) == <<o.instrumentId, o.date>>
RowNumber(o) == o.rowNumber

CoverageDataset(d) ==
    /\ CoverageWindow(d)
    /\ d.source.sourceId = d.datasetId
    /\ d.observations # <<>>
    /\ AllDistinct(d.observations, ObservationIdentity)
    /\ AllDistinct(d.observations, RowNumber)
    /\ \A o \in Range(d.observations) : d.start <= o.date /\ o.date <= d.endInclusive

DatasetId(d) == d.datasetId
Artifact(d) == d.source.reference

CoverageManifest(m, newest) ==
    /\ m # <<>>
    /\ \E d \in Range(m) : d.source.retrievedAt = newest
    /\ \A d \in Range(m) : d.source.retrievedAt <= newest
    /\ \A d \in Range(m) : CoverageDataset(d) /\ permissionWasReviewedBy(d.source)
    /\ AllDistinct(m, DatasetId) /\ AllDistinct(m, Artifact)

-----------------------------------------------------------------------------
(* resolveClaimCoverage.                                                   *)

ObservationsFor(d, request) ==
    LET rows == d.observations
    IN  Kept(rows, {n \in DOMAIN rows :
            /\ rows[n].instrumentId = request.instrumentId
            /\ request.start <= rows[n].date /\ rows[n].date <= request.endInclusive})

\* The window alone proves nothing: both of its ends must have been observed.
Covers(d, request) ==
    LET dates == {o.date : o \in Range(ObservationsFor(d, request))}
    IN  /\ request.field \in d.fields
        /\ d.start <= request.start /\ request.endInclusive <= d.endInclusive
        /\ {request.start, request.endInclusive} \subseteq dates

\* Every published dataset is daily.
Precise(d, request) == request.resolution = "DAILY"

Bound(request) ==
    Kept(definitions, {n \in DOMAIN definitions :
        /\ request.definition # Null
        /\ definitions[n].definitionId = request.definition
        /\ definitions[n].field = request.field
        /\ definitions[n].resolution = request.resolution})

Unavailable(reasonCode) == [status |-> "UNCONFIRMABLE", reasonCode |-> reasonCode]

resolveClaimCoverage(request) ==
    LET covering == Kept(datasets, {n \in DOMAIN datasets : Covers(datasets[n], request)})
        precise == Kept(covering, {n \in DOMAIN covering : Precise(covering[n], request)})
    IN  IF ~CoverageManifest(datasets, asOf) \/ ~CoverageWindow(request)
        THEN [status |-> "ERROR"]
        ELSE IF covering = <<>> THEN Unavailable("OUTSIDE_COVERAGE")
        ELSE IF precise = <<>> THEN Unavailable("RESOLUTION_TOO_COARSE")
        ELSE IF Len(Bound(request)) # 1 THEN Unavailable("DEFINITION_NOT_BOUND")
        ELSE [status |-> "READY", definition |-> Bound(request)[1],
              sources |-> [n \in DOMAIN precise |->
                            [datasetId |-> precise[n].datasetId,
                             source |-> precise[n].source,
                             observations |-> ObservationsFor(precise[n], request)]]]

-----------------------------------------------------------------------------
ScopeInit ==
    /\ instruments = <<>> /\ bindings = <<>> /\ datasets = <<>> /\ definitions = <<>>
    /\ asOf = 0

Room ==
    Len(instruments) + Len(bindings) + Len(datasets) + Len(definitions) < MaxEntries

ListInstrument ==
    /\ Room
    /\ \E i \in Instruments : instruments' = Append(instruments, i)
    /\ UNCHANGED <<bindings, datasets, definitions, asOf>>

Bind ==
    /\ Room
    /\ \E b \in Bindings : bindings' = Append(bindings, b)
    /\ UNCHANGED <<instruments, datasets, definitions, asOf>>

\* A dataset is published, the manifest redated or left with its older date.
Publish ==
    /\ Room
    /\ \E d \in Datasets :
          /\ datasets' = Append(datasets, d)
          /\ asOf' \in {asOf, d.source.retrievedAt}
    /\ UNCHANGED <<instruments, bindings, definitions>>

Define ==
    /\ Room
    /\ \E f \in Definitions : definitions' = Append(definitions, f)
    /\ UNCHANGED <<instruments, bindings, datasets, asOf>>

ScopeNext == ListInstrument \/ Bind \/ Publish \/ Define

ScopeSpec == ScopeInit /\ [][ScopeNext]_scopeVars

-----------------------------------------------------------------------------
(* Properties.                                                             *)

Resolve(name, day) ==
    resolveInstrument([query |-> name, eventDate |-> day], listing, bindings)

\* An instrument is resolved only when it alone bears the name on the day,
\* however the name is written, and the quotes linked to it exist on that day.
ResolvedIsTheOnlyBearer ==
    \A name \in Wordings, day \in Days :
        LET answer == Resolve(name, day)
            Bears(i) == \E d \in Range(i.identifiers) :
                d.value.text = name.text /\ day \in d.validFrom .. d.validThrough
            bearers == {i.instrumentId : i \in {j \in Range(instruments) : Bears(j)}}
        IN  /\ answer.status = "RESOLVED" =>
                  /\ bearers = {answer.candidate.instrumentId}
                  /\ \A l \in Range(answer.quotes) : day \in Range(l.availableDates)
            /\ answer.status = "UNRESOLVED" => bearers = {}

\* A name is never resolved to another instrument because the same listing is
\* written in another order, nor by registering one more instrument.
AnswerNeverSwitches ==
    \A name \in Wordings, day \in Days :
        LET request == [query |-> name, eventDate |-> day]
            answer == Resolve(name, day)
            Grown(i) == [listing EXCEPT !.instruments = Append(@, i)]
        IN  /\ resolveInstrument(request, [listing EXCEPT !.instruments = Reverse(@)],
                                 Reverse(bindings)) = answer
            /\ answer.status = "RESOLVED" =>
                  \A i \in Instruments :
                      LET later == resolveInstrument(request, Grown(i), bindings)
                      IN  later.status = "RESOLVED" => later.candidate = answer.candidate

\* A claim about an instrument is ready only with its rows on both ends of the
\* window, from the dataset's own source, and not at a finer resolution.
HasItsRows(id, start, end, resolution) ==
    LET request == [instrumentId |-> id, start |-> start, endInclusive |-> end,
                    field |-> "close", resolution |-> resolution, definition |-> "change"]
        answer == resolveClaimCoverage(request)
        rows(s) == {o \in Range(s.observations) : o.instrumentId = id}
    IN  /\ answer.status = "READY" =>
              /\ resolution = "DAILY"
              /\ \A s \in Range(answer.sources) :
                    /\ {start, end} \subseteq {o.date : o \in rows(s)}
                    /\ s.source.sourceId = s.datasetId
              /\ answer.definition.field = "close"
        /\ /\ answer.status = "UNCONFIRMABLE"
           /\ Len(Bound(request)) = 1
           /\ resolution = "DAILY"
           => answer.reasonCode = "OUTSIDE_COVERAGE"

\* A claim is ready to be checked only with rows of the instrument that its
\* name means on both ends of the window, from the dataset's own source, and
\* never at a finer resolution than what was published.
ReadyHasItsRows ==
    \A name \in Wordings, start \in Days :
        LET named == Resolve(name, start)
        IN  named.status = "RESOLVED" =>
                \A end \in Days, resolution \in {"DAILY", "INTRADAY"} :
                    HasItsRows(named.candidate.instrumentId, start, end, resolution)

\* A name leads to its one bearer on that day or to nobody, a growing registry
\* never switches the answer, and a ready claim has its rows.
ScopeIsExact == ResolvedIsTheOnlyBearer /\ AnswerNeverSwitches /\ ReadyHasItsRows
=============================================================================
