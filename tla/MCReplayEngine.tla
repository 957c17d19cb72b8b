-------------------------- MODULE MCReplayEngine ----------------------------
(***************************************************************************)
(* The parts of packages/replay-engine and the gate a mapping passes on    *)
(* its way to them, each over a small instance of its own: the engine's    *)
(* calls are pure and share no state, so that a behaviour is of one part,  *)
(* chosen at its start.                                                    *)
(***************************************************************************)
EXTENDS EvidenceGrade, EvidenceBundle, CaseProfile, MappingValidator, Canonicalize,
        EventTime, ClaimScope, TLC

VARIABLES
    part,       \* the part that runs, the others keeping still
    table, proposal, edits,
    traded, thresholds,
    quotes, rule

-----------------------------------------------------------------------------
(* A calendar around leap years, centuries and the epoch.                  *)

\* Calendars that cross the ends of the supported years, a leap day, a
\* century that is none and one that is, and the end of an era.
OpeningDays ==
    {[year |-> y, month |-> 1, day |-> 1] :
        y \in {0, 4, 1899, 1900, 1969, 1999, 2000, 2023, 9998}}

ThreeClocks ==
    {[hour |-> 0, minute |-> 0, second |-> 0, ns |-> 0],
     [hour |-> 23, minute |-> 59, second |-> 59, ns |-> 999999999],
     [hour |-> 8, minute |-> 60, second |-> 30, ns |-> 1]}

ThreeOffsets ==
    {[sign |-> "Z", hour |-> 0, minute |-> 0], [sign |-> "+", hour |-> 9, minute |-> 0],
     [sign |-> "-", hour |-> 23, minute |-> 59]}

-----------------------------------------------------------------------------
(* Records of two sources, equal, in conflict or of one identifier.        *)

\* Records of two sources with their duplicates: other bytes, another time of
\* receipt, another time zone, a sequence with a leading zero, another
\* content, a shared identifier, no sequence.
RecordOf(source) ==
    [source |-> source, eventId |-> 3 - source,
     eventTime |-> [local |-> 10, offset |-> 0],
     sequence |-> [zeros |-> 0, value |-> 7],
     content |-> 1, rawRowHash |-> 2, receivedAt |-> 0]

Variants(e) ==
    {e,
     [e EXCEPT !.rawRowHash = 1],
     [e EXCEPT !.receivedAt = 5],
     [e EXCEPT !.eventTime = [local |-> 19, offset |-> 9]],
     [e EXCEPT !.eventTime = [local |-> 9, offset |-> 0]],
     [e EXCEPT !.sequence.zeros = 1],
     [e EXCEPT !.sequence.value = 8],
     [e EXCEPT !.sequence = Null],
     [e EXCEPT !.content = 2],
     [e EXCEPT !.eventId = 1]}

TwoSources == Variants(RecordOf(1)) \cup Variants(RecordOf(2))

-----------------------------------------------------------------------------
(* Tables of five layouts, one to a mapping version.                       *)

T(token) == Text(<<token>>)
Day(y, m, d) == [kind |-> "day", date |-> <<y, m, d>>]
Clock(h, m, s) == [kind |-> "clock", time |-> <<h, m, s>>]
Stamp(d, t) == [kind |-> "stamp", date |-> d, time |-> t]
Dec(digits, scale, leading) ==
    [kind |-> "decimal", digits |-> digits, scale |-> scale, leadingDigit |-> leading]

Into(column, target, transform) ==
    [sourceColumn |-> column, targetField |-> target, transform |-> transform,
     status |-> "PROPOSED", confidence |-> "one"]

Proposal(version, id, time, fields) ==
    [mappingVersion |-> version, sourceArtifactHash |-> Null,
     constants |-> ConstantsOf(version), compositeSourceEventId |-> id,
     compositeEventTime |-> time, actorUnmapped |-> version = "1.8", fields |-> fields]

\* A daily file whose identity is joined from two columns.
Daily ==
    [columns |-> <<"day", "code", "kind">>,
     lines |-> <<[day |-> Day(2024, 2, 29), code |-> T("a"), kind |-> T("b")],
                 [day |-> Day(2024, 2, 29), code |-> T("b"), kind |-> T("a")]>>,
     proposal |-> Proposal("1.6", <<"code", "kind">>, Null,
        <<Into("day", "eventTime", "YYYYMMDD_TO_KST_DAY_START_ISO"),
          Into("code", "instrumentId", "IDENTITY"), Into("kind", Null, Null)>>)]

\* A daily file with an opening price only, its mapping to be completed.
Ohlc ==
    [columns |-> <<"day", "code", "open", "high", "low", "close", "net">>,
     lines |-> <<[day |-> Day(2023, 2, 28), code |-> T("a"), open |-> Dec(150, 2, TRUE),
                  high |-> Dec(2, 0, TRUE), low |-> Dec(5, 1, FALSE),
                  close |-> Dec(2, 0, TRUE), net |-> Dec(5, 1, FALSE)]>>,
     proposal |-> Proposal("1.7", <<"day", "code">>, Null,
        <<Into("day", "eventTime", "YYYYMMDD_TO_KST_DAY_START_ISO"),
          Into("code", "instrumentId", "IDENTITY"),
          Into("open", "openPrice", "PUBLISHER_DECIMAL_STRING"),
          Into("high", "highPrice", "PUBLISHER_DECIMAL_STRING"),
          Into("low", "lowPrice", "PUBLISHER_DECIMAL_STRING"),
          Into("close", "closePrice", "PUBLISHER_DECIMAL_STRING"),
          Into("net", "netChange", "PUBLISHER_DECIMAL_STRING")>>)]

\* Executions: a date and a time in two columns, or one FIX timestamp.
Kis ==
    [columns |-> <<"id", "day", "clock", "code", "side">>,
     lines |-> <<[id |-> T("a"), day |-> Day(2024, 2, 29), clock |-> Clock(9, 30, 0),
                  code |-> T("b"), side |-> T("1")]>>,
     proposal |-> Proposal("1.8", Null, <<"day", "clock">>,
        <<Into("id", "sourceEventId", "IDENTITY"), Into("code", "instrumentId", "UPPERCASE"),
          Into("side", "side", "KIS_CCLD_DVSN")>>)]

Fix ==
    [columns |-> <<"id", "at", "code", "price">>,
     lines |-> <<[id |-> T("a"), at |-> Stamp(<<2024, 2, 29>>, <<9, 30, 0>>),
                  code |-> T("b"), price |-> Dec(150, 2, TRUE)]>>,
     proposal |-> Proposal("1.8", Null, Null,
        <<Into("id", "sourceEventId", "IDENTITY"),
          Into("at", "eventTime", "FIX_UTC_TIMESTAMP_TO_ISO"),
          Into("code", "instrumentId", "IDENTITY"), Into("price", "price", "DECIMAL_STRING")>>)]

Legacy ==
    [columns |-> <<"id", "at", "code", "type">>,
     lines |-> <<[id |-> T("a"), at |-> [kind |-> "epoch", seconds |-> 5], code |-> T("b"),
                  type |-> T("T")],
                 [id |-> T("A"), at |-> [kind |-> "epoch", seconds |-> 5], code |-> T("b"),
                  type |-> T("trade")]>>,
     proposal |-> Proposal("1.4", Null, Null,
        <<Into("id", "sourceEventId", "IDENTITY"), Into("at", "eventTime", "EPOCH_MS_TO_ISO"),
          Into("code", "instrumentId", "IDENTITY"),
          Into("type", "eventType", "EVENT_TYPE_CODE")>>)]

Tables == {Daily, Ohlc, Kis, Fix, Legacy}

Cells ==
    {Text(<<"a", "NUL", "b">>), Text(<<"b", "NUL", "a">>),
     Text(<<>>), T("a"), T("5"),
     Day(2023, 2, 29), Clock(24, 0, 0), Dec(5, 1, FALSE)}

OtherFields ==
    {[targetField |-> t[1], transform |-> t[2]] :
        t \in {<<"eventTime", "YYYYMMDD_TO_KST_DAY_START_ISO">>,
               <<"eventTime", "FIX_UTC_TIMESTAMP_TO_ISO">>, <<"side", "FIX_SIDE_CODE">>,
               <<"orderId", "FIX_SIDE_CODE">>, <<"sourceEventId", "IDENTITY">>,
               <<"sourceEventId", "UPPERCASE">>,
               <<"closePrice", "DECIMAL_STRING">>, <<"price", "PUBLISHER_DECIMAL_STRING">>,
               <<"actorId", "IDENTITY">>, <<Null, Null>>, <<"eventType", "EVENT_TYPE_CODE">>,
               <<"sequence", "IDENTITY">>}}

Reading == INSTANCE SourceIngest WITH
    Tables <- Tables, Cells <- Cells, OtherFields <- OtherFields, MaxEdits <- 2

-----------------------------------------------------------------------------
(* Answers under the gate, and the inputs they are for.                    *)

Epoch(s) == [kind |-> "epoch", seconds |-> s]
GoodPrice == [kind |-> "decimal", digits |-> 150, scale |-> 2, leadingDigit |-> TRUE]

RowOf(at, price) ==
    [id |-> T("x"), at |-> at, code |-> T("a"), type |-> T("T"), price |-> price]

Asked(columns, rows, version) ==
    [columns |-> columns, sampleRows |-> rows, constants |-> ConstantsOf(version),
     artifact |-> version]

Headers == <<"id", "at", "code", "type", "price">>

\* A second row whose time no transform reads, a row without a column, two
\* columns of one header, no rows, inputs of other versions, one of nothing.
AskedOf ==
    {Asked(<<>>, <<>>, "1.8"),
     Asked(Headers, <<RowOf(Epoch(1), GoodPrice)>>, "1.4"),
     Asked(Headers, <<RowOf(Epoch(1), GoodPrice), RowOf(T("x"), GoodPrice)>>, "1.4"),
     Asked(Headers, <<RowOf(Epoch(1), GoodPrice), RowOf(Epoch(1), T("x"))>>, "1.4"),
     Asked(Headers \o <<"note">>, <<RowOf(Epoch(1), GoodPrice)>>, "1.4"),
     Asked(<<"id", "at", "code", "type", "id">>, <<RowOf(Epoch(1), GoodPrice)>>, "1.4"),
     Asked(Headers, <<>>, "1.4"),
     Asked(Headers, <<RowOf(Epoch(1), GoodPrice)>>, "1.8"),
     [Asked(Headers, <<RowOf(Epoch(1), GoodPrice)>>, "1.4") EXCEPT !.artifact = "unknown"],
     [Asked(Headers, <<RowOf(Epoch(1), GoodPrice)>>, "1.8") EXCEPT !.artifact = "unknown"],
     [Asked(Headers, <<RowOf(Epoch(1), GoodPrice)>>, "1.5") EXCEPT !.artifact = "1.8"]}

GoodField(target, transform) ==
    [column |-> 0, targetField |-> target, transform |-> transform, confidence |-> "one",
     status |-> "PROPOSED", evidence |-> TRUE]

FiveFields ==
    <<GoodField("sourceEventId", "IDENTITY"), GoodField("eventTime", "EPOCH_MS_TO_ISO"),
      GoodField("instrumentId", "UPPERCASE"), GoodField("eventType", "EVENT_TYPE_CODE"),
      GoodField("price", "DECIMAL_STRING")>>

To(target, transform) == [targetField |-> target, transform |-> transform]

AnswerChanges ==
    {To(Null, Null), To("orderId", Null), To("orderId", "IDENTITY"), To("quantity", "UPPERCASE"),
     To("sourceEventId", "IDENTITY"), To("closePrice", "PUBLISHER_DECIMAL_STRING"),
     To("venue", "IDENTITY"), To("price", "ROUND"), To("eventTime", "IDENTITY"),
     [confidence |-> "partial"], [status |-> "REVIEW_REQUIRED"], [evidence |-> FALSE]}

Declares(target, transform) ==
    [targetField |-> target, transform |-> transform, confidence |-> "one",
     status |-> "PROPOSED", evidence |-> TRUE]

Fixture(version, fields) ==
    [mappingVersion |-> version, constants |-> ConstantsOf(version),
     compositeSourceEventId |-> Null, compositeEventTime |-> Null,
     actorUnmapped |-> version = "1.8", fields |-> fields]

TwoFixtures ==
    "1.4" :> Fixture("1.4", "id" :> Declares("sourceEventId", "IDENTITY")) @@
    "1.8" :> Fixture("1.8", "at" :> Declares("eventTime", "FIX_UTC_TIMESTAMP_TO_ISO"))

-----------------------------------------------------------------------------
(* A case declared while its events arrive.                                *)

At(local, offset) == [local |-> local, offset |-> offset]

Seen(instrument, actor, time) ==
    [instrumentId |-> instrument, actorId |-> actor, eventTime |-> time]

\* Local times of two offsets in an order that their instants reverse.
FourEvents ==
    {Seen("i1", "a1", At(9, 9)), Seen("i1", Null, At(3, 0)), Seen("i2", "a2", At(10, 5)),
     Seen("i2", Null, At(9, 9))}

SomeManifests ==
    {[manifestVersion |-> v,
      hypothesis |-> [pattern |-> p, instrumentIds |-> i, actorIds |-> a,
                      startTime |-> s, endTime |-> e]] :
        v \in {"1.3", "1.4"}, p \in {"RAPID_PRICE_LIFT", "CROSS_MARKET_SESSION_REVERSAL"},
        i \in {<<"i1">>, <<"i1", "i2">>}, a \in {<<>>, <<"a1">>},
        s \in {At(9, 9), At(8, 9), At(2, 0)}, e \in {At(3, 0), At(10, 5), At(4, 5)}}

-----------------------------------------------------------------------------
(* A day of trades.                                                        *)

\* Two actors, of which one is named by the hypothesis, prices with one digit
\* and with none, one event outside the window and ones without an actor,
\* with another instrument and with a price below zero.
Num(c, s) == [coefficient |-> c, scale |-> s]

Trade(time, side, actor, price) ==
    [eventId |-> <<time, side, actor, price>>,
     instrumentId |-> "i", eventType |-> "TRADE", eventTime |-> time,
     side |-> side, actorId |-> actor, price |-> price, quantity |-> Num(2, 0)]

TradedEvents ==
    {Trade(1, "SELL", "other", Num(4, 0)),
     Trade(1, "BUY", "other", Num(5, 0)),
     Trade(1, "BUY", "named", Num(35, 1)),
     Trade(2, "BUY", "named", Num(51, 1)),
     Trade(2, "SELL", "other", Num(41, 1)),
     Trade(2, "BUY", "named", Num(-1, 0)),
     Trade(2, "BUY", Null, Num(6, 0)),
     [Trade(2, "SELL", "other", Num(6, 0)) EXCEPT !.instrumentId = "j"],
     Trade(3, "SELL", "other", Num(7, 0))}

LiftHypothesis ==
    [instrumentId |-> "i", startTime |-> 1, endTime |-> 2, actorIds |-> {"named"}]

LiftRules ==
    {[PRICE_CHANGE |-> Num(250, 1), AGGRESSIVE_BUY_SHARE |-> Num(40, 0),
      ACTOR_CONCENTRATION |-> Num(500, 1), REPEATED_EXECUTION |-> Num(1, 0),
      REMOVAL_SENSITIVITY |-> Num(s, 0)] : s \in {0, 25}}

Lift == INSTANCE RapidPriceLift WITH
    Events <- TradedEvents, Hypothesis <- LiftHypothesis, Rules <- LiftRules,
    MaxEvents <- 4, BasisPoints <- 100, ReportedDigits <- 1, events <- traded,
    rule <- thresholds

-----------------------------------------------------------------------------
(* Days of quotes in two markets.                                          *)

\* Two legs, three trading dates, quotes that fall, rise and stay flat, ones
\* without a net change, without a price and with a low above the close, and
\* one after the window; denominators from the event and declared ones large
\* enough that both metrics are reported as zero.
Quote(id, instrument, date, open, high, low, close, net) ==
    [eventId |-> id, instrumentId |-> instrument, tradingDate |-> date,
     eventTime |-> date, openPrice |-> open, highPrice |-> high,
     lowPrice |-> low, closePrice |-> close, netChange |-> net,
     price |-> close + 1]

DailyQuotes ==
    {Quote(1, "a", 1, 5, 6, 2, 3, 1),
     Quote(2, "a", 1, 5, 6, 2, 6, 1),
     Quote(3, "a", 2, 4, 9, 3, 4, -2),
     Quote(4, "a", 2, 4, 9, 3, 3, 0),
     [Quote(5, "a", 2, 6, 9, 1, 2, -3) EXCEPT !.price = Null],
     Quote(6, "b", 2, 7, 9, 2, 3, 2),
     Quote(7, "b", 2, 3, 9, 2, 7, -5),
     Quote(8, "b", 2, 3, 3, 4, 5, -5),
     Quote(9, "a", 3, 2, 3, 1, 1, 1),
     [Quote(10, "a", 2, 5, 8, 2, 3, 4) EXCEPT !.eventTime = 4]}

Denominator(id, meaning, source, value) ==
    [denominatorId |-> id, meaning |-> meaning, source |-> source, value |-> value]

Net == Denominator("net", "OBSERVED_PRICE_CHANGE", "netChange", Null)
Open == Denominator("open", "OBSERVED_PRICE_LEVEL", "openPrice", Null)
Price == Denominator("price", "OBSERVED_PRICE_LEVEL", "price", Null)
Tick == Denominator("tick", "MINIMUM_INCREMENT", "DECLARED_VALUE", 200)

Leg(id, instrument, approved, denominators) ==
    [legId |-> id, instrumentId |-> instrument, minimumReversalMultiple |-> 2,
     approvedDenominatorId |-> approved, denominators |-> denominators]

ReversalRules ==
    {[ruleVersion |-> version, analysedDate |-> date, startDate |-> 1,
      endDateInclusive |-> 2, baselineLegId |-> "first",
      legs |-> <<Leg("first", "a", approved, <<Net, Open, Tick>>),
                 Leg("second", "b", approved, <<other, Tick, Net>>)>>,
      maximumBaselineRank |-> 1, minimumAgreeingLegs |-> 2] :
        version \in {"1.0", "1.1"}, date \in {2, 3},
        approved \in {"net", "tick", "open"}, other \in {Price, Open}}

ReversalHypothesis == [instrumentIds |-> {"a", "b"}, startTime |-> 1, endTime |-> 3]

Reversal == INSTANCE SessionReversal WITH
    Quotes <- DailyQuotes, Rules <- ReversalRules,
    Hypothesis <- ReversalHypothesis, MaxQuotes <- 4, ReportedScale <- 100

-----------------------------------------------------------------------------
(* A graded sentence over two rows and three bytes.                        *)

TwoRows == {1, 2}
TwoValues == {1, 2}
Retained == <<"a", "b", "a">>

-----------------------------------------------------------------------------
(* Bundles of a CSV that normalizes and a JSON Lines file to review.       *)

TwoArtifacts ==
    {[bytes |-> "first", format |-> "CSV", rows |-> "good"],
     [bytes |-> "second", format |-> "JSON_LINES", rows |-> "review"]}

-----------------------------------------------------------------------------
(* Renamed and colliding instruments, and the datasets that quote them.    *)

Source(id, checked, retrieved) ==
    [sourceId |-> id, reference |-> id, checkedAt |-> checked, retrievedAt |-> retrieved]

Registers == <<Source(2, 0, 1), Source(1, 0, 1)>>

Name(text, lower, padded) == [text |-> text, lower |-> lower, padded |-> padded]

Identifier(key, value, from, through, source) ==
    [key |-> key, kind |-> "KOREAN_NAME", value |-> value, validFrom |-> from,
     validThrough |-> through, sourceId |-> source]

Listed(id, identifiers) ==
    [instrumentId |-> id, kind |-> "INSTRUMENT", identifiers |-> identifiers]

\* A renamed instrument, one that took the name over, one that shares it, an
\* index with identifiers in no order, and one from an unknown source.
SomeInstruments ==
    {Listed(1, <<Identifier(1, Name("a", FALSE, FALSE), 1, 1, 1),
                 Identifier(2, Name("b", TRUE, FALSE), 2, 3, 1)>>),
     Listed(2, <<Identifier(3, Name("a", FALSE, TRUE), 2, 3, 2)>>),
     Listed(3, <<Identifier(5, Name("b", FALSE, FALSE), 1, 3, 2),
                 Identifier(4, Name("a", FALSE, FALSE), 3, 3, 1)>>),
     Listed(2, <<Identifier(6, Name("a", FALSE, FALSE), 1, 1, 9)>>)}

TwoBindings ==
    {[key |-> 1, datasetId |-> 7, instrumentId |-> 1, source |-> Source(7, 0, 1),
      availableDates |-> <<3, 1>>],
     [key |-> 2, datasetId |-> 7, instrumentId |-> 1, source |-> Source(1, 0, 2),
      availableDates |-> <<2>>]}

Observed(instrument, date, row) == [instrumentId |-> instrument, date |-> date, rowNumber |-> row]

Dataset(id, retrieved, observations) ==
    [datasetId |-> id, fields |-> {"close"}, start |-> 1, endInclusive |-> 3,
     source |-> Source(id, 0, retrieved), observations |-> observations]

ThreeDatasets ==
    {Dataset(7, 1, <<Observed(1, 1, 2), Observed(1, 3, 3), Observed(2, 2, 4)>>),
     Dataset(8, 2, <<Observed(2, 1, 2), Observed(2, 3, 3)>>),
     Dataset(9, 1, <<Observed(1, 1, 2), Observed(1, 1, 3)>>)}

TwoDefinitions ==
    {[definitionId |-> "change", field |-> "close", resolution |-> "DAILY"],
     [definitionId |-> "change", field |-> "volume", resolution |-> "DAILY"]}

TwoWordings == {Name("a", TRUE, TRUE), Name("b", FALSE, FALSE)}

ThreeDays == 1 .. 3

-----------------------------------------------------------------------------
\* What stands for the constants, each the name of a set above: TLC keeps the
\* value of a definition but expands what stands for a constant at each use.
MCFirstDays == OpeningDays
MCClocks == ThreeClocks
MCOffsets == ThreeOffsets
MCRecords == TwoSources
MCArrivals == FourEvents
MCCaseManifests == SomeManifests
MCArtifacts == TwoArtifacts
MCInputs == AskedOf
MCGoodFields == FiveFields
MCFieldChanges == AnswerChanges
MCRegistered == TwoFixtures
MCInstruments == SomeInstruments
MCBindings == TwoBindings
MCDatasets == ThreeDatasets
MCDefinitions == TwoDefinitions
MCSources == Registers
MCWordings == TwoWordings
MCDays == ThreeDays

-----------------------------------------------------------------------------
(* One part runs.  The variables of the others keep still, as they were at *)
(* first where the part is of a module this one extends, Null elsewhere.   *)

Runs(p, start, idle) == IF part = p THEN start ELSE idle

MCInit ==
    /\ part \in {"calendar", "batch", "ingest", "gate", "case", "lift",
                 "reversal", "grade", "bundle", "scope"}
    /\ Init
    /\ part # "grade" => \A c \in Coordinates : sourceRows[c].value = 1
    /\ CalendarInit
    /\ part # "calendar" => /\ page.year = 2000
                            /\ writing.clock.minute = 60 /\ writing.offset.sign = "Z"
    /\ BatchInit
    /\ CaseInit
    /\ Runs("ingest", Reading!Init, table = Null /\ proposal = Null /\ edits = Null)
    /\ GateInit
    /\ part # "gate" => asked.columns = <<>>
    /\ Runs("lift", Lift!Init, traded = Null /\ thresholds = Null)
    /\ Runs("reversal", Reversal!Init, quotes = Null /\ rule = Null)
    /\ BundleInit
    /\ part # "bundle" =>
           bundled.sources = <<>> /\ bundled.mapping = Null /\ bundled.case = Null
    /\ ScopeInit

In(p) ==
    /\ part = p /\ UNCHANGED part
    /\ Runs("calendar", TRUE, UNCHANGED calendarVars)
    /\ Runs("batch", TRUE, UNCHANGED batch)
    /\ Runs("ingest", TRUE, UNCHANGED <<table, proposal, edits>>)
    /\ Runs("gate", TRUE, UNCHANGED gateVars)
    /\ Runs("case", TRUE, UNCHANGED caseVars)
    /\ Runs("lift", TRUE, UNCHANGED <<traded, thresholds>>)
    /\ Runs("reversal", TRUE, UNCHANGED <<quotes, rule>>)
    /\ Runs("grade", TRUE, UNCHANGED vars)
    /\ Runs("bundle", TRUE, UNCHANGED bundleVars)
    /\ Runs("scope", TRUE, UNCHANGED scopeVars)

MCNext ==
    \/ In("calendar") /\ Turn
    \/ In("batch") /\ \E e \in Records : Collect(e)
    \/ In("ingest") /\ Reading!ChangeCell
    \/ In("ingest") /\ Reading!DropCell
    \/ In("ingest") /\ Reading!ChangeEncoding
    \/ In("ingest") /\ Reading!ChangeField
    \/ In("ingest") /\ Reading!DropField
    \/ In("ingest") /\ Reading!ChangeVersion
    \/ In("gate") /\ SpoilEnvelope
    \/ In("gate") /\ ChangeField
    \/ In("gate") /\ Rename
    \/ In("gate") /\ Omit
    \/ In("gate") /\ Swap
    \/ In("case") /\ \E e \in Arrivals : Arrive(e)
    \/ In("case") /\ \E m \in CaseManifests : DeclareCase(m)
    \/ In("lift") /\ \E e \in TradedEvents : Lift!Occurs(e)
    \/ In("reversal") /\ \E e \in DailyQuotes : Reversal!Occurs(e)
    \/ In("grade") /\ Next
    \/ In("bundle") /\ Assemble
    \/ In("bundle") /\ EditState
    \/ In("bundle") /\ EditMapping
    \/ In("bundle") /\ EditCase
    \/ In("bundle") /\ EditReplay
    \/ In("bundle") /\ HashAgain
    \/ In("bundle") /\ SupplyOther
    \/ In("scope") /\ ListInstrument
    \/ In("scope") /\ Bind
    \/ In("scope") /\ Publish
    \/ In("scope") /\ Define

mcVars ==
    <<vars, bundleVars, gateVars, calendarVars, batch, caseVars, scopeVars, part,
      table, proposal, edits, traded, thresholds, quotes, rule>>

MCSpec == MCInit /\ [][MCNext]_mcVars

-----------------------------------------------------------------------------
\* Under an accepted mapping a row becomes the one event its columns say,
\* whichever file format carried it.
IngestIsFaithful == part = "ingest" => Reading!IngestIsFaithful

\* The verdict is of the numbers traded: not of how they are written, and no
\* gate passes or fails against the value that is shown for it.
VerdictIsOfTheNumbers == part = "lift" => Lift!VerdictIsOfTheNumbers

\* A verdict is one its contract admits, with a rank inside its population,
\* and both versions of the rule agree on what they both measure.
ReversalVerdictHolds == part = "reversal" => Reversal!ReversalVerdictHolds

=============================================================================
