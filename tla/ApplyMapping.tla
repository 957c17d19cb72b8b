---------------------------- MODULE ApplyMapping ----------------------------
(****************************************************************************)
(* The contract of a schema mapping proposal, version by version, the       *)
(* mapping derived from it when it is approved                              *)
(* (packages/contracts/src/schema-mapping.ts), and its application to the   *)
(* rows of a source: its structure, the transforms of its cells and the     *)
(* events of its rows (packages/replay-engine/src/source-ingest.ts,         *)
(* applyApprovedMapping and what it calls).                                 *)
(*                                                                          *)
(* A confidence is "zero", "partial" or "one"; a proposal names Null where  *)
(* the code leaves a member out.                                            *)
(* A cell is what its text can be read as.  A plain text is a sequence of   *)
(* tokens, one of which may be the separator NUL.  The hash of a row is the *)
(* row.                                                                     *)
(****************************************************************************)
EXTENDS Checks


LegacyTransforms ==
    {"IDENTITY", "ISO_DATETIME", "EPOCH_MS_TO_ISO", "UPPERCASE",
     "DECIMAL_STRING", "BUY_SELL_CODE", "EVENT_TYPE_CODE"}

EXECUTION_TRANSFORMS ==
    {"FIX_UTC_TIMESTAMP_TO_ISO", "FIX_SIDE_CODE", "KIS_CCLD_DVSN"}

AllowedTransforms ==
    LegacyTransforms \cup EXECUTION_TRANSFORMS \cup
        {"YYYYMMDD_TO_KST_DAY_START_ISO", "PUBLISHER_DECIMAL_STRING"}

OHLC_TARGET_FIELDS ==
    {"openPrice", "highPrice", "lowPrice", "closePrice", "netChange"}

MappedTargetFields ==
    OHLC_TARGET_FIELDS \cup
        {"sourceEventId", "eventTime", "receivedAt", "sequence", "instrumentId",
         "eventType", "side", "actorId", "counterpartyId", "orderId", "price",
         "quantity"}

Versions == {"1.4", "1.5", "1.6", "1.7", "1.8"}

-----------------------------------------------------------------------------
\* The schema of the events a version maps to, and their type where it is one.
ConstantsOf(version) ==
    CASE version = "1.4" -> [schemaVersion |-> "1.1", eventType |-> Null]
      [] version \in {"1.5", "1.6"} ->
            [schemaVersion |-> "1.2", eventType |-> "DAILY_QUOTE"]
      [] version = "1.7" -> [schemaVersion |-> "1.3", eventType |-> "DAILY_QUOTE"]
      [] version = "1.8" -> [schemaVersion |-> "1.1", eventType |-> "TRADE"]

MappingField(f) ==
    /\ f.transform \in AllowedTransforms \cup {Null}
    /\ (f.targetField = Null) = (f.transform = Null)

\* The trading-date anchor is for the time of an event alone.
AnchorsTime(f) ==
    f.transform = "YYYYMMDD_TO_KST_DAY_START_ISO" => f.targetField = "eventTime"

FieldAllowed(version, f) ==
    CASE version = "1.4" ->
            /\ f.transform \in LegacyTransforms \cup {Null}
            /\ f.targetField \notin OHLC_TARGET_FIELDS
      [] version \in {"1.5", "1.6"} ->
            /\ version = "1.6" => f.targetField # "sourceEventId"
            /\ f.targetField \notin OHLC_TARGET_FIELDS
            /\ f.transform \notin EXECUTION_TRANSFORMS \cup {"PUBLISHER_DECIMAL_STRING"}
            /\ AnchorsTime(f)
      [] version = "1.7" ->
            /\ f.transform \notin EXECUTION_TRANSFORMS
            /\ AnchorsTime(f)
            /\ (f.targetField \in OHLC_TARGET_FIELDS)
                    = (f.transform = "PUBLISHER_DECIMAL_STRING")
      [] version = "1.8" ->
            /\ f.targetField \notin OHLC_TARGET_FIELDS
            /\ f.transform \notin
                   {"YYYYMMDD_TO_KST_DAY_START_ISO", "PUBLISHER_DECIMAL_STRING"}
            /\ f.transform = "FIX_UTC_TIMESTAMP_TO_ISO" => f.targetField = "eventTime"
            /\ f.transform \in {"FIX_SIDE_CODE", "KIS_CCLD_DVSN"} => f.targetField = "side"

Maps(p, target) == \E i \in DOMAIN p.fields : p.fields[i].targetField = target

Column(c) == c

CompositeSourceEventId(p) ==
    LET columns == p.compositeSourceEventId
        present == columns # Null
    IN  /\ present => Len(columns) >= 2 /\ AllDistinct(columns, Column)
        /\ CASE p.mappingVersion = "1.6" -> present
             [] p.mappingVersion = "1.7" -> present # Maps(p, "sourceEventId")
             [] OTHER -> ~present

CompositeEventTime(p) ==
    LET columns == p.compositeEventTime
        present == columns # Null
    IN  /\ present => Len(columns) = 2 /\ AllDistinct(columns, Column)
        /\ IF p.mappingVersion = "1.8" THEN present # Maps(p, "eventTime")
           ELSE ~present

\* Only version 1.8 may declare that its source names no actor.
UnmappedFields(p) ==
    p.actorUnmapped => p.mappingVersion = "1.8" /\ ~Maps(p, "actorId")

SchemaMappingProposal(p) ==
    /\ p.constants = ConstantsOf(p.mappingVersion)
    /\ \A i \in DOMAIN p.fields :
          MappingField(p.fields[i]) /\ FieldAllowed(p.mappingVersion, p.fields[i])
    /\ CompositeSourceEventId(p)
    /\ CompositeEventTime(p)
    /\ UnmappedFields(p)

-----------------------------------------------------------------------------
requiresMappingOverride(f) == f.status = "REVIEW_REQUIRED" \/ f.confidence # "one"

\* What is approved: how columns map, without how sure the proposal was.
deriveApprovedSourceMapping(p) ==
    [mappingVersion |-> p.mappingVersion,
     sourceArtifactHash |-> p.sourceArtifactHash,
     constants |-> p.constants,
     fields |-> [i \in DOMAIN p.fields |->
                    [sourceColumn |-> p.fields[i].sourceColumn,
                     targetField |-> p.fields[i].targetField,
                     transform |-> p.fields[i].transform]],
     compositeSourceEventId |-> p.compositeSourceEventId,
     compositeEventTime |-> p.compositeEventTime]

-----------------------------------------------------------------------------
(* Application.                                                            *)

Text(tokens) == [kind |-> "text", tokens |-> tokens]

Rejected == [kind |-> "rejected"]

-----------------------------------------------------------------------------
(* Transforms of one cell.                                                 *)

leapYear(y) == y % 4 = 0 /\ (y % 100 # 0 \/ y % 400 = 0)

daysOfMonth(y, m) ==
    CASE m = 2 -> IF leapYear(y) THEN 29 ELSE 28
      [] m \in {4, 6, 9, 11} -> 30
      [] OTHER -> 31

validDay(d) == d[1] >= 1 /\ d[2] \in 1..12 /\ d[3] \in 1..daysOfMonth(d[1], d[2])

validDateTimeParts(d, t) ==
    validDay(d) /\ t[1] \in 0..23 /\ t[2] \in 0..59 /\ t[3] \in 0..59

IsoInstant(date, time, offset) ==
    [kind |-> "instant", date |-> date, time |-> time, offset |-> offset]

\* A decimal is its digits and how many of them are a fraction; canonical
\* digits end in no zero of the fraction.
canonicalizeDecimalString(v) ==
    IF v.kind # "decimal" \/ ~v.leadingDigit THEN Rejected
    ELSE LET cut == CHOOSE k \in 0..v.scale :
                        /\ v.digits % (10^k) = 0
                        /\ \A j \in (k + 1)..v.scale : v.digits % (10^j) # 0
         IN  [v EXCEPT !.digits = @ \div (10^cut), !.scale = @ - cut]

\* The upper case of a text: these tokens alone are written in lower case.
UpperCases ==
    [a |-> "A", b |-> "B", s |-> "S", t |-> "T", x |-> "X", buy |-> "BUY",
     sell |-> "SELL", trade |-> "TRADE"]

toUpperCase(v) ==
    IF v.kind # "text" THEN v
    ELSE Text([n \in DOMAIN v.tokens |->
                IF v.tokens[n] \in DOMAIN UpperCases THEN UpperCases[v.tokens[n]]
                ELSE v.tokens[n]])

Coded(v, table_) ==
    IF v.kind = "text" /\ Len(v.tokens) = 1 /\ v.tokens[1] \in DOMAIN table_
    THEN Text(<<table_[v.tokens[1]]>>) ELSE Rejected

sides == [B |-> "BUY", BUY |-> "BUY", S |-> "SELL", SELL |-> "SELL"]

eventTypes ==
    [C |-> "ORDER_CANCEL", CANCEL |-> "ORDER_CANCEL", EXECUTION |-> "TRADE",
     N |-> "ORDER_NEW", T |-> "TRADE", TRADE |-> "TRADE"] @@ "NEW" :> "ORDER_NEW"

applyTransform(v, transform) ==
    CASE transform \in {"IDENTITY", "ISO_DATETIME"} -> v
      [] transform = "UPPERCASE" -> toUpperCase(v)
      [] transform = "YYYYMMDD_TO_KST_DAY_START_ISO" ->
            IF v.kind = "day" /\ validDay(v.date)
            THEN IsoInstant(v.date, <<0, 0, 0>>, 9) ELSE Rejected
      [] transform = "DECIMAL_STRING" -> canonicalizeDecimalString(v)
      [] transform = "PUBLISHER_DECIMAL_STRING" ->
            canonicalizeDecimalString(
                IF v.kind = "decimal" THEN [v EXCEPT !.leadingDigit = TRUE] ELSE v)
      [] transform = "BUY_SELL_CODE" -> Coded(toUpperCase(v), sides)
      [] transform = "EVENT_TYPE_CODE" -> Coded(toUpperCase(v), eventTypes)
      [] transform = "FIX_UTC_TIMESTAMP_TO_ISO" ->
            IF v.kind = "stamp" /\ validDateTimeParts(v.date, v.time)
            THEN IsoInstant(v.date, v.time, 0) ELSE Rejected
      [] transform = "FIX_SIDE_CODE" -> Coded(v, "1" :> "BUY" @@ "2" :> "SELL")
      [] transform = "KIS_CCLD_DVSN" -> Coded(v, "1" :> "BUY" @@ "5" :> "SELL")
      [] transform = "EPOCH_MS_TO_ISO" ->
            IF v.kind = "epoch" THEN IsoInstant(<<1970, 1, 1>>, <<0, 0, v.seconds>>, 0)
            ELSE Rejected

applyCompositeEventTime(date, time) ==
    IF date.kind = "day" /\ time.kind = "clock" /\ validDateTimeParts(date.date, time.time)
    THEN IsoInstant(date.date, time.time, 9) ELSE Rejected

-----------------------------------------------------------------------------
(* validateApprovedMapping: the structure of a mapping, without its rows.  *)

Targets(m) == {m.fields[i].targetField : i \in DOMAIN m.fields} \ {Null}

Declared(m) ==
    (IF m.constants.eventType # Null THEN {"eventType"} ELSE {}) \cup
    (IF m.compositeSourceEventId # Null THEN {"sourceEventId"} ELSE {}) \cup
    (IF m.compositeEventTime # Null THEN {"eventTime"} ELSE {})

SourceColumnOf(f) == f.sourceColumn

AssignedTwice(m) ==
    \/ Declared(m) \cap Targets(m) # {}
    \/ \E i, j \in DOMAIN m.fields :
          i # j /\ m.fields[i].targetField # Null
                /\ m.fields[i].targetField = m.fields[j].targetField

UnknownTransform(m, f) ==
    \/ f.transform \notin AllowedTransforms
    \/ f.transform \in EXECUTION_TRANSFORMS /\ m.mappingVersion # "1.8"
    \/ /\ f.targetField \in OHLC_TARGET_FIELDS
       /\ m.mappingVersion # "1.7" \/ f.transform # "PUBLISHER_DECIMAL_STRING"
    \/ /\ f.transform = "PUBLISHER_DECIMAL_STRING"
       /\ f.targetField \notin OHLC_TARGET_FIELDS
    \/ /\ f.transform = "YYYYMMDD_TO_KST_DAY_START_ISO"
       /\ \/ m.mappingVersion \notin {"1.5", "1.6", "1.7"}
          \/ m.constants.schemaVersion \notin {"1.2", "1.3"}
          \/ f.targetField # "eventTime"

RequiredTargets(m) ==
    {"sourceEventId", "eventTime", "instrumentId", "eventType"} \cup
        IF m.constants.schemaVersion = "1.3" THEN OHLC_TARGET_FIELDS ELSE {}

validateApprovedMapping(m) ==
    Failures(<<
        Unless(AllDistinct(m.fields, SourceColumnOf), "DUPLICATE_SOURCE_COLUMN"),
        Unless(~AssignedTwice(m), "DUPLICATE_TARGET_FIELD"),
        Unless(\A i \in DOMAIN m.fields :
                  m.fields[i].targetField # Null => ~UnknownTransform(m, m.fields[i]),
               "UNKNOWN_TRANSFORM"),
        Unless(RequiredTargets(m) \subseteq Targets(m) \cup Declared(m),
               "REQUIRED_TARGET_FIELD_MISSING")>>)

-----------------------------------------------------------------------------
(* applyApprovedMapping.                                                   *)

Missing(row, columns) == {c \in columns : c \notin DOMAIN row.values}

SourceColumns(m) == {m.fields[i].sourceColumn : i \in DOMAIN m.fields}

TimeColumns(m) ==
    IF m.compositeEventTime = Null THEN {} ELSE Range(m.compositeEventTime)

\* Mutant of HasNul: the separator is accepted within a part.
NeverNul(v) == FALSE

HasNul(v) == v.kind = "text" /\ "NUL" \in Range(v.tokens)

\* The first part that cannot be joined decides the issue.
CompositeIdIssue(row, columns) ==
    LET bad == SelectSeq(columns, LAMBDA c :
                    c \notin DOMAIN row.values \/ HasNul(row.values[c]))
    IN  IF bad = <<>> THEN "none"
        ELSE IF bad[1] \notin DOMAIN row.values
        THEN "APPROVED_SOURCE_COLUMN_MISSING" ELSE "TRANSFORM_REJECTED_VALUE"

Tokens(v) == IF v.kind = "text" THEN v.tokens ELSE <<ToString(v)>>

Joined(row, columns) ==
    Text(Tail(FlattenSeq([n \in DOMAIN columns |->
                <<"NUL">> \o Tokens(row.values[columns[n]])])))

CompositeTime(row, m) ==
    applyCompositeEventTime(row.values[m.compositeEventTime[1]],
                            row.values[m.compositeEventTime[2]])

\* What the columns of a row give, field by field.
Mapped(row, m) ==
    {f \in Range(m.fields) : f.targetField # Null /\ f.sourceColumn \in DOMAIN row.values}

Value(row, f) == applyTransform(row.values[f.sourceColumn], f.transform)

rowIssues(row, m) ==
    LET timeMissing == Missing(row, TimeColumns(m)) # {}
    IN  IF row.coordinate.sourceArtifactHash # m.sourceArtifactHash
        THEN {"SOURCE_ARTIFACT_HASH_MISMATCH"}
        ELSE Failures(<<
            IF m.compositeSourceEventId = Null THEN "none"
            ELSE CompositeIdIssue(row, m.compositeSourceEventId),
            Unless(~timeMissing, "APPROVED_SOURCE_COLUMN_MISSING"),
            Unless(\/ TimeColumns(m) = {} \/ timeMissing
                   \/ CompositeTime(row, m) # Rejected, "TRANSFORM_REJECTED_VALUE"),
            Unless(Missing(row, SourceColumns(m)) = {}, "APPROVED_SOURCE_COLUMN_MISSING"),
            Unless(DOMAIN row.values \subseteq SourceColumns(m) \cup TimeColumns(m),
                   "UNKNOWN_SOURCE_COLUMN"),
            Unless(\A f \in Mapped(row, m) : Value(row, f) # Rejected,
                   "TRANSFORM_REJECTED_VALUE")>>)

\* What a row gives of its event, by name: a part that is missing or that its
\* transform rejected is left out.
candidate(row, m) ==
    LET fields == {f \in Mapped(row, m) : Value(row, f) # Rejected}
        given == [t \in {f.targetField : f \in fields} |->
                    Value(row, CHOOSE f \in fields : f.targetField = t)]
        anchored == \E f \in fields : f.targetField = "eventTime"
                        /\ f.transform = "YYYYMMDD_TO_KST_DAY_START_ISO"
    IN  given
        @@ (IF \/ m.compositeSourceEventId = Null
               \/ CompositeIdIssue(row, m.compositeSourceEventId) # "none" THEN <<>>
            ELSE "sourceEventId" :> Joined(row, m.compositeSourceEventId))
        @@ (IF m.compositeEventTime = Null \/ CompositeTime(row, m) = Rejected THEN <<>>
            ELSE "eventTime" :> CompositeTime(row, m))
        @@ (IF m.constants.eventType = Null THEN <<>>
            ELSE "eventType" :> Text(<<m.constants.eventType>>))
        @@ (IF anchored /\ m.constants.schemaVersion = "1.3"
            THEN "tradingDate" :> given["eventTime"].date ELSE <<>>)
        @@ ("rawRowHash" :> row)

\* TradeEventSchema: which fields a schema has, and what each of them may be.
NonEmpty(v) == v.kind # "text" \/ v.tokens # <<>>

Within(v, names) == v.kind = "text" /\ v.tokens \in {<<n>> : n \in names}

FieldFits(schema, target, v) ==
    CASE target \in {"eventTime", "receivedAt"} ->
            v.kind = "instant" /\ validDateTimeParts(v.date, v.time)
      [] target = "eventType" ->
            Within(v, IF schema = "1.1" THEN {"ORDER_NEW", "ORDER_CANCEL", "TRADE"}
                      ELSE {"DAILY_QUOTE"})
      [] target = "side" -> Within(v, {"BUY", "SELL"})
      [] target = "sequence" -> v.kind \in {"day", "clock"}
      [] target \in {"price", "quantity"} -> canonicalizeDecimalString(v) # Rejected
      [] target \in OHLC_TARGET_FIELDS ->
            schema = "1.3" /\ canonicalizeDecimalString(v) # Rejected
      [] target \in {"tradingDate", "rawRowHash"} -> TRUE
      [] OTHER -> NonEmpty(v)

TradeEvent(schema, e) ==
    /\ {"sourceEventId", "eventTime", "instrumentId", "eventType"} \subseteq DOMAIN e
    /\ schema = "1.3" => OHLC_TARGET_FIELDS \cup {"tradingDate"} \subseteq DOMAIN e
    /\ \A t \in DOMAIN e : FieldFits(schema, t, e[t])

\* A column that was approved is missing; one of a joined identity does not count.
approvedColumnMissing(row, m) == Missing(row, TimeColumns(m) \cup SourceColumns(m)) # {}

\* Another artifact's row, and one without an approved column, is not parsed as
\* an event; any other is, whatever was found wrong with it.
RowFails(row, m) ==
    IF \/ row.coordinate.sourceArtifactHash # m.sourceArtifactHash
       \/ approvedColumnMissing(row, m) THEN rowIssues(row, m)
    ELSE rowIssues(row, m) \cup
            Failures(<<Unless(TradeEvent(m.constants.schemaVersion, candidate(row, m)),
                              "REQUIRED_TARGET_FIELD_MISSING")>>)

CoordinateOf(row) == row.coordinate

Review(issues) == [status |-> "REVIEW_REQUIRED", issues |-> issues, events |-> <<>>]

applyApprovedMapping(rows, m) ==
    LET structural == validateApprovedMapping(m)
        issues == UNION {RowFails(rows[i], m) : i \in DOMAIN rows}
    IN  IF ~AllDistinct(rows, CoordinateOf) THEN Review({"DUPLICATE_SOURCE_COORDINATE"})
        ELSE IF structural # {} THEN Review(structural)
        ELSE IF issues # {} THEN Review(issues)
        ELSE [status |-> "APPROVED", issues |-> {},
              events |-> [i \in DOMAIN rows |-> candidate(rows[i], m)]]
=============================================================================
