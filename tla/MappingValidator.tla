-------------------------- MODULE MappingValidator --------------------------
(***************************************************************************)
(* The structural gate that a model's answer passes before anyone reviews  *)
(* it, naming columns by header (version 2) or by opaque identifier        *)
(* (version 3), and the fixture that answers in a model's place            *)
(* (packages/ai-harness/src/mapping-output-validator.ts,                   *)
(* fixture-provider.ts).  An answer is a good one, changed a few times.    *)
(*                                                                         *)
(* A header is a string.  An identifier is the place of its column.        *)
(***************************************************************************)
EXTENDS ApplyMapping

CONSTANTS
    Inputs,         \* [columns, sampleRows, constants, artifact]
    GoodFields,     \* the fields of a good answer, in column order
    Changes,        \* what a field of an answer may be changed to
    Registered,     \* fixtures by artifact: a proposal, its fields by column
    MaxEdits        \* bound: changes of the answer

MappingStatuses == {"PROPOSED", "REVIEW_REQUIRED"}

\* Null is no header, no target and no type of event.  A change is of what a
\* field says, not of the column it names.
ASSUME GateAssumption ==
    /\ \A i \in Inputs :
          /\ i.columns \in Seq(Range(i.columns)) /\ Null \notin Range(i.columns)
          /\ i.sampleRows \in Seq(Range(i.sampleRows))
    /\ GoodFields \in Seq(Range(GoodFields))
    /\ \A f \in Range(GoodFields) :
          {"column", "status"} \subseteq DOMAIN f /\ f.status \in MappingStatuses
    /\ \A c \in Changes :
          /\ "column" \notin DOMAIN c
          /\ "status" \in DOMAIN c => c.status \in MappingStatuses
    /\ Null \notin OHLC_TARGET_FIELDS \cup {"TRADE"}

VARIABLES
    asked,
    envelope,       \* the first thing wrong with the envelope, or "none"
    reply,          \* fields: [column, targetField, transform, ...]; column is
                    \* a place among the columns, 0 for one that is not there
    revisions

gateVars == <<asked, envelope, reply, revisions>>

-----------------------------------------------------------------------------
(* validateMappingStructure: the first failure wins.                       *)

\* Whether a transform can give what a target holds; a guess at no meaning.
compatible(target, transform) ==
    CASE transform = "IDENTITY" -> TRUE
      [] transform \in {"ISO_DATETIME", "EPOCH_MS_TO_ISO"} ->
            target \in {"eventTime", "receivedAt"}
      [] transform = "DECIMAL_STRING" -> target \in {"price", "quantity"}
      [] transform = "BUY_SELL_CODE" -> target = "side"
      [] transform = "EVENT_TYPE_CODE" -> target = "eventType"
      [] transform = "UPPERCASE" ->
            target \notin {"eventTime", "receivedAt", "sequence", "price", "quantity"}
      [] OTHER -> FALSE

AsProposal(fields, i) ==
    [mappingVersion |-> "1.4", sourceArtifactHash |-> i.artifact,
     constants |-> i.constants, compositeSourceEventId |-> Null,
     compositeEventTime |-> Null, actorUnmapped |-> FALSE, fields |-> fields]

ColumnsOf(fields) == [n \in DOMAIN fields |-> fields[n].sourceColumn]

TargetOf(f) == f.targetField

\* A column as it is read: not one of the input's, or one that came before.
NamesColumn(columns, n, i) ==
    FirstOf(<<Unless(columns[n] \in Range(i.columns), "INVENTED_COLUMN"),
              Unless(\A k \in 1 .. (n - 1) : columns[k] # columns[n], "DUPLICATE_COLUMN")>>)

ColumnReason(columns, i) ==
    FirstOf(<<
        FirstOf([n \in DOMAIN columns |-> NamesColumn(columns, n, i)]),
        Unless(AllDistinct(i.columns, Column), "DUPLICATE_COLUMN"),
        Unless(Len(columns) = Len(i.columns), "MISSING_COLUMN"),
        Unless(columns = i.columns, "REORDERED_COLUMN")>>)

Row(i, n) ==
    [coordinate |-> [sourceArtifactHash |-> i.artifact, rowNumber |-> n],
     values |-> [c \in Range(i.columns) |-> i.sampleRows[n][c]]]

Executable(fields, i) ==
    applyApprovedMapping([n \in DOMAIN i.sampleRows |-> Row(i, n)],
                         deriveApprovedSourceMapping(AsProposal(fields, i)))

\* Mutant of SampleReason: only the first sample row is tried.
FirstRowReason(fields, i) ==
    IF i.sampleRows = <<>> THEN "NO_SAMPLE_ROWS"
    ELSE IF ~(Range(i.columns) \subseteq DOMAIN i.sampleRows[1]) THEN "TRANSFORM_FAILED"
    ELSE Unless(Executable(fields, [i EXCEPT !.sampleRows = <<@[1]>>]).status = "APPROVED",
                "TRANSFORM_FAILED")

SampleReason(fields, i) ==
    IF i.sampleRows = <<>> THEN "NO_SAMPLE_ROWS"
    ELSE IF \E row \in Range(i.sampleRows) : ~(Range(i.columns) \subseteq DOMAIN row)
    THEN "TRANSFORM_FAILED"
    ELSE Unless(Executable(fields, i).status = "APPROVED", "TRANSFORM_FAILED")

\* A field as it is read, before the whole is parsed.
FieldReason(f) ==
    FirstOf(<<Unless(f.targetField \in MappedTargetFields \cup {Null}, "UNKNOWN_TARGET"),
              Unless(f.transform \in AllowedTransforms \cup {Null}, "UNKNOWN_TRANSFORM")>>)

StructureReason(fields, i) ==
    LET mapped == SelectSeq(fields, LAMBDA f : f.targetField # Null)
    IN  FirstOf(<<
            FirstOf([n \in DOMAIN fields |-> FieldReason(fields[n])]),
            Unless(SchemaMappingProposal(AsProposal(fields, i)), "OUTPUT_CONTRACT"),
            Unless(i.constants.schemaVersion = "1.1", "INPUT_BINDING_MISMATCH"),
            Unless(\A f \in Range(fields) : f.evidence, "OUTPUT_CONTRACT"),
            ColumnReason(ColumnsOf(fields), i),
            Unless(AllDistinct(mapped, TargetOf), "DUPLICATE_TARGET"),
            Unless({"sourceEventId", "eventTime", "instrumentId", "eventType"}
                        \subseteq Collected(mapped, TargetOf), "MISSING_REQUIRED_TARGET"),
            Unless(\A f \in Range(mapped) : compatible(f.targetField, f.transform),
                   "TARGET_TRANSFORM_MISMATCH")>>)

validateMappingStructure(fields, i) ==
    LET structure == StructureReason(fields, i)
    IN  IF envelope # "none" THEN envelope
        ELSE IF structure # "none" THEN structure
        ELSE SampleReason(fields, i)

\* The same answer by header.
ByHeader(a, i) ==
    [n \in DOMAIN a |->
        [sourceColumn |-> IF a[n].column = 0 THEN Null ELSE i.columns[a[n].column],
         targetField |-> a[n].targetField, transform |-> a[n].transform,
         confidence |-> a[n].confidence, status |-> a[n].status,
         evidence |-> a[n].evidence]]

\* validateColumnIdStructure: identifiers are resolved, then version 2 applies.
NamesId(a, n) ==
    FirstOf(<<Unless(a[n].column # 0, "INVENTED_COLUMN"),
              Unless(\A k \in 1 .. (n - 1) : a[k].column # a[n].column,
                     "DUPLICATE_COLUMN")>>)

IdReason(a, i) ==
    FirstOf(<<
        FirstOf([n \in DOMAIN a |-> NamesId(a, n)]),
        Unless(Len(a) = Len(i.columns), "MISSING_COLUMN"),
        Unless(\A n \in DOMAIN a : a[n].column = n, "REORDERED_COLUMN")>>)

validateColumnIdStructure(a, i) ==
    LET identified == IdReason(a, i)
    IN  IF envelope # "none" THEN envelope
        ELSE IF identified # "none" THEN identified
        ELSE validateMappingStructure(ByHeader(a, i), i)

approvalReady(verdict, a) ==
    IF verdict # "none" THEN verdict
    ELSE Unless(\A n \in DOMAIN a : ~requiresMappingOverride(a[n]), "REVIEW_STATUS")

-----------------------------------------------------------------------------
(* FixtureSchemaMappingProvider.propose.                                   *)

usesRegisteredConstants(mappingVersion) == mappingVersion \in {"1.5", "1.6", "1.7", "1.8"}

RequiresRegistered(i) ==
    i.constants.schemaVersion \in {"1.2", "1.3"} \/ i.constants.eventType = "TRADE"

Unregistered ==
    [mappingVersion |-> "1.4", constants |-> Null, compositeSourceEventId |-> Null,
     compositeEventTime |-> Null, actorUnmapped |-> FALSE, fields |-> [c \in {} |-> c]]

artifactMapping(i) ==
    IF i.artifact \in DOMAIN Registered THEN Registered[i.artifact] ELSE Unregistered

Undeclared ==
    [targetField |-> Null, transform |-> Null, confidence |-> "zero",
     status |-> "REVIEW_REQUIRED", evidence |-> TRUE]

DeclaredField(mapping, c) ==
    LET declared == IF c \in DOMAIN mapping.fields THEN mapping.fields[c] ELSE Undeclared
    IN  [sourceColumn |-> c, targetField |-> declared.targetField,
         transform |-> declared.transform, confidence |-> declared.confidence,
         status |-> declared.status, evidence |-> declared.evidence]

FixtureAnswer(i) ==
    LET mapping == artifactMapping(i)
    IN  [mappingVersion |-> mapping.mappingVersion, sourceArtifactHash |-> i.artifact,
         constants |-> i.constants,
         compositeSourceEventId |-> mapping.compositeSourceEventId,
         compositeEventTime |-> mapping.compositeEventTime,
         actorUnmapped |-> mapping.actorUnmapped,
         fields |-> [n \in DOMAIN i.columns |-> DeclaredField(mapping, i.columns[n])]]

\* Whether the constants an input is bound to are ones its fixture may answer.
BindsConstants(i) ==
    LET registered == usesRegisteredConstants(artifactMapping(i).mappingVersion)
    IN  RequiresRegistered(i) \/ registered =>
            registered /\ i.constants = artifactMapping(i).constants

\* Null where the code throws: other constants, or an answer that is not parsed.
propose(i) ==
    IF BindsConstants(i) /\ SchemaMappingProposal(FixtureAnswer(i))
    THEN FixtureAnswer(i) ELSE Null

-----------------------------------------------------------------------------
GateInit ==
    /\ asked \in Inputs
    /\ envelope = "none" /\ revisions = 0
    /\ reply = [n \in 1 .. (IF Len(asked.columns) < Len(GoodFields)
                             THEN Len(asked.columns) ELSE Len(GoodFields)) |->
                    [GoodFields[n] EXCEPT !.column = n]]

Revise == revisions < MaxEdits /\ revisions' = revisions + 1 /\ UNCHANGED asked

\* What envelopeContent finds first.
SpoilEnvelope ==
    /\ Revise
    /\ envelope' \in {"BODY_TOO_LARGE", "ENVELOPE_INVALID_JSON", "ENVELOPE_INVALID",
                      "TOOL_CALL", "REFUSAL", "LENGTH_STOP", "OUTPUT_INVALID_JSON"}
    /\ UNCHANGED reply

ChangeField ==
    \E n \in DOMAIN reply, c \in Changes :
        /\ Revise
        /\ reply' = [reply EXCEPT ![n] =
                [t \in DOMAIN @ |-> IF t \in DOMAIN c THEN c[t] ELSE @[t]]]
        /\ UNCHANGED envelope

Rename ==
    \E n \in DOMAIN reply, c \in 0 .. Len(asked.columns) :
        /\ Revise
        /\ reply' = [reply EXCEPT ![n].column = c]
        /\ UNCHANGED envelope

Omit ==
    \E n \in DOMAIN reply :
        /\ Revise
        /\ reply' = RemoveAt(reply, n)
        /\ UNCHANGED envelope

Swap ==
    \E n \in 1 .. (Len(reply) - 1) :
        /\ Revise
        /\ reply' = [reply EXCEPT ![n] = reply[n + 1], ![n + 1] = reply[n]]
        /\ UNCHANGED envelope

GateNext == SpoilEnvelope \/ ChangeField \/ Rename \/ Omit \/ Swap

GateSpec == GateInit /\ [][GateNext]_gateVars

-----------------------------------------------------------------------------
(* Properties.                                                             *)

Structure == validateMappingStructure(ByHeader(reply, asked), asked)

\* What the gate passes can be approved and run as it is: each column is mapped
\* once, and every sample row becomes an event without an issue.
ValidIsExecutable ==
    Structure = "none" =>
        LET fields == ByHeader(reply, asked)
            run == Executable(fields, asked)
        IN  /\ envelope = "none"
            /\ SchemaMappingProposal(AsProposal(fields, asked))
            /\ run.status = "APPROVED" /\ Len(run.events) = Len(asked.sampleRows)
            /\ \A c \in Range(asked.columns) :
                  Cardinality({n \in DOMAIN fields : fields[n].sourceColumn = c}) = 1

\* Naming columns by identifier changes how they are named and nothing else:
\* nothing version 2 rejects passes version 3, and nothing else is rejected.
VersionsAccept ==
    (validateColumnIdStructure(reply, asked) = "none") = (Structure = "none")

\* What is ready for approval has no field that needs a person's decision.
ReadyIsDecided ==
    approvalReady(Structure, reply) = "none" =>
        \A n \in DOMAIN reply :
            reply[n].status = "PROPOSED" /\ reply[n].confidence = "one"

\* The fixture answers with a proposal of the contract, a field to each column
\* in their order, bound to the constants it was asked about.  Constants that
\* name what they are of are answered for the artifact they are registered with
\* alone.  Of an artifact it does not know it answers, and leaves everything to
\* a person.
FixtureKeepsContract ==
    LET proposal_ == propose(asked)
    IN  /\ proposal_ # Null =>
              /\ SchemaMappingProposal(proposal_)
              /\ proposal_.constants = asked.constants
              /\ ColumnsOf(proposal_.fields) = asked.columns
              /\ \/ usesRegisteredConstants(proposal_.mappingVersion)
                 \/ RequiresRegistered(asked)
                 => /\ asked.artifact \in DOMAIN Registered
                    /\ proposal_.mappingVersion = Registered[asked.artifact].mappingVersion
                    /\ asked.constants = Registered[asked.artifact].constants
        /\ asked.artifact \notin DOMAIN Registered /\ asked.constants = ConstantsOf("1.4") =>
              /\ proposal_ = FixtureAnswer(asked)
              /\ \A f \in Range(proposal_.fields) : requiresMappingOverride(f)

\* What the gate passes can be approved and run as it stands, under either
\* naming of columns.
GateIsSound ==
    ValidIsExecutable /\ VersionsAccept /\ ReadyIsDecided /\ FixtureKeepsContract
=============================================================================
