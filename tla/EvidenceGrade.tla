--------------------------- MODULE EvidenceGrade ---------------------------
(****************************************************************************)
(* The verifiers that grant a sentence its evidence grade                   *)
(* (packages/replay-engine/src/evidence-grade.ts) over a store and a        *)
(* registry that change: rows are corrected, collected again and ingested   *)
(* again, a calculation gets a new version, retained bytes rot.  A sentence *)
(* is declared from what the author saw and verified at any later time.     *)
(*                                                                          *)
(* A hash is the content it is taken of.                                    *)
(****************************************************************************)
EXTENDS Checks

CONSTANTS
    Coordinates,    \* the coordinates of the source rows, in event order: 1 .. n
    Values,         \* what a row may report
    Bytes,          \* the retained artifact as it was collected, a sequence
    Templates,      \* the display templates in the code
    MaxChanges      \* bound: changes of the world around the sentence

VARIABLES
    sourceRows,     \* source rows by coordinate: [value, timeOfDay]
    ingested,       \* the canonical event of each row, from its last ingestion
    artifact,       \* the bytes held under the hash of Bytes
    versions,       \* registered versions of the calculation
    declared,       \* the sentence on the page
    seen,           \* the rows as the author of the sentence saw them
    changes         \* how often the world changed

vars == <<sourceRows, ingested, artifact, versions, declared, seen, changes>>

NoSentence == [grade |-> "none"]

Calculations == {"1.0.0", "2.0.0"}

-----------------------------------------------------------------------------
(* The contract of a sentence (contracts/src/evidence-grade.ts).           *)

CalculatedAccepted(s) ==
    /\ s.sourceRows # <<>>
    /\ s.displayedValueAt \in DOMAIN s.text
    /\ s.text[s.displayedValueAt] = s.reportedValue
    /\ (s.grade = "COMPUTED") = (s.reportedValue = s.computedValue)

ContractAccepts(s) ==
    /\ s.grade # "none"
    /\ s.grade \in {"COMPUTED", "DIFFERS"} => CalculatedAccepted(s)
    /\ s.grade = "QUOTED" => s.end > s.start /\ s.text # <<>>

-----------------------------------------------------------------------------
(* verifyQuotedEvidence.                                                   *)

QuotedVerdict(s) ==
    FirstOf(<<
        Unless(s.sourceArtifactHash = Bytes, "SOURCE_ARTIFACT_NOT_REGISTERED"),
        Unless(artifact = s.sourceArtifactHash, "SOURCE_ARTIFACT_HASH_MISMATCH"),
        Unless(s.end <= Len(artifact), "SOURCE_SPAN_OUT_OF_BOUNDS"),
        Unless(s.text = SubSeq(artifact, s.start + 1, s.end),
               "SOURCE_SPAN_TEXT_MISMATCH")>>)

-----------------------------------------------------------------------------
(* verifyCalculatedEvidence.                                               *)

RowValues(r) == [c \in Coordinates |-> r[c].value]

\* Version 1 adds the rows up, version 2 takes the largest.
Calculate(version, values) ==
    IF version = "1.0.0" THEN FoldFunction(LAMBDA x, y : x + y, 0, values)
    ELSE FoldFunction(LAMBDA x, y : IF x > y THEN x ELSE y, 0, values)

\* What the publisher reports, in the first row.
ReportedValue(r) == r[1].value

\* The event built from a row; only the time of receipt is left out of its hash.
EventOf(c, row, receivedAt) ==
    [eventId |-> c, rawRowHash |-> row, value |-> row.value,
     receivedAt |-> receivedAt]

canonicalEvidenceEventHash(e) == <<e.eventId, e.rawRowHash, e.value>>

Reference(c) ==
    [eventId |-> ingested[c].eventId, rawRowHash |-> sourceRows[c],
     canonicalEventHash |-> canonicalEvidenceEventHash(ingested[c])]

\* Mutant of RowMatches: the event may have been built from another row.
RowMatchesByReference(reference, c) ==
    /\ ingested[c].eventId = reference.eventId
    /\ sourceRows[c] = reference.rawRowHash
    /\ canonicalEvidenceEventHash(ingested[c]) = reference.canonicalEventHash

RowMatches(reference, c) ==
    /\ ingested[c].eventId = reference.eventId
    /\ ingested[c].rawRowHash = sourceRows[c]
    /\ sourceRows[c] = reference.rawRowHash
    /\ canonicalEvidenceEventHash(ingested[c]) = reference.canonicalEventHash

RowsMatch(s) ==
    /\ Len(s.sourceRows) = Cardinality(Coordinates)
    /\ \A c \in Coordinates : RowMatches(s.sourceRows[c], c)

Display(template, grade, reported, computed) ==
    IF grade = "COMPUTED" THEN <<template, reported>>
    ELSE <<template, reported, computed>>

CalculatedVerdict(s) ==
    FirstOf(<<
        Unless(s.calculationVersion \in versions, "CALCULATION_VERSION_MISMATCH"),
        Unless(RowsMatch(s), "SOURCE_ROWS_MISMATCH"),
        Unless(s.computedValue = Calculate(s.calculationVersion, RowValues(sourceRows)),
               "COMPUTED_VALUE_MISMATCH"),
        Unless(s.grade = "DIFFERS" => s.reportedValue = ReportedValue(sourceRows),
               "REPORTED_VALUE_MISMATCH"),
        Unless(s.displayTemplateId \in Templates, "DISPLAY_TEMPLATE_NOT_REGISTERED"),
        Unless(/\ s.displayedValueAt = 2
               /\ s.text = Display(s.displayTemplateId, s.grade, s.reportedValue,
                                   s.computedValue),
               "DISPLAY_TEMPLATE_MISMATCH")>>)

-----------------------------------------------------------------------------
(* verifyUnconfirmableEvidence: daily quotes have no time of day.          *)

canonicalDatasetForHash(r) == [c \in Coordinates |-> r[c].timeOfDay]

isMissing(dataset) == \A c \in Coordinates : ~dataset[c]

UnconfirmableVerdict(s) ==
    LET dataset == canonicalDatasetForHash(sourceRows)
    IN  FirstOf(<<
            Unless(s.approvedDatasetHash = dataset,
                   "MISSING_EVIDENCE_CHECK_MISMATCH"),
            Unless(isMissing(dataset), "EVIDENCE_AVAILABLE"),
            Unless(s.text = <<"no time of day">>, "DISPLAY_TEMPLATE_MISMATCH")>>)

\* Each verifier takes its own grades; an interpretation is only well formed.
Verdict(s) ==
    FirstOf(<<Unless(ContractAccepts(s), "CONTRACT_INVALID"),
        CASE s.grade = "QUOTED" -> QuotedVerdict(s)
          [] s.grade \in {"COMPUTED", "DIFFERS"} -> CalculatedVerdict(s)
          [] s.grade = "UNCONFIRMABLE" -> UnconfirmableVerdict(s)
          [] OTHER -> "none">>)

Granted(s) == Verdict(s) = "none"

-----------------------------------------------------------------------------
Init ==
    /\ sourceRows \in [Coordinates -> [value : Values, timeOfDay : {FALSE}]]
    /\ ingested = [c \in Coordinates |-> EventOf(c, sourceRows[c], 0)]
    /\ artifact = Bytes
    /\ versions = {"1.0.0"}
    /\ declared = NoSentence
    /\ seen = sourceRows
    /\ changes = 0

World == <<sourceRows, ingested, artifact, versions, changes>>

Declare(s) ==
    /\ declared = NoSentence
    /\ declared' = s
    /\ seen' = sourceRows
    /\ UNCHANGED World

DeclareQuoted ==
    \E first \in DOMAIN artifact, last \in DOMAIN artifact, text \in
        {SubSeq(artifact, i, j) : i, j \in DOMAIN artifact} :
        Declare([grade |-> "QUOTED", text |-> text, sourceArtifactHash |-> Bytes,
                 start |-> first - 1, end |-> last])

\* The author may name another version, grade, value or row than the rows give.
DeclareCalculated ==
    \E grade \in {"COMPUTED", "DIFFERS"}, version \in Calculations,
       reported \in Values, template \in Templates :
        LET computed == Calculate(version, RowValues(sourceRows))
        IN  Declare([grade |-> grade,
                     text |-> Display(template, grade, reported, computed),
                     displayedValueAt |-> 2, displayTemplateId |-> template,
                     reportedValue |-> reported, computedValue |-> computed,
                     calculationVersion |-> version,
                     sourceRows |-> [c \in Coordinates |-> Reference(c)]])

DeclareUnconfirmable ==
    Declare([grade |-> "UNCONFIRMABLE", text |-> <<"no time of day">>,
             approvedDatasetHash |-> canonicalDatasetForHash(sourceRows)])

Change ==
    /\ changes < MaxChanges
    /\ changes' = changes + 1
    /\ UNCHANGED <<declared, seen>>

Correct(c) ==
    /\ Change
    /\ \E row \in [value : Values, timeOfDay : BOOLEAN] :
          row # sourceRows[c] /\ sourceRows' = [sourceRows EXCEPT ![c] = row]
    /\ UNCHANGED <<ingested, artifact, versions>>

Ingest(c) ==
    /\ Change
    /\ ingested' = [ingested EXCEPT ![c] =
                    EventOf(c, sourceRows[c], 1 - ingested[c].receivedAt)]
    /\ UNCHANGED <<sourceRows, artifact, versions>>

Register ==
    /\ Change
    /\ versions' = Calculations
    /\ UNCHANGED <<sourceRows, ingested, artifact>>

Rot ==
    /\ Change
    /\ \E i \in DOMAIN artifact : artifact' = [artifact EXCEPT ![i] = "rot"]
    /\ UNCHANGED <<sourceRows, ingested, versions>>

Next ==
    \/ DeclareQuoted \/ DeclareCalculated \/ DeclareUnconfirmable
    \/ \E c \in Coordinates : Correct(c) \/ Ingest(c)
    \/ Register \/ Rot

Spec == Init /\ [][Next]_vars

-----------------------------------------------------------------------------
(* What a grade promises to the reader, whatever happened between the      *)
(* declaration and its verification.                                       *)

\* A quotation is in the document that was collected.
QuotedIsQuoted ==
    declared.grade = "QUOTED" /\ Granted(declared) =>
        declared.text = SubSeq(Bytes, declared.start + 1, declared.end)

\* A number follows from the rows as they are, which are the rows the author
\* saw and the rows the events were built from; it is the published number or
\* differs from it as the grade says.
NumberFollows ==
    declared.grade \in {"COMPUTED", "DIFFERS"} /\ Granted(declared) =>
        LET recalculated == Calculate(declared.calculationVersion, RowValues(sourceRows))
            shown == declared.text[declared.displayedValueAt]
        IN  /\ sourceRows = seen
            /\ \A c \in Coordinates : ingested[c].rawRowHash = sourceRows[c]
            /\ (declared.grade = "COMPUTED") = (shown = recalculated)
            /\ declared.grade = "DIFFERS" => shown = ReportedValue(sourceRows)

\* Evidence declared missing is missing from the rows as they are.
MissingIsMissing ==
    declared.grade = "UNCONFIRMABLE" /\ Granted(declared) =>
        \A c \in Coordinates : ~sourceRows[c].timeOfDay

\* A grade granted at any time is earned from what is stored at that time: a
\* quotation by the bytes, a number by the rows, an absence by its absence.
GradeIsEarned == QuotedIsQuoted /\ NumberFollows /\ MissingIsMissing
=============================================================================
