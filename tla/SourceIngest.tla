---------------------------- MODULE SourceIngest ----------------------------
(***************************************************************************)
(* From the bytes of a source artifact to trade events under an approved   *)
(* mapping (packages/replay-engine/src/source-ingest.ts).  A table is      *)
(* written as CSV or as JSON Lines; the table and the mapping are changed  *)
(* before they are read.                                                   *)
(*                                                                         *)
(* A hash is what it hashes.                                               *)
(***************************************************************************)
EXTENDS ApplyMapping

CONSTANTS
    Tables,         \* [columns, lines, proposal]: a table and its mapping
    Cells,          \* what a cell may be changed to
    OtherFields,    \* what a field of the mapping may be changed to
    MaxEdits        \* bound: changes made before reading

VARIABLES
    table,          \* [columns, lines, encoding, declared]
    proposal,
    edits

vars == <<table, proposal, edits>>

-----------------------------------------------------------------------------
(* Reading the bytes.                                                      *)

sourceArtifactHash(t) == [t EXCEPT !.declared = Null]

Unreadable(code) == [error |-> code, rows |-> <<>>]

\* requireArtifactHash, decodeUtf8 and artifactLines.
artifactError(t) ==
    IF t.declared # sourceArtifactHash(t) THEN "SOURCE_ARTIFACT_HASH_MISMATCH"
    ELSE IF t.encoding # "LF" THEN "INVALID_SOURCE_ARTIFACT" ELSE "none"

RowsOf(t, firstNumber) ==
    [i \in DOMAIN t.lines |->
        [coordinate |-> [sourceArtifactHash |-> t.declared, rowNumber |-> firstNumber + i - 1],
         values |-> t.lines[i]]]

parseCsvSourceArtifact(t) ==
    IF artifactError(t) # "none" THEN Unreadable(artifactError(t))
    ELSE IF \/ ~AllDistinct(t.columns, Column)
            \/ \E i \in DOMAIN t.lines : DOMAIN t.lines[i] # Range(t.columns)
    THEN Unreadable("INVALID_SOURCE_ARTIFACT")
    ELSE [error |-> "none", rows |-> RowsOf(t, 2)]

parseJsonLinesSourceArtifact(t) ==
    IF artifactError(t) # "none" THEN Unreadable(artifactError(t))
    ELSE [error |-> "none", rows |-> RowsOf(t, 1)]

Read(parsed, p) ==
    IF parsed.error # "none" THEN Review({parsed.error})
    ELSE applyApprovedMapping(parsed.rows,
            [deriveApprovedSourceMapping(p) EXCEPT !.sourceArtifactHash = table.declared])

-----------------------------------------------------------------------------
AsWritten(t) ==
    LET bytes == [columns |-> t.columns, lines |-> t.lines, encoding |-> "LF",
                  declared |-> Null]
    IN  [bytes EXCEPT !.declared = bytes]

Init ==
    /\ edits = 0
    /\ \E t \in Tables : table = AsWritten(t) /\ proposal = t.proposal

Edit == edits < MaxEdits /\ edits' = edits + 1

\* The declared hash is that of the bytes, unless only the bytes are changed.
Rewritten(t) == LET bytes == [t EXCEPT !.declared = Null] IN [bytes EXCEPT !.declared = bytes]

ChangeCell ==
    \E i \in DOMAIN table.lines, v \in Cells :
        \E c \in DOMAIN table.lines[i] :
            /\ Edit
            /\ table' = Rewritten([table EXCEPT !.lines[i][c] = v])
            /\ UNCHANGED proposal

DropCell ==
    \E i \in DOMAIN table.lines : \E c \in DOMAIN table.lines[i] :
        /\ Edit
        /\ table' = Rewritten([table EXCEPT !.lines[i] =
                        [d \in DOMAIN @ \ {c} |-> @[d]]])
        /\ UNCHANGED proposal

ChangeEncoding ==
    /\ Edit
    /\ table' \in {[table EXCEPT !.encoding = "CR"],
                   Rewritten([table EXCEPT !.encoding = "CR"])}
    /\ UNCHANGED proposal

ChangeField ==
    \E i \in DOMAIN proposal.fields, f \in OtherFields :
        /\ Edit
        /\ proposal' = [proposal EXCEPT !.fields[i].targetField = f.targetField,
                                        !.fields[i].transform = f.transform]
        /\ UNCHANGED table

DropField ==
    \E i \in DOMAIN proposal.fields :
        /\ Edit
        /\ proposal' = [proposal EXCEPT !.fields = RemoveAt(@, i)]
        /\ UNCHANGED table

ChangeVersion ==
    \E v \in Versions :
        /\ Edit
        /\ proposal' = [proposal EXCEPT !.mappingVersion = v, !.constants = ConstantsOf(v)]
        /\ UNCHANGED table

Next ==
    ChangeCell \/ DropCell \/ ChangeEncoding \/ ChangeField \/ DropField \/ ChangeVersion

Spec == Init /\ [][Next]_vars

-----------------------------------------------------------------------------
(* Properties.                                                             *)

Csv == Read(parseCsvSourceArtifact(table), proposal)

JsonLines == Read(parseJsonLinesSourceArtifact(table), proposal)

\* What the contract accepts, the engine has a transform for: a proposal that
\* passed the contract is never sent back for a transform it does not know.
EngineKnowsTheContract ==
    SchemaMappingProposal(proposal) =>
        "UNKNOWN_TRANSFORM" \notin
            validateApprovedMapping(deriveApprovedSourceMapping(proposal))

\* The columns an event takes its identity from.
IdentityColumns(p) ==
    IF p.compositeSourceEventId # Null THEN Range(p.compositeSourceEventId)
    ELSE {p.fields[i].sourceColumn :
            i \in {j \in DOMAIN p.fields : p.fields[j].targetField = "sourceEventId"}}

\* Two cells an identity does not tell apart: the same text where it is joined
\* or copied, the same up to case where it is put in upper case.  Under any
\* other transform an identity is only what the transform makes of the cell.
SameIdentity(p, c, v, w) ==
    LET transforms == {p.fields[i].transform :
            i \in {j \in DOMAIN p.fields : p.fields[j].targetField = "sourceEventId"}}
    IN  CASE p.compositeSourceEventId # Null -> Tokens(v) = Tokens(w)
          [] transforms \subseteq {"IDENTITY", "ISO_DATETIME"} -> Tokens(v) = Tokens(w)
          [] "UPPERCASE" \in transforms ->
                Tokens(toUpperCase(v)) = Tokens(toUpperCase(w))
          [] OTHER -> TRUE

\* Every row of an approved reading is one event that names its row, no column
\* of it is left unread, and two rows share an event identity only when every
\* column of it is the same in both, up to case where upper case was approved.
EveryRowIsOneEvent ==
    LET rows == parseJsonLinesSourceArtifact(table).rows
        Known == SourceColumns(proposal) \cup TimeColumns(proposal)
    IN  SchemaMappingProposal(proposal) /\ JsonLines.status = "APPROVED" =>
            /\ Len(JsonLines.events) = Len(rows)
            /\ \A i \in DOMAIN rows :
                  /\ JsonLines.events[i].rawRowHash = rows[i]
                  /\ DOMAIN rows[i].values \subseteq Known
            /\ \A i, j \in DOMAIN rows :
                  JsonLines.events[i].sourceEventId = JsonLines.events[j].sourceEventId =>
                    \A c \in IdentityColumns(proposal) :
                        SameIdentity(proposal, c, rows[i].values[c], rows[j].values[c])

WithoutRow(e) == [t \in DOMAIN e \ {"rawRowHash"} |-> e[t]]

\* The same table gives the same events from CSV and from JSON Lines, but for
\* the rows they name, and what CSV cannot express is never read differently.
FormatDoesNotMatter ==
    parseCsvSourceArtifact(table).error = parseJsonLinesSourceArtifact(table).error =>
        /\ Csv.status = JsonLines.status
        /\ Csv.issues = JsonLines.issues
        /\ \A i \in DOMAIN Csv.events :
              WithoutRow(Csv.events[i]) = WithoutRow(JsonLines.events[i])

\* Under an accepted mapping a row becomes the one event its columns say,
\* whichever file format carried it.
IngestIsFaithful ==
    EngineKnowsTheContract /\ EveryRowIsOneEvent /\ FormatDoesNotMatter
=============================================================================
