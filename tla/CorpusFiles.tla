---------------------------- MODULE CorpusFiles ----------------------------
(*****************************************************************************)
(* The corpus on disk: what is checked before it is written, how the         *)
(* independent review of it is carried forward as it changes, and how a      *)
(* study binds to its files                                                  *)
(* (packages/evals/src/mapping-corpus-preflight.ts, -review.ts, -lineage.ts, *)
(* mapping-study-data.ts).                                                   *)
(*                                                                           *)
(* Its author rewrites a brief and generates it again; anyone may edit the   *)
(* files themselves.                                                         *)
(*****************************************************************************)
EXTENDS StudyCorpus

CONSTANTS
    Ordinary,       \* the briefs of the SELECT and AUDIT families
    Drifting,       \* the brief of the family that drifts
    Orders,         \* orders the hashes may give to every name
    Indices,        \* places of the drifting family among its kind
    Rewritten,      \* what the first brief may be rewritten to
    Edited,         \* what a gold column may be edited to
    LiveSample,     \* dialects the protocol sends to a live model
    FamilyCount,    \* families a split must have
    MaxEdits        \* bound: changes to the corpus

VARIABLES
    index,
    order,
    study,
    reviewed,       \* the review's baseline, by dialect
    approval,       \* what the base's generated approval approves
    declared,       \* the files a protocol declares, Null before it does
    edits

vars == <<index, order, study, reviewed, approval, declared, edits>>

Splits == {"SELECT", "AUDIT", "DRIFT"}

Id(r) == r.dialectId

FamilyOf(s, id) == SelectSeq(s.families, LAMBDA b : b.id = id)

\* The first record of a dialect.
Found(records, id) == SelectSeq(records, LAMBDA r : r.dialectId = id)[1]

Has(records, id) == \E r \in Range(records) : r.dialectId = id

-----------------------------------------------------------------------------
(* preflight.                                                              *)

rows(i) == [n \in DOMAIN i.projection.sampleRows |-> Gate!Row(mappingInput(i), n)]

Verdict(columns, i) == Gate!validateMappingStructure(goldFields(columns), mappingInput(i))

outcome(columns, i) == IF Verdict(columns, i) = "none" THEN "VALID" ELSE Verdict(columns, i)

ready(g, i) ==
    Gate!approvalReady(Verdict(g.columns, i), goldFields(g.columns)) = "none"

\* The gold with the transforms of an alternative.
Alternate(g, a) ==
    [n \in DOMAIN g.columns |-> [g.columns[n] EXCEPT !.transform = a[n][3]]]

Normalized(columns, i) ==
    applyApprovedMapping(rows(i),
        deriveApprovedSourceMapping(Gate!AsProposal(goldFields(columns), mappingInput(i))))

\* What a reviewed transform rests on: codes already in the event's own words.
DomainWitness(c, a, cells) ==
    a[3] # c.transform =>
        /\ c.targetField = "eventType" =>
              \A v \in cells : Within(v, {"TRADE", "ORDER_NEW", "ORDER_CANCEL"})
        /\ c.targetField = "side" =>
              \A v \in cells : Within(v, IF c.transform = "BUY_SELL_CODE"
                                         THEN {"buy", "sell"} ELSE {"BUY", "SELL"})

Cells(i, n) == {row[n] : row \in Range(i.projection.sampleRows)}

\* An alternative passes the gate as the gold does, over cells that bear it out.
Witnessed(g, i, a) ==
    /\ outcome(Alternate(g, a), i) = outcome(g.columns, i)
    /\ \A n \in DOMAIN a : DomainWitness(g.columns[n], a[n], Cells(i, n))

AlternativeHolds(g, i, a) ==
    /\ Witnessed(g, i, a)
    /\ g.expectedDisposition = "PROPOSAL_OFFERABLE" =>
          Normalized(Alternate(g, a), i) = Normalized(g.columns, i)

\* An attack is where its input shows it.
AttackShown(c, i, n) ==
    c.attack # Null =>
        \/ c.attack.placement = "HEADER" /\ i.projection.columns[n].name = c.sourceColumn
        \/ Text(c.attack.payload) \in Cells(i, n)

SameColumns(g, i) ==
    /\ Len(g.columns) = Len(i.projection.columns)
    /\ \A n \in DOMAIN g.columns :
          /\ g.columns[n].columnId = i.projection.columns[n].columnId
          /\ g.columns[n].sourceColumn = i.projection.columns[n].name

DialectHolds(g, i) ==
    /\ g.inputHash = i.inputHash /\ i.projection = i.inputHash
    /\ SameColumns(g, i)
    /\ GoldRecord(g)
    /\ outcome(g.columns, i) = g.expectedValidator
    /\ \A a \in Range(g.acceptedAlternativeAssignments) : AlternativeHolds(g, i, a)
    /\ ready(g, i) = (g.expectedDisposition = "PROPOSAL_OFFERABLE")
    /\ \A n \in DOMAIN g.columns :
          /\ \A at \in Range(g.columns[n].sampleCoordinates) :
                at[1] <= Len(i.projection.sampleRows) /\ at[2] = g.columns[n].columnId
          /\ AttackShown(g.columns[n], i, n)

\* What a relation says of a follow-up, held against the bytes of both.
RelationHolds(s, r) ==
    LET base == Found(s.inputs["DRIFT"], r.baseDialectId)
        after == Found(s.inputs["DRIFT"], r.dialectId)
        baseGold == Found(s.gold["DRIFT"], r.baseDialectId)
        afterGold == Found(s.gold["DRIFT"], r.dialectId)
    IN  /\ Has(s.inputs["DRIFT"], r.baseDialectId) /\ Has(s.inputs["DRIFT"], r.dialectId)
        /\ r.baseInputHash = base.inputHash /\ r.inputHash = after.inputHash
        /\ r.change \in {"SAME_SHAPE_SEMANTICS", "IDENTICAL"} =>
              /\ base.projection.columns = after.projection.columns
              /\ outcome(baseGold.columns, after) = "VALID"
              /\ r.visibility = "HIDDEN" \/ r.change = "IDENTICAL" =>
                    base.inputHash = after.inputHash /\ baseGold.columns = afterGold.columns
        /\ r.change = "REPRESENTATION" =>
              outcome(baseGold.columns, after) = "TRANSFORM_FAILED"
        /\ base.inputHash # after.inputHash =>
              deriveApprovedSourceMapping(goldProposal(after, afterGold)) # approval

Headers(g) == {c.sourceColumn : c \in Range(g.columns)}

Attacks(g) == {c.attack.payload : c \in {c \in Range(g.columns) : c.attack # Null}}

Golds(s) == UNION {Range(s.gold[split]) : split \in Splits}

\* Two families share no input, no headers of their bases and no attack.
NoOverlap(s) ==
    \A g, h \in Golds(s) :
        g.familyId # h.familyId =>
            /\ g.inputHash # h.inputHash
            /\ Headers(g) # Headers(h)
            /\ Attacks(g) \cap Attacks(h) = {}

FamilyId(b) == b.id

-----------------------------------------------------------------------------
(* corpusReview.                                                           *)

\* What was read of a family: its convention and evidence, not its wording.
familyLineageProjection(b) ==
    [id |-> b.id, split |-> b.split, stratum |-> b.stratum,
     columns |-> [n \in DOMAIN b.columns |->
        LET c == b.columns[n]
        IN  <<c.name, c.samples, c.target, c.transform, c.tag, c.attack>>]]

Tuples(g) ==
    [n \in DOMAIN g.columns |->
        <<g.columns[n].columnId, g.columns[n].sourceColumn, g.columns[n].targetField,
          g.columns[n].transform, g.columns[n].status>>]

Reviewed(b, split, i, g) ==
    [familyId |-> g.familyId, split |-> split, stratum |-> b.stratum,
     inputHash |-> i.inputHash, canonicalAssignments |-> Tuples(g),
     expectedValidator |-> g.expectedValidator,
     expectedDisposition |-> g.expectedDisposition,
     absentRequiredTargets |-> g.absentRequiredTargets,
     lineage |-> familyLineageProjection(b)]

\* The baseline a review of a study would write down.
ReviewOf(s) ==
    [id \in {g.dialectId : g \in Golds(s)} |->
        LET split == CHOOSE t \in Splits : Has(s.gold[t], id)
            g == Found(s.gold[split], id)
        IN  Reviewed(FamilyOf(s, g.familyId)[1], split, Found(s.inputs[split], id), g)]

requireReviewedSplitBindings(s) ==
    \A split \in Splits :
        /\ AllDistinct(s.inputs[split], Id) /\ AllDistinct(s.gold[split], Id)
        /\ Collected(s.inputs[split], Id) = Collected(s.gold[split], Id)
        /\ \A g \in Range(s.gold[split]) :
              /\ g.dialectId \in DOMAIN reviewed
              /\ reviewed[g.dialectId].split = split
              /\ FamilyOf(s, g.familyId) # <<>>
              /\ FamilyOf(s, g.familyId)[1].split = split

\* Mutant of Changed: a correction of the gold alone keeps its old review.
ChangedBytes(s, split, g) ==
    Found(s.inputs[split], g.dialectId).inputHash # reviewed[g.dialectId].inputHash

Changed(s, split, g) ==
    LET r == reviewed[g.dialectId]
    IN  \/ Found(s.inputs[split], g.dialectId).inputHash # r.inputHash
        \/ Tuples(g) # r.canonicalAssignments
        \/ g.expectedValidator # r.expectedValidator
        \/ g.expectedDisposition # r.expectedDisposition
        \/ g.absentRequiredTargets # r.absentRequiredTargets

OfFamily(s, b) == {g \in Golds(s) : g.familyId = b.id}

FamilyBound(s, b) ==
    LET original == {id \in DOMAIN reviewed : reviewed[id].familyId = b.id}
    IN  /\ original # {} /\ {g.dialectId : g \in OfFamily(s, b)} = original
        /\ \A id \in original : reviewed[id].split = b.split /\ reviewed[id].stratum = b.stratum
        /\ \A g \in OfFamily(s, b) : GoldRecord(g)

lineageChanged(b) ==
    \E id \in DOMAIN reviewed :
        reviewed[id].familyId = b.id /\ reviewed[id].lineage # familyLineageProjection(b)

currentLineage(s, b) ==
    IF b.stratum = "MUST_REVIEW" \/ b.split = "DRIFT" THEN "UNRESOLVED"
    ELSE IF lineageChanged(b) \/ \E g \in OfFamily(s, b) : Changed(s, b.split, g)
    THEN "PENDING_REVIEW" ELSE "ACCEPTED"

\* Whether the review can be carried forward, family by family.
corpusReview(s) ==
    /\ requireReviewedSplitBindings(s)
    /\ {g.dialectId : g \in Golds(s)} = DOMAIN reviewed
    /\ \A b \in Range(s.families) : FamilyBound(s, b)

preflight(s) ==
    /\ AllDistinct(s.families, FamilyId)
    /\ requireReviewedSplitBindings(s)
    /\ \A split \in Splits :
          /\ Len(SelectSeq(s.families, LAMBDA b : b.split = split)) = FamilyCount[split]
          /\ \A i \in Range(s.inputs[split]) :
                DialectHolds(Found(s.gold[split], i.dialectId), i)
    /\ \A r \in Range(s.relations) : RelationHolds(s, r)
    /\ NoOverlap(s)
    /\ corpusReview(s)

-----------------------------------------------------------------------------
(* bindStudySource: what of the files a study may use.                     *)

RelationOf(s, id) == SelectSeq(s.relations, LAMBDA r : r.dialectId = id)

RelationBinds(s, r) ==
    /\ FamilyOf(s, r.familyId) # <<>>
    /\ Has(s.inputs["DRIFT"], r.baseDialectId) /\ Has(s.inputs["DRIFT"], r.dialectId)
    /\ Has(s.gold["DRIFT"], r.baseDialectId) /\ Has(s.gold["DRIFT"], r.dialectId)
    /\ LET family == FamilyOf(s, r.familyId)[1]
       IN  /\ family.split = "DRIFT" /\ family.dialectId = r.baseDialectId
           /\ r.dialectId # r.baseDialectId
           /\ Found(s.gold["DRIFT"], r.baseDialectId).familyId = family.id
           /\ Found(s.gold["DRIFT"], r.dialectId).familyId = family.id
           /\ r.baseInputHash = Found(s.inputs["DRIFT"], r.baseDialectId).inputHash
           /\ r.inputHash = Found(s.inputs["DRIFT"], r.dialectId).inputHash

DialectBinds(s, split, i) ==
    /\ Has(s.gold[split], i.dialectId)
    /\ LET truth == Found(s.gold[split], i.dialectId)
           family == FamilyOf(s, truth.familyId)
       IN  /\ family # <<>> /\ family[1].split = split
           /\ \/ family[1].dialectId = i.dialectId
              \/ /\ split = "DRIFT" /\ RelationOf(s, i.dialectId) # <<>>
                 /\ RelationOf(s, i.dialectId)[1].familyId = family[1].id
           /\ i.inputHash = truth.inputHash /\ i.inputHash = i.projection
           /\ SameColumns(truth, i)
           /\ ready(truth, i) = (truth.expectedDisposition = "PROPOSAL_OFFERABLE")

Parsed(s, split) ==
    /\ \A g \in Range(s.gold[split]) : GoldRecord(g)
    /\ \A i \in Range(s.inputs[split]) : ProviderProjection(i.projection)
    /\ \A b \in Range(s.families) : FamilyBrief(b)

binds(s, split) ==
    /\ declared = s /\ Parsed(s, split)
    /\ AllDistinct(s.inputs[split], Id) /\ AllDistinct(s.gold[split], Id)
    /\ AllDistinct(s.families, FamilyId)
    /\ split = "DRIFT" => AllDistinct(s.relations, Id)
    /\ s.inputs[split] # <<>> /\ Len(s.inputs[split]) = Len(s.gold[split])
    /\ split = "DRIFT" => \A r \in Range(s.relations) : RelationBinds(s, r)
    /\ \A i \in Range(s.inputs[split]) : DialectBinds(s, split, i)
    /\ \A b \in Range(s.families) :
          b.split = split => \E g \in Range(s.gold[split]) : g.familyId = b.id
    /\ split = "AUDIT" => \A id \in LiveSample : Has(s.inputs[split], id)

-----------------------------------------------------------------------------
Init ==
    /\ index \in Indices /\ order \in Orders
    /\ study = generateMappingStudy(Ordinary, Drifting, index, order)
    /\ reviewed = ReviewOf(study)
    /\ approval = deriveApprovedSourceMapping(
            goldProposal(study.inputs["DRIFT"][1], study.gold["DRIFT"][1]))
    /\ declared = Null /\ edits = 0

Change ==
    /\ edits < MaxEdits /\ edits' = edits + 1
    /\ UNCHANGED <<index, order, reviewed, approval, declared>>

\* The author rewrites a brief and generates the corpus from it again.
Rewrite ==
    \E columns \in Rewritten :
        /\ Change
        /\ study' = generateMappingStudy([Ordinary EXCEPT ![1].columns = columns],
                                         Drifting, index, order)

\* A gold column is edited, its alternatives with it or not.
EditGold ==
    \E split \in Splits, derived \in BOOLEAN : \E d \in DOMAIN study.gold[split] :
        \E n \in DOMAIN study.gold[split][d].columns, to \in Edited :
            LET now == [study.gold[split][d] EXCEPT !.columns[n] = to @@ @]
            IN  /\ Change
                /\ study' = [study EXCEPT !.gold[split][d] =
                        IF derived
                        THEN [now EXCEPT !.acceptedAlternativeAssignments =
                                            reviewedTransformAlternatives(now)]
                        ELSE now]

\* A cell is changed, its hash with it or not.
EditInput ==
    \E split \in Splits, hashed \in BOOLEAN : \E d \in DOMAIN study.inputs[split] :
        LET was == study.inputs[split][d]
            now == [was.projection EXCEPT !.sampleRows[2][1] = Text(<<"edited">>)]
        IN  /\ Change
            /\ study' = [study EXCEPT
                    !.inputs[split][d].projection = now,
                    !.inputs[split][d].inputHash = IF hashed THEN now ELSE @,
                    !.gold[split] = [m \in DOMAIN @ |->
                        IF hashed /\ @[m].dialectId = was.dialectId
                        THEN [@[m] EXCEPT !.inputHash = now] ELSE @[m]]]

\* A dialect is judged otherwise, or is said to be of another family.
EditVerdict ==
    \E split \in Splits : \E d \in DOMAIN study.gold[split] :
        /\ Change
        /\ \/ study' = [study EXCEPT !.gold[split][d].expectedDisposition =
                IF @ = "REVIEW_REQUIRED" THEN "PROPOSAL_OFFERABLE" ELSE "REVIEW_REQUIRED"]
           \/ \E b \in Range(study.families) :
                study' = [study EXCEPT !.gold[split][d].familyId = b.id]

\* A record is dropped, or moved to another split with its gold.
Move ==
    \E from \in Splits, to \in Splits : \E d \in DOMAIN study.inputs[from] :
        LET id == study.inputs[from][d].dialectId
            i == study.inputs[from][d]
            g == Found(study.gold[from], id)
        IN  /\ Change /\ Has(study.gold[from], id)
            /\ study' = [study EXCEPT
                    !.inputs = [s \in Splits |->
                        CASE s = from -> RemoveAt(@[s], d)
                          [] s = to /\ s # from -> Append(@[s], i)
                          [] OTHER -> @[s]],
                    !.gold = [s \in Splits |->
                        CASE s = from -> SelectSeq(@[s], LAMBDA r : r.dialectId # id)
                          [] s = to /\ s # from -> Append(@[s], g)
                          [] OTHER -> @[s]]]

EditRelation ==
    \E r \in DOMAIN study.relations, t \in DOMAIN study.relations :
        /\ Change
        /\ \/ study' = [study EXCEPT !.relations[r].dialectId = study.relations[t].dialectId]
           \/ study' = [study EXCEPT !.relations[r].inputHash = study.relations[t].inputHash]
           \/ study' = [study EXCEPT !.relations[r].change = study.relations[t].change]
           \/ study' = [study EXCEPT !.relations = RemoveAt(@, r)]

\* A protocol declares the files by their hashes.
Declare ==
    /\ declared = Null /\ declared' = study
    /\ UNCHANGED <<index, order, study, reviewed, approval, edits>>

Next ==
    \/ Rewrite \/ EditGold \/ EditInput \/ EditVerdict \/ Move \/ EditRelation \/ Declare

Spec == Init /\ [][Next]_vars

-----------------------------------------------------------------------------
(* Properties.                                                             *)

\* Whatever order the hashes give, the generated corpus passes its own checks,
\* binds once it is declared, and still has the review it was given.
GeneratedPasses ==
    edits = 0 =>
        /\ preflight(study)
        /\ declared # Null => \A split \in Splits : binds(study, split)
        /\ \A b \in Range(study.families) : currentLineage(study, b) # "PENDING_REVIEW"

HeadersOf(i) == mappingInput(i).columns

CellsOf(i, name) ==
    [r \in DOMAIN i.projection.sampleRows |-> mappingInput(i).sampleRows[r][name]]

\* A follow-up's labels are those of its bytes: each name of either input has
\* one, and only a change of meaning shows in the cells of an unchanged name.
LabelsAreTrue ==
    edits = 0 => \A r \in Range(study.relations) :
        LET base == Found(study.inputs["DRIFT"], r.baseDialectId)
            after == Found(study.inputs["DRIFT"], r.dialectId)
            before == Range(HeadersOf(base))
            now == Range(HeadersOf(after))
        IN  /\ {o.name : o \in r.observable} = before \cup now
            /\ \A o, p \in r.observable : o.name = p.name => o = p
            /\ \A o \in r.observable :
                  /\ (o.label = "ADDED") = (o.name \notin before)
                  /\ (o.label = "REMOVED") = (o.name \notin now)
                  /\ /\ o.label = "UNCHANGED"
                     /\ r.change # "SAME_SHAPE_SEMANTICS" \/ r.visibility = "HIDDEN"
                     => CellsOf(base, o.name) = CellsOf(after, o.name)
                  /\ o.label = "REPRESENTATION_CHANGED" =>
                        CellsOf(base, o.name) # CellsOf(after, o.name)

\* The place of a column tells nothing of the change: names that stay are in
\* the order they had.
PlacesGiveNoClue ==
    edits = 0 => \A r \in Range(study.relations) :
        LET base == HeadersOf(Found(study.inputs["DRIFT"], r.baseDialectId))
            after == HeadersOf(Found(study.inputs["DRIFT"], r.dialectId))
        IN  SelectSeq(base, LAMBDA c : c \in Range(after)) =
                SelectSeq(after, LAMBDA c : c \in Range(base))

\* Of files anyone edited, what a study binds is whole: inputs and gold are one
\* to one, every drifting dialect belongs to the family its relation names, and
\* what the gold offers gives events.  Binding tries no accepted alternative: one
\* gives the same events where the cells bear it out, as the preflight asks.
BoundIsWhole ==
    \A split \in Splits :
        binds(study, split) =>
            /\ Collected(study.inputs[split], Id) = Collected(study.gold[split], Id)
            /\ \A i \in Range(study.inputs[split]) :
                  LET g == Found(study.gold[split], i.dialectId)
                  IN  /\ g.inputHash = i.projection
                      /\ g.expectedDisposition = "PROPOSAL_OFFERABLE" =>
                            /\ Normalized(g.columns, i).status = "APPROVED"
                            /\ \A a \in Range(g.acceptedAlternativeAssignments) :
                                  \/ Normalized(Alternate(g, a), i) = Normalized(g.columns, i)
                                  \/ ~Witnessed(g, i, a)
                      /\ \A j \in Range(study.inputs[split]) :
                            split # "DRIFT" /\ i # j =>
                                g.familyId # Found(study.gold[split], j.dialectId).familyId

\* A review that is carried forward accepts a family for the bytes, the gold and
\* the evidence that were reviewed, and for no others.
AcceptedIsReviewed ==
    corpusReview(study) => \A b \in Range(study.families) :
        currentLineage(study, b) = "ACCEPTED" =>
            \A id \in DOMAIN reviewed :
                reviewed[id].familyId = b.id =>
                    Reviewed(b, b.split, Found(study.inputs[b.split], id),
                             Found(study.gold[b.split], id)) = reviewed[id]

\* A corpus that is generated, bound or accepted by review is labelled by its
\* bytes, whole, and as it was read by the reviewer.
CorpusIsHonest ==
    GeneratedPasses /\ LabelsAreTrue /\ PlacesGiveNoClue /\ BoundIsWhole /\ AcceptedIsReviewed
=============================================================================
