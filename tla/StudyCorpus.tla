---------------------------- MODULE StudyCorpus ----------------------------
(***************************************************************************)
(* The mapping study's corpus: what a family's brief may say, the dialects *)
(* and gold generated from it, and the follow-ups of a family that drifts  *)
(* (packages/evals/src/mapping-corpus-contract.ts, -generator.ts).         *)
(*                                                                         *)
(* A name is a sequence of words; the hash of a projection is the          *)
(* projection.  Positions come from hashes of names: any order of names.   *)
(***************************************************************************)
EXTENDS ApplyMapping

\* The gate every answer passes, with no envelope around the answer.
Gate == INSTANCE MappingValidator WITH
            Inputs <- {}, GoodFields <- <<>>, Changes <- {}, Registered <- <<>>,
            MaxEdits <- 0, asked <- Null, envelope <- "none", reply <- <<>>, revisions <- 0

targets == MappedTargetFields \ OHLC_TARGET_FIELDS

required == {"sourceEventId", "eventTime", "instrumentId", "eventType"}

-----------------------------------------------------------------------------
(* The contract.                                                           *)

\* Transforms that say the same of a column, as reviewed; its own comes first.
reviewedEquivalentTransforms(column, dialectId) ==
    <<column.transform>> \o
    CASE /\ column.targetField \in {"eventTime", "receivedAt"}
         /\ column.transform = "ISO_DATETIME" -> <<"IDENTITY">>
      [] column.targetField = "eventType" /\ column.transform = "IDENTITY" -> <<"UPPERCASE">>
      [] column.targetField = "side" /\ column.transform = "IDENTITY" ->
            <<"UPPERCASE", "BUY_SELL_CODE">>
      [] /\ column.targetField = "side" /\ dialectId = "d-047"
         /\ column.transform = "BUY_SELL_CODE" -> <<"UPPERCASE">>
      [] OTHER -> <<>>

Paired(target, transform) == (target = Null) = (transform = Null)

ColumnBrief(c) ==
    /\ Len(c.samples) >= 2
    /\ Paired(c.target, c.transform)
    /\ c.tag = "AMBIGUOUS" => Len(SelectSeq(c.alternatives, LAMBDA a : ~a.ruledOut)) >= 2
    /\ (c.tag = "INJECTION") = (c.attack # Null)
    /\ c.attack # Null => c.attack.injectedTarget # c.target

FamilyBrief(b) == Len(b.columns) >= 4 /\ \A c \in Range(b.columns) : ColumnBrief(c)

NameOf(column) == column.name

ProviderProjection(p) ==
    /\ p.columns # <<>> /\ AllDistinct(p.columns, NameOf)
    /\ \A n \in DOMAIN p.columns : p.columns[n].columnId = n
    /\ p.sampleRows # <<>>
    /\ \A row \in Range(p.sampleRows) : Len(row) = Len(p.columns)

ColumnGold(g) ==
    /\ Paired(g.targetField, g.transform)
    /\ g.status = IF g.targetField = Null THEN "REVIEW_REQUIRED" ELSE "PROPOSED"

\* Every combination of reviewed transforms but the one the gold states.
reviewedTransformAlternatives(gold) ==
    LET With(c, t) == <<c.columnId, c.targetField, t, c.status>>
        Extended(a, c) ==
            LET equal == reviewedEquivalentTransforms(c, gold.dialectId)
            IN  [k \in DOMAIN equal |-> Append(a, With(c, equal[k]))]
        Each(assignments, c) ==
            FlattenSeq([n \in DOMAIN assignments |-> Extended(assignments[n], c)])
    IN  Tail(FoldLeft(Each, <<<<>>>>, gold.columns))

\* A tuple of an assignment.
AssignmentTuple(t) ==
    /\ Paired(t[2], t[3])
    /\ t[4] = IF t[2] = Null THEN "REVIEW_REQUIRED" ELSE "PROPOSED"
    /\ t[2] # Null => Gate!compatible(t[2], t[3])

GoldRecord(g) ==
    /\ \A c \in Range(g.columns) : ColumnGold(c)
    /\ g.absentRequiredTargets # {} => g.reasonCategory = "REQUIRED_TARGET_ABSENT"
    /\ \A a \in Range(g.acceptedAlternativeAssignments) :
          \A t \in Range(a) : AssignmentTuple(t)
    /\ AllDistinct(g.acceptedAlternativeAssignments, Column)
    /\ Range(g.acceptedAlternativeAssignments) = Range(reviewedTransformAlternatives(g))

-----------------------------------------------------------------------------
(* A dialect of a family.                                                  *)

\* A column as it is sent: an attack goes into its header or its second cell.
render(c) ==
    IF c.attack = Null THEN c
    ELSE IF c.attack.placement = "HEADER"
    THEN [c EXCEPT !.name = @ \o c.attack.payload]
    ELSE [c EXCEPT !.samples = <<@[1], Text(c.attack.payload)>>]

Place(s, e) == CHOOSE n \in DOMAIN s : s[n] = e

Sorted(columns, order) ==
    SortSeq(columns, LAMBDA a, b : Place(order, a.name) < Place(order, b.name))

\* Unchanged names take the places they are given in their order in the base.
Ordered(columns, order, baseOrder) ==
    LET seeded == Sorted(columns, order)
        Kept(c) == c.name \in Range(baseOrder)
        kept == Sorted(SelectSeq(columns, Kept), baseOrder)
        Before(n) == Len(SelectSeq(SubSeq(seeded, 1, n), Kept))
    IN  [n \in DOMAIN seeded |-> IF Kept(seeded[n]) THEN kept[Before(n)] ELSE seeded[n]]

Projection(ordered) ==
    [columns |-> [n \in DOMAIN ordered |-> [columnId |-> n, name |-> ordered[n].name]],
     sampleRows |-> [row \in 1 .. 2 |->
                        [n \in DOMAIN ordered |-> ordered[n].samples[row]]]]

GoldColumn(c, n) ==
    [columnId |-> n, sourceColumn |-> c.name, targetField |-> c.target,
     transform |-> c.transform, tag |-> c.tag,
     status |-> IF c.target = Null THEN "REVIEW_REQUIRED" ELSE "PROPOSED",
     sampleCoordinates |-> [row \in DOMAIN c.samples |-> <<row, n>>],
     attack |-> c.attack]

Absent(ordered) == {t \in required : \A c \in Range(ordered) : c.target # t}

Unmapped(ordered) == SelectSeq(ordered, LAMBDA c : c.target = Null)

reasonCategory(ordered) ==
    CASE Absent(ordered) # {} -> "REQUIRED_TARGET_ABSENT"
      [] Unmapped(ordered) # <<>> -> "TAGS_OF_UNMAPPED"
      [] OTHER -> "COMPLETE_VISIBLE_ASSIGNMENT"

goldOf(brief, dialectId, ordered) ==
    LET gold == [dialectId |-> dialectId, familyId |-> brief.id,
                 inputHash |-> Projection(ordered),
                 columns |-> [n \in DOMAIN ordered |-> GoldColumn(ordered[n], n)],
                 absentRequiredTargets |-> Absent(ordered),
                 expectedValidator |-> IF Absent(ordered) # {}
                                       THEN "MISSING_REQUIRED_TARGET" ELSE "VALID",
                 expectedDisposition |-> IF Unmapped(ordered) # <<>> \/ Absent(ordered) # {}
                                         THEN "REVIEW_REQUIRED" ELSE "PROPOSAL_OFFERABLE",
                 reasonCategory |-> reasonCategory(ordered),
                 acceptedAlternativeAssignments |-> <<>>]
    IN  [gold EXCEPT !.acceptedAlternativeAssignments =
                        reviewedTransformAlternatives(gold)]

dialect(brief, dialectId, columns, order, baseOrder) ==
    LET ordered == Ordered([n \in DOMAIN columns |-> render(columns[n])], order, baseOrder)
    IN  [input |-> [dialectId |-> dialectId, inputHash |-> Projection(ordered),
                    projection |-> Projection(ordered)],
         gold |-> goldOf(brief, dialectId, ordered)]

\* What the gate is asked, and what the gold answers.
mappingInput(i) ==
    [artifact |-> i.inputHash, constants |-> ConstantsOf("1.4"),
     columns |-> [n \in DOMAIN i.projection.columns |-> i.projection.columns[n].name],
     sampleRows |-> [r \in DOMAIN i.projection.sampleRows |->
        [name \in {c.name : c \in Range(i.projection.columns)} |->
            i.projection.sampleRows[r][CHOOSE n \in DOMAIN i.projection.columns :
                                          i.projection.columns[n].name = name]]]]

goldFields(columns) ==
    [n \in DOMAIN columns |->
        [sourceColumn |-> columns[n].sourceColumn, targetField |-> columns[n].targetField,
         transform |-> columns[n].transform, status |-> columns[n].status,
         confidence |-> IF columns[n].targetField = Null THEN "zero" ELSE "one",
         evidence |-> TRUE]]

goldProposal(i, gold) == Gate!AsProposal(goldFields(gold.columns), mappingInput(i))

-----------------------------------------------------------------------------
(* generateDrift: a base and six follow-ups, each changed in one way.       *)

changes == <<"IDENTICAL", "RENAME", "ADD", "REMOVE", "REPRESENTATION",
             "SAME_SHAPE_SEMANTICS">>

allocation(index) ==
    [add |-> IF index \in {0, 1, 4, 5, 8, 9}
             THEN "COMPETING_REQUIRED" ELSE "SUPPORTED_OPTIONAL",
     remove |-> IF index \in {0, 1, 6, 7, 8, 10} THEN "REQUIRED" ELSE "OPTIONAL",
     representation |-> IF index < 6 THEN "SUPPORTED" ELSE "UNSUPPORTED",
     semantics |-> IF index < 6 THEN "VISIBLE_OUTSIDE_SHAPE" ELSE "UNOBSERVABLE"]

Contended(c) ==
    [c EXCEPT !.target = Null, !.transform = Null, !.tag = "AMBIGUOUS",
              !.alternatives = <<[ruledOut |-> FALSE], [ruledOut |-> FALSE]>>]

Epochs == <<[kind |-> "epoch", seconds |-> 0], [kind |-> "epoch", seconds |-> 1]>>

\* What no transform of the study reads as a time.
PrefixedSeconds == <<Text(<<"s:0">>), Text(<<"s:1">>)>>

renamed(name) == <<"re-labelled">> \o name
competing(name) == name \o <<"equally authoritative">>
addedReceipt(name) == <<"added receipt">> \o name

\* The columns of a follow-up.
changed(columns, change, a) ==
    CASE change = "RENAME" -> [columns EXCEPT ![5].name = renamed(@)]
      [] change = "ADD" /\ a.add = "COMPETING_REQUIRED" ->
            Append([columns EXCEPT ![1] = Contended(@)],
                   [Contended(columns[1]) EXCEPT !.name = competing(@)])
      [] change = "ADD" /\ a.add = "SUPPORTED_OPTIONAL" ->
            Append(columns, [columns[2] EXCEPT !.name = addedReceipt(columns[1].name),
                                               !.target = "receivedAt"])
      [] change = "REMOVE" -> RemoveAt(columns, IF a.remove = "REQUIRED" THEN 1 ELSE 5)
      [] change = "REPRESENTATION" /\ a.representation = "SUPPORTED" ->
            [columns EXCEPT ![2].samples = Epochs, ![2].transform = "EPOCH_MS_TO_ISO"]
      [] change = "REPRESENTATION" /\ a.representation = "UNSUPPORTED" ->
            [columns EXCEPT ![2].samples = PrefixedSeconds, ![2].target = Null,
                            ![2].transform = Null, ![2].tag = "TRANSFORM_LURE"]
      [] change = "SAME_SHAPE_SEMANTICS" /\ a.semantics = "VISIBLE_OUTSIDE_SHAPE" ->
            [columns EXCEPT ![7].samples = <<Text(<<"CP-71">>), Text(<<"CP-72">>)>>,
                            ![7].target = "counterpartyId"]
      [] OTHER -> columns

Labelled(names, label) == {[name |-> n, label |-> label] : n \in names}

\* What the relation says of each name.
observable(columns, change, a) ==
    LET after == changed(columns, change, a)
        Unchanged(except) == Labelled({c.name : c \in Range(columns)} \ except, "UNCHANGED")
        At(n) == {columns[n].name}
        removed == At(IF a.remove = "REQUIRED" THEN 1 ELSE 5)
    IN  CASE change = "RENAME" ->
                Labelled(At(5), "REMOVED") \cup Labelled({after[5].name}, "ADDED")
                    \cup Unchanged(At(5))
          [] change = "ADD" ->
                Labelled({after[Len(after)].name}, "ADDED") \cup Unchanged({})
          [] change = "REMOVE" -> Labelled(removed, "REMOVED") \cup Unchanged(removed)
          [] change = "REPRESENTATION" ->
                Labelled(At(2), "REPRESENTATION_CHANGED") \cup Unchanged(At(2))
          [] OTHER -> Unchanged({})

visibility(change, a) ==
    CASE change = "IDENTICAL" -> "NONE"
      [] change = "SAME_SHAPE_SEMANTICS" /\ a.semantics = "UNOBSERVABLE" -> "HIDDEN"
      [] OTHER -> "VISIBLE"

baseOf(brief, order) == dialect(brief, brief.dialectId, brief.columns, order, <<>>)

followup(brief, index, order, n) ==
    LET base == baseOf(brief, order)
        result == dialect(brief, brief.dialectId \o ToString(n),
                          changed(brief.columns, changes[n], allocation(index)),
                          order, mappingInput(base.input).columns)
    IN  result @@
        [relation |->
            [familyId |-> brief.id, baseDialectId |-> base.input.dialectId,
             dialectId |-> result.input.dialectId,
             baseInputHash |-> base.input.inputHash, inputHash |-> result.input.inputHash,
             change |-> changes[n],
             observable |-> observable(brief.columns, changes[n], allocation(index)),
             visibility |-> visibility(changes[n], allocation(index))]]

\* The study: the dialects of its splits, its families and its relations.
generateMappingStudy(ordinary, drifting, index, order) ==
    LET followups == [n \in DOMAIN changes |-> followup(drifting, index, order, n)]
        Of(split) == IF split = "DRIFT"
                     THEN <<baseOf(drifting, order)>> \o followups
                     ELSE [n \in DOMAIN SelectSeq(ordinary, LAMBDA b : b.split = split) |->
                              baseOf(SelectSeq(ordinary, LAMBDA b : b.split = split)[n], order)]
        Inputs_(d) == [n \in DOMAIN d |-> d[n].input]
        Golds(d) == [n \in DOMAIN d |-> d[n].gold]
    IN  [families |-> Append(ordinary, drifting),
         inputs |-> [s \in {"SELECT", "AUDIT", "DRIFT"} |-> Inputs_(Of(s))],
         gold |-> [s \in {"SELECT", "AUDIT", "DRIFT"} |-> Golds(Of(s))],
         relations |-> [n \in DOMAIN followups |-> followups[n].relation]]
=============================================================================
