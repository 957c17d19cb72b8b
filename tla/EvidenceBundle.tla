--------------------------- MODULE EvidenceBundle ---------------------------
(***************************************************************************)
(* Assembling an evidence bundle from source bytes and approvals, and      *)
(* verifying a bundle against source bytes                                 *)
(* (packages/replay-engine/src/evidence-bundle.ts).  A bundle travels      *)
(* between the two: fields may be edited, its hash may be computed again,  *)
(* and the reader may supply other artifacts, in another order.            *)
(*                                                                         *)
(* A hash is the content it is taken of.                                   *)
(***************************************************************************)
EXTENDS Checks

CONSTANTS
    Artifacts,      \* source artifacts: [bytes, format, rows]
    MaxArtifacts,   \* bound: artifacts of one bundle
    MaxAlterations  \* bound: edits of one bundle

Formats == {"CSV", "JSON_LINES"}

VARIABLES
    bundled,        \* what the bundle was assembled from
    bundle,         \* the declaration as it is now
    supplied,       \* what the reader supplies: [artifact, format] each
    alterations     \* how often the bundle was edited

bundleVars == <<bundled, bundle, supplied, alterations>>

\* "refused" is a record that does not approve: of another decision, or bound to
\* other content.  Both stop a replay in the same state.
Approvals == {"none", "refused", "approved"}

Mappings == [artifact : Artifacts, structure : BOOLEAN, approval : Approvals]

\* "fits" stands for the profile and the rule of the case.
Cases == [fits : BOOLEAN, approval : Approvals]

-----------------------------------------------------------------------------
(* replayApproved, for the rows of the artifact itself.                    *)

\* The events two artifacts give differ; so do those of edited declarations.
EventsOf(artifact) == <<"events of", artifact.bytes>>

Evaluation(artifact) == <<"evaluation of", artifact.bytes>>

ReplayResultHash(events, evaluation) == <<events, evaluation>>

Replayed(state, events, evaluation) ==
    [state |-> state, events |-> events, evaluation |-> evaluation]

Stopped(state) == Replayed(state, Null, Null)

replayApproved(artifact, mapping, case) ==
    IF mapping.approval # "approved" \/ ~mapping.structure
    THEN Stopped("MAPPING_REVIEW_REQUIRED")
    ELSE IF artifact.rows # "good" THEN Stopped("INPUT_REVIEW_REQUIRED")
    ELSE IF case = Null
    THEN Replayed("MAPPING_APPROVED", EventsOf(artifact), Null)
    ELSE IF case.approval # "approved" \/ ~case.fits
    THEN Stopped("CASE_REVIEW_REQUIRED")
    ELSE Replayed("REPLAYED", EventsOf(artifact), Evaluation(artifact))

-----------------------------------------------------------------------------
(* assembleEvidenceBundle.                                                 *)

Failed == [error |-> TRUE]

finishBundle(declaration) ==
    [error |-> FALSE, declaration |-> declaration, bundleHash |-> declaration]

\* The replay that a bundle declares, with hashes that fit.
ReplayOf(events, evaluation) ==
    [events |-> events, evaluation |-> evaluation, canonicalDatasetHash |-> events,
     canonicalResultHash |-> ReplayResultHash(events, evaluation)]

\* Bytes are of one artifact, and what a replay gives is something.
ASSUME BundleAssumption ==
    /\ \A a, b \in Artifacts : a.bytes = b.bytes => a = b
    /\ \A a \in Artifacts :
          /\ EventsOf(a) # Null /\ Evaluation(a) # Null
          /\ \A e \in {Evaluation(a), Null} : ReplayOf(EventsOf(a), e) # Null
    /\ MaxArtifacts \in Nat

Declaration(i, state, result) ==
    [sourceArtifacts |-> [n \in DOMAIN i.sources |-> i.sources[n].artifact.bytes],
     mapping |-> i.mapping, case |-> i.case, workflowState |-> state,
     replay |->
        IF result.events = Null THEN Null
        ELSE ReplayOf(result.events, result.evaluation)]

\* A case that was declared and not replayed keeps the foundation's events.
CaseState(case, caseResult) ==
    IF case.approval = "none" THEN "CASE_REVIEW_REQUIRED" ELSE caseResult.state

AssembleMapped(i) ==
    LET source == i.sources[1]
        foundation == replayApproved(source.artifact, i.mapping, Null)
        caseResult == replayApproved(source.artifact, i.mapping, i.case)
    IN  IF \/ Len(i.sources) # 1 \/ source.artifact # i.mapping.artifact
           \/ source.format # source.artifact.format
           \/ i.case # Null /\ foundation.events = Null
           \/ /\ i.case # Null /\ i.case.approval # "none"
              /\ caseResult.events = Null /\ caseResult.state # "CASE_REVIEW_REQUIRED"
        THEN Failed
        ELSE finishBundle(
               IF i.case = Null THEN Declaration(i, foundation.state, foundation)
               ELSE Declaration(i, CaseState(i.case, caseResult),
                      IF caseResult.events # Null THEN caseResult ELSE foundation))

assembleEvidenceBundle(i) ==
    LET BytesOf(s) == s.artifact.bytes
    IN  IF i.sources = <<>> \/ ~AllDistinct(i.sources, BytesOf) THEN Failed
        ELSE IF i.mapping # Null THEN AssembleMapped(i)
        ELSE IF i.case # Null THEN Failed
        ELSE finishBundle(Declaration(i, "UPLOADED", Stopped("UPLOADED")))

-----------------------------------------------------------------------------
(* verifyBundle: every issue is reported.                                  *)

Holders(sources, hash) == {n \in DOMAIN sources : sources[n].artifact.bytes = hash}

\* Of two supplied artifacts with one hash the last stays in the map.
artifactsByHash(sources, hash) == sources[Max(Holders(sources, hash))]

\* The supplied artifacts in the order of the declaration.
Ordered(b, sources) ==
    [n \in DOMAIN b.declaration.sourceArtifacts |->
        artifactsByHash(sources, b.declaration.sourceArtifacts[n])]

Recomputed(b, sources) ==
    assembleEvidenceBundle([sources |-> Ordered(b, sources),
                            mapping |-> b.declaration.mapping,
                            case |-> b.declaration.case])

\* Mutant of RecomputedIssue: the hashes are trusted.
AssemblyOnly(b, sources) ==
    Unless(~Recomputed(b, sources).error, "ASSEMBLY_FAILED")

RecomputedIssue(b, sources) ==
    IF Recomputed(b, sources).error THEN "ASSEMBLY_FAILED"
    ELSE Unless(Recomputed(b, sources) = b, "RECOMPUTED_BUNDLE_MISMATCH")

ReplayIssues(replay) ==
    IF replay = Null THEN {}
    ELSE Failures(<<
        Unless(replay.canonicalDatasetHash = replay.events,
               "CANONICAL_DATASET_HASH_MISMATCH"),
        Unless(replay.canonicalResultHash
                 = ReplayResultHash(replay.events, replay.evaluation),
               "CANONICAL_RESULT_HASH_MISMATCH")>>)

verifyBundle(b, sources) ==
    LET declared == b.declaration.sourceArtifacts
    IN  ReplayIssues(b.declaration.replay)
        \cup Failures(<<
            Unless(b.bundleHash = b.declaration, "BUNDLE_HASH_MISMATCH"),
            IF \/ Len(sources) # Len(declared)
               \/ \E n \in DOMAIN declared : Holders(sources, declared[n]) = {}
            THEN "SOURCE_ARTIFACT_MISMATCH" ELSE RecomputedIssue(b, sources)>>)

-----------------------------------------------------------------------------
AsSources(s) == [n \in DOMAIN s |-> [artifact |-> s[n], format |-> s[n].format]]

AssemblyInputs ==
    [sources : {AsSources(s) : s \in SeqOf(Artifacts, MaxArtifacts)},
     mapping : Mappings \cup {Null},
     case : Cases \cup {Null}]

BundleInit ==
    /\ bundled \in AssemblyInputs
    /\ bundle = Null
    /\ supplied = <<>>
    /\ alterations = 0

Assemble ==
    /\ bundle = Null
    /\ ~assembleEvidenceBundle(bundled).error
    /\ bundle' = assembleEvidenceBundle(bundled)
    /\ supplied' = bundled.sources
    /\ UNCHANGED <<bundled, alterations>>

Edited(b) ==
    /\ bundle # Null /\ alterations < MaxAlterations
    /\ alterations' = alterations + 1
    /\ bundle' = b
    /\ UNCHANGED <<bundled, supplied>>

EditState ==
    \E state \in {"UPLOADED", "MAPPING_APPROVED", "CASE_REVIEW_REQUIRED", "REPLAYED"} :
        Edited([bundle EXCEPT !.declaration.workflowState = state])

EditMapping ==
    \E mapping \in Mappings : Edited([bundle EXCEPT !.declaration.mapping = mapping])

EditCase ==
    \E case \in Cases : Edited([bundle EXCEPT !.declaration.case = case])

\* The replay of another artifact, or an evaluation, with hashes that fit.
EditReplay ==
    \E artifact \in Artifacts, evaluated \in BOOLEAN :
        Edited([bundle EXCEPT !.declaration.replay =
            ReplayOf(EventsOf(artifact), IF evaluated THEN Evaluation(artifact) ELSE Null)])

HashAgain == Edited([bundle EXCEPT !.bundleHash = bundle.declaration])

SupplyOther ==
    /\ bundle # Null
    /\ supplied' \in {[n \in DOMAIN s |-> [artifact |-> s[n], format |-> f]] :
                        s \in SeqOf(Artifacts, MaxArtifacts), f \in Formats}
                     \cup {Reverse(bundled.sources)}
    /\ UNCHANGED <<bundled, bundle, alterations>>

BundleNext ==
    \/ Assemble
    \/ EditState \/ EditMapping \/ EditCase \/ EditReplay \/ HashAgain
    \/ SupplyOther

BundleSpec == BundleInit /\ [][BundleNext]_bundleVars

-----------------------------------------------------------------------------
Verified == bundle # Null /\ verifyBundle(bundle, supplied) = {}

\* A bundle nobody edited is verified with its own artifacts, in any order.
AssembledVerifies ==
    bundle # Null /\ alterations = 0
      /\ supplied \in {bundled.sources, Reverse(bundled.sources)}
        => Verified

\* A bundle that is verified says no more than its declarations earn: events
\* need an approved mapping of rows that normalize, an evaluation an approved
\* case that fits, and the state is the one these reach.
VerifiedIsEarned ==
    Verified =>
        LET d == bundle.declaration
        IN  /\ d.replay # Null =>
                 /\ d.mapping # Null /\ d.mapping.approval = "approved"
                 /\ d.mapping.artifact.rows = "good"
                 /\ d.replay.events = EventsOf(supplied[1].artifact)
                 /\ d.sourceArtifacts = <<supplied[1].artifact.bytes>>
            /\ (d.replay # Null /\ d.replay.evaluation # Null)
                 = (d.workflowState = "REPLAYED")
            /\ d.workflowState = "REPLAYED" =>
                 d.case # Null /\ d.case.approval = "approved" /\ d.case.fits

\* What was assembled verifies against its sources, and what verifies is what
\* those sources and approvals give, however it was edited on the way.
BundleIsHonest == AssembledVerifies /\ VerifiedIsEarned
=============================================================================
