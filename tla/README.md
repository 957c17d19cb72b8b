# WeaveTrail in TLA+

WeaveTrail turns market data files into reviewed, reproducible findings. A model
may *propose* how a file's columns map to trade events; a reviewer *approves*
the mapping and the case; versioned code *replays* the approved case and hashes
what it found; every number traces back to committed source rows. Beside it, an
evaluation decides which models may propose at all. These modules model the
parts of the repository where that promise depends on the order in which things
happen, the engine's algorithms, and the files and scores an evaluation rests
on. They state the promise as properties that TLC checks on small instances and,
for the greater part of them, as theorems that TLAPS proves for all instances.

Paths below are relative to the repository root.

## 1. Inventory

| Part | State it keeps | Operations | Interacts with |
| --- | --- | --- | --- |
| Public model budget (`apps/web/src/lib/public-model-budget.ts`) | visitor and global counters per KST day, in a shared Redis; one reservation per request | reserve (one EVAL), call, refuse, block | mapping route (caller), Redis (one message and its reply), configured provider (the operation it guards) |
| Evidence snapshot store (`packages/service-store`) | a SQLite file: blobs, snapshots, results, result inputs; the lineage of each origin | open, collect, store a snapshot, store a derived result, resolve a result, close | public publishers (fetch), other processes on the same file |
| Case replay page (`apps/web/src/app/replay/use-case-replay.ts`) | scenario, mutation, reasons, requested mapping, two approvals, result, previous hash, indicators, a request generation | approve mapping, edit a reason, request a mapping, approve the case, run, repeat, choose a source or a mutation, restore the worked case | both routes, Web Crypto |
| Guided walkthrough (`apps/web/src/app/replay/tour/guided-tour.tsx`, `replay-surface.tsx`) | the scene, the scene that waits for an approval; the mode is in the query | choose a scene, back, continue, approve, run, repeat, change mode | the page's hook, which it shares with working mode |
| Replay route (`apps/web/src/app/api/replay/route.ts`, `packages/replay-engine/src/approval-validation.ts`, `request-workflow.ts`, `packages/contracts/src/workflow.ts`, `replay-request.ts`) | one request's workflow and its history | thirteen gates, foundation replay, case replay, review responses | mapping provider (receipt), engine |
| Mapping route and receipts (`apps/web/src/lib/mapping-provider.ts`, `api/mapping/route.ts`) | nothing between requests: a sealed receipt with an expiry carries the proposal | propose, replay under a receipt | budget, configured provider, page |
| Configured provider (`packages/ai-harness`) | one attempt | send, read a bounded body, race a deadline, validate | a model endpoint |
| Source ingestion, canonicalization, rules, cases, grades, bundles (`packages/replay-engine`, `packages/canonical-kernel`, `packages/contracts`) | none: pure functions over artifacts, approvals and stored rows, all of which change between two calls | read a table, map rows, canonicalize events, evaluate rules, profile a dataset, grade a sentence, assemble and verify a bundle | replay route, evidence store |
| Instrument resolver and claim coverage (`packages/instrument-resolver`, `replay-engine/src/claim-coverage.ts`) | none: a listing, quote bindings and published datasets that grow | resolve a name on a day, find the rows that can check a claim | contracts |
| Mapping output validator (`packages/ai-harness`) | none | gate an answer by header or by column identifier; answer from fixtures | configured provider, approval |
| Evaluation protocols (`packages/evals`) | session directories of records and receipts | run, receipt, read back, compare two stacks | provider, git, the file system |
| Scorers, selection, routing study | none: recorded runs, a protocol | score, rank, select a primary and an escalation, replay routes, estimate | protocols |
| Mapping baselines | a vocabulary authored once | author from DEV labels, answer from names and samples | scorers |
| Study corpus | briefs, generated inputs and gold, an independent review | generate, drift, preflight, carry the review forward, bind to files | scorers |
| Web presentation, scripts | committed data and rendering | render, generate, verify | everything above |

What is hard in each, and what makes it correct:

* **Budget.** Concurrent functions, a lost or late message, a timeout that fires
  while the script still runs, two clocks that cross midnight KST at different
  moments. Correct when no day sees more calls than its cap, no visitor more
  requests than theirs, every refusal says something true, and every reservation
  settles.
* **Store.** Several processes, death between any two statements, a writer that
  stalls, a wall clock set back, damaged bytes, an origin that returns to old
  bytes. Correct when each origin has one immutable chain, what belongs together
  is committed together, and a stored result resolves to exactly the bytes it
  was computed from.
* **Page.** Everything that is awaited may end after the reviewer has moved on,
  or after a redeployment. Correct when approvals and results on the screen are
  of what is on the screen, a comparison compares like with like, and no
  indicator is left on.
* **Walkthrough.** An approval is recorded after the visitor went elsewhere; what
  opened a scene is withdrawn while it is shown; the mode changes with work in
  flight. Correct when a scene's ground stands, nobody is moved who chose
  otherwise, every scene but the last has a way on, and only the worked case is
  ever shown.
* **Route.** Every gate asks a state machine for a move and every refusal must
  fit a response schema that lists codes per state; a mismatch is an HTTP 500.
  Correct when results are earned, refusals name a stage really at fault, and no
  request throws.
* **Provider.** A deadline races a transport that may be deaf to it; an answer may
  be late, cut off, huge, broken or hold a secret; the same output is weighed in
  one form and kept in another. Correct when the answer is given once and in
  time, says what happened, keeps nothing secret, and can be recorded.
* **Engine.** The same events arrive in any order, more than once, in other bytes
  and time zones; numbers are written differently and shown truncated; a contract
  recomputes what the engine computed. Correct when a verdict depends on the
  numbers and on nothing else, and is one its own contract admits.
* **Grades, bundles, cases, claims.** What was declared is verified later, against
  rows, registries and bytes that have changed. Correct when what is granted is
  granted by what is there now.
* **Validator, ingestion.** Two implementations, two formats, two ways to name a
  column. Correct when what one accepts the next can run, row by row.
* **Protocols.** A run dies between two files, files are copied, edited and
  committed between a run and its reading. Correct when what is read as evidence
  is all of one session.
* **Scores, routes, intervals.** Missing and repeated runs, small denominators,
  deadlines, ties and quantiles. Correct when nothing that was not asked, answered
  and in time counts for a model, and an interval is the one it is named for.
* **Corpus.** Generation is repeated, files are edited by hand, a review outlives
  what it read. Correct when labels follow from bytes and a verdict stays with
  what it was given on.

The full list of hazards, each at its line with the properties that watch it, is
`hazards` in `PROJECT.json`.

## 2. Modules

| Module | What it is |
| --- | --- |
| `DailyCallCap` | abstract: at most so many calls a day, and days only go forward |
| `PublicModelBudget`, `MCPublicModelBudget` | the budget, and its instance |
| `PublicModelBudgetProofs` | theorems about the budget |
| `EvidenceHistory` | abstract: per origin a growing list of bytes in which no two neighbours are equal, and conclusions drawn only from places that exist |
| `SnapshotStore`, `MCSnapshotStore` | the store and `collectPublicSource`, and their instances |
| `SnapshotStoreProofs` | theorems about the store |
| `ReviewLadder` | abstract: approvals and result come one rung at a time and fall from any |
| `CaseReplay`, `MCCaseReplay` | the page and the two routes as it sees them |
| `CaseReplayProofs` | theorems about the page |
| `GuidedTour`, `MCGuidedTour` | the walkthrough over the same hook, and the change of mode |
| `GuidedTourProofs` | theorems about the walkthrough, over those about the page |
| `MappingAttempt`, `MCMappingAttempt` | one call of a configured provider and what its caller makes of the answer |
| `MappingAttemptProofs` | theorems about the call |
| `ReplayRoute`, `MCReplayRoute` | one request through the replay route |
| `ReplayRouteProofs` | theorems about the route |
| `EventTime` | civil times, instants and UTC |
| `Canonicalize` | from collected records to canonical events and a hash |
| `RapidPriceLift`, `SessionReversal` | the two rules, the first with the exact decimals it compares |
| `Checks` | a list of checks: the first reason that is given, or all of them |
| `ApplyMapping` | the mapping contracts and the application of a mapping to rows |
| `SourceIngest` | a table read in two formats under a mapping |
| `MappingValidator` | the gate of a model's answer, and the fixture provider |
| `CaseProfile` | a case against the profile of its dataset |
| `ClaimScope` | a name on a day, and the rows that can check a claim about it |
| `EvidenceGrade`, `EvidenceBundle` | graded sentences and bundles over a world that changes |
| `MCReplayEngine` | `EventTime`, `Canonicalize`, `MappingValidator`, `CaseProfile`, `EvidenceGrade` and `EvidenceBundle`, and instances of the four others of these modules that have a state |
| `HeldOutSession` | receipted sessions on disk |
| `HeldOutSessionProofs` | theorems about the sessions |
| `MappingScorer`, `MappingSelection` | scores of a grid, eligibility, and the decisions taken from them |
| `Baselines` | the two reference mappers |
| `MCEvaluation` | `HeldOutSession` and `Baselines`, and an instance of `MappingSelection` |
| `StudyRouting`, `StudyAnalysis` | the routing study, its scores and its intervals |
| `StudyCorpus`, `CorpusFiles` | the corpus of the study as operators, and its files over time |
| `MCStudy` | instances of `StudyRouting`, `StudyAnalysis` and `CorpusFiles` |
| `PartsProofs` | theorems about `EventTime`, `Canonicalize`, `MappingValidator`, `CaseProfile`, `EvidenceGrade`, `EvidenceBundle` and `Baselines` |

### PublicModelBudget

`runPublicModelRequest` is cut where it awaits. `Refuse` is every throw before
the reservation (platform, header, secret, limits); `Reserve` reads the day once
and sends the EVAL. The script is the single action `StoreEval`, since Redis
runs it atomically; it may run after its caller gave up (`StoreUnavailable`, the
three-second timeout, an HTTP error or an answer that does not parse) or never
(`LoseReservation`). `DecisionArrives` is the continuation with its expiry
check; `CallModel` and `BlockCall` are the wrapper handed to the operation,
`Finish` its end. Time is a day number on each side, because the code compares
instants only with the two ends of a day; `AppDayPasses` and `StoreDayPasses`
move the clocks independently, never more than one day apart. `EXAT` is the
clearing of the ended day's counters. `charged` and `calls` are history.

### SnapshotStore

One connection per process. `BEGIN IMMEDIATE` is `Begin`, which takes the write
lock and a working copy; each statement is an action on the copy; `Commit`
publishes it and `Rollback` drops it. `Crash` may come at any step and
`CrashAfterCommit` separates durability from the caller learning of it. A fetch
is `Collect` (permission checked), `Serve` (the publisher answers), `Arrive`
(`retrievedAt` is read, the schema compares it with the review again).
`resolveDerivedResult` reads outside any transaction, one input at a time. A
SHA-256 is the value it hashes; a snapshot's identity is the number of its row,
with the collision of identities kept as the trigger that would refuse it (a part
of `ChainIsSound`). `Rot` damages bytes on the disk.

The order of an origin's chain is the order of storing. Two collections that
overlap may be stored in the other order than the publisher served them; the
model allows it, the documentation calls the chain a snapshot history and not a
log of fetches (`docs/SERVICE_SNAPSHOTS.md`), and no property forbids it. No code path updates or
deletes a stored row, so the triggers that would refuse it are not modelled:
`RecordsNeverChange` is of what the store's own calls and a damaged disk do.

### CaseReplay

One handler of `useCaseReplay` up to its first `await` is one action; the
continuation is another, on a *task*. The code compares a generation number
with the number it took; the only thing that comparison can tell is whether
`invalidateResult` ran in between, so a task carries `live` and
`invalidateResult` clears it. `IgnoreAnswer` is the early return. The server is
`AnswerMapping` and `AnswerReplay`, with `FetchFails`, `ReceiptsLapse` and
`Deploy` (another engine, another provider mode) around them; `pageMode` is the
mode when the page was rendered, which is all the page knows.

Today's catalog offers reviewers no source that a configured provider may map:
the two eligible dialects are engine regressions. The hook receives its sources
as props and `replay-lifecycle.test.ts` exercises it with an eligible one, as
the instance does. `RowsUnder` is what the rows of a scenario come to under a proposal,
as the route finds it after the approvals: a mapping that cannot be executed, a row that
becomes no event, events of one identity that differ, events other than the case was
declared for, or a replay. The committed fixtures replay, which the repository's tests
show; a provider's draft may do any of it. A deployment that changes the committed fixture proposals is
not modelled. Two identical stale tasks merge into one, which is harmless:
either is ignored.

### GuidedTour

Extends `CaseReplay` and composes with it: each step is a handler of the hook
with what the walkthrough does around it. `scene` and `advance` are the state and
the reference of `GuidedTourView`; `ChooseScene`, `Back`, `onContinue` are the
navigation; `ApproveMappingHere`, `ApproveCaseHere`, `RunHere` are the one action
a scene offers while it cannot be continued, `RepeatHere` the optional second
run. The effect that advances runs before the next event, so `Advances` is part
of the step that records the approval. `SwitchToGuided` includes
`restoreWorkedCase`, as the effect of `ReplaySurface` calls it; a walkthrough
that is mounted starts at its first scene. `left` and `disputed` are history.

*Finding.* ADR 0019 says that a mismatch of the repeat retains its baseline and
blocks progress until a matching retry. `MismatchBlocksProgress` states that, and
the run `guided_tour_mismatch` refutes it: the engine is replaced between two
runs, the repeat disagrees, the scene then offers its primary run button, which
is no repeat and drops the baseline, and one more run opens the evidence. What
the code does promise is part of `TourIsSafe` (`SceneIsReached`): whatever
comparison is on the screen agrees.

### MappingAttempt

`generate` starts `receive` and races it against a deadline. `Send`, `Respond`,
`RespondWithoutBody`, `ChunkArrives`, `StreamFails` and `BodyEnds` are `receive`
between its awaits; `Settle` is its end: the answer if it is the first of the
two, dropped otherwise. `Throw` is the catch of `generate`, which classes by
`signal.aborted`; `Return` takes the observations of the moment, since the
attempt is assembled when the race is decided. `Deadline` raises the signal: the
deadline's own listener was added first and answers, the reader's cancels the
body. `CutShort` is the read that a cancelled reader ends early, after the
answer. `Judge`, `Verdict` and `Retainable` are the outcome classes; `Record` is
`runConfiguredMapping`, whose schema parse throws on an attempt that does not fit
(`FitsRecord`), `Propose` the web's `propose`. `RefuseInput` is everything
refused before a request is spent.

A body is its size and what the code can tell of its text; an output one of six
shapes with its size in bytes. Sizes are those of real answers: for thirty-two
columns with headers of ten letters the column IDs cost 544 bytes, the headers
896, the proposal around them 187, the envelope 676, and one output is 64,847
bytes.

*Finding.* ADR 0058 says that output of excess size is recorded as null with coded
reasons. With column IDs an output is weighed under its headers (`BODY_TOO_LARGE`
above 65,536 bytes) but kept under column IDs with the headers beside them, which is
longer. An output between the two passes the validator, and the record's own schema
then throws, so the spent request leaves no record. The run
`mapping_attempt_column_ids` shows it; with headers alone `EveryAttemptIsRecorded`
holds, and is proved.

### ReplayRoute

A request is kept as what the gates can tell of it: for each row whether it is
of the committed artifact, its number, and whether its values are the committed
ones, altered, or incomplete; for approvals the decision, whether the hash
matches, and the overrides; for a proposal which fields it flags, whether it is
executable, applies, and yields events without conflict. `Gates` lists the gates
in the order of the code, `Issues` what each finds, `ReviewState` where it sends
the request. `Refuse`, `Pass`, `ReplayFoundation` and `Replay` are the four ways
on; a move that is not in `WORKFLOW_TRANSITIONS`, or a code the response schema
does not admit in that state, is `InternalError`. The run shows that branch is
never taken; a mutant of the schema shows it would be.

The mutation is left out: `duplicate` repeats an event that canonicalization
drops again. Issue paths and messages are left out.

### The engine: EventTime, Canonicalize, RapidPriceLift, SessionReversal

The code's functions are operators with the code's names; the state is the input
as it grows, so that every prefix of every input is evaluated and a property may
relate what two neighbouring inputs give. `EventTime` keeps an instant in three
digits because TLC's integers are of 32 bits and the code's are not. A record of
`Canonicalize` is what the code compares of it: texts that are only ordered are
numbers in their order, and a sequence keeps its leading zeros, which count in a
hash and not in the order. What the code finds by sorting is stated as what a sort
must give: the representative of a group is one that no other precedes, and the
place of an event in the output is one more than the number of events before it.
That this is a list at all, with every place taken once, is not by construction: it
takes that no two events that stay have one place in the order, and is proved. `RapidPriceLift` keeps a decimal as it is written (a
coefficient and a scale), since the code must not tell two writings apart;
`WritingDoesNotMatter` says so. `SessionReversal` models the engine and the
contract that parses its verdict apart, each from its own source, and
`ContractAccepts` sets one against the other.

### Ingestion and the gate: ApplyMapping, SourceIngest, MappingValidator

`ApplyMapping` is the contract of a mapping in its five versions, the transforms and
the application to rows; it is shared by the ingestion, the validator and the study's
corpus, as in the code. A cell is the kind of its text
(a day, a clock, an epoch, a decimal as written, a text of tokens), which is what
a transform tells apart; the upper case of a text is a table of the tokens that are
written in lower case. The transforms that lose something are not one to one: two rows
whose identities differ in case alone are approved under `UPPERCASE` with one identity,
and `EveryRowIsOneEvent` says exactly that (what becomes of the two events is
`Canonicalize`'s to decide). `SourceIngest` writes one table as CSV and as JSON Lines,
with the encodings, and edits cells and mapping before it is read.
`MappingValidator` edits a good answer under both naming schemes;
`ValidIsExecutable` sends what the gate passes through `ApplyMapping`. Each loop of the
gate is a list of reasons whose first is taken, in the order of the fields. A fixture's
answer is parsed by the contract before it is given, and is `Null` where the code throws.

### What is declared and verified later: CaseProfile, ClaimScope, EvidenceGrade, EvidenceBundle

Each has an actor that declares (a case, a claim, a sentence, a bundle) and a world
that moves before it is verified: events arrive, instruments are renamed and
published, rows are corrected and ingested again, bytes rot, a bundle is edited and
its hash computed again. Verification is not an action: the properties quantify
over verifying in every state. A hash is what it hashes, so an edit that leaves a
hash behind shows, and one that computes it again must be caught by what the hash
is of. `ClaimScope` composes the resolver with the coverage of a claim.

### Evaluation: HeldOutSession, MappingScorer, MappingSelection, Baselines

`HeldOutSession` writes one file per step, with a crash possible between any two;
`StartGate` and `OpenAfter` are the two halves of a gate run, whose session is
checked against the checkout. `Copy`, `Delete` and `EditRecord` are a person's;
nobody forges a receipt. `Selectable` and `Comparable` are the readers' checks.
`MappingScorer` counts over runs that came out as an outcome of a small set or are
missing; the decisions over the counts are `MappingSelection`, and the conditions
they share with the study are in `MappingScorer`. The scorer counts a column that is
dropped without asking anyone only where the answer names the column once
(`mapping-scorer.ts` 325-336). An answer that names it again is refused by the gate and
kept as `OUTPUT_CONTRACT`, and five such answers in a hundred are tolerated: what a
chosen model promises of dropped columns is said with that exception, here
(`SelectedIsSafe`) and in the study (`StudySelectionIsSafe`). `Baselines` authors both reference
mappers from a growing set of labels and asks them about inputs that grow column by
column. A name is what the two normalizations make of it.

### The study: StudyRouting, StudyAnalysis, StudyCorpus, CorpusFiles

`StudyRouting` records any outcome in any slot of a protocol, hands in any route, and
then asks what the scorer refuses and what its summary says of the rest. A recorded
answer is validated again and its reasons compared; a reason is its code without the
place in the answer, and a transform that does not fit its target is one that does not
run.
`StudyAnalysis` makes the sampler's hash stream any sequence of choices.
`StudyCorpus` generates inputs, gold and drift follow-ups from briefs;
`CorpusFiles` rewrites briefs (`Rewrite`), declares (`Declare`), and edits files by
hand (`EditGold`, `EditInput`, `EditVerdict`, `EditRelation`, `Move`), and states what
preflight, the study's loader and the review carried forward promise of each. The loader
validates the gold itself; the accepted alternatives are tried by the preflight alone.
A corpus whose `d-047` holds `B` and `S` binds although its alternative reads neither,
so `BoundIsWhole` claims equal events of the alternatives the cells bear out.

## 3. Runs

A property that is a conjunction has its parts named in the module, each with a
comment of its own.

| Run | Instance | What it shows |
| --- | --- | --- |
| `budget` | 3 requests, 2 visitors, one of them twice; limits 1 and 2, calls 1 and 2; two days | caps, true denials, expired keys stay gone, reservations settle, refinement of `DailyCallCap` |
| `snapshot_store` | 2 processes, 1 origin, 2 contents, 3 instants with the review in the middle, up to 4 rows | `ChainIsSound`: the chain is linear, permitted, no identity twice; records never change |
| `snapshot_results` | 2 processes, 2 origins, 1 result of up to 2 inputs, right or wrong | `ResultsAreSound`: atomicity, resolvable results, verified reads; refinement of `EvidenceHistory`; every call ends |
| `case_replay` | 2 sources (one with a case, one to be mapped), 2 drafts whose rows replay and one whose rows conflict, 2 orders, 1 redeployment, 2 tasks | `ApprovalsStand`, `ResultsAnswerThePage`, `PageIsInStep`, refinement of `ReviewLadder`; indicators stop |
| `guided_tour` | the worked case and a source to be mapped, 1 draft, 2 orders, 1 redeployment, 2 tasks, both modes | `TourIsSafe`: scenes keep their ground, show the worked case only, and lead on (`NoDeadEnd`); no unasked move |
| `guided_tour_mismatch` | the same | expected violation: see the finding above |
| `mapping_attempt` | columns named by headers; outputs of 4,000, 64,847 and 70,000 bytes, chunks that end at 1 byte, at the limit or one above it; all shapes, statuses, replies and both callers | `AnswersAreHonest`: truthful classes, nothing secret; one answer that stands, every request recorded, every call ends |
| `mapping_attempt_column_ids` | the same with column IDs | expected violation: see the finding above |
| `replay_route` | all row sequences up to 3 over 2 declared rows, all proposals, approvals and manifests | `ResponseIsHonest`: results earned, refusals honest; no 500 |
| `replay_engine` | ten parts, below | what the engine computes, one property to a part |
| `evaluation` | three parts, below | what an evaluation may conclude |
| `study` | three parts, below | what the mapping study reports |

The functions of the engine and of the evaluation share no state with each other, so
three runs check them side by side: the variable `part`, chosen once at the start, says
which of them a behaviour is of. A module that is instantiated has its variables at
`Null` in the behaviours of the other parts, and the property of that name in the MC
module is its property for the behaviours of its own. A module about which there are
theorems is extended instead (`EventTime`, `Canonicalize`, `MappingValidator`,
`CaseProfile`, `EvidenceGrade`, `EvidenceBundle`; `HeldOutSession`, `Baselines`), so that
the run checks the very property that is proved and evaluates the assumptions the proof
takes; outside its part its variables stand still, as at first or, for the calendar, the
gate and the baselines, at one day, with no columns and with no labels.

| Run and part | Instance | Property |
| --- | --- | --- |
| `replay_engine`, calendar | spans of 430 days from the start of 9 years around leap years, centuries, the epoch and the end of the years; 3 clocks, 3 offsets | `TimesAreExact`: day numbers, dates and UTC are each other's |
| batch | all sequences up to 3 of 20 records of two sources with their duplicates and conflicts | `ReplayIsDeterministic`: order, repeats and writing decide nothing |
| ingest | five tables, one per kind of mapping, two edits of cells, columns, encoding or mapping | `IngestIsFaithful`: a row becomes the one event its columns say, in both formats; only the case of an identity may be lost, where its mapping asks for upper case |
| gate | eleven inputs, one good answer, two edits | `GateIsSound`: what passes can be approved and run, under either naming |
| case | up to 3 of 4 events at local times that their instants reverse; 144 manifests | `CaseFitsItsDataset`: what is accepted is of the very events declared, in any order of arrival |
| lift | all days of up to 4 of 9 trades, two rules | `VerdictIsOfTheNumbers`: not of their writing or their rounding |
| reversal | up to 4 of 10 daily quotes of two legs, both versions, several denominators | `ReversalVerdictHolds`: the contract, the rank, the versions |
| grade | two rows of two values, a document of three tokens, two changes of the world | `GradeIsEarned`: a grade follows from the bytes and rows of the moment |
| bundle | every pair of artifacts, approvals and case; two edits | `BundleIsHonest`: what verifies is what its sources and approvals give |
| scope | up to 5 entries of listings, bindings, datasets and definitions; two names, three days | `ScopeIsExact`: one bearer or nobody, and a ready claim has its rows |
| `evaluation`, sessions | two models held out, one on DEV, one dialect each; two runs, two commits, one edit by hand | `EvidenceIsOfOneRun`: all the answers of one session |
| selection | two models and the baseline, seven dialects, three repeats, two stacks; thirteen outcomes in four cells | `SelectionIsEarned`: every condition over every answer asked for |
| baselines | six names, four labels, one rule; two labels and two columns more | `BaselinesNeverGuess`: answers without a choice, in any order of columns |
| `study`, routing | two models, two dialects of two families, fifteen outcomes, live and replayed routes; a selection over ten repeats, the first still to come | `ScoresAreHonest`: claims are of answers recorded, bound and in time |
| analysis | six families of pairs, five draws, three tails | `IntervalsAreExact`: ranks, strata and rounding |
| corpus | two families and a drifting one, orders and drifts, one edit | `CorpusIsHonest`: labels follow from bytes, a verdict stays with what was read |

**Bounds.** The budget's limits are met and exceeded with three requests, and
two calls against a counter one below its limit are among them; two days give
every order of the two midnights and the reservations. In the store two
processes suffice for a race on one lock; two contents let an origin change,
change back and be recollected; rows are bounded by `MaxRows` collections begun
plus one per process under way. On the page two tasks in flight are the live one
and a stale one, which is every case the generation check tells apart, and two
row orders make a shuffle differ from its repeat. On the route three rows over
two declared numbers and one foreign number give every combination of missing,
duplicated, foreign, altered and partial. For a provider call one size lies
below every limit, one passes by itself but not with what a record adds, one is
above; a chunk may stop at, or one above, the bound of a body.

For the engine a bound is the least number of inputs that a comparison needs: three
records make two duplicates and a stranger; four trades make a first and a last
price, two actors and one to remove; four quotes a ranked day, its population and a
second leg. `MaxEdits` (`MaxChanges`, `MaxTampers`, `MaxAlterations`) is the number of hand edits:
two where one edit can hide another (an edit and its hash computed again, a cell and
the field that reads it), one where each is checked by itself. `ReportedDigits`,
`BasisPoints` and `ReportedScale` are smaller than the code's, to keep exact ratios
within TLC's integers; the code's comparisons do not depend on their value, and
truncation already occurs with one digit. Among the selections seven dialects and
three repeats are twenty-one runs, so that one rejected answer lies within 95 in
100 and two do not; the study selects from twenty runs to a model, nineteen of which
must be valid, and all but the first repeat are recorded at the start (`Already`).

**Deadlock** is checked except where the system really stops: all requests of
`budget` end on the last day, a request of `replay_route` is answered, and the
inputs of the engine, the evaluation and the study end at their bound.

**Fairness.** Budget: `AbortSignal.timeout(3000)` makes the reservation end, and an
operation ends, since the provider has its own deadline; neither the message nor the
clocks are fair. Store: a call that has begun goes on (`WF(CallStep(p))`), because
every wait in it is bounded, the fetch by thirty seconds and the lock by
`busy_timeout`; crashes, publishers and new calls are not fair. `CallsEnd` is
checked with it in `snapshot_results`. Page: what is awaited ends (a digest, or a
browser fetch, which settles or fails), and with it `SpinnersStop` of `case_replay`;
the reviewer and the operator owe nothing. The walkthrough's properties are of
safety and assume nothing. Provider: only the timer and the caller's continuation
are fair; the endpoint may stay silent for ever. The other modules state safety
only: their code starts nothing that has to end by itself.

**Mutants.** Each property is paired in `PROJECT.json` with a plausible bug
(`Mutant of ...` in the modules) that breaks it.

## 4. Theorems

`PublicModelBudgetProofs` proves, for every finite set of requests, every
assignment of visitors and calls, all positive limits and any number of days:
`TypeOK`, `GlobalCap` and `VisitorCap` (`CallCaps`), `DenialsAreTrue`,
`ExpiredCountersStayGone`, and that `Spec` implements `DailyCallCap`. The only
assumption is `BudgetAssumption`, which TLC evaluates in the run.

`GlobalCap` is not inductive: it counts calls made, while the store counts slots
charged, for one day only, and forgets them at midnight. The invariant `IInv`
ties the three together. `ChargedIffAllowed` and `RequestsInOrder` say where a
request stands; `CallsAreCharged` puts every call in a slot its request was
charged for, on the day of the reservation; `GlobalAccounts` and
`VisitorAccounts` say the store's keys count exactly what was charged on the
store's own day, are absent on all others, and that no day is charged over its
limit. A late reservation is harmless because it is charged only when its day is
the store's (`ScriptInDay`), and a late answer because nothing is called after
the day (`Expired`). The counting steps rest on two lemmas (`ChargedSlotsGrow`,
`ChargedByGrows`); the cap then follows by an injection of calls into slots.

`DenialsAreTrue` needs one more step. A visitor reads of a limit long after the
script judged it, when the store may have forgotten the day's counters, so the
theorem is about what was charged and not about the counters. `LimitReplies` says
that such a denial repeats an answer of the script, and that the answer is still
true: it was true when it was given (`AnswersAreSoAtFirst`, where the counters are
the charges by `IInv`), its day is fixed once it is given (`AnswerOrigin`), and no
step takes a charge back (`ChargesOnlyGrow`).

`ReplayRouteProofs` proves the properties of the replay route
(`ResponseIsHonest`, `NeverInternalError`), its types, and that the
response names the state of the workflow (`ResponseTellsWorkflow`), for any
artifact, any set of row numbers a request may name, any fields and any set of
requests, from `ReplayRouteAssumption` (the committed rows are among the numbers,
what is sent are requests) and `NoResponseIsNull`. The invariant `RInv` adds two
facts to what the run checks. `PassedAreClear`: every gate before the next one
found nothing. `StateFollowsGate`: how far a request has come fixes the state of
its workflow, so the move the next gate asks for is legal (`LegalMoves`). The
lemmas `MappingGatesSay`, `InputGatesSay` and `CaseGatesSay` say that the gates
of a stage find nothing exactly where the stage, described without gates, stands;
`CodesFitTheirState` that what a gate finds fits the contract of the state it
refuses into.

`MappingAttemptProofs` proves the safety of a call for both ways of naming columns,
any limit, any sizes and any chunks, from `AttemptAssumption` (sizes are natural
numbers and an output is at least as long as the IDs in it) and `NullIsNoValue`;
and, for columns named by headers, that every spent request is recorded.
`AnswersAreHonest` and `AnswerStands` follow from one invariant. `AInv` adds to the
checked properties that there is an answer exactly when the deadline has passed or
`receive` has ended (`AnsweredOnce`), that nothing of an envelope is noted before
then (`NotedAtEnd`), that a body is read only of a response whose status was noted,
by a reader only the deadline takes away (`ReadingHasResponse`), and that an answer
is `Sound` but for the deadline's (`AnswerIsSound`). `JudgeIsSound` and
`InterpretedIsSound` carry the case analysis of the outcome classes; `SettleKeeps`
says that `receive` may end with any sound result, first or second, and every action
that ends it cites that lemma.

`SnapshotStoreProofs` proves the store's properties (`ChainIsSound`, `ResultsAreSound`,
`RecordsNeverChange`) and the refinement of `EvidenceHistory`, for any number of
processes, origins, instants and rows, from `StoreAssumption` (processes and contents
are finitely many, and there is more than one content) and `OfferedAssumption`. None
of the checked properties speaks of a transaction under way, so none is inductive. The
invariant `SInv` says what a working copy can be. Only the holder of the lock has one
(`CallsInStep`), and it is the committed database with what the statements executed so
far may have added (`WorkIsKnown`): of an opening, the schema; of a collection,
nothing, its bytes, or its bytes and a row that continues its origin's latest
(`Continues`); of a result, nothing or the result with a binding for each input
examined. Since the lock was held while the latest row was read, `Continues` still
holds at the commit, and that is the whole argument against a fork. `ResolvingStored`
and `ReadsResolvable` cover the reader, which holds no lock: rows and results are
never taken back, so a result once seen stays resolvable. The refinement reads an
origin's history off the rows; the lemmas about `RowsIn` and `PlaceIn` say that
appending one origin's row lengthens its history by one and moves no place.

`CaseReplayProofs` proves `ApprovalsStand`, `ResultsAnswerThePage`, `PageIsInStep` and
the refinement of `ReviewLadder` for any scenarios, proposals, reasons, orders and
engines and any number of tasks, from `CaseReplayAssumption` (the committed fixtures
replay their committed rows) and `NullAssumption` (`Null` is no value of the others).
A provider's draft may be one under which the rows cannot be mapped, conflict or are not
the case's (`RowsUnder`); `PageIsInStep` says that the route refuses what the page
composed for that or for a receipt alone, and names the input or the case only where it
is at fault. The invariant `CInv` is about tasks. `LiveTasksFit`:
a task that is still live finds the page as it left it, in what its end depends on,
an approval the proposal and reasons it digests, a run the very rows and approvals it
sent; and `TasksAreWhole`: what the server answers is of what the task asked, whether
or not anyone still waits. `OneTaskIsLive` and `SpinnersAgree` tie the indicators to
tasks. Every handler that would falsify `LiveTasksFit` runs `invalidateResult`, and
the proof has to say so of each one.

`GuidedTourProofs` proves that the walkthrough implements the page
(`TourIsOfThePage`: `TourSpec => Spec`), so all of the above holds in both modes, and
`TourIsSafe` and `MovedOnlyIfStayed`. `TInv` adds that in guided mode the page keeps to
the worked case, its committed rows and its fixture mapping (`TourKeepsToCase`).
`NoDeadEnd` is part of `TourIsSafe` and needs `WorkedCaseAssumption` (the worked case
has a manifest, is mapped by no provider, and its mapping flags nothing): where nothing
live is under way the handlers behind the scene's button refuse nothing
(`SceneLeadsOn`).

`HeldOutSessionProofs` proves `EvidenceIsOfOneRun` for any models, dialects and
repeats, any number of commands, crashes, commits and hand edits, from
`GridAssumption` (nothing is empty). `HInv` says that files are genuine wherever they
lie (`FilesAreGenuine`): a receipt is of a call its session made, a session file of a
session that was begun. That the accepted records are all the answers of the session
is then a matter of counting: as many records as cells, each with a receipt of its
own, are all of them (`WholeIsAll`, by the bijection of `EqualTallies`).

`PartsProofs` proves the properties of eight of the parts that are checked side by
side. `CaseFitsItsDataset` takes `CaseAssumption` (an event has its fields, times are
numbers, manifests are of version 1.3 or 1.4): the profile has an earliest and a latest
event because a finite set of numbers has (`FiniteHasLeast`), and it is of the set of
events and not of their list (`ProfileIsOfTheSet`). `GradeIsEarned` takes none, for any
rows, values and number of changes: verification passes only if every check does
(`FirstOfNone`), and the reference in a sentence is still to the rows its author saw
(`GradeInv`). `BaselinesNeverGuess` takes `BaselineAssumption` (labels and rules are
finitely many, and a name that the first normalization reads has the same key in the
second, as `lexicalKey` and `strongNameKey` give it for names of up to 256
characters): an answer that is offered is the only one (`OfferIsTheAnswer`), a
contested target is answered by nobody (`UncontestedStands`), and turning the columns
round turns the answers round (`UncontestedTurned`).

`BundleIsHonest` takes `BundleAssumption` (two artifacts have no bytes in common, and
what a replay gives is something), for any artifacts and approvals and any number of
edits. `BundleInv` says what an edit leaves alone: the bytes declared are those of the
assembly, and a bundle nobody edited is the assembled one. Verification is then two
facts about assembly. Sources of distinct bytes are found by their bytes, in either
order, so what was assembled is assembled again (`AssembledAgain`); and what verifies is
what assembly makes of the artifact supplied (`VerifiedIsRecomputed`), which declares no
more than the approvals earn (`AssembledEarns`).

`GateIsSound` takes `GateAssumption` (inputs and answers are lists, a change of a field
is not of the column it names, and `Null` is no header, target or type), for any inputs,
fixtures and changes. `GateInv` is the type of an answer under edits. What version 2
passes names every column of the input in their order (`PassedInOrder`): the headers of
an input that passes differ, as many as there are (`DistinctMembers`), so an answer by
header is one by identifier and version 3 passes it too (`PassedById`). `PassedRuns`
reads the events off the dry run, and `UnknownIsAnswered` shows that the contract parses
whatever the fixture answers of an artifact it does not know.

`TimesAreExact` takes `CalendarAssumption` (the first days are dates, and the parts of
clocks and offsets are natural numbers), and is of any
day a calendar may reach rather than of the spans of the run. The arithmetic divides by
the lengths of eras, years and months; the proof replaces each quotient by the two
inequalities that define it (`EraSplits`, `DatePlace`, `CivilOfPlace`), so that a day
number and its date are each other's, and then carries an instant through its offset
(`UtcIsTheInstant`).

`ReplayIsDeterministic` takes `RecordsAssumption` (records have their fields, ordered
ones are numbers, a sequence is `Null` or a number with its zeros), for any number of
records. Three arguments meet in it. What is refused and what is kept depends on the
*set* of the records and on nothing of their writing (`ChecksReadProjections`,
`RepresentativesProject`): two records that no comparison tells apart agree in all
that is hashed (`OrderIsNothingOfAnswer`). Records that stay differ in the identifier
that ends every comparison (`IdentifiersDiffer`), so `Before` is a strict total order
of them, the one the code's comparator computes (`BeforeIsCompare`). And in a finite
set with such an order the number of predecessors takes every place exactly once
(`PlacesAreTaken`), so that the sorted list exists, is the only one, and sorting its
own output changes nothing (`OnceMore`).

`ScopeIsExact` takes `ScopeAssumption` (instruments, bindings and datasets are lists
and records as their contracts parse them, dates and the places of texts are numbers,
and two bindings of one canonical JSON are of one dataset and instrument), for any
registry that grows in any order. Filtering and sorting are one operator, `InOrder`,
which gives each kept place the number of those that come before it. Every place is
taken (`InOrderMembers`, by `PlacesAreTaken`), so that a filter keeps what passes it
(`KeptMembers`) and a sort keeps everything (`SortMembers`): the candidates are exactly
the bearers of the name on that day (`CandidatesAre`). Where keys differ, the order does
not tell how the list came (`SameOrder`, `SameSorted`), and a listing or bindings that
are admitted have distinct keys: the answer is of the registry and not of how it is
written (`ListingTurned`, `LinksTurned`, `AnswerTurned`). One more instrument adds
bearers and takes none away, so a resolved name goes to nobody else.

Left to TLC:

* liveness (`ReservationSettles`, `CallsEnd`, `SpinnersStop`, `AttemptEnds`), which is
  out of the prover's reach. `NoDeadEnd` names guards and not what is enabled, and is
  proved;
* what is computed by folds over sequences and sets: both rules and their contract
  (`VerdictIsOfTheNumbers`, `ReversalVerdictHolds`), scores, intervals and the corpus
  (`SelectionIsEarned`, `ScoresAreHonest`, `IntervalsAreExact`, `CorpusIsHonest`).
  What a fold gives for every input is a matter of induction over data;
* `IngestIsFaithful`, whose identifiers are joined by a recursive operator.

## 5. Not modelled, and what is next

Not modelled, with the reason:

* web presentation (wording, translation, styling, the pages around the replay): it
  keeps no state the promise depends on;
* repository scripts and figures: they are run by hand or in CI, and their results
  are committed and compared by the repository's tests;
* the text itself: CSV quoting, JSON syntax and its canonical form under a hash,
  Unicode normalization, the tokens of a name, the wording of prompts and messages;
  each is the outcome the code tells apart;
* of the study: the authored families, artifact receipts and the seal, the overlap
  with earlier material, tag and cell counts of the preflight, and how runs are
  captured from live providers, with their prices; of the older corpora: their
  generators, which wrote what is committed;
* the mapping route composed with the budget and the configured provider: the three
  meet in one call each, and the receipts are part of `CaseReplay`;
* the order of an origin's chain against the publisher's order of answers, see
  `SnapshotStore` above.

Next:

1. `ScoresAreHonest` and `SelectionIsEarned` as far as they are about which runs count,
   apart from what their rates sum up to.
2. `MappingRoute`, composing `MappingAttempt`, `PublicModelBudget` and the receipts.
