# A TLA+ model of agentic-compliance-checker

The program assesses a source repository against a rubric of security controls.
Deterministic scanners collect evidence, one language model (the *Synthesizer*)
drafts a verdict per control, a second one (the *Verifier*) approves or rejects
the draft, and deterministic code has the last word. This directory holds TLA+
modules translated from the code, TLC configurations that check them on small
instances, and TLAPS proofs of the properties that matter most.

Paths below are relative to `src/src/agentic_compliance/`.

## The system

| Component | State it keeps | Operations | Talks to |
|---|---|---|---|
| assessment graph, `graph.py` | `ComplianceState`: controls, index, collection, draft, attempts, notes, verdicts, report | six nodes, two routers, `run_assessment` | collector and LLMs (calls), run log (calls), knowledge base (calls) |
| evidence collector, `evidence_collector.py` | none | `collect_evidence`, `finding_to_evidence` | scanners (calls) |
| run log, `run_log.py` | `artifacts/runs/<run_id>.jsonl` | `log`, `instrument_node` (wraps every node) | the file system |
| knowledge base, `kb.py`, and retriever, `retriever.py` | the Chroma directory, the rubric in memory | `ingest_controls`, `from_persisted`, `search_with_scores`, `get_by_ids` | other processes, through the directory |
| control selection, `control_selection.py` | none | `detect_features`, `build_selection_query`, `select_controls` | retriever (calls), loader (its walk), the assessed tree |
| command line, `cli.py` | the report file, the clone's directory | `assess`, `ingest-controls`, `eval` | everything above; other commands, through `--out` |
| repository loader, `repo_loader.py` | the clone's temporary directory | `validate_repo_url`, `safe_clone`, `iter_repo_files`, `read_file_slice` | git, the file system |
| scanners, `tools.py` | none | `scan_iac_security`, `scan_ci_security`, `scan_secrets`, `read_file_slice` | loader (calls) |
| evaluation, `evaluation.py` | the results of a run | `evaluate_cases`, `compute_metrics`, the gate of `run_eval` | graph, golden set |
| golden set, `golden.py`, `golden_generation.py`, `scripts/generate_golden.py` | `data/golden_set.yaml` | load, label, merge, write | an LLM, human reviewers (through the file) |
| MCP server, `mcp_server.py` | none | forwards five tools | scanners, loader |

A run is sequential: LangGraph executes one node at a time in the caller's
thread. What makes it hard is the *protocol*: two guards that overlap, a retry
loop with a cap tested in two places, per-control state that is cleared in one
node and used in three, an index and an append-only list that must stay aligned,
a step limit that does not know the cap, and exceptions that may come from
either LLM or from the log itself. Concurrency and crashes come in with what lives
outside the process, with nothing to keep its users apart: the knowledge base, a
directory that several processes wipe, fill and read; the golden set, a file that
generators overwrite while a human edits it; the report file of `--out`; and the
log file, which is what is left of a run that was killed. The scanners are pure
functions, but each is a set of searches with boundaries of its own: blocks,
pairs of lines, texts joined to one, files that are passed over in silence.

What makes each component correct:

* **graph**: no affirmative verdict without evidence, without the Verifier's
  approval, or with a failed scanner; verdicts aligned with the controls; a
  bounded loop that always ends; complete feedback to the Synthesizer; no silent
  downgrade.
* **collector**: evidence is the control's own, none is lost because another
  scanner failed, and "nothing found" is never confused with "could not look".
* **run log**: a true, well-nested record at every moment, which does not change
  what the run returns or raises.
* **knowledge base**: ingest is idempotent, a killed ingest is repaired by the
  next one, and a search finds what the last ingest stored.
* **evaluation**: every verified case counts once and with its own verdict, and
  neither a failure nor the choice of cases can make the gate pass.
* **loader**: a slice cites the lines that it returns, whatever range is asked
  for, and nothing is read that the walk leaves out.
* **scanners**: a finding cites the lines it is about, a listener is judged by its
  own block, what is called missing is missing, and a file that cannot be read
  hides no other.
* **selection**: features come from files that scanners may read, and every such
  file counts, down to the depth at which the detection stops.
* **golden set**: reviewed cases are not lost without `--force`, a merge keeps the
  fixtures it does not name, the cases of a fixture come from one run, and no
  human's flag ends up on a label that no human has seen.
* **command line**: what can be refused early is, with status 2 and without a
  trace; every command ends; readers of `--out` know whose report they read.

## Modules

| Module | Models | Kind |
|---|---|---|
| `EvidenceCollector` | `collect_evidence` and its records, as operators of a control and the scanners' answers | constant level |
| `ComplianceGraph` | the graph, one action per node; properties | state machine |
| `ComplianceGraphInductive` | the inductive invariant `IInv` and the step budget `StepsUsed` | predicates |
| `ComplianceGraphProofs` | the theorems about the graph, its contract and its run log | TLAPS |
| `AssessmentContract` | what `run_assessment` promises, without graph, loop or guards | abstract specification |
| `ComplianceGraphRefinement` | the refinement mapping from the graph to the contract | refinement |
| `RunLog` | `instrument_node` and the events, around `ComplianceGraph` | composition |
| `KnowledgeBase` | ingest and assessment processes on one Chroma directory | state machine |
| `Evaluation` | `run_eval`: load, assess per fixture, score, gate | state machine |
| `Lists` | the Python list comprehension, which the modules below share | operators |
| `RepoLoader` | the walk and the line slices, as operators of a small repository | constant level |
| `Scanners` | the three scanners, over the files that the walk yields | constant level |
| `ControlSelection` | feature detection and the selection query | constant level |
| `Repository` | one inspection of a repository by loader, scanners and selection; their properties | composition |
| `CommandLine` | `assess` processes from the arguments to the report file | state machine |
| `GoldenSet` | generator processes and a reviewer on one file | state machine |
| `EvidenceCollectorProofs`, `KnowledgeBaseProofs`, `EvaluationProofs`, `RepositoryProofs`, `CommandLineProofs`, `GoldenSetProofs` | the theorems about these modules | TLAPS |
| `ListLemmas` | induction, recursive functions, `Filter`, `FlattenSeq`, sums over finite sets | TLAPS |
| `MC...` | the instances for TLC; `MCClaims` holds statements of the documents that the code does not meet, `MCEvidenceCollector` makes one collection a step and states its properties | |

### EvidenceCollector

A scanner's answer is a set of findings or `Raised`; the scanners themselves are
left open, `Emits[t]` being what scanner `t` may report. `ToolsFor` is the
routing by `scanner_hints`, `Relevant` the two-stage filter, `CollectEvidence`
the function. Lists whose order nobody reads are sets; a compound id such as
`SI-2/RA-5` is the sequence of its parts.

### ComplianceGraph

The variables are the fields of `ComplianceState` plus LangGraph's own: the node
to run next, the number of node invocations, the exception that ended the run.
`Supervisor`, `Collect`, `Synthesize`, `Verify`, `FinalizeControl` and `Final`
are the nodes, each with the edge that follows it, because LangGraph applies a
node's update and routes in one superstep. `Finalized` is the code's
`if`/`elif` over the two guards. `NodeRaises` is a failing LLM call,
`OutOfSteps` is `GraphRecursionError`. `RecursionLimit` is the number of node
invocations a run may use; LangGraph's bookkeeping beyond that is external.

Two variables are observers that no action reads: `prompt`, the last message to
the Synthesizer, and `trail`, what the scanners and the Verifier really
answered for each control. The properties are stated against `trail`, so that
they do not merely compare fields which the graph has filled in itself.

### RunLog

Each call of `logger.log` is a step that appends an event or raises in place of what was in flight. Where a raise goes depends on where the
call stands: `run_start` is outside `run_assessment`'s `try`; `node_start` and
`node_end` are outside the wrapper's `try`; `node_error` is inside its `except`.
A node that logs its own event does so right before it returns, so that the
event and the return value are one step (`LoggingBody`) or both are lost
(`BodyLogFails`). A kill may come between any two steps; what is then on disk is
the log of a reachable state, so no action is needed for it.

### KnowledgeBase

`Load`, `List`, `Unlink`, `OpenToAdd`, `Add` are the stages of `ingest_controls`,
`Check`, `OpenToSearch`, `Search` those of a dynamic assessment; any process may
be killed at any stage, embedding may fail, and an unlink may find the file
gone. Chroma is external: opening creates the file, adding is one transaction
under fresh ids, a search returns any `k` of the documents (ranking is left
out). A controls file is a list in the code, read without a check for ids that it
repeats; here it is the number of its entries for each id, and likewise for the
documents of a store and what a search selects. `disturbed`, `damaged` and `last` are
observers that say which ingests and assessments overlapped, whether one was cut
short, and what the last completed ingest stored. The store's directory is assumed to exist. A search in a store
whose files were removed under it answers from the open store; it might raise
instead, and no property constrains it.

### Evaluation

One action per fixture, since each fixture is one call of the assessment; its
answer is any map from the requested controls to verdicts (or to nothing), an
exception, or a missing directory. Scores and thresholds are integers in units of
`1/Unit`. The instance has `Unit = 100800`, with which every F1 over at most four
cases, and their mean over at most four classes, is exact. `Rounded` is the four
decimals of the report. The gate compares the exact score, and a threshold may have
more than four decimals: a report may show 0.5556 and fail at 0.5556 (5/9 is less), and it
may show 0.3333 and pass at 0.33331 (1/3 is more). `GateIsHonest` says that the score
itself reaches the threshold that was passed, and the score in the report the
threshold cut to four decimals.

### RepoLoader, Scanners, ControlSelection

A repository is a sequence of files. A file is where it lies, what kind of link
it is, and its lines; a line is the set of patterns that match it and the balance
of its braces, since that is all the code asks of a line. So the order of lines,
blocks, pairs and joins is kept, and the regular expressions themselves are not.
A file is *left out* by the walk (denied directory, suffix, size, binary,
link to the outside) or *gone* when it is opened. The scanners pass over both in
silence; a slice is refused with one `ValueError` (`NotAllowed`) for a file that is left out and
with another (`CannotRead`) for one that the walk yields and that cannot be opened.
A file's size is the number of its lines. `ExtractResourceBlocks` is the search
for blocks with its jump behind each one; `InCombined` is the search in the
joined texts of all workflows, where a text without a last newline continues in
the next one's first line; `ScanCiSecurity` gives `Crashed` where the code indexes an
empty list. `Repository` inspects one repository per behaviour, with all three
scanners and the feature detection; `MCRepository` says which ones TLC tries.

List comprehensions are `Filter` of `Lists`, whose condition is a set, and the
balance of braces is a recursive function: facts about both can be proved for
lists of every length, which is not so for operators that take operators.

### CommandLine

One action per check and per effect of `cmd_assess`, in the order of the code:
usage, path or URL, the temporary directory (made before the URL is validated),
the clone with its timeout, the comparison of `--controls` with the rubric, the
assessment (returns a report or raises), opening and writing `--out`. Exit
statuses are the values that `pc` ends with; `"raised"` is an uncaught exception. The file is
blocks that are written one after the other at the writer's own offset. `opener` and
`clean` are observers. A process may be killed anywhere.

### GoldenSet

Each run of the generator is a process: the overwrite check, the long labelling
(`Generate`, whose selection of controls is arbitrary), the merge, and the write in place, which
empties the file first (`Open`, `Write`, `CutShort`). The reviewer verifies
cases and may break or repair the file by hand between any two steps. A case is
its fixture, its control, its number (the end of its id), its flag and the run that wrote
its label. A selection is a list, which names a control twice when the search did. `reviewed`,
`checked`, `merged`, `tangled` are observers: what a human has judged, what the
check and the merge of a run have seen, whether two runs had the file open at a time.

Definitions named `...Defect` (and `FinalizeControlReplaces`,
`FinalizeControlStays`, `HandleWraps`, `HandleFinally`, `PairedWithAll`,
`MergeNothingNew`) are variants of the definition that follows them with a
plausible bug. No specification uses them; they document, for every property, a
bug that the property catches.

## What TLC checks

| Run | Instance | Properties |
|---|---|---|
| `evidence_collector` | five controls, two paths, every subset of seven findings or an exception per scanner | `EvidenceIsTheControls`, `NoEvidenceIsLost`, `NeverSilent` |
| `graph` | two attempts, limit 16, requests: empty, one control, two different ones, one control twice and another three times; weak fairness | `FailClosed`, `VerdictsAlign`, `ReviewLoop`, `FeedbackIsComplete`, `DowngradesAreExplained`, `ReportIsComplete`, `BackstopIsSlack`, `CommitsOnlyReviewed`, `ImplementsContract`, `RunEnds`; `IInv` |
| `run_log` | two attempts, limit 12, any log call may fail | `LogIsTrue`, `LogNests`, `LogTellsOutcome`, `ReliableLogIsTransparent` |
| `knowledge_base` | three ingests of two controls files, one of which lists an id twice, one assessment, top 2 | `IngestIsIdempotent`, `DuplicatesNeedOverlap`, `PeacefulRead` |
| `evaluation` | four golden sets of up to four cases, two fixtures that share a control, thresholds 0, 0.7, 1, one just below 1/3 and one just above 5/9, and invalid ones | `NoCaseIsLost`, `PredictionIsItsOwn`, `GateIsHonest`, `ScoreIsFair` |
| `repository` | some 8,500 repositories of one or two files | `BlocksAreBlocks`, `ListenersAreJudgedAlone`, `CitationsHold`, `AbsenceIsReal`, `FilesAreIndependent`, `CiJudgesEachToolOnce`, `SliceIsCited`, `DetectionMatchesLoader` |
| `golden_set` | two generators, a reviewer, two fixtures and a removed one, `--force`, `--fixture` and `--dry-run`, selections that are empty or name a control twice | `MergeKeeps`, `OneRunPerFixture`, `VerifiedWasReviewed`, `ReviewIsSafe` |
| `command_line` | two commands, 50 command lines each, reports of one or two blocks; weak fairness per process | `FootprintIsKnown`, `ReportIsWhole`, `EveryRunEnds` |

**Bounds.** Two controls are enough for whatever is carried over from one to the
next, three with a limit sized for two show the recursion limit at work; two
attempts give approval at once, approval after a rejection, and exhaustion. The scanners' answers are
sets of one or two findings per scanner: relevant, irrelevant by family,
irrelevant by id, and without an excerpt. Three ingests are
needed for two of them to wipe the store of the first at the same time, which is
when an unlink fails. Assessments change nothing but that one may create an empty
store where an ingest has just removed it. `Len(log)`, `steps` and the trail are
bounded by the recursion limit.

In `repository`, every sequence of up to three or four lines is taken from the
lines that one family of checks looks at (up to two for Dockerfiles): enough for a header, its brace, a
line in it and a line after it, or for a pair in either order with one line between. The
limits are four lines for a file and two for the bounded read of the feature
detection, so that files lie below, at and above both; the depth is the code's
five. One file takes every reason for not being read, two files show that
the neighbour is still scanned, and workflows come in pairs. In `golden_set` the
two runs may be the same, different or nested in every way; they differ in nothing but their
names, so symmetry is sound. In `command_line` a command
line differs from the plain one in at most two arguments, which covers every pair
of checks whose order could matter; two blocks show a torn, a mixed and a
too long file.

**Fairness.** `RunEnds` assumes `WF_vars(Next)`: `compiled.invoke` is a loop in
one thread which goes on as long as a node is scheduled, and each LLM call is
assumed to return or raise. Nothing is assumed about *what* the LLMs answer. The
property speaks of requests whose worst case fits the recursion limit; for the
others, `GraphRecursionError` is a legal end and `FailClosed` still holds.
`EveryRunEnds` assumes weak fairness of each command: the system schedules it,
providers answer or fail, and `git` ends or is ended by the timeout that
`safe_clone` passes to `subprocess.run`. Being killed is never assumed.

**Deadlock** is checked for the graph and the log, whose terminal states
stutter explicitly; not for the collector and the repositories, which are one
call, and not for the other modules, whose processes end.

## Where the documents say something else

Each of these has a run in which TLC finds the statement violated.

| Property | The statement | What the code does |
|---|---|---|
| `ToolErrorIsNoted` | `docs/SPEC.md:275`: on a tool error the control is `not_assessable` with an error note | a draft that is `not_assessable` already skips guard 1 (`graph.py:334`): the verdict is `passed` and carries no note |
| `HeadroomIsComfortable` | `graph.py:57-64`: the cap is configurable, the limit of 200 gives headroom | with six attempts, 14 rejected controls need 212 node invocations |
| `NoScannerRaises` | `tools.py:8-9`: on `OSError` a scanner skips the file and never raises an unhandled exception | when workflows are listed and none can be opened, `scan_ci_security` takes the first of no files (`tools.py:939` and `969`): an `IndexError` |
| `MissingPermissionsAreFlagged` | `docs/SPEC.md:262`: workflows with missing `permissions:` declarations are flagged | the texts of all workflows are searched as one (`tools.py:929`): one declaration anywhere, and none is flagged |

The first is safe, in that the verdict is `not_assessable` either way
(`FailClosed` holds), but the reader of the report does not learn why. The exception of
a scanner is safe in the same way: the collector catches it and the control fails closed.
`CiJudgesEachToolOnce` speaks of scans in which some workflow can be opened.

More limits of the code show in the model, some of them against the wording of a
document:

* When guard 1 fires on the last rejected draft, the rejection notes are dropped,
  because guard 2 is an `elif` (`graph.py:352`).
* A failing LLM call ends the whole run (`graph.py:528`), as `docs/EXECUTION_FLOW.md`
  describes and `docs/SPEC.md:275` does not.
* A log write that fails replaces the exception that was in flight (`Handle`).
* The check for `chroma.sqlite3` passes for a store without a document, which is
  what a killed ingest, or an assessment that overlaps one, leaves behind.
* Two ingests that overlap may store every control twice, which is why
  `IngestIsIdempotent` and `DuplicatesNeedOverlap` speak of overlap. One ingest alone
  stores an id as often as its file lists it, and a search may then select it as often.
  `IngestIsIdempotent` and `PeacefulRead` say nothing of a store whose last ingest was cut
  short, and `PeacefulRead` nothing of an assessment that an ingest has disturbed.
* A golden-set selection that names a control twice becomes two cases of one fixture and
  control, numbered apart (`OneRunPerFixture`).
* With both `--repo-url` and `--repo-path` the path is dropped without a word, although
  the help says "choose one" (`cli.py:138`); `FootprintIsKnown` exempts such commands.
* A report may show a score below the threshold that it has passed, by less than one
  unit of its last decimal (`GateIsHonest`).
* The directory of a clone is never removed by the commands (`FootprintIsKnown`
  says exactly when it stays); `safe_clone` leaves it to its caller.
* The golden set's overwrite check protects neither a review that comes after it
  nor a file that does not load, and a forced run that is killed while it writes can
  destroy the verified cases of fixtures that it did not name (`ReviewIsSafe` lists
  exactly these ways out).
* A finding that pairs two independent searches (`wildcard_iam`, `scoped_iam`,
  `s3_sse_enabled`) may cite a range whose end comes before its start
  (`CitationsHold` exempts these three).
* `permissions:` in the first line of a workflow is missed when the workflow
  before it lacks its last newline (`AbsenceIsReal` exempts it).

## What is proved

### The graph

For every rubric, every behaviour of the scanners and of both LLMs, every
`MaxVerifierAttempts` of at least one, every `RecursionLimit` and every set of
finite requests:

| Theorem | Statement |
|---|---|
| `Invariance` | `Spec => []IInv` |
| `TypeCorrectness` | `Spec => []TypeOK` |
| `FailClosedHolds` | `Spec => []FailClosed` |
| `VerdictsAlignHolds` | `Spec => []VerdictsAlign` |
| `ReviewLoopHolds` | `Spec => []ReviewLoop` |
| `DowngradesAreExplainedHolds` | `Spec => []DowngradesAreExplained` |
| `CommitsOnlyReviewedHolds` | `Spec => CommitsOnlyReviewed` |
| `BackstopIsSlackHolds` | `Spec => []BackstopIsSlack` |
| `FeedbackIsCompleteHolds` | `Spec => []FeedbackIsComplete` |
| `ReportIsCompleteHolds` | `Spec => []ReportIsComplete` |
| `ImplementsContractHolds` | `Spec => ImplementsContract` |

**Assumptions.** `MaxVerifierAttemptsAssumption` (what `_parse_max_verifier_attempts`
enforces), `RecursionLimitAssumption`, `ControlListsAssumption`,
`ControlAssumption` and `EmitsAssumption` (what pydantic enforces on controls and
findings).

**The argument.** `FailClosed` speaks of committed verdicts, but whether the
verdict about to be committed satisfies it depends on the draft, the collection
and the counters of the control in progress, so it is not inductive. `IInv` adds
`Progress` (where the run is, how long verdicts and trail are), `InProgress` (at
each node, collection, draft, attempts and notes are *functions of the trail*)
and `Settled` (a committed verdict is `Finalized` of the last reviewed draft).
The proof that a step preserves it has a lemma per conjunct and a case per node:
`Frame` and `InProgressFrame` dispose of the controls a node does not touch,
`CollectStarts`, `SynthesizeDrafts`, `VerifyDecides` and `SettledStep` do the
work. `SettledFacts` then derives the four properties of verdicts from `IInv`
with no further reference to steps. `BackstopIsSlack` needs `StepsUsed`, the
budget used up at each node, which `StepsUsedStep` shows to be inductive relative
to `IInv`.

`FeedbackIsComplete` and `ReportIsComplete` add what `IInv` does not say:
`Prompted`, that the prompt of the draft under review was made from the fields of
the control in progress, and `Delivered`, that the report is `Report(verdicts)`;
`CountsAddUp` splits the verdicts into the four classes of the summary. The refinement
maps finalized verdicts to decisions whose grounds are read off the trail, and
the report to `None` until the run is at `END`. That a `FinalizeControl` step is
a `Decide` of the contract is `IInvDecisions`: what `FailClosed` and
`VerdictsAlign` say of the new verdict *after* the step is the contract's `Supported`.

### The run log

`LogSpec` is proved to imply `Spec` (`LoggedRunIsRun`): wherever a log write
fails, an instrumented run is a run of the graph, so that all theorems above hold
of it. About the log itself:

| Theorem | Statement |
|---|---|
| `LogNestsHolds` | `LogSpec => []LogNests` |
| `LogTellsOutcomeHolds` | `LogSpec => []LogTellsOutcome` |
| `LogIsTrueHolds` | `LogSpec => []LogIsTrue` |
| `ReliableLogIsTransparentHolds` | `LogSpec => []ReliableLogIsTransparent` |

`Position` says what the last event of the log is at each stage of the wrapper
and carries the nesting; `Flight` says which error is in flight and whether the
log caused it; `Counted` and `Ending` tie the events that close a run to the
report. `LogIsTrue` compares events of one kind with the trail: `Filter` of the
log by kind grows by exactly the event that the step has earned, which needs the
lemmas on `Filter` under `Append`.

### The other components

| Theorem | Statement | For every |
|---|---|---|
| `EvidenceIsTheControlsHolds` | `Spec => []EvidenceIsTheControls` | rubric, possible findings, answers of the scanners |
| `NoEvidenceIsLostHolds` | `Spec => []NoEvidenceIsLost` | the same |
| `NeverSilentHolds` | `Spec => []NeverSilent` | the same |
| `IngestIsIdempotentHolds` | `Spec => []IngestIsIdempotent` | number of ingests and assessments, controls files, `top_k` |
| `DuplicatesNeedOverlapHolds` | `Spec => []DuplicatesNeedOverlap` | the same; controls files may repeat an id |
| `PeacefulReadHolds` | `Spec => PeacefulRead` | the same |
| `NoCaseIsLostHolds` | `Spec => []NoCaseIsLost` | golden set, duplicates included, fixtures, answers of the assessment |
| `PredictionIsItsOwnHolds` | `Spec => []PredictionIsItsOwn` | the same |
| `ScoreIsFairHolds` | `Spec => []ScoreIsFair` | the same |
| `GateIsHonestHolds` | `Spec => []GateIsHonest` | the same, and every threshold that is a multiple of `1/Unit`, for every `Unit` |
| `FootprintIsKnownHolds` | `Spec => []FootprintIsKnown` | number of commands, set of command lines |
| `ReportIsWholeHolds` | `Spec => []ReportIsWhole` | the same, and reports of any length |
| `ReviewIsSafeHolds` | `Spec => ReviewIsSafe` | number of generators, fixtures, controls, edits of the reviewer |
| `VerifiedWasReviewedHolds` | `Spec => []VerifiedWasReviewed` | the same |
| `MergeKeepsHolds` | `Spec => []MergeKeeps` | the same |
| `OneRunPerFixtureHolds` | `Spec => []OneRunPerFixture` | the same; selections may repeat a control |
| `SliceAlwaysHolds` | `SliceHolds(f, from, to)` | file that can be opened, start and end, ill-formed ranges included |
| `SliceIsCitedHolds`, `DetectionMatchesLoaderHolds`, `FilesAreIndependentHolds`, `CiJudgesEachToolOnceHolds`, `AbsenceIsRealHolds`, `BlocksAreBlocksHolds`, `CitationsHoldHolds`, `ListenersAreJudgedAloneHolds` | `Spec => []` the property of `Repository` that is named | repository: any number of files, of any length, in any directory, and any limit |

*Evidence collector* (`ControlAssumption`, `EmitsAssumption`, and
`FamiliesAssumption`: a scanner reports under the check families of its own, as
`tools.py` does). A collection is one step, whose result is `CollectEvidence` of
what the scanners answered; the lemmas say what a part of an id, a route and the
two-stage filter keep.

*Knowledge base* (`TopKAssumption`, `ProcsAssumption`, and `RubricAssumption`:
ids are finitely many, and a controls file lists each any number of times). `IngestIsIdempotent` speaks of moments when no
ingest is under way, so the invariant has to say what holds during one. `Turns`:
when no two ingests have overlapped, at most one is active, and it adds to a store
that is empty, because it has unlinked the old one or found none; this alone gives
`DuplicatesNeedOverlap`, kills and failures included. `Repaired`: unless an ingest
was cut short after its wipe, the store is what the last completed one made of it.
`Unopened` keeps a process from owning a store before it has opened one;
assessments may create empty stores, which `OthersLeaveEmpty` disposes of.
`Undisturbed` adds, for `PeacefulRead`, that no ingest is under way while an
assessment is not disturbed, so that the store it searches stays the one of the
last ingest; `TotalSplit` and `TotalGrows` count the documents of a selection.

*Evaluation* (`GoldenSetsAssumption`, `ThresholdsAssumption`; `UnitAssumption`:
scores are counted finely enough to tell one case of a golden set from none;
`NoneAssumption`). The invariant is `Typed`, `Own` (a result has the prediction
of its own fixture), `Counted` (of each case, as many results as verified
occurrences in the fixtures that were assessed), and `Told` (the report and the
status are those of the results). Occurrences add up under concatenation and
`Filter`, which makes `Counted` inductive for golden sets with duplicates. Macro-F1
is a mean that is rounded down: `TotalFacts` bounds the sum, and `UnitAssumption`
keeps a score that is not zero from becoming zero.

*Command line* (`SourcesAssumption`, `InvocationsAssumption`,
`CommandLineAssumption`). `Footprint` gives, stage by stage, what a process has
left behind, on top of `UsageErrorIsNotAccepted` and `AcceptedIsAllowed`: the code's sequence of checks
refuses exactly the command lines that the help texts do not allow, except that it accepts
those with both a URL and a path (`BothInputs`).
`FileInHand`: while the file is clean, its only writer is the process that opened
it last, and the file is the part of the report that this process has written.

*Golden set* (`GoldenSetAssumption`: no run has the name of the earlier ones, and
fixtures are listed once and selections are lists of controls; `FirstFilesAssumption`: the
file at first is one that the generator has written, the cases of a fixture in one run
and numbered apart).
`ReviewIsSafe` rests on `Permitted`: a run beyond the overwrite check was forced
or has seen nothing verified; only `Open`, `Write` and `CutShort` take a case from
the file (`RunStep`), the reviewer takes none (`EditStep`). The other three rest on
`CInv`: what each run holds in memory at each stage (`Fits`: before the merge
only cases of its own fixtures, after it also all of the others that it has read,
those of a fixture from one run and numbered apart, and no verified label that nobody has
reviewed), the same
of the file (`FileFits`), and that a run which has the file open with no other one
(else they are `tangled`) finds it empty (`WritesAlone`).

*Repository* (`LoaderAssumption`, `SelectionAssumption`, `RepositoriesAssumption`:
files are well-formed and no two have one path; `RefusalAssumption` and
`CrashedAssumption`: the two refusals differ and are no slices, and an exception is no
finding). An
inspection is one step, so that the invariant `Inspected` only says that what was
found belongs to the repository; the work is in what the operators compute.
`IterFacts`: the walk yields, in order, what it does not leave out. A Python slice
is a `SubSeq` that ends at `Stop`. `BlockFacts` solves the recursion of
`ExtractResourceBlocks` from the end of the file backwards (`ForwardRecursion`):
blocks are disjoint, in order, and cover every header; that a block taken alone is
again one block, with the same verdict, then gives `ListenersAreJudgedAlone`. Files
are independent because every finding but the one on audit logging bears the path
of the file that it was made from (`FileScanHasPath`).

### Induction over data

The induction theorems of the library take an operator as a parameter, which the
provers installed here cannot instantiate. `ListLemmas` derives from the
well-foundedness of `<` (`LeastNat`) principles that speak of *sets* instead: a
set of numbers with 0 and successors has every number (`NatInductionSet`), and
likewise for sequences (`SeqInductionSet`). `RunExists` and `ForwardRecursion`
show that the recursive functions which the models use are defined, for the
definitions say `CHOOSE`. What `Filter`, `FlattenSeq` and a sum over a finite set
compute is proved from these, for every input.

**Only model-checked**: the two liveness properties, `RunEnds` and
`EveryRunEnds`, since fairness and `ENABLED` are beyond these provers, and the
four statements that are violated. Everything else that a passing run checks,
the invariants, the action properties and the refinement, is also a theorem. What the theorems do not give is the
deadlock freedom that TLC checks of the graph and the log.

## Plan

In the order of what matters most to a user of the program:

1. Done: `EvidenceCollector`, `ComplianceGraph`, `RunLog`, `KnowledgeBase`,
   `Evaluation`, the contract.
2. Done: `RepoLoader`, `Scanners`, `ControlSelection`, `GoldenSet`,
   `CommandLine`.
3. Done: a theorem for every safety property of the runs.
4. Left: the composition of `CommandLine` with `KnowledgeBase`, so that the
   statuses of `AssessmentRaises` are told apart by where they come from.
5. Left: the composition of `EvidenceCollector` with `Scanners`, so that what
   `Emits` leaves open, and `FamiliesAssumption` with it, follows from the scanners.

## Not modelled

* Prompts' wording, rationale and confidence (no code reads them), timestamps,
  run ids and durations, the choice of embedding provider, the ranking of a search.
* The regular expressions, and with them the masking and the excerpts of
  findings, messages and severities: a line is the patterns that match it.
* `list_repo_files`, which lists the walk for the MCP server only, and
  `file_excerpt_to_evidence`, which no code calls; links as the target of `tools.read_file_slice`; a path
  that vanishes after it was validated; bytes and encodings.
* Parsing of arguments and `.env`; the two formats of the report.
* The digest that the labeler of the golden set reads, and its questions; a human
  whose editor writes back an old state of the whole file.
* The MCP server, which forwards calls and keeps no state; the ablation script, an
  experiment outside the system.
