# TrueSignal in TLA+

TrueSignal learns what the functions of a Java code base do (sanitizer, source
or sink) from the audit history of a scanner's findings, lets a language model
propose a role, checks the proposal against evidence, asks a human, and turns
the approved proposals into overrides of the scan engine. Its core claim is
about *trust*: nothing is applied on a model's word alone, everything applied
is on record and can be undone, and what was learned never hides or loses a
finding by accident. These modules state that claim, check it on small
instances with TLC, and prove all of it but the liveness for all instances with
TLAPS.

Everything the modules define is translated from the Python under
`src/truesignal/` and `src/scripts/`; `PROJECT.json` names the lines behind
every definition. What is outside the repository (the Checkmarx One tenant) is
modelled from the requests the code sends and is marked external there.

## 1. Inventory

| Part | Source | State | Operations | Hard because |
|---|---|---|---|---|
| JSON files | `jsonstore.py` | one file per list | `read_json`, `write_json` (temporary file, then `os.replace`) | every caller reads, changes and writes the whole file with no lock; a write may raise |
| Ledger | `override_generator.py` | `ledger.json`: `applied` / `rolled_back` entries | `record`, `already_learned`, `applied_overrides` | must agree with the applied set, which is another file |
| Pipeline | `pipeline.py` | `semantics.json` | `run_ingest`, `run_learn`, `run_apply`, `diff_results` | one model request per candidate; one override applied and ledgered at a time; anything may raise in between |
| Classifiers, summarizers | `llm_classifier.py`, `summarizer.py` | none | `classify`, `summarize` of three services and two offline ones | answers of any form; some exceptions are caught, some are not |
| Gate | `verifier.py` | none | `verify` | combines confidence, history and evidence |
| Calibration | `feedback.py` | `feedback.json`: one outcome per human decision | `record`, `adjustment`, `summary`, `all_trends` | clamps, signatures, two foldings of one log |
| Training store | `training_store.py` | `training_examples.json`, shared by all projects | `record_candidate`, `add_manual`, `set_status`, `export_dataset` | two gates before an example is exported; a file rewritten by threads and read by another process |
| Run history | `summarizer.py` | `run_history.json` | `record`, `recent` | must come after everything it tells of |
| Indexer, scanner | `code_indexer.py`, `webapp/scanner.py` | none | `index_repo`, `scan_methods` | first source, first sink after it, names compared by their last part |
| Candidate selection | `candidate_selector.py` | none | `select_candidates` | joins findings, paths and decisions |
| Project store | `webapp/store.py` | a directory per project: baseline, triage, ids, applied overrides, settings, meta | create, seed, delete, audit, rollback, apply, rescan | several files per operation, kills in between, requests under a deletion |
| Web UI | `webapp/server.py` | threads of a threaded server, login attempts | one handler per page | two browsers at once |
| Live client | `checkmarx_client.py` | a token | requests with retries, polling | lost answers, tokens that expire, stale scans |
| Command line | `cli.py` | none of its own | `analyze`, `export-training-data`, printing commands | killed at any request; exports while the server runs |
| Fine-tune script | `scripts/finetune_ollama.py` | a log of runs | loads the export | reads a file that may be under way |
| Browser scripts | `webapp/static/js/` | session history, search index | send, clear, open | answers out of order |
| Comment bank, CxQL assistant, knowledge base, pattern library, advisor | the rest | a list, or none | | sequential or stateless |

How they interact. A page that lists findings rescans the upload under the
applied overrides. An audit appends a decision to the triage file; decisions
become the evidence with which the next analysis selects candidates and the
gate verifies what the model said of them. The review screen shows the
verdicts; the confirmed form learns again, records feedback and a training
candidate for each verdict, applies the approved ones with a ledger entry each,
rescans and records a summary. A rollback removes an override by name and marks
ledger, calibration and training. The command line does the same in one process
against a tenant behind a network. An admin approves training examples, another
command exports them, a script reads the export. All of it goes through files
that several threads, and several processes, rewrite.

What makes each part correct:

- ledger and applied set tell the same story, whatever fails in between;
- every applied override goes back to a tick of a human in the same request,
  every query on the tenant to a recorded approval;
- evidence is written before, summaries after what they are about;
- history alone neither approves nor rejects, and moves verdicts only in the
  direction of the decision it records;
- a batch that ends has judged every candidate, by one gate;
- identifiers stay with their finding through every learning and rollback;
- learning adds findings and downgrades them, and never loses one;
- a confirmed finding that a sanitizer hides is always captured as a correction;
- what is trained on was approved for that very example;
- a project on a page is complete unless someone began to remove it, a deleted
  one stays away, a restart repairs and destroys nothing;
- every recorded audit is in the triage file, unless two were recorded at once;
- a query is posted twice only when an answer was lost or a run was killed;
- every run ends, or waits for its user to answer.

The hazards, each at its line with the properties about it, are in `PROJECT.json`.

## 2. Modules

| Module | What it is |
|---|---|
| `OverrideLog` | the abstract promise of the ledger: activate or retire one override, then record exactly that, before the next change |
| `Lifecycle`, `MCLifecycle`, `LifecycleProofs`, `SerialProofs` | review, confirmed review and rollback as threads over the JSON files; implements `OverrideLog`. The first proof module is about any number of threads, the second about one request at a time |
| `Calibration`, `MCCalibration`, `CalibrationProofs` | the gate and its feedback |
| `Learn`, `MCLearn`, `LearnProofs` | one analysis: the batch, the model's answers, the gate in force, the summary |
| `Rescan`, `MCRescan`, `RescanProofs` | scanner, rescan, identifiers, candidate selection and audit of one project |
| `Curation`, `MCCuration`, `CurationProofs` | the training examples, their export and its reader |
| `Projects`, `MCProjects`, `ProjectsProofs` | the directories of the projects through creation, use, deletion and restarts |
| `LiveAnalysis`, `MCLiveAnalysis`, `LiveAnalysisProofs` | the command line against a tenant behind a faulty network |

The modules cut the system along its files. What one leaves free, another
determines: `Lifecycle` lets `run_learn` return any verdicts, `Learn` says which
ones an analysis can return and when it raises, `Calibration` what the gate
makes of one classification, `Rescan` which candidates there are.

### Lifecycle

The unit of interleaving is one access to a file. `work[w]` is the request that
thread `w` serves: the calls it has still to make (`script`), the verdicts still
to review, the overrides still to apply, and the copy of the file it has read.
Every call is one *Load* step (the read, and for logs the time stamp) and one
*Store* step (the whole file replaced), as in `Ledger.record`,
`FeedbackStore.record`, `TrainingStore.record_candidate`, `RunHistory.record`,
`apply_query_overrides` and `rollback_override`.

| Action | Code |
|---|---|
| `ShowReview(w)` | GET analyze: `run_learn`, form rendered |
| `PostReview(w)` | POST analyze up to `approved = ...`: `run_learn` *again*, then the ticks |
| `NextVerdict(w)` | one turn of the loop over `reviewed`: feedback, then training |
| `NextOverride(w)` | one turn of `run_apply`: applied set, then ledger |
| `Summarize(w)`, `Respond(w)` | `summarize_run`, the response |
| `PostRollback(w)` | `rollback_override` up to the match; then four stores |
| `LoadApplied`, `LoadLog`, `StoreApplied`, `StoreLog` | one read or write of a file |
| `WriteFails(w)` | `write_json` or the client raises: old file kept, rest of the request lost |
| `Crash` | the process is killed; files and open forms survive |

An override is the function, the role and the request that created it: the
request number stands for evidence, confidence and identifiers, so two records
of one function in two requests are different, as in the code. `Mangle` is the
`.` to `_` of the name. `Proposals` leaves the answer of the language model
free, at every call. The four logs that only grow are one function `logs`;
`semantics.json` and `ingest_bundle.json` are written and never read, and left
out. `approvals` and `clock` are history: what was ticked as it was shown, and
the time stamps (which the code takes between the read and the write). The order
in which a set of verdicts is walked is left free: it is the order of the
indexer's dictionary, about which no property speaks.

### Calibration

One log and every verdict at once: a property speaks of all classifications
(role, class, confidence, reasons, support, the indexer's confirmation), so the
state only needs the log and which overrides are live. Confidences are in
hundredths. At the threshold, the confidences and the histories of the runs the
floating-point comparison of `verify` agrees with the integer one (checked by
enumeration). Elsewhere it can fall one rounding short of an exact tie: after
eighteen approvals and nine rejections, a confidence of 0.94 does not clear 0.85
in the code. The theorems are about the hundredths, not about that rounding.
`Review` records under the signature of the classification, `RollBack` under the
class of the override, which differ when the classification named no class.

### Learn

`pc` walks through one analysis; other requests change settings, ledger and
calibration at any moment.

| Action | Code |
|---|---|
| `Begin` | `analyze`: `config_for` reads the thresholds, once |
| `Ingest` | `run_ingest`; the ledger is read, once |
| `Ask`, `Classified` | one turn of the loop: the request, an object as answer |
| `ClassificationFails` | the `except` of `run_learn`: refused, not JSON, fields missing |
| `ClassificationRaises` | what the `except` does not list: null content, JSON that is no object |
| `Verify`, `VerifyRaises` | `verify`; `float()` of a confidence that is no number |
| `Write`, `Leave`, `Confirm` | `semantics.json`; the response; the confirmed form |
| `Summarized`, `SummaryRaises` | `summarize_run`, the text or the notice, or what it lets through |
| `SaveSettings`, `LedgerChanges`, `Recalibrated` | other requests |
| `Kill` | the process ends |

An answer is a role, a confidence (a set of one hundredth, or empty when it is no
number) and whether there are reasons. `MockAnswer` is the offline classifier on
the shapes it looks for in the source text. A NaN, which `json.loads` accepts,
is represented by 1000, because `max(0.0, min(1.0, nan))` is 1.0. The batch is a
set: no property speaks of its order. `Confirm` is one step here and many in
`Lifecycle`.

### Rescan

A method is its sequence of calls. A call has a name and a last part (`Bare`),
and the operators compare whichever of the two the code compares: `_bare` for
sources, sinks and sanitizers, the whole name for nodes against candidates.
`Flow` is `scan_methods`, `Found` and `Results` the rescan and what the pages
show, `WithIds` and `NextId` `_assign_ids`, `Bypassed` the check behind the
capture, `Dismissals` and `Candidates` the selection. `Analyze` and `Rollback`
are atomic (their steps are `Lifecycle`'s); an audit is two steps, the reading
of the finding and the recording, because overrides can change in between.

Left out: a `TO_VERIFY` decision, which nothing reads; the bulk audit, which
makes the same calls for several findings; the regular expressions of the
indexer. When several methods of one name wrap a sink, `SinkNode` takes one
of them, as the code does by dictionary order.

### Curation

| Action | Code |
|---|---|
| `Load(w)` | a review, rollback or audit that captures, or a form of `/training`; the file is read |
| `Store(w)` | `record_candidate`, `add_manual` or `set_status` replaces the file by its changed copy |
| `NotFound(w)` | `set_status` raises `ValueError`, the page says so |
| `KillServer` | the server ends in the middle of its requests |
| `ExportOpens`, `ExportWrites`, `ExportEnds` | `export_dataset`, `open(..., "w")`, the lines, the end of the command or of its process |
| `Train` | `_load_dataset` of the fine-tune script; a cut-off line or an empty file ends it |

The order of examples and of lines carries no meaning, so the files are sets.
`torn` says that the file ends inside a line: unlike `write_json`, the export
writes in place. One export runs at a time. Identifiers (`uuid4`) are numbers that
are never given out twice. A decision may come without a role or a class and
leaves what the example has; the page always sends a role, and the store's own
tests (`test_training_store.py:57`) call `set_status` without one.

### Projects

A directory is the set of its entries. `WriteOrder` is the order of
`_finish_project`, in which `meta.json`, the file that makes a project visible,
comes last.

| Action | Code |
|---|---|
| `Start`, `SeedNext`, `SeedFile`, `Serve` | `ProjectStore.__init__`: built-ins that are not there are written file by file before anything is served |
| `Stop` | a kill, or an error while seeding |
| `Create(w)`, `CreateFile(w)` | `create_from_zip`: a directory with the archive, then `_finish_project` |
| `Open(w)`, `Configure(w)`, `MakeStateDir(w)` | an audit up to its record: `exists`, `config_for` (whose `Config` makes the state directory) |
| `ReadTriage(w)`, `AddAudit(w)` | `add_audit`: `triage.json` is read, then replaced by the copy and one decision more |
| `SaveSettings(w)` | `save_settings` |
| `Delete(w)`, `RemoveEntry(w)`, `RemoveDirectory(w)` | `delete_project`: the listing, entries in any order, the directory if nothing came back into it |
| `Raise(w)` | any step fails: the request ends with what it has done |

An upload gets an identifier with a random suffix, so `used` identifiers do not
come back; an orphan of a failed creation is never reused. `deleting`, `gone`,
`recorded` (audits written) and `overlapped` (projects two audits of which were
between their read and their write at once) are history. `add_audit` takes no
lock, so two such audits may cost one another its decision, or all those written
since the older copy was read: `AuditsKept` says that nothing else does.

### LiveAnalysis

| Action | Code |
|---|---|
| `Invoke` | a new process: `make_client`, no token |
| `Request`, `NewToken`, `Age` | `_get`/`_post`: `_auth_token` once, before the attempts; a token ages while attempts are under way |
| `Refused`, `Retry`, `Raises`, `Unauthorized` | `_request_with_retry`: connection errors, 429 and 5xx are tried again, timeouts, 4xx and bodies that are not JSON are not |
| `AnswerLost` | the tenant carried out a POST and the answer did not arrive |
| `BaselineFound`, `BaselineMissing`, `GotResults`, `GotTriage` | `run_ingest` through `get_scan_results`, `get_triage_history` |
| `StopsEarly`, `Review` | `cmd_analyze`: nothing learned or `--dry-run`; otherwise the items to review, and who reviews them (`--yes` or a human) |
| `AutoApprove`, `Answer`, `Reviewed` | `_review`: one item approved, or answered at the prompt, with its feedback record; its return |
| `Record` | `run_apply`: the ledger entry of one override |
| `AcceptedQuery`, `AcceptedScan`, `Sleep`, `PollFound`, `PollEmpty`, `GotRescan` | `apply_query_overrides`, `rescan` and its loop |
| `MockIngest`, `MockApply`, `MockRescan` | the mock client |
| `Kill` | Ctrl-C, a cancelled job |
| `ScanEnds`, `ScanDeleted` | the tenant (external): scans end when and how they do, and are deleted oldest first |

A query on the tenant has a number of its own, so that two POSTs of one
function are two. `excuses` counts the queries on the tenant that the ledger cannot
know of: their answer was lost, or the command was killed before the ledger entry.
A scan whose answer was lost is no excuse, since no ledger entry is about it. A run
may be killed between two items of the review, and may wait at the prompt of one
forever. Findings and triage entries are data no property distinguishes; the
scan they come from is kept.

## 3. Runs

| Run | Instance | Shows |
|---|---|---|
| `lifecycle_serial` | 1 thread, 2 functions, 3 POSTs, the client may raise | `LedgerAccurate`, `FeedbackMatchesLedger`, and that the files implement `OverrideLog` |
| `lifecycle_crash` | 1 thread, 2 functions, 3 POSTs, 1 kill | `EvidenceFirst`, `SummaryIsFinal`, `DriftBounded`, `RollbackEffective` |
| `lifecycle_threads` | 2 threads, 1 function, 3 POSTs, 1 kill, failing ledger write | `TypeOK`, `HumanApproved`, `UniqueNames`, `Chronological` under every interleaving |
| `calibration` | 2 roles, classes `xss` and none, 4 confidences, 4 histories, 3 events | the gate and the trend |
| `rescan` | 5 methods, 12 uploads, 2 decisions | identifiers, learning, downgrading and capture |
| `learn` | 2 candidates, 3 backends, 2 analyses, 2 changes | `EveryCandidateJudged`, `OneGatePerRun`, `HeldAfterRollbacks`, `AnalysisEnds` |
| `curation` | 2 threads, 2 roles, 1 class or none, 3 requests, 2 exports | `TwoGates`, `PartOfOneExport` |
| `projects` | 1 built-in, 2 uploads, 2 threads, 4 requests, 2 starts | `VisibleIsComplete`, `DeletedStaysDeleted`, `AuditsKept` |
| `live` | 2 functions, both modes, 2 attempts, 2 polls, 2 runs, 1 lost answer | `EvidenceChain`, `UnaccountedBounded`, `NoNeedlessCopies`, `RescanNotOlder`, `RunEnds` |
| `ledger_append_only`, `batch_shielded`, `fresh_results` | the smallest instance that shows it | one sentence of the documentation each that the code does not keep |

Why the bounds are enough.

- *Lifecycle.* Three POSTs are an apply, its rollback and a second apply, the
  shortest history in which "the latest event wins" matters; with two threads
  they give two requests in flight and a third that sees their result. Two
  functions are needed where a batch is cut in the middle, one where two
  threads fight over the same name. One kill reaches every pair of adjacent
  file operations.
- *Calibration.* The confidences are one below and one at what ten points can
  lift to the threshold, the threshold and the top; the histories are none, one
  approval short of the cap and one wound up past it in either direction.
- *Rescan.* The uploads are handlers of three calls that start with a source
  (known or wrapped), go on with a cleaner, a sink wrapper or a wrapped source,
  and end with a sink or a source, plus a fixed one in which a wrapped source
  precedes a known one and a foreign `clean` lies between.
- *Learn.* Two candidates are one that fails and one that must survive it; a
  sanitizer dismissed sixty times is past the cap of the offline confidence; the
  confidence of 0.95 stands at the default threshold after the largest penalty;
  the second analysis meets the ledger of the first. Anthropic stands for Ollama
  too, which differs in no answer the code tells apart; a provider without its
  key is the offline classifier.
- *Curation.* Two threads lose each other's update; three requests are a
  capture, a decision and one that races with it; two exports are one cut off
  and the one after it.
- *Projects.* Two starts are one that breaks and one that repairs; four requests
  are an upload, two that find it and its deletion, in two threads, or an upload
  and three audits, one of which reads before and writes after the other two.
- *LiveAnalysis.* With two attempts there is a first and a last one, with two
  polls an empty one and a last one; the second run is the one that could post
  again what the first did; one lost answer per behaviour is enough for an
  override and for a scan. The counters grow with the bounds and nothing
  compares them otherwise; the theorems hold for any number of each.

`lifecycle_threads`, `curation` and `projects` use symmetry of threads (and of
functions, of uploads): their properties are invariants that name none of them,
and the liveness runs use no symmetry.
`CHECK_DEADLOCK FALSE` is said everywhere: the bounds on requests, runs and
events end every behaviour, and a server with no request does nothing.

Some definitions are used by no other (`LedgerFirst`, `AskAgain`, `MetaFirst`, ...): each
is what a plausible mistake would make of the definition after it. `PROJECT.json`
pairs them under `mutants`, and with the mistake in place the named property is
violated in its run.

Fairness is assumed in two runs, and only of the program. `RunEnds` has
`WF_vars(Program)`: the interpreter runs on, and an attempt comes back within its
`timeout=` (the client gives one to every request), as an answer or as an
exception. It says nothing of *which*: every attempt may be refused, the engine
may never finish a scan, the user may press Ctrl-C. Nor does it say anything of
the user at the prompt: `input()` (`cli.py:96`) has no timeout, `Answer` is not
part of `Program`, and a run may wait there forever. `RunEnds` therefore says that
a run ends or waits at a prompt; one whose last prompt was answered, or that was
started with `--yes`, ends. `AnalysisEnds` has
`WF_vars(Analysis)`: the thread of the request runs on and a call of a model ends
within its `timeout=120`. The web requests of `Lifecycle`, `Curation` and
`Projects` have no liveness claim.

### Disagreements

Three sentences of the documentation have a run that violates them.
`AppendOnly`: "Append-only audit trail" (`override_generator.py:81`) is lost to
two requests at once; `UniqueNames`, `HumanApproved` and `Chronological` hold
under the same interleavings, which is the exact extent of what the missing lock
costs: log entries may be lost, never invented or reordered. `BatchShielded`:
three malformed answers pass the `except` of `run_learn` and end the analysis for
every candidate (`pipeline.py:55-66`); the same list of exceptions is used by
`summarize_run`, which "Never raises" (`summarizer.py:194`), and by the assistant.
`FreshResults`: `rescan` returns the newest completed scan, which right after the
POST is the one the evidence came from (`checkmarx_client.py:190-194`);
`RescanNotOlder` is what does hold.

Others were met on the way and have no run:

- "A wrong learning is never permanent" (`webapp/templates/project.html:111`): a
  kill between the first two files of a rollback (`webapp/store.py:354-356`)
  leaves a function that the ledger calls applied and that no override carries;
  it is not learned again and cannot be rolled back. `DriftBounded` counts it.
- "The ledger is always an accurate record of exactly what actually got applied"
  (`pipeline.py:85-86`): `A.b_c` and `A_b.c` share an override name
  (`override_generator.py:65`); the second is skipped by the client and ledgered.
  `LedgerAccurate` holds for names that stay apart.
- "Nothing is ever applied without landing on the review screen first"
  (`webapp/server.py:5-7`): the POST of the form learns again (line 729), and a
  model may answer differently. The function was on the screen and was ticked
  (`HumanApproved`), its role need not be the one shown.
- A signature that "keeps getting rolled back" (`verifier.py:17-19`) is not
  lowered when the classification named no class: the rollback is recorded under
  the default class of the override (`override_generator.py:60`).
- The templates are "parameterized by attack class" (`override_generator.py:4-7`),
  the downgrade of `webapp/store.py:439` is not.
- Repetition "wouldn't be independent evidence of anything"
  (`webapp/store.py:187-189`), and `candidate_selector.py:49` counts every
  dismissal, those of one reviewer on one finding too, and those of a finding that
  was confirmed later.
- An attack class set to "(none)" on the training page arrives as `None` and
  leaves the captured class in place (`webapp/server.py:1030`,
  `training_store.py:119`).

## 4. Proofs

No constant is bounded in the theorems. The assumptions used say no more than
the types of the constants and, where the code guarantees it, that `Rank` is
injective and known sinks have a class (`RepoAssumption`), that candidates have
different names (`CandidatesAssumption`), that uploads and built-ins have
different identifiers (`ProjectsAssumption`), and that the tenant deletes scans
oldest first (`ScansAssumption`, external). Every one is evaluated by TLC.

`LifecycleProofs`
- `TypeCorrect`: `TypeOK` with the types of scripts and copies, inductive as it stands.
- `AlwaysHumanApproved`: `HumanApproved` is not inductive, since a thread may hold
  an unapproved override in a copy or a script; `ApprovedInv` adds every copy,
  every batch and every call still to make.
- `NamesStayUnique`: `NamesInv` adds the copies of the applied set.
- `LogsChronological`: `OrderInv` adds that a copy is in order and that its
  entries are older than the stamp of the entry about to be added, and every
  stamp at most the clock. A lost update is then only a shorter ordered log.

`SerialProofs`: what needs requests to be served one after another, as on the
command line or for one admin who waits for each page. Every theorem assumes
`Serial` (at most one worker) and names the failures it excludes; each of these
hypotheses is needed, TLC finds a counterexample without it on two functions and
three requests. All rest on `RequestInv`: a change of the applied set is the first
call of its script and its ledger entry the second, a rolled-back entry is followed
by its feedback, the copy read is still what the file holds, and a request creates
records of its own number and retires older ones.
- `EvidenceComesFirst` (any failing write, any kill): `EvidenceInv` follows an approved
  override from the verdicts to review, through the calls to make, to the log.
- `SummariesAreFinal` (any failing write, any kill): `SummaryInv` says where each override
  the running request approved is: still to apply, in the call to the ledger, or in it.
- `RollbacksHold` (any failing write, any kill): `RollbackInv` adds that what is retired is
  older than every request to come, which only creates records of its own number.
- `FeedbackFollowsLedger` (no kill, the calibration log can be written): `FeedbackInv` is
  the equality up to the entry due next.
- `LedgerIsAccurate` (no kill, the ledger can be written, names stay apart):
  `LedgerInv` compares the applied set with `SoonActive`, what the ledger will show once
  the entry due is in, and `PlanInv` says that what is still to apply is about functions
  with no override in it. `SoonStep` is the heart: only a change of the applied set
  changes what the ledger will show, and by the very entry that is next.
- `DriftStaysBounded` (any kill, the ledger can be written, names stay apart): `DriftInv`
  counts the functions that are not `Settled` in every state, not only the quiet ones;
  no step unsettles a function, a kill unsettles the one whose entry was due.
- `ImplementsOverrideLog` (as `LedgerIsAccurate`): under the mapping of `Lifecycle` every
  step is an `Activate`, a `Retire`, a `Record` or a stutter (`StepImplements`).

`CalibrationProofs`
- `FeedbackTypeCorrect`; `NothingApprovedOnWordAlone` and
  `NothingRejectedByHistory` rest on the lemma that a clamped adjustment lies within
  ten points and on the gate alone, hence hold for every history;
  `DecisionsAreMonotone` rests on what one more entry does to the counts (one
  cardinality grows by one, the others stay), on the monotonicity of the clamp and
  on that of the gate in the adjustment.
- `TrendsEndAtSummary`: the chart is a recursive function on the length of the log, the
  table a count over the whole of it. `Charted` relates the two after n entries; that the
  recursion defines the loop, and that `Charted` holds up to the end, are inductions on
  n, done by the shortest counterexample (well-foundedness of the numbers).

`RescanProofs`
- `ProjectTypeCorrect`, whose last conjunct (every flow under the applied overrides has an
  identifier) needs that rolling back only shrinks the flows.
- `IdsAreStable`: new identifiers are at least `next`, old ones below it, and
  `Rank` keeps the new ones apart.
- `LearningLosesNothing`: more learned names only move the first source to an earlier
  call, and a sink after the old first source is a sink after the new one.
- `SinksStaySinks`: a passthrough lies before the first sink.
- `SurfacedCountsTheNew`: `BaselineInv` says that the baseline is the scan with nothing learned
  under the identifiers of today; findings, new findings and baseline are then as many as
  the methods they are about.
- `ConfirmationsAreCaptured`: what downgrades a flow is also what `Bypassed` finds.

`LearnProofs`
- `TypeCorrect`, `BatchesAreComplete`, `OneGateForAll` and `RollbacksHold` share one
  invariant: candidates still to do, the one in hand, those judged and those
  already applied partition the candidates at every step of the loop; a failed one
  carries the default answer until it is rejected; every verdict was made by `cfg`,
  which only `Begin` writes; offline, a verdict's confidence is one of
  `MockAnswer`, at most 94 for a sanitizer.

`CurationProofs`
- `TypeCorrect`: identifiers in the file *and in every thread's copy* are unique and
  below the next one, so that a lost update loses an example and never its identity.
- `BothGatesHold`: `GateInv` extends the two gates to the file, to every copy and to
  every form under way.
- `NoMixedExports`: inductive as it stands.

`ProjectsProofs`
- `TypeCorrect`, `VisibleProjectsComplete`, `DeletedProjectsStayAway` and
  `DecisionsAreKept` share one invariant: a creation (or a seeding) at its n-th file
  has written the required ones before it, and its project is not visible yet; a
  project that is being used was visible and is complete or being deleted; no one
  creates in a directory that is gone; a built-in that is not visible has no
  decisions to lose; and as long as no two threads hold a copy of one triage
  file at once (`OneAppender`), the copy of the one that does is what the file
  still holds. `VisibleProjectsComplete` says nothing of a project whose removal
  has begun: `rmtree` stops at the first error and may leave `meta.json` with
  other files missing.

`LiveAnalysisProofs`
- `TypeCorrect`: with `CounterInv` (a back-off has attempts left, a sleep has polls left).
- `EvidenceChains`: `ChainInv` adds that what is still to apply is approved and not
  ledgered, and that the override in hand is on the tenant once it is accepted.
- `UploadsAccounted`, `NoNeedlessUploads`: `CountInv` says that every query on the tenant
  is ledgered, excused or in hand; both bounds follow by cardinalities.
- `RescanIsNotOlder`: `OldInv` adds that the baseline did complete and that scans are deleted
  oldest first; the newest completed scan is then never older than one that completed
  earlier, deleted or not. That a newest one exists is shown by well-foundedness.

Only model-checked: the liveness properties `RunEnds` and `AnalysisEnds` (liveness under
fairness is out of reach of the provers used). Every other property of a passing run is
stated by a theorem. What no theorem says is how the accuracy of the ledger, the order of
the evidence and the effect of a rollback fare with several threads: there they fail, by
lost updates, and what is left is `TypeCorrect`, `AlwaysHumanApproved`,
`NamesStayUnique` and `LogsChronological`.

## 5. Not modelled

- **`_assign_ids` as a race.** `Rescan` assigns identifiers in one step, and its audits
  are recorded in one. Two rescans at once lose each other's map exactly as two
  requests lose ledger entries in `Lifecycle` and audits in `Projects`; the
  interleaved page of `_project_impact` is left out with it.
- **A project that was half removed and is still listed.** `Projects` reaches it; no
  property excludes it, because nothing in the code does.
- **The temporary file of `write_json`.** That a reader finds the old or the new content is
  `os.replace`'s guarantee; the models rely on it, and on nothing for the export file.
- **Text**: the regular expressions of the indexer, prompts, summaries' wording, reports,
  CxQL templates, knowledge base, pattern library, triage advisor and the assistant's
  search are functions of one request with no state that steps could break.
- **Limits of the tenant's pages** (500 results): findings are not represented in
  `LiveAnalysis`.
- **Comment bank**: one more list with the unlocked rewrite of the logs; nothing reads it
  but its page.
- **Login limiter**: a list in memory whose race is worth one attempt.
- **Browser scripts** (assistant, palette, charts, page effects): state of one page,
  which a reload discards and the server never reads. An answer may arrive after the
  conversation was cleared, the search index after the user has typed.
- **Printing commands** of the command line, and the training loop and run log of
  the fine-tune script, which is not implemented in the repository beyond its checks.
