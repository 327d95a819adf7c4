# CipherFault in TLA+

CipherFault finds cryptographic primitives and their misuse in ELF binaries. It is
an analysis engine (`src/src/cipherfault/`: Ghidra, a taint tracer, rules, a learned
recogniser) and a hosted service around it (`src/src/cipherfault/api/`: FastAPI, a
relational database, an object store, RQ workers on Redis, a React frontend). This
directory holds TLA+ models of the parts whose behaviour is hard to test, TLC runs
that check them on small instances, and TLAPS proofs of what matters most for every
instance.

Paths below are relative to the repository; `api/` is `src/cipherfault/api/`, and the
other engine paths are relative to `src/cipherfault/`.

## The system

| Component | State | Operations | Correct when | Module |
|---|---|---|---|---|
| HTTP API (`api/main.py`) | none of its own; a session per request | upload_scan, create_scan, delete_scan, reads, API keys | no scan is worked on unbilled; quotas hold up to concurrency; a deleted scan is gone; replies tell the truth | ScanService |
| Relational store (`api/db`) | orgs, users, API keys, scans, usage events | commits of the handlers and the worker | a complete scan has its report and its event, whatever the session of a failed attempt commits | ScanService, ApiProcess |
| Upload storage (`api/storage.py`) | objects by path (local directory or Supabase bucket) | save, read, delete | refused uploads and deleted scans leave no object | ScanService |
| Job queue (`api/queue.py`, RQ) | a job per scan, its state and retries | enqueue, start, retry after an interval, time out | every accepted scan settles, or waits for a scheduler after a failure | ScanService |
| Worker (`api/worker.py`) | the scan loaded in its session | execute_scan_job | retries and failures leave one consistent row | ScanService |
| Rate limiter (`api/middleware.py`) | counters in Redis | count a request per window | no client exceeds its limit; a refusal is earned | ApiProcess |
| Keepalive (`api/keepalive.py`) | a background task, where the setting enables it | check database, Redis, Supabase | runs only where it is enabled (that it survives an unreachable storage is not promised, and false) | ApiProcess |
| Bootstrap, auth (`api/bootstrap.py`, `api/auth.py`) | dev org and key; key expiry and revocation | seed, look up a key | one org per dev key; who serves has its key | ApiProcess (seeding) |
| Taint tracer (`taint/tracer.py`) | none; walks p-code | last-writer finders, value tracing, hops to callers and returns | no fact that the binary contradicts | BufferProvenance, OperandTrace |
| Anchors, fingerprints (`taint/anchors.py`) | none | find_anchors, match_fingerprints | a recovered name is unambiguous on both sides (violated) | ScanPipeline |
| Scanner, rules (`scanner.py`, `rules/`, `indicators.py`) | facts, indicators, diagnostics of a scan | scan_binary | every supported call and key is answered; no fact is lost on the way to the report | ScanPipeline |
| Recogniser (`recognizer/`, `api/runtime.py`) | the model files | load, score, label | asserts labels that were gated, by the decision that was gated but in three known cases; fails closed | LabelGate, RecognizerRelease |
| Training and release (`scripts/train_recognizer.py`, `scripts/check_recognizer_artifacts.py`) | metrics, weights, semantic head on disk | calibrate, gate, write or withdraw, check | scans get the gated models or none | LabelGate, RecognizerRelease |
| CBOM, SBOM, CLI, PQC helpers | none | format a report | an asset lists the facts of its primitive | ScanPipeline (that part) |
| Lifting, regions (Ghidra) | none of its own | lift, extract | - | - |
| Frontend (`frontend/`) | the polled scan | poll until complete or failed | ends its polling | - |
| Corpus build, experiments | files on disk | build, evaluate | - | - |

How they interact: a request handler reads and writes the database in several
commits, calls the store, and puts a job into Redis; a worker takes the job and
reads and writes the same rows through a session of its own. Nothing is locked
between them: they meet only in the rows, the objects and the queue. With
`RUN_JOBS_INLINE` the request calls `execute_scan_job` itself. Before any handler,
the limiter of the process counts the call in Redis, where all processes meet. The
worker calls `scan_binary`, which finds anchors, asks the tracer where their operands
come from, and lets the recogniser add what it learned to see. The recogniser reads
two files that a training run, on its own schedule, writes in place.

What is hard here: interleavings of requests, deletes and workers between commits;
processes that die between two of them; an enqueue, or an expire, whose reply is lost;
retries of a job that had already committed its result; time limits that strike
anywhere; clocks that differ between hosts and start anew; model files replaced under
a scan. In the engine: which of many writes is the last one before the anchor, over
functions, and what is left out when a caller cannot be decompiled; recursion over
cyclic programs; mappings whose keys leave out a part of what they hold; two decision
procedures, one measured and another used. `PROJECT.json` lists every such hazard at
its line.

## The modules

| Module | Models | State |
|---|---|---|
| `ScanContract` | what a client may see of a scan | status, report, billed |
| `ScanService` | requests, deletes, jobs and executions; implements `ScanContract` | 12 variables, cut at every commit and outside call |
| `ApiProcess` | processes of the API around the endpoints: start-up, limiter, keepalive | processes, rows, counters, calls, clocks |
| `BufferProvenance` | last-writer checks of `tracer.py` | a program and the memory it leaves |
| `OperandTrace` | value tracing of `tracer.py` | the recursion's stack over a program graph |
| `ScanPipeline` | `scan_binary` from names to CBOM | the report as it grows |
| `LabelGate` | calibration, gate, and the two label decisions | none: operators |
| `RecognizerRelease` | trainer, check script and scans over the model files; uses `LabelGate` | files, plan of the trainer, a scan, a check |

`MC*` modules give TLC its instances; `*Proofs` modules hold the theorems.

**ScanService** models the life of scans.

- A member of `Scans` stands for one POST request, the row it inserts, the object it
  uploads and the job it enqueues. `pc` is where its handler stands, `reply` what it
  answered; `row` is the `scans` table restricted to the columns handlers write
  (`status`, `stage`, `error`, and `report` for `report_json`; `cbom_json` and
  `runtime_json` are set behind it and are not told apart); `created`/`monthly` and
  `completed` are the usage events; `objects` the store; `job` RQ's view; `exec` the
  worker's session, with the columns it loaded and what an error left in it; `del` a
  delete in progress.
- A handler is cut at its commits and at its calls to the store and Redis, since
  those are the points where something else can come between. `EnforceQuota`,
  `SaveUpload`, `RejectUpload`, `UploadOutage`, `InsertScan`, `RecordCreated`,
  `Enqueue`, `EnqueueError`, `MarkUnqueued` are `upload_scan`; `AcceptPath` and
  `RejectPath` replace the upload in `create_scan`; `LoadForDelete`, `DeleteUpload`,
  `DeleteRow` are `delete_scan`; `LoadScan`, `ScanGone`, `MarkRunning`, `Scan`,
  `SaveReport`, `FinishJob`, `MarkFailed` are `execute_scan_job`.
- `Update` is SQLAlchemy's rule that a session writes only the columns it changed
  since it loaded them, and `expire_on_commit=False` keeps the loaded copy: a stale
  session therefore writes some columns and not others. A commit on a row that is
  gone raises.
- The except branch of the worker commits the session it has, without a rollback. An
  error or an alarm between `worker.py:33` and the commit at line 39 leaves the report
  set, and past line 38 the event added: `held` remembers which, and `MarkFailed`
  commits them together with `failed`. A failed scan may therefore hold a report
  without event, or with one.
- Failures are actions guarded by `Fault` and bounded by `MaxFaults`: an outage of
  the store or the database, a lost or refused enqueue, a job that times out, an
  analysis that raises, a worker that dies, an API process that dies with all it
  serves. RQ is external: `Raise` and `Requeue` are its retry rule for
  `Retry(max=2, interval=[30, 120])`. `Requeue` is the scheduler's step, and
  `SchedulerOn` says whether one runs; as shipped, none does.

**ScanContract** is what a client can see: a scan is queued, billed, started,
completed or failed, removed; work only on billed scans; removal is final. While
nothing has failed (`reliable`) a completed scan stays so and only started work fails;
`Break` ends that, and from then on a failing scan may keep a report nobody can read.
`ScanService` implements it under the mapping in `ImplementsContract` (status and
report of the row, `created` for `billed`, `faults = 0` for `reliable`).

**ApiProcess** models what every API process does besides its endpoints, for several
processes on several hosts.

- Start-up is `seed_dev_key`: `SelectKey`, `SelectOrg` (an org of the name, or a new
  row that is flushed but not committed), `CommitKey` (the unique key hash; the
  process that comes second is rolled back and does not start).
- `Incr` and `Expire` are the two Redis commands of `rate_limit_middleware`, each of
  which may fail before or after Redis carried it out (`IncrFails`, `ExpireFails`).
  The client is synchronous, so a call holds the event loop of its process (`holds`).
  The window number is the monotonic clock of the process's host divided by the
  window (`Clock`, `boot`); Redis expires counters by real time (`Tick`).
- `Keepalive` is a round of the loop, in the processes whose setting enables it
  (`KeepaliveEnabled`; `CIPHERFAULT_KEEPALIVE_ENABLED` is 0 by default): errors that
  `_check_supabase` turns into answers are survived, one that escapes ends the task.
  No property asks that the loop go on. `Crash` stops a process
  anywhere, `Reboot` a host and its clock.

**BufferProvenance** models the last-writer half of `tracer.py`. A behaviour lays
out a program: operations on a key buffer in the callers of `Main`, in `Main` up to
the anchor, and behind it. Each operation carries what the decompiler shows of it
(kind, callee, whether its pointers share a base with the operand, the value
written) and what it really writes; `memory` is the buffer as the anchor sees it,
for every caller. The finders are operators over the operations only: `RngSource`,
`WeakSource`, `FillSource`, `CopySource`, `StackConstants`, `FromCallers`, and
`Facts` combines them as `scan_binary` does for a key. The properties compare facts
with memory. `Exact` names the programs in which pointers and sizes are what they
seem; the repository's README (line 282) promises nothing beyond them, so the
soundness properties are stated for exact programs, and the others for all.

The code compares the size of a memset, and the span of a stack write, with 16 bytes
whatever the size of the key (`tracer.py:272`, `:372`; `scanner.py:285` passes no
size). So `Cells` are the bytes of the key and `Checked` its first 16: `covers` says
that a memset is of at least 16 bytes, `first` of a COPY that it meets the first 16 at
a stack offset the decompiler knows, and what the facts claim is compared with the
checked bytes only. Nothing is claimed of the others: a 32-byte key of which a memset
fills 16 bytes is reported as hardcoded, and a stack write behind the 16th byte is not
seen.

Abstractions: one instruction per operation; straight-line functions, so address
order is execution order; one hop to the callers (of the three the code allows);
pointer bases are the two flags `first` and `rest`; the buffer of `Main` is a stack
local or a parameter.

**OperandTrace** models the other half of `tracer.py`: `trace_operand` and the
recursion of `_walk`, as a machine with the recursion's stack. `walk` is the `_walk`
in progress (its varnode, `max_ip` and `seen` set); `forks` are the `_walk_unanimous`,
`_hop_to_return` and `_hop_to_callers` calls that wait for a candidate, each with the
copy of `seen` its candidates start from. `Cycle`, `Literal`, `Cut`, `Exhausted`,
`Copy`, `Merge` and `Hop` are the branches of `_walk` in its order; `Candidate`,
`Agree` and `Disagree` the loop and the comparison the three helpers share, with the
outcomes each refuses. The candidates are all walked before they are compared, so
their order does not matter and is left open. The program is a graph: how each varnode
is defined, from which varnodes, and whether a call hides an argument (`lost`).
`key` is the printed varnode the cycle check remembers, which varnodes of one register
share. What a path records for the analyst, apart from its end, is left out.

The outcome is compared with two references: `Denoting`, the largest set of varnodes
all of whose sources lead to one literal, and `Derivable`, a bottom-up evaluation with
the hops left.

**ScanPipeline** models `scan_binary`. An instance is a binary: the call at every
site, which callers decompile, the similarities of its functions with a fingerprint
reference. `FindAnchors` recovers names (`Matched`: the 80% and 5% margins, and that
one function passes them for the name), builds the queue of anchors and the indicators of
unenforced verifications. Then one action per branch of the loop takes the lowest
anchor: `AnalysePqc`, `AnalyseDigest`, `UnresolvedDigest`, `AnalyseRsa`, `AnalyseEcc`,
`UnresolvedCipher`, `AnalyseCipher`, with an operator for every rule (`OperandOrigin`,
`WeakRandomness`, `HardcodedKey`, `StaticIv`, `ImplicitZeroIv`, `EcbMode`,
`KnownWeakAlgorithm`, `NumericParameter`, `Curve`). `FindingId` keeps of `_finding_id`
which fields each rule hashes. `Recognised` puts the recogniser's evidence over the
anchors' by `(primitive, address)`, `NotRecognised` is its three failures, and
`Unique` is the dictionary by id that builds `verified_facts`. What the tracer says
of an operand is a field of the call, since the other two modules are about that.

**LabelGate** has two decisions about a region side by side. `Combined` is what
`train_recognizer.py` evaluates: a name match first, then the ensemble, then the
semantic head. `Assertion` is what `recognizer/runtime.py` asserts: each deployable
label votes by the first of its heads that passes, the highest confidence wins.
`Calibrate` chooses thresholds by precision on validation samples (1.1, here 110, for
a head that is precise nowhere), `DeployableLabels`, `Passed` and `AllClassPassed` are
the gates on test samples. Scores are inputs, as whole percentages. `Undeployed`,
`Outscored` and `Tied` are the three ways in which the two decisions part: the
evaluation goes by a name that is not deployed; a label passes a threshold that is
below the largest score of its row; a score of 1.0, or a name threshold of 0, ties with
a matching name. `AssertionsWereGated` says that there is no fourth.

**RecognizerRelease** puts the gate into time. `Train` gates a data set and plans what
the trainer does to the files: metrics, then both models, or their removal. `Publish`
does one step of it: opening a file empties it, closing it makes it whole.
`Interrupt` stops the trainer between any two. A scan looks for all three files if
the recogniser is required (`RequireReady`), asks for both models (`Available`), asks
again (`AvailableAgain`), loads one (`LoadWeights`) and the other and labels a region
(`Recognise`). The check script reads the metrics, looks for the models and compares
the labels of the weights (`StartCheck`, `Look`, `Compare`).

## The runs

| Run | Shows | Bounds |
|---|---|---|
| queue | the safety properties and the contract, jobs in RQ with a scheduler | 2 scans of one free organisation with limit 1, 1 retry, 2 failures |
| inline | 202 means complete; the limit is exceeded by at most one scan with two served at once; the contract | 3 scans without a failure, 2 with up to 2; 2 served at once, limit 1 |
| liveness | scans settle, or are left to a scheduler that does not run | 2 scans, 1 retry, 2 failures, no scheduler |
| findings_stay | *violation*: a completed scan turns failed | 1 scan, 1 failure |
| api | limits hold in a window; refusals are earned; seeding | 2 processes, one of them with the keepalive loop, 2 hosts, 3 calls, limit 1, window 2 of 3 ticks, 2 failures, crashes or reboots, one dev key or two |
| buffer_facts | facts agree with memory; facts look back only | 2 callers, 3 bytes of which 2 are checked, 20 operations, programs of 3 |
| rng_replaced | *violation*: an RNG fact survives a wipe behind a hop | same |
| runtime_key | *violation*: a zeroed, then randomly filled key is "hardcoded" | same |
| operand_trace | traces end, resolve what a bottom-up evaluation does, and only what the operand must hold | 3 varnodes over a constant and a further leaf, 2 hops: merges, copies, calls and parameters, loops included |
| pipeline | calls and keys are answered, facts reach the CBOM once | all pairs of 28 calls of every kind, 2 functions that decompile or not, 4 fingerprint references, an empty one or none, every recogniser outcome |
| fingerprints | *violation*: a function takes a name another one resembles more | same |
| release | scans assert labels that were gated, as they were gated but in three cases; quiet scans and checks tell the truth | 2 trainings on 7 data sets, 1 interrupt, a scan of 60 regions and a check at any time |

Why the bounds suffice.

- Every race of the service is between two requests of an organisation, between a
  request and its own job, or between a delete and either, so two scans with their
  jobs and deletes, on shared paths, contain all pairs; the limit of 1 makes the second
  scan the one that must be refused; two failures allow a failure during the recovery
  from another. The quota's overshoot needs a third request behind two concurrent
  ones: `inline` has three, and lets failures happen among two only (the constraint
  `FailuresAmongTwo`). The scheduler is on where it adds
  behaviours (`queue`) and off where it would take some away (`liveness`).
- A limit of 1 is exceeded by the second call and twice the limit by the third; a
  window of two ticks in three lets a counter be started in its last tick, outlive the
  window and meet the next one; two hosts give clocks that differ; two failures give a
  lost expiry and a crash or reboot.
- For buffers, a wrong verdict needs a source, a write that replaces it and, over a
  hop, a second caller: three operations. Two checked bytes and a further one tell
  writes that cover the first 16 bytes, meet them, or miss them.
- For traces, two hops give one that is allowed behind another and one too many, and
  three inner varnodes give chains beyond the bound, diamonds, loops of merges and
  recursive functions. One more family has varnodes that print alike.
- Two facts collide, and two anchors share a group of repeated operands, in pairs; the
  sample has every branch of the loop with operands present and absent, and origins
  that look static or not. The references match, tie, come within the margin and have
  two functions for one name.
- Two trainings are what one file of each, or a withdrawal, needs; the data sets give
  gates that pass by every head, fail for want of a deployable label and fail with one,
  and one threshold of 0.43; the regions have scores that only a low threshold passes,
  ties at 1.0, and names that are not deployed: each of the three exceptions is needed.

Every action and every disjunct of the specifications fires.

`CHECK_DEADLOCK FALSE` in the service, API and tracer runs: requests, jobs, processes
out of time and programs end, and then nothing is left to do. `pipeline` has an
explicit final stutter and `release` goes on with new scans and checks, so there TLC
looks for deadlocks.

Fairness. `ScanService!FairSpec` has weak fairness of each scan's worker steps (a live
worker keeps taking jobs and goes on with the one it has, `rq worker scans`). Nothing is
assumed of clients, requests or failures, nor of a scheduler: the repository's
`docker/worker.Dockerfile:30` starts the worker without `--with-scheduler`, and nothing
else starts one. A job whose retry has an interval then stays scheduled, so
`ScansSettle` has this exception (`LeftToScheduler`), and asks that there was a failure
for it. `OperandTrace` has weak
fairness of its only process, a sequential call. The other modules state no liveness
and no fairness.

### What the violations say

- `findings_stay`: `_enqueue` treats a lost reply as a job that was not queued, and its
  late commit replaces `complete` by `failed`: the report is in the row and cannot be
  read.
- `rng_replaced`: `rng_source_reaching_pointer` goes to the callers without looking at
  what the function itself wrote to the buffer.
- `runtime_key`: `_constant_stack_writes_reaching_pointer` looks at COPY operations
  only, so `unsigned char key[16] = {0}; RAND_bytes(key, 16);` yields a hardcoded key
  next to its RNG fact.
- `fingerprints`: the docstring at `taint/anchors.py:132` asks that both sides of a match
  be unambiguous. A function with a close runner-up proposes nothing, so it does not
  stop another one, that resembles the name less, from taking it. The run's scores are
  ones `match_fingerprints` gives (0.867 and 0.813 against 0.94 and 0.953).

### Divergences noticed without a run

- `api/main.py:350` reads a count that later commits raise, so the monthly limit of
  `API_REFERENCE.md:75` may be exceeded; the proved bound is `Limit + Threads - 1`.
- `taint/tracer.py:652` passes over a call by another operation than CALL and
  `tracer.py:647` over a caller that does not decompile; `README.md:282` says that indirect
  calls are cut. `TraceSound` speaks of the calls that are shown.
- `scripts/train_recognizer.py:394`: labels may be deployable and the false positives
  too many; then no model is written, where `README.md:206` says that one is, and the
  check script rejects the metrics that say so.
- `taint/tracer.py:272` and `:372` compare with 16 bytes whatever the key size, so a
  longer key that is constant in its first 16 bytes is `hardcoded_key`, and a memset
  of the 8 bytes of a DES key never is.
- `recognizer/runtime.py:96` and `scripts/train_recognizer.py:61` decide differently
  in the three cases of `LabelGate`. The files at hand reach them: `recognizer.metrics.json` has
  thresholds of 0.43, 0.47 and 0.002, and a semantic score of exactly 1.0 ties with a
  matching name, which the evaluation lets win. The precision that was gated is that of
  the evaluated decision.
- `api/worker.py:46` commits what an error left in the session: a failed scan may hold a
  report, and be counted by a `scan_completed` event; a retry counts it again. The
  "completed scan count" of `API_REFERENCE.md:150` is thus one of attempts.
- `api/keepalive.py:64` catches `RuntimeError` only: with the loop enabled, a storage
  that cannot be reached ends it for good.
- `cbom/__init__.py:115` looks for the mode of any primitive among the ECB facts of
  its address, whatever their primitive.
- `recognizer/runtime.py:37` returns an empty result, not a diagnostic, if the files
  were withdrawn after the scanner saw them.
- With different dev keys two processes may write two orgs named "Dev Org"; a dev key
  that was revoked is not seeded again, since the lookup goes by its hash.
- With inline jobs `readyz` (`api/main.py:91`) does not ask for Redis, which the rate
  limiter needs for every call.
- `key` of `OperandTrace`: varnodes that print alike are taken for a cycle, and an
  origin is lost (never a wrong one reported).

## What is proved

All theorems hold for every value of the constants under the named assumptions of
the modules: finite sets, natural bounds, inputs of the declared shapes. Each is an
inductive invariant with three steps (initial, preserved by each action, implies the
property), or an action property or refinement from such an invariant.

`ScanServiceProofs`:

- `TypeCorrect`: `[]TypeOK`.
- `QuotaBounded`: the overshoot bound. It is not inductive by itself; `QuotaInv` adds
  that, for each free organisation, the counted events and the requests between
  check and count are together below `Limit + Threads` as soon as one passes, because
  at most `Threads` requests are served at once and each passed the check below
  `Limit`.
- `WorkIsCharged`, `DeletionRemovesObject`, `DeletionIsFinal`: from `SafetyInv`, the conjunction of `RequestInv` (where a request stands tells
  whether its row and event exist), `ChargeInv` (jobs, executions and reports belong
  to charged scans), `ReportInv` (what a session loaded is consistent with the row
  and its events) and `DeleteInv` (a delete past its unlink has removed the object,
  and nobody uploads it again).

`ScanOutcomeProofs`, from `OutcomeInv` on top of `SafetyInv`:

- `ReportsAreCounted`: how a row's report, its status and its events agree is in
  `ReportInv`, which also says that a session with a report in it knows the scan as
  running, and holds one back only after a failure. How many events there may be is in
  `CountInv`: the `usage_events` rows of a scan are at most its failures and at most
  its spent attempts (`Spent`), plus one while an execution is past its commit
  (`saved`; for the attempts also `failing`) or once the job has ended; an event that
  waits in a failing session still has its failure and its attempt to itself. So an
  event beyond the first needs a failure and another attempt.
- `JobsEnd`: `StepsLeft`, computed from the state of a scan's request, job and
  execution, is lowered by each step of the worker and of the scheduler, failing ones
  included, and raised by nothing. This is the part of `ScansSettle` that needs no
  fairness: an attempt takes at most seven steps, and the last one ends the job.
- `StageIsTrue`, `StrandingNeedsLoss`, `FailureNeedsCause`, `InlineReplyIsTrue`,
  `OrphansAreExplained`. `HandOverInv` says that at most one execution works for a scan
  and only after its request handed it over; `SessionInv` how far the row may differ
  from the worker's copy (only by the `failed` of a 503); `ObjectInv` whose an object
  is; `FailingInv` that without failures only a missing object makes an execution fail.
- `ServiceImplementsContract`: the initial states map to initial states and each action
  to a step of `ScanContract` or a stutter. An
  attempt that fails with its report in the session is a `Fail` that keeps the report,
  which the contract allows once something failed. `ReliableInv` carries the strict
  form: until then, no job runs a second time on a complete scan.

`ApiProcessProofs`:

- `KeysAreSeededOnce`: from `ProcInv`, which relates what a process holds between
  lookup and commit with the committed rows.
- `LimitHolds`, `RefusedHaveCause`: from `LimiterInv`. A counter equals the calls
  counted in it since it was last empty (`CounterInv`); while a window is open, the
  calls it let through before the counter was started anew are at most `Limit`
  (`WindowInv`, `OpenWindows`). With one clock a counter outlives its window, so
  nothing was started anew; with several it happens at most once in a window, whence
  twice the limit. No bound on processes, hosts, calls or time is used.
- `TypeCorrect`: from both and the counting of failures.

`BufferProvenanceProofs`:

- `SourcesExclude`: at most one operation per function is named as a source, because
  each finder checks for later writes and what it names is itself one.
- `FactsLookBack`: an action property from the type invariant: facts are a function
  of the operations before the call, which only grow behind it.
- `RngFactSound`, `WeakFactSound`, `ConstantFillSound`: from the invariant
  `MemoryInv`, which says that a cell holds what the last operation of `Main` that
  writes it wrote or, if there is none, what the last one of the caller did. In exact
  programs the operation a finder names is that last one for the checked cells, which
  are any subset of the operand's.

`OperandTraceProofs`:

- `TraceIsSound`: from `WalkInv`: on the stack of waiting forks each waits for the one
  above, the walk's varnode was copied from the candidate the last one waits for, and
  every candidate that has been walked left an outcome in `found` that it resolves to
  with the hops then left, that is, a pair in `Least`, the least set of varnodes and
  hops that the rules of the bottom-up evaluation are closed under. The varnodes of
  that set support each other as `Denoting` asks (`LeastDenotes`).
- `TraceIsExact`: an outcome the trace ends in is one the evaluation yields, and the
  converse where varnodes print differently (`Distinct`). For the first, `WalkInv` and
  that the evaluation reaches `Least`: each of its `|Varnodes| * (MaxHops + 1)` rounds
  adds a pair unless it has them all (`VarnodesAssumption`: there are finitely many).
  For the converse, `ExactInv`: if the operand is in the evaluation, the walk is always
  at a pair of some round, and no pair of that round has a key the walk has seen with
  the same hops left (`Fresh`), so the seen set cuts nothing it needs; every candidate
  walked so far gave this one outcome.
- `TraceIsFinite`: `Work` is lowered by every step. A fork may walk all its candidates,
  each with one varnode fewer to see, so `Weight[u]`, a bound for a walk with `u` keys
  unseen, is `|Varnodes| * (Weight[u - 1] + 1) + 2`, and `Work` adds up what the forks
  of the stack have left.
- `RecursionIsBounded`: from `SeenInv`, a fork has seen the varnodes of all below it.
- `TypeCorrect`: hops never exceed the bound.

`ScanPipelineProofs`:

- `NoFactIsLost`, `FactsAreListedOnce`: from `FactsInv`. Primitive and type of a fact
  whose id leaves the operand out tell the operand (`WellFormed`), so ids are
  injective (`IdsAreInjective`); the evidence of a fact is in the mapping and `Put`
  only ever replaces it by evidence of the same key.
- `EveryCallIsAnswered`, `EveryKeyIsAnswered`: from `AnswersInv`, which says of each
  site what the report holds before and after its turn (`SiteInv`).
- `TypeCorrect`: from `FactsInv` and what `FindAnchors` puts into the queue.

`LabelGateProofs`: `AssertedAsGated`. For any thresholds, and any scores whose rows are
distributions (`Distribution`: no two add to more than 1, as those of softmax and
`predict_proba`), the label the runtime asserts is the evaluated one, or `Undeployed`,
`Outscored` or `Tied` holds. The winner of the votes is compared with each step of
`Combined` in turn: a matching name, the ensemble, the semantic head. That two labels
cannot both reach the veto of 95% makes the ensemble's label the only one.

`RecognizerReleaseProofs`, from `ReleaseInv`: `PlanInv` says how far a plan has come
and what the files therefore are, `FilesInv` that weights belong to a training that
passed, `ScanInv` and `CheckInv` what a scan or a check has seen if nothing disturbed
it.

- `AssertionsAreGated` (with `AssertedAsGated`), `QuietScansAreCurrent`,
  `ChecksAreTrue`, `TypeCorrect`.

Inductions over numbers (rounds, walks, unseen keys) are made over sets, by a least
counterexample (`WFMin` of the library).

Only model-checked: `ScansSettle` and `Terminates`, liveness under fairness. Their
safety halves are proved, that neither jobs nor traces go on for ever (`JobsEnd`,
`TraceIsFinite`); that the next step is always enabled until the end, and taken, is
left to TLC. Nothing is proved about `ENABLED`. No module with theorems uses a
`RECURSIVE` operator.

## Not modelled

- API keys beyond the dev key: create, revoke, expiry and `last_used_at`. Each is one
  commit on one row that no other handler reads except to look up the key.
- The read endpoints, which change nothing, and the request log.
- Ghidra, lifting and region extraction: an external tool behind JPype.
- The numbers of the recogniser: features, network, semantic head, gradient descent,
  the choice of an epoch, and the similarity of two token sequences (`difflib`,
  cosine). Their results are inputs.
- CBOM, SBOM and CLI output, apart from which facts an asset lists: formatting of a
  finished report. The `pqc` helper calls an external library.
- Corpus build, dataset cache and experiments: offline and sequential.
- The frontend: it polls what `ScanContract` describes. The reports it
  awaits may arrive for a scan that is no longer selected (`frontend/src/App.tsx:176`),
  the report of an earlier scan is not reset, and an error in any poll but the first
  ends the polling unnoticed (`:180`); all are local to the page.
- Control flow inside analysed functions, pointers that alias without a shared base,
  sizes of RNG and memcpy fills (the code looks at none), and pointers that are
  themselves stack variables (`_has_later_buffer_write` takes their assignment for a
  write to the buffer) are outside `Exact`; the bytes of a key behind the 16th are
  outside what its facts are compared with.
- Callers that are no function or fail to decompile in `_hop_to_callers`
  (`tracer.py:644`): `OperandTrace` has the calls that are shown.

## Further work

1. A frontend module: the polling loop against `ScanContract`.
2. API keys: expiry and revocation against requests already admitted.
3. Two and three hops of the last-writer checks, and the walk over pointer bases.
4. Trainings that are interrupted, or run while a scan or a check looks: what can still
   be promised of the scan then, beyond that its label was gated.
