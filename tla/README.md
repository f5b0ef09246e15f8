# A verification development for the RTL-to-GDS teaching platform

This directory models the parts of the platform whose correctness depends on
the order of steps: the M1 service that turns a frozen specification into
verified RTL, simulations, RTL-to-GDS runs and registered evidence, the web
page that drives it, the M2 and M3 comparisons, the M4 script lab in which a patch
runs only after its user confirmed it, the tool adapters that do the work of a run,
and the client of the OpenROAD-MCP server. The models are TLA+; TLC
checks them on small instances and TLAPS proves the main safety properties for
instances of any size.

Paths below are relative to the repository; `M1` stands for
`apps/m1_rtl_to_gds/src/openroad_app_m1`, `M2` for
`apps/m2_rtl_comparison/src/openroad_app_m2`, `M3` for
`apps/m3_orfs_comparison/src/openroad_app_m3` and `M4` for
`apps/m4_script_lab/src/openroad_app_m4`.

## 1. Inventory

| Component | State it keeps | Operations | Talks to |
|---|---|---|---|
| **M1 specifications** (`M1/service.py`, `server.py`, `store.py`) | `_sessions`, `_verification_packages` and their tables | assess, freeze, register package | page, v2 (upload) |
| **M1 RTL, checks, GDS, evidence** (same files) | `_versions`, `_evidence`, `_run_outcomes` and their tables; table `m1_run_owners` | create and edit RTL, verify, simulate, submit GDS, observe a run, register evidence or an outcome | page, v2 (runs, artifacts, metrics) |
| M1 generator (`M1/generator.py`) | none | ask the Codex CLI for RTL, create a version | M1 service |
| M1 oracles, catalog, netlist preview | static data | look-ups, rendering | M1 server |
| **M1 web page** (`apps/m1_rtl_to_gds/web/app.js`) | selected spec and version, the kind of run polled | button handlers, a one-second polling loop per run | M1 server |
| v2 execution service (external, `M1/v2_client.py`) | inputs, runs, identities | upload, submit with an idempotency key, run status, artifacts, metrics | all apps |
| **M2 RTL comparison, M3 ORFS comparison** | one JSON row per comparison | create, run (one submission per candidate or strategy) | v2 |
| **M4 script lab** | one JSON row per proposal | create, confirm, run | v2 |
| Contracts (`packages/contracts`) | none | validation of records, `RuntimeStatus` | all |
| **OpenROAD-MCP client, console, sweep** (`integrations/openroad-mcp`) | child process, response queue, notifications, exit status | start, request, notify, close; two reader threads | an MCP server over pipes |
| **Tool adapters** (`integrations/*`) | the files of one job, the result document, the exit code | check the request, write files, run tools or upstream code, answer | v2 workers |
| Operations (`scripts/teaching_platform_ops.py`, compose files) | none | back up and check databases | the disk |

Data flow of M1: the page posts a description; an assessed session is frozen
and, when its top module has a teaching oracle, gets a verification package.
RTL versions belong to a frozen spec. `verify`, `simulate` and `gds` build a
task, check what the task demands, submit it to v2 under its own task id as
idempotency key, and note the run. The page polls `GET /runs/{id}`; that
handler is the only place where the result of a run comes back into M1
(`observe_run`, `record_gds_evidence`).

What makes it hard:

* `ThreadingHTTPServer` serves each request in a thread. The dictionaries are
  shared without a lock; a handler reads a record, perhaps calls v2 for up to
  30 s, and writes back a record built from what it read.
* Every record exists twice, in memory and in a SQLite row written one after
  the other, in an order that is not the same everywhere. A crash may fall
  between the two, and only rows survive.
* A v2 call can fail before or after v2 has acted on it. The user clicks again.
* Any legal request can arrive at any moment: an edit while a check runs, a
  second verification while a simulation or an RTL-to-GDS run is in flight.
* M2, M3 and M4 read a whole row, work on a copy through one or two v2 calls, and
  write the whole row back; the lock of the store covers one read or one write.
* An adapter speaks to the execution service through three things that are not
  written together: the files of its workspace, a result document that lists them,
  and an exit code. Any statement may raise, a handler may raise too, one `main` may
  run inside another, and the process may be killed with a file half written.

What makes each component correct:

* specifications: a rejected one is never frozen, a freeze survives, a frozen
  exercise can be verified, rows and memory tell the same story;
* versions: a verdict is that of a run of this version and check; an edited
  version stays invalid; a version does not wait for ever for an ended run;
* ladder: simulation only after successful verification, RTL to GDS only after
  both; each task is one run however often it is submitted;
* evidence: only about complete, successful runs of checked versions, and only
  shown to its owner;
* M2, M3: a saved comparison has tried both of its legs equally often, the legs
  share no run, and the runs are its owner's; M4: nothing runs that its user has
  not confirmed, a submitted row names a run of its own proposal;
* adapters: document, files and exit code agree, whatever raised; a tool never
  reads a half-written file; a failure once answered stands;
* MCP client: an answer is given to the request it belongs to, nobody waits
  for a dead server, none is left running, the exit status tells the failures;
* page: a verdict shown is that of the version it is shown for, and a check under
  way is polled until its verdict is recorded.

## 2. Modules

| Module | What it is |
|---|---|
| `M1Specs` | the specification half of M1 |
| `M1Service` | the whole M1 service: `EXTENDS M1Specs`, adds versions, runs, owners and evidence |
| `Ladder` | abstract specification: three rungs per version and a set of certified versions |
| `M1Ladder` | the refinement mapping from `M1Service` to `Ladder` |
| `M4Proposals` | the M4 script lab: rows, v2 runs, requests in flight |
| `Consent` | abstract specification: offered, confirmed and executed proposals |
| `Comparisons` | M2 and M3: rows, v2 runs, requests that go through two legs |
| `Toolkit` | one run of an adapter: a process that executes blocks of steps |
| `Adapters` | the blocks of the adapters whose code is in `integrations/`, and of the echo example |
| `WebUI` | the M1 page: overlapping chains of requests over an atomic M1 server |
| `WebLadder` | the refinement mapping from `WebUI` to `Ladder` |
| `McpClient` | the MCP client: caller, reader thread, pipes and server |
| `Calls` | abstract specification: numbered calls that are made, answered and failed in order |
| `McpCalls` | the refinement mapping from `McpClient` to `Calls` |
| `MCM1Specs`, `MCM1Service`, `MCM4Proposals`, `MCComparisons`, `MCToolkit`, `MCWebUI`, `MCMcpClient` | instances for TLC |
| `M1SpecsProofs`, `M1ServiceProofs`, `M1LadderProofs`, `M4ProposalsProofs`, `ComparisonsProofs`, `ToolkitProofs`, `WebUIProofs`, `McpClientProofs` | theorems |

### How a module corresponds to the code

A dictionary and its table are two variables (`session` / `sessionDb`,
`package` / `packageDb`, `version` / `versionDb`, `evidence` / `evidenceDb`,
`outcome` / `outcomeDb`); `m1_run_owners` has no copy in memory and is one
variable. A thread is a record in `specReq` or `req`: `at` is the step the
handler takes next, the other fields are its local variables. In particular a
record with a field `rec` is a version read earlier, and about to be written.

A handler is cut wherever another thread can see or disturb it: before each
write of a dictionary, before each write of a row, and around each v2 call. The
cut of reading a record and checking it is not made, because both are bytecodes
on one reference of an immutable record.

| Handler | Actions |
|---|---|
| `POST /specs` | `AssessMem`, `AssessSave` |
| `POST /specs/{id}/freeze` | `FreezeCheck`, `FreezeMem`, `FreezeSave`, `UploadOracle` or `UploadFails`, `RegisterCheck`, `RegisterMem`, `RegisterSave` |
| `POST /specs/{id}/rtl`, `/generate` | `CreateRoot` or (`EditParent`, `InvalidateMem`, `InvalidateSave`), then `CreateVersion` or `CreateRefused`, `SaveLast` |
| `POST /rtl/{id}/verify` | `Build`, `Submit` (or `SubmitReplyLost`, `CallFails`), `MarkRunning`, `SaveFirst`, `MemLast` |
| `POST /rtl/{id}/simulate` | the same with `MemFirst`, `SaveLast` |
| `POST /rtl/{id}/gds` | `Build`, `Submit`, `RecordOwner` |
| `GET /runs/{id}` | `Poll`, `Observe`, `Record`, `MemFirst`, `SaveLast`; for a finished RTL-to-GDS run `Fetch`, then `EvidenceMem`/`EvidenceTaken`, `EvidenceSave` or `OutcomeMem`, `OutcomeSave` |
| process stop and start | `SpecRestart`, `Restart` |
| v2 ends a run | `RunEnds` |

`M1Service` reuses the steps of `M1Specs` through `OnSpec`, and `Restart`
conjoins `SpecRestart`; run `whole` and theorem `SpecHalf` say that the larger
module really implements the smaller one.

The script lab has no copy of a row in memory and locks one read or write, not a
handler (`M4/store.py:16-26`). `POST /proposals` is `Create`, a single write
under a fresh id. `/confirm` is `Confirm` (read and check) and `Write`; `/run` is
`Run`, then `Submit` or `SubmitReplyLost` or `CallFails`, then `Write`. A request
in flight carries the row it is about to write. Submissions do not say
`idempotent=1`, so what v2 does with a task it has seen is left open: it may
answer with the run it has, admit another one, or refuse. `Restart` is a restart
on the same file (`M4_DATABASE`); the default `:memory:` forgets everything.
Requests of other users are refused without effect and left out, as are the
listings.

M2 and M3 are two processes with a database each and one shape, hence one module:
a comparison of `M2` or `M3` has legs 1 (`direct_llm`, `baseline`) and 2 (`rtlscout`,
`orfs_agent`). `POST /comparisons` is `Create`. `/run` is `Run` (the read and the
check of the owner), then for each leg in turn `Unavailable` (no candidate source or
task is registered), `Submit`, `SubmitReplyLost` or `CallFails`, then one `Write` of
the row the request carries in `req[t].record`. A v2 call that fails ends the request,
for no handler catches `V2Error`: what the first leg got is not written. A second run
replaces the outcome of a leg in M2 and appends to it in M3 (`SubmittedAs`, `Failed`).
Uploading a source is part of submitting its leg. No endpoint registers a source;
`Prepare` is what the tests do to a fresh row before they run it. Like M4, the client
does not say `idempotent=1` (`Admit`). `Restart` keeps the database; a process
started without one forgets its rows.

`Toolkit` is an interpreter. An adapter is a set of blocks, its `main` functions,
`except` clauses and early returns, each a sequence of steps; `Adapters` has one
definition for each function of the code, from which the blocks are put together.
The steps are what the properties tell apart. `open` and `fill` are a
`write_text` or a copy, which leaves the file partial in between; `swap` is a
temporary file moved into place; `supply` writes a file only if it is not there.
`tool` is a `subprocess.run`: any return code, and any subset of the files it
may emit, complete when it returns 0. `work` is upstream code loaded into the
process. `zero` and `need` are the looks at the return code and at a file, which go to
an early return or raise. `call` hands over to another `main` inside the `try`
statement of the caller. `answer`, `gather` and `publish` write the result document,
in place (then `seal` completes it) or atomically, and `exit` is
`raise SystemExit(main())`. `check` is any statement that changes none of this,
the questions to git about a source included (`orassistant_adapter.py:77-88`,
`a2_orfo_adapter.py:78-86`, `orfs_agent_adapter.py:56-62`,
`orfs_agent_reproduction_adapter.py:129-162`, `posteda_bench_adapter.py:54-60`): what
they print is read or refused. How long a process waits, for git or for a tool, is not
a question asked of this module.
`Raise` may happen at every step but `exit`: the exception goes to the innermost
`except` clause that is left, or, when the clause does not name its class, out of the
process, which ends with 1. `Kill` may happen anywhere. `Entries` are the ways the
service starts an adapter: the modes of the ORFS agent, resumed or not for A2-ORFO,
the launchers of ORAssistant and PostEDA-Bench.

`WebUI` is the page of one user whose spec is frozen. What an `async` handler
awaits is a chain of requests: `chain[c]` is the request sent, and its reply once
the server has served it. The page acts when it hears a reply (`Show...`), which
is the code between two `await`s, so replies of different chains are shown in any
order. `submitRun` is `Verify` or `Simulate`, `ServeSubmit`, `ShowSubmitted`;
`pollRun` is `ServePoll`, `ShowRun`, then `Timer` and again, or `ShowEvidence`
(the reads of `refreshEvidence`, which change nothing, are one step) and
`refreshVersion`; `selectVersion` and `refreshVersion` are `ServeGet`,
`ShowVersion`; the two creating buttons are `ServeCreate`, `ShowCreated`.
`showError` ends a chain, whatever it was. The server's handlers are atomic here
and say what `M1Service` says of them: `held` are the checks whose run id the
version carries, `Submittable` and `Awaited` are the refusals of
`build_simulation_request`, `record_simulation` and `observe_run`. `lost` is a
history variable: the versions whose polling ended with a failed request or with
the page.

`McpClient` has three actors. The main thread (`Caller`) writes request `ident`
(`Send`) and takes messages from the queue: its own reply (`Receive`), another
one (`SetAside`), the end mark (`ReceiveEof`), or none in time (`Timeout`); the
first request is `initialize`, followed by the notification that ends `start()`
(`Initialized`). The reader thread moves lines from the pipe to the queue
(`ReadLine`, `ReadEof`). The server is external: it answers what it has been sent
in any order, or exits. The callers `mcp_console.py` and `verify.py` appear as
what they do with a reply (`Use`), with an `MCPError` (`Raise`: the requests in
`Guarded` are those of the nested-image step of `verify.py`, lines 262-282) and on
leaving (`Finish`, `GiveUp`, `QuietExit`). `Leave` closes the client only if
`start()` had returned, because both callers run `start()` outside the block that
closes it. Which steps a sweep skips is left open: it may finish after any.

What is abstracted in M1: RTL text, SpecIR contents, task payloads, artifact ids and
digests. The checks on them that decide control flow stay, as `Taught` (is there
an oracle for this top module), `complete` (do the artifacts and metrics satisfy
`record_gds_evidence`), `CreateRefused` (validation of the new version), and
`CallFails` (v2 refuses, or the toolkit is not admitted). The PDK of an
RTL-to-GDS task is always `nangate45` (`service.py:335`), so a version has one
such task. A handler that refuses a request before it has changed anything is a
disabled action. v2 is external and appears as `runs`: submitting with
`idempotent=1` returns the run already admitted for the key, and a status is
final.

## 3. Checks

Definitions named as mutants are copies of an action with one plausible bug;
each property is known to fail when its mutant is put in place.

| Run | Instance | Shows |
|---|---|---|
| `specs` | 2 specs (one with an oracle), 2 threads, 2 oracle ids | `SpecInv`, the inductive invariant, of which `DurableIsServed` (rows never run ahead of memory) is a part; `RejectedForGood`; `SpecPartedByOverlapOnly`: a step parts memory from the row of a session or package only where another request owes the row of the same record |
| `race` | one version; 2 threads, 2 runs; edit, verify, simulate, poll; with fairness | `NoConflictingVerdicts`, `VerificationSettles` |
| `ladder` | one version; 2 threads, 3 runs (symmetric), 2 users; edit, verify, simulate, gds, poll | `ServiceInv`, the inductive invariant, of which `LadderRespected` is a part; `EvidenceIsSound`, `OnlyOwnersObserve`; `ClimbsTheLadder`: `M1Service` implements `Ladder`; `PartedByOverlapOnly`: the same for every record of M1 |
| `whole` | nothing exists; 1 + 1 threads, 2 versions, 3 runs; create, edit, verify, simulate, poll | `RowsAreServed`, `VerdictsAreEarned`; `RowsMatchAtRest`: with one request at a time every session, package, version, evidence and outcome in memory is the one on disk, unless the request still owes the row; `SpecSpec`: `M1Service` implements `M1Specs` |
| `m4` | 2 proposals, 2 runs, 2 threads | `ProposalsInv`; `ExecutedWasConfirmed`: nothing v2 was given is rejected or merely proposed; `RowsAreHonest`: a submitted row names a run of its own proposal; `KeepsItsPromise`: `M4Proposals` implements `Consent` |
| `comparisons` | one M2 and one M3 comparison, 2 users, 4 runs, 2 threads, two runs of each comparison | `ComparisonsInv`; `BothLegsTried`: no saved row has tried one leg more often than the other; `NoFallback`: no leg names a run of the other leg or of another comparison; `OwnersRun` |
| `toolkit` | each of these adapters in every mode; return codes 0, 1 and -9 | `ToolInv`; `ResultsAreBacked`: a document that says succeeded lists whole files only, and every tool had returned 0; `ToolsSeeWholeFiles`; `ZeroExitIsSuccess`; `EvidenceIsKept`: an answer given after a tool failed lists all the evidence its block owes, whole (`EvidenceOf`: the materialization and configuration of the reproduction adapter); `ExitAgrees`: a process that comes to an exit of its own has left a complete document with that very code (modulo 256), and exits with 0 if and only if it says succeeded; `VerdictsStand`: failed never becomes succeeded |
| `web` | 2 versions (one of them checked), 2 chains, failing requests; with fairness | `WebInv`; `VerdictsShownAreEarned`: a verdict on the page is that of the run of the version it is shown for; `VerificationIsWatched`: a version under verification has a chain that polls it, unless its own request failed or the page was left; `VerificationIsObserved`: so an ended verification is recorded; `ClicksClimbTheLadder`: page and server implement `Ladder`, whatever is clicked on whichever stale copy |
| `mcp` | 5 requests, the third one guarded | `ClientInv`, of which `OwnAnswers` (late replies are not taken for answers) is a part; `CallsEndInOrder`: the client implements `Calls`; `NoReplyLost`; `NeverWaitsForTheDead`: the end mark, which only one request can take, is there for the one that waits; `NoOrphans`; `RequestsEnd` |

**Bounds.** The constants are the only bounds; no guard cuts a behaviour short
but `MaxRequests`, the length of a session, `MaxTries`, how often a comparison is
run (twice: a second run on top of a first, and two that overlap), `Room`, as many versions as the
constant has, and `Checkable`, the versions the user of `WebUI` verifies and
simulates: one of two, which leaves the other to be selected, derived or
generated meanwhile. Two chains are a polling loop and another click. Five requests hold `initialize`,
`tools/list`, the guarded step and two after it, so that a late reply can meet the
next request twice.
Two threads are enough for every race between a reader and a writer of one
record and are what a page with two tabs produces. Two versions give a parent
and a child. Three runs are one run of each kind, which is all one version can
have. `Endpoints` restricts which requests clients send in an instance: the
races of interest are all there, and the runs together use every endpoint and
fire every action. `Endings` is success or failure; `cancelled` and `timed_out`
take the same branch as `failed` in every handler. In `comparisons` four runs are one for each leg of both comparisons, or a second one of
a leg; users, runs and threads are symmetric. In `toolkit` nothing is bounded: the
blocks are finite and are walked once, and the three return codes are success,
failure and a signal, which is all `Zero` and `Exit` tell apart.
Runs that do not start from
nothing start from a state described in `MCM1Service`, reachable through the
steps the other runs cover.

**Fairness.** Safety needs none. `FairSpec` (and `CreatedFairSpec` for an
instance) assumes that a thread finishes the request it serves (weak fairness
of `Serve`: every v2 call has a timeout), and that the client gets to poll a run
it may poll again and again (strong fairness of `Poll`: `pollRun` asks each
second, and needs a free thread). Nothing is assumed about v2 or about when
users edit or resubmit. The property itself assumes that crashes end. In
`WebUI` a request is answered or fails, the page runs its handlers and its timer
fires (weak fairness of `Serve` and `Show`); the user, the runs and the failures
do as they like. In `McpClient` the main thread and the reader thread each take a step when they can
(a request has a deadline), and nothing is assumed about the server. Deadlock is
not checked there: the program ends. The same holds for `toolkit`. `Toolkit`, `Comparisons` and
`M4Proposals` state safety only: that a process or request ends depends on the tools and
calls it waits for, which nothing in this repository bounds in general.

### Where the code and its documents disagree

Each of these runs is expected to end in a counterexample.

* `revived`, `EditedStaysInvalid`. Edit a version, then verify the *old* one
  again: v2 returns its old run, `submit_verification` marks the invalidated
  version running, and the next poll makes it passed. The tests and the
  platform specification want it to stay invalidated.
* `specs_unverifiable`, `TaughtSpecsAreVerifiable`. The freeze is persisted and
  then the upload of the oracle fails: the spec stays frozen without a package
  and a second freeze is refused.
* `mcp_quiet`, `ZeroMeansNoFailure`. A step fails, then the server exits; the next
  write breaks the pipe, and the handler for a closed terminal ends the sweep with
  status 0, where `verify.py:11` promises the number of failed steps.

Seen while modelling and not kept as runs:

* M1: an edit between the request and the marking of a simulation leaves the edited
  version's simulation running, because `record_simulation` refuses every later
  poll; and `assess_spec` publishes a session before it writes its row, so a freeze
  in between would be overwritten on disk.
* Page: only the polling loop of the page that submitted a check makes M1 record its
  verdict. When the page is left or one poll fails, the version stays "running" and
  its button disabled although the run has ended (the variable `lost` of `WebUI`).
* M4: of two confirms that both read the proposed row the second may write when the
  patch has been submitted: the run id is gone from the row and the patch can be
  run again. What survives the race is `ExecutedWasConfirmed`.
* M3: two overlapping runs of one comparison start from the same row, and the later
  write drops the observation, failure or cost the other one had noted, where
  `docs/TEACHING_PLATFORM_SPEC.md:58-59` wants all of them kept. `BothLegsTried`
  survives, because a whole row is replaced by a whole row.
* M2: a leg that once failed keeps its `failure_stage` when a later run submits it.
* Adapters: `docs/PLUGINS.md:113` asks for a result document that is written
  atomically; only ORAssistant and PostEDA-Bench do so, so a kill can leave half of
  one (`answer` before `seal`). A tool ended by signal 9 makes the document of
  `rtl_verify` and `rtl_sim` say -9 and the process exit with 247, where
  `docs/PLUGINS.md:135` wants the two to agree; `ExitAgrees` holds modulo 256. An
  exception that no clause names may also end a process with 1 after its document has
  said "succeeded" (`Raise`).
* A2-ORFO: the candidates are read back from the file the observations were written
  to, and the second attempt of its model provider reuses the output file of the first.

## 4. Proofs

| Theorem | Module | States |
|---|---|---|
| `SpecInvariant`, `SpecDurability`, `RejectionIsFinal`, `SpecOverlapAlone` | `M1SpecsProofs` | the properties of run `specs`, for all specs, threads and oracles |
| `SpecHalf` | `M1ServiceProofs` | `Spec => SpecSpec` |
| `ServiceInvariant` | `M1ServiceProofs` | `Spec => []ServiceInv` |
| `ServiceTypeCorrect`, `VerdictsEarned`, `LadderHolds`, `EvidenceSound`, `RowsServed`, `OwnersOnly`, `VerdictsAgree` | `M1ServiceProofs` | the safety properties of the runs, as consequences |
| `OverlapAlone` | `M1ServiceProofs` | `Spec => PartedByOverlapOnly` |
| `RowsMatch` | `M1ServiceProofs` | `Spec /\ []WritesApart => []RowsMatchAtRest` |
| `OneByOneRowsMatch` | `M1ServiceProofs` | `Spec => []RowsMatchAtRest` for one thread of each half |
| `ServiceClimbs` | `M1LadderProofs` | `Spec => ClimbsTheLadder`, the refinement |
| `ProposalsInvariant`, `OnlyConfirmedExecuted`, `HonestRows` | `M4ProposalsProofs` | the safety properties of run `m4` |
| `LabKeepsItsPromise` | `M4ProposalsProofs` | `Spec => KeepsItsPromise`, the refinement |
| `ComparisonsInvariant`, `ComparesFairly`, `LegsShareNothing`, `OwnersOnly` | `ComparisonsProofs` | the properties of run `comparisons`, for any number of comparisons, users, runs and threads |
| `ToolkitInvariant`, `SuccessIsBacked`, `ZeroIsSuccess`, `ExitsAgree`, `ToolsReadWholeFiles`, `FailuresKeepEvidence`, `FailureStands` | `ToolkitProofs` | the safety properties of run `toolkit`, for any set of adapters that is `Disciplined` |
| `PageInvariant`, `ShownIsEarned`, `NoneUnwatched` | `WebUIProofs` | the safety properties of run `web`, for any number of versions and chains |
| `PageClimbs` | `WebUIProofs` | `Spec => ClicksClimbTheLadder`, the refinement |
| `ClientInvariant`, `AnswersAreOwn`, `RepliesAreKept`, `DeadAreNotAwaited`, `NoneLeftBehind` | `McpClientProofs` | the safety properties of run `mcp`, for any number of requests and any guarded ones |
| `ClientKeepsOrder` | `McpClientProofs` | `Spec => CallsEndInOrder`, the refinement |

Assumptions: `SpecsAssumption`, `ServiceAssumption`, `ProposalsAssumption`,
`ComparisonsAssumption`, `WebAssumption` and `McpAssumption` only (`None` is none of
the values it stands in for, taught specs are specs, every spec has an owner,
M2's and M3's comparisons are different ones, instances use known endpoints and
endings, `initialize` is not guarded). The theorems of
`ToolkitProofs` read `Disciplined => (Spec => ...)`. `Disciplined` is a statement
about the constants, the order of the steps in the blocks: it is a conjunct of
`ToolInv`, so run `toolkit` evaluates it for the adapters of the repository. A new
adapter needs its blocks and that evaluation, and no new proof. Nothing is assumed finite.

**The argument.** The properties are not inductive on their own. A verdict is
written from a local record, so what must hold is a statement about every local
record in flight: it has the identity of the version it will replace and its
verdicts are earned by runs (`Sound`). That a later write cannot break another
thread's promise rests on runs only ever growing: a run once admitted keeps its
task, a terminal status is final (`Grows` in the proof). With
`OneRunPerTask` (the idempotency key), `RunsKnowTheirSpec` (owner rows and tasks
agree with the versions) and the type invariant, this gives `ServiceInv`. The
proof has one lemma per conjunct, each by cases on the action; `SoundStep` is
split into the thread that moves and the threads that do not.
`VerdictsAgree` follows from `VerdictsAreEarned` and `OneRunPerTask`: two copies
that disagree would need one run with two endings.

The refinement maps a rung to the standing of its only run. `Submit` is
`Begin`, `RunEnds` is `End`, `EvidenceSave` is `Certify`, everything else
stutters, a crash included: the abstract state is in v2 and in the database.

Memory and row of a record are written by different steps, so they differ while a
request *owes* the row (`SessionOwed`, `PackageOwed`, `VersionOwed`: between its two
writes, in whichever order it makes them). `InStep` says that nothing else parts
them. It is not an invariant: when two requests owe the row of one record at once,
the later row need not be what memory holds. `OverlapAlone` is the statement about a
single step: from a state where records match unless owed, a step keeps that or is
made while two requests owe the same record (`WritesApart` fails before or after
it). `RowsMatch` follows: in a behaviour without such an overlap rows match for
ever, crashes included. That the hypothesis is needed TLC shows on the instance of
`ladder`: an edit saves the parent between `put_version` and the assignment of
`submit_verification` (`service.py:307-309`), and memory keeps the running version
over an invalidated row. Its states are those of the run `whole`, where it holds of
every state, since one thread overlaps with nobody.

In the script lab a stale row is written over a newer one, so no statement about
states alone is kept by a `Write` unless the rows in flight are part of it:
`InFlight` says that what a request is about to submit has been confirmed and
that what it is about to write is confirmed or submitted, over a row that is at
least proposed. No write can then take a confirmation back, though it may take
a submission back. The refinement maps `Create` to `Offer` (or a stutter, for a
rejected patch), `Write` to `Agree` or a stutter, the admission of a run to
`Execute`.

In M2 and M3 a request writes back a row it read at its start, so `BothLegsTried` has to
be a statement about the record in hand: after its first leg that leg is one try ahead
(`Ahead`), before and after it the legs are level (`Balanced`), and only a level
record is written. That the runs it names are its own (`Own`) stays true while it
waits, since v2 only gains runs. The bound `MaxTries` is any number in the proof.

For an adapter, `FilesInv` says of the point reached in a `main` what the steps before
it have left: what was filled, swapped in or looked for is whole, what a tool emitted
is not partial once its return code was looked at (`Vetted`), and a partial file
was begun by an earlier step. `ResultInv` says that after "succeeded" the process only
answers and exits (`Quiet`), and that "failed" is said in an `except` clause or an
early return only, which a process never leaves for a `main`. Nested mains need that
the caller has done nothing but look before it hands over.

That the exit code agrees with the document (`ExitAgrees`) is a statement about the last
step of a block, whose document may have been written over by a handler, or by the
handler of an outer `main`. `AnswerInv` carries it from the answer to the exit: once a
block has answered, the document says what that block said, for `AnswersStand` leaves only
steps that complete files between an answer and an exit, and a block that is entered has
not answered yet. A return code that is borrowed from a tool is between -255 and 255 and,
in an excuse, not 0 (`ResultInv`), so it is not 0 modulo 256 either.

The evidence of a failed tool is a statement about blocks in order, like the rest.
`EvidenceInOrder`, a conjunct of `Disciplined`, says that whatever an `except` clause
or early return owes (`EvidenceOf`) is filled before any tool of a `main` it is a way
out of, that its answers list it, and that one around a nested `main` owes nothing.
`EvidenceInv` carries this from the tool to the answer: once in an excuse, what it and
the clauses further out owe is whole.

On the page, `WebInv` joins three statements. Every verdict, in the server's
record, in a reply under way and in the page's copy, is that of the run, and runs
only grow (`Grows`), so a copy that is stale is still earned. A version that is
running carries its run id, so a poll of its verification is not refused. And each
running version that is not `lost` has a watcher; a step moves one chain, and
`StaysWatched` leaves only that chain to be looked at. That the page climbs the
ladder (`PageClimbs`) rests on its runs alone: `Submittable` looks at the server's
record, and a simulation needs a verdict that `WebInv` knows to be earned.

In the MCP client a reply moves from the server to the pipe, the queue and the
caller; that it is in one place only is not inductive, because the pipe and the
queue might hold it twice. `Once` excludes that: what enters the pipe comes from
the inbox, what enters the queue comes from the pipe. `NeverWaitsForTheDead`
needs that the reader stops only after the server, so that a request made after
the end mark was put meets a broken pipe. The lemmas on `Append` and `Tail` say
what the two sequences hold after each of their operations. The refinement to
`Calls` maps the request that waits to the open call, and counts a reply wherever
it is on its way, so that the reader's steps and `SetAside` stutter, `Receive` is
`Return`, and the end mark, the deadline and the broken pipe are ways to fail. It
needs that a waiting request has returned nothing yet, a conjunct of `ClientInv`.

**Only model-checked.** Liveness (`VerificationSettles`, `VerificationIsObserved`,
`RequestsEnd`): the prover has no rules for fairness and `ENABLED`.
Every invariant, action property and refinement of the passing runs is stated by a
theorem.

## 5. Not modelled

* A row write of M1 that fails with a database error: memory then keeps what the row
  has not, which `SpecPartedByOverlapOnly`, `PartedByOverlapOnly` and their theorems
  leave out. A process that stops between the two writes is modelled.
* The reader thread of the MCP client ended by a line that is JSON but no object
  (`mcp_client.py:166`).
* The launchers `orfs`, `agenticpd`, `rtlscout` and `taiwei_pin_3d`, which hand over to
  code that is not in this repository.
* The raw make log as evidence: `orfs_agent_reproduction_adapter.py:743` speaks of it,
  the handler lists it when it is there, and it is written only after make, so that it may
  be missing or cut short. `EvidenceOf` has what is complete before make starts.
* How long a tool or git may run: `ProcessGuardian`, outside this repository, owns the
  timeouts (`docs/PLUGINS.md:135-137`).
* What the documents of the adapters contain: candidates, metrics, scores, the
  policies that propose them, and the requests to the model provider of A2-ORFO.
  `Toolkit` knows only that they are complete, listed and in order. They are numerical
  code and upstream code loaded at run time; what could be checked of it are
  functions over bounded inputs, next to which the order of steps is the harder part.
* Costs, durations and cases of an M3 comparison, which follow the observations.
* The spec form, login, the editor's text and the RTL-to-GDS panel of the page. The
  panel polls and shows evidence, and its server half is in `M1Service`.
* The validation rules of `packages/contracts`, other than the statuses the
  modules use: records without a state.
* v2 itself, its workers and its database: another repository, modelled as far as
  the clients here use it. The call that links a run of v2 to a process of `Toolkit` is
  there too, so the two are not composed: `RunEnds` may end a run either way.
* The netlist preview and the catalogues (pure rendering and static data), the
  prompt of the M1 generator, operations, benchmark and deliverable scripts,
  deployment files. The HTTP layer's own limits (body size, content type) do not
  change any state.
