# Observability Kit: TLA+ models and proofs

This directory holds TLA+ models of the programs in this repository that keep
state, the TLC runs that check them on small instances, and TLAPS proofs of
what matters most for instances of every size. `PROJECT.json` lists the runs,
the mutants that show each property can fail, the source lines behind every
definition, the hazards and the theorems.

Paths below are relative to `src/`.

## The system and its parts

| Part | State it keeps | Operations | Talks to |
| --- | --- | --- | --- |
| Tenant control plane `services/tenancy/tenantctl` | JSON files: tenant records, completed transitions, audit, evidence, prepared commits; directories of the GitOps tree | create, update, legal hold, provision, suspend, resume, offboard, purge | the config renderer's `execute_plan`; portal |
| kagent controller `services/ai/airuntime/kagent.py` | casefiles, approvals and audit in PostgreSQL or SQLite; one thread per request and per investigation | trigger, decide, evaluate timeout, investigate, execute the approved action | khook posts to it; it calls the gateway |
| khook `services/ai/airuntime/khook.py` | in memory: seen uids, windows, dispatch times | poll, process, post | Kubernetes event list, controller |
| MCP gateway `services/ai/airuntime/gateway.py` | in memory: registry with health, journal; one thread per request and one for the heartbeat | invoke, probe | controller calls it; it calls the tool hosts |
| Tool hosts `services/ai/airuntime/mcpserver.py` | none | invoke, health | gateway |
| Guided installer `tools/obskit/obskit/install` | an output directory and its journal `install_state.json` | seven steps, resumable | preflight and evaluation; cluster or snapshot |
| Config renderer `tools/obskit/obskit/configrender` | the GitOps working tree and the render manifest | render, check, drift, rollback | Git, portal |
| Portal `services/portal/portalsvc` | the unified document (configflow); nothing else | plan and commit an edit, delegate tenant operations, views | renderer, tenant control plane |
| Commercial `services/commercial/commercialsvc` | a usage index per day | collect a window, build an invoice | OpenSearch |
| Discovery executor `tools/obskit/obskit/{preflight,discovery,evaluate}.py` | two report files, four artifacts | preflight, discover, evaluate | cluster or snapshot; installer |
| Jobs, RCA, retrieval, scripts | none between calls | | |

What is hard in them: threads of the controller that read a row, decide on the
copy and write a whole row back; a dispatcher whose memory disappears while
its input list does not; three overlapping time windows; handlers and tools
that write many files one by one, some atomically and some by truncating them,
and may die between any two; a registry whose fields one thread changes while
others read them; reports and measurements taken at one moment and combined
with those of another; journals and manifests that describe the files
beside them and can be wrong about them; time limits (approval timeouts,
retention windows) read at one moment and used at another.

What makes each part correct:

- control plane: the state machine and its retention clock are obeyed whatever
  fails half way, re-runs are replays, deletion evidence belongs to the
  deletion it documents;
- controller: no write action without its own human approval, the case record
  says no more than happened, one investigation per incident;
- khook: no event is dropped in silence, the load on the controller is bounded,
  the loop never stops;
- gateway: no call runs that the contracts forbid, an HTTP status means what it
  says of the tool, the registry follows the hosts and the journal the registry;
- installer: a resumed run leaves what a fresh one would, invalid answers are
  never rendered, no step overtakes a failed one;
- renderer: idempotent but for the layouts it mishandles, reversible with a proof
  that means something, drift never overlooked, an edit that is refused writes
  nothing;
- commercial: collecting a window again counts nothing twice, and an invoice
  charges what the surfaces say;
- discovery executor: the verdict is the one the cluster calls for, a subject
  that passes the permission check can be discovered, a failed check is reported.

## Modules

| Module | Models | Extended or instantiated by |
| --- | --- | --- |
| `LifecycleContract` | what the tenant lifecycle and overlay contracts promise | `TenantControlPlane` (refinement) |
| `TenantControlPlane` | `tenantctl` | `MCTenantControlPlane`, `TenantControlPlaneProofs` |
| `KAgentController` | `kagent.py` with what it uses of `policy.py`, `store.py`, `httpd.py` | `KAgentControllerProofs` |
| `DedupeContract` | what the dispatcher promises, told by its history | `KHook` (refinement) |
| `KHook` | `khook.py`, with the controller reduced to its active casefiles | `KHookProofs` |
| `InstallFlow` | `obskit/install`, `emit.py` | `MCInstallFlow`, `InstallFlowProofs` |
| `ConfigPropagation` | `configrender` and the portal's `configflow.py` over one tree | `MCConfigPropagation`, `ConfigPropagationProofs` |
| `RuntimeContracts` | the tables of `contracts.py` and the pure decisions of `policy.py` | `McpGateway` |
| `ToolCall` | what an HTTP status of the gateway promises its caller | `McpGateway` (refinement) |
| `McpGateway` | `gateway.py` with what it uses of `policy.py` and `httpd.py`, and the tool hosts of `mcpserver.py` | `MCMcpGateway`, `McpGatewayProofs` |
| `Invoicing` | `invoicing.py` as operators | `UsageMetering` |
| `UsageMetering` | the collector: `metering.py`, `builder.py`, `sources.py`, `sinks.py`, `validation.py` | `MCUsageMetering`, `UsageMeteringProofs` |
| `Evaluation` | `evaluate.py` and the tables of `contracts/compatibility` as operators | `DiscoveryExecutor` |
| `DiscoveryExecutor` | `preflight.py`, `discovery.py`, `evaluate.py`, `reader.py`, `cli.py` | `MCDiscoveryExecutor`, `DiscoveryExecutorProofs` |

Four modules compose components that interact. `McpGateway` holds the gateway
and the tool hosts behind it, and `DiscoveryExecutor` the three commands with
the files between them. `KHook` contains the controller's
dedupe rule, because what reaches a casefile depends on both memories.
`ConfigPropagation` contains the CLI and the portal as writers of the same tree,
with the operator's Git.

Operators whose comment begins with "Mutant:" are not part of any
specification. Each is a plausible mistake in the definition after it.

### TenantControlPlane

Each variable below the clock is a family of files. A request is one decision
step (`Begin` with the verdict of all gates and every clock reading), then one
step per file in the code's order: for `_apply`, the isolation directory, the
overlay, the prepared commit, evidence one category at a time, the tenant
record, the completed record, the audit record. `Crash` ends a handler between
any two of them. `InterruptedWrite` also leaves part of a directory, because
rendering and `rmtree` work file by file; records go through `_write_atomic` and
are never torn. Handlers do not interleave: the FastAPI coroutines call the
synchronous service without awaiting inside it, so one process runs one handler
at a time.

### KAgentController

One step is at most one store call. The store locks each call and no more, so
reads are copies, `upsert_casefile` replaces a whole document, and a thread acts
on what it read before. Two history variables record where threads met:
`forked` has the correlations of which two triggers overlapped between the
dedupe scan and the insert, `contested` the casefiles whose approval was read
while another request was at work on the casefile or its investigation was not
done. The code loses updates and forks incidents there (see the observations),
so the properties of single casefiles exempt just those casefiles, and none
because of what happens on another. `Crash` empties
the threads and keeps the tables. `executions` counts what the tool really did:
an answer "executed" is one; a denial, or no answer at all, may or may not be
one, because the gateway denies a tool call that outlives its timeout.

### KHook

A poll lists all objects, which are taken in any order, and every event of the
poll is processed at the one clock reading taken after the fetch.
`Restart` forgets the processor and keeps the list. The burst window, a list in
the code, is the set of its entries: each stands for one uid, the code asks only
for its length and drops what is too old (the two timestamps that a summary
quotes are left out). `sent`, `processed`, `opened`,
`undelivered` and `owed` are history.

`DedupeContract` has no memory but that history: an event is told alone, in a
summary or not at all, according to all events and envelopes of its key since
the process started. `DecidesFromHistory` says that the pruned window and the
two remembered times never decide otherwise. `ReopenedOnlyByBurst`: within the
dedupe window of an envelope that opened a casefile, alone or as a summary, a
later one opens another only if it is a summary or tells of an event that the
earlier one covered as well.

### InstallFlow

`Start` resolves answers and loads the journal; `Skip`, `Execute`, `Write` (one
per file) and `RecordStep` (journal rewrite) follow the loop of
`_execute_flow`. A report is represented by the inputs it was computed from,
which is all the properties compare. `write_text` truncates before it writes,
so `Crash` may leave the file of the moment torn. The operator may edit or
remove files, and a live cluster may change.

### ConfigPropagation

A file is an adoption mark, the values at its bindings, for an Application the
place of its automated block, and everything else in it. Several bindings may
patch one file: their patches accumulate in one text, and a key that the
document does not bind keeps its value (`Patched`). Of an Application the model
keeps what `apply_sync_policy` depends on (`Syncs`): whether the block is there
and in the fixed form, whether it is where the renderer would insert it
(`home`) or elsewhere (`own`), where comments or blank lines follow, where
content follows, and whether the file still ends with a newline. A plan
and its manifest are the same record: the manifest lists a digest of each text
and each recorded neighbour, and different texts have different digests. A
plan is computed in one step, because it reads and does not write. `execute_plan`
is one step per target and one for the manifest. `Crash` ends a writer between
two of them and `CrashInWrite` inside one. Half a JSON file does not parse. Half
a YAML file that ends with a line does, so the half may be `Torn` or an
acceptable file with its rest cut, and half an Application may have lost the
block or what followed it (`HalfSync`). `EditTree` is a hand edit at any moment.
Abstracted: the lines of a gap are only there or not; `--check`, dry-run
and `plan_edit` write nothing and appear as the plans they compare.

### McpGateway

No lock guards a registry entry, so the heartbeat thread is one step per field
it reads or writes, and a request thread reads `healthy` and `registered` in two
steps. An envelope is a record of what the checks of `_handle_invoke` ask of it;
they read nothing that changes, so `Receive` takes all of them in their order.
After the POST the call has a life of its own: the host may run it (`HostRuns`)
before or after the gateway gives up (`TimeOut`), or never (`CallLost`).
`AnswerUnrecorded` is an early 400, or an exception that `httpd.py` turns into a
500, neither of which reaches the journal. `seen` is history: the service was
routable at a moment between the two reads of the request. A host whose answer
breaks the response schema is one of another build than `mcpserver.py`, whose
own answers conform.

### UsageMetering and Invoicing

A job reads the ingest statistics one signal at a time, then the descriptors,
then the audit counts, and upserts what it built in one bulk request. Any
request may fail. The bulk request may also be refused for one item, or take
effect and lose its answer. Jobs overlap and the surfaces change between any
two reads. Two indices whose names read as the same tenant and signal give two
items with one id, of which the later in the order of index names (`NamesAfter`)
wins; a refused item lets the other one stand. A tenant id is the sequence of its hyphenated parts, because the
collector takes tenant and signal out of index names. `whole` and `current` are
history of the last write to a day. Amounts are whole units: the rounding to
six decimals of the code is not represented.

### DiscoveryExecutor and Evaluation

A command is one step per check, per section of the discovery report, and per
file it writes. A check or section reads at one point; between two of them the
cluster may change. A live read raises when the cluster is gone or the
permission missing; a snapshot answers all reads. A process that dies before it
writes leaves nothing, so only deaths at a write are steps (`WriteFails`).
`basis` is history: what the last completed `evaluate` rests on. The tables of
`contracts/compatibility` are transcribed in `Evaluation`, and the samples that
`GRADING_RULES.json` gives are an `ASSUME` of `MCDiscoveryExecutor`, which TLC
evaluates.

## Runs

Passing runs. Each property has a mutant that violates it under the same cfg.

| Run | What it shows |
| --- | --- |
| `tenant_lifecycle` | `NoRecordLeak`, `EvidenceCoversPurge`, `EvidenceTruthful` hold wherever handlers die; `RerunIsReplayUnlessCrashed` and `AuditMatchesRecord` without deaths; the plane implements `LifecycleContract` (`ImplementsContract`); a purge that keeps failing completes (`PurgeCompletes`) |
| `kagent_controller` | under any race and restart `ActionsAreApproved` and `JournalIsAudited`; an incident has two active casefiles only if two of its triggers overlapped or a request on one of them met another thread there (`NoDuplicateUnlessRaced`); on a casefile where no threads met `TablesAgreeUnlessRaced`, `DecisionsAreFinal`, `LifecycleUnlessRaced`; `DecisionReachesCase` |
| `khook` | `EveryEventCovered`, `AtMostTwoPerWindow`, `SummariesCountOnce`, `ReopenedOnlyByBurst`, `EventsAreProcessed`; the dispatcher implements `DedupeContract` (`DecidesFromHistory`) |
| `install_flow` | `SuccessMatchesInputs`, `OnlyValidRendered`, `NoStepAhead`, `RerunChangesNothing` |
| `config_propagation` | a finished render is idempotent exactly if it left no Application that the next patch damages (`IdempotentUnlessFragile`); a commit whose files are reversible rolls back with its proof (`RollbackIsProvable`); `ProofMeansBytes`, `DriftSeesEveryEdit` |
| `mcp_gateway` | whatever the heartbeat does between two unlocked reads, a call goes to a service that was routable (`RoutedWasRoutable`); registry and journal agree (`JournalTellsHealth`); no forbidden call runs (`OnlyPermittedRun`); a call that ran is recorded once (`RunIsRecorded`); each status keeps the promise of `ToolCall` (`HonoursToolCall`); the registry comes to agree with the hosts (`HealthConverges`) |
| `usage_metering` | after any overlap, failure and repetition, the last complete collection makes the window coherent (`WindowIsCoherent`) and the invoice equal to what the contract derives from the surfaces (`InvoiceMatchesUsage`) |
| `discovery_executor` | grade and mode are those the observed cluster calls for (`VerdictMatchesCluster`); passing `required_permissions` means every read is allowed (`PermissionsCoverReads`); artifacts of a completed evaluate agree (`ArtifactsAgreeUnlessInterrupted`) |

Runs in which the code and a sentence of the repository disagree:

| Run | Sentence | What happens |
| --- | --- | --- |
| `tenant_purge_residue` | purge deletes every access artifact | isolation class changed after provision: the overlay stays |
| `khook_retry` | "log and retry next poll" | the next poll takes the event for a duplicate |
| `config_rollback` | revert and re-render reproduces the committed bytes | skipped and unbound targets keep the later render |
| `config_idempotent` | an unchanged document produces no diff and no commit | an automated block at the end of an Application takes the final newline along: the second render differs or fails |

Each is written up under `findings`, with the line quoted.

### Bounds, and why they are enough

- `tenant_lifecycle`: one tenant, since tenants share no file; two documents,
  with and without an overlay; the clock reaches 2, so that approvals and the
  retention window of one tick occur before, at and after their ends; one
  death. The id is reused, so several lives occur. `tenant_purge_residue` has a
  third document, whose region is not allowed, and no death.
- `kagent_controller`: two requests at a time and two casefiles, so that
  triggers overlap and incidents are duplicated or kept apart. Once threads met
  on a casefile there is only one (`MaxContestedCases`): its own properties are silent
  from then on, and the two about every race, `ActionsAreApproved` and
  `JournalIsAudited`, relate rows of one casefile; that a meeting on one leaves the
  others alone is what the proofs add. Two
  specialists; a pending timeout the clock reaches and then passes; one restart. Deadlock is
  not checked because a controller with no caller rests.
- `khook`: one key, because everything but the loop is indexed by key; four
  events for a burst limit of one; windows of 3 and 2 ticks on a clock that
  leaves both; one fault. A casefile closes at any moment and as often as it is
  opened. Events and ticks come between polls, because a poll
  works on a list it has already fetched at a time it has already read; uids are
  numbered in creation order, which is a renaming.
- `install_flow`: four clusters (two good ones, one blocked, one failing), three
  answers documents (one invalid), two flag sets, three runs, one fault.
  Clusters, valid answers and flags of the same kind are interchangeable, hence
  the symmetry. Three runs are: a first, one with other inputs, one with the
  first inputs again. Deadlock is not checked because the runs are counted.
- `config_propagation`: one target of each strategy, the values file with two
  bindings; two documents that differ in every value, in the gate and in what
  they bind, one of them only one key of the values file, and a third that is
  invalid; four layouts of an Application (the block first and among content,
  as the repository has it; further down, before a gap; last in the file; no
  syncPolicy at the end); two
  commits; one fault, of any kind at any place. `config_idempotent` and
  `config_rollback` need no fault.
- `mcp_gateway`: one request, because requests share only the registry, which
  they read and never write; 26 envelopes, each correct or with one defect; two
  services, so that the loop goes on from one to the next; a threshold of 2 and
  a counter that stops at 3; four faults, enough for a service to go down, come
  back and lose another probe.
- `usage_metering`: two tenants (one id of two parts), two signals, two days, two
  jobs that may overlap on a day, one change of a surface and one failed
  request; volumes below and above their bound, and query counts that fill a
  block only over both days. The ids are ones that index names tell apart; the
  exceptions of `InvoiceMatchesUsage` for others are not exercised.
- `discovery_executor`: thirteen clusters, one supported throughout and the
  others each different in one respect; both readers; four option sets, one for
  each mode or gap; four commands, which is a preflight, a discover and two
  evaluations or one repeated observation; one change and one failed write.
  Deadlock is not checked because commands are counted.

### Fairness

- Control plane: a running handler goes on (weak). Time passes between requests
  however many there are, and an operator who wants the tenant gone runs purge
  again whenever its preconditions keep coming true (strong): the contract
  speaks of re-running, so someone must.
- Controller: threads run on to their end (weak). A tool call ends because the
  client's timeout is 35 s. Nothing is assumed of callers.
- khook: the loop goes on (weak), because fetch and post have timeouts and every
  exception is caught. Polls are assumed not to fail for ever.
- Gateway: the heartbeat thread is an endless loop and each probe has a timeout
  of 5 s (weak); a request thread runs until it has answered, and its POST has a
  timeout (weak). Nothing is assumed of hosts or callers.
- The installer, the renderer, the collector and the executor have no liveness
  property; no fairness is assumed.

## Proofs

The theorems hold for every value of the constants allowed by the named
assumptions, in particular any number of tenants, requests, events, targets,
runs, restarts and ticks. Each rests on an inductive invariant, given below with
what it adds to the property. In parentheses, the property of a run that the
theorem states.

- `TenantControlPlaneProofs`: `TypeCorrect`, `RecordsNeverLeak`
  (`NoRecordLeak`), `PurgeIsEvidenced` (`EvidenceCoversPurge`),
  `EvidenceIsTruthful` (`EvidenceTruthful`), `AuditNamesTheAnchor`
  (`AuditMatchesRecord`), `RerunsAreReplays` (`RerunIsReplayUnlessCrashed`), and
  `ControlPlaneImplementsContract` (`ImplementsContract`), the refinement of
  `LifecycleContract` step by step. `IndInv` adds `HandlerInv`: what the
  locals of a handler at each `pc` say of the files, which is what makes the
  record writes of a handler fit the decision it took several steps earlier.
  `EvidenceInv` adds `PurgeInv`: how far the evidence of the running purge has
  come. `ControlInv` adds `LocalsInv` (a replay carries the anchor of its
  completed record, a purge that is being applied still meets its
  preconditions and has removed what its evidence will say), and the two
  properties of trail and records extended to the places between two writes of a
  handler (`AuditInv`, `RerunInv`).
- `KAgentControllerProofs`: `ControllerTypeCorrect`, `WritesAreApproved`
  (`ActionsAreApproved`) and `JournalsClaimOnlyAudited` (`JournalIsAudited`)
  under every race; `OneCasePerIncident` (`NoDuplicateUnlessRaced`),
  `TablesAgree` (`TablesAgreeUnlessRaced`), and the action properties
  `DecisionsStayFinal` (`DecisionsAreFinal`) and `LifecycleIsFollowed`
  (`LifecycleUnlessRaced`). `CopiesInv` says which rows a thread's copy stands
  for. The counting argument is `ApprovedInv`: executed actions and the requests
  on their way to one (`Going`) together never exceed the approvals audited. A
  thread enters `Going` in the step that writes the audit record and leaves it
  in the step that may execute. `JournalInv` is the same kind of argument for
  the claims of casefiles and of the copies that threads will write back.
  `SerialInv` says of every casefile that is not contested that a copy equals its
  row and the row is at the place in its lifecycle that the thread's `pc`
  implies, whatever is going on elsewhere. `DupInv` adds for duplicates what a
  trigger between its scan and its insert may find: no active casefile of its
  correlation, unless that is forked.
- `KHookProofs`: `DispatcherTypeCorrect`, `NothingDroppedSilently`
  (`EveryEventCovered`), `LoadIsBounded` (`AtMostTwoPerWindow`), `CountsAreRight`
  (`SummariesCountOnce`), `OnlyBurstsReopen` (`ReopenedOnlyByBurst`), and
  `MemoryDecidesAsHistory` (`DecidesFromHistory`), the refinement of
  `DedupeContract`.
  `CoveredInv` says that each remembered dispatch and summary time is that of an
  envelope really built (`MemoryInv`) and not in the future (`ClockInv`).
  `SpacingInv` says how far apart envelopes of a key are, singles by the dedupe
  window and summaries by the burst window, and that the memory has the last of
  each; `CountInv` that every event is processed once, with one key at one time,
  and that windows, single dispatches and summaries speak of those events, a
  summary only of those within its burst window. `PriorInv`, for the reopening:
  a single dispatch within the dedupe window of another envelope of its key is
  covered by it, since a summary sets the remembered dispatch time as a single
  dispatch does. For the refinement `KeptInv`
  adds the converse: an event still within the burst window is still in the
  memory, so that the window an event joins holds exactly the recent events of
  its key (`JoinedIsRecent`). Assumed: the burst window is not longer than the dedupe
  window (otherwise a summary's silence outlives the dedupe memory), and None is
  no time.
- `InstallFlowProofs`: `TypeCorrect`, `OnlyValidAnswersRendered`
  (`OnlyValidRendered`), `StepsInOrder` (`NoStepAhead`), `SuccessIsDeterministic`
  (`SuccessMatchesInputs`) and the action property `RerunsChangeNothing`
  (`RerunChangesNothing`). `FlowInv`: the journal is readable while a run works
  with it, cached and pending answers are validated ones, and all steps behind
  the current one are complete in the journal for the digests of this run.
  `FilesInv`: what the journal vouches for is what is in the files, or they
  are missing and the step will not be skipped; it has parts for the records,
  the files, the writes that are pending and the arguments. `SettledInv`
  describes the directory after a success. Assumed: the absence of a
  digest is not a digest, a torn file is no report and no answers document, and
  a truncated journal does not parse.
- `ConfigPropagationProofs`: `PropagationTypeCorrect` (`TypeOK`),
  `IdempotentExactly` (`IdempotentUnlessFragile`), `RollbacksAreProvable`
  (`RollbackIsProvable`), `ProvenRollbacksRestore` (`ProofMeansBytes`),
  `DriftIsComplete` (`DriftSeesEveryEdit`). `PropagationInv`: every commit is the
  render of its document over its own tree that a second plan does not change, a
  writer's plan is the plan over the tree it has partly written, and what
  renders keep of a file is what the commit has of it. Four lemmas carry it:
  rendering a rendered file again changes it only where `apply_sync_policy` does
  (`RenderedAgain`); a patch of a block is a fixed point if it leaves nothing
  fragile (`SyncAgain`, with `FixedIsNotFragile` for the converse); files that differ only in what renders
  write (`Alike`) render to the same text if the document writes all of it and
  the block is at home (`RenderedOfAlike`); writing one artifact of a plan leaves
  the others to be written (`WriteInPlace`).
- `McpGatewayProofs`: `HealthIsJournalled` (`JournalTellsHealth`),
  `RunsAreRecorded` (`RunIsRecorded`), `RoutedCallsWereRoutable`
  (`RoutedWasRoutable`), `OnlyPermittedCallsRun` (`OnlyPermittedRun`), and
  `GatewayImplementsToolCall` (`HonoursToolCall`), the refinement of `ToolCall`.
  `RegistryInv` says of each registry entry
  what holds at rest (`Settled`) and at every place inside a heartbeat round
  (`InRound`): in both kinds of round the journal says "registered" on the way,
  since a recovery is recorded first and a loss last. `CallsInv` says that a
  posted call has passed the checks, and that its answer and its record fit what
  became of the POST. `RouteInv`: a request between its two
  reads that finds its service registered has met a moment at which it was
  routable, which follows from the order in which the heartbeat changes the two
  fields. Assumed:
  `GatewayAssumption` (a non-empty catalog of distinct services, a positive
  threshold not above the cap of the counter) and `EnvelopeAssumption`.
- `UsageMeteringProofs`: `WindowsAreCoherent` (`WindowIsCoherent`) and
  `InvoicesAreRight` (`InvoiceMatchesUsage`). `ReadersInv` says what a job has
  read when it is at each `pc`: among others one retention for every tenant, and
  no two statistics of one index. With it `DocsInv`, the first property, is
  inductive: of the items of one id exactly one wins (`SomeoneWins`,
  `IndexedDistinct`), and a partial write still has valid, distinct records
  (`PartlyFits`). `TruthInv` says that the readings of a job which is not torn are
  those of the surfaces as they are, and `CurrentInv` that a current window has
  every record the surfaces call for. With distinct ids and no record of a
  vanished index it has no others (`DocsExact`). What remains is arithmetic: the
  invoice adds up by dimension and signal, record by record, the contract day by
  day (`InvoiceOverage`, `OwedOverage`). Assumed: signals are distinct, index
  names of a signal have a total order, and the period is finite and not empty
  (`build_invoice` refuses an empty one).
- `DiscoveryExecutorProofs`: `PermissionsSuffice` (`PermissionsCoverReads`),
  `ArtifactsAreOfOnePiece` (`ArtifactsAgreeUnlessInterrupted`),
  `VerdictsAreRight` (`VerdictMatchesCluster`). `ReportsInv` says that a report
  whose epoch is the current one contains what the checks and sections give over
  the cluster as it is, also while it is being assembled. `ArtifactsInv` says
  that there are two reports from which all four artifacts were computed. The
  rest is about `Evaluation`, for every cluster and report: which reasons a grade
  is made of (`GradeMeaning`), which profile is selected (`ProfileMeaning`),
  which rule decides the mode (`FirstRule`). Assumed: the flags are those of the
  command line.

`Pick`, with which `Evaluation` filters sequences, is a recursive function. What
it computes for sequences of any length is proved without an induction rule: the
set of prefixes on which it would be wrong has, if it is not empty, a least
element (`WFMin` of the library), and that is refuted.

The sums of `Invoicing` are `SumFunction` of the community module `Functions`,
which chooses a recursive function on the subsets of the domain. The same
argument by a smallest counterexample shows that there is such a function and
only one (`SummingExists`, `SummingAgree`), and `Accumulate` turns it into an
induction over finite sets stated for a set of good subsets, which the provers
can instantiate. From it follow the laws the invoice needs: sums over unions,
over one-to-one images, of scaled and added functions, and the exchange of two
sums.

The type invariants of the tenant, controller, dispatcher and installer models are proved
and therefore not part of their runs.

Checked by TLC only:

- liveness, since fairness is out of the prover's reach: `PurgeCompletes`,
  `DecisionReachesCase`, `EventsAreProcessed`, `HealthConverges`;
- the four properties of the runs that expect a violation, which are false.

Several hazards in `PROJECT.json` have no property, or fewer than their words: they
are places where the code does lose an update, a record or a file, or where
nothing in the repository says what should happen. Properties named "Unless"
exempt exactly the histories in which one of them struck; each such hazard has
a note that says what still holds.

## Observations without a run

- Control plane: `_apply` writes the tenant record (`service.py:513`) before the
  completed transition (514-516). A handler that dies between them leaves a
  transition that is neither replayable nor legal, although
  `TENANT_LIFECYCLE_CONTRACT_V1.yaml:78-82` says a partially failed provision is
  safely re-run; `RerunIsReplay` fails as soon as crashes are allowed, hence
  `RerunIsReplayUnlessCrashed`.
- Controller: two overlapping triggers with one correlation id both pass the
  dedupe loop (`kagent.py:130`) and open two casefiles; a rejection between
  `insert_approval` (615) and the investigation's last save (622) is
  overwritten, although the comment at 245 says it is part of the case record,
  and the casefile is active again, next to one that a trigger opened meanwhile.
  Two decisions that both read a pending approval are both carried out.
- Purge leaves the tenant's shared isolation directories in the tree.
- The overlay is removed before the deletion evidence is written, against the
  wording of the comment at `service.py:479`.
- A blocked action takes a casefile from `executing` to `rejected`, a transition
  the table in `CASEFILE_LIFECYCLE_V1.md` does not have (`LifecycleUnlessRaced`
  names it).
- After a restart khook dispatches up to two envelopes per key, one alone and
  one summary, where the comment says one. `suppressed_event_count` is one too
  low when the event sent alone is older than the burst window. A burst that
  outlives its casefile opens another within the dedupe window.
- Installer: a run that dies while it rewrites `install_state.json`
  (`emit.py:31`) leaves a truncated journal, and every later run is refused
  (`flow.py:520`) where the guide (`GUIDED_INSTALLATION_GUIDE.md:18`) promises to
  resume; flags enter no digest, so a re-run with other flags keeps old
  reports; a run with other inputs that dies between a write and its record
  leaves outputs that a later run with the first inputs accepts
  (`SuccessMatchesInputs` excludes both by `reflagged` and `interrupted`); the
  hint to re-run for re-verification (`flow.py:480`) does nothing in snapshot
  mode, where readiness is skipped; the overlay of an earlier environment stays
  in `rendered/`.
- Renderer: `RollbackIsProvable` needs its condition. `grafana-values.yaml` has two
  bindings and the domains of a document are optional
  (`UNIFIED_CONFIG_SCHEMA_V1.json:16`): a document that binds one key only leaves
  the other at the value of a later document, so the digest of the file is
  another one and the rollback is refused. Switching auto-sync off and on moves
  the block to the first place in syncPolicy (`patch.py:376`) and drops the
  comments behind it, which is refused as well. A torn JSON target makes every later render, drift and rollback
  fail; a YAML target cut at a line end is adopted by the next render, although
  the runbook (`UNIFIED_CONFIGURATION_RUNBOOK.md:622`) says a re-render repairs
  it; a render adopts any hand edit outside the patched value. Rendering the
  canonical sample over this repository's own tree stops with exit code 2,
  because `gitops/apps/kustomization.yaml` has no `spec` key.
- Gateway: an `input` of null passes the checks, the tool runs, and the handler
  raises before the journal record (`gateway.py:410`), although the module
  promises a full audit journal per invocation; 400 and 500 answers leave no
  record; the journal says "executed" also when the host answered "blocked" or
  "rolled-back"; "re-registered" is recorded before the entry is repaired;
  `/catalog` goes on listing a service that is no longer registered, where
  `GATEWAY_DISCOVERY_CONTRACT` speaks of removal.
- Metering: an id such as `a-logs-b` has index names that read as tenant `a`
  (`sources.py:34`), so that its usage is charged to another; on a day without
  audit events the search answers 404 and the window can never be collected,
  although `builder.py:211` builds zero records; a record whose index has gone
  stays and is charged; one bad audit key rejects the whole window; an older job
  that ends last overwrites a newer one.
- Executor: with an unreachable cluster, or without the right to list nodes,
  preflight ends with a traceback and without a report: `cluster_info`
  (`preflight.py:409`) is outside the handler, although the comment at 394-397
  promises a report. Failing checks whose reason is not in `REMEDIATION_CATALOG.json`
  (permissions, storage, connectivity) do not touch the grade, and a preflight
  that skipped the gateway check can be graded supported; preflight and discover
  recognise GitOps controllers by different rules; a failed discover leaves the
  old report, and evaluate compares only the cluster block; the mode table has
  no rule for two combinations of inputs, which end with exit code 1; an
  interrupted evaluate leaves artifacts of two runs.

## Plan

Done: the components above, in the order of their risk.

Proved: every safety property of the passing runs, and the three refinements.

Left: the liveness properties stay with TLC. An abstract specification in
the manner of the other three could be stated for the installer (a run is an
atomic function of its inputs).

## Not modelled

- The portal's tenant routes, roles and views: they delegate every change of
  state to the control plane or to `configflow.py`, which are modelled.
- The model provider and the sample findings of the tool hosts: fixed answers.
- The fixture source, the file and in-memory sinks of the collector, which exist
  for tests and offline use, and the re-check of an emitted invoice.
- The simulator under `install/discovery-engine`, which `obskit` replaces.
- HTML pages, shell validators, drill wrappers and harness, the small pipeline,
  graph, RCA and retrieval helpers (pure functions of a few lines), adapters and
  contracts (data).
