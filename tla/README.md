# Delta Funnel: TLA+ models and proofs

Delta Funnel registers Delta Lake tables in a DataFusion session, lets the
caller derive tables from them with SQL, and bulk-loads the results into SQL
Server in one of three load modes (append, create, replace). `write_all` writes
several outputs of one session, one after the other, and caches the aliases
they share while it does so.

This directory models the parts whose correctness depends on interleavings,
failures half-way, lost answers and the order of calls. TLC checks the models on
small instances; TLAPS proves the most important invariants for every value of
the constants. `PROJECT.json` gives, for every definition, the source lines it
stands for, and for every hazard the properties aimed at it.

Paths below are relative to `src/crates/delta-funnel/src/` unless they say
otherwise.

## The system

| Component | State | Operations | What is hard about it | Status |
|---|---|---|---|---|
| One-output sink: `sql_server/execution/{sink,lifecycle,write,connection}.rs` | the server's tables, staging and backup names, the swap's application lock, the report | connect, probe, create, bulk write, validate, swap, clean up | other runs between any two statements, lost answers, crashes, names that run out | `MssqlSink` |
| Multi-output workflow: `sql_server/execution/workflow.rs` | statuses of the outputs | write one, skip the rest after a failure | what is reported after a partial failure | in `WriteAllCache` |
| `write_all`: `orchestrator/session/sql_server_workflows/write_all/` | the catalog's providers, active replacements, alias reports, events | plan, materialize, replace, write, restore | calls that overlap, failures of single catalog operations, cancellation | `WriteAllCache`, `CachePlan` |
| Partition collection: `cache_alias.rs`, `query_handoff.rs` | tasks, streams, coordinator, counters | poll, end, fail, panic, abort, join, finalise | which stream is last, outcome order, abort and drain | `PartitionCollection` |
| Session registry and lineage: `orchestrator/session/registry/` | sources, pending and registered derived tables, the catalog | `delta_lake`, `table_from_sql`, `register_alias` | views that stay bound to old providers, lineage that is advisory | `SessionRegistry` |
| Source and dry-run reports: `source_report.rs`, `dry_run_report.rs` | none | usage of sources by outputs | incomplete lineage upstream | usage in `CachePlan` |
| Operator activity and profiling: `query_engine/datafusion/operator_activity.rs`, `operator_activity/task_tracing.rs`, `profiling.rs` | worker lanes, span budget, identity of tasks | start and close a span, acquire and release a lane, draw on the budget, poll a spawned task | threads that share lanes and a budget | `OperatorActivity` |
| Terminal profile: `execution_profile.rs` | none | number the operators of a plan | shared operators, two traversals that must agree | `PlanProfile`, `PlanNodes` |
| Python calls: `session.rs`, `table.rs`, `profiler.rs`, `logging.rs` of `crates/delta-funnel-python/src/` | interpreter lock, borrow of the session | calls of several threads, log events of runtime workers | tables derived from temporary caches, threads that wait for one another | `PythonCalls` |
| Profiler capture: `profiler/capture.rs` there | process-wide reservation, child process, directory, outputs | start, finish, drop | a failure at every step, a child that ignores its signal | `TraceboxCapture` |
| Progress: `progress.rs` of both crates and what emits it | visible counters, throttle, Rich display | events of the six operations, render, finish | counters held back or left over, exceptions in the middle of a write | `ProgressDisplay` |
| Single-output workflow, previews, dry runs: `sql_server_workflows/output.rs`, `query_handoff.rs`, `dry_run_report.rs` | none that is shared | phases, one terminal event | order and outcome of the events | their events in `ProgressDisplay` |
| Batch handoff and runtime: `pipeline/batch_handoff.rs`, `orchestrator/runtime.rs` | counters of one stream; none | pull batches; block on a future | little: one owner, sequential | not modelled |
| Ranked profile reports, trace layer, benchmark, developer tasks, JSON and error rendering, name and schema planning | none that is shared | pure or offline | little that a test does not reach | not modelled, reasons in `PROJECT.json` |

The sink, the registry and `write_all` meet in three places. `write_all` takes
its aliases from the registry and replaces providers in the same DataFusion
catalog the registry filled. It hands each output to the sink, whose result
decides about the outputs that follow. The cache of an alias is filled by the
partition collection. The models are composed along these seams by their
inputs: `CachePlan` extends `SessionRegistry`; `WriteAllCache` takes the plan as
a constant and the sink's and the collection's results as a choice among their
outcomes. `PythonCalls` extends `TraceboxCapture`: a profiled call runs the
steps of its capture with the interpreter lock released.

## Modules

### MssqlCatalog and MssqlSink

`MssqlCatalog` is the server as the sink uses it: tables by name, each with its
creator, its rows by run and the bulk-load lock option, and the statements
CREATE, DROP, INSERT BULK, rename and the swap's own checks. It is external code
except for the auxiliary names (`lifecycle.rs`, `replace_auxiliary_table_name`),
of which several targets may share one, because the base name is cut.

`MssqlSink` runs any number of `run_mssql_output_connection_request` calls. One
action is one round trip, so runs interleave where the code awaits. A statement
is applied and acknowledged, refused, or applied with its acknowledgement lost;
a run may stop for good at any point. `pc` names the phase, `prepared` is the
`MssqlPreparedTarget`, `job` holds the local counters, `result` what the report
says. The actions follow the code: `Connect`, `ProbeTarget*`, `ProbeStaging`
(the loop over 100 names, cut to `MaxAttempts`), `CreateTarget`,
`EnableBulkLoadTableLock`, `CountBeforeAppend`, `InitializeWriter`, `WriteBatch`,
`RejectBatchSchema`, `PollError`, `FinishWriter`, `ValidateWrittenTarget`,
`DisableBulkLoadTableLock`, `ProbeBackup`, `BeginSwap`, `CommitSwap`,
`CleanupPreparedTarget`.

`TargetPublication` states what replacing a target promises: at one moment the
target's holder becomes the run, or it never does, and the verdict given to the
caller agrees with it. `MssqlSink!ImplementsPublication` is that specification
under the mapping `Holder`, `Verdict`.

### PartitionCollection

One Tokio task per partition stream, the parent that joins them
(`collect_cache_partitions`) and the coordinator that finalises the execution
(`PartitionExecutionCoordinator`). One poll is one step; `abort_all` only marks
tasks, which may still deliver items before they stop. The coordinator's lock is
released before the finalisation, so the two are separate steps.

### WriteAllCache

`write_all` calls of one session. Each access to the shared catalog is one
step, since `write_all` takes `&self` and calls may overlap. `Deregister`,
`Register` and `Reinstate` are the installation of a cache,
`RestoreDeregister` and `RestoreRegister` the restoration in reverse order;
every one of them has a failing variant, bounded by `MaxFaults`. Outputs record
the provider they read under every alias. A cancelled call restores nothing, as
the code's comment says.

### SessionRegistry and CachePlan

`SessionRegistry` keeps the tables of a session. A planned view is bound to the
providers it found (`reads`), while lineage (`deps`) is what
`classify_lineage_references` makes of the names; the two differ for qualified
names and for names that are also CTEs, and that difference is kept. Tables the
caller registers with the public context are `RegisterExternal`. The registry
operations take `&mut self`, so each is one step.

`CachePlan` has the planning functions of `cache_plan.rs`, the replanning rule
of `cached_stream.rs` and the source usage of `source_report.rs` as operators,
and states for every request over a reachable session what is executed
(`Executed`, `Materialized`). They are evaluated in every state of the registry.

### OperatorActivity, PlanProfile and PlanNodes

`OperatorActivity` is one profiled query: the thread that blocks on it and the
runtime workers execute and poll instrumented streams, nested in one another and
in spawned tasks. `calls[t]` is the stack of a thread, `lanes` the worker lanes
under their mutex. A lock, an atomic operation or a report is one step, so the
budget's `Reserve`, `SwapReported` and `ReportTruncation` interleave between
threads.

Spans and the terminal profile number the operators of a plan each on their own, and
a reader joins them by the numbers. `PlanProfile` is the loop of
`collect_query_execution_profile`, with its stack and its list of operators; an
operator is skipped (`Skip`) or collected (`Collect`). `PlanNodes` is the recursion of
`instrument_query_execution_node`: `frames` are the calls in progress, `instrumented`
is the map of finished operators, and a step is a call (`InstrumentPlan`,
`InstrumentNode`), the early return for an operator in the map (`InstrumentKnown`), a
return (`InstrumentReturns`) or an error of `with_new_children`, which every call passes
on (`InstrumentFails`). The profile marks an operator when it meets it, the recursion
when it returns, so that they agree only because a plan has no cycles. `PlanNodes`
implements `PlanProfile`: the list of operators is the order in which ids were handed
out, and the stack is what the calls have yet to look at. The auxiliary variable `below`
keeps the part of the outer calls; no action reads it but to update it.

### TraceboxCapture and PythonCalls

`TraceboxCapture` is `OperationCapture`: reserve, temporary directory, spawn
behind a gate, authorize, release, wait until ready, enable; then stop (try_wait,
terminate, poll until the timeout, kill), give the reservation back, and generate
the artifact before the report. Each system call may fail; the child may become
ready or exit at any moment. Unwinding drops the fields in the order of their
declaration. `PythonCalls` runs calls of several threads on one session: the
interpreter lock, `try_borrow_mut` for mutations, `borrow` for the rest, `py.detach`
around operations and captures, the caches a `write_all` puts in the place of aliases
while it has the session borrowed, log events of runtime workers that need the lock,
and how the results of operation and profile are combined. `delta_lake`,
`table_from_sql` and the dry runs block on the runtime without `py.detach`: `Park` is
such a call that waits for a worker which waits for the lock, and nothing follows it.
Whether a task of these calls logs on a worker depends on the log filter and on the
libraries; the model allows it in every call. Which alias a `write_all` replaces and what
overlapping ones do to it is `WriteAllCache`.

### ProgressDisplay

One progress-enabled call. The operation emits the events of its phases in the
order of the source, for all six operations; the callback (`render_event`) updates
`ProgressState` under its mutex and then calls Rich, every call of which succeeds,
fails or is interrupted. Counters are sampled while an output is written or an
alias is materialized; `Pass` lets the throttle's interval pass. `job`, `sent` and
`before` are not in the code: they say which work is at hand and what it counted,
so that the properties can compare what the display has with what it should.

## Runs

| Run | Shows | Bounds |
|---|---|---|
| `sink_replace` | `StagingPrivate`, `ReplaceAtomic`, `AppendFlagBeforeValidation`: two runs that replace or append, lost acknowledgements of every statement but the swap, rows the server drops, leftovers, crashes | 2 runs, 2 targets with one auxiliary base, 2 names per kind, 1 batch |
| `sink_lost_swap` | `FailedReplaceUnpublished`, `ImplementsPublication`, `RunsReturn` when the swap's acknowledgement may be lost | 3 runs, 1 target, 1 name per kind, no lost rows and other lost answers, empty streams, fewer leftovers |
| `sink_modes` | `NoLeftovers`, `CreateDelivered`, `StagingDropsByOwner` for all load and validation modes on one target | 2 runs, 1 target |
| `partitions` | `ReturnedMeansFinalized`, `OutcomeFaithful`, `PartitionOrderRestored`, `ProgressComplete`, `Finalizes` | 3 partitions of up to 2 batches; panics, runtime shutdown, dropped parent |
| `write_all` | `RestoredOnReturn`, `FailureVisible`, `OutcomesReturned`, `CacheUsed`, `ProgressLifecycle`, `AliasPresent`, `CallsReturn` | 2 calls, overlapping or not, 2 aliases in a chain, 3 outputs and 1, 2 catalog failures, cancellation |
| `planning` | `TablesKept`, `UsageExact`, `FrontierCovers`, `AutoRunsOnceUnlessHidden`, `ExplicitRunsOnce` | 3 names, 5 tables, statements of 0 to 2 relations, qualified, CTE-shadowed and incomplete ones, requests of up to 2 distinct outputs or one table twice |
| `operator_activity` | `LaneExclusive`, `LanesBounded`, `IdentityKept`, `TruncationAnnouncedOnce`, `NumberedAsProfiled` | 2 workers and the blocking thread, 2 streams, 2 tasks, budget of 1 span, calls nested 2 deep; all plans of 4 operators with up to 2 children |
| `python_calls` | `MutationSeesOriginals`, `NothingLeft`, `ProfiledResult`, `ThreadsReturn` | 2 threads that call again and again |
| `progress` | `CountersAreOwn`, `ShownIsCurrent`, `LastCountersShown`, `OutcomeShown`, `InterruptionDelivered` | 2 outputs, 2 aliases, counters up to 2 |

Three more runs are expected to violate the one property they check; see
Findings.

Two properties have an exception that the code has. The flag `partial_write_possible`
of an append counts acknowledged batches: when the acknowledgement of the first batch is
lost its rows may be stored and the flag is off. `AppendFlagBeforeValidation` says that
only such rows go unannounced. `ThreadsReturn` says that calls return unless some call
is parked with the interpreter lock, that only a call which blocks without `py.detach`
is ever parked, and that nothing else keeps a call from returning.

Why the bounds are enough. Two runs give every race between a statement
of one run and one of another; a swap in doubt needs a third, since one run has left
its staging name, another has taken it, and the cleanup of the first frees it for the
third; the two names per kind let a loop go on, end by
success and end by exhaustion; a single batch of one row distinguishes no, some
and all rows because the server may lose it. Three partitions give one that
fails first, one that is cancelled and one that succeeds late. Two aliases in a
chain are needed for reverse restoration and for a failure after a success. Five
tables over an external one are a shared alias, two intermediate aliases and two
outputs, the smallest session in which automatic planning selects an alias that
views hide from every output; requests of more than two outputs, in which two
shared aliases have different users, are left to the theorems, which hold for any
list. Three threads let a
lane be released, reused and asked for at once, and a budget of one span is used
up by the first of them. Four operators with two children give one that is shared by
parents of different depth, one that is twice the child of one parent, and both in
every order. Two threads are a call and the one it meets. Two outputs
and two aliases give every pair of works that follow one another, and two counts
give one that is shown and one that the throttle holds back.

Symmetry is used over runs (`sink_replace`, `sink_modes`, which check no liveness),
over workers and tasks (`operator_activity`) and over names (`planning`,
`source_usage`).

Deadlock is checked in the sink runs, where the end of all runs is an explicit
step, and in `progress`, where a new call may follow. The others switch it off: a
collection that returned, calls that are done, a full session and a query whose streams
are dropped have nothing left to do, and in `python_calls` a parked thread may stop
everyone, where `ThreadsReturn` finds any other standstill.

### Fairness

`sink_lost_swap`: weak fairness of each run's own steps. The Tokio runtime polls a
future that is ready, and every server statement of the model answers or fails;
crashes are not fair. `partitions`: weak fairness of every task and of the
parent, again the scheduler's guarantee; panics, shutdown and drop are not fair.
`write_all`: weak fairness of each call's steps. `python_calls`: strong fairness
of the steps of a call and of taking the interpreter lock, since the interpreter
makes a holder that runs Python code give it up to those who wait; the same of a
worker that logs. Nobody has to make a call, and nothing is assumed of the tracebox child.
Nothing assumes that the server, a catalog operation or Rich succeeds.

## Proofs

Eight modules hold theorems. Every safety invariant and action property that a run
checks has one, and so have the refinements. Each proof is an
induction over steps, one step of the proof per action, from an invariant that is
stronger than the property.

**MssqlSinkProofs.** `TypeCorrect` proves the types. `StagingPrivate` is not
inductive: that the rows of a staging table are complete when the swap commits
depends on the phase. `SinkInv` adds `LoadedInv` (the prepared name of a working
replace run is bound to its own table, all rows in it are its own, it holds the whole
stream once it is validated, and its bulk-load lock is on only while the run remembers
to switch it off), `PublishedInv` (a replace run owns a final name only after it
succeeded or crashed in the swap) and `FlagInv` (only a run that failed or crashed has
set `partial_write_possible`). These hold until a swap is in doubt; why not
longer is said under Findings. The key lemma is `OthersUntouched`: what a
run creates was free, what it fills or drops it owns, and what it swaps is its own
staging table and a target. From `SinkInv` follow `StagingIsPrivate`,
`ReplaceIsAtomic`, `FailureMeansUnpublished` and, as action properties,
`ReplacedTargetRemains` and `StagingDroppedByOwner`, for any number of runs, targets,
names and batches and for any mix of load modes.

`ReplaceImplementsPublication` is the refinement of `TargetPublication`: the holder of
a target changes in `CommitSwap` only, and every other step is a verdict or a stutter.
It assumes that all plans are replace (`ReplaceOnly`), of which alone
`TargetPublication` speaks; `OwnedInv` says that a swap in doubt still publishes the
output of some run. `NothingLeftBehind` needs to know where the tables of a run are at
each phase (`LeftoverInv`). It assumes `ServerReliable`, no acknowledgement is lost: a
run that does not know of its table cannot drop it. `CreateDelivers` rests on
`CreateInv`, that the target is the run's own table from CREATE TABLE on.
TLC checks these two in `sink_modes` under the same conditions. `AppendFlagHolds` rests
on `AppendInv`, which ties the flag to the number of accepted batches and that to the rows
in the tables. It holds with lost acknowledgements: a run that has no accepted batch has no
rows, or its first batch is in doubt (`FirstBatchInDoubt`), in which case it only cleans up
(`DoubtStays`) and its rows are no more than it had read.

**PartitionCollectionProofs.** `CollectionInv` says, once the streams are
started, that the coordinator's counter is the number of open streams, that its outcome is
the strongest recorded one, that at most one task is finalising and only when no
stream is open, and that the profile is empty until then. It yields `FinalizedOnReturn`, `StrongestOutcome`
and `LastProgressComplete` for any number of partitions and batches. `OrderInv` says
what was collected so far: one entry for each joined partition, with all of its
batches. The sort is specified by its result (`Sorts`: an arrangement of all entries by
index), so that `OrderIsRestored` reduces to a lemma on sequences: an increasing
sequence of n indices out of 1 to n is the identity.

**WriteAllCacheProofs.** `WriteAllInv` adds to `AliasPresent` that positions
stay in range and that what a call is about to put in is a provider
(`PositionInv`). `AliasNeverLost` follows for any calls, plans and overlap. It
speaks of catalogs whose operations do not fail by themselves. `RecordInv` is about what
a call keeps for its caller: the replaced aliases are the first ones of the selection,
aliases still replaced and aliases reported add up to the attempted ones at every
position of the restoration, a failed report always leaves a cause behind, outputs are
complete before a restoration begins, and the log has the shape the position asks for.
It yields `FailuresReported`, `OutcomesKept` and `LifecycleLogged`, with every failure
of the catalog included and however calls overlap.

**WriteAllAloneProofs.** Two properties are promised to a call that runs alone. `AloneInv`
says that every alias has its provider of before, or is among the replaced ones with
that provider kept, or is just being exchanged, or has a failed report, and that the
replaced ones have the cache of this call while outputs are written. It yields
`CachesRead` and, as an action property, `AliasesRestored`.

**CachePlanProofs.** `RegistryInv` is the conjunction of the types,
`TablesKept` and `UpstreamFirst`, which is inductive: a new table only names
registered ones, and the alias that is registered last was pending, so nothing
names it yet. `NoTableLost` and `LineageAcyclic` follow for any names,
statements and number of tables. `BindingInv` adds what views are bound to, older
sources and aliases only. The properties of the planning functions then hold in every
state of the invariant, by an argument about the two searches of the model,
`TransitiveDerived` and `BoundReads`. Both are `Reached`, a bounded iteration. The
library's induction theorems cannot be instantiated here, but well-foundedness of the
natural numbers can be used in first-order form: `LeastNumber` gives induction for
sets of numbers (`SetInduction`), that gives the values of an iteration (`Iteration`),
and since each step of a search goes to older tables, `ReachedLeast` shows that the
search finds the least closed set. From there on the proofs are about closed sets:
where lineage is faithful a plan runs exactly what lineage reaches (`FaithfulReads`),
which gives `UsageIsExact` (a usage that is reported as not used is so in every plan whose
captured names are all it reads; `KnownIsFaithful` gets this from the reported status); a replanned output that runs a selected alias does so
through an unselected alias that hides it (`RunsNoSelected`), which gives
`ExplicitCachesRunOnce` and `AutoCachesRunOnce`; among the shared aliases above a given
one there is a deepest (`DeepestUser`, again by `LeastNumber`), which gives
`FrontierCoversAll`, the count of the covered aliases included.

**OperatorActivityProofs.** `LaneInv` says that the
spans of a thread are all on one lane, which its outermost span owns and which is
active as long as the thread holds it, also between closing the span and releasing the lane, and
that no two threads hold one lane. `LanesAreExclusive` follows for any threads, streams, tasks and
depth. `LanesAreBounded` adds that every active lane is held by a thread of its kind
(`UsedInv`): when all lanes of a kind are active their holders are different threads,
and the one that asks for another is not among them, so there is room for one more.
`IdentityIsKept` needs `SpanInv`, which also covers what `start_span` saw before the
budget answered. `BudgetInv` counts the spans that are recorded, left and granted to threads
that have not recorded them yet, and says who may still announce the truncation;
`TruncationIsAnnouncedOnce` follows.

`NumberedAsProfile` is the refinement of `PlanProfile` by `PlanNodes`, for any plan.
`PlanInv` has three parts: the types (`PlanType`); `below` of a call is `below` of
its caller followed by the children its caller has yet to look at (`BelowInv`); and the
calls lead down the plan, while the operators with an id are those in the map and those
whose call is in progress (`WalkInv`). A call collects (`RootStep`, `NodeStep`): its
operator is not in the map, and it is a child of the innermost call and so not the
operator of any call, so it has no id yet. An early return skips (`KnownStep`). A return
and an error leave the profile's stack as it is (`ReturnStep`, `IdleStep`): the finished
call had no child left, and what was below it is what its caller has left.

**PythonCallsProofs.** The capture is proved by itself, from an invariant that
says for each phase who holds the reservation, why the child is stopped, and
whether child and directory exist. `CallsImplementCapture` shows that
every step of the calls is a step of the capture or leaves it alone, which carries
`CaptureIsExclusive`, `CaptureLeavesNothing`, `SignalsReachOwnChild`,
`ChildIsGated` and `ReportIsLast` over. `MutationsSeeOriginals` and `MutationDoesNotPanic` need where a
call may hold which borrow, and that a call has caches only where it holds its own. `ProfiledCallsReport` needs `ProfileInv`, what a call, its
capture and its operation know of one another at each place. `CallsTypeCorrect` gives
the types.

**ProgressDisplayProofs.** The invariant has four parts: the saved interruption
and final event are the first interruption and the outcome (`DeliveryInv`); the
display exists exactly while the adapter owns it (`DisplayInv`); the visible phase,
output and counters are those of the operation (`OwnInv`); what is on the display, or
on its way to it, are the last counters of the work it shows (`ShownInv`). The third rests on which
phase may follow which: work that begins is either named by another output or
begins in a phase that clears the counters. The fourth yields `ProgressShownIsCurrent`,
`ProgressOutcomeShown` and, as an action property, `ProgressLastCountersShown`. The
theorems hold for any number of
outputs, aliases, files and rows. `ProgressTypeCorrect` gives the types, with
`RaisedInv`: Rich is not called again after it raised, except to stop the display.

The assumptions on constants (`NamesAssumption`, `ServerAssumption`,
`SinkAssumption`, `CollectionAssumption`, `WriteAllAssumption`,
`RegistryAssumption`, `MaxOutputsAssumption`, `ActivityAssumption`, `PlanAssumption`,
`CaptureAssumption`, `ProgressAssumption`) are types of the constants and
distinctness of the markers; TLC evaluates them in the runs. The two further
assumptions named above are hypotheses of their theorems.

Proved and not checked by a run: the type invariants (`TypeOK`) of all state
machines, by `TypeCorrect`, `CallsTypeCorrect`, `ProgressTypeCorrect` and the
inductive invariants of the others, of which they are a conjunct; `ReplacedTargetStays`;
`UpstreamFirst`; `OneCapture`, `SignalsOwnChild`, `GatedUntilAuthorized`, `ReportLast`
and `MutationNeverPanics`; `DisplayStopped`.

Only model-checked: the liveness properties `RunsReturn`, `Finalizes`,
`CallsReturn` and `ThreadsReturn`, since the prover does not handle fairness. That the
recursion ends is neither stated nor proved: the refinement is about the ids it hands
out up to any point.

Each proof module begins with `USE ZenonT(60)`: most steps are first-order, and
Zenon proves them sooner than the SMT solver's preparation takes. A step that needs
arithmetic, sequences or records names the SMT solver.

## Findings

Each is a run that violates a statement of the repository.

- `sink_append_flag`: an append whose row-count validation fails reports
  `partial_write_possible = false` although all rows are in the target.
- `write_all_restored`: two overlapping `write_all` calls on one alias both
  report `materialized_and_restored` and can leave a cache registered.
- `source_usage`: a source that is read by a qualified name, or under a CTE of
  the same name, is reported as not used.

Some properties are stated with an exception that the code makes necessary.
`StagingPrivate`, `StagingDropsByOwner`, `ReplaceAtomic` and
`FailedReplaceUnpublished` end where a swap is in doubt (`SwapInDoubt`: a replace run
has reported `partial_write_possible` because its swap was not acknowledged). The swap
may have been committed; the run then drops by name what another run may have created
there meanwhile, a third run may take the name, and the second run publishes the table
of the third. `TargetPublication` says the same: after a doubt the published output
may be that of another run, and it is still published at one moment and with an honest
verdict. `AutoRunsOnceUnlessHidden` excludes outputs that reach a cached alias
through a view that was not selected, and outputs whose lineage misses a table
they read. As to the first, the explicit mode refuses such a selection,
the automatic mode makes it, and the cache is then filled and not read by that
output. `OutcomesReturned` excludes a failure of the source reports after the
outputs were written, which drops the report of the outputs.

## Not modelled

SQL text, schemas, Arrow data and type mapping: a batch is a row count and a
statement is the names it reads. The TDS protocol and connection strings. The
rendering of reports, JSON and errors. DataFusion's planner, beyond what a view
is bound to. Table ids wrap at 2^64 in the code and are unbounded here.

In the modelled components: the refresh of callsite interest and the
installation of the tracing subscriber; two captures that write the same output
path; log events of runtime workers outside of detached calls; texts, columns and
labels of the display; the load mode in `ProgressDisplay`, where any of an output's
phases that some mode announces may follow; which spans the dependencies open
below ours and how long they keep them, on which the nesting of their slices in
the trace depends.

Most of the repository's lines are pure or offline: building plans, DDL and
reports, aggregating and rendering finished traces, the benchmark and its
statistics, and the inline tests, which are about half of all lines. They are
functions of their inputs that unit tests reach well, or sequential input and
output, and a model of them would repeat their text. So the map covers a small
share of all lines, the ones where state is shared, kept or handed over.

## What could follow

1. Composition of `WriteAllCache` with an abstract sink, and of
   `SessionRegistry` with `WriteAllCache` so that aliases can be registered
   while calls run.
2. The ranked report's aggregation as recursive operators against reference
   definitions.
3. Proofs: what the swap in doubt of one run leaves true of the targets of others.
