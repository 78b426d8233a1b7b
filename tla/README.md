# Verification of the yqhp workflow engine

`workflow-engine/` is a distributed load-testing engine: a master accepts
workflows, schedules them on slaves, and every slave runs virtual users (VUs)
that execute the workflow and emit samples. `gulu/` is the service in front of
it, which runs workflows for its users and keeps knowledge bases. This project
models the concurrent core of both in TLA+, checks it with TLC, and proves the
safety properties of its ten components with TLAPS for every value of the
constants.

Paths below are relative to `src/workflow-engine/` unless they begin with `gulu/`.

## 1. Inventory

| Component | State | Operations | Hard behaviour | What makes it correct |
|---|---|---|---|---|
| Task engine, constant-vus (`internal/slave/task_engine.go`, `vu_pool.go`) | `stopping`, `nextVUID`, `vuCancels`, WaitGroup, `activeVUs`, `maxVUs`, pool slots | launch, tick of the controller, start and stop a VU, `ScaleVUs`, `Stop`, duration | main, controller, waiter and VU goroutines share everything; VUs come and go while the count is compared | counters exact, scaling bounded and convergent, nothing left behind, the call returns |
| Task engine, shared and per-VU iterations | iteration channel, `errChan`, WaitGroup, pool | launch, take, run, report an error, cancel | errors fill a bounded channel; cancellation at any point | every iteration at most once, all without cancellation, errors reported, the call returns |
| Task engine, ramping and arrival-rate (`task_engine.go`, `internal/execution/*_arrival_rate.go`) | stage, `vuCtxs`, pool, WaitGroup, `activeVUs`; work channel | tick of the ramp or of the generator, scale up and down, grow, run an iteration, end of a stage, cancel | VUs that were cancelled are still ending when ids are given again; a full channel starts VUs; counters go back in different orders | one running VU per id, the call returns when its VUs have left, the gauge goes back to 0 |
| Output pipeline (`pkg/output`, `internal/metrics/engine/ingester.go`) | `samplesChan`, the distributor's batch, buffer and flusher of every output | emit, distribute, flush, close, stop, report | shutdown with samples at four places | nothing lost, duplicated or reordered; the report comes after the last flush |
| Worker slave (`internal/slave/slave.go`, loops of `api/rest/client`) | `state`, `connected`, `activeTasks`; the shared engine's `cancelFunc`, `samplesChan`, `outputFinish` | connect, lose the link, reconnect, run a task, stop, disconnect | one engine for all tasks; two transports; `Stop` racing with the start of a task | the count is right, tasks in sequence have pipelines of their own, `Stop` ends tasks |
| Master (`internal/master/master.go`) | `executionCount`, status, `stopCh`, end time and slave states of every execution | start, stop, submit, schedule, pause, resume, stop an execution, background run | check and increment are two steps; API calls race with results | every place of the limit is given back once, a final status is final, Completed means all parts, a stop ends |
| Slave registry and health check (`internal/master/registry.go`, `checkSlaveHealth`, heartbeat handlers) | two maps, watchers with bounded channels | register, unregister, heartbeat, drain, watch, health check | read, compare and write are separate calls | the maps agree, events tell the state, a silent slave goes offline |
| Scheduler (`internal/master/scheduler.go`) | none | divide VUs, iterations and segments; select slaves | rounding, rescheduling | parts add up |
| Task and command queues, WebSocket hub (`api/rest/handlers.go`, `slave_ws.go`) | two queues per slave, connection per slave, send buffers | assign, poll, push, drain, replace a connection, clean up | a queue closed while somebody sends; a lost answer; replacement of connections | an accepted item is in exactly one place and is delivered at most once |
| Slave client (`api/rest/client`) | transport, registration, flags of the reconnect loops, buffer of results | connect, register, heartbeat, poll, send or buffer a result, reconnect, disconnect | connection and registration are lost independently; several loops ship results | results are kept, a forgotten slave comes back |
| gulu executions (`gulu/internal/handler/stream_execution.go`, `executor/`, `logic/execution_logic.go`, `pkg/runner`) | rows, sessions, answer channels, event writers, id map of the engine, monitors | execute as a stream, blocking or as a performance run; stop, pause, resume, answer, set a status | the client chooses session ids; deadlines race results; a call meets a run between two of its steps | sessions and rows agree with the runs, `workflow_completed` is the last event, every request and question ends |
| gulu document indexing (`gulu/internal/logic/knowledge_*.go`) | rows, segments, vector collection, files, background goroutines | upload, process, reprocess, delete, update a segment or the base, delete the base | three stores without lock or transaction; failures, panics and restarts between calls | a completed document is the same in all stores, a deleted one is gone, a row in processing has a goroutine that ends it |
| Execution mode package (`internal/execution`) | the other modes are a second implementation that nothing calls | | pause, resume and scale protocol of ExternallyControlled | |
| Metrics aggregation, executors, parser, expressions, keywords, hooks, reporters, CLI | mostly sequential | | | |
| the rest of `gulu`, `admin`, `common` | rows of a database | CRUD | | |

How they interact: the master's background goroutine of an execution creates a
`TaskEngine` (in standalone mode, and at present also for every assigned slave,
`executeTaskLocally`) and calls `Execute`. A slave calls `Execute` of its one
engine for every task its client hands over. `Execute` sets up the output
pipeline, calls the mode, closes the samples channel and waits for the outputs.
Slaves report to the registry by heartbeats; the master's health check and the
scheduler read it. Tasks and commands reach a slave through a queue it polls or
through the WebSocket hub. `gulu` submits workflows to the engine, waits for them
(`pkg/runner`) or lets a monitor goroutine follow them, and passes the engine's
callbacks on as events.

`PROJECT.json` lists the hazards of this code, each at its line, with the
properties that cover it or the reason why none does yet.

## 2. Modules

One action stands for what happens under one lock, in one atomic operation or in
one channel operation. Program counters of goroutines are strings named after
what comes next. Operators called `...Missing`, `...OffByOne` and the like,
marked "Mutated form", are plausible bugs: replacing the definition that follows
by one of them must break the property `PROJECT.json` names.

| Module | Models | Uses |
|---|---|---|
| `ConstantVUs` | `executeConstantVUs`, `runVU`, the VU pool, `ScaleVUs`, `Stop` | |
| `ConstantVUs_proofs` | proofs | `ConstantVUs` |
| `IterationBudget` | abstract: every iteration of a budget is started at most once and none after the return | |
| `FixedIterations` | `executeSharedIterations`, `executePerVUIterations` | implements `IterationBudget` |
| `FixedIterations_proofs` | proofs | `FixedIterations`, `IterationBudget` |
| `StagedModes` | `executeRampingVUs` and the two arrival-rate modes | the VU pool and `runVU` as in `ConstantVUs` |
| `StagedModes_proofs` | proofs | `StagedModes` |
| `OutputPipeline` | `SampleEmitter`, `output.Manager`, `SampleBuffer`, `PeriodicFlusher`, the shutdown part of `Execute` | |
| `OutputPipeline_proofs` | proofs | `OutputPipeline` |
| `WorkerSlave` | life of a slave, hand-over of tasks, the engine fields that all tasks share | the mode is one step (`ConstantVUs`), draining is one step (`OutputPipeline`) |
| `WorkerSlave_proofs` | proofs | `WorkerSlave` |
| `Master` | admission, scheduling, background run, control calls, shutdown | an engine is one step that returns |
| `Master_proofs` | proofs | `Master` |
| `SlaveRegistry` | registry, health check, heartbeat handlers, watchers | |
| `SlaveLink` | queues, hub and pumps of the master; transports, loops and buffer of the client | the registry is one bit (`SlaveRegistry`), a task is handed over (`WorkerSlave`) |
| `SlaveLink_proofs` | proofs | `SlaveLink`, `SlaveRegistry` |
| `GuluExecution` | requests, sessions, callbacks, monitors, calls of users | the engine is one step that ends (`Master`) |
| `DocumentIndexing` | handlers, the pipeline of `Process`, the calls to the vector store | |
| `GuluExecution_proofs` | proofs | `GuluExecution`, `DocumentIndexing` |
| `MC*` | instances for TLC | |

`SlaveRegistry` and `DocumentIndexing` call their specification `RegistrySpec` and
`IndexSpec` (and so on for `Init`, `Next` and `vars`), because a proof module extends
them beside another component.

Correspondence, by module:

* **ConstantVUs.** `main`, `ctl`, `waiter`, `vu[i]`, `stopper` are the program
  counters of the goroutines; the other variables have the names of the code's.
  `StartVU`, `Acquire`, `LaunchVU` are the three parts of `startVU` between lock
  operations. `todo` is what is left of the loop the controller (or the launch
  loop) is in. The WaitGroup is modelled as Go implements it: a waiter is woken
  when the counter reaches 0 and panics if the counter is no longer 0 when it
  runs (`Wait`, `Wake`). An iteration is one step that succeeds, fails or panics.
* **FixedIterations.** `iterChan` is filled and closed before the VUs start, so it
  is a counter `nextIter`. `errs` counts the errors in `errChan`. `ran[k]` counts
  how often iteration `k` is started and is what the refinement maps. `runVU` turns
  a panic into an error (`IterationFails`); nothing recovers one in the shared mode,
  and the process ends.
* **StagedModes.** One state machine for three modes: `mode` chooses which of main's
  actions are enabled, and `Ramping` where the code differs. A stage's progress is
  the choice of the next point between the last one and the target
  (`Points`), without the clock. `vuCtxs[i]` names the goroutine whose cancel
  function is in the map, so that an id may have several goroutines in its life.
  `work` is the number of items in the channel. `ScaleVUs` changes `e.maxVUs`, which
  the ramp reads at the start of a stage while the pool keeps its size: a target is
  cut to any of `Limits`. Without stages the code runs the constant-vus mode, or
  returns an error for the arrival rates, and `StageAssumption` says so. Nothing
  recovers a panic of an iteration in the arrival-rate modes: the process ends.
* **OutputPipeline.** Samples are numbered; channel, batch, buffers and sinks are
  sequences. An output may fail to start; when the configured outputs cannot even be
  created (`CreateOutputsFails`) there is no metrics engine, no summary and no
  report. One execution of a fresh engine.
* **WorkerSlave.** A channel, cancel function or set of outputs is identified with
  the task that made it. `pollers` numbers the contexts: the context of the first
  connection is the one `Stop` cancels. `crashed` is a close of a closed or nil
  channel. The mode may run as long as it likes unless its context is done, and a
  shared-iterations mode may be stuck for good in its full `errChan`, cancelled or
  not (`ModeBlocks`).
* **Master.** `submit[e]` is the call of `SubmitWorkflow`, `run[e]` the background
  goroutine, `work[e][s]` the engine at a slave (or `"local"`); `UseLocal(e)` is
  decided for each workflow, as in `scheduleExecution`. A run ends by its results,
  by its `stopCh` or with the context of its submitter (`CallerLeaves`); an engine
  may be stuck (`EngineBlocks`). `crashed` is the second close of a `stopCh`.
* **SlaveRegistry.** Every registry call is atomic; a heartbeat handler is "look
  up and take the time" then `UpdateStatus`; the health check is list, read,
  mark. Of a watcher's channel the model keeps the number of events and the last
  event put in for each slave, which is what a reader ends up with.
* **SlaveLink.** One slave. `sender[i]` is the call of `AssignTask` or
  `SendCommand` for item `i` (look the hub up, push; or look the queue up, send),
  `conn[c]` the master's end of a connection with its send buffer, `cl` the client
  with the flags of its loops. `Where(i)` is the set of places an item is at.
  `holder` says which goroutine has a result in hand. `lost` and `dropped` collect what the code throws away, so that a
  property can tell a place that drops from one that forgets; a result that meets
  a full send buffer of the slave's WebSocket is printed and dropped. `Disconnect`
  unregisters over HTTP, `DisconnectWS` only closes the connection. The limit on
  reconnect attempts is left out: no code sets `MaxReconnectAttempts`, and 0 means
  none. A fault (a broken connection, a lost answer, a failed health check, a
  restart of either process) may come at every call.
* **GuluExecution.** `req[r]` is the handler of a request, `rec[r]` its row,
  `sessions` the map of live sessions, `eng[r]` what the engine does, `mon[r]` the
  monitor of a performance run, `call` the call of a user in flight. A write of a
  row by session id reaches every row with that id, as in the table; it may fail,
  and no caller does anything about that. The webhook writes any status at any
  time: `hooked` and `touched` remember it, so that the properties can say which
  rows they are about. The report is fetched in several attempts and saved in a
  call of its own, whose error is only printed. Without an engine in the process a
  performance run is never submitted and its row becomes running all the same.
* **DocumentIndexing.** Every call that writes to MySQL or Qdrant is a step, and so
  is a read whose answer is used later; a background goroutine has the copy of the
  knowledge base it was started with. The base has a text and an image model, and
  `Update` may change both between its read of the row and its write (`ReadBase`,
  `UpdateBase`). A statement whose error nobody looks at may fail
  (`StatementFails`), the calls that look at the collection too (`InfoFails`), and
  an image may have no data and be left out of the index (`ImageLeft`, counted in
  `extra`). `remade` records that the images of a document had the collection made
  again for another image model, after its text was written. A text is the number
  of chunks a setting makes of it. `calm` records whether anything ran beside a
  goroutine or failed in it: the code has no lock between documents, so what it
  promises of one goroutine it promises of a lone one.

## 3. Runs

| Run | Shows |
|---|---|
| `constant_vus` | Counters, pool, cancel functions and the stop protocol are consistent in every interleaving; a stop makes the call return and all VUs exit; scaling settles on the last target |
| `iterations` | Both modes implement `IterationBudget`, run everything without a cancellation, report errors, and return with nothing left unless the shared mode meets more errors than `errChan` holds |
| `staged_modes` | The three modes have one running VU per id, return after their VUs, and settle |
| `output_pipeline` | No sample is lost, duplicated or reordered between channel and sinks; the report is generated, after the last flush, unless the outputs could not be created |
| `worker_slave` | The count of tasks, the pipelines of tasks in sequence, and `Stop`, which ends every task that is not stuck |
| `master` | The places of the limit, final states, results of several slaves, stops that end, for local and distributed executions together |
| `master_limit` | violation: two callers exceed the maximum number of concurrent executions |
| `slave_registry` | Maps, events and health check |
| `slave_link` | Every accepted task and command is in exactly one place, a result is lost only at a full buffer or with the process, a slave the master has forgotten comes back |
| `gulu_execution` | Sessions, rows and events agree with the runs; the report is saved, refused or given up before the status that makes a frontend ask for it; every request and question ends |
| `gulu_stream_record` | violation: a streamed execution that ends well leaves its row running |
| `document_indexing` | A lone run completes or deletes exactly and drops the collection only for another model; a row in processing has a goroutine that will end it |

Bounds, and why they are enough:

* `ConstantVUs`: two VUs at the start, three ids, a pool of two, one `ScaleVUs` to
  1 (down) from the pool size (up): a VU that ends by a panic, one that is started
  again and one that is cancelled at the same time. `MaxVUIDs` bounds the
  restarts: beyond it `StartVU` does nothing, and `ScalingSettles` says so. The
  run has no quota of iterations (a quota multiplies the states by more than
  three); with one, the invariants are proved (section 4), and the two liveness
  properties are checked without it only.
* `FixedIterations`: three VUs of which two get a slot, four iterations, four
  failures, which is one more than `errChan` holds; `shared` chooses the mode in
  `Init`.
* `StagedModes`: two VUs, targets 3, 0 and 2, limits below, at and above the size of
  the pool, one VU pre-allocated, four goroutines and six ticks: an id is given up and given
  again, the channel of four is filled, grows a VU, and drops.
* `OutputPipeline`: a channel of two and four samples, so that it is full, partly
  drained and refilled; two outputs, so that the second one may fail to start.
* `WorkerSlave`: two tasks meet on one engine, one reconnect gives a second loop;
  both transports.
* `Master`: two executions, one local and one distributed, a limit of one and two
  callers, so the limit is exceeded; two slaves, so one part may fail, be late or
  be stuck. `master_limit` has the same in standalone mode.
* `SlaveRegistry`: one slave that registers again under its id, two heartbeats in
  flight, a channel of two events, and a clock on which a heartbeat is fresh, on
  the edge and overdue. Slaves meet only in a watcher's channel, where one slave's
  events fill the places as well as two slaves' do, and in the health check's
  list, whose rounds are independent.
* `SlaveLink`: places for one in each queue and buffer, so that all are full with
  two items; two connections, so that one replaces the other; two poll loops after
  a reconnect; one or two faults. `MCMixes` separates items from results, which
  share nothing but the transport.
* `GuluExecution`: two requests that may have one session id, workflows with up to
  two steps or questions, up to three calls of users (the webhook among them, with
  every status a row is compared with and one for the others), two tries for a
  report. `MCMixes` says which of these occur together.
* `DocumentIndexing`: two documents, one with an image, two goroutines, two text
  and two image dimensions, zero or two chunks, a fresh base or one whose collection
  has both fields from an earlier life, and one event (a failing call or
  statement, a panic, a restart, an image without data, an update of the base or
  of a segment) anywhere. The proofs are for any number of events. `Stride` is 10:
  a document has fewer chunks than that, as the assumption says.

Fairness. Go's scheduler runs every goroutine that can run, so a goroutine of the
code has weak fairness on its steps; tickers never end while their loop runs;
deadlines pass. No fairness is assumed of callers (nobody has to submit, stop,
scale, emit, answer or send a heartbeat), of failures, or of how long an engine
that was not cancelled runs. A mode whose context is cancelled returns: that is
`StopReturns` of `ConstantVUs`, `Settles` of `StagedModes` and `Terminates` of
`FixedIterations`, and is assumed in `WorkerSlave` and `Master`. `Terminates` excepts
the shared mode with more failures than `errChan` holds, which stays blocked even
when it is cancelled; so both modules have a step by which an engine gets stuck,
assume nothing of one that is, and `StopEndsTasks` and `StopEnds` name it.
`DocumentIndexing` assumes no fairness: `Attended` is an invariant. In
`StagedModes` a `select` whose context is done takes that case at last; Go chooses among ready cases at random, and the ticks and the
work of the model are finite. In `SlaveLink` the loops of the client and the pumps
go on, and the number of faults is bounded: a link that breaks for ever need not
come back. `SlaveLink` and `GuluExecution` may stop when their requests, items or
faults are used up, so their runs do not check for deadlock.

## 4. Proofs

**ConstantVUs_proofs**, for all numbers of VUs, ids, iterations, pool sizes and
finite or infinite sets of scale targets. None of the safety invariants is
inductive by itself. `IInv` adds: `Phases` (where main is when the controller
runs or is done, what `stopping` and `baseDone` are by then), `Fresh` (ids not
handed out belong to no VU), `Held` (slots and cancel functions are held only in
the part of a VU's life between taking and giving back), and `Fits` (the VUs that
run and the starts the loop still owes fit under a target: without the second
summand the bound is lost in the middle of the loop). From it follow type
correctness, a bound on the peak, `NothingLeftBehind`, `ReturnIsFinal`, and that no
id is handed out once `stopping` is set. `CountersAgree` is proved on top with
lemmas on how cardinalities of sets of VUs change by one step.

**Master_proofs**, for any finite set of executions, any slaves, limit and number
of concurrent callers, in both modes. `IInv` is `TypeOK`, `Sync` (how far the
submission and the background goroutine are, the status and the end time agree)
and `Counted` (`executionCount` is the number of executions that were stored and
have not given their place back, those that could not be scheduled included).
`TypeOK` is not inductive without the others: that the count stays a natural
number needs that only an execution that is counted is uncounted. From `IInv`
follow `PlacesAccounted` (the count is what it should be, split by why a place is
held), `RunningCounted`, `FinalStatusIsFinal` and that an end time goes with a
final status; `Overshoot` and `CompletedMeansAll` are inductive on top of it.
The limit itself is not kept (run `master_limit`); `Overshoot` says by how much the
race in `SubmitWorkflow` exceeds it, for any number of callers. It is about what is
counted: the engine of an abort that gave up after ten seconds runs on uncounted.

**SlaveLink_proofs**, about both ends of the link.

`SlaveLink`, for any items, results, connections, poll loops, capacities and numbers
of faults. No step reads an item to change a result, so there are two inductive
invariants. `ItemInv` says that an item has a place exactly when it was accepted and
never two (`OnePlace`: its queue, the send buffer of a connection, lost, or handled),
and that no sequence holds an item twice or of the other kind (`NoDuplicates`,
`OwnKind`); `WithinCapacity` is part of it, because `drainPendingToWS` cuts the queue
at the room it finds, which is a natural number only within the bound. `ExactlyOnce`
speaks of places and not of counts of occurrences, which says more (an item is in one place, and there once) and
needs no induction over sequences: lemmas on `Append`, `Tail`, concatenation and
cuts say what each does to the set of elements and to injectivity. `ResultInv` says
the same of the results in the client: `InHand` ties the goroutine that holds a
result to it, `OneCopy` keeps the buffer and the hands apart, and `Tracked` says
what became of a result whose task has ended: received, handed to the write pump,
dropped by a full result buffer, by a full send buffer of the WebSocket or with the
process, or still with the slave. `Tracked` is
not inductive without `OneCopy`, since with a second copy a result that was dropped
would still be there. `ResultAssumption` keeps results apart from the numbers of the
poll loops, which hold results as well.

`SlaveRegistry`, for any finite sets of slaves and watchers, any capacity, timeout
and number of heartbeats in flight. `MapsAgree` and `EventsTellState` are inductive
together with the types and `Untold` (a watcher that has not subscribed has been
told nothing, so subscribing makes no event false). The lemmas `Notified` and
`Updated` say once what a notification and `UpdateStatus` leave behind, and are used
for every caller.

**FixedIterations_proofs**, for any number of VUs, iterations and failures and a
pool of any size. `AllRun` speaks of the state after the return and says nothing
of the way there; `IInv` says at every moment which iterations have been started,
from where the VUs are. In the shared mode (`SharedOnce`, `SharedAll`) an iteration
that was taken from the channel is started or in the hand of exactly one VU that is
at its check, and a VU ends only when the channel is empty; with own quotas
(`OwnOnce`, `OwnAll`) the VU's counter divides the started from the others.
`Errors` follows a failure from the iteration to `errChan` and to the result, and
`Counts` (the WaitGroup is the number of goroutines that have not called `Done`) is
what makes the return come last. That the module implements `IterationBudget`
(`WithinBudgetTheorem`) uses the same invariant: a step that starts an iteration is
a step of the abstract one because `ran` was 0, every other step changes nothing
the abstract specification sees.

**StagedModes_proofs**, for any number of VUs, stages, ticks and goroutines in the
three modes. `WgCounts` and `ActiveCounts` say which places in a goroutine's life
each counter counts; they differ, and differ by mode. What protects an id is the
pool's mark in the ramp (`Slots`, until `Stop` clears the marks) and the entry of
`vuCtxs` in the arrival-rate modes (`Entries`). `OneVUPerId` and `ReturnsAlone`
follow.

**OutputPipeline_proofs**, for any number of outputs and samples and any capacity.
`Conservation` compares the concatenation of what channel, batch, buffer and flusher
hold with what was accepted; lemmas on concatenation say how each hand-over
leaves it. `ReportComplete` needs that all those places are empty at the report:
`Phases` says which goroutines exist in each phase of `Execute`, `Stops` how far the
stop loop is, `Empties` what can no longer hold a sample.

**WorkerSlave_proofs**, for any finite set of tasks and any number of reconnects.
`ActiveTasksAgree` holds with every transport and is inductive with the types.
`OwnPipeline` and `NoDoubleClose` are about one poll loop and rest on `Sequential`:
one task is handled at a time, and `samplesChan`, `closed` and `outputFinish` of the
one engine agree with where that task is. The proof needed `MaxPollers` to be
positive: the first connection always gets its loop.

**GuluExecution_proofs**, about both parts of gulu.

`GuluExecution`, for any number of requests of any kinds, any session ids and
any calls of users. A row, an event or an entry of the map speaks of a request
that may be several steps further, so `IInv` says what a request has behind it at
each place, and the lemma `StaysStep` what no step takes back (its id, the end of
its context, its outcome, the end of its run). `Kinds` ties the id to the kind: a
write by session id reaches no row of a performance run. `Outcomes` ties the
outcome to the engine's status, `Monitors` what the monitor has seen and what became
of the report, `Found` what a call can find (an entry of the map exists before the
row says running, unless a webhook has written it), `Followed` that a submitted
performance run has a monitor, `LostRuns` which runs a call can have missed,
`SessionMap` the map to the requests between `CreateSession` and `CleanupSession`.
In `RecordTruth` the case that took thought is the late look-up of a session after
a success: if it finds one, that is another request with this id, and what the row
says is then true of one of the two, which is why the property speaks of a request
with the id of the row. `CompletionIsLast` is an action property of the same
invariant: a handler that has seen the end of a run leaves no callback to come.
The proof made two operators of the model precise: the statuses of a summary and
of a settled session were `CASE` expressions with overlapping arms, which TLC
takes in order and the logic does not; they are now exclusive.

`DocumentIndexing`, for any documents, goroutines, chunk counts, dimensions of either
model, any collection the base begins with and any number of failures, restarts
and updates. `CompletedIsIndexed`, `DeletedIsGone` and
`CollectionIsKept` are action properties of a goroutine that is `calm`, so `IndexInv`
says of a calm goroutine what it may rely on at each of its places: it is the only
one (`CalmAlone`), none of its statements fails (`CalmHeeded`), its documents still
have their rows (`RowsThere`), what
`ensureCollectionDimension` read is still so (`Collection`), the collection and the
segments hold the first `n` positions of its document and nothing else of it, with
`n` going from 0 to the chunks and on to the image (`Contents`, which says nothing
more of a goroutine once `remade` holds: the text vectors are gone then), and what a
deletion has removed has not come back (`Deletion`). Of a goroutine that is not calm it says
nothing but the types, so it covers whatever such goroutines leave in the stores.
The lemmas `UpsertStores` and `InsertLists` take a store from one number of positions
to the next; they need that ids of one document do not meet those of another, which
is `StrideAssumption` (a document has fewer chunks than `Stride`, 100000 in the
code). One lemma per action follows, and the theorems combine them. `Attended` is about
every goroutine, calm or not, and inductive with the types: a step that writes one
of the statuses in between is made by a goroutine that goes on, and one that leaves
writes a final status or is refused it, which `orphan` records. Working on the
proof showed that `DeletedIsGone` had been stated wrongly: it spoke of the last
document of a batch only, and a second restart, which one event in the run excludes,
made it false. It now speaks of every document of the batch at its own step, and
excludes every failing or interrupting event.

What the provers take from the modules are the assumptions named there: sizes and
capacities are natural numbers, positive where the code makes a channel or a pool
of them, sets of executions, slaves, watchers and tasks are finite, the mixes
of `GuluExecution` and `SlaveLink` are well-typed, and the documents of
`DocumentIndexing` have numbers, positive dimensions and fewer chunks than `Stride`.

Only model-checked is everything with fairness (`StopReturns`, `ScalingSettles`,
`Terminates`, `Settles` of the staged modes, `ReportGenerated`, `StopEndsTasks`, `StopEnds`,
`SilentGoesOffline`, `ComesBack`, `RequestReturns`, `QuestionEnds`), which TLAPS does not
reach.

## 5. Findings

With a run: `gulu_stream_record`. `executeSSE` writes the final status of a stream
only if `GetSession` finds the session, and the deferred `CleanupSession` has
removed it before.

With a run: `master_limit`. `docs/USER_MANUAL.md:133` and the refusal at
`internal/master/master.go:250` speak of a maximum number of concurrent executions;
the test (249) and the increment (278) of `executionCount` are two steps, and two
callers at the same time both pass. An abort that gives up after ten seconds gives
its place back while its engine still runs.

Further sentences of documents and comments that the models refute. Each formula
is false of the module as it stands; TLC gives a short counterexample on the
smallest instance.

* `internal/slave/task_engine.go:428`, the lock keeps the WaitGroup free of races: the
  controller calls `wg.Add` between the last `wg.Done` and the return of
  `wg.Wait`, and Go panics on the reuse (line 515). ConstantVUs, `~crashed`.
* `internal/slave/task_engine.go:745`: as many failures as `errChan` has places
  plus one block the shared mode for ever, and no cancellation, `Stop` of the slave
  or stop of the execution ends it. FixedIterations, `<>(main = "returned")`.
* `internal/slave/task_engine.go:82`: when the configured outputs cannot be created
  the execution runs without metrics and ends without a report. OutputPipeline,
  `ReportGenerated` without its exception.
* `internal/master/master.go:210`, a graceful stop: `Stop` after `StopExecution`, while
  the status is still Running, closes `stopCh` twice (line 225). Master,
  `~crashed`.
* `docs/USER_MANUAL.md:595`, constant-vus has a fixed number of VUs: the
  controller scales to the engine's capacity, not to the VUs asked for.
  ConstantVUs, `activeVUs <= VUs`, with a pool larger than `VUs`.
* `docs/USER_MANUAL.md:511`, iterations bound a run: the controller starts new VUs
  with a new quota in place of those that have used theirs up. ConstantVUs, the
  sum of `iteration[i]` stays within `VUs * Iterations`.
* `internal/slave/task_engine.go:563`, all VU goroutines have exited: a VU started
  after `vusDone` was closed outlives the call. ConstantVUs,
  `main = "returned" => \A i \in VUIDs : vu[i] \in {"none", "exited"}`.
* `internal/slave/slave.go:384`, the state is restored when no task is active: the
  test runs before the deferred count down. WorkerSlave,
  `activeTasks = 0 => state # "Busy"`.
* `cmd/slave.go:201`, the slave retries to connect: nothing does. WorkerSlave,
  `link = "failed" ~> connected \/ stopCalled`.
* `internal/master/master.go:250`, a submission is refused because the maximum is
  reached: an execution that could not be scheduled keeps its place for ever.
* `docs/API.md:294`, pausing: no engine reads `pauseCh`, a paused execution
  completes. Master, `[][status[e] = "Paused" => status'[e] # "Completed"]_vars`.
* `internal/master/master.go:821`, a stop is followed by Aborted: a distributed
  execution ends Completed or Failed. Master, `e \in stopCh ~> status[e] =
  "Aborted" \/ crashed`.
* `docs/API.md:535`, draining stops new tasks: the next heartbeat replaces the
  draining state by online or busy. SlaveRegistry,
  `[][status[s] = "draining" => status'[s] \notin {"online", "busy"}]_registryVars`.


**Ramping and arrival rates.**

* The ramp never reaches the target of its last stage: progress is below 1 at
  every tick (`Points`).
* After an id was skipped `len(vuCtxs)` is no longer the next free id: a VU above the
  target keeps running, and one that panicked is never replaced.
* After `TaskEngine.Stop` the pool has marked running VUs as free, and a last tick
  may start a second goroutine under an id. StagedModes, `OneVUPerId` without
  `~stopped`.
* The arrival-rate modes call `wg.Done` first and count down later, so the call may
  return while `activeVUs > 0`. An iteration is dropped although a VU was just
  started for it: the channel is still full.

**Master and slave.**

* After a lost connection a slave registers under an id that nobody has
  unregistered and is refused, over and over, until the master is restarted. The
  same happens when the acknowledgement of the first WebSocket connection is
  lost: the HTTP fallback is refused and the client ends.
* A connection that is lost while the reconnecting flag is still set starts no
  loop (`missed` in `ComesBack`); the first connection that fails is never retried.
* The deferred unregister of a replaced connection removes its successor from the
  hub; later tasks are queued, and nobody polls over WebSocket (`ReadPump`).
* `AssignTask` may put an item into the queue while the connection is being set up and
  drained: over WebSocket it stays there. A drain into a full send buffer drops; a
  drain of a queue that was closed spins; a send into one panics.
* Results buffered while a WebSocket is down are not shipped when it is back; a full
  buffer drops the oldest result without a count, and a second sender may block. A
  result that meets a full send buffer of the WebSocket is only printed
  (`internal/slave/slave.go:255`).
  The master takes results and keeps none of them.
* A client that was told to disconnect over WebSocket reconnects.

**gulu executions.**

* A row that is stopped becomes failed when the run returns its context's error; a
  late "running" of `Execute`, a pause or a resume replaces a final status; the
  webhook may write any status.
* A stop between `CreateSession` and `SetCancel` is lost. A stop, pause or resume of
  a stream by its row only writes the row.
* An answer that comes late stays in the channel and answers the next question;
  `SubmitInteraction` may send into a closed channel, which panics.
* `workflow_completed` says success after a deadline or a failure of the engine
  in which no step failed.
* An error of `SaveFromReport` is printed and the terminal status written all the
  same: the frontend finds no report. A failed UPDATE of a status is ignored, so the
  row stays as it was.
* A webhook that writes running before the id of the engine is stored, and a run
  without an engine, make Stop report that the execution does not exist, and Pause
  and Resume write the row only.
* The monitor gives up after 30 minutes and drops the engine's id while the run
  goes on. A failure after the row was written leaves it running or pending; the
  statuses success and timeout are not terminal for `isTerminalStatus`, so such
  rows get no end time.
* A request that is refused because its session id is in use marks the rows of both
  requests failed.

**gulu document indexing.**

* `gulu/internal/logic/knowledge_qdrant.go:87`: an existing collection without an image
  field is accepted, and the images have nowhere to go.
* An image-only document that runs beside the first text document drops the new
  collection; a change of the model drops the vectors of documents that stay
  completed.
* After a change of the multimodal model the images of a document drop the collection
  that has just taken its text, and the document is completed without its text
  vectors (`remade`). DocumentIndexing, `CompletedIsIndexed` without that exception.
* Images without data, or that could not be stored, are not indexed but counted in
  `chunk_count` (`extra`).
* `Process` beside `DeleteDocument` leaves segments and points without a document;
  two runs of `Process` on one document leave segments twice; a disabled segment
  may become searchable again.
* The configuration that `Process` writes back undoes a concurrent `Update`.
* A restart leaves documents in the middle of processing, and so does a failure of
  the last UPDATE (`knowledge_processor.go:283` and `1408` ignore its error).
* Deleting a document leaves its image files; embedding the segment of an image
  again replaces its point by a text vector; ids of points collide from 100000
  chunks on.

## 6. Not modelled, and the plan

Not modelled for good: parser, expressions, keywords, hooks, step executors and
reporters (sequential, no shared state; an iteration is one step), configuration
and command line, statistics in floating point, the CRUD services `admin`, `common`
and most of `gulu`, and generated code. They are by far the larger part of the
repository's lines: generated query builders, handlers that read a row and write
it back, converters of formats and clients of external services have no state
machine to check, and a model of them would repeat them. What keeps state,
runs concurrently or fails half-way has a module; within the modelled components
the parts left out are named in `PROJECT.json`.

Left out of modelled components: `ScaleExecution` and the progress of the master;
the graph branch and the searches of a knowledge base; the metrics buffer of the
client, which has the code of the result buffer; a restart of `gulu` under
running executions, after which nothing looks at the rows again; the calls to
stop, pause and scale a mode of `internal/execution`, which have no caller.

What comes next:

1. The scheduler's divisions as operators against their definition, and
   `Reschedule`.
2. The hazards `PROJECT.json` lists without a property: the note of
   each says why. What is left is to state what the code should promise instead.
