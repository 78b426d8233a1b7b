----------------------------- MODULE WorkerSlave ------------------------------
(***************************************************************************)
(* WorkerSlave (internal/slave/slave.go), the loops of its client that hand *)
(* tasks over (api/rest/client), and the part of TaskEngine.Execute that    *)
(* all tasks of a slave share: one TaskEngine, with one cancelFunc and one  *)
(* samplesChan.  Over HTTP a poll loop runs tasks one after the other; over *)
(* WebSocket every task gets a goroutine of its own.  How a task's VUs run  *)
(* is ConstantVUs and its siblings; how samples are drained is              *)
(* OutputPipeline.                                                          *)
(***************************************************************************)
EXTENDS Integers, FiniteSets

CONSTANTS Tasks,     \* tasks the master assigns to this slave
          MaxPollers \* bound: loops started, by Connect and by reconnects

ASSUME TasksAssumption      == IsFiniteSet(Tasks)
ASSUME MaxPollersAssumption == MaxPollers \in Nat \ {0}

None == "none"
ASSUME NoneAssumption == None \notin Tasks

VARIABLES
    state,        \* the slave's state, as heartbeats report it
    connected,    \* the slave's flag
    transport,    \* "ws" (wsReadPump), "http" (taskPollLoop), "none" before Connect
    stopCalled,   \* WorkerSlave.Stop has run (stopOnce)
    link,         \* the client: "none", "up", "lost" (reconnecting), "closed",
                  \* or "failed" when Connect returned an error
    pollers,      \* loops the client has started; each start has a new context
    activeTasks,
    task,         \* task[t]: where the goroutine that handles t is
    era,          \* era[t]: the pollers when t was handed over, i.e. its context
    cancelled,    \* tasks whose execution context is cancelled
    cancelFunc,   \* the task whose cancel function the engine holds
    samplesChan,  \* the task that made e.samplesChan, or None
    emitChan,     \* the task that made the channel the collector emits into
    closed,       \* channels that have been closed
    outputFinish, \* the task whose outputs e.outputFinish stops, or None
    stopped,      \* tasks whose outputs have been stopped
    setupFailed,  \* a pipeline could not be set up
    crashed       \* a close of a closed or nil channel: the process is gone

slaveVars  == <<state, connected, transport, stopCalled, link, pollers>>
chanVars   == <<samplesChan, emitChan, closed>>
outVars    == <<outputFinish, stopped, setupFailed>>
engineVars == <<cancelFunc, chanVars, outVars>>
taskVars   == <<activeTasks, task, era, cancelled>>
vars == <<slaveVars, engineVars, taskVars, crashed>>

Idle    == {"assigned", "done"}
Engine  == {"begin", "setup", "create", "run", "stuck", "stopTS", "close", "clear", "report"}
Counted == {"busy", "check", "uncount"} \cup Engine

\* NewWorkerSlave and Start: the engine exists, no client does.
Init ==
    /\ state = "Online" /\ connected = FALSE /\ stopCalled = FALSE
    /\ link = "none" /\ transport = "none" /\ pollers = 0
    /\ activeTasks = 0
    /\ task = [t \in Tasks |-> "assigned"]
    /\ era = [t \in Tasks |-> 0]
    /\ cancelled = {}
    /\ cancelFunc = None /\ samplesChan = None /\ emitChan = None /\ closed = {}
    /\ outputFinish = None /\ stopped = {} /\ setupFailed = FALSE
    /\ crashed = FALSE

-----------------------------------------------------------------------------
(* The life of the slave.                                                   *)

\* WebSocket, or HTTP when that fails.  The process calls it once (cmd/slave.go).
Connect ==
    /\ link = "none" /\ ~stopCalled
    /\ connected' = TRUE /\ state' = "Online"
    /\ transport' \in {"ws", "http"}
    /\ link' = "up" /\ pollers' = 1
    /\ UNCHANGED <<stopCalled, engineVars, taskVars, crashed>>

\* Neither transport works: the process prints a warning and waits for its end.
ConnectFails ==
    /\ link = "none" /\ ~stopCalled
    /\ link' = "failed"
    /\ UNCHANGED <<state, connected, transport, stopCalled, pollers, engineVars, taskVars, crashed>>

\* handleDisconnect or handleWSDisconnect: the disconnect callback leaves the
\* state alone, and a reconnect loop starts.
LoseLink ==
    /\ link = "up"
    /\ link' = "lost" /\ connected' = FALSE
    /\ UNCHANGED <<state, transport, stopCalled, pollers, engineVars, taskVars, crashed>>

\* The reconnect loop has got through.  Over HTTP restartLoops starts one more
\* poll loop, and the old one goes on.  Both hand tasks over with the new
\* context, a child of context.Background().
Reconnect ==
    /\ link = "lost" /\ pollers < MaxPollers
    /\ link' = "up" /\ connected' = TRUE /\ pollers' = pollers + 1
    /\ UNCHANGED <<state, transport, stopCalled, engineVars, taskVars, crashed>>

\* Mutated form: Stop leaves the contexts and the engine alone.
StopNoCancel ==
    /\ ~stopCalled
    /\ stopCalled' = TRUE /\ connected' = FALSE /\ state' = "Offline"
    /\ UNCHANGED <<transport, link, pollers, engineVars, taskVars, crashed>>

\* The process's context (over WebSocket) or heartbeatCancel (over HTTP) ends
\* the contexts Connect made; taskEngine.Stop calls the cancelFunc it holds.
\* The client is not told.
Stop ==
    /\ ~stopCalled
    /\ stopCalled' = TRUE /\ connected' = FALSE /\ state' = "Offline"
    /\ cancelled' = cancelled \cup {t \in Tasks : era[t] = 1} \cup ({cancelFunc} \cap Tasks)
    /\ UNCHANGED <<transport, link, pollers, engineVars, activeTasks, task, era, crashed>>

\* Over HTTP heartbeatCancel and taskPollCancel end the first and the newest
\* context, and the client's loops end.  DisconnectWS makes the read pump
\* fail, which starts the reconnect loop.
Disconnect ==
    /\ connected
    /\ connected' = FALSE /\ state' = "Offline"
    /\ link' = IF transport = "ws" THEN "lost" ELSE "closed"
    /\ cancelled' = IF transport = "ws" THEN cancelled
                    ELSE cancelled \cup {t \in Tasks : era[t] \in {1, pollers}}
    /\ UNCHANGED <<transport, stopCalled, pollers, engineVars, activeTasks, task, era, crashed>>

-----------------------------------------------------------------------------
(* ExecuteTask of task t.                                                   *)

Move(t, from, to) == task[t] = from /\ task' = [task EXCEPT ![t] = to]

\* A poll loop hands over one task at a time: it goes on with the tasks it has
\* fetched when the link is lost or closed.
MayBegin == IF transport = "ws" THEN link = "up"
            ELSE Cardinality({t \in Tasks : task[t] \notin Idle}) < pollers

\* The task's context is done at once when the one it is derived from is.
ContextDone == \/ pollers = 1 /\ stopCalled
               \/ link = "closed"

ReceiveTask(t) ==
    /\ MayBegin
    /\ Move(t, "assigned", "busy")
    /\ activeTasks' = activeTasks + 1
    /\ era' = [era EXCEPT ![t] = pollers]
    /\ cancelled' = IF ContextDone THEN cancelled \cup {t} ELSE cancelled
    /\ UNCHANGED <<slaveVars, engineVars, crashed>>

SetBusy(t) ==
    /\ Move(t, "busy", "begin")
    /\ state' = IF activeTasks > 0 THEN "Busy" ELSE state
    /\ UNCHANGED <<connected, transport, stopCalled, link, pollers, engineVars, activeTasks, era, cancelled, crashed>>

\* The test that should bring the state back to Online runs before the
\* deferred activeTasks.Add(-1).
CheckOnline(t) ==
    /\ Move(t, "check", "uncount")
    /\ state' = IF activeTasks = 0 THEN "Online" ELSE state
    /\ UNCHANGED <<connected, transport, stopCalled, link, pollers, engineVars, activeTasks, era, cancelled, crashed>>

\* Mutated form: the deferred decrement is missing.
UncountMissing(t) ==
    /\ Move(t, "uncount", "done")
    /\ UNCHANGED <<slaveVars, engineVars, activeTasks, era, cancelled, crashed>>

Uncount(t) ==
    /\ Move(t, "uncount", "done")
    /\ activeTasks' = activeTasks - 1
    /\ UNCHANGED <<slaveVars, engineVars, era, cancelled, crashed>>

-----------------------------------------------------------------------------
(* TaskEngine.Execute of task t.                                            *)

Begin(t) ==
    /\ Move(t, "begin", "setup")
    /\ cancelFunc' = t
    /\ UNCHANGED <<slaveVars, chanVars, outVars, activeTasks, era, cancelled, crashed>>

\* A task without a workflow is refused before the engine is touched.
RejectTask(t) ==
    /\ Move(t, "begin", "check")
    /\ UNCHANGED <<slaveVars, engineVars, activeTasks, era, cancelled, crashed>>

\* if e.samplesChan == nil
NeedsPipeline(t) ==
    /\ Move(t, "setup", IF samplesChan = None THEN "create" ELSE "run")
    /\ UNCHANGED <<slaveVars, engineVars, activeTasks, era, cancelled, crashed>>

SetupMetricsPipeline(t) ==
    /\ Move(t, "create", "run")
    /\ samplesChan' = t /\ emitChan' = t /\ outputFinish' = t
    /\ UNCHANGED <<slaveVars, cancelFunc, closed, stopped, setupFailed, activeTasks, era, cancelled, crashed>>

\* An output cannot be created (the collector keeps its old channel) or started
\* (it has the new one): Execute warns and runs the task.
SetupFails(t) ==
    /\ Move(t, "create", "run")
    /\ samplesChan' = t /\ emitChan' \in {emitChan, t} /\ setupFailed' = TRUE
    /\ UNCHANGED <<slaveVars, cancelFunc, closed, outputFinish, stopped, activeTasks, era, cancelled, crashed>>

\* The mode returns, by itself or because the context is done.
ModeReturns(t) ==
    /\ Move(t, "run", "stopTS")
    /\ UNCHANGED <<slaveVars, engineVars, activeTasks, era, cancelled, crashed>>

\* executeSharedIterations never returns when more iterations fail than errChan
\* holds: a VU waits in errChan <- err, whatever happens to the context, and
\* wg.Wait for the VU (FixedIterations).
ModeBlocks(t) ==
    /\ Move(t, "run", "stuck")
    /\ UNCHANGED <<slaveVars, engineVars, activeTasks, era, cancelled, crashed>>

\* if e.samplesChan != nil
HasChannel(t) ==
    /\ Move(t, "stopTS", IF samplesChan = None THEN "report" ELSE "close")
    /\ UNCHANGED <<slaveVars, engineVars, activeTasks, era, cancelled, crashed>>

\* close(e.samplesChan): panics when the field is nil or closed by now.
CloseChannel(t) ==
    /\ Move(t, "close", "clear")
    /\ closed' = closed \cup {samplesChan}
    /\ crashed' = (samplesChan = None \/ samplesChan \in closed)
    /\ UNCHANGED <<slaveVars, cancelFunc, samplesChan, emitChan, outVars, activeTasks, era, cancelled>>

\* Mutated form: e.samplesChan = nil is missing.
ClearChannelMissing(t) ==
    /\ Move(t, "clear", "report")
    /\ UNCHANGED <<slaveVars, engineVars, activeTasks, era, cancelled, crashed>>

ClearChannel(t) ==
    /\ Move(t, "clear", "report")
    /\ samplesChan' = None
    /\ UNCHANGED <<slaveVars, cancelFunc, emitChan, closed, outVars, activeTasks, era, cancelled, crashed>>

\* outputWait, then outputFinish, which stops the flusher of every output: a
\* flusher stopped for the second time closes a closed channel.
StopOutputs(t) ==
    /\ Move(t, "report", "check")
    /\ stopped' = stopped \cup ({outputFinish} \cap Tasks)
    /\ crashed' = (outputFinish \in stopped)
    /\ UNCHANGED <<slaveVars, cancelFunc, chanVars, outputFinish, setupFailed, activeTasks, era, cancelled>>

EndOfTask(t) ==
    \/ HasChannel(t) \/ CloseChannel(t) \/ ClearChannel(t) \/ StopOutputs(t)
    \/ CheckOnline(t) \/ Uncount(t)

TaskStep(t) ==
    \/ SetBusy(t) \/ Begin(t) \/ RejectTask(t) \/ NeedsPipeline(t)
    \/ SetupMetricsPipeline(t) \/ SetupFails(t)
    \/ EndOfTask(t)

-----------------------------------------------------------------------------

Step ==
    \/ Connect \/ ConnectFails \/ LoseLink \/ Reconnect \/ Stop \/ Disconnect
    \/ \E t \in Tasks : ReceiveTask(t) \/ ModeReturns(t) \/ ModeBlocks(t) \/ TaskStep(t)

Finished ==
    /\ crashed \/ (\A t \in Tasks : task[t] \in Idle \cup {"stuck"})
    /\ UNCHANGED vars

Next == (~crashed /\ Step) \/ Finished

\* A goroutine that handles a task goes on.  How long a mode runs is up to the
\* workflow, unless its context is done: then it returns, if it is not stuck
\* (ConstantVUs, StagedModes, FixedIterations).  A reconnect loop goes on until it
\* gets through.
Fairness ==
    /\ \A t \in Tasks : /\ WF_vars(~crashed /\ TaskStep(t))
                        /\ WF_vars(~crashed /\ t \in cancelled /\ ModeReturns(t))
    /\ WF_vars(~crashed /\ Reconnect)

Spec == Init /\ [][Next]_vars /\ Fairness

-----------------------------------------------------------------------------
(* Properties.                                                              *)

TypeOK ==
    /\ state \in {"Offline", "Online", "Busy"}
    /\ transport \in {"none", "ws", "http"}
    /\ link \in {"none", "up", "lost", "closed", "failed"} /\ pollers \in 0 .. MaxPollers
    /\ connected \in BOOLEAN /\ stopCalled \in BOOLEAN /\ crashed \in BOOLEAN
    /\ activeTasks \in Nat
    /\ task \in [Tasks -> Idle \cup Counted]
    /\ era \in [Tasks -> 0 .. MaxPollers] /\ cancelled \subseteq Tasks
    /\ cancelFunc \in Tasks \cup {None} /\ samplesChan \in Tasks \cup {None}
    /\ emitChan \in Tasks \cup {None} /\ closed \subseteq Tasks \cup {None}
    /\ outputFinish \in Tasks \cup {None} /\ stopped \subseteq Tasks /\ setupFailed \in BOOLEAN

\* The number of tasks a heartbeat reports is the number being handled.
ActiveTasksAgree == activeTasks = Cardinality({t \in Tasks : task[t] \in Counted})

\* One poll loop: the slave works over HTTP and has never had to reconnect.
OnePoller == transport # "ws" /\ pollers <= 1

\* With one poll loop, and as long as every pipeline could be set up, a running
\* task emits its samples into a channel of its own that is open, although
\* engine and collector keep the fields of the task before.
OwnPipeline ==
    OnePoller /\ ~setupFailed => \A t \in Tasks : task[t] = "run" =>
        emitChan = t /\ samplesChan = t /\ t \notin closed

\* With one poll loop nothing is closed twice, unless the pipeline of a task
\* that follows one with a pipeline cannot be set up.
NoDoubleClose == OnePoller /\ crashed => setupFailed /\ stopped # {}

\* A task handed over before the first reconnect ends once the slave is told to
\* stop, also when the engine has not yet got, or no longer has, its cancelFunc;
\* unless its VUs have filled the errChan of the shared iterations, which no stop
\* reaches.
StopEndsTasks ==
    \A t \in Tasks : stopCalled /\ era[t] = 1 ~> task[t] \in {"done", "stuck"} \/ crashed
=============================================================================
