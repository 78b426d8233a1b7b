-------------------------- MODULE WorkerSlave_proofs --------------------------
(***************************************************************************)
(* Proofs about WorkerSlave for any set of tasks and any number of          *)
(* reconnects.  The count of active tasks is right whatever the transport.  *)
(* That a slave with one poll loop never closes a channel twice rests on    *)
(* Sequential: the fields of the one TaskEngine, samplesChan, closed and    *)
(* outputFinish, agree with where the one task that is handled is.          *)
(***************************************************************************)
EXTENDS WorkerSlave, FiniteSetTheorems, TLAPS

\* No loop exists before Connect.
Unconnected == link = "none" => transport = "none" /\ pollers = 0

Fresh   == {"assigned", "busy", "begin", "setup", "create"}
Piped   == {"run", "stopTS", "close", "clear", "report"}
Holding == {"run", "stuck", "stopTS", "close", "clear"}

\* With one poll loop one task is handled at a time.
OneTask == \A s, t \in Tasks : task[s] \notin Idle /\ task[t] \notin Idle => s = t

\* The channel in e.samplesChan is the one of the task that is between its
\* set-up and the nil assignment, and is open until that task closes it.
OwnChannel ==
    /\ samplesChan # None => samplesChan \in Tasks /\ task[samplesChan] \in Holding
    /\ \A t \in Tasks : task[t] \in Holding => samplesChan = t
    /\ \A t \in Tasks : task[t] \in {"run", "stopTS", "close"} => t \notin closed

\* A task that has no pipeline yet has not left a trace in the engine.
NoTrace == \A t \in Tasks : task[t] \in Fresh => t \notin closed /\ t \notin stopped /\ outputFinish # t

\* While every pipeline could be set up, the outputs e.outputFinish stops and
\* the channel of the collector are those of the task.
OwnOutputs ==
    ~setupFailed => \A t \in Tasks :
        /\ task[t] \in Piped => outputFinish = t /\ t \notin stopped
        /\ task[t] = "run" => emitChan = t

Sequential == OnePoller => OneTask /\ OwnChannel /\ NoTrace /\ OwnOutputs /\ NoDoubleClose

IInv == TypeOK /\ ActiveTasksAgree /\ Unconnected /\ Sequential

-----------------------------------------------------------------------------

TaskAction(t) == ReceiveTask(t) \/ ModeReturns(t) \/ ModeBlocks(t) \/ TaskStep(t)

\* Sets of tasks are finite.
LEMMA Sizes == \A S : S \subseteq Tasks => IsFiniteSet(S) /\ Cardinality(S) \in Nat
BY TasksAssumption, FS_Subset, FS_CardinalityType

\* The tasks that count are known from one step to the next when one moves.
LEMMA CountSteps ==
    ASSUME TypeOK, ActiveTasksAgree, NEW t \in Tasks, NEW from \in Idle \cup Counted,
           NEW to \in Idle \cup Counted, Move(t, from, to)
    PROVE  LET C == {u \in Tasks : task[u] \in Counted} IN
           /\ from \in Counted /\ to \in Counted => Cardinality(C') = activeTasks
           /\ from \in Idle /\ to \in Counted => Cardinality(C') = activeTasks + 1
           /\ from \in Counted /\ to \in Idle => Cardinality(C') = activeTasks - 1 /\ activeTasks > 0
<1> DEFINE C == {u \in Tasks : task[u] \in Counted}
<1>0. task \in [Tasks -> Idle \cup Counted] /\ Idle \cap Counted = {}
  BY DEF TypeOK, Idle, Counted, Engine
<1>1. IsFiniteSet(C) /\ Cardinality(C) \in Nat /\ activeTasks = Cardinality(C)
  BY Sizes DEF ActiveTasksAgree
<1>2. ASSUME from \in Counted, to \in Counted PROVE Cardinality(C') = activeTasks
  <2>1. C' = C BY <1>0, <1>2 DEF Move
  <2> QED BY <1>1, <2>1
<1>3. ASSUME from \in Idle, to \in Counted PROVE Cardinality(C') = activeTasks + 1
  <2>1. t \notin C /\ C' = C \cup {t} BY <1>0, <1>3 DEF Move
  <2> HIDE DEF C
  <2> QED BY <1>1, <2>1, FS_AddElement
<1>4. ASSUME from \in Counted, to \in Idle
      PROVE  Cardinality(C') = activeTasks - 1 /\ activeTasks > 0
  <2>1. t \in C /\ C' = C \ {t} BY <1>0, <1>4 DEF Move
  <2>2. C' \subseteq Tasks BY <2>1
  <2> HIDE DEF C
  <2>3. Cardinality(C') = Cardinality(C) - 1 BY <1>1, <2>1, FS_RemoveElement
  <2>4. Cardinality(C') \in Nat BY <2>2, Sizes
  <2> QED BY <1>1, <2>3, <2>4
<1> QED BY <1>2, <1>3, <1>4

\* The count of active tasks follows every task that is taken up and ended.
LEMMA CountStep ==
    ASSUME TypeOK, ActiveTasksAgree, [Next]_vars
    PROVE  ActiveTasksAgree' /\ activeTasks' \in Nat
<1> DEFINE C == {u \in Tasks : task[u] \in Counted}
<1> USE DEF slaveVars, engineVars, taskVars, chanVars, outVars
<1>0. activeTasks \in Nat /\ activeTasks = Cardinality(C) BY DEF TypeOK, ActiveTasksAgree
<1>1. ASSUME UNCHANGED <<task, activeTasks>> PROVE ActiveTasksAgree' /\ activeTasks' \in Nat
  BY <1>0, <1>1 DEF ActiveTasksAgree
<1>2. CASE UNCHANGED vars BY <1>1, <1>2 DEF vars
<1>3. CASE Connect \/ ConnectFails \/ LoseLink \/ Reconnect \/ Stop \/ Disconnect
  BY <1>1, <1>3 DEF Connect, ConnectFails, LoseLink, Reconnect, Stop, Disconnect
<1>4. ASSUME NEW t \in Tasks, TaskAction(t) PROVE ActiveTasksAgree' /\ activeTasks' \in Nat
  <2> USE DEF Idle, Counted, Engine
  <2>1. CASE ReceiveTask(t)
    <3>1. Cardinality(C') = activeTasks + 1 BY <2>1, CountSteps DEF ReceiveTask
    <3> QED BY <1>0, <2>1, <3>1 DEF ReceiveTask, ActiveTasksAgree
  <2>2. CASE Uncount(t)
    <3>1. Cardinality(C') = activeTasks - 1 /\ activeTasks > 0 BY <2>2, CountSteps DEF Uncount
    <3> QED BY <1>0, <2>2, <3>1 DEF Uncount, ActiveTasksAgree
  <2>3. CASE ~ ReceiveTask(t) /\ ~ Uncount(t)
    <3>1. activeTasks' = activeTasks
      BY <1>4, <2>3 DEF TaskAction, ModeReturns, ModeBlocks, RejectTask, TaskStep, EndOfTask, SetBusy, Begin, NeedsPipeline,
         SetupMetricsPipeline, SetupFails, HasChannel, CloseChannel, ClearChannel, StopOutputs, CheckOnline
    <3>2. PICK from \in Counted, to \in Counted : Move(t, from, to)
      BY <1>4, <2>3 DEF TaskAction, ModeReturns, ModeBlocks, RejectTask, TaskStep, EndOfTask, SetBusy, Begin, NeedsPipeline,
         SetupMetricsPipeline, SetupFails, HasChannel, CloseChannel, ClearChannel, StopOutputs, CheckOnline
    <3>3. Cardinality(C') = activeTasks BY <3>2, CountSteps
    <3> QED BY <1>0, <3>1, <3>3 DEF ActiveTasksAgree
  <2> QED BY <2>1, <2>2, <2>3
<1> QED BY <1>2, <1>3, <1>4 DEF Next, Step, TaskAction, Finished

\* The types.
LEMMA TypeStep ==
    ASSUME TypeOK, ActiveTasksAgree, [Next]_vars
    PROVE  TypeOK'
<1> USE MaxPollersAssumption DEF TypeOK, slaveVars, engineVars, taskVars, chanVars, outVars, Move, Idle, Counted, Engine
<1>0. activeTasks' \in Nat BY CountStep
<1>1. CASE UNCHANGED vars BY <1>0, <1>1 DEF vars
<1>2. CASE Connect BY <1>0, <1>2 DEF Connect
<1>3. CASE ConnectFails BY <1>0, <1>3 DEF ConnectFails
<1>4. CASE LoseLink BY <1>0, <1>4 DEF LoseLink
<1>5. CASE Reconnect BY <1>0, <1>5 DEF Reconnect
<1>6. CASE Stop BY <1>0, <1>6 DEF Stop
<1>7. CASE Disconnect BY <1>0, <1>7 DEF Disconnect
<1>8. ASSUME NEW t \in Tasks, TaskAction(t) PROVE TypeOK'
  <2>1. CASE ReceiveTask(t) BY <1>0, <2>1 DEF ReceiveTask
  <2>2. CASE SetBusy(t) BY <1>0, <2>2 DEF SetBusy
  <2>3. CASE Begin(t) BY <1>0, <2>3 DEF Begin
  <2>a. CASE RejectTask(t) BY <1>0, <2>a DEF RejectTask
  <2>b. CASE ModeBlocks(t) BY <1>0, <2>b DEF ModeBlocks
  <2>4. CASE NeedsPipeline(t) BY <1>0, <2>4 DEF NeedsPipeline
  <2>5. CASE SetupMetricsPipeline(t) BY <1>0, <2>5 DEF SetupMetricsPipeline
  <2>6. CASE SetupFails(t) BY <1>0, <2>6 DEF SetupFails
  <2>7. CASE ModeReturns(t) BY <1>0, <2>7 DEF ModeReturns
  <2>8. CASE HasChannel(t) BY <1>0, <2>8 DEF HasChannel
  <2>9. CASE CloseChannel(t) BY <1>0, <2>9 DEF CloseChannel
  <2>10. CASE ClearChannel(t) BY <1>0, <2>10 DEF ClearChannel
  <2>11. CASE StopOutputs(t) BY <1>0, <2>11 DEF StopOutputs
  <2>12. CASE CheckOnline(t) BY <1>0, <2>12 DEF CheckOnline
  <2>13. CASE Uncount(t) BY <1>0, <2>13 DEF Uncount
  <2> QED BY <1>8, <2>a, <2>b, <2>1, <2>2, <2>3, <2>4, <2>5, <2>6, <2>7, <2>8, <2>9, <2>10, <2>11, <2>12, <2>13 DEF TaskAction, TaskStep, EndOfTask
<1> QED BY <1>1, <1>2, <1>3, <1>4, <1>5, <1>6, <1>7, <1>8 DEF Next, Step, TaskAction, Finished

\* A slave with one poll loop has never had more.
LEMMA OnePollerBefore ==
    ASSUME TypeOK, Unconnected, [Next]_vars
    PROVE  Unconnected' /\ (OnePoller' => OnePoller)
<1> USE MaxPollersAssumption DEF Unconnected, OnePoller, slaveVars, engineVars, taskVars, chanVars, outVars
<1>0. pollers \in Nat BY DEF TypeOK
<1>1. CASE UNCHANGED slaveVars BY <1>1
<1>2. CASE Connect BY <1>2 DEF Connect
<1>3. CASE ConnectFails BY <1>3 DEF ConnectFails
<1>4. CASE LoseLink BY <1>4 DEF LoseLink
<1>5. CASE Reconnect BY <1>0, <1>5 DEF Reconnect
<1>6. CASE Stop BY <1>6 DEF Stop
<1>7. CASE Disconnect BY <1>7 DEF Disconnect
<1>8. ASSUME NEW t \in Tasks, TaskAction(t) PROVE UNCHANGED <<transport, link, pollers>>
  BY <1>8 DEF TaskAction, ReceiveTask, ModeReturns, ModeBlocks, RejectTask, TaskStep, EndOfTask, SetBusy, Begin, NeedsPipeline,
     SetupMetricsPipeline, SetupFails, HasChannel, CloseChannel, ClearChannel, StopOutputs, CheckOnline, Uncount
<1>9. ASSUME UNCHANGED <<transport, link, pollers>> PROVE Unconnected' /\ (OnePoller' => OnePoller) BY <1>9
<1> QED BY <1>1, <1>2, <1>3, <1>4, <1>5, <1>6, <1>7, <1>8, <1>9 DEF Next, Step, TaskAction, Finished, vars

\* One poll loop takes up a task only when it has none.
LEMMA OneTaskStep ==
    ASSUME TypeOK, OnePoller, OneTask, [Next]_vars
    PROVE  OneTask'
<1> USE DEF OneTask, Idle, slaveVars, engineVars, taskVars, chanVars, outVars
<1>0. task \in [Tasks -> Idle \cup Counted] BY DEF TypeOK
<1>1. CASE UNCHANGED vars BY <1>1 DEF vars
<1>2. CASE Connect BY <1>2 DEF Connect
<1>3. CASE ConnectFails BY <1>3 DEF ConnectFails
<1>4. CASE LoseLink BY <1>4 DEF LoseLink
<1>5. CASE Reconnect BY <1>5 DEF Reconnect
<1>6. CASE Stop BY <1>6 DEF Stop
<1>7. CASE Disconnect BY <1>7 DEF Disconnect
<1>8. ASSUME NEW t \in Tasks, TaskAction(t) PROVE OneTask'
  <2>1. CASE ReceiveTask(t)
    <3> DEFINE B == {u \in Tasks : task[u] \notin Idle}
    <3>1. Cardinality(B) < pollers /\ pollers \in Nat /\ pollers <= 1
      BY <1>0, <2>1 DEF ReceiveTask, MayBegin, OnePoller, TypeOK
    <3>2. IsFiniteSet(B) /\ Cardinality(B) \in Nat BY Sizes
    <3>3. Cardinality(B) = 0 BY <3>1, <3>2
    <3>4. B = {} BY <3>2, <3>3, FS_EmptySet
    <3>5. \A u \in Tasks : task[u] \in Idle BY <3>4
    <3> QED BY <2>1, <3>5 DEF ReceiveTask, Move
  <2>2. CASE SetBusy(t) BY <1>0, <2>2 DEF SetBusy, Move
  <2>3. CASE Begin(t) BY <1>0, <2>3 DEF Begin, Move
  <2>a. CASE RejectTask(t) BY <1>0, <2>a DEF RejectTask, Move
  <2>b. CASE ModeBlocks(t) BY <1>0, <2>b DEF ModeBlocks, Move
  <2>4. CASE NeedsPipeline(t) BY <1>0, <2>4 DEF NeedsPipeline, Move
  <2>5. CASE SetupMetricsPipeline(t) BY <1>0, <2>5 DEF SetupMetricsPipeline, Move
  <2>6. CASE SetupFails(t) BY <1>0, <2>6 DEF SetupFails, Move
  <2>7. CASE ModeReturns(t) BY <1>0, <2>7 DEF ModeReturns, Move
  <2>8. CASE HasChannel(t) BY <1>0, <2>8 DEF HasChannel, Move
  <2>9. CASE CloseChannel(t) BY <1>0, <2>9 DEF CloseChannel, Move
  <2>10. CASE ClearChannel(t) BY <1>0, <2>10 DEF ClearChannel, Move
  <2>11. CASE StopOutputs(t) BY <1>0, <2>11 DEF StopOutputs, Move
  <2>12. CASE CheckOnline(t) BY <1>0, <2>12 DEF CheckOnline, Move
  <2>13. CASE Uncount(t) BY <1>0, <2>13 DEF Uncount, Move
  <2> QED BY <1>8, <2>a, <2>b, <2>1, <2>2, <2>3, <2>4, <2>5, <2>6, <2>7, <2>8, <2>9, <2>10, <2>11, <2>12, <2>13 DEF TaskAction, TaskStep, EndOfTask
<1> QED BY <1>1, <1>2, <1>3, <1>4, <1>5, <1>6, <1>7, <1>8 DEF Next, Step, TaskAction, Finished

\* The field samplesChan belongs to the task that is handled.
LEMMA OwnChannelStep ==
    ASSUME TypeOK, OneTask, OwnChannel, NoTrace, [Next]_vars
    PROVE  OwnChannel'
<1> USE NoneAssumption DEF OwnChannel, Idle, Holding, slaveVars, engineVars, taskVars, chanVars, outVars
<1>0. task \in [Tasks -> Idle \cup Counted] BY DEF TypeOK
<1>1. CASE UNCHANGED vars BY <1>1 DEF vars
<1>2. CASE Connect BY <1>2 DEF Connect
<1>3. CASE ConnectFails BY <1>3 DEF ConnectFails
<1>4. CASE LoseLink BY <1>4 DEF LoseLink
<1>5. CASE Reconnect BY <1>5 DEF Reconnect
<1>6. CASE Stop BY <1>6 DEF Stop
<1>7. CASE Disconnect BY <1>7 DEF Disconnect
<1>8. ASSUME NEW t \in Tasks, TaskAction(t) PROVE OwnChannel'
  <2>1. CASE ReceiveTask(t) BY <1>0, <2>1 DEF ReceiveTask, Move, OneTask, NoTrace, Fresh
  <2>2. CASE SetBusy(t) BY <1>0, <2>2 DEF SetBusy, Move, OneTask, NoTrace, Fresh
  <2>3. CASE Begin(t) BY <1>0, <2>3 DEF Begin, Move, OneTask, NoTrace, Fresh
  <2>a. CASE RejectTask(t) BY <1>0, <2>a DEF RejectTask, Move, OneTask, NoTrace, Fresh
  <2>b. CASE ModeBlocks(t) BY <1>0, <2>b DEF ModeBlocks, Move, OneTask, NoTrace, Fresh
  <2>4. CASE NeedsPipeline(t) BY <1>0, <2>4 DEF NeedsPipeline, Move, OneTask, NoTrace, Fresh
  <2>5. CASE SetupMetricsPipeline(t) BY <1>0, <2>5 DEF SetupMetricsPipeline, Move, OneTask, NoTrace, Fresh
  <2>6. CASE SetupFails(t) BY <1>0, <2>6 DEF SetupFails, Move, OneTask, NoTrace, Fresh
  <2>7. CASE ModeReturns(t) BY <1>0, <2>7 DEF ModeReturns, Move, OneTask, NoTrace, Fresh
  <2>8. CASE HasChannel(t) BY <1>0, <2>8 DEF HasChannel, Move, OneTask, NoTrace, Fresh
  <2>9. CASE CloseChannel(t) BY <1>0, <2>9 DEF CloseChannel, Move, OneTask, NoTrace, Fresh
  <2>10. CASE ClearChannel(t) BY <1>0, <2>10 DEF ClearChannel, Move, OneTask, NoTrace, Fresh
  <2>11. CASE StopOutputs(t) BY <1>0, <2>11 DEF StopOutputs, Move, OneTask, NoTrace, Fresh
  <2>12. CASE CheckOnline(t) BY <1>0, <2>12 DEF CheckOnline, Move, OneTask, NoTrace, Fresh
  <2>13. CASE Uncount(t) BY <1>0, <2>13 DEF Uncount, Move, OneTask, NoTrace, Fresh
  <2> QED BY <1>8, <2>a, <2>b, <2>1, <2>2, <2>3, <2>4, <2>5, <2>6, <2>7, <2>8, <2>9, <2>10, <2>11, <2>12, <2>13 DEF TaskAction, TaskStep, EndOfTask
<1> QED BY <1>1, <1>2, <1>3, <1>4, <1>5, <1>6, <1>7, <1>8 DEF Next, Step, TaskAction, Finished

\* What is closed or stopped belongs to a task that has been set up.
LEMMA NoTraceStep ==
    ASSUME TypeOK, OneTask, OwnChannel, NoTrace, [Next]_vars
    PROVE  NoTrace'
<1> USE NoneAssumption DEF NoTrace, Idle, Fresh, slaveVars, engineVars, taskVars, chanVars, outVars
<1>0. task \in [Tasks -> Idle \cup Counted] BY DEF TypeOK
<1>1. CASE UNCHANGED vars BY <1>1 DEF vars
<1>2. CASE Connect BY <1>2 DEF Connect
<1>3. CASE ConnectFails BY <1>3 DEF ConnectFails
<1>4. CASE LoseLink BY <1>4 DEF LoseLink
<1>5. CASE Reconnect BY <1>5 DEF Reconnect
<1>6. CASE Stop BY <1>6 DEF Stop
<1>7. CASE Disconnect BY <1>7 DEF Disconnect
<1>8. ASSUME NEW t \in Tasks, TaskAction(t) PROVE NoTrace'
  <2>1. CASE ReceiveTask(t) BY <1>0, <2>1 DEF ReceiveTask, Move, OwnChannel, Holding
  <2>2. CASE SetBusy(t) BY <1>0, <2>2 DEF SetBusy, Move, OwnChannel, Holding
  <2>3. CASE Begin(t) BY <1>0, <2>3 DEF Begin, Move, OwnChannel, Holding
  <2>a. CASE RejectTask(t) BY <1>0, <2>a DEF RejectTask, Move, OwnChannel, Holding
  <2>b. CASE ModeBlocks(t) BY <1>0, <2>b DEF ModeBlocks, Move, OwnChannel, Holding
  <2>4. CASE NeedsPipeline(t) BY <1>0, <2>4 DEF NeedsPipeline, Move, OwnChannel, Holding
  <2>5. CASE SetupMetricsPipeline(t) BY <1>0, <2>5 DEF SetupMetricsPipeline, Move, OwnChannel, Holding
  <2>6. CASE SetupFails(t) BY <1>0, <2>6 DEF SetupFails, Move, OwnChannel, Holding
  <2>7. CASE ModeReturns(t) BY <1>0, <2>7 DEF ModeReturns, Move, OwnChannel, Holding
  <2>8. CASE HasChannel(t) BY <1>0, <2>8 DEF HasChannel, Move, OwnChannel, Holding
  <2>9. CASE CloseChannel(t) BY <1>0, <2>9 DEF CloseChannel, Move, OwnChannel, Holding
  <2>10. CASE ClearChannel(t) BY <1>0, <2>10 DEF ClearChannel, Move, OwnChannel, Holding
  <2>11. CASE StopOutputs(t) BY <1>0, <2>11 DEF StopOutputs, Move, OwnChannel, Holding
  <2>12. CASE CheckOnline(t) BY <1>0, <2>12 DEF CheckOnline, Move, OwnChannel, Holding
  <2>13. CASE Uncount(t) BY <1>0, <2>13 DEF Uncount, Move, OwnChannel, Holding
  <2> QED BY <1>8, <2>a, <2>b, <2>1, <2>2, <2>3, <2>4, <2>5, <2>6, <2>7, <2>8, <2>9, <2>10, <2>11, <2>12, <2>13 DEF TaskAction, TaskStep, EndOfTask
<1> QED BY <1>1, <1>2, <1>3, <1>4, <1>5, <1>6, <1>7, <1>8 DEF Next, Step, TaskAction, Finished

\* outputFinish and the collector's channel are renewed with the task.
LEMMA OwnOutputsStep ==
    ASSUME TypeOK, OneTask, OwnChannel, NoTrace, OwnOutputs, [Next]_vars
    PROVE  OwnOutputs'
<1> USE NoneAssumption DEF OwnOutputs, Idle, Piped, slaveVars, engineVars, taskVars, chanVars, outVars
<1>0. task \in [Tasks -> Idle \cup Counted] BY DEF TypeOK
<1>1. CASE UNCHANGED vars BY <1>1 DEF vars
<1>2. CASE Connect BY <1>2 DEF Connect
<1>3. CASE ConnectFails BY <1>3 DEF ConnectFails
<1>4. CASE LoseLink BY <1>4 DEF LoseLink
<1>5. CASE Reconnect BY <1>5 DEF Reconnect
<1>6. CASE Stop BY <1>6 DEF Stop
<1>7. CASE Disconnect BY <1>7 DEF Disconnect
<1>8. ASSUME NEW t \in Tasks, TaskAction(t) PROVE OwnOutputs'
  <2>1. CASE ReceiveTask(t) BY <1>0, <2>1 DEF ReceiveTask, Move, OneTask, OwnChannel, Holding, NoTrace, Fresh
  <2>2. CASE SetBusy(t) BY <1>0, <2>2 DEF SetBusy, Move, OneTask, OwnChannel, Holding, NoTrace, Fresh
  <2>3. CASE Begin(t) BY <1>0, <2>3 DEF Begin, Move, OneTask, OwnChannel, Holding, NoTrace, Fresh
  <2>a. CASE RejectTask(t) BY <1>0, <2>a DEF RejectTask, Move, OneTask, OwnChannel, Holding, NoTrace, Fresh
  <2>b. CASE ModeBlocks(t) BY <1>0, <2>b DEF ModeBlocks, Move, OneTask, OwnChannel, Holding, NoTrace, Fresh
  <2>4. CASE NeedsPipeline(t) BY <1>0, <2>4 DEF NeedsPipeline, Move, OneTask, OwnChannel, Holding, NoTrace, Fresh
  <2>5. CASE SetupMetricsPipeline(t) BY <1>0, <2>5 DEF SetupMetricsPipeline, Move, OneTask, OwnChannel, Holding, NoTrace, Fresh
  <2>6. CASE SetupFails(t) BY <1>0, <2>6 DEF SetupFails, Move, OneTask, OwnChannel, Holding, NoTrace, Fresh
  <2>7. CASE ModeReturns(t) BY <1>0, <2>7 DEF ModeReturns, Move, OneTask, OwnChannel, Holding, NoTrace, Fresh
  <2>8. CASE HasChannel(t) BY <1>0, <2>8 DEF HasChannel, Move, OneTask, OwnChannel, Holding, NoTrace, Fresh
  <2>9. CASE CloseChannel(t) BY <1>0, <2>9 DEF CloseChannel, Move, OneTask, OwnChannel, Holding, NoTrace, Fresh
  <2>10. CASE ClearChannel(t) BY <1>0, <2>10 DEF ClearChannel, Move, OneTask, OwnChannel, Holding, NoTrace, Fresh
  <2>11. CASE StopOutputs(t) BY <1>0, <2>11 DEF StopOutputs, Move, OneTask, OwnChannel, Holding, NoTrace, Fresh
  <2>12. CASE CheckOnline(t) BY <1>0, <2>12 DEF CheckOnline, Move, OneTask, OwnChannel, Holding, NoTrace, Fresh
  <2>13. CASE Uncount(t) BY <1>0, <2>13 DEF Uncount, Move, OneTask, OwnChannel, Holding, NoTrace, Fresh
  <2> QED BY <1>8, <2>a, <2>b, <2>1, <2>2, <2>3, <2>4, <2>5, <2>6, <2>7, <2>8, <2>9, <2>10, <2>11, <2>12, <2>13 DEF TaskAction, TaskStep, EndOfTask
<1> QED BY <1>1, <1>2, <1>3, <1>4, <1>5, <1>6, <1>7, <1>8 DEF Next, Step, TaskAction, Finished

\* The engine panics only on outputs that have been stopped before.
LEMMA CrashStep ==
    ASSUME TypeOK, OnePoller, OwnChannel, OwnOutputs, NoDoubleClose, [Next]_vars, OnePoller'
    PROVE  NoDoubleClose'
<1> USE NoneAssumption DEF NoDoubleClose, slaveVars, engineVars, taskVars, chanVars, outVars
<1>1. CASE UNCHANGED vars BY <1>1 DEF vars
<1>2. CASE Connect BY <1>2 DEF Connect
<1>3. CASE ConnectFails BY <1>3 DEF ConnectFails
<1>4. CASE LoseLink BY <1>4 DEF LoseLink
<1>5. CASE Reconnect BY <1>5 DEF Reconnect
<1>6. CASE Stop BY <1>6 DEF Stop
<1>7. CASE Disconnect BY <1>7 DEF Disconnect
<1>8. ASSUME NEW t \in Tasks, TaskAction(t) PROVE NoDoubleClose'
  <2>1. CASE ReceiveTask(t) BY <2>1 DEF ReceiveTask
  <2>2. CASE SetBusy(t) BY <2>2 DEF SetBusy
  <2>3. CASE Begin(t) BY <2>3 DEF Begin
  <2>a. CASE RejectTask(t) BY <2>a DEF RejectTask
  <2>b. CASE ModeBlocks(t) BY <2>b DEF ModeBlocks
  <2>4. CASE NeedsPipeline(t) BY <2>4 DEF NeedsPipeline
  <2>5. CASE SetupMetricsPipeline(t) BY <2>5 DEF SetupMetricsPipeline
  <2>6. CASE SetupFails(t) BY <2>6 DEF SetupFails
  <2>7. CASE ModeReturns(t) BY <2>7 DEF ModeReturns
  <2>8. CASE HasChannel(t) BY <2>8 DEF HasChannel
  <2>9. CASE CloseChannel(t)
    <3>1. samplesChan = t /\ t \notin closed BY <2>9 DEF CloseChannel, Move, OwnChannel, Holding
    <3>2. ~crashed' BY <2>9, <3>1 DEF CloseChannel
    <3> QED BY <3>2
  <2>10. CASE ClearChannel(t) BY <2>10 DEF ClearChannel
  <2>11. CASE StopOutputs(t)
    <3>1. ~setupFailed => outputFinish \notin stopped BY <2>11 DEF StopOutputs, Move, OwnOutputs, Piped
    <3>2. crashed' => outputFinish \in stopped BY <2>11 DEF StopOutputs
    <3> QED BY <2>11, <3>1, <3>2 DEF StopOutputs
  <2>12. CASE CheckOnline(t) BY <2>12 DEF CheckOnline
  <2>13. CASE Uncount(t) BY <2>13 DEF Uncount
  <2> QED BY <1>8, <2>a, <2>b, <2>1, <2>2, <2>3, <2>4, <2>5, <2>6, <2>7, <2>8, <2>9, <2>10, <2>11, <2>12, <2>13 DEF TaskAction, TaskStep, EndOfTask
<1> QED BY <1>1, <1>2, <1>3, <1>4, <1>5, <1>6, <1>7, <1>8 DEF Next, Step, TaskAction, Finished

-----------------------------------------------------------------------------

\* The initial state: nothing is handled and the engine is empty.
LEMMA InitIInv == Init => IInv
<1> SUFFICES ASSUME Init PROVE IInv
    OBVIOUS
<1> USE MaxPollersAssumption, NoneAssumption DEF Init
<1>1. TypeOK
  <2>1. task \in [Tasks -> Idle \cup Counted] /\ era \in [Tasks -> 0 .. MaxPollers] BY DEF Idle
  <2>2. pollers \in 0 .. MaxPollers /\ activeTasks \in Nat OBVIOUS
  <2>3. /\ connected \in BOOLEAN /\ stopCalled \in BOOLEAN /\ crashed \in BOOLEAN
        /\ setupFailed \in BOOLEAN
    OBVIOUS
  <2> QED BY <2>1, <2>2, <2>3 DEF TypeOK
<1>2. ActiveTasksAgree
  <2>1. {t \in Tasks : task[t] \in Counted} = {} BY DEF Counted, Engine
  <2> QED BY <2>1, FS_EmptySet DEF ActiveTasksAgree
<1>3. Unconnected BY DEF Unconnected
<1>4. Sequential
  BY DEF Sequential, OneTask, OwnChannel, NoTrace, OwnOutputs, NoDoubleClose, Idle, Holding, Piped
<1> QED BY <1>1, <1>2, <1>3, <1>4 DEF IInv

\* The inductive invariant holds in every reachable state.
THEOREM Inductive == Spec => []IInv
<1>1. IInv /\ [Next]_vars => IInv'
  <2> SUFFICES ASSUME IInv, [Next]_vars PROVE IInv'
      OBVIOUS
  <2>1. TypeOK /\ ActiveTasksAgree /\ Unconnected /\ Sequential BY DEF IInv
  <2>2. TypeOK' BY <2>1, TypeStep
  <2>3. ActiveTasksAgree' BY <2>1, CountStep
  <2>4. Unconnected' /\ (OnePoller' => OnePoller) BY <2>1, OnePollerBefore
  <2>5. Sequential'
    <3> SUFFICES ASSUME OnePoller'
                 PROVE  OneTask' /\ OwnChannel' /\ NoTrace' /\ OwnOutputs' /\ NoDoubleClose'
        BY DEF Sequential
    <3>1. OnePoller /\ OneTask /\ OwnChannel /\ NoTrace /\ OwnOutputs /\ NoDoubleClose
      BY <2>1, <2>4 DEF Sequential
    <3> QED
      BY <2>1, <3>1, OneTaskStep, OwnChannelStep, NoTraceStep, OwnOutputsStep, CrashStep
  <2> QED BY <2>2, <2>3, <2>4, <2>5 DEF IInv
<1> QED BY <1>1, InitIInv, PTL DEF Spec

\* TypeOK holds in every reachable state of the slave.
THEOREM TypeCorrect == Spec => []TypeOK
<1>1. IInv => TypeOK BY DEF IInv
<1> QED BY <1>1, Inductive, PTL

\* The number of tasks the slave reports is the number it handles, however many
\* loops hand tasks over and whatever happens to the link.
THEOREM ActiveTasksTheorem == Spec => []ActiveTasksAgree
<1>1. IInv => ActiveTasksAgree BY DEF IInv
<1> QED BY <1>1, Inductive, PTL

\* A task of a slave with one poll loop runs with a pipeline of its own.
THEOREM OwnPipelineTheorem == Spec => []OwnPipeline
<1>1. IInv => OwnPipeline
  BY DEF IInv, Sequential, OwnChannel, OwnOutputs, OwnPipeline, Holding
<1> QED BY <1>1, Inductive, PTL

\* A slave with one poll loop does not panic on a closed channel, unless a
\* pipeline could not be set up after one that was.
THEOREM NoDoubleCloseTheorem == Spec => []NoDoubleClose
<1>1. IInv => NoDoubleClose BY DEF IInv, Sequential, NoDoubleClose
<1> QED BY <1>1, Inductive, PTL
=============================================================================
