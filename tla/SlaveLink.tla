------------------------------ MODULE SlaveLink ------------------------------
(***************************************************************************)
(* The link between the master and one slave: on the master's side the task  *)
(* and command queues (api/rest/handlers.go) and the hub of WebSocket        *)
(* connections (slave_ws.go), on the slave's side the client with its two    *)
(* transports, its reconnect loops and its buffer of results (client.go,     *)
(* client_ws.go).  The registry appears as one bit: Register refuses an id   *)
(* it has (SlaveRegistry); what a slave does with a task is WorkerSlave.     *)
(***************************************************************************)
EXTENDS Integers, Sequences, SequencesExt

CONSTANTS
    Tasks, Commands,  \* what the master sends to the slave
    Results,          \* task results of the slave
    QueueCap,         \* 100 in the code: places of a queue
    SendCap,          \* 256 in the code: places of a connection's send buffer
    BufferCap,        \* ResultBufferSize
    Conns,            \* bound: WebSocket connections ever made
    Pollers,          \* bound: poll loops ever started
    Mixes             \* what happens: the items and results there are, whether a
                      \* WebSocket gets through, and as a bound the number of faults

Items == Tasks \cup Commands

ASSUME CapAssumption == QueueCap \in Nat /\ SendCap \in Nat /\ BufferCap \in Nat \ {0}
ASSUME BoundAssumption == Conns \subseteq Nat \ {0} /\ Pollers \subseteq Nat \ {0}
ASSUME ResultAssumption == 0 \notin Results /\ Results \cap Pollers = {}
ASSUME MixAssumption ==
    Mixes \subseteq [items : SUBSET Items, results : SUBSET Results, ws : BOOLEAN, faults : Nat]

VARIABLES
    mix, faults,
    reg,      \* the slave's id is in the registry
    queue,    \* taskQueues[id] and commandQueues[id]: whether they exist, what they hold
    cleaning, \* unregisterSlave is between Unregister and cleanupSlaveQueues
    sender,   \* AssignTask or SendCommand of every item
    hub,      \* h.conns[id], 0: none
    conn,     \* the connections, the master's end
    cl,       \* the client
    handled,  \* how often an item was handed to the slave
    lost,     \* items taken from where they were and dropped
    buf,      \* resultBuffer
    holder,   \* who has a result in hand: its task's goroutine or a loop that ships
    received, dropped, handedOver

masterVars == <<reg, queue, cleaning, sender, hub, conn>>
itemVars   == <<handled, lost>>
resultVars == <<buf, holder, received, dropped, handedOver>>
vars == <<mix, faults, masterVars, cl, itemVars, resultVars>>

Kinds == {"task", "command"}
KindOf(i) == IF i \in Tasks THEN "task" ELSE "command"
NoQueue == [exists |-> FALSE, items |-> <<>>]

NewClient == [pc |-> "start", again |-> FALSE, connected |-> FALSE, registered |-> FALSE,
              reconnecting |-> FALSE, stopped |-> FALSE, missed |-> FALSE,
              sock |-> 0, heartbeat |-> FALSE, polling |-> FALSE]

Holders == Results \cup Pollers
Idle == [pc |-> "off", has |-> 0]

Init ==
    /\ mix \in Mixes /\ faults = mix.faults
    /\ reg = FALSE /\ cleaning = FALSE /\ hub = 0
    /\ queue = [k \in Kinds |-> NoQueue]
    /\ sender = [i \in Items |-> [pc |-> "idle", closed |-> FALSE]]
    /\ conn = [c \in Conns |-> [pc |-> "none", sock |-> FALSE, closed |-> FALSE, writing |-> TRUE, send |-> <<>>]]
    /\ cl = NewClient
    /\ handled = [i \in Items |-> 0] /\ lost = {}
    /\ buf = <<>> /\ holder = [h \in Holders |-> Idle]
    /\ received = {} /\ dropped = {} /\ handedOver = {}

Fault == faults > 0 /\ faults' = faults - 1
NoFault == UNCHANGED faults

Handle(S) == handled' = [i \in Items |-> IF i \in S THEN handled[i] + 1 ELSE handled[i]]
Lose(S) == lost' = lost \cup S

-----------------------------------------------------------------------------
(* AssignTask and SendCommand.                                               *)

Sender(i, pc) == sender' = [sender EXCEPT ![i].pc = pc]

\* The callers have seen the slave in the registry; HasConn.
Assign(i) ==
    /\ i \in mix.items /\ sender[i].pc = "idle" /\ reg
    /\ Sender(i, IF hub # 0 THEN "push" ELSE "queue")
    /\ UNCHANGED <<mix, faults, reg, queue, cleaning, hub, conn, cl, itemVars, resultVars>>

\* Mutated form: an item that was pushed is also queued.
PushAndQueue(i) ==
    /\ sender[i].pc = "push"
    /\ IF hub # 0 /\ Len(conn[hub].send) < SendCap
       THEN conn' = [conn EXCEPT ![hub].send = Append(@, i)]
       ELSE UNCHANGED conn
    /\ Sender(i, "queue")
    /\ UNCHANGED <<mix, faults, reg, queue, cleaning, hub, cl, itemVars, resultVars>>

\* sendToSlave, on the connection the hub has by now.
Push(i) ==
    /\ sender[i].pc = "push"
    /\ IF hub # 0 /\ Len(conn[hub].send) < SendCap
       THEN conn' = [conn EXCEPT ![hub].send = Append(@, i)] /\ Sender(i, "accepted")
       ELSE UNCHANGED conn /\ Sender(i, "queue")
    /\ UNCHANGED <<mix, faults, reg, queue, cleaning, hub, cl, itemVars, resultVars>>

\* The queue is looked up or made under the lock ...
GetQueue(i) ==
    /\ sender[i].pc = "queue"
    /\ queue' = [queue EXCEPT ![KindOf(i)].exists = TRUE]
    /\ Sender(i, "send")
    /\ UNCHANGED <<mix, faults, reg, cleaning, hub, conn, cl, itemVars, resultVars>>

\* ... and used after it: a send that finds the channel closed panics, and one
\* that finds it full for five seconds gives up.
Enqueue(i) ==
    /\ sender[i].pc = "send"
    /\ LET k == KindOf(i) IN
       \/ /\ sender[i].closed
          /\ Sender(i, "panicked") /\ UNCHANGED queue
       \/ /\ ~sender[i].closed /\ Len(queue[k].items) < QueueCap
          /\ queue' = [queue EXCEPT ![k].items = Append(@, i)]
          /\ Sender(i, "accepted")
       \/ /\ ~sender[i].closed /\ Len(queue[k].items) >= QueueCap
          /\ Sender(i, "refused") /\ UNCHANGED queue
    /\ UNCHANGED <<mix, faults, reg, cleaning, hub, conn, cl, itemVars, resultVars>>

\* getPendingTasks, getPendingCommands: everything in the queue.
Take(k) == queue' = [queue EXCEPT ![k].items = <<>>]

\* cleanupSlaveQueues.  A sender or a drain that holds the channel keeps it.
CleanupSlaveQueues ==
    /\ cleaning /\ cleaning' = FALSE
    /\ Lose(ToSet(queue["task"].items) \cup ToSet(queue["command"].items))
    /\ queue' = [k \in Kinds |-> NoQueue]
    /\ sender' = [i \in Items |-> [sender[i] EXCEPT !.closed = sender[i].pc = "send"]]
    /\ conn' = [c \in Conns |-> [conn[c] EXCEPT !.closed = @ \/
                   (conn[c].pc = "drain" /\ \E k \in Kinds : queue[k].exists)]]
    /\ UNCHANGED <<mix, faults, reg, hub, cl, handled, resultVars>>

-----------------------------------------------------------------------------
(* A connection, the master's end: handleConnection.                         *)

At(c, pc) == conn[c].pc = pc

\* The ack is written; on a broken socket that may fail.
WriteAck(c) ==
    /\ At(c, "ack")
    /\ \/ conn' = [conn EXCEPT ![c].pc = "hub"]
       \/ ~conn[c].sock /\ conn' = [conn EXCEPT ![c].pc = "closed"]
    /\ UNCHANGED <<mix, faults, reg, queue, cleaning, sender, hub, cl, itemVars, resultVars>>

\* register: the connection takes the place of the one before, which is closed.
HubRegister(c) ==
    /\ At(c, "hub")
    /\ hub' = c
    /\ conn' = [d \in Conns |->
                  CASE d = c -> [conn[d] EXCEPT !.pc = "drain"]
                    [] d = hub -> [conn[d] EXCEPT !.sock = FALSE]
                    [] OTHER -> conn[d]]
    /\ UNCHANGED <<mix, faults, reg, queue, cleaning, sender, cl, itemVars, resultVars>>

\* drainPendingToWS: what the send buffer has no place for is dropped.  On a
\* channel that was closed meanwhile the loop never ends.
DrainPendingToWS(c) ==
    /\ At(c, "drain")
    /\ LET all  == queue["task"].items \o queue["command"].items
           free == SendCap - Len(conn[c].send) IN
       IF conn[c].closed
       THEN /\ conn' = [conn EXCEPT ![c].pc = "spin"]
            /\ UNCHANGED <<queue, lost>>
       ELSE /\ conn' = [conn EXCEPT ![c].pc = "pump", ![c].send = @ \o SubSeq(all, 1, Min({free, Len(all)}))]
            /\ queue' = [k \in Kinds |-> [queue[k] EXCEPT !.items = <<>>]]
            /\ Lose(ToSet(SubSeq(all, free + 1, Len(all))))
    /\ UNCHANGED <<mix, faults, reg, cleaning, sender, hub, cl, handled, resultVars>>

\* writePump: a message reaches the client that reads the other end, or nobody;
\* a write that fails ends the pump.  It outlives readPump.
WritePump(c) ==
    /\ conn[c].pc \in {"pump", "closed"} /\ conn[c].writing /\ conn[c].send # <<>>
    /\ LET i == Head(conn[c].send) IN
       IF conn[c].sock /\ cl.sock = c
       THEN /\ Handle({i}) /\ UNCHANGED lost
            /\ conn' = [conn EXCEPT ![c].send = Tail(@)]
       ELSE /\ Lose({i}) /\ UNCHANGED handled
            /\ \E ok \in BOOLEAN : conn' = [conn EXCEPT ![c].send = Tail(@), ![c].writing = ok]
    /\ UNCHANGED <<mix, faults, reg, queue, cleaning, sender, hub, cl, resultVars>>

\* readPump fails, and the deferred unregister removes the entry of the slave,
\* whichever connection it is.  What is in the send buffer stays there.
ReadPump(c) ==
    /\ At(c, "pump") /\ ~conn[c].sock
    /\ conn' = [conn EXCEPT ![c].pc = "closed"]
    /\ hub' = 0
    /\ UNCHANGED <<mix, faults, reg, queue, cleaning, sender, cl, itemVars, resultVars>>

\* The network, or a peer that is gone.
Break(c) ==
    /\ conn[c].sock /\ Fault
    /\ conn' = [conn EXCEPT ![c].sock = FALSE]
    /\ UNCHANGED <<mix, reg, queue, cleaning, sender, hub, cl, itemVars, resultVars>>

-----------------------------------------------------------------------------
(* The client: Connect of the slave, then the reconnect loops, which are the *)
(* same calls again.                                                         *)

Start ==
    /\ cl.pc = "start"
    /\ cl' = [cl EXCEPT !.pc = "dial"]
    /\ UNCHANGED <<mix, faults, masterVars, itemVars, resultVars>>

\* A reconnect loop looks at stopped before every attempt.  MaxReconnectAttempts is
\* 0, without a limit, in the default configuration and in the slave's.
Tries(pc) == cl.pc = pc /\ ~(cl.again /\ cl.stopped)

\* After an attempt fails: the slave falls back to HTTP, or gives up; a loop goes on.
AfterFailure(pc) == IF cl.again THEN (IF pc = "dial" THEN "dial" ELSE "health") ELSE (IF pc = "dial" THEN "health" ELSE "dead")

\* ConnectWS up to the ack, with the master's handleConnection up to Register.
DialWS ==
    /\ Tries("dial")
    /\ IF mix.ws /\ ~reg
       THEN \E c \in Conns :
              /\ At(c, "none") /\ \A d \in Conns : d < c => ~At(d, "none")
              /\ conn' = [conn EXCEPT ![c].pc = "ack", ![c].sock = TRUE]
              /\ reg' = TRUE
              /\ cl' = [cl EXCEPT !.pc = "ack", !.sock = c]
       ELSE cl' = [cl EXCEPT !.pc = AfterFailure("dial")] /\ UNCHANGED <<reg, conn>>
    /\ UNCHANGED <<mix, faults, queue, cleaning, sender, hub, itemVars, resultVars>>

ReadAck ==
    /\ cl.pc = "ack"
    /\ IF conn[cl.sock].sock
       THEN /\ conn[cl.sock].pc # "ack"
            /\ cl' = [cl EXCEPT !.pc = IF cl.again THEN "return" ELSE "idle", !.connected = TRUE, !.registered = TRUE]
       ELSE cl' = [cl EXCEPT !.pc = AfterFailure("dial"), !.sock = 0]
    /\ UNCHANGED <<mix, faults, masterVars, itemVars, resultVars>>

\* Connect: the health endpoint answers, or not.
Connect ==
    /\ Tries("health")
    /\ \/ NoFault /\ cl' = [cl EXCEPT !.pc = "register", !.connected = TRUE]
       \/ Fault /\ cl' = [cl EXCEPT !.pc = AfterFailure("health")]
    /\ UNCHANGED <<mix, masterVars, itemVars, resultVars>>

\* The poll loops that have not been started yet.
Fresh == {h \in Pollers : holder[h].pc = "off"}

\* Register, then StartHeartbeat and StartTaskPolling (restartLoops).  When the
\* answer is lost the id stays registered.  After a first registration that fails
\* the slave disconnects the client.
ClientRegister ==
    /\ cl.pc = "register"
    /\ reg' = TRUE
    /\ \/ /\ ~reg /\ NoFault
          /\ cl' = [cl EXCEPT !.pc = IF cl.again THEN "return" ELSE "idle", !.registered = TRUE,
                              !.heartbeat = TRUE, !.polling = TRUE]
          /\ \E h \in Fresh : holder' = [holder EXCEPT ![h].pc = "take"]
       \/ /\ IF reg THEN NoFault ELSE Fault
          /\ cl' = [cl EXCEPT !.pc = AfterFailure("register"), !.connected = FALSE,
                              !.stopped = @ \/ ~cl.again]
          /\ UNCHANGED holder
    /\ UNCHANGED <<mix, queue, cleaning, sender, hub, conn, itemVars, buf, received, dropped, handedOver>>

\* The end of a reconnect loop, after onReconnect.
LoopReturns ==
    /\ cl.pc = "return"
    /\ cl' = [cl EXCEPT !.pc = "idle", !.reconnecting = FALSE]
    /\ UNCHANGED <<mix, faults, masterVars, itemVars, resultVars>>

\* Mutated form: a client that was connected once does not try again.
GiveUp(loop) == [cl EXCEPT !.connected = FALSE, !.registered = FALSE, !.heartbeat = FALSE]

\* handleDisconnect and handleWSDisconnect: a new loop, unless one is running.
Disconnected(loop) ==
    [cl EXCEPT !.connected = FALSE, !.registered = FALSE, !.heartbeat = FALSE,
               !.sock = IF loop = "dial" THEN 0 ELSE @,
               !.pc = IF cl.reconnecting \/ cl.stopped THEN @ ELSE loop,
               !.again = TRUE, !.reconnecting = @ \/ ~cl.stopped,
               !.missed = @ \/ cl.reconnecting]

\* wsReadPump fails.
WSReadPump ==
    /\ cl.sock # 0 /\ cl.pc \in {"idle", "return"} /\ ~conn[cl.sock].sock
    /\ cl' = Disconnected("dial")
    /\ UNCHANGED <<mix, faults, masterVars, itemVars, resultVars>>

\* A heartbeat takes the commands; its answer may be lost, or the request.
Heartbeat ==
    /\ cl.heartbeat /\ ~cl.stopped
    /\ LET cmds == ToSet(queue["command"].items) IN
       \/ /\ reg /\ NoFault /\ Take("command") /\ Handle(cmds) /\ UNCHANGED <<cl, lost>>
       \/ /\ reg /\ Fault /\ Take("command") /\ Lose(cmds) /\ UNCHANGED handled
          /\ cl' = Disconnected("health")
       \/ /\ IF reg THEN Fault ELSE NoFault
          /\ cl' = Disconnected("health")
          /\ UNCHANGED <<queue, itemVars>>
    /\ UNCHANGED <<mix, reg, cleaning, sender, hub, conn, resultVars>>

\* taskPollLoop: an error is printed, and the loop goes on.
Poll ==
    /\ cl.polling /\ cl.registered /\ reg /\ queue["task"].items # <<>>
    /\ LET tasks == ToSet(queue["task"].items) IN
       \/ NoFault /\ Handle(tasks) /\ UNCHANGED lost
       \/ Fault /\ Lose(tasks) /\ UNCHANGED handled
    /\ Take("task")
    /\ UNCHANGED <<mix, reg, cleaning, sender, hub, conn, cl, resultVars>>

\* Disconnect of a slave over WebSocket closes the socket: nothing is unregistered
\* and stopped stays open, so the read pump fails and the client reconnects.
DisconnectWS ==
    /\ cl.pc \in {"idle", "return"} /\ cl.sock # 0 /\ cl.connected
    /\ conn' = [conn EXCEPT ![cl.sock].sock = FALSE]
    /\ cl' = [cl EXCEPT !.connected = FALSE, !.registered = FALSE]
    /\ UNCHANGED <<mix, faults, reg, queue, cleaning, sender, hub, itemVars, resultVars>>

\* Disconnect over HTTP, with the master's unregisterSlave.
Disconnect ==
    /\ cl.pc \in {"idle", "return"} /\ cl.sock = 0 /\ cl.connected
    /\ ~cl.stopped /\ ~cleaning
    /\ \/ /\ cl.registered /\ reg
          /\ reg' = FALSE /\ cleaning' = TRUE /\ NoFault
       \/ /\ IF cl.registered /\ reg THEN Fault ELSE NoFault
          /\ UNCHANGED <<reg, cleaning>>
    /\ cl' = [cl EXCEPT !.stopped = TRUE, !.connected = FALSE, !.registered = FALSE,
                        !.heartbeat = FALSE, !.polling = FALSE]
    /\ UNCHANGED <<mix, queue, sender, hub, conn, itemVars, resultVars>>

-----------------------------------------------------------------------------
(* Crashes.                                                                  *)

BufferedOrHeld == ToSet(buf) \cup ({holder[h].has : h \in Holders} \ {0})

\* The slave's process ends, and another starts under the same id.
NewProcess ==
    /\ cl.pc \in {"idle", "return", "dead"} /\ Fault
    /\ cl' = [NewClient EXCEPT !.missed = cl.missed]
    /\ conn' = [c \in Conns |-> IF c = cl.sock THEN [conn[c] EXCEPT !.sock = FALSE] ELSE conn[c]]
    /\ buf' = <<>> /\ dropped' = dropped \cup BufferedOrHeld
    /\ holder' = [h \in Holders |-> [holder[h] EXCEPT !.pc = IF @ = "off" THEN @ ELSE "gone", !.has = 0]]
    /\ UNCHANGED <<mix, reg, queue, cleaning, sender, hub, itemVars, received, handedOver>>

\* The master's process ends, and another starts with an empty registry.
MasterRestart ==
    /\ Fault
    /\ reg' = FALSE /\ hub' = 0 /\ cleaning' = FALSE
    /\ Lose(ToSet(queue["task"].items) \cup ToSet(queue["command"].items))
    /\ queue' = [k \in Kinds |-> NoQueue]
    /\ sender' = [i \in Items |-> [sender[i] EXCEPT !.pc = IF @ \in {"push", "queue", "send"} THEN "panicked" ELSE @]]
    /\ conn' = [c \in Conns |-> IF At(c, "none") THEN conn[c]
                               ELSE [conn[c] EXCEPT !.sock = FALSE, !.writing = FALSE, !.pc = "closed"]]
    /\ UNCHANGED <<mix, cl, handled, resultVars>>

-----------------------------------------------------------------------------
(* Results.  SendTaskResult, bufferResult and sendBufferedResults; a task's  *)
(* goroutine and the loops that ship take the same path.                     *)

Hold(h, pc, r) == holder' = [holder EXCEPT ![h] = [pc |-> pc, has |-> r]]
After(h) == IF h \in Results THEN "done" ELSE "take"

\* The task handler of the slave.  Over WebSocket the result is handed to the write
\* pump, which heartbeats and pongs share; when its buffer is full the error is
\* printed and the result is gone.
SendResult(r) ==
    /\ r \in mix.results /\ holder[r].pc = "off" /\ cl.pc # "start"
    /\ \/ /\ cl.sock # 0 /\ cl.connected
          /\ \/ handedOver' = handedOver \cup {r} /\ UNCHANGED dropped
             \/ dropped' = dropped \cup {r} /\ UNCHANGED handedOver
          /\ Hold(r, "done", 0)
       \/ /\ ~(cl.sock # 0 /\ cl.connected)
          /\ Hold(r, "send", r) /\ UNCHANGED <<dropped, handedOver>>
    /\ UNCHANGED <<mix, faults, masterVars, cl, itemVars, buf, received>>

\* sendBufferedResults, the oldest first.
TakeResult(h) ==
    /\ holder[h].pc = "take" /\ buf # <<>> /\ ~cl.stopped
    /\ buf' = Tail(buf)
    /\ Hold(h, "send", Head(buf))
    /\ UNCHANGED <<mix, faults, masterVars, cl, itemVars, received, dropped, handedOver>>

\* Mutated form: a result that could not be sent is not buffered again.
SendDirectOnce(h) ==
    /\ holder[h].pc = "send"
    /\ Hold(h, After(h), 0)
    /\ received' = IF cl.connected /\ cl.registered THEN received \cup {holder[h].has} ELSE received
    /\ UNCHANGED <<mix, faults, masterVars, cl, itemVars, buf, dropped, handedOver>>

\* sendTaskResultDirect, and what follows when it fails, or when not connected.
SendDirect(h) ==
    /\ holder[h].pc = "send"
    /\ LET r == holder[h].has IN
       \/ /\ cl.connected /\ cl.registered /\ NoFault
          /\ received' = received \cup {r}
          /\ Hold(h, After(h), 0)
       \/ /\ IF cl.connected /\ cl.registered THEN Fault ELSE NoFault
          /\ received' \in {received} \cup (IF cl.connected /\ cl.registered THEN {received \cup {r}} ELSE {})
          /\ Hold(h, "buffer", r)
    /\ UNCHANGED <<mix, masterVars, cl, itemVars, buf, dropped, handedOver>>

\* bufferResult.
Buffer(h) ==
    /\ holder[h].pc = "buffer"
    /\ IF Len(buf) < BufferCap
       THEN buf' = Append(buf, holder[h].has) /\ Hold(h, After(h), 0)
       ELSE Hold(h, "full", holder[h].has) /\ UNCHANGED buf
    /\ UNCHANGED <<mix, faults, masterVars, cl, itemVars, received, dropped, handedOver>>

\* The oldest makes room; when the buffer has been emptied meanwhile, the new one goes.
DropOldest(h) ==
    /\ holder[h].pc = "full"
    /\ IF buf = <<>>
       THEN dropped' = dropped \cup {holder[h].has} /\ Hold(h, After(h), 0) /\ UNCHANGED buf
       ELSE dropped' = dropped \cup {Head(buf)} /\ Hold(h, "block", holder[h].has) /\ buf' = Tail(buf)
    /\ UNCHANGED <<mix, faults, masterVars, cl, itemVars, received, handedOver>>

\* The send after it blocks when another result has taken the place.
BlockedSend(h) ==
    /\ holder[h].pc = "block" /\ Len(buf) < BufferCap
    /\ buf' = Append(buf, holder[h].has)
    /\ Hold(h, After(h), 0)
    /\ UNCHANGED <<mix, faults, masterVars, cl, itemVars, received, dropped, handedOver>>

-----------------------------------------------------------------------------
SenderStep(i) == Push(i) \/ GetQueue(i) \/ Enqueue(i)
ConnStep(c) == WriteAck(c) \/ HubRegister(c) \/ DrainPendingToWS(c) \/ WritePump(c) \/ ReadPump(c)
ClientStep == Start \/ DialWS \/ ReadAck \/ Connect \/ ClientRegister \/ LoopReturns \/ WSReadPump
ResultStep(h) == TakeResult(h) \/ SendDirect(h) \/ Buffer(h) \/ DropOldest(h) \/ BlockedSend(h)

Next ==
    \/ \E i \in Items : Assign(i) \/ SenderStep(i)
    \/ CleanupSlaveQueues
    \/ \E c \in Conns : ConnStep(c) \/ Break(c)
    \/ ClientStep \/ Heartbeat \/ Poll \/ DisconnectWS \/ Disconnect
    \/ NewProcess \/ MasterRestart
    \/ \E r \in Results : SendResult(r)
    \/ \E h \in Holders : ResultStep(h)

\* Goroutines go on and loops tick.  Assignments, faults and the end of the
\* slave may happen or not.
Fairness ==
    /\ \A c \in Conns : WF_vars(ConnStep(c))
    /\ WF_vars(ClientStep) /\ WF_vars(Heartbeat) /\ WF_vars(Poll) /\ WF_vars(CleanupSlaveQueues)

Spec == Init /\ [][Next]_vars /\ Fairness

-----------------------------------------------------------------------------
\* The places where an item is.
Where(i) ==
    {<<"queue", k>> : k \in {x \in Kinds : i \in ToSet(queue[x].items)}} \cup
    {<<"connection", c>> : c \in {x \in Conns : i \in ToSet(conn[x].send)}} \cup
    {p \in {<<"slave">>} : handled[i] > 0} \cup {p \in {<<"lost">>} : i \in lost}

\* An item that AssignTask or SendCommand has accepted is in exactly one place,
\* and there once: in its queue, in the send buffer of one connection, with the
\* slave, or lost at a place that drops it; one that was not accepted is nowhere.
ExactlyOnce ==
    /\ \A k \in Kinds : IsInjective(queue[k].items)
    /\ \A c \in Conns : IsInjective(conn[c].send)
    /\ \A i \in Items :
         /\ handled[i] <= 1
         /\ IF sender[i].pc = "accepted" THEN \E p \in Where(i) : Where(i) = {p} ELSE Where(i) = {}

\* A result is not lost on its way through the buffer: it was received by the
\* master or handed to the write pump, it is in the buffer or in the hands of a
\* goroutine, or it was dropped: by the full result buffer, by the full send buffer
\* of the WebSocket, or with the process.  A retry never loses it, whatever
\* reconnects and shipping loops do meanwhile.
ResultKept ==
    \A r \in Results : holder[r].pc # "off" =>
        r \in received \cup handedOver \cup BufferedOrHeld \cup dropped

\* A slave that the master no longer knows comes back, unless it was stopped, its
\* first connection failed, or its connection was lost while a reconnect loop was
\* ending (missed).
ComesBack ==
    ~reg ~> reg \/ cl.stopped \/ cl.missed \/ cl.pc = "dead"
=============================================================================
