---------------------------- MODULE GuluExecution ----------------------------
(***************************************************************************)
(* The executions of the gulu service.  A request to run a workflow is       *)
(* answered as a stream of events ("sse"), with a summary ("blocking"), or   *)
(* at once while a monitor goroutine follows the run ("perf").  The module   *)
(* has the request handlers (stream_execution.go, stream_executor.go,        *)
(* execution_logic.go), the map of live sessions (session_manager.go), the   *)
(* callbacks of a run (sse_callback.go) and the calls a user makes meanwhile *)
(* (stop, answer, pause, resume, webhook).  Of the engine there is what      *)
(* these see of it: the status of a run, its callbacks and its stop signal;  *)
(* Master and ConstantVUs model the rest.                                    *)
(***************************************************************************)
EXTENDS Integers, Functions

CONSTANTS
    Requests,      \* requests to execute a workflow
    Mixes,         \* what happens: for every request its kind, whether it persists and how
                   \* many steps or questions its workflow has at most, and as a bound the
                   \* number of calls of users
    ClientIds,     \* session ids: sent by the client, or fresh when it sends none
    ReportTries    \* 5 in the code: attempts to fetch the report of a run

ASSUME MixesAssumption ==
    Mixes \subseteq [requests : [Requests -> [kind : {"sse", "blocking", "perf", "none"}, persist : BOOLEAN, size : Nat]],
                     calls : Nat]
ASSUME TriesAssumption == ReportTries \in Nat \ {0}

VARIABLES
    req,       \* the request handlers
    rec,       \* rows of t_execution, one per request that persists
    sessions,  \* SessionManager.sessions: session id -> request it belongs to
    session,   \* the Session objects
    writer,    \* the SSE writers
    eng,       \* the executions in the engine
    mon,       \* the monitor goroutines
    mapped,    \* engineIDMap: the requests whose execution can be found
    call,      \* the user's call in flight
    calls,     \* the calls still to come
    lost       \* the rows whose execution a call did not find

vars == <<req, rec, sessions, session, writer, eng, mon, mapped, call, calls, lost>>

Stream(r) == req[r].kind \in {"sse", "blocking"}
EngineEnded(r) == eng[r].status \in {"completed", "failed", "aborted"}
IsTerminal(s) == s \in {"completed", "failed", "stopped"}
At(r, pc)   == req[r].pc = pc
Goto(r, pc) == req' = [req EXCEPT ![r].pc = pc]
\* A context that has ended keeps its error.
Cancel(ctx) == IF ctx = "live" THEN "canceled" ELSE ctx

\* A blocking run has a session id of its own, that no client knows.
SessionID(r) == IF req[r].kind = "blocking" THEN <<"blocking", r>> ELSE req[r].id

NoCall == [op |-> "none", on |-> <<"none", 0>>, arg |-> "none"]

Init ==
    /\ \E m \in Mixes :
         /\ req = [r \in Requests |->
                     [pc |-> "idle", kind |-> m.requests[r].kind, persist |-> m.requests[r].persist,
                      size |-> m.requests[r].size, id |-> <<"none", 0>>, ctx |-> "live",
                      outcome |-> "none", status |-> "none"]]
         /\ calls = m.calls
    /\ rec = [r \in Requests |-> [status |-> "none", hooked |-> FALSE, touched |-> FALSE]]
    /\ sessions = [s \in {} |-> 0]
    /\ session = [r \in Requests |-> [status |-> "none", cancel |-> FALSE, answer |-> FALSE,
                                      closed |-> FALSE, failed |-> FALSE]]
    /\ writer = [r \in Requests |-> [closed |-> FALSE, completed |-> FALSE, sent |-> 0]]
    /\ eng = [r \in Requests |-> [status |-> "none", stop |-> FALSE, waiting |-> FALSE, callbacks |-> 0]]
    /\ mon = [r \in Requests |-> [pc |-> "none", status |-> "none", tries |-> 0, report |-> "none"]]
    /\ mapped = {} /\ call = NoCall /\ lost = [r \in Requests |-> FALSE]

-----------------------------------------------------------------------------
(* Rows of t_execution.  The session id is not unique in the table: a write  *)
(* by session id reaches every row that has it.  A write that fails changes  *)
(* nothing, and no caller does anything about it.  Two marks are kept of the *)
(* webhook: hooked, that the status is its own, and touched, that it has     *)
(* written the row at some time.                                             *)

Written(row, s) == [row EXCEPT !.status = s, !.hooked = FALSE]

UpdateStreamExecutionStatus(id, s) ==
    \/ rec' = [r \in Requests |->
                 IF rec[r].status # "none" /\ req[r].id = id THEN Written(rec[r], s) ELSE rec[r]]
    \/ UNCHANGED rec

UpdateByID(r, s) == rec' = [rec EXCEPT ![r] = Written(rec[r], s)] \/ UNCHANGED rec

-----------------------------------------------------------------------------
(* A streamed or blocking execution.                                         *)

\* Execute: what fails before CreateStreamExecution changes nothing; when
\* resolveTargetSlaves fails after it (strategy manual), the row stays running.
Execute(r, id) ==
    /\ At(r, "idle") /\ Stream(r)
    /\ \E ok \in BOOLEAN :
         req' = [req EXCEPT ![r] = [@ EXCEPT !.pc = IF ok THEN "create" ELSE "done", !.id = id]]
    /\ rec' = IF req[r].persist THEN [rec EXCEPT ![r].status = "running"] ELSE rec
    /\ UNCHANGED <<sessions, session, writer, eng, mon, mapped, call, calls, lost>>

\* Mutated form: a session under an id in use replaces the other.
CreateSessionReplaces(r) ==
    /\ At(r, "create")
    /\ Goto(r, "submit")
    /\ sessions' = [s \in DOMAIN sessions \cup {SessionID(r)} |->
                      IF s = SessionID(r) THEN r ELSE sessions[s]]
    /\ session' = [session EXCEPT ![r].status = "running"]
    /\ UNCHANGED <<rec, writer, eng, mon, mapped, call, calls, lost>>

CreateSession(r) ==
    /\ At(r, "create")
    /\ IF SessionID(r) \in DOMAIN sessions
       THEN /\ req' = [req EXCEPT ![r] = [@ EXCEPT !.pc = "update", !.outcome = "refused"]]
            /\ UNCHANGED <<sessions, session>>
       ELSE /\ Goto(r, "submit")
            /\ sessions' = [s \in DOMAIN sessions \cup {SessionID(r)} |->
                              IF s = SessionID(r) THEN r ELSE sessions[s]]
            /\ session' = [session EXCEPT ![r].status = "running"]
    /\ UNCHANGED <<rec, writer, eng, mon, mapped, call, calls, lost>>

\* SetCancel, then runner.Run: SubmitWorkflow, refused or running in the background.
Submit(r) ==
    /\ At(r, "submit") /\ Stream(r)
    /\ session' = [session EXCEPT ![sessions[SessionID(r)]].cancel = TRUE]
    /\ \/ /\ Goto(r, "wait")
          /\ eng' = [eng EXCEPT ![r].status = "running"]
       \/ /\ req' = [req EXCEPT ![r] = [@ EXCEPT !.pc = "settle", !.outcome = "error"]]
          /\ UNCHANGED eng
    /\ UNCHANGED <<rec, sessions, writer, mon, mapped, call, calls, lost>>

\* The timer of context.WithTimeout.
Deadline(r) ==
    /\ Stream(r) /\ req[r].ctx = "live" /\ req[r].pc \in {"wait", "settle"}
    /\ req' = [req EXCEPT ![r].ctx = "deadline"]
    /\ UNCHANGED <<rec, sessions, session, writer, eng, mon, mapped, call, calls, lost>>

Returns(r, outcome) == req' = [req EXCEPT ![r] = [@ EXCEPT !.pc = "settle", !.outcome = outcome]]

\* Mutated form: a failed status query ends the wait.
StatusGivesUp(r) ==
    /\ At(r, "wait")
    /\ Returns(r, "nil")
    /\ UNCHANGED <<rec, sessions, session, writer, eng, mon, mapped, call, calls, lost>>

\* waitForCompletion: the tick that finds a terminal status ...
Status(r) ==
    /\ At(r, "wait") /\ EngineEnded(r)
    /\ Returns(r, IF eng[r].status = "completed" THEN "nil" ELSE "error")
    /\ UNCHANGED <<rec, sessions, session, writer, eng, mon, mapped, call, calls, lost>>

StopEngine(r) ==
    eng' = [eng EXCEPT ![r].stop = @ \/ eng[r].status \in {"running", "paused"}]

\* Mutated form: the wait does not look at its context.
NeverDone(r) == FALSE /\ UNCHANGED vars

\* ... or the end of the context, whichever the select takes.
CtxDone(r) ==
    /\ At(r, "wait") /\ req[r].ctx # "live"
    /\ StopEngine(r)
    /\ Returns(r, "ctx")
    /\ UNCHANGED <<rec, sessions, session, writer, mon, mapped, call, calls, lost>>

\* What ended a run without a result.
Interrupted(r) ==
    CASE req[r].ctx = "deadline" -> "timeout"
      [] req[r].ctx = "canceled" -> "stopped"
      [] OTHER -> "failed"

\* Mutated form: failed steps do not count in the summary.
SummaryForgets(r) == IF req[r].outcome = "nil" THEN "success" ELSE Interrupted(r)

\* The status ExecuteBlocking puts in its summary.
Summary(r) ==
    IF req[r].outcome = "nil"
    THEN IF session[r].failed THEN "failed" ELSE "success"
    ELSE Interrupted(r)

\* The status ExecuteStream gives its session.
Settled(r) ==
    CASE req[r].outcome = "nil" -> "completed"
      [] req[r].outcome # "nil" /\ req[r].ctx = "canceled" -> "stopped"
      [] OTHER -> "failed"

\* The end of ExecuteStream, with the event of OnExecutionComplete, and of ExecuteBlocking.
Settle(r) ==
    /\ At(r, "settle")
    /\ IF req[r].kind = "sse"
       THEN /\ Goto(r, "cleanup")
            /\ session' = [session EXCEPT ![r].status = Settled(r)]
            /\ writer' = [writer EXCEPT ![r].completed = TRUE]
       ELSE /\ req' = [req EXCEPT ![r] = [@ EXCEPT !.pc = "cleanup", !.status = Summary(r)]]
            /\ UNCHANGED <<session, writer>>
    /\ UNCHANGED <<rec, sessions, eng, mon, mapped, call, calls, lost>>

\* The deferred calls: cancel, then CleanupSession, which closes the channel and the writer.
CleanupSession(r) ==
    /\ At(r, "cleanup")
    /\ req' = [req EXCEPT ![r] = [@ EXCEPT !.pc = "update", !.ctx = Cancel(req[r].ctx)]]
    /\ LET s == SessionID(r) IN
       /\ session' = [session EXCEPT ![sessions[s]].closed = TRUE]
       /\ writer' = [writer EXCEPT ![sessions[s]].closed = TRUE]
       /\ sessions' = Restrict(sessions, DOMAIN sessions \ {s})
    /\ UNCHANGED <<rec, eng, mon, mapped, call, calls, lost>>

\* updateExecutionStatus, for a streamed run.  After a success it asks the
\* session manager for the session that the deferred call has removed.
UpdateStream(r) ==
    CASE req[r].outcome # "nil" -> UpdateStreamExecutionStatus(req[r].id, "failed")
      [] req[r].outcome = "nil" /\ SessionID(r) \in DOMAIN sessions ->
           UpdateStreamExecutionStatus(req[r].id, IF session[sessions[SessionID(r)]].failed THEN "failed" ELSE "success")
      [] OTHER -> UNCHANGED rec

\* The end of executeSSE and executeBlocking.
UpdateExecutionStatus(r) ==
    /\ At(r, "update")
    /\ Goto(r, "done")
    /\ CASE ~req[r].persist -> UNCHANGED rec
         [] req[r].persist /\ req[r].kind = "sse" -> UpdateStream(r)
         [] OTHER -> UpdateStreamExecutionStatus(req[r].id, IF req[r].outcome = "refused" THEN "failed" ELSE req[r].status)
    /\ UNCHANGED <<sessions, session, writer, eng, mon, mapped, call, calls, lost>>

-----------------------------------------------------------------------------
(* A performance run: ExecutionLogic.Execute and its monitor.                *)

\* References and the executor are looked up after the row exists; a failure leaves it pending.
ExecutePerf(r) ==
    /\ At(r, "idle") /\ req[r].kind = "perf"
    /\ \E ok \in BOOLEAN :
         req' = [req EXCEPT ![r] = [@ EXCEPT !.pc = IF ok THEN "submit" ELSE "done", !.id = <<"exec", r>>]]
    /\ rec' = [rec EXCEPT ![r].status = "pending"]
    /\ UNCHANGED <<sessions, session, writer, eng, mon, mapped, call, calls, lost>>

\* Mutated form: the row is running before the execution can be found.
SubmitPerfEarly(r) ==
    /\ At(r, "submit") /\ ~Stream(r)
    /\ IF rec[r].status = "pending"
       THEN /\ UpdateByID(r, "running")
            /\ UNCHANGED <<req, eng, mon, mapped>>
       ELSE /\ Goto(r, "mark")
            /\ eng' = [eng EXCEPT ![r].status = "running"]
            /\ mapped' = mapped \cup {r}
            /\ mon' = [mon EXCEPT ![r].pc = "poll"]
            /\ UNCHANGED rec
    /\ UNCHANGED <<sessions, session, writer, call, calls, lost>>

\* SubmitWorkflow accepts the run or refuses it; without an engine in the process
\* nothing is submitted, and the row becomes running all the same.
SubmitPerf(r) ==
    /\ At(r, "submit") /\ ~Stream(r)
    /\ \/ /\ Goto(r, "mark")
          /\ eng' = [eng EXCEPT ![r].status = "running"]
          /\ mapped' = mapped \cup {r}
          /\ mon' = [mon EXCEPT ![r].pc = "poll"]
          /\ UNCHANGED rec
       \/ /\ Goto(r, "done")
          /\ UpdateByID(r, "failed")
          /\ UNCHANGED <<eng, mon, mapped>>
       \/ /\ Goto(r, "mark")
          /\ UNCHANGED <<rec, eng, mon, mapped>>
    /\ UNCHANGED <<sessions, session, writer, call, calls, lost>>

MarkRunning(r) ==
    /\ At(r, "mark")
    /\ Goto(r, "done")
    /\ UpdateByID(r, "running")
    /\ UNCHANGED <<sessions, session, writer, eng, mon, mapped, call, calls, lost>>

MapEngineStatus(s) == IF s = "aborted" THEN "stopped" ELSE s

Monitor(r, m) == mon' = [mon EXCEPT ![r] = m]

\* monitorExecution: a tick that finds a terminal status.
MonitorPoll(r) ==
    /\ mon[r].pc = "poll" /\ IsTerminal(MapEngineStatus(eng[r].status))
    /\ Monitor(r, [mon[r] EXCEPT !.pc = "report", !.status = MapEngineStatus(eng[r].status)])
    /\ UNCHANGED <<req, rec, sessions, session, writer, eng, mapped, call, calls, lost>>

\* 30 minutes are over.
MonitorTimeout(r) ==
    /\ mon[r].pc = "poll"
    /\ Monitor(r, [mon[r] EXCEPT !.pc = "done", !.status = "timeout"])
    /\ UpdateByID(r, "failed")
    /\ UNCHANGED <<req, sessions, session, writer, eng, mapped, call, calls, lost>>

\* Mutated form: one attempt to fetch the report.
FetchReportOnce(r) ==
    /\ mon[r].pc = "report"
    /\ \E ok \in BOOLEAN :
         Monitor(r, [mon[r] EXCEPT !.tries = @ + 1, !.pc = IF ok THEN "save" ELSE "write"])
    /\ UNCHANGED <<req, rec, sessions, session, writer, eng, mapped, call, calls, lost>>

\* The report is fetched, or not to be had after the last attempt.
FetchReport(r) ==
    /\ mon[r].pc = "report"
    /\ \E ok \in BOOLEAN :
         Monitor(r, [mon[r] EXCEPT !.tries = @ + 1,
                       !.pc = CASE ok -> "save"
                                [] ~ok /\ mon[r].tries + 1 = ReportTries -> "write"
                                [] OTHER -> "report"])
    /\ UNCHANGED <<req, rec, sessions, session, writer, eng, mapped, call, calls, lost>>

\* SaveFromReport: its error is printed, and the report is gone.
SaveReport(r) ==
    /\ mon[r].pc = "save"
    /\ \E result \in {"saved", "refused"} : Monitor(r, [mon[r] EXCEPT !.pc = "write", !.report = result])
    /\ UNCHANGED <<req, rec, sessions, session, writer, eng, mapped, call, calls, lost>>

\* The status, after the sample logs.
MonitorWrite(r) ==
    /\ mon[r].pc = "write"
    /\ Monitor(r, [mon[r] EXCEPT !.pc = "done"])
    /\ UpdateByID(r, mon[r].status)
    /\ UNCHANGED <<req, sessions, session, writer, eng, mapped, call, calls, lost>>

\* Ten minutes after the monitor has ended.
Unmap(r) ==
    /\ mon[r].pc = "done" /\ r \in mapped
    /\ mapped' = mapped \ {r}
    /\ UNCHANGED <<req, rec, sessions, session, writer, eng, mon, call, calls, lost>>

-----------------------------------------------------------------------------
(* The engine's run and its callbacks, until its status is terminal.  It has *)
(* the context of the submission and the stop signal of StopExecution.       *)

Cancelled(r) == req[r].ctx # "live" \/ eng[r].stop
Calling(r) == eng[r].status = "running" /\ ~eng[r].waiting
\* An event on a closed writer is an error that the callback ignores.
Sent(r) == writer' = [writer EXCEPT ![r].sent = IF writer[r].closed THEN @ ELSE @ + 1]

\* OnStepStart and OnStepComplete.
OnStepComplete(r) ==
    /\ Calling(r) /\ Stream(r) /\ eng[r].callbacks < req[r].size
    /\ eng' = [eng EXCEPT ![r].callbacks = @ + 1]
    /\ \E failed \in BOOLEAN : session' = [session EXCEPT ![r].failed = @ \/ failed]
    /\ Sent(r)
    /\ UNCHANGED <<req, rec, sessions, mon, mapped, call, calls, lost>>

\* OnAIInteractionRequired, which waits in WaitForInteraction.
AskUser(r) ==
    /\ Calling(r) /\ Stream(r) /\ eng[r].callbacks < req[r].size
    /\ eng' = [eng EXCEPT ![r] = [@ EXCEPT !.callbacks = eng[r].callbacks + 1, !.waiting = TRUE]]
    /\ session' = [session EXCEPT ![r].status = "waiting"]
    /\ Sent(r)
    /\ UNCHANGED <<req, rec, sessions, mon, mapped, call, calls, lost>>

\* WaitForInteraction returns, and its deferred function resets the status.
EndWait(r, answer) ==
    /\ eng' = [eng EXCEPT ![r].waiting = FALSE]
    /\ LET status == IF session[r].status = "waiting" THEN "running" ELSE session[r].status IN
       session' = [session EXCEPT ![r] = [@ EXCEPT !.status = status, !.answer = answer]]
    /\ UNCHANGED <<req, rec, sessions, writer, mon, mapped, call, calls, lost>>

\* Mutated form: the wait is not given the context, and takes nothing for an answer.
DeafToContext(r) ==
    /\ eng[r].waiting /\ session[r].answer
    /\ EndWait(r, FALSE)

\* The select: an answer or the closed channel, or the end of the context.
Answered(r) ==
    /\ eng[r].waiting
    /\ \/ (session[r].answer \/ session[r].closed) /\ EndWait(r, FALSE)
       \/ Cancelled(r) /\ EndWait(r, session[r].answer)

\* The select: the timer of a question that has one.  A later answer stays in the channel.
Skipped(r) ==
    /\ eng[r].waiting
    /\ EndWait(r, session[r].answer)

\* The status that ends the run; aborted only once it was told to stop.
EngineEnds(r) ==
    /\ eng[r].status \in {"running", "paused"} /\ ~eng[r].waiting
    /\ \E s \in {"completed", "failed"} \cup (IF Cancelled(r) THEN {"aborted"} ELSE {}) :
         eng' = [eng EXCEPT ![r].status = s]
    /\ UNCHANGED <<req, rec, sessions, session, writer, mon, mapped, call, calls, lost>>

-----------------------------------------------------------------------------
(* The calls of users.  A call looks at something, then writes something     *)
(* else, and what it looked at may have changed in between.                  *)

Begin(op, on, arg) ==
    /\ call = NoCall /\ calls > 0
    /\ calls' = calls - 1
    /\ call' = [op |-> op, on |-> on, arg |-> arg]
End(op) == call.op = op /\ call' = NoCall /\ calls' = calls

\* StopExecution of a session: StopSession ...
StopSession(id) ==
    /\ id \in DOMAIN sessions
    /\ Begin("stop", id, "none")
    /\ LET r == sessions[id] IN
       /\ session' = [session EXCEPT ![r].status = "stopped"]
       /\ req' = [req EXCEPT ![r].ctx = IF session[r].cancel THEN Cancel(@) ELSE @]
    /\ UNCHANGED <<rec, sessions, writer, eng, mon, mapped, lost>>

\* ... then the rows.
StopRecord ==
    /\ End("stop")
    /\ UpdateStreamExecutionStatus(call.on, "stopped")
    /\ UNCHANGED <<req, sessions, session, writer, eng, mon, mapped, lost>>

\* SubmitInteraction: the session is found waiting ...
CheckWaiting(id) ==
    /\ id \in DOMAIN sessions /\ session[sessions[id]].status = "waiting"
    /\ Begin("answer", <<"request", sessions[id]>>, "none")
    /\ UNCHANGED <<req, rec, sessions, session, writer, eng, mon, mapped, lost>>

\* ... then the answer is sent: a full channel refuses it, a closed one panics
\* in the handler of the call, which recovers.
SendAnswer ==
    /\ End("answer")
    /\ LET r == call.on[2] IN
       session' = [session EXCEPT ![r].answer = @ \/ ~session[r].closed]
    /\ UNCHANGED <<req, rec, sessions, writer, eng, mon, mapped, lost>>

\* The engine's execution of a row: found only under the id the map gives.  The
\* service answers for the rows that no webhook has written.
Missed(r) == lost' = [lost EXCEPT ![r] = @ \/ (r \notin mapped /\ ~rec[r].touched)]

\* Stop of a row that is running or paused.
StopPerf(r) ==
    /\ rec[r].status \in {"running", "paused"} /\ calls > 0 /\ call = NoCall
    /\ calls' = calls - 1
    /\ IF r \in mapped THEN StopEngine(r) ELSE UNCHANGED eng
    /\ Missed(r)
    /\ UNCHANGED <<req, rec, sessions, session, writer, mon, mapped, call>>

\* Pause and Resume: the engine first, its answer ignored, then the row.
PauseResume(r, from, to) ==
    /\ rec[r].status = from
    /\ Begin("row", <<"request", r>>, to)
    /\ eng' = [eng EXCEPT ![r].status = IF r \in mapped /\ @ = from THEN to ELSE @]
    /\ Missed(r)
    /\ UNCHANGED <<req, rec, sessions, session, writer, mon, mapped>>

Pause(r)  == PauseResume(r, "running", "paused")
Resume(r) == PauseResume(r, "paused", "running")

WriteRow ==
    /\ End("row")
    /\ UpdateByID(call.on[2], call.arg)
    /\ UNCHANGED <<req, sessions, session, writer, eng, mon, mapped, lost>>

\* The statuses that a row is compared with, and one for every other text.
HookStatuses == {"running", "paused", "completed", "failed", "stopped", "other"}

\* UpdateStatus of the webhook: the first row with the id, to any status.
Webhook(r, s) ==
    /\ rec[r].status # "none" /\ calls > 0 /\ call = NoCall
    /\ \A q \in Requests : q < r => rec[q].status = "none" \/ req[q].id # req[r].id
    /\ calls' = calls - 1
    /\ rec' = [rec EXCEPT ![r] = [status |-> s, hooked |-> TRUE, touched |-> TRUE]]
    /\ UNCHANGED <<req, sessions, session, writer, eng, mon, mapped, call, lost>>

-----------------------------------------------------------------------------
Handler(r) ==
    \/ CreateSession(r) \/ Submit(r) \/ Status(r) \/ CtxDone(r)
    \/ Settle(r) \/ CleanupSession(r) \/ UpdateExecutionStatus(r)
    \/ SubmitPerf(r) \/ MarkRunning(r)

MonitorStep(r) == MonitorPoll(r) \/ MonitorTimeout(r) \/ FetchReport(r) \/ SaveReport(r) \/ MonitorWrite(r) \/ Unmap(r)

EngineStep(r) == OnStepComplete(r) \/ AskUser(r) \/ Skipped(r) \/ EngineEnds(r)

CallStarts ==
    \/ \E id \in DOMAIN sessions : id[1] = "stream" /\ (StopSession(id) \/ CheckWaiting(id))
    \/ \E r \in Requests : StopPerf(r) \/ Pause(r) \/ Resume(r) \/ \E s \in HookStatuses : Webhook(r, s)
CallEnds == StopRecord \/ SendAnswer \/ WriteRow

Next ==
    \/ \E r \in Requests :
         \/ \E i \in ClientIds : Execute(r, <<"stream", i>>)
         \/ ExecutePerf(r)
         \/ Handler(r) \/ MonitorStep(r) \/ EngineStep(r) \/ Answered(r) \/ Deadline(r)
    \/ CallStarts \/ CallEnds

\* Goroutines that can go on do, and timers fire.  Nothing is assumed of the
\* users, nor of the engine's run except that a callback returns when it can.
Fairness ==
    /\ \A r \in Requests : WF_vars(Handler(r)) /\ WF_vars(MonitorStep(r)) /\ WF_vars(Answered(r)) /\ WF_vars(Deadline(r))
    /\ WF_vars(CallEnds)

Spec == Init /\ [][Next]_vars /\ Fairness

-----------------------------------------------------------------------------
SameId(r, q) == req[r].id = req[q].id

\* The map of sessions (CreateSession, CleanupSession): an id leads to the one
\* request that runs under it, and every request that runs a stream can be
\* reached under its own id, to be stopped or answered, even when clients send
\* the same session id for two requests.
SessionsAgree ==
    /\ \A id \in DOMAIN sessions : SessionID(sessions[id]) = id
    /\ \A r \in Requests :
         Stream(r) /\ req[r].pc \in {"submit", "wait", "settle", "cleanup"} =>
            /\ SessionID(r) \in DOMAIN sessions /\ sessions[SessionID(r)] = r
            /\ ~session[r].closed /\ ~writer[r].closed

\* What a row says of its run (summary.Status, monitorExecution, StopExecution)
\* is true of some request with its id: success and completed only of a run
\* that the engine completed, timeout only of one past its deadline.
RecordTruth ==
    \A r \in Requests : ~rec[r].hooked =>
        /\ rec[r].status = "success" =>
              \E q \in Requests : /\ SameId(r, q) /\ req[q].outcome = "nil" /\ eng[q].status = "completed"
                                  /\ (\A p \in Requests : SameId(p, q) => p = q) => ~session[q].failed
        /\ rec[r].status = "completed" => eng[r].status = "completed"
        /\ rec[r].status = "timeout" =>
              \E q \in Requests : SameId(r, q) /\ req[q].ctx = "deadline"

\* No step of a run is reported to the client after workflow_completed, unless
\* the context of the run has ended first (waitForCompletion).
CompletionIsLast ==
    [][\A r \in Requests : writer[r].completed /\ req[r].outcome # "ctx"
            => writer'[r].sent = writer[r].sent]_vars

\* The row of a performance run shows a terminal status that its monitor wrote only
\* after the report was saved, unless the save was refused or every attempt to fetch
\* it has failed: who sees the status finds the report if there will ever be one.
ReportFirst ==
    \A r \in Requests :
        req[r].kind = "perf" /\ ~rec[r].hooked /\ IsTerminal(rec[r].status)
            /\ mon[r].status \in {"completed", "failed", "stopped"} =>
        \/ mon[r].report \in {"saved", "refused"}
        \/ mon[r].report = "none" /\ mon[r].tries = ReportTries

\* Stop, Pause and Resume find the execution of a performance run that its row
\* shows as running or paused, as long as the monitor follows it; a row that a
\* webhook has written, or whose run was never submitted, is another matter.
CallFindsRun ==
    \A r \in Requests :
        req[r].kind = "perf" /\ lost[r] /\ eng[r].status # "none" => mon[r].pc = "done"

\* Every request returns, its session is removed, and its monitor ends, however
\* long the engine's run takes.
RequestReturns ==
    \A r \in Requests :
        req[r].pc # "idle" ~> /\ At(r, "done") /\ mon[r].pc \in {"none", "done"}
                              /\ \A id \in DOMAIN sessions : sessions[id] # r

\* A run that waits for the user (WaitForInteraction) does not wait for ever,
\* even for a question without a timer: its context ends.
QuestionEnds == \A r \in Requests : eng[r].waiting ~> ~eng[r].waiting

\* Refuted: the row of a streamed run that persists is settled when the request is done.
StreamRecordSettled ==
    \A r \in Requests :
        At(r, "done") /\ req[r].kind = "sse" /\ req[r].outcome = "nil" /\ req[r].persist => rec[r].status # "running"

=============================================================================
