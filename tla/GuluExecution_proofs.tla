------------------------- MODULE GuluExecution_proofs -------------------------
(***************************************************************************)
(* Proofs about the two parts of gulu that are modelled.                    *)
(*                                                                          *)
(* GuluExecution, for any number of requests of any kinds, any session ids  *)
(* and any calls of users.  What a row, an event or the map of sessions     *)
(* says is about a request that may be several steps further: IInv says     *)
(* what a request has behind it at each place, and what stays so.           *)
(*                                                                          *)
(* DocumentIndexing, in the second half, for any documents, goroutines,     *)
(* chunk counts, vector dimensions, failures and restarts: IndexInv says    *)
(* what a goroutine that runs alone has written and deleted at each place.  *)
(***************************************************************************)
EXTENDS GuluExecution, DocumentIndexing, FiniteSetTheorems, WellFoundedInduction, TLAPS

PCs  == {"idle", "create", "submit", "wait", "settle", "cleanup", "update", "mark", "done"}
Live == {"submit", "wait", "settle", "cleanup"}
IsStream(id) == id[1] = "stream"

\* The types: what a row, a session and so on can be.
Ids == {<<"none", 0>>} \cup ({"stream"} \X ClientIds) \cup ({"exec"} \X Requests)
Contexts  == {"live", "deadline", "canceled"}
Results   == {"none", "nil", "error", "ctx", "refused"}
Summaries == {"none", "success", "failed", "timeout", "stopped"}
HandlerRecords ==
    [pc : PCs, kind : {"sse", "blocking", "perf", "none"},
     persist : BOOLEAN, size : Nat, id : Ids, ctx : Contexts,
     outcome : Results, status : Summaries]
RowStatuses == {"none", "pending", "running", "paused", "success", "completed", "failed", "timeout", "stopped",
                "other"}
Rows == [status : RowStatuses, hooked : BOOLEAN, touched : BOOLEAN]
SessionStatuses == {"none", "running", "waiting", "completed", "failed", "stopped"}
Sessions == [status : SessionStatuses, cancel : BOOLEAN, answer : BOOLEAN, closed : BOOLEAN, failed : BOOLEAN]
Writers == [closed : BOOLEAN, completed : BOOLEAN, sent : Nat]
Runs == {"none", "running", "paused", "completed", "failed", "aborted"}
Executions == [status : Runs, stop : BOOLEAN, waiting : BOOLEAN, callbacks : Nat]
Places == {"none", "poll", "report", "save", "write", "done"}
Seen   == {"none", "completed", "failed", "stopped", "timeout"}
MonitorStates == [pc : Places, status : Seen, tries : Nat, report : {"none", "saved", "refused"}]

Types ==
    /\ req \in [Requests -> HandlerRecords]
    /\ rec \in [Requests -> Rows]
    /\ sessions \in [DOMAIN sessions -> Requests]
    /\ session \in [Requests -> Sessions]
    /\ writer \in [Requests -> Writers]
    /\ eng \in [Requests -> Executions]
    /\ mon \in [Requests -> MonitorStates]
    /\ mapped \subseteq Requests
    /\ lost \in [Requests -> BOOLEAN]

\* A call that has begun: a stop has the id of a stream, the other two a request.
CallTypes ==
    /\ call.op = "stop" => IsStream(call.on)
    /\ call.op \in {"answer", "row"} => call.on[2] \in Requests
    /\ call.op = "row" => call.arg \in {"running", "paused"}

\* The kind of a request and the id it has taken.
Kinds ==
    \A r \in Requests :
        /\ req[r].pc \in {"create", "wait", "settle", "cleanup", "update"} => Stream(r)
        /\ req[r].pc = "mark" => req[r].kind = "perf"
        /\ req[r].pc = "idle" => req[r].id = <<"none", 0>> /\ rec[r].status = "none" /\ req[r].ctx = "live"
        /\ req[r].pc = "idle" => ~(call.op = "row" /\ call.on[2] = r)
        /\ req[r].pc # "idle" => req[r].kind # "none"
        /\ req[r].pc # "idle" /\ Stream(r) => IsStream(req[r].id)
        /\ req[r].pc # "idle" /\ req[r].kind = "perf" => req[r].id = <<"exec", r>>

\* How far a request is, what it has got from the engine and what that was.
Outcome(r) ==
    /\ req[r].pc \in {"idle", "create", "submit"} => eng[r].status = "none"
    /\ req[r].pc \in {"idle", "create", "submit", "wait"} => req[r].outcome = "none" /\ req[r].status = "none"
    /\ req[r].pc \in {"settle", "cleanup"} => req[r].outcome \in {"nil", "error", "ctx"}
    /\ req[r].outcome = "nil" => eng[r].status = "completed"
    /\ req[r].outcome = "error" => eng[r].status \in {"none", "completed", "failed", "aborted"}
    /\ req[r].status = "success" => req[r].outcome = "nil" /\ ~session[r].failed
    /\ req[r].status = "timeout" => req[r].ctx = "deadline"
    /\ writer[r].completed => req[r].outcome \in {"nil", "error", "ctx"}
Outcomes == \A r \in Requests : Outcome(r)

\* The monitor: what it has seen of the engine and how often it has asked for the report.
MonitorOf(r) ==
    /\ req[r].pc \in {"idle", "create", "submit"} => mon[r].pc = "none"
    /\ mon[r].pc = "none" => mon[r].status = "none"
    /\ mon[r].pc \in {"report", "save", "write"} => mon[r].status \in {"completed", "failed", "stopped"}
    /\ mon[r].pc \in {"none", "poll", "report", "save"} => mon[r].report = "none"
    /\ mon[r].pc \in {"write", "done"} /\ mon[r].status # "timeout" =>
          mon[r].report \in {"saved", "refused"} \/ (mon[r].report = "none" /\ mon[r].tries = ReportTries)
    /\ mon[r].status = "completed" => eng[r].status = "completed"
Monitors == \A r \in Requests : MonitorOf(r)

\* A performance run can be found while its monitor follows it; before it is
\* submitted nobody takes it for a running one, unless a webhook says so; and a
\* terminal status is there only after the monitor, or after a refused submission.
Before == {"idle", "create", "submit"}
Found ==
    \A r \in Requests : req[r].kind = "perf" =>
        /\ mon[r].pc \in {"poll", "report", "save", "write"} => r \in mapped
        /\ req[r].pc \in Before /\ ~rec[r].touched =>
              rec[r].status \notin {"running", "paused"} /\ ~(call.op = "row" /\ call.on[2] = r)
        /\ ~rec[r].hooked /\ IsTerminal(rec[r].status) =>
              mon[r].pc = "done" \/ (mon[r].pc = "none" /\ req[r].pc \notin Before)

\* A performance run that the engine has is followed by a monitor.
Followed ==
    \A r \in Requests : req[r].kind = "perf" /\ req[r].pc \notin Before =>
        mon[r].pc # "none" \/ eng[r].status = "none"

\* A call misses a run that was never submitted, or whose monitor has ended.
LostRuns ==
    \A r \in Requests : req[r].kind = "perf" /\ lost[r] =>
        req[r].pc \notin Before /\ (eng[r].status = "none" \/ mon[r].pc = "done")

\* The map of sessions and the requests between CreateSession and CleanupSession.
SessionMap ==
    /\ \A id \in DOMAIN sessions :
         /\ SessionID(sessions[id]) = id
         /\ Stream(sessions[id]) /\ req[sessions[id]].pc \in Live
    /\ \A r \in Requests : Stream(r) /\ req[r].pc \in Live =>
         SessionID(r) \in DOMAIN sessions /\ sessions[SessionID(r)] = r
    /\ \A r \in Requests : req[r].pc \in {"idle", "create"} \cup Live /\ Stream(r) =>
         ~session[r].closed /\ ~writer[r].closed

IInv == /\ Types /\ CallTypes /\ Kinds /\ Outcomes /\ Monitors /\ Found /\ Followed /\ LostRuns
        /\ SessionMap /\ RecordTruth
-----------------------------------------------------------------------------
(* What an update does to the record of a request, and that it keeps its    *)
(* type.  Of a session the proofs need closed and failed, of the engine the *)
(* status.                                                                  *)

\* The handler's record h at p, with these fields.
Becomes(g, h, p, i, c, o, s) ==
    /\ g \in HandlerRecords
    /\ g.pc = p /\ g.id = i /\ g.ctx = c /\ g.outcome = o /\ g.status = s
    /\ g.kind = h.kind /\ g.persist = h.persist

\* A record with one or two fields replaced.
LEMMA HandlerFields ==
    ASSUME NEW h \in HandlerRecords, NEW p \in PCs, NEW i \in Ids, NEW c \in Contexts, NEW o \in Results, NEW s \in Summaries
    PROVE  /\ Becomes([h EXCEPT !.pc = p], h, p, h.id, h.ctx, h.outcome, h.status)
           /\ Becomes([h EXCEPT !.pc = p, !.id = i], h, p, i, h.ctx, h.outcome, h.status)
           /\ Becomes([h EXCEPT !.pc = p, !.ctx = c], h, p, h.id, c, h.outcome, h.status)
           /\ Becomes([h EXCEPT !.pc = p, !.outcome = o], h, p, h.id, h.ctx, o, h.status)
           /\ Becomes([h EXCEPT !.pc = p, !.status = s], h, p, h.id, h.ctx, h.outcome, s)
           /\ Becomes([h EXCEPT !.ctx = c], h, h.pc, h.id, c, h.outcome, h.status)
<1> USE DEF HandlerRecords, Becomes
<1>1. Becomes([h EXCEPT !.pc = p], h, p, h.id, h.ctx, h.outcome, h.status) OBVIOUS
<1>2. Becomes([h EXCEPT !.pc = p, !.id = i], h, p, i, h.ctx, h.outcome, h.status) OBVIOUS
<1>3. Becomes([h EXCEPT !.pc = p, !.ctx = c], h, p, h.id, c, h.outcome, h.status) OBVIOUS
<1>4. Becomes([h EXCEPT !.pc = p, !.outcome = o], h, p, h.id, h.ctx, o, h.status) OBVIOUS
<1>5. Becomes([h EXCEPT !.pc = p, !.status = s], h, p, h.id, h.ctx, h.outcome, s) OBVIOUS
<1>6. Becomes([h EXCEPT !.ctx = c], h, h.pc, h.id, c, h.outcome, h.status) OBVIOUS
<1> HIDE DEF Becomes
<1> QED BY <1>1, <1>2, <1>3, <1>4, <1>5, <1>6, Zenon

\* The handler of r has moved, the others are where they were.
ReqTo(r, p, i, c, o, s) ==
    /\ req' \in [Requests -> HandlerRecords]
    /\ Becomes(req'[r], req[r], p, i, c, o, s)
    /\ \A q \in Requests : q # r => req'[q] = req[q]

\* The function when one record is replaced.
LEMMA ReqUpdate ==
    ASSUME Types, NEW r \in Requests, NEW h, req' = [req EXCEPT ![r] = h],
           NEW p, NEW i, NEW c, NEW o, NEW s, Becomes(h, req[r], p, i, c, o, s)
    PROVE  ReqTo(r, p, i, c, o, s)
<1>1. h \in HandlerRecords BY DEF Becomes
<1>2. req \in [Requests -> HandlerRecords] BY DEF Types
<1>3. req' \in [Requests -> HandlerRecords] /\ req'[r] = h /\ \A q \in Requests : q # r => req'[q] = req[q]
  BY <1>1, <1>2
<1> QED BY <1>3 DEF ReqTo

\* The ways in which the handlers move.
LEMMA Moves ==
    ASSUME Types, NEW r \in Requests, NEW p \in PCs
    PROVE  /\ Goto(r, p) => ReqTo(r, p, req[r].id, req[r].ctx, req[r].outcome, req[r].status)
           /\ \A i \in Ids : req' = [req EXCEPT ![r] = [@ EXCEPT !.pc = p, !.id = i]] =>
                ReqTo(r, p, i, req[r].ctx, req[r].outcome, req[r].status)
           /\ \A c \in Contexts : req' = [req EXCEPT ![r] = [@ EXCEPT !.pc = p, !.ctx = c]] =>
                ReqTo(r, p, req[r].id, c, req[r].outcome, req[r].status)
           /\ \A o \in Results : req' = [req EXCEPT ![r] = [@ EXCEPT !.pc = p, !.outcome = o]] =>
                ReqTo(r, p, req[r].id, req[r].ctx, o, req[r].status)
           /\ \A s \in Summaries : req' = [req EXCEPT ![r] = [@ EXCEPT !.pc = p, !.status = s]] =>
                ReqTo(r, p, req[r].id, req[r].ctx, req[r].outcome, s)
           /\ \A c \in Contexts : req' = [req EXCEPT ![r].ctx = c] =>
                ReqTo(r, req[r].pc, req[r].id, c, req[r].outcome, req[r].status)
<1>0. req[r] \in HandlerRecords BY DEF Types
<1>1. <<"none", 0>> \in Ids /\ "live" \in Contexts /\ "none" \in Results /\ "none" \in Summaries
  BY DEF Ids, Contexts, Results, Summaries
<1>2. ASSUME Goto(r, p) PROVE ReqTo(r, p, req[r].id, req[r].ctx, req[r].outcome, req[r].status)
  <2>1. req' = [req EXCEPT ![r] = [req[r] EXCEPT !.pc = p]] BY <1>2 DEF Goto
  <2>2. Becomes([req[r] EXCEPT !.pc = p], req[r], p, req[r].id, req[r].ctx, req[r].outcome, req[r].status)
    BY <1>0, <1>1, HandlerFields
  <2> QED BY <2>1, <2>2, ReqUpdate
<1>3. ASSUME NEW i \in Ids, req' = [req EXCEPT ![r] = [@ EXCEPT !.pc = p, !.id = i]]
      PROVE  ReqTo(r, p, i, req[r].ctx, req[r].outcome, req[r].status)
  <2>1. Becomes([req[r] EXCEPT !.pc = p, !.id = i], req[r], p, i, req[r].ctx, req[r].outcome, req[r].status)
    BY <1>0, <1>1, HandlerFields
  <2> QED BY <1>3, <2>1, ReqUpdate
<1>4. ASSUME NEW c \in Contexts, req' = [req EXCEPT ![r] = [@ EXCEPT !.pc = p, !.ctx = c]]
      PROVE  ReqTo(r, p, req[r].id, c, req[r].outcome, req[r].status)
  <2>1. Becomes([req[r] EXCEPT !.pc = p, !.ctx = c], req[r], p, req[r].id, c, req[r].outcome, req[r].status)
    BY <1>0, <1>1, HandlerFields
  <2> QED BY <1>4, <2>1, ReqUpdate
<1>5. ASSUME NEW o \in Results, req' = [req EXCEPT ![r] = [@ EXCEPT !.pc = p, !.outcome = o]]
      PROVE  ReqTo(r, p, req[r].id, req[r].ctx, o, req[r].status)
  <2>1. Becomes([req[r] EXCEPT !.pc = p, !.outcome = o], req[r], p, req[r].id, req[r].ctx, o, req[r].status)
    BY <1>0, <1>1, HandlerFields
  <2> QED BY <1>5, <2>1, ReqUpdate
<1>6. ASSUME NEW s \in Summaries, req' = [req EXCEPT ![r] = [@ EXCEPT !.pc = p, !.status = s]]
      PROVE  ReqTo(r, p, req[r].id, req[r].ctx, req[r].outcome, s)
  <2>1. Becomes([req[r] EXCEPT !.pc = p, !.status = s], req[r], p, req[r].id, req[r].ctx, req[r].outcome, s)
    BY <1>0, <1>1, HandlerFields
  <2> QED BY <1>6, <2>1, ReqUpdate
<1>7. ASSUME NEW c \in Contexts, req' = [req EXCEPT ![r].ctx = c]
      PROVE  ReqTo(r, req[r].pc, req[r].id, c, req[r].outcome, req[r].status)
  <2>1. req' = [req EXCEPT ![r] = [req[r] EXCEPT !.ctx = c]] BY <1>7
  <2>2. Becomes([req[r] EXCEPT !.ctx = c], req[r], req[r].pc, req[r].id, c, req[r].outcome, req[r].status)
    BY <1>0, <1>1, HandlerFields
  <2> QED BY <2>1, <2>2, ReqUpdate
<1> QED BY <1>2, <1>3, <1>4, <1>5, <1>6, <1>7

\* One row is written by its id, or all rows with a session id are, or the write has failed.
RowSet(r, s, h) ==
    /\ rec' \in [Requests -> Rows]
    /\ rec'[r] = rec[r] \/ (rec'[r].status = s /\ rec'[r].hooked = h)
    /\ rec[r].touched => rec'[r].touched
    /\ \A q \in Requests : q # r => rec'[q] = rec[q]
RowsSet(id, s) ==
    /\ rec' \in [Requests -> Rows]
    /\ \A q \in Requests : \/ rec'[q] = rec[q]
                            \/ /\ rec[q].status # "none" /\ req[q].id = id
                               /\ rec'[q].status = s /\ ~rec'[q].hooked

\* A write of a row.
LEMMA RowWritten ==
    ASSUME Types
    PROVE  /\ \A r \in Requests, s \in RowStatuses : UpdateByID(r, s) => RowSet(r, s, FALSE)
           /\ \A id, s : s \in RowStatuses /\ UpdateStreamExecutionStatus(id, s) => RowsSet(id, s)
<1>0. rec \in [Requests -> Rows] BY DEF Types
<1>w. ASSUME NEW old \in Rows, NEW s \in RowStatuses
      PROVE  /\ Written(old, s) \in Rows /\ Written(old, s).status = s /\ Written(old, s).hooked = FALSE
             /\ Written(old, s).touched = old.touched
  BY DEF Written, Rows
<1>1. ASSUME NEW r \in Requests, NEW s \in RowStatuses, UpdateByID(r, s) PROVE RowSet(r, s, FALSE)
  <2>1. CASE UNCHANGED rec BY <1>0, <2>1 DEF RowSet
  <2>2. CASE rec' = [rec EXCEPT ![r] = Written(rec[r], s)]
    <3>0. rec[r] \in Rows BY <1>0
    <3>5. /\ Written(rec[r], s) \in Rows /\ Written(rec[r], s).status = s /\ Written(rec[r], s).hooked = FALSE
          /\ Written(rec[r], s).touched = rec[r].touched
      BY <1>w, <3>0
    <3>6. PICK w \in Rows : w = Written(rec[r], s) BY <3>5, Zenon
    <3>1. w \in Rows /\ w = Written(rec[r], s) /\ w.status = s /\ w.hooked = FALSE /\ w.touched = rec[r].touched
      BY <3>5, <3>6, Zenon
    <3>2. rec' = [rec EXCEPT ![r] = w] BY <2>2, <3>1
    <3>3. rec' \in [Requests -> Rows] /\ rec'[r] = w /\ \A q \in Requests : q # r => rec'[q] = rec[q]
      BY <1>0, <3>2
    <3>4. rec[r].touched => rec'[r].touched BY <3>1, <3>3
    <3> QED BY <3>1, <3>3, <3>4 DEF RowSet
  <2> QED BY <1>1, <2>1, <2>2 DEF UpdateByID
<1>2. ASSUME NEW id, NEW s \in RowStatuses, UpdateStreamExecutionStatus(id, s) PROVE RowsSet(id, s)
  <2>1. CASE UNCHANGED rec BY <1>0, <2>1 DEF RowsSet
  <2>2. CASE rec' = [r \in Requests |-> IF rec[r].status # "none" /\ req[r].id = id THEN Written(rec[r], s) ELSE rec[r]]
    <3>1. ASSUME NEW q \in Requests
          PROVE  /\ rec'[q] \in Rows
                 /\ \/ rec'[q] = rec[q]
                    \/ /\ rec[q].status # "none" /\ req[q].id = id
                       /\ rec'[q].status = s /\ ~rec'[q].hooked
      <4>1. rec[q] \in Rows BY <1>0
      <4> QED BY <1>w, <2>2, <4>1
    <3> QED BY <2>2, <3>1 DEF RowsSet
  <2> QED BY <1>2, <2>1, <2>2 DEF UpdateStreamExecutionStatus
<1> QED BY <1>1, <1>2

\* Nothing that matters has changed of the sessions, and of the engine.
SessionsKept ==
    /\ session' \in [Requests -> Sessions]
    /\ \A q \in Requests : session'[q].closed = session[q].closed /\ session'[q].failed = session[q].failed
EngKept ==
    /\ eng' \in [Requests -> Executions]
    /\ \A q \in Requests : eng'[q].status = eng[q].status

\* A step that leaves the variable leaves what matters of it.
LEMMA Kept ==
    ASSUME Types
    PROVE  /\ UNCHANGED session => SessionsKept
           /\ UNCHANGED eng => EngKept
BY DEF Types, SessionsKept, EngKept

\* StopExecution of the engine changes no status.
LEMMA StopFacts ==
    ASSUME Types, NEW r \in Requests, StopEngine(r)
    PROVE  EngKept
<1>1. PICK b \in BOOLEAN : eng' = [eng EXCEPT ![r].stop = b]
  <2>1. (eng[r].stop \/ eng[r].status \in {"running", "paused"}) \in BOOLEAN OBVIOUS
  <2>2. eng' = [eng EXCEPT ![r].stop = (eng[r].stop \/ eng[r].status \in {"running", "paused"})] BY DEF StopEngine
  <2> QED BY <2>1, <2>2, Zenon
<1> QED BY <1>1 DEF Types, EngKept, Executions

-----------------------------------------------------------------------------
(* What each step of a handler does.                                        *)

\* Execute: an id is taken, and the row of a request that persists is running.
LEMMA ExecuteFacts ==
    ASSUME Types, NEW r \in Requests, NEW i \in ClientIds, Execute(r, <<"stream", i>>)
    PROVE  /\ req[r].pc = "idle" /\ Stream(r)
           /\ \E p \in {"create", "done"} :
                ReqTo(r, p, <<"stream", i>>, req[r].ctx, req[r].outcome, req[r].status)
           /\ RowSet(r, "running", rec[r].hooked) \/ UNCHANGED rec
           /\ UNCHANGED <<sessions, session, writer, eng, mon, mapped, call, lost>>
<1>1. req[r].pc = "idle" /\ Stream(r) /\ UNCHANGED <<sessions, session, writer, eng, mon, mapped, call, lost>>
  BY DEF Execute, At
<1>2. <<"stream", i>> \in Ids BY DEF Ids
<1>3. PICK p \in {"create", "done"} : req' = [req EXCEPT ![r] = [@ EXCEPT !.pc = p, !.id = <<"stream", i>>]]
  BY DEF Execute
<1>4. ReqTo(r, p, <<"stream", i>>, req[r].ctx, req[r].outcome, req[r].status) BY <1>2, <1>3, Moves DEF PCs
<1>5. RowSet(r, "running", rec[r].hooked) \/ UNCHANGED rec
  BY DEF Execute, Types, RowSet, Rows, RowStatuses
<1> QED BY <1>1, <1>4, <1>5

\* ExecutePerf: the row is pending.
LEMMA ExecutePerfFacts ==
    ASSUME Types, NEW r \in Requests, ExecutePerf(r)
    PROVE  /\ req[r].pc = "idle" /\ req[r].kind = "perf"
           /\ \E p \in {"submit", "done"} :
                ReqTo(r, p, <<"exec", r>>, req[r].ctx, req[r].outcome, req[r].status)
           /\ RowSet(r, "pending", rec[r].hooked)
           /\ UNCHANGED <<sessions, session, writer, eng, mon, mapped, call, lost>>
<1>1. /\ req[r].pc = "idle" /\ req[r].kind = "perf"
      /\ UNCHANGED <<sessions, session, writer, eng, mon, mapped, call, lost>>
  BY DEF ExecutePerf, At
<1>2. <<"exec", r>> \in Ids BY DEF Ids
<1>3. PICK p \in {"submit", "done"} : req' = [req EXCEPT ![r] = [@ EXCEPT !.pc = p, !.id = <<"exec", r>>]]
  BY DEF ExecutePerf
<1>4. ReqTo(r, p, <<"exec", r>>, req[r].ctx, req[r].outcome, req[r].status) BY <1>2, <1>3, Moves DEF PCs
<1>5. RowSet(r, "pending", rec[r].hooked) BY DEF ExecutePerf, Types, RowSet, Rows, RowStatuses
<1> QED BY <1>1, <1>4, <1>5

\* CreateSession: refused when the id is in use, and in the map otherwise.
LEMMA CreateSessionFacts ==
    ASSUME Types, NEW r \in Requests, CreateSession(r)
    PROVE  /\ req[r].pc = "create"
           /\ \/ /\ ReqTo(r, "update", req[r].id, req[r].ctx, "refused", req[r].status)
                 /\ UNCHANGED <<sessions, session>>
              \/ /\ SessionID(r) \notin DOMAIN sessions
                 /\ ReqTo(r, "submit", req[r].id, req[r].ctx, req[r].outcome, req[r].status)
                 /\ sessions' = [s \in DOMAIN sessions \cup {SessionID(r)} |->
                                   IF s = SessionID(r) THEN r ELSE sessions[s]]
                 /\ SessionsKept
           /\ UNCHANGED <<rec, writer, eng, mon, mapped, call, lost>>
<1>1. req[r].pc = "create" /\ UNCHANGED <<rec, writer, eng, mon, mapped, call, lost>>
  BY DEF CreateSession, At
<1>2. CASE SessionID(r) \in DOMAIN sessions
  <2>1. /\ req' = [req EXCEPT ![r] = [@ EXCEPT !.pc = "update", !.outcome = "refused"]]
        /\ UNCHANGED <<sessions, session>>
    BY <1>2 DEF CreateSession
  <2>2. ReqTo(r, "update", req[r].id, req[r].ctx, "refused", req[r].status) BY <2>1, Moves DEF PCs, Results
  <2> QED BY <1>1, <2>1, <2>2
<1>3. CASE SessionID(r) \notin DOMAIN sessions
  <2>1. /\ Goto(r, "submit")
        /\ sessions' = [s \in DOMAIN sessions \cup {SessionID(r)} |-> IF s = SessionID(r) THEN r ELSE sessions[s]]
        /\ session' = [session EXCEPT ![r].status = "running"]
    BY <1>3 DEF CreateSession
  <2>2. ReqTo(r, "submit", req[r].id, req[r].ctx, req[r].outcome, req[r].status) BY <2>1, Moves DEF PCs
  <2>3. SessionsKept BY <2>1 DEF Types, SessionsKept, Sessions, SessionStatuses
  <2> QED BY <1>1, <1>3, <2>1, <2>2, <2>3
<1> QED BY <1>2, <1>3

\* Submit: the engine runs, or has refused.
LEMMA SubmitFacts ==
    ASSUME Types, SessionMap, NEW r \in Requests, Submit(r)
    PROVE  /\ req[r].pc = "submit" /\ Stream(r)
           /\ SessionsKept
           /\ \/ /\ ReqTo(r, "wait", req[r].id, req[r].ctx, req[r].outcome, req[r].status)
                 /\ eng' \in [Requests -> Executions] /\ eng'[r].status = "running"
                 /\ \A q \in Requests : q # r => eng'[q] = eng[q]
              \/ /\ ReqTo(r, "settle", req[r].id, req[r].ctx, "error", req[r].status)
                 /\ UNCHANGED eng
           /\ UNCHANGED <<rec, sessions, writer, mon, mapped, call, lost>>
<1>1. /\ req[r].pc = "submit" /\ Stream(r)
      /\ UNCHANGED <<rec, sessions, writer, mon, mapped, call, lost>>
  BY DEF Submit, At
<1>2. sessions[SessionID(r)] = r BY <1>1 DEF SessionMap, Live
<1>3. session' = [session EXCEPT ![r].cancel = TRUE] BY <1>2 DEF Submit
<1>4. SessionsKept BY <1>3 DEF Types, SessionsKept, Sessions
<1>5. CASE Goto(r, "wait") /\ eng' = [eng EXCEPT ![r].status = "running"]
  <2>1. ReqTo(r, "wait", req[r].id, req[r].ctx, req[r].outcome, req[r].status) BY <1>5, Moves DEF PCs
  <2>2. /\ eng' \in [Requests -> Executions] /\ eng'[r].status = "running"
        /\ \A q \in Requests : q # r => eng'[q] = eng[q]
    BY <1>5 DEF Types, Executions, Runs
  <2> QED BY <1>1, <1>4, <2>1, <2>2
<1>6. CASE req' = [req EXCEPT ![r] = [@ EXCEPT !.pc = "settle", !.outcome = "error"]] /\ UNCHANGED eng
  <2>1. ReqTo(r, "settle", req[r].id, req[r].ctx, "error", req[r].status) BY <1>6, Moves DEF PCs, Results
  <2> QED BY <1>1, <1>4, <1>6, <2>1
<1> QED BY <1>5, <1>6 DEF Submit

\* The end of the wait: what it returns is what the engine's status was, or
\* that the context has ended.
LEMMA WaitFacts ==
    ASSUME Types, NEW r \in Requests, Status(r) \/ CtxDone(r)
    PROVE  /\ req[r].pc = "wait"
           /\ \E o \in {"nil", "error", "ctx"} :
                /\ ReqTo(r, "settle", req[r].id, req[r].ctx, o, req[r].status)
                /\ o = "nil" => eng[r].status = "completed"
                /\ o = "error" => eng[r].status \in {"completed", "failed", "aborted"}
           /\ EngKept
           /\ UNCHANGED <<rec, sessions, session, writer, mon, mapped, call, lost>>
<1>1. req[r].pc = "wait" /\ UNCHANGED <<rec, sessions, session, writer, mon, mapped, call, lost>>
  BY DEF Status, CtxDone, At
<1>2. EngKept BY Kept, StopFacts DEF Status, CtxDone
<1>3. PICK o \in {"nil", "error", "ctx"} :
        /\ Returns(r, o)
        /\ o = "nil" => eng[r].status = "completed"
        /\ o = "error" => eng[r].status \in {"completed", "failed", "aborted"}
  BY DEF Status, CtxDone, EngineEnded
<1>4. ReqTo(r, "settle", req[r].id, req[r].ctx, o, req[r].status) BY <1>3, Moves DEF Returns, PCs, Results
<1> QED BY <1>1, <1>2, <1>3, <1>4

\* The end of ExecuteStream and of ExecuteBlocking.
LEMMA SettleFacts ==
    ASSUME Types, NEW r \in Requests, Settle(r)
    PROVE  /\ req[r].pc = "settle"
           /\ \E s \in Summaries :
                /\ ReqTo(r, "cleanup", req[r].id, req[r].ctx, req[r].outcome, s)
                /\ s = "success" => s = req[r].status \/ (req[r].outcome = "nil" /\ ~session[r].failed)
                /\ s = "timeout" => s = req[r].status \/ req[r].ctx = "deadline"
           /\ SessionsKept
           /\ writer' \in [Requests -> Writers]
           /\ \A q \in Requests : writer'[q].closed = writer[q].closed /\ writer'[q].sent = writer[q].sent
           /\ \A q \in Requests : q # r => writer'[q] = writer[q]
           /\ UNCHANGED <<rec, sessions, eng, mon, mapped, call, lost>>
<1>1. req[r].pc = "settle" /\ UNCHANGED <<rec, sessions, eng, mon, mapped, call, lost>> BY DEF Settle, At
<1>2. CASE req[r].kind = "sse"
  <2>1. /\ Goto(r, "cleanup")
        /\ session' = [session EXCEPT ![r].status = Settled(r)]
        /\ writer' = [writer EXCEPT ![r].completed = TRUE]
    BY <1>2 DEF Settle
  <2>2. Settled(r) \in SessionStatuses BY DEF Settled, SessionStatuses
  <2>3. SessionsKept BY <2>1, <2>2 DEF Types, SessionsKept, Sessions
  <2>4. /\ writer' \in [Requests -> Writers]
        /\ \A q \in Requests : writer'[q].closed = writer[q].closed /\ writer'[q].sent = writer[q].sent
        /\ \A q \in Requests : q # r => writer'[q] = writer[q]
    BY <2>1 DEF Types, Writers
  <2>5. ReqTo(r, "cleanup", req[r].id, req[r].ctx, req[r].outcome, req[r].status) BY <2>1, Moves DEF PCs
  <2>6. req[r].status \in Summaries BY DEF Types, HandlerRecords
  <2> QED BY <1>1, <2>3, <2>4, <2>5, <2>6
<1>3. CASE req[r].kind # "sse"
  <2>1. /\ req' = [req EXCEPT ![r] = [@ EXCEPT !.pc = "cleanup", !.status = Summary(r)]]
        /\ UNCHANGED <<session, writer>>
    BY <1>3 DEF Settle
  <2>2. /\ Summary(r) \in Summaries
        /\ Summary(r) = "success" => req[r].outcome = "nil" /\ ~session[r].failed
        /\ Summary(r) = "timeout" => req[r].ctx = "deadline"
    <3>1. /\ Interrupted(r) \in {"failed", "timeout", "stopped"}
          /\ Interrupted(r) = "timeout" => req[r].ctx = "deadline"
      BY DEF Interrupted
    <3>2. CASE req[r].outcome # "nil" BY <3>1, <3>2 DEF Summary, Summaries
    <3>3. CASE req[r].outcome = "nil"
      <4>1. CASE session[r].failed BY <3>3, <4>1 DEF Summary, Summaries
      <4>2. CASE ~session[r].failed BY <3>3, <4>2 DEF Summary, Summaries
      <4> QED BY <4>1, <4>2
    <3> QED BY <3>2, <3>3
  <2>3. ReqTo(r, "cleanup", req[r].id, req[r].ctx, req[r].outcome, Summary(r)) BY <2>1, <2>2, Moves DEF PCs
  <2>4. SessionsKept /\ writer' \in [Requests -> Writers] BY <2>1, Kept DEF Types
  <2> QED BY <1>1, <2>1, <2>2, <2>3, <2>4
<1> QED BY <1>2, <1>3

\* The deferred calls: the session leaves the map, its channel and writer are closed.
LEMMA CleanupFacts ==
    ASSUME Types, Kinds, SessionMap, NEW r \in Requests, CleanupSession(r)
    PROVE  /\ req[r].pc = "cleanup" /\ Stream(r)
           /\ SessionID(r) \in DOMAIN sessions /\ sessions[SessionID(r)] = r
           /\ \E c \in Contexts :
                /\ ReqTo(r, "update", req[r].id, c, req[r].outcome, req[r].status)
                /\ c = req[r].ctx \/ (req[r].ctx = "live" /\ c = "canceled")
           /\ session' \in [Requests -> Sessions] /\ session'[r].failed = session[r].failed
           /\ writer' \in [Requests -> Writers]
           /\ writer'[r].completed = writer[r].completed /\ writer'[r].sent = writer[r].sent
           /\ \A q \in Requests : q # r => session'[q] = session[q] /\ writer'[q] = writer[q]
           /\ sessions' = [x \in DOMAIN sessions \ {SessionID(r)} |-> sessions[x]]
           /\ UNCHANGED <<rec, eng, mon, mapped, call, lost>>
<1>1. req[r].pc = "cleanup" /\ UNCHANGED <<rec, eng, mon, mapped, call, lost>> BY DEF CleanupSession, At
<1>2. Stream(r) /\ SessionID(r) \in DOMAIN sessions /\ sessions[SessionID(r)] = r
  BY <1>1 DEF Kinds, SessionMap, Live
<1>3. /\ session' = [session EXCEPT ![r].closed = TRUE]
      /\ writer' = [writer EXCEPT ![r].closed = TRUE]
      /\ sessions' = [x \in DOMAIN sessions \ {SessionID(r)} |-> sessions[x]]
  BY <1>2 DEF CleanupSession, Restrict
<1>4. /\ session' \in [Requests -> Sessions] /\ session'[r].failed = session[r].failed
      /\ \A q \in Requests : q # r => session'[q] = session[q]
  BY <1>3 DEF Types, Sessions
<1>5. /\ writer' \in [Requests -> Writers]
      /\ writer'[r].completed = writer[r].completed /\ writer'[r].sent = writer[r].sent
      /\ \A q \in Requests : q # r => writer'[q] = writer[q]
  BY <1>3 DEF Types, Writers
<1>6. req[r].ctx \in Contexts BY DEF Types, HandlerRecords
<1>7. /\ Cancel(req[r].ctx) \in Contexts
      /\ Cancel(req[r].ctx) = req[r].ctx \/ (req[r].ctx = "live" /\ Cancel(req[r].ctx) = "canceled")
  BY <1>6 DEF Contexts, Cancel
<1>8. req' = [req EXCEPT ![r] = [@ EXCEPT !.pc = "update", !.ctx = Cancel(req[r].ctx)]] BY DEF CleanupSession
<1>9. ReqTo(r, "update", req[r].id, Cancel(req[r].ctx), req[r].outcome, req[r].status)
  BY <1>7, <1>8, Moves DEF PCs
<1> QED BY <1>1, <1>2, <1>3, <1>4, <1>5, <1>7, <1>9

\* The end of a handler: a status is written to the rows of its session id, or
\* nothing is.  Success is what the summary says, or what the session of
\* another stream with this id says.
LEMMA UpdateFacts ==
    ASSUME Types, Kinds, NEW r \in Requests, UpdateExecutionStatus(r)
    PROVE  /\ req[r].pc = "update" /\ Stream(r)
           /\ ReqTo(r, "done", req[r].id, req[r].ctx, req[r].outcome, req[r].status)
           /\ \/ UNCHANGED rec
              \/ \E s \in Summaries :
                   /\ RowsSet(req[r].id, s)
                   /\ s = "success" => \/ req[r].status = "success"
                                       \/ /\ req[r].kind = "sse" /\ req[r].outcome = "nil"
                                          /\ SessionID(r) \in DOMAIN sessions
                   /\ s = "timeout" => req[r].status = "timeout"
           /\ UNCHANGED <<sessions, session, writer, eng, mon, mapped, call, lost>>
<1>1. req[r].pc = "update" /\ Goto(r, "done") /\ UNCHANGED <<sessions, session, writer, eng, mon, mapped, call, lost>>
  BY DEF UpdateExecutionStatus, At
<1>2. Stream(r) BY <1>1 DEF Kinds
<1>3. ReqTo(r, "done", req[r].id, req[r].ctx, req[r].outcome, req[r].status) BY <1>1, Moves DEF PCs
<1>4. Summaries \subseteq RowStatuses BY DEF Summaries, RowStatuses
<1>5. CASE ~req[r].persist BY <1>1, <1>2, <1>3, <1>5 DEF UpdateExecutionStatus
<1>6. CASE req[r].persist /\ req[r].kind = "sse"
  <2>1. UpdateStream(r) BY <1>6 DEF UpdateExecutionStatus
  <2>2. CASE req[r].outcome # "nil"
    <3>1. RowsSet(req[r].id, "failed") BY <2>1, <2>2, RowWritten DEF UpdateStream, RowStatuses
    <3> QED BY <1>1, <1>2, <1>3, <3>1 DEF Summaries
  <2>3. CASE req[r].outcome = "nil" /\ SessionID(r) \in DOMAIN sessions
    <3>1. PICK s \in {"failed", "success"} : UpdateStreamExecutionStatus(req[r].id, s)
      BY <2>1, <2>3 DEF UpdateStream
    <3>2. RowsSet(req[r].id, s) BY <3>1, RowWritten DEF RowStatuses
    <3> QED BY <1>1, <1>2, <1>3, <1>6, <2>3, <3>2 DEF Summaries
  <2>4. CASE req[r].outcome = "nil" /\ SessionID(r) \notin DOMAIN sessions
    <3>1. UNCHANGED rec BY <2>1, <2>4 DEF UpdateStream
    <3> QED BY <1>1, <1>2, <1>3, <3>1
  <2> QED BY <2>2, <2>3, <2>4
<1>7. CASE req[r].persist /\ req[r].kind # "sse"
  <2>1. req[r].status \in Summaries BY DEF Types, HandlerRecords
  <2>2. PICK s \in {"failed", req[r].status} : UpdateStreamExecutionStatus(req[r].id, s)
    BY <1>7 DEF UpdateExecutionStatus
  <2>3. s \in Summaries BY <2>1 DEF Summaries
  <2>4. RowsSet(req[r].id, s) BY <1>4, <2>2, <2>3, RowWritten
  <2> QED BY <1>1, <1>2, <1>3, <2>3, <2>4
<1> QED BY <1>5, <1>6, <1>7

\* The submission of a performance run: it can be found before its row says running.
LEMMA SubmitPerfFacts ==
    ASSUME Types, Kinds, NEW r \in Requests, SubmitPerf(r)
    PROVE  /\ req[r].pc = "submit" /\ req[r].kind = "perf"
           /\ \/ /\ ReqTo(r, "mark", req[r].id, req[r].ctx, req[r].outcome, req[r].status)
                 /\ eng' \in [Requests -> Executions] /\ eng'[r].status = "running"
                 /\ \A q \in Requests : q # r => eng'[q] = eng[q]
                 /\ mon' \in [Requests -> MonitorStates] /\ mon'[r].pc = "poll" /\ mon'[r].status = mon[r].status
                 /\ mon'[r].report = mon[r].report
                 /\ \A q \in Requests : q # r => mon'[q] = mon[q]
                 /\ mapped' = mapped \cup {r}
                 /\ UNCHANGED rec
              \/ /\ ReqTo(r, "done", req[r].id, req[r].ctx, req[r].outcome, req[r].status)
                 /\ RowSet(r, "failed", FALSE)
                 /\ UNCHANGED <<eng, mon, mapped>>
              \/ /\ ReqTo(r, "mark", req[r].id, req[r].ctx, req[r].outcome, req[r].status)
                 /\ UNCHANGED <<rec, eng, mon, mapped>>
           /\ UNCHANGED <<sessions, session, writer, call, lost>>
<1>1. req[r].pc = "submit" /\ ~Stream(r) /\ UNCHANGED <<sessions, session, writer, call, lost>>
  BY DEF SubmitPerf, At
<1>2. req[r].kind = "perf" BY <1>1 DEF Types, HandlerRecords, Kinds, Stream
<1>3. CASE /\ Goto(r, "mark")
           /\ eng' = [eng EXCEPT ![r].status = "running"]
           /\ mapped' = mapped \cup {r}
           /\ mon' = [mon EXCEPT ![r].pc = "poll"]
           /\ UNCHANGED rec
  <2>1. ReqTo(r, "mark", req[r].id, req[r].ctx, req[r].outcome, req[r].status) BY <1>3, Moves DEF PCs
  <2>2. /\ eng' \in [Requests -> Executions] /\ eng'[r].status = "running"
        /\ \A q \in Requests : q # r => eng'[q] = eng[q]
    BY <1>3 DEF Types, Executions, Runs
  <2>3. /\ mon' \in [Requests -> MonitorStates] /\ mon'[r].pc = "poll" /\ mon'[r].status = mon[r].status
        /\ mon'[r].report = mon[r].report
        /\ \A q \in Requests : q # r => mon'[q] = mon[q]
    BY <1>3 DEF Types, MonitorStates, Places
  <2> QED BY <1>1, <1>2, <1>3, <2>1, <2>2, <2>3
<1>4. CASE Goto(r, "done") /\ UpdateByID(r, "failed") /\ UNCHANGED <<eng, mon, mapped>>
  <2>1. ReqTo(r, "done", req[r].id, req[r].ctx, req[r].outcome, req[r].status) BY <1>4, Moves DEF PCs
  <2>2. RowSet(r, "failed", FALSE) BY <1>4, RowWritten DEF RowStatuses
  <2> QED BY <1>1, <1>2, <1>4, <2>1, <2>2
<1>5. CASE Goto(r, "mark") /\ UNCHANGED <<rec, eng, mon, mapped>>
  <2>1. ReqTo(r, "mark", req[r].id, req[r].ctx, req[r].outcome, req[r].status) BY <1>5, Moves DEF PCs
  <2> QED BY <1>1, <1>2, <1>5, <2>1
<1> QED BY <1>3, <1>4, <1>5 DEF SubmitPerf

\* The row of a submitted run.
LEMMA MarkFacts ==
    ASSUME Types, Kinds, NEW r \in Requests, MarkRunning(r)
    PROVE  /\ req[r].pc = "mark" /\ req[r].kind = "perf"
           /\ ReqTo(r, "done", req[r].id, req[r].ctx, req[r].outcome, req[r].status)
           /\ RowSet(r, "running", FALSE)
           /\ UNCHANGED <<sessions, session, writer, eng, mon, mapped, call, lost>>
<1>1. /\ req[r].pc = "mark" /\ Goto(r, "done") /\ UpdateByID(r, "running")
      /\ UNCHANGED <<sessions, session, writer, eng, mon, mapped, call, lost>>
  BY DEF MarkRunning, At
<1>2. req[r].kind = "perf" BY <1>1 DEF Kinds
<1>3. ReqTo(r, "done", req[r].id, req[r].ctx, req[r].outcome, req[r].status) BY <1>1, Moves DEF PCs
<1>4. RowSet(r, "running", FALSE) BY <1>1, RowWritten DEF RowStatuses
<1> QED BY <1>1, <1>2, <1>3, <1>4

\* The timer.
LEMMA DeadlineFacts ==
    ASSUME Types, NEW r \in Requests, Deadline(r)
    PROVE  /\ req[r].pc \in {"wait", "settle"} /\ req[r].ctx = "live"
           /\ ReqTo(r, req[r].pc, req[r].id, "deadline", req[r].outcome, req[r].status)
           /\ UNCHANGED <<rec, sessions, session, writer, eng, mon, mapped, call, lost>>
<1>1. /\ req[r].pc \in {"wait", "settle"} /\ req[r].ctx = "live" /\ req' = [req EXCEPT ![r].ctx = "deadline"]
      /\ UNCHANGED <<rec, sessions, session, writer, eng, mon, mapped, call, lost>>
  BY DEF Deadline
<1>2. req[r].pc \in PCs /\ "deadline" \in Contexts BY <1>1 DEF PCs, Contexts
<1>3. ReqTo(r, req[r].pc, req[r].id, "deadline", req[r].outcome, req[r].status) BY <1>1, <1>2, Moves
<1> QED BY <1>1, <1>3
-----------------------------------------------------------------------------
(* The monitor, the engine and the calls.                                   *)

\* A step of the monitor of r.
MonTo(r, p, s) ==
    /\ mon' \in [Requests -> MonitorStates]
    /\ mon'[r].pc = p /\ mon'[r].status = s
    /\ \A q \in Requests : q # r => mon'[q] = mon[q]

\* The steps of a monitor.
LEMMA MonitorFacts ==
    ASSUME Types, NEW r \in Requests, MonitorStep(r)
    PROVE  /\ \/ /\ mon[r].pc = "poll" /\ UNCHANGED <<rec, mapped>>
                 /\ \E s \in {"completed", "failed", "stopped"} :
                      MonTo(r, "report", s) /\ (s = "completed" => eng[r].status = "completed")
                 /\ mon'[r].report = mon[r].report
              \/ /\ mon[r].pc = "poll" /\ MonTo(r, "done", "timeout")
                 /\ RowSet(r, "failed", FALSE) /\ UNCHANGED mapped
              \/ /\ mon[r].pc = "report" /\ UNCHANGED <<rec, mapped>>
                 /\ \/ MonTo(r, "report", mon[r].status)
                    \/ MonTo(r, "save", mon[r].status)
                    \/ MonTo(r, "write", mon[r].status) /\ mon'[r].tries = ReportTries
                 /\ mon'[r].report = mon[r].report
              \/ /\ mon[r].pc = "save" /\ MonTo(r, "write", mon[r].status)
                 /\ mon'[r].report \in {"saved", "refused"} /\ UNCHANGED <<rec, mapped>>
              \/ /\ mon[r].pc = "write" /\ MonTo(r, "done", mon[r].status)
                 /\ mon'[r].report = mon[r].report /\ mon'[r].tries = mon[r].tries
                 /\ RowSet(r, mon[r].status, FALSE) /\ UNCHANGED mapped
              \/ mon[r].pc = "done" /\ mapped' = mapped \ {r} /\ UNCHANGED <<mon, rec>>
           /\ UNCHANGED <<req, sessions, session, writer, eng, call, lost>>
<1>0. mon \in [Requests -> MonitorStates] /\ mon[r] \in MonitorStates BY DEF Types
<1>1. CASE MonitorPoll(r)
  <2>1. PICK s \in {"completed", "failed", "stopped"} :
          /\ mon' = [mon EXCEPT ![r] = [mon[r] EXCEPT !.pc = "report", !.status = s]]
          /\ s = "completed" => eng[r].status = "completed"
    BY <1>1 DEF MonitorPoll, Monitor, MapEngineStatus, IsTerminal
  <2>2. LET m == [mon[r] EXCEPT !.pc = "report", !.status = s] IN
        m \in MonitorStates /\ m.pc = "report" /\ m.status = s /\ m.report = mon[r].report
    BY <1>0 DEF MonitorStates, Places, Seen
  <2>3. MonTo(r, "report", s) /\ mon'[r].report = mon[r].report BY <1>0, <2>1, <2>2 DEF MonTo
  <2> QED BY <1>1, <2>1, <2>3 DEF MonitorPoll
<1>2. CASE MonitorTimeout(r)
  <2>1. mon' = [mon EXCEPT ![r] = [mon[r] EXCEPT !.pc = "done", !.status = "timeout"]]
    BY <1>2 DEF MonitorTimeout, Monitor
  <2>2. LET m == [mon[r] EXCEPT !.pc = "done", !.status = "timeout"] IN
        m \in MonitorStates /\ m.pc = "done" /\ m.status = "timeout"
    BY <1>0 DEF MonitorStates, Places, Seen
  <2>3. MonTo(r, "done", "timeout") BY <1>0, <2>1, <2>2 DEF MonTo
  <2>4. RowSet(r, "failed", FALSE) BY <1>2, RowWritten DEF MonitorTimeout, RowStatuses
  <2> QED BY <1>2, <2>3, <2>4 DEF MonitorTimeout
<1>3. CASE FetchReport(r)
  <2>0. PICK ok \in BOOLEAN :
          mon' = [mon EXCEPT ![r] = [mon[r] EXCEPT !.tries = @ + 1,
                     !.pc = CASE ok -> "save"
                              [] ~ok /\ mon[r].tries + 1 = ReportTries -> "write"
                              [] OTHER -> "report"]]
    BY <1>3 DEF FetchReport, Monitor
  <2> DEFINE n == mon[r].tries + 1
             p == CASE ok -> "save" [] ~ok /\ n = ReportTries -> "write" [] OTHER -> "report"
  <2>1. p \in {"save", "report", "write"} /\ (p = "write" => n = ReportTries) OBVIOUS
  <2>4. mon' = [mon EXCEPT ![r] = [mon[r] EXCEPT !.tries = n, !.pc = p]] BY <2>0
  <2>5. n \in Nat BY <1>0 DEF MonitorStates
  <2> HIDE DEF n, p
  <2>2. PICK m : m = [mon[r] EXCEPT !.tries = n, !.pc = p] OBVIOUS
  <2>6. m \in MonitorStates /\ m.pc = p /\ m.status = mon[r].status /\ m.report = mon[r].report /\ m.tries = n
    BY <1>0, <2>1, <2>2, <2>5 DEF MonitorStates, Places
  <2>7. mon' = [mon EXCEPT ![r] = m] BY <2>2, <2>4
  <2>3. MonTo(r, p, mon[r].status) /\ mon'[r].report = mon[r].report /\ mon'[r].tries = n
    BY <1>0, <2>6, <2>7 DEF MonTo
  <2> QED BY <1>3, <2>1, <2>3 DEF FetchReport
<1>6. CASE SaveReport(r)
  <2>1. PICK x \in {"saved", "refused"} : mon' = [mon EXCEPT ![r] = [mon[r] EXCEPT !.pc = "write", !.report = x]]
    BY <1>6 DEF SaveReport, Monitor
  <2>2. LET m == [mon[r] EXCEPT !.pc = "write", !.report = x] IN
        m \in MonitorStates /\ m.pc = "write" /\ m.status = mon[r].status /\ m.report = x
    BY <1>0 DEF MonitorStates, Places
  <2>3. MonTo(r, "write", mon[r].status) /\ mon'[r].report = x BY <1>0, <2>1, <2>2 DEF MonTo
  <2> QED BY <1>6, <2>3 DEF SaveReport
<1>4. CASE MonitorWrite(r)
  <2>1. mon' = [mon EXCEPT ![r] = [mon[r] EXCEPT !.pc = "done"]] BY <1>4 DEF MonitorWrite, Monitor
  <2>2. LET m == [mon[r] EXCEPT !.pc = "done"] IN
        m \in MonitorStates /\ m.pc = "done" /\ m.status = mon[r].status /\ m.report = mon[r].report /\ m.tries = mon[r].tries
    BY <1>0 DEF MonitorStates, Places
  <2>3. MonTo(r, "done", mon[r].status) /\ mon'[r].report = mon[r].report /\ mon'[r].tries = mon[r].tries
    BY <1>0, <2>1, <2>2 DEF MonTo
  <2>4. mon[r].status \in RowStatuses BY <1>0 DEF MonitorStates, Seen, RowStatuses
  <2>5. RowSet(r, mon[r].status, FALSE) BY <1>4, <2>4, RowWritten DEF MonitorWrite
  <2> QED BY <1>4, <2>3, <2>5 DEF MonitorWrite
<1>5. CASE Unmap(r) BY <1>5 DEF Unmap
<1> QED BY <1>1, <1>2, <1>3, <1>4, <1>5, <1>6 DEF MonitorStep

\* The engine's run: a callback, the end of a question, the end of the run.
LEMMA EngineFacts ==
    ASSUME Types, NEW r \in Requests, EngineStep(r) \/ Answered(r)
    PROVE  /\ \/ /\ eng[r].status = "running" /\ EngKept
                 /\ session' \in [Requests -> Sessions]
                 /\ \A q \in Requests : session'[q].closed = session[q].closed
                 /\ \A q \in Requests : q # r => session'[q] = session[q]
                 /\ writer' \in [Requests -> Writers]
                 /\ \A q \in Requests : writer'[q].closed = writer[q].closed /\ writer'[q].completed = writer[q].completed
                 /\ \A q \in Requests : q # r => writer'[q] = writer[q]
              \/ EngKept /\ SessionsKept /\ UNCHANGED writer
              \/ /\ eng[r].status \in {"running", "paused"}
                 /\ eng' \in [Requests -> Executions]
                 /\ \A q \in Requests : q # r => eng'[q] = eng[q]
                 /\ UNCHANGED <<session, writer>>
           /\ UNCHANGED <<req, rec, sessions, mon, mapped, call, lost>>
<1>0. /\ session \in [Requests -> Sessions] /\ session[r] \in Sessions
      /\ writer \in [Requests -> Writers] /\ writer[r] \in Writers
      /\ eng \in [Requests -> Executions] /\ eng[r] \in Executions
  BY DEF Types
<1>1. ASSUME Sent(r)
      PROVE  /\ writer' \in [Requests -> Writers]
             /\ \A q \in Requests : writer'[q].closed = writer[q].closed /\ writer'[q].completed = writer[q].completed
             /\ \A q \in Requests : q # r => writer'[q] = writer[q]
  <2>1. PICK n \in Nat : writer' = [writer EXCEPT ![r].sent = n]
    <3>1. writer[r].sent \in Nat /\ writer[r].sent + 1 \in Nat BY <1>0 DEF Writers
    <3> QED BY <1>1, <3>1 DEF Sent
  <2> QED BY <1>0, <2>1 DEF Writers
<1>2. ASSUME NEW answer \in BOOLEAN, EndWait(r, answer)
      PROVE  EngKept /\ SessionsKept /\ UNCHANGED writer /\ UNCHANGED <<req, rec, sessions, mon, mapped, call, lost>>
  <2>1. eng' = [eng EXCEPT ![r].waiting = FALSE] BY <1>2 DEF EndWait
  <2>2. EngKept BY <1>0, <2>1 DEF EngKept, Executions
  <2> DEFINE s == IF session[r].status = "waiting" THEN "running" ELSE session[r].status
  <2>6. s \in SessionStatuses BY <1>0 DEF Sessions, SessionStatuses
  <2>3. session' = [session EXCEPT ![r] = [session[r] EXCEPT !.status = s, !.answer = answer]]
    BY <1>2 DEF EndWait
  <2> HIDE DEF s
  <2>4. LET m == [session[r] EXCEPT !.status = s, !.answer = answer] IN
        m \in Sessions /\ m.closed = session[r].closed /\ m.failed = session[r].failed
    BY <1>0, <2>6 DEF Sessions
  <2>5. SessionsKept BY <1>0, <2>3, <2>4 DEF SessionsKept
  <2> QED BY <1>2, <2>2, <2>5 DEF EndWait
<1>3. CASE OnStepComplete(r)
  <2>1. eng' = [eng EXCEPT ![r].callbacks = @ + 1] /\ eng[r].status = "running" BY <1>3 DEF OnStepComplete, Calling
  <2>2. EngKept BY <1>0, <2>1 DEF EngKept, Executions
  <2>3. PICK b \in BOOLEAN : session' = [session EXCEPT ![r].failed = b]
    <3>1. PICK failed \in BOOLEAN : session' = [session EXCEPT ![r].failed = @ \/ failed]
      BY <1>3 DEF OnStepComplete
    <3>2. (session[r].failed \/ failed) \in BOOLEAN OBVIOUS
    <3> QED BY <3>1, <3>2, Zenon
  <2>4. /\ session' \in [Requests -> Sessions]
        /\ \A q \in Requests : session'[q].closed = session[q].closed
        /\ \A q \in Requests : q # r => session'[q] = session[q]
    BY <1>0, <2>3 DEF Sessions
  <2> QED BY <1>1, <1>3, <2>1, <2>2, <2>4 DEF OnStepComplete
<1>4. CASE AskUser(r)
  <2>1. /\ eng' = [eng EXCEPT ![r] = [eng[r] EXCEPT !.callbacks = eng[r].callbacks + 1, !.waiting = TRUE]]
        /\ session' = [session EXCEPT ![r].status = "waiting"]
        /\ eng[r].status = "running"
    BY <1>4 DEF AskUser, Calling
  <2>2. LET m == [eng[r] EXCEPT !.callbacks = eng[r].callbacks + 1, !.waiting = TRUE] IN m \in Executions /\ m.status = eng[r].status
    <3> DEFINE n == eng[r].callbacks + 1
    <3>1. n \in Nat BY <1>0 DEF Executions
    <3> HIDE DEF n
    <3>2. LET m == [eng[r] EXCEPT !.callbacks = n, !.waiting = TRUE] IN m \in Executions /\ m.status = eng[r].status
      BY <1>0, <3>1 DEF Executions
    <3> QED BY <3>2 DEF n
  <2>3. EngKept BY <1>0, <2>1, <2>2 DEF EngKept
  <2>4. /\ session' \in [Requests -> Sessions]
        /\ \A q \in Requests : session'[q].closed = session[q].closed
        /\ \A q \in Requests : q # r => session'[q] = session[q]
    BY <1>0, <2>1 DEF Sessions, SessionStatuses
  <2> QED BY <1>1, <1>4, <2>1, <2>3, <2>4 DEF AskUser
<1>5. CASE Skipped(r) \/ Answered(r)
  <2>1. session[r].answer \in BOOLEAN BY <1>0 DEF Sessions
  <2>2. EndWait(r, FALSE) \/ EndWait(r, session[r].answer) BY <1>5 DEF Skipped, Answered
  <2> QED BY <1>2, <2>1, <2>2
<1>6. CASE EngineEnds(r)
  <2>1. PICK s \in Runs : eng' = [eng EXCEPT ![r].status = s] BY <1>6 DEF EngineEnds, Runs
  <2>2. eng' \in [Requests -> Executions] /\ \A q \in Requests : q # r => eng'[q] = eng[q]
    BY <1>0, <2>1 DEF Executions
  <2> QED BY <1>6, <2>2 DEF EngineEnds
<1> QED BY <1>3, <1>4, <1>5, <1>6 DEF EngineStep

\* The first half of a call: a stop cancels a context that was live, an answer
\* and a write of a row are announced.
LEMMA StopSessionFacts ==
    ASSUME Types, NEW id \in DOMAIN sessions, StopSession(id)
    PROVE  LET r == sessions[id] IN
           /\ r \in Requests
           /\ \E c \in Contexts :
                /\ ReqTo(r, req[r].pc, req[r].id, c, req[r].outcome, req[r].status)
                /\ c = req[r].ctx \/ (req[r].ctx = "live" /\ c = "canceled")
           /\ SessionsKept
           /\ call' = [op |-> "stop", on |-> id, arg |-> "none"]
           /\ UNCHANGED <<rec, sessions, writer, eng, mon, mapped, lost>>
<1> DEFINE r == sessions[id]
<1>1. r \in Requests BY DEF Types
<1>2. /\ session' = [session EXCEPT ![r].status = "stopped"]
      /\ call' = [op |-> "stop", on |-> id, arg |-> "none"]
      /\ UNCHANGED <<rec, sessions, writer, eng, mon, mapped, lost>>
  BY DEF StopSession, Begin
<1> DEFINE c == IF session[r].cancel THEN Cancel(req[r].ctx) ELSE req[r].ctx
<1>3. req' = [req EXCEPT ![r].ctx = c] BY DEF StopSession
<1> HIDE DEF r
<1>4. req[r].ctx \in Contexts /\ req[r].pc \in PCs BY <1>1 DEF Types, HandlerRecords
<1>5. c \in Contexts /\ (c = req[r].ctx \/ (req[r].ctx = "live" /\ c = "canceled"))
  <2>1. CASE session[r].cancel BY <1>4, <2>1 DEF Cancel, Contexts
  <2>2. CASE ~session[r].cancel BY <1>4, <2>2
  <2> QED BY <2>1, <2>2
<1> HIDE DEF c
<1>6. ReqTo(r, req[r].pc, req[r].id, c, req[r].outcome, req[r].status) BY <1>1, <1>3, <1>4, <1>5, Moves
<1>7. SessionsKept BY <1>1, <1>2 DEF Types, SessionsKept, Sessions, SessionStatuses
<1> QED BY <1>1, <1>2, <1>5, <1>6, <1>7 DEF r

\* A row whose execution a call does not find.
LEMMA MissedFacts ==
    ASSUME Types, NEW r \in Requests, Missed(r)
    PROVE  /\ lost' \in [Requests -> BOOLEAN]
           /\ \A q \in Requests : lost'[q] => lost[q] \/ (q = r /\ r \notin mapped /\ ~rec[r].touched)
<1>1. PICK b \in BOOLEAN : lost' = [lost EXCEPT ![r] = b] /\ (b => lost[r] \/ (r \notin mapped /\ ~rec[r].touched))
  <2>1. (lost[r] \/ (r \notin mapped /\ ~rec[r].touched)) \in BOOLEAN OBVIOUS
  <2>2. lost' = [lost EXCEPT ![r] = (lost[r] \/ (r \notin mapped /\ ~rec[r].touched))] BY DEF Missed
  <2> QED BY <2>1, <2>2, Zenon
<1>2. lost \in [Requests -> BOOLEAN] BY DEF Types
<1> QED BY <1>1, <1>2

\* Stop of a row: the engine is told if its execution is found.
LEMMA StopPerfFacts ==
    ASSUME Types, NEW r \in Requests, StopPerf(r)
    PROVE  /\ rec[r].status \in {"running", "paused"} /\ EngKept
           /\ lost' \in [Requests -> BOOLEAN]
           /\ \A q \in Requests : lost'[q] => lost[q] \/ (q = r /\ r \notin mapped /\ ~rec[r].touched)
           /\ UNCHANGED <<req, rec, sessions, session, writer, mon, mapped, call>>
<1>1. EngKept BY StopFacts, Kept DEF StopPerf
<1>2. lost' \in [Requests -> BOOLEAN] /\ \A q \in Requests : lost'[q] => lost[q] \/ (q = r /\ r \notin mapped /\ ~rec[r].touched)
  BY MissedFacts DEF StopPerf
<1> QED BY <1>1, <1>2 DEF StopPerf

\* Pause and Resume exchange running and paused, and know the row to write.
LEMMA PauseResumeFacts ==
    ASSUME Types, NEW r \in Requests, Pause(r) \/ Resume(r)
    PROVE  /\ rec[r].status \in {"running", "paused"}
           /\ eng' \in [Requests -> Executions]
           /\ \A q \in Requests : \/ eng'[q].status = eng[q].status
                                  \/ eng[q].status \in {"running", "paused"} /\ eng'[q].status \in {"running", "paused"}
           /\ \E to \in {"running", "paused"} : call' = [op |-> "row", on |-> <<"request", r>>, arg |-> to]
           /\ lost' \in [Requests -> BOOLEAN]
           /\ \A q \in Requests : lost'[q] => lost[q] \/ (q = r /\ r \notin mapped /\ ~rec[r].touched)
           /\ UNCHANGED <<req, rec, sessions, session, writer, mon, mapped>>
<1>1. PICK from \in {"running", "paused"}, to \in {"running", "paused"} : PauseResume(r, from, to)
  BY DEF Pause, Resume
<1>2. lost' \in [Requests -> BOOLEAN] /\ \A q \in Requests : lost'[q] => lost[q] \/ (q = r /\ r \notin mapped /\ ~rec[r].touched)
  BY <1>1, MissedFacts DEF PauseResume
<1>3. call' = [op |-> "row", on |-> <<"request", r>>, arg |-> to] BY <1>1 DEF PauseResume, Begin
<1> DEFINE s == IF r \in mapped /\ eng[r].status = from THEN to ELSE eng[r].status
<1>4. eng' = [eng EXCEPT ![r].status = s] BY <1>1 DEF PauseResume
<1>5. eng[r].status \in Runs /\ to \in Runs BY DEF Types, Executions, Runs
<1>6. s \in Runs /\ (s = eng[r].status \/ (eng[r].status \in {"running", "paused"} /\ s \in {"running", "paused"}))
  <2>1. CASE r \in mapped /\ eng[r].status = from BY <1>5, <2>1
  <2>2. CASE ~(r \in mapped /\ eng[r].status = from) BY <1>5, <2>2
  <2> QED BY <2>1, <2>2
<1> HIDE DEF s
<1>7. /\ eng' \in [Requests -> Executions] /\ eng'[r].status = s
      /\ \A q \in Requests : q # r => eng'[q] = eng[q]
  BY <1>4, <1>6 DEF Types, Executions
<1> QED BY <1>1, <1>2, <1>3, <1>6, <1>7 DEF PauseResume

\* The webhook writes one row and marks it as its own.
LEMMA WebhookFacts ==
    ASSUME Types, NEW r \in Requests, NEW s \in HookStatuses, Webhook(r, s)
    PROVE  /\ rec[r].status # "none" /\ RowSet(r, s, TRUE)
           /\ rec'[r].hooked /\ rec'[r].touched
           /\ UNCHANGED <<req, sessions, session, writer, eng, mon, mapped, call, lost>>
BY DEF Webhook, HookStatuses, RowSet, Types, Rows, RowStatuses

\* The second half of a call.
LEMMA CallEndsFacts ==
    ASSUME Types, CallTypes, CallEnds
    PROVE  /\ \/ \E id : IsStream(id) /\ RowsSet(id, "stopped") /\ UNCHANGED session
              \/ SessionsKept /\ UNCHANGED rec
              \/ /\ call.op = "row" /\ call.on[2] \in Requests
                 /\ \E s \in {"running", "paused"} : RowSet(call.on[2], s, FALSE)
                 /\ UNCHANGED session
           /\ call' = NoCall
           /\ UNCHANGED <<req, sessions, writer, eng, mon, mapped, lost>>
<1>1. call' = NoCall /\ UNCHANGED <<req, sessions, writer, eng, mon, mapped, lost>>
  BY DEF CallEnds, StopRecord, SendAnswer, WriteRow, End
<1>2. CASE StopRecord
  <2>1. RowsSet(call.on, "stopped") BY <1>2, RowWritten DEF StopRecord, RowStatuses
  <2>2. IsStream(call.on) BY <1>2 DEF StopRecord, End, CallTypes
  <2> QED BY <1>1, <1>2, <2>1, <2>2 DEF StopRecord
<1>3. CASE SendAnswer
  <2>1. call.on[2] \in Requests BY <1>3 DEF SendAnswer, End, CallTypes
  <2>2. PICK b \in BOOLEAN : session' = [session EXCEPT ![call.on[2]].answer = b]
    <3>1. (session[call.on[2]].answer \/ ~session[call.on[2]].closed) \in BOOLEAN OBVIOUS
    <3>2. session' = [session EXCEPT ![call.on[2]].answer = session[call.on[2]].answer \/ ~session[call.on[2]].closed]
      BY <1>3 DEF SendAnswer
    <3> QED BY <3>1, <3>2, Zenon
  <2>3. SessionsKept BY <2>1, <2>2 DEF Types, SessionsKept, Sessions
  <2> QED BY <1>1, <1>3, <2>3 DEF SendAnswer
<1>4. CASE WriteRow
  <2>1. call.op = "row" /\ call.on[2] \in Requests /\ call.arg \in {"running", "paused"}
    BY <1>4 DEF WriteRow, End, CallTypes
  <2>2. RowSet(call.on[2], call.arg, FALSE) BY <1>4, <2>1, RowWritten DEF WriteRow, RowStatuses
  <2> QED BY <1>1, <1>4, <2>1, <2>2 DEF WriteRow
<1> QED BY <1>2, <1>3, <1>4 DEF CallEnds
-----------------------------------------------------------------------------
(* The invariant, conjunct by conjunct.                                     *)

\* All steps.
LEMMA Steps ==
    ASSUME [Next]_vars
    PROVE  \/ UNCHANGED vars
           \/ \E r \in Requests :
                \/ \E i \in ClientIds : Execute(r, <<"stream", i>>)
                \/ ExecutePerf(r) \/ CreateSession(r) \/ Submit(r) \/ (Status(r) \/ CtxDone(r)) \/ Settle(r)
                \/ CleanupSession(r) \/ UpdateExecutionStatus(r) \/ SubmitPerf(r) \/ MarkRunning(r)
                \/ Deadline(r) \/ MonitorStep(r) \/ (EngineStep(r) \/ Answered(r))
                \/ StopPerf(r) \/ (Pause(r) \/ Resume(r)) \/ \E s \in HookStatuses : Webhook(r, s)
           \/ \E id \in DOMAIN sessions : IsStream(id) /\ (StopSession(id) \/ CheckWaiting(id))
           \/ CallEnds
BY DEF Next, Handler, CallStarts, IsStream

\* The types.
LEMMA TypesStep ==
    ASSUME Types, CallTypes, Kinds, SessionMap, [Next]_vars
    PROVE  Types'
<1> USE DEF Types, ReqTo, RowSet, SessionsKept, EngKept, MonTo
<1>1. CASE UNCHANGED vars BY <1>1 DEF vars
<1>2. ASSUME NEW r \in Requests, NEW i \in ClientIds, Execute(r, <<"stream", i>>) PROVE Types' BY <1>2, ExecuteFacts
<1>3. ASSUME NEW r \in Requests, ExecutePerf(r) PROVE Types' BY <1>3, ExecutePerfFacts
<1>4. ASSUME NEW r \in Requests, CreateSession(r) PROVE Types'
  <2>1. sessions' \in [DOMAIN sessions' -> Requests]
    <3> DEFINE D == DOMAIN sessions \cup {SessionID(r)}
    <3>1. CASE UNCHANGED sessions BY <3>1
    <3>2. CASE sessions' = [s \in D |-> IF s = SessionID(r) THEN r ELSE sessions[s]]
      <4>1. DOMAIN sessions' = D BY <3>2
      <4>2. \A s \in D : sessions'[s] \in Requests BY <3>2
      <4> QED BY <3>2, <4>1, <4>2
    <3> QED BY <1>4, <3>1, <3>2, CreateSessionFacts
  <2> QED BY <1>4, <2>1, CreateSessionFacts
<1>5. ASSUME NEW r \in Requests, Submit(r) PROVE Types' BY <1>5, SubmitFacts
<1>6. ASSUME NEW r \in Requests, Status(r) \/ CtxDone(r) PROVE Types' BY <1>6, WaitFacts
<1>7. ASSUME NEW r \in Requests, Settle(r) PROVE Types' BY <1>7, SettleFacts
<1>8. ASSUME NEW r \in Requests, CleanupSession(r) PROVE Types'
  <2>1. sessions' = [x \in DOMAIN sessions \ {SessionID(r)} |-> sessions[x]] BY <1>8, CleanupFacts
  <2>2. sessions' \in [DOMAIN sessions' -> Requests] BY <2>1
  <2> QED BY <1>8, <2>2, CleanupFacts
<1>9. ASSUME NEW r \in Requests, UpdateExecutionStatus(r) PROVE Types' BY <1>9, UpdateFacts DEF RowsSet
<1>10. ASSUME NEW r \in Requests, SubmitPerf(r) PROVE Types' BY <1>10, SubmitPerfFacts
<1>11. ASSUME NEW r \in Requests, MarkRunning(r) PROVE Types' BY <1>11, MarkFacts
<1>12. ASSUME NEW r \in Requests, Deadline(r) PROVE Types' BY <1>12, DeadlineFacts
<1>13. ASSUME NEW r \in Requests, MonitorStep(r) PROVE Types' BY <1>13, MonitorFacts
<1>14. ASSUME NEW r \in Requests, EngineStep(r) \/ Answered(r) PROVE Types' BY <1>14, EngineFacts
<1>15. ASSUME NEW r \in Requests, StopPerf(r) PROVE Types' BY <1>15, StopPerfFacts
<1>16. ASSUME NEW r \in Requests, Pause(r) \/ Resume(r) PROVE Types' BY <1>16, PauseResumeFacts
<1>17. ASSUME NEW r \in Requests, NEW s \in HookStatuses, Webhook(r, s) PROVE Types' BY <1>17, WebhookFacts
<1>18. ASSUME NEW id \in DOMAIN sessions, StopSession(id) PROVE Types' BY <1>18, StopSessionFacts
<1>19. ASSUME NEW id \in DOMAIN sessions, CheckWaiting(id) PROVE Types' BY <1>19 DEF CheckWaiting
<1>20. CASE CallEnds BY <1>20, CallEndsFacts DEF RowsSet
<1> QED BY <1>1, <1>2, <1>3, <1>4, <1>5, <1>6, <1>7, <1>8, <1>9, <1>10, <1>11, <1>12, <1>13, <1>14, <1>15,
           <1>16, <1>17, <1>18, <1>19, <1>20, Steps

\* The call in flight.
LEMMA CallTypesStep ==
    ASSUME Types, CallTypes, Kinds, SessionMap, [Next]_vars
    PROVE  CallTypes'
<1> USE DEF CallTypes
<1>0. ASSUME UNCHANGED call PROVE CallTypes' BY <1>0
<1>1. ASSUME NEW id \in DOMAIN sessions, IsStream(id), StopSession(id) PROVE CallTypes'
  BY <1>1 DEF StopSession, Begin
<1>2. ASSUME NEW id \in DOMAIN sessions, CheckWaiting(id) PROVE CallTypes'
  BY <1>2 DEF CheckWaiting, Begin, Types
<1>3. ASSUME NEW r \in Requests, Pause(r) \/ Resume(r) PROVE CallTypes' BY <1>3, PauseResumeFacts
<1>4. CASE CallEnds
  <2>1. call' = NoCall BY <1>4, CallEndsFacts
  <2> QED BY <2>1 DEF NoCall
<1>5. ASSUME NEW r \in Requests, MonitorStep(r) PROVE UNCHANGED call BY <1>5, MonitorFacts
<1>6. ASSUME NEW r \in Requests, EngineStep(r) \/ Answered(r) PROVE UNCHANGED call BY <1>6, EngineFacts
<1> QED BY <1>0, <1>1, <1>2, <1>3, <1>4, <1>5, <1>6, Steps
        DEF vars, Execute, ExecutePerf, CreateSession, Submit, Status, CtxDone, Settle, CleanupSession,
            UpdateExecutionStatus, SubmitPerf, MarkRunning, Deadline, StopPerf, Webhook

\* A request that has an id keeps its kind and its id.
LEMMA KindsMove ==
    ASSUME Types, Kinds, NEW r \in Requests, req[r].pc # "idle", req'[r].pc # "idle",
           req'[r].id = req[r].id, req'[r].kind = req[r].kind, \A q \in Requests : q # r => req'[q] = req[q],
           req'[r].pc \in {"create", "wait", "settle", "cleanup", "update"} => Stream(r),
           req'[r].pc = "mark" => req[r].kind = "perf",
           \A q \in Requests : req[q].pc = "idle" => rec'[q].status = "none",
           call' = call \/ call'.op # "row"
    PROVE  Kinds'
<1> USE DEF Kinds, Stream
<1>1. ASSUME NEW q \in Requests, q # r
      PROVE  /\ req'[q].pc \in {"create", "wait", "settle", "cleanup", "update"} => Stream(q)'
             /\ req'[q].pc = "mark" => req'[q].kind = "perf"
             /\ req'[q].pc = "idle" => req'[q].id = <<"none", 0>> /\ rec'[q].status = "none" /\ req'[q].ctx = "live"
             /\ req'[q].pc = "idle" => ~(call'.op = "row" /\ call'.on[2] = q)
             /\ req'[q].pc # "idle" => req'[q].kind # "none"
             /\ req'[q].pc # "idle" /\ Stream(q)' => IsStream(req'[q].id)
             /\ req'[q].pc # "idle" /\ req'[q].kind = "perf" => req'[q].id = <<"exec", q>>
  BY <1>1
<1>2. /\ req'[r].kind # "none" /\ (Stream(r)' => IsStream(req'[r].id))
      /\ req'[r].kind = "perf" => req'[r].id = <<"exec", r>>
      /\ req'[r].pc # "idle"
      /\ req'[r].pc \in {"create", "wait", "settle", "cleanup", "update"} => Stream(r)'
      /\ req'[r].pc = "mark" => req'[r].kind = "perf"
  OBVIOUS
<1> QED BY <1>1, <1>2

\* The kinds and the ids.
LEMMA KindsStep ==
    ASSUME Types, CallTypes, Kinds, Monitors, SessionMap, [Next]_vars
    PROVE  Kinds'
<1>0. ASSUME UNCHANGED <<req, rec, call>> PROVE Kinds' BY <1>0 DEF Kinds, Stream
<1>1. CASE UNCHANGED vars BY <1>0, <1>1 DEF vars
<1>2. ASSUME NEW r \in Requests, NEW i \in ClientIds, Execute(r, <<"stream", i>>) PROVE Kinds'
  <2>1. IsStream(<<"stream", i>>) BY DEF IsStream
  <2> QED BY <1>2, <2>1, ExecuteFacts DEF Kinds, Stream, ReqTo, Becomes, RowSet
<1>3. ASSUME NEW r \in Requests, ExecutePerf(r) PROVE Kinds' BY <1>3, ExecutePerfFacts DEF Kinds, Stream, ReqTo, Becomes, RowSet
<1>a. ASSUME NEW r \in Requests, req[r].pc # "idle", \A q \in Requests : q # r => rec'[q] = rec[q]
      PROVE  \A q \in Requests : req[q].pc = "idle" => rec'[q].status = "none"
  BY <1>a DEF Kinds
<1>b. ASSUME UNCHANGED rec PROVE \A q \in Requests : req[q].pc = "idle" => rec'[q].status = "none"
  BY <1>b DEF Kinds
<1>4. ASSUME NEW r \in Requests, CreateSession(r) PROVE Kinds'
  <2>1. req[r].pc = "create" /\ UNCHANGED <<rec, call>> BY <1>4, CreateSessionFacts
  <2>2. PICK p, o : p \in {"update", "submit"} /\ ReqTo(r, p, req[r].id, req[r].ctx, o, req[r].status)
    <3>1. \/ ReqTo(r, "update", req[r].id, req[r].ctx, "refused", req[r].status)
          \/ ReqTo(r, "submit", req[r].id, req[r].ctx, req[r].outcome, req[r].status)
      BY <1>4, CreateSessionFacts
    <3> QED BY <3>1
  <2>3. Stream(r) BY <2>1 DEF Kinds
  <2> QED BY <1>b, <2>1, <2>2, <2>3, KindsMove DEF ReqTo, Becomes
<1>5. ASSUME NEW r \in Requests, Submit(r) PROVE Kinds'
  <2>1. req[r].pc = "submit" /\ Stream(r) /\ UNCHANGED <<rec, call>> BY <1>5, SubmitFacts
  <2>2. PICK p, o : p \in {"wait", "settle"} /\ ReqTo(r, p, req[r].id, req[r].ctx, o, req[r].status) BY <1>5, SubmitFacts
  <2> QED BY <1>b, <2>1, <2>2, KindsMove DEF ReqTo, Becomes
<1>6. ASSUME NEW r \in Requests, Status(r) \/ CtxDone(r) PROVE Kinds'
  <2>1. req[r].pc = "wait" /\ UNCHANGED <<rec, call>> BY <1>6, WaitFacts
  <2>2. PICK o : ReqTo(r, "settle", req[r].id, req[r].ctx, o, req[r].status) BY <1>6, WaitFacts
  <2>3. Stream(r) BY <2>1 DEF Kinds
  <2>4. \A q \in Requests : req[q].pc = "idle" => rec'[q].status = "none" BY <1>b, <2>1
  <2> QED BY <2>1, <2>2, <2>3, <2>4, KindsMove DEF ReqTo, Becomes
<1>7. ASSUME NEW r \in Requests, Settle(r) PROVE Kinds'
  <2>1. req[r].pc = "settle" /\ UNCHANGED <<rec, call>> BY <1>7, SettleFacts
  <2>2. PICK s : ReqTo(r, "cleanup", req[r].id, req[r].ctx, req[r].outcome, s) BY <1>7, SettleFacts
  <2>3. Stream(r) BY <2>1 DEF Kinds
  <2> QED BY <1>b, <2>1, <2>2, <2>3, KindsMove DEF ReqTo, Becomes
<1>8. ASSUME NEW r \in Requests, CleanupSession(r) PROVE Kinds'
  <2>1. req[r].pc = "cleanup" /\ Stream(r) /\ UNCHANGED <<rec, call>> BY <1>8, CleanupFacts
  <2>2. PICK c : ReqTo(r, "update", req[r].id, c, req[r].outcome, req[r].status) BY <1>8, CleanupFacts
  <2>3. \A q \in Requests : req[q].pc = "idle" => rec'[q].status = "none" BY <1>b, <2>1
  <2> QED BY <2>1, <2>2, <2>3, KindsMove DEF ReqTo, Becomes
<1>9. ASSUME NEW r \in Requests, UpdateExecutionStatus(r) PROVE Kinds'
  <2>1. \A q \in Requests : rec[q].status = "none" => rec'[q].status = "none" BY <1>9, UpdateFacts DEF RowsSet
  <2>2. \A q \in Requests : req[q].pc = "idle" => rec'[q].status = "none" BY <2>1 DEF Kinds
  <2> QED BY <1>9, <2>2, KindsMove, UpdateFacts DEF ReqTo, Becomes
<1>10. ASSUME NEW r \in Requests, SubmitPerf(r) PROVE Kinds'
  <2>1. req[r].pc = "submit" /\ req[r].kind = "perf" /\ UNCHANGED call BY <1>10, SubmitPerfFacts
  <2>2. PICK p \in {"mark", "done"} : ReqTo(r, p, req[r].id, req[r].ctx, req[r].outcome, req[r].status)
    BY <1>10, SubmitPerfFacts
  <2>3. \A q \in Requests : q # r => rec'[q] = rec[q] BY <1>10, SubmitPerfFacts DEF RowSet
  <2>4. \A q \in Requests : req[q].pc = "idle" => rec'[q].status = "none" BY <1>a, <2>1, <2>3
  <2> QED BY <2>1, <2>2, <2>4, KindsMove DEF ReqTo, Becomes
<1>11. ASSUME NEW r \in Requests, MarkRunning(r) PROVE Kinds'
  <2>1. \A q \in Requests : q # r => rec'[q] = rec[q] BY <1>11, MarkFacts DEF RowSet
  <2>2. \A q \in Requests : req[q].pc = "idle" => rec'[q].status = "none" BY <1>11, <1>a, <2>1, MarkFacts
  <2>3. /\ req[r].pc = "mark" /\ call' = call
        /\ ReqTo(r, "done", req[r].id, req[r].ctx, req[r].outcome, req[r].status)
    BY <1>11, MarkFacts
  <2> QED BY <2>2, <2>3, KindsMove DEF ReqTo, Becomes
<1>12. ASSUME NEW r \in Requests, Deadline(r) PROVE Kinds'
  <2>1. Stream(r) BY <1>12, DeadlineFacts DEF Kinds
  <2> QED BY <1>12, <1>b, <2>1, KindsMove, DeadlineFacts DEF ReqTo, Becomes
<1>13. ASSUME NEW r \in Requests, MonitorStep(r) PROVE Kinds'
  <2>1. /\ UNCHANGED <<req, call>>
        /\ UNCHANGED rec \/ (mon[r].pc # "none" /\ \A q \in Requests : q # r => rec'[q] = rec[q])
    BY <1>13, MonitorFacts DEF RowSet
  <2>2. \A q \in Requests : req[q].pc = "idle" => rec'[q].status = "none" BY <1>a, <1>b, <2>1 DEF Monitors, MonitorOf
  <2> QED BY <2>1, <2>2 DEF Kinds, Stream
<1>14. ASSUME NEW r \in Requests, EngineStep(r) \/ Answered(r) PROVE Kinds' BY <1>0, <1>14, EngineFacts
<1>15. ASSUME NEW r \in Requests, StopPerf(r) PROVE Kinds' BY <1>0, <1>15, StopPerfFacts
<1>16. ASSUME NEW r \in Requests, Pause(r) \/ Resume(r) PROVE Kinds' BY <1>16, PauseResumeFacts DEF Kinds, Stream
<1>17. ASSUME NEW r \in Requests, NEW s \in HookStatuses, Webhook(r, s) PROVE Kinds'
  <2>1. UNCHANGED <<req, call>> /\ rec[r].status # "none" /\ \A q \in Requests : q # r => rec'[q] = rec[q]
    BY <1>17, WebhookFacts DEF RowSet
  <2>2. req[r].pc # "idle" BY <2>1 DEF Kinds
  <2>3. \A q \in Requests : req[q].pc = "idle" => rec'[q].status = "none" BY <1>a, <2>1, <2>2
  <2> QED BY <2>1, <2>3 DEF Kinds, Stream
<1>18. ASSUME NEW id \in DOMAIN sessions, StopSession(id) PROVE Kinds'
  <2> DEFINE r == sessions[id]
  <2>1. r \in Requests /\ req[r].pc \in Live BY DEF Types, SessionMap
  <2>2. PICK c : ReqTo(r, req[r].pc, req[r].id, c, req[r].outcome, req[r].status) BY <1>18, StopSessionFacts
  <2>3. UNCHANGED rec /\ call'.op # "row" BY <1>18, StopSessionFacts
  <2> HIDE DEF r
  <2>4. Stream(r) /\ \A q \in Requests : req[q].pc = "idle" => rec'[q].status = "none" BY <2>1, <2>3 DEF Kinds, SessionMap, r
  <2> QED BY <2>1, <2>2, <2>3, <2>4, KindsMove DEF Live, ReqTo, Becomes
<1>19. ASSUME NEW id \in DOMAIN sessions, CheckWaiting(id) PROVE Kinds' BY <1>19 DEF CheckWaiting, Begin, Kinds, Stream
<1>20. CASE CallEnds
  <2>1. UNCHANGED req /\ call' = NoCall BY <1>20, CallEndsFacts
  <2>2. \A q \in Requests : req[q].pc = "idle" => rec'[q].status = "none"
    BY <1>20, CallEndsFacts DEF RowSet, RowsSet, Kinds
  <2> QED BY <2>1, <2>2 DEF NoCall, Kinds, Stream
<1> QED BY <1>1, <1>2, <1>3, <1>4, <1>5, <1>6, <1>7, <1>8, <1>9, <1>10, <1>11, <1>12, <1>13, <1>14, <1>15,
           <1>16, <1>17, <1>18, <1>19, <1>20, Steps

\* What a request has got from the engine.
LEMMA OutcomesStep ==
    ASSUME Types, CallTypes, Kinds, Outcomes, SessionMap, [Next]_vars
    PROVE  Outcomes'
<1> DEFINE Same(q) == /\ req'[q].pc = req[q].pc /\ req'[q].outcome = req[q].outcome /\ req'[q].status = req[q].status
                      /\ req'[q].ctx = req[q].ctx \/ req[q].ctx = "live"
                      /\ eng'[q].status = eng[q].status /\ session'[q].failed = session[q].failed
                      /\ writer'[q].completed = writer[q].completed
<1>s. ASSUME NEW q \in Requests, Same(q) PROVE Outcome(q)' BY <1>s DEF Outcomes, Outcome
<1>a. ASSUME \A q \in Requests : Same(q) PROVE Outcomes' BY <1>a, <1>s DEF Outcomes
<1>b. ASSUME NEW r \in Requests, Outcome(r)', \A q \in Requests : q # r => Same(q) PROVE Outcomes'
  BY <1>b, <1>s DEF Outcomes
<1> HIDE DEF Same
<1>1. CASE UNCHANGED vars BY <1>1, <1>a DEF vars, Same
<1>2. ASSUME NEW r \in Requests, NEW i \in ClientIds, Execute(r, <<"stream", i>>) PROVE Outcomes'
  <2>1. Outcome(r)' BY <1>2, ExecuteFacts DEF ReqTo, Becomes, Outcomes, Outcome
  <2>2. \A q \in Requests : q # r => Same(q) BY <1>2, ExecuteFacts DEF ReqTo, Same
  <2> QED BY <1>b, <2>1, <2>2
<1>3. ASSUME NEW r \in Requests, ExecutePerf(r) PROVE Outcomes'
  <2>1. Outcome(r)' BY <1>3, ExecutePerfFacts DEF ReqTo, Becomes, Outcomes, Outcome
  <2>2. \A q \in Requests : q # r => Same(q) BY <1>3, ExecutePerfFacts DEF ReqTo, Same
  <2> QED BY <1>b, <2>1, <2>2
<1>4. ASSUME NEW r \in Requests, CreateSession(r) PROVE Outcomes'
  <2>0. /\ req[r].pc = "create" /\ UNCHANGED <<eng, writer>> /\ session'[r].failed = session[r].failed
        /\ \A q \in Requests : q # r => req'[q] = req[q] /\ session'[q].failed = session[q].failed
        /\ \/ req'[r].pc = "update" /\ req'[r].outcome = "refused" /\ req'[r].status = req[r].status
           \/ req'[r].pc = "submit" /\ req'[r].outcome = req[r].outcome /\ req'[r].status = req[r].status
    BY <1>4, CreateSessionFacts DEF ReqTo, Becomes, SessionsKept
  <2>1. Outcome(r)' BY <2>0 DEF Outcomes, Outcome
  <2>2. \A q \in Requests : q # r => Same(q) BY <2>0 DEF Same
  <2> QED BY <1>b, <2>1, <2>2
<1>5. ASSUME NEW r \in Requests, Submit(r) PROVE Outcomes'
  <2>0. /\ req[r].pc = "submit" /\ UNCHANGED writer
        /\ \A q \in Requests : q # r => req'[q] = req[q] /\ eng'[q] = eng[q]
        /\ \A q \in Requests : session'[q].failed = session[q].failed
        /\ req'[r].status = req[r].status
        /\ \/ req'[r].pc = "wait" /\ req'[r].outcome = req[r].outcome
           \/ req'[r].pc = "settle" /\ req'[r].outcome = "error" /\ UNCHANGED eng
    BY <1>5, SubmitFacts DEF ReqTo, Becomes, SessionsKept
  <2>1. Outcome(r)' BY <2>0 DEF Outcomes, Outcome
  <2>2. \A q \in Requests : q # r => Same(q) BY <2>0 DEF Same
  <2> QED BY <1>b, <2>1, <2>2
<1>6. ASSUME NEW r \in Requests, Status(r) \/ CtxDone(r) PROVE Outcomes'
  <2>0. /\ req[r].pc = "wait" /\ req'[r].pc = "settle" /\ UNCHANGED <<session, writer>>
        /\ \A q \in Requests : q # r => req'[q] = req[q]
        /\ \A q \in Requests : eng'[q].status = eng[q].status
        /\ req'[r].outcome \in {"nil", "error", "ctx"} /\ req'[r].status = req[r].status
        /\ req'[r].outcome = "nil" => eng[r].status = "completed"
        /\ req'[r].outcome = "error" => eng[r].status \in {"completed", "failed", "aborted"}
    BY <1>6, WaitFacts DEF ReqTo, Becomes, EngKept
  <2>1. Outcome(r)' BY <2>0 DEF Outcomes, Outcome
  <2>2. \A q \in Requests : q # r => Same(q) BY <2>0 DEF Same
  <2> QED BY <1>b, <2>1, <2>2
<1>7. ASSUME NEW r \in Requests, Settle(r) PROVE Outcomes'
  <2>0. /\ req[r].pc = "settle" /\ req'[r].pc = "cleanup" /\ UNCHANGED eng
        /\ \A q \in Requests : q # r => req'[q] = req[q] /\ writer'[q] = writer[q]
        /\ \A q \in Requests : session'[q].failed = session[q].failed
        /\ req'[r].outcome = req[r].outcome /\ req'[r].ctx = req[r].ctx
        /\ req'[r].status = "success" => req'[r].status = req[r].status \/ (req[r].outcome = "nil" /\ ~session[r].failed)
        /\ req'[r].status = "timeout" => req'[r].status = req[r].status \/ req[r].ctx = "deadline"
    BY <1>7, SettleFacts DEF ReqTo, Becomes, SessionsKept
  <2>1. Outcome(r)' BY <2>0 DEF Outcomes, Outcome
  <2>2. \A q \in Requests : q # r => Same(q) BY <2>0 DEF Same
  <2> QED BY <1>b, <2>1, <2>2
<1>8. ASSUME NEW r \in Requests, CleanupSession(r) PROVE Outcomes'
  <2>0. /\ req[r].pc = "cleanup" /\ req'[r].pc = "update" /\ UNCHANGED eng
        /\ \A q \in Requests : q # r => req'[q] = req[q] /\ writer'[q] = writer[q] /\ session'[q] = session[q]
        /\ session'[r].failed = session[r].failed /\ writer'[r].completed = writer[r].completed
        /\ req'[r].outcome = req[r].outcome /\ req'[r].status = req[r].status
        /\ req'[r].ctx = req[r].ctx \/ req[r].ctx = "live"
    <3>1. PICK c \in Contexts : /\ ReqTo(r, "update", req[r].id, c, req[r].outcome, req[r].status)
                                /\ c = req[r].ctx \/ (req[r].ctx = "live" /\ c = "canceled")
      BY <1>8, CleanupFacts
    <3>2. /\ req'[r].pc = "update" /\ req'[r].outcome = req[r].outcome /\ req'[r].status = req[r].status
          /\ req'[r].ctx = req[r].ctx \/ req[r].ctx = "live"
          /\ \A q \in Requests : q # r => req'[q] = req[q]
      BY <3>1 DEF ReqTo, Becomes
    <3> QED BY <1>8, <3>2, CleanupFacts
  <2>1. Outcome(r)' BY <2>0 DEF Outcomes, Outcome
  <2>2. \A q \in Requests : q # r => Same(q) BY <2>0 DEF Same
  <2> QED BY <1>b, <2>1, <2>2
<1>9. ASSUME NEW r \in Requests, UpdateExecutionStatus(r) \/ MarkRunning(r) PROVE Outcomes'
  <2>0. /\ req[r].pc \in {"update", "mark"} /\ req'[r].pc = "done" /\ UNCHANGED <<eng, session, writer>>
        /\ \A q \in Requests : q # r => req'[q] = req[q]
        /\ req'[r].outcome = req[r].outcome /\ req'[r].status = req[r].status /\ req'[r].ctx = req[r].ctx
    BY <1>9, UpdateFacts, MarkFacts DEF ReqTo, Becomes
  <2>1. Outcome(r)' BY <2>0 DEF Outcomes, Outcome
  <2>2. \A q \in Requests : q # r => Same(q) BY <2>0 DEF Same
  <2> QED BY <1>b, <2>1, <2>2
<1>10. ASSUME NEW r \in Requests, SubmitPerf(r) PROVE Outcomes'
  <2>0. /\ req[r].pc = "submit" /\ req'[r].pc \in {"mark", "done"} /\ UNCHANGED <<session, writer>>
        /\ \A q \in Requests : q # r => req'[q] = req[q] /\ eng'[q] = eng[q]
        /\ req'[r].outcome = req[r].outcome /\ req'[r].status = req[r].status
    BY <1>10, SubmitPerfFacts DEF ReqTo, Becomes
  <2>1. Outcome(r)' BY <2>0 DEF Outcomes, Outcome
  <2>2. \A q \in Requests : q # r => Same(q) BY <2>0 DEF Same
  <2> QED BY <1>b, <2>1, <2>2
<1>12. ASSUME NEW r \in Requests, Deadline(r) PROVE Outcomes'
  <2>1. \A q \in Requests : Same(q) BY <1>12, DeadlineFacts DEF ReqTo, Becomes, Same
  <2> QED BY <1>a, <2>1
<1>13. ASSUME NEW r \in Requests, MonitorStep(r) PROVE Outcomes' BY <1>13, <1>a, MonitorFacts DEF Same
<1>14. ASSUME NEW r \in Requests, EngineStep(r) \/ Answered(r) PROVE Outcomes'
  <2>1. UNCHANGED req BY <1>14, EngineFacts
  <2>2. \A q \in Requests : q # r => Same(q) BY <1>14, EngineFacts DEF Same, EngKept, SessionsKept
  <2>3. \/ Same(r)
        \/ eng[r].status \in {"running", "paused"} /\ writer'[r].completed = writer[r].completed
    BY <1>14, EngineFacts DEF Same, EngKept, SessionsKept
  <2>4. Outcome(r)' BY <1>s, <2>1, <2>3 DEF Outcomes, Outcome
  <2> QED BY <1>b, <2>2, <2>4
<1>15. ASSUME NEW r \in Requests, StopPerf(r) PROVE Outcomes' BY <1>15, <1>a, StopPerfFacts DEF Same, EngKept
<1>16. ASSUME NEW r \in Requests, Pause(r) \/ Resume(r) PROVE Outcomes'
  <2>1. /\ UNCHANGED <<req, session, writer>>
        /\ \A q \in Requests : \/ eng'[q].status = eng[q].status
                               \/ eng[q].status \in {"running", "paused"} /\ eng'[q].status \in {"running", "paused"}
    BY <1>16, PauseResumeFacts
  <2> QED BY <2>1 DEF Outcomes, Outcome
<1>17. ASSUME NEW r \in Requests, NEW s \in HookStatuses, Webhook(r, s) PROVE Outcomes'
  BY <1>17, <1>a, WebhookFacts DEF Same
<1>18. ASSUME NEW id \in DOMAIN sessions, StopSession(id) PROVE Outcomes'
  <2>1. \A q \in Requests : Same(q) BY <1>18, StopSessionFacts DEF ReqTo, Becomes, Same, SessionsKept
  <2> QED BY <1>a, <2>1
<1>19. ASSUME NEW id \in DOMAIN sessions, CheckWaiting(id) PROVE Outcomes' BY <1>19, <1>a DEF CheckWaiting, Same
<1>20. CASE CallEnds
  <2>1. \A q \in Requests : Same(q) BY <1>20, CallEndsFacts DEF Same, SessionsKept
  <2> QED BY <1>a, <2>1
<1> QED BY <1>1, <1>2, <1>3, <1>4, <1>5, <1>6, <1>7, <1>8, <1>9, <1>10, <1>12, <1>13, <1>14, <1>15,
           <1>16, <1>17, <1>18, <1>19, <1>20, Steps

\* What stays of a request, whatever step is taken: its kind, its id once it
\* has one, the end of its context, its outcome, the end of its run.
Stays(q) ==
    /\ req'[q].pc \in {"idle", "create", "submit"} => req[q].pc \in {"idle", "create", "submit"}
    /\ req'[q].kind = req[q].kind
    /\ req[q].pc # "idle" => req'[q].pc # "idle" /\ req'[q].id = req[q].id
    /\ req[q].ctx # "live" => req'[q].ctx = req[q].ctx
    /\ req[q].outcome \in {"nil", "error", "ctx"} => req'[q].outcome = req[q].outcome
    /\ eng[q].status = "completed" => eng'[q].status = "completed" /\ session'[q].failed = session[q].failed
    /\ eng[q].status = "none" /\ eng'[q].status # "none" =>
          req[q].pc = "submit" /\ (req[q].kind = "perf" => mon'[q].pc = "poll")

\* Every step leaves so much of every request.
LEMMA StaysStep ==
    ASSUME Types, CallTypes, Kinds, Outcomes, SessionMap, [Next]_vars
    PROVE  \A q \in Requests : Stays(q)
<1> DEFINE All == \A q \in Requests : Stays(q)
<1> SUFFICES All OBVIOUS
<1>a. ASSUME UNCHANGED <<req, eng, session>> PROVE All BY <1>a DEF Stays
<1>b. ASSUME UNCHANGED req, EngKept, SessionsKept PROVE All BY <1>b DEF Stays, EngKept, SessionsKept
<1>c. ASSUME NEW r \in Requests, NEW p, NEW i, NEW c, NEW o, NEW s, ReqTo(r, p, i, c, o, s), EngKept, SessionsKept,
             p \in {"idle", "create", "submit"} => req[r].pc \in {"idle", "create", "submit"},
             req[r].pc # "idle" => p # "idle" /\ i = req[r].id,
             req[r].ctx # "live" => c = req[r].ctx,
             req[r].outcome \in {"nil", "error", "ctx"} => o = req[r].outcome
      PROVE  All
  BY <1>c DEF Stays, ReqTo, Becomes, EngKept, SessionsKept
<1> HIDE DEF All
<1>1. CASE UNCHANGED vars BY <1>1, <1>a DEF vars
<1>2. ASSUME NEW r \in Requests, NEW i \in ClientIds, Execute(r, <<"stream", i>>) PROVE All
  <2>1. req[r].pc = "idle" /\ EngKept /\ SessionsKept BY <1>2, ExecuteFacts, Kept
  <2>2. PICK p \in {"create", "done"} : ReqTo(r, p, <<"stream", i>>, req[r].ctx, req[r].outcome, req[r].status)
    BY <1>2, ExecuteFacts
  <2> QED BY <1>c, <2>1, <2>2
<1>3. ASSUME NEW r \in Requests, ExecutePerf(r) PROVE All
  <2>1. req[r].pc = "idle" /\ EngKept /\ SessionsKept BY <1>3, ExecutePerfFacts, Kept
  <2>2. PICK p \in {"submit", "done"} : ReqTo(r, p, <<"exec", r>>, req[r].ctx, req[r].outcome, req[r].status)
    BY <1>3, ExecutePerfFacts
  <2> QED BY <1>c, <2>1, <2>2
<1>4. ASSUME NEW r \in Requests, CreateSession(r) PROVE All
  <2>1. req[r].pc = "create" /\ EngKept /\ SessionsKept BY <1>4, CreateSessionFacts, Kept
  <2>2. PICK p, o : p \in {"update", "submit"} /\ ReqTo(r, p, req[r].id, req[r].ctx, o, req[r].status)
    <3>1. \/ ReqTo(r, "update", req[r].id, req[r].ctx, "refused", req[r].status)
          \/ ReqTo(r, "submit", req[r].id, req[r].ctx, req[r].outcome, req[r].status)
      BY <1>4, CreateSessionFacts
    <3> QED BY <3>1
  <2>3. req[r].outcome = "none" BY <2>1 DEF Outcomes, Outcome
  <2> QED BY <1>c, <2>1, <2>2, <2>3
<1>5. ASSUME NEW r \in Requests, Submit(r) PROVE All
  <2>1. req[r].pc = "submit" /\ SessionsKept /\ req[r].kind # "perf" BY <1>5, SubmitFacts DEF Stream
  <2>2. req[r].outcome = "none" /\ eng[r].status = "none" BY <2>1 DEF Outcomes, Outcome
  <2>3. \A q \in Requests : q # r => eng'[q] = eng[q] BY <1>5, SubmitFacts
  <2>4. PICK p, o : p \in {"wait", "settle"} /\ ReqTo(r, p, req[r].id, req[r].ctx, o, req[r].status) BY <1>5, SubmitFacts
  <2>5. ASSUME NEW q \in Requests PROVE Stays(q)
    <3>1. CASE q = r BY <2>1, <2>2, <2>4, <3>1 DEF Stays, ReqTo, Becomes
    <3>2. CASE q # r BY <2>1, <2>3, <2>4, <3>2 DEF Stays, ReqTo, SessionsKept
    <3> QED BY <3>1, <3>2
  <2> QED BY <2>5 DEF All
<1>6. ASSUME NEW r \in Requests, Status(r) \/ CtxDone(r) PROVE All
  <2>1. req[r].pc = "wait" /\ EngKept /\ SessionsKept BY <1>6, WaitFacts, Kept
  <2>2. PICK o : ReqTo(r, "settle", req[r].id, req[r].ctx, o, req[r].status) BY <1>6, WaitFacts
  <2>3. req[r].outcome = "none" BY <2>1 DEF Outcomes, Outcome
  <2> QED BY <1>c, <2>1, <2>2, <2>3
<1>7. ASSUME NEW r \in Requests, Settle(r) PROVE All
  <2>1. req[r].pc = "settle" /\ EngKept /\ SessionsKept BY <1>7, SettleFacts, Kept
  <2>2. PICK s : ReqTo(r, "cleanup", req[r].id, req[r].ctx, req[r].outcome, s) BY <1>7, SettleFacts
  <2> QED BY <1>c, <2>1, <2>2
<1>8. ASSUME NEW r \in Requests, CleanupSession(r) PROVE All
  <2>1. /\ UNCHANGED eng /\ session'[r].failed = session[r].failed
        /\ \A q \in Requests : q # r => session'[q] = session[q]
    BY <1>8, CleanupFacts
  <2>2. PICK c \in Contexts :
                 /\ ReqTo(r, "update", req[r].id, c, req[r].outcome, req[r].status)
                 /\ c = req[r].ctx \/ (req[r].ctx = "live" /\ c = "canceled")
    BY <1>8, CleanupFacts
  <2>3. ASSUME NEW q \in Requests PROVE Stays(q)
    <3>1. CASE q = r BY <2>1, <2>2, <3>1 DEF Stays, ReqTo, Becomes
    <3>2. CASE q # r BY <2>1, <2>2, <3>2 DEF Stays, ReqTo
    <3> QED BY <3>1, <3>2
  <2> QED BY <2>3 DEF All
<1>9. ASSUME NEW r \in Requests, UpdateExecutionStatus(r) \/ MarkRunning(r) PROVE All
  <2>1. /\ EngKept /\ SessionsKept
        /\ ReqTo(r, "done", req[r].id, req[r].ctx, req[r].outcome, req[r].status)
    BY <1>9, UpdateFacts, MarkFacts, Kept
  <2> QED BY <1>c, <2>1
<1>10. ASSUME NEW r \in Requests, SubmitPerf(r) PROVE All
  <2>1. req[r].pc = "submit" /\ UNCHANGED session BY <1>10, SubmitPerfFacts
  <2>2. eng[r].status = "none" BY <2>1 DEF Outcomes, Outcome
  <2>3. /\ \A q \in Requests : q # r => eng'[q] = eng[q]
        /\ eng' = eng \/ mon'[r].pc = "poll"
    BY <1>10, SubmitPerfFacts
  <2>4. PICK p \in {"mark", "done"} : ReqTo(r, p, req[r].id, req[r].ctx, req[r].outcome, req[r].status)
    BY <1>10, SubmitPerfFacts
  <2>5. ASSUME NEW q \in Requests PROVE Stays(q)
    <3>1. CASE q = r BY <2>1, <2>2, <2>3, <2>4, <3>1 DEF Stays, ReqTo, Becomes
    <3>2. CASE q # r BY <2>1, <2>3, <2>4, <3>2 DEF Stays, ReqTo
    <3> QED BY <3>1, <3>2
  <2> QED BY <2>5 DEF All
<1>12. ASSUME NEW r \in Requests, Deadline(r) PROVE All
  <2>1. /\ EngKept /\ SessionsKept /\ req[r].ctx = "live"
        /\ ReqTo(r, req[r].pc, req[r].id, "deadline", req[r].outcome, req[r].status)
    BY <1>12, DeadlineFacts, Kept
  <2> QED BY <1>c, <2>1
<1>13. ASSUME NEW r \in Requests, MonitorStep(r) PROVE All BY <1>13, <1>a, MonitorFacts
<1>14. ASSUME NEW r \in Requests, EngineStep(r) \/ Answered(r) PROVE All
  <2>1. /\ UNCHANGED req
        /\ \A q \in Requests : \/ eng'[q].status = eng[q].status /\ session'[q].failed = session[q].failed
                               \/ eng[q].status \in {"running", "paused"}
    BY <1>14, EngineFacts DEF EngKept, SessionsKept
  <2> QED BY <2>1 DEF All, Stays
<1>15. ASSUME NEW r \in Requests, StopPerf(r) PROVE All BY <1>15, <1>b, StopPerfFacts, Kept
<1>16. ASSUME NEW r \in Requests, Pause(r) \/ Resume(r) PROVE All BY <1>16, PauseResumeFacts DEF All, Stays
<1>17. ASSUME NEW r \in Requests, NEW s \in HookStatuses, Webhook(r, s) PROVE All
  BY <1>17, <1>a, WebhookFacts
<1>18. ASSUME NEW id \in DOMAIN sessions, StopSession(id) PROVE All
  <2> DEFINE r == sessions[id]
  <2>1. PICK c : /\ ReqTo(r, req[r].pc, req[r].id, c, req[r].outcome, req[r].status)
                 /\ c = req[r].ctx \/ (req[r].ctx = "live" /\ c = "canceled")
    BY <1>18, StopSessionFacts
  <2>2. r \in Requests /\ SessionsKept /\ EngKept BY <1>18, StopSessionFacts, Kept
  <2> HIDE DEF r
  <2> QED BY <1>c, <2>1, <2>2
<1>19. ASSUME NEW id \in DOMAIN sessions, CheckWaiting(id) PROVE All BY <1>19, <1>a DEF CheckWaiting
<1>20. CASE CallEnds BY <1>20, <1>b, CallEndsFacts, Kept
<1> QED BY <1>1, <1>2, <1>3, <1>4, <1>5, <1>6, <1>7, <1>8, <1>9, <1>10, <1>12, <1>13, <1>14, <1>15,
           <1>16, <1>17, <1>18, <1>19, <1>20, Steps

\* Only the submission of a performance run and the monitors themselves change
\* a monitor and what can be found.
LEMMA MonitorFrame ==
    ASSUME Types, CallTypes, Kinds, SessionMap, [Next]_vars
    PROVE  \/ UNCHANGED <<mon, mapped>>
           \/ \E r \in Requests : SubmitPerf(r) \/ MonitorStep(r)
<1>1. ASSUME NEW r \in Requests, EngineStep(r) \/ Answered(r) PROVE UNCHANGED <<mon, mapped>> BY <1>1, EngineFacts
<1>2. ASSUME NEW r \in Requests, StopPerf(r) PROVE UNCHANGED <<mon, mapped>> BY <1>2 DEF StopPerf
<1>3. ASSUME NEW r \in Requests, Pause(r) \/ Resume(r) PROVE UNCHANGED <<mon, mapped>> BY <1>3, PauseResumeFacts
<1>4. ASSUME CallEnds PROVE UNCHANGED <<mon, mapped>> BY <1>4, CallEndsFacts
<1> QED BY <1>1, <1>2, <1>3, <1>4, Steps
        DEF vars, Execute, ExecutePerf, CreateSession, Submit, Status, CtxDone, Settle, CleanupSession,
            UpdateExecutionStatus, MarkRunning, Deadline, Webhook, StopSession, CheckWaiting

\* The monitors.
LEMMA MonitorsStep ==
    ASSUME Types, CallTypes, Kinds, Outcomes, Monitors, SessionMap, [Next]_vars
    PROVE  Monitors'
<1>0. ASSUME NEW q \in Requests, mon'[q] = mon[q] PROVE MonitorOf(q)'
  <2>1. Stays(q) BY StaysStep
  <2> QED BY <1>0, <2>1 DEF Monitors, MonitorOf, Stays
<1>1. CASE UNCHANGED <<mon, mapped>> BY <1>0, <1>1 DEF Monitors
<1>2. ASSUME NEW r \in Requests, SubmitPerf(r) PROVE Monitors'
  <2>1. CASE UNCHANGED mon BY <1>0, <2>1 DEF Monitors
  <2>2. CASE mon' # mon
    <3>1. /\ req[r].pc = "submit" /\ mon'[r].pc = "poll" /\ mon'[r].status = mon[r].status
          /\ mon'[r].report = mon[r].report
          /\ req'[r].pc = "mark"
          /\ \A q \in Requests : q # r => mon'[q] = mon[q]
      BY <1>2, <2>2, SubmitPerfFacts DEF ReqTo, Becomes
    <3>2. mon[r].status = "none" /\ mon[r].report = "none" BY <3>1 DEF Monitors, MonitorOf
    <3>3. MonitorOf(r)' BY <3>1, <3>2 DEF MonitorOf
    <3> QED BY <1>0, <3>1, <3>3 DEF Monitors
  <2> QED BY <2>1, <2>2
<1>3. ASSUME NEW r \in Requests, MonitorStep(r) PROVE Monitors'
  <2>1. \A q \in Requests : q # r => mon'[q] = mon[q] BY <1>3, MonitorFacts DEF MonTo
  <2>2. UNCHANGED <<req, eng>> BY <1>3, MonitorFacts
  <2>3. \/ /\ mon[r].pc = "poll" /\ mon'[r].pc = "report" /\ mon'[r].status \in {"completed", "failed", "stopped"}
           /\ mon'[r].status = "completed" => eng[r].status = "completed"
           /\ mon'[r].report = mon[r].report
        \/ mon[r].pc = "poll" /\ mon'[r].pc = "done" /\ mon'[r].status = "timeout"
        \/ /\ mon[r].pc = "report" /\ mon'[r].status = mon[r].status /\ mon'[r].report = mon[r].report
           /\ mon'[r].pc \in {"report", "save"} \/ (mon'[r].pc = "write" /\ mon'[r].tries = ReportTries)
        \/ /\ mon[r].pc = "save" /\ mon'[r].pc = "write" /\ mon'[r].status = mon[r].status
           /\ mon'[r].report \in {"saved", "refused"}
        \/ /\ mon[r].pc = "write" /\ mon'[r].pc = "done" /\ mon'[r].status = mon[r].status
           /\ mon'[r].report = mon[r].report /\ mon'[r].tries = mon[r].tries
        \/ mon'[r] = mon[r]
    BY <1>3, MonitorFacts DEF MonTo
  <2>4. MonitorOf(r)'
    <3>1. MonitorOf(r) BY DEF Monitors
    <3> QED BY <1>0, <2>2, <2>3, <3>1 DEF MonitorOf
  <2> QED BY <1>0, <2>1, <2>4 DEF Monitors
<1> QED BY <1>1, <1>2, <1>3, MonitorFrame

\* A performance run can be found: no row says running, and no call is about
\* to write it, before the monitor and the entry of the map exist.
LEMMA FoundStep ==
    ASSUME Types, CallTypes, Kinds, Outcomes, Monitors, Found, SessionMap, [Next]_vars
    PROVE  Found'
<1> DEFINE F(q) == req[q].kind = "perf" =>
             /\ mon[q].pc \in {"poll", "report", "save", "write"} => q \in mapped
             /\ req[q].pc \in Before /\ ~rec[q].touched =>
                   rec[q].status \notin {"running", "paused"} /\ ~(call.op = "row" /\ call.on[2] = q)
             /\ ~rec[q].hooked /\ IsTerminal(rec[q].status) =>
                   mon[q].pc = "done" \/ (mon[q].pc = "none" /\ req[q].pc \notin Before)
<1>f. \A q \in Requests : F(q) BY DEF Found
<1>g. ASSUME \A q \in Requests : F(q)' PROVE Found' BY <1>g DEF Found
<1>k. ASSUME NEW q \in Requests
      PROVE  /\ req'[q].kind = req[q].kind
             /\ req'[q].pc \in Before => req[q].pc \in Before
  BY StaysStep DEF Stays, Before
<1>0. ASSUME NEW q \in Requests, mon'[q] = mon[q], mapped' = mapped, call' = call \/ call'.op # "row",
             \/ rec'[q] = rec[q]
             \/ rec'[q].hooked /\ rec'[q].touched
             \/ /\ rec'[q].status \notin {"running", "paused", "completed", "failed", "stopped"}
                /\ rec[q].touched => rec'[q].touched
      PROVE  F(q)'
  BY <1>0, <1>f, <1>k DEF IsTerminal
<1>s. ASSUME NEW q \in Requests, req[q].kind # "perf" PROVE F(q)' BY <1>s, <1>k
<1> HIDE DEF F
\* A write by the id of a stream reaches no row of a performance run.
<1>r. ASSUME NEW id, NEW s, IsStream(id), RowsSet(id, s), NEW q \in Requests, req[q].kind = "perf" PROVE rec'[q] = rec[q]
  <2>1. ~IsStream(<<"none", 0>>) /\ ~IsStream(<<"exec", q>>) BY DEF IsStream
  <2>2. req[q].id # id BY <1>r, <2>1 DEF Kinds
  <2> QED BY <1>r, <2>2 DEF RowsSet
<1>a. ASSUME UNCHANGED <<req, rec, mon, mapped, call>> PROVE Found' BY <1>0, <1>a, <1>g
<1>b. ASSUME NEW r \in Requests, \A q \in Requests : q # r => req'[q] = req[q] /\ rec'[q] = rec[q],
             UNCHANGED <<mon, mapped, call>>, F(r)'
      PROVE  Found'
  BY <1>0, <1>b, <1>g
<1>1. CASE UNCHANGED vars BY <1>1, <1>a DEF vars
<1>2. ASSUME NEW r \in Requests, NEW i \in ClientIds, Execute(r, <<"stream", i>>) PROVE Found'
  <2>1. F(r)' BY <1>2, <1>s, ExecuteFacts DEF Stream
  <2> QED BY <1>2, <1>b, <2>1, ExecuteFacts DEF ReqTo, RowSet
<1>3. ASSUME NEW r \in Requests, ExecutePerf(r) PROVE Found'
  <2>1. F(r)' BY <1>3, <1>0, ExecutePerfFacts DEF ReqTo, Becomes, RowSet
  <2> QED BY <1>3, <1>b, <2>1, ExecutePerfFacts DEF ReqTo, RowSet
<1>4. ASSUME NEW r \in Requests, CreateSession(r) \/ Submit(r) \/ (Status(r) \/ CtxDone(r)) \/ Settle(r) \/ CleanupSession(r)
      PROVE  Found'
  <2>1. UNCHANGED <<rec, mon, mapped, call>>
    BY <1>4 DEF CreateSession, Submit, Status, CtxDone, Settle, CleanupSession
  <2>2. Stream(r) /\ \A q \in Requests : q # r => req'[q] = req[q]
    BY <1>4, CreateSessionFacts, SubmitFacts, WaitFacts, SettleFacts, CleanupFacts DEF Kinds, ReqTo
  <2>3. F(r)' BY <1>s, <2>2 DEF Stream
  <2> QED BY <1>b, <2>1, <2>2, <2>3
<1>9. ASSUME NEW r \in Requests, UpdateExecutionStatus(r) PROVE Found'
  <2>1. /\ req[r].pc = "update" /\ Stream(r) /\ UNCHANGED <<mon, mapped, call>>
        /\ \A q \in Requests : q # r => req'[q] = req[q]
    BY <1>9, UpdateFacts DEF ReqTo
  <2>2. IsStream(req[r].id) BY <2>1 DEF Kinds
  <2>3. UNCHANGED rec \/ \E s : RowsSet(req[r].id, s) BY <1>9, UpdateFacts
  <2>4. ASSUME NEW q \in Requests PROVE F(q)'
    <3>1. CASE req[q].kind # "perf" BY <1>s, <3>1
    <3>2. CASE req[q].kind = "perf"
      <4>1. q # r BY <2>1, <3>2 DEF Stream
      <4>2. rec'[q] = rec[q] BY <1>r, <2>2, <2>3, <3>2
      <4> QED BY <1>0, <2>1, <4>1, <4>2
    <3> QED BY <3>1, <3>2
  <2> QED BY <1>g, <2>4
<1>10. ASSUME NEW r \in Requests, SubmitPerf(r) PROVE Found'
  <2>1. \A q \in Requests : q # r => req'[q] = req[q] /\ rec'[q] = rec[q] /\ mon'[q] = mon[q]
    BY <1>10, SubmitPerfFacts DEF ReqTo, RowSet
  <2>2. UNCHANGED call BY <1>10, SubmitPerfFacts
  <2>3. \/ UNCHANGED <<mon, mapped>>
        \/ mon'[r].pc = "poll" /\ mapped' = mapped \cup {r} /\ UNCHANGED rec
    BY <1>10, SubmitPerfFacts
  <2>6. req[r].pc = "submit" /\ req'[r].pc \in {"mark", "done"} BY <1>10, SubmitPerfFacts DEF ReqTo, Becomes
  <2>7. mon[r].pc = "none" BY <2>6 DEF Monitors, MonitorOf
  <2>8. req[r].kind = "perf" BY <1>10, SubmitPerfFacts
  <2>9. F(r) BY <1>f
  <2>4. F(r)' BY <2>3, <2>6, <2>7, <2>8, <2>9 DEF F, Before
  <2>5. ASSUME NEW q \in Requests, q # r PROVE F(q)'
    <3>1. F(q) BY <1>f
    <3>2. req'[q] = req[q] /\ rec'[q] = rec[q] /\ mon'[q] = mon[q] /\ call' = call BY <2>1, <2>2, <2>5
    <3>3. q \in mapped => q \in mapped' BY <2>3
    <3> QED BY <3>1, <3>2, <3>3 DEF F
  <2> QED BY <1>g, <2>4, <2>5
<1>11. ASSUME NEW r \in Requests, MarkRunning(r) PROVE Found'
  <2>1. req[r].pc = "mark" /\ req[r].kind = "perf" /\ UNCHANGED <<mon, mapped, call>> BY <1>11, MarkFacts
  <2>2. /\ req[r].pc \notin Before /\ req'[r].pc \notin Before
        /\ rec'[r] = rec[r] \/ rec'[r].status = "running"
    BY <1>11, <2>1, MarkFacts DEF ReqTo, Becomes, RowSet, Before
  <2>3. F(r)' BY <1>f, <2>1, <2>2 DEF F, IsTerminal
  <2> QED BY <1>11, <1>b, <2>3, MarkFacts DEF ReqTo, RowSet
<1>12. ASSUME NEW r \in Requests, Deadline(r) PROVE Found'
  <2>1. F(r)' BY <1>12, <1>0, DeadlineFacts DEF ReqTo, Becomes
  <2> QED BY <1>12, <1>b, <2>1, DeadlineFacts DEF ReqTo
<1>13. ASSUME NEW r \in Requests, MonitorStep(r) PROVE Found'
  <2>1. \A q \in Requests : q # r => rec'[q] = rec[q] /\ mon'[q] = mon[q] BY <1>13, MonitorFacts DEF RowSet, MonTo
  <2>2. UNCHANGED <<req, call>> BY <1>13, MonitorFacts
  <2>3. \/ /\ mapped' = mapped /\ mon[r].pc \in {"poll", "report", "save", "write"} /\ mon'[r].pc # "none"
           /\ mon'[r].pc = "done" \/ UNCHANGED rec
        \/ mon'[r].pc = "done" /\ mapped' = mapped \ {r}
    BY <1>13, MonitorFacts DEF MonTo
  <2>6. mon[r].pc # "none" BY <1>13, MonitorFacts
  <2>7. req[r].pc \notin Before BY <2>6 DEF Monitors, MonitorOf, Before
  <2>4. F(r)' BY <1>f, <2>2, <2>3, <2>6, <2>7 DEF F
  <2>5. ASSUME NEW q \in Requests, q # r PROVE F(q)'
    <3>1. F(q) BY <1>f
    <3> QED BY <2>1, <2>2, <2>3, <2>5, <3>1 DEF F
  <2> QED BY <1>g, <2>4, <2>5
<1>14. ASSUME NEW r \in Requests, EngineStep(r) \/ Answered(r) PROVE Found' BY <1>14, <1>a, EngineFacts
<1>15. ASSUME NEW r \in Requests, StopPerf(r) PROVE Found' BY <1>15, <1>a, StopPerfFacts
<1>16. ASSUME NEW r \in Requests, Pause(r) \/ Resume(r) PROVE Found'
  <2>1. /\ rec[r].status \in {"running", "paused"} /\ UNCHANGED <<req, rec, mon, mapped>>
        /\ call'.on[2] = r
    BY <1>16, PauseResumeFacts
  <2>2. ASSUME NEW q \in Requests PROVE F(q)' BY <1>f, <2>1 DEF F
  <2> QED BY <1>g, <2>2
<1>17. ASSUME NEW r \in Requests, NEW s \in HookStatuses, Webhook(r, s) PROVE Found'
  <2>1. F(r)' BY <1>17, <1>0, WebhookFacts DEF RowSet
  <2> QED BY <1>17, <1>b, <2>1, WebhookFacts DEF RowSet
<1>18. ASSUME NEW id \in DOMAIN sessions, StopSession(id) PROVE Found'
  <2>1. /\ UNCHANGED <<rec, mon, mapped>> /\ call'.op # "row"
        /\ \A q \in Requests : req'[q].pc = req[q].pc
    BY <1>18, StopSessionFacts DEF ReqTo, Becomes
  <2> QED BY <1>0, <1>g, <2>1
<1>19. ASSUME NEW id \in DOMAIN sessions, CheckWaiting(id) PROVE Found'
  <2>1. UNCHANGED <<req, rec, mon, mapped>> /\ call'.op # "row" BY <1>19 DEF CheckWaiting, Begin
  <2> QED BY <1>0, <1>g, <2>1
<1>20. CASE CallEnds
  <2>1. UNCHANGED <<req, mon, mapped>> /\ call'.op # "row" BY <1>20, CallEndsFacts DEF NoCall
  <2>2. \/ \E id : IsStream(id) /\ RowsSet(id, "stopped")
        \/ UNCHANGED rec
        \/ /\ call.op = "row" /\ call.on[2] \in Requests
           /\ \A q \in Requests : q # call.on[2] => rec'[q] = rec[q]
           /\ rec'[call.on[2]] = rec[call.on[2]] \/ rec'[call.on[2]].status \in {"running", "paused"}
           /\ rec[call.on[2]].touched => rec'[call.on[2]].touched
    BY <1>20, CallEndsFacts DEF RowSet
  <2>3. ASSUME NEW q \in Requests PROVE F(q)'
    <3>1. CASE req[q].kind # "perf" BY <1>s, <3>1
    <3>2. CASE req[q].kind = "perf" /\ rec'[q] = rec[q] BY <1>0, <2>1, <3>2
    <3>3. CASE /\ call.op = "row" /\ call.on[2] = q /\ rec'[q].status \in {"running", "paused"}
               /\ rec[q].touched => rec'[q].touched
      BY <1>f, <2>1, <3>3 DEF F, IsTerminal
    <3> QED BY <1>r, <2>2, <3>1, <3>2, <3>3
  <2> QED BY <1>g, <2>3
<1> QED BY <1>1, <1>2, <1>3, <1>4, <1>9, <1>10, <1>11, <1>12, <1>13, <1>14, <1>15,
           <1>16, <1>17, <1>18, <1>19, <1>20, Steps

\* A monitor that has been started is there for good, and one that has ended stays so.
LEMMA MonitorStays ==
    ASSUME Types, CallTypes, Kinds, Monitors, SessionMap, [Next]_vars, NEW q \in Requests
    PROVE  /\ mon[q].pc # "none" => mon'[q].pc # "none"
           /\ mon[q].pc = "done" => mon'[q].pc = "done"
<1>1. CASE UNCHANGED <<mon, mapped>> BY <1>1
<1>2. ASSUME NEW r \in Requests, SubmitPerf(r)
      PROVE  (mon[q].pc # "none" => mon'[q].pc # "none") /\ (mon[q].pc = "done" => mon'[q].pc = "done")
  <2>1. mon[r].pc = "none" BY <1>2, SubmitPerfFacts DEF Monitors, MonitorOf
  <2> QED BY <1>2, <2>1, SubmitPerfFacts
<1>3. ASSUME NEW r \in Requests, MonitorStep(r)
      PROVE  (mon[q].pc # "none" => mon'[q].pc # "none") /\ (mon[q].pc = "done" => mon'[q].pc = "done")
  BY <1>3, MonitorFacts DEF MonTo
<1> QED BY <1>1, <1>2, <1>3, MonitorFrame

\* A run has its monitor from the step that submits it.
LEMMA FollowedStep ==
    ASSUME Types, CallTypes, Kinds, Outcomes, Monitors, Followed, SessionMap, [Next]_vars
    PROVE  Followed'
<1> SUFFICES ASSUME NEW q \in Requests, req'[q].kind = "perf", eng'[q].status # "none"
             PROVE  req'[q].pc \in Before \/ mon'[q].pc # "none"
  BY DEF Followed
<1>1. Stays(q) BY StaysStep
<1>2. CASE eng[q].status = "none" BY <1>1, <1>2 DEF Stays
<1>3. CASE eng[q].status # "none"
  <2>1. req[q].pc \notin Before BY <1>3 DEF Outcomes, Outcome, Before
  <2>2. mon[q].pc # "none" BY <1>1, <1>3, <2>1 DEF Followed, Stays
  <2> QED BY <2>2, MonitorStays
<1> QED BY <1>2, <1>3

\* A call misses only a run that was never submitted or whose monitor has ended.
LEMMA LostRunsStep ==
    ASSUME Types, CallTypes, Kinds, Outcomes, Monitors, Found, Followed, LostRuns, SessionMap, [Next]_vars
    PROVE  LostRuns'
<1>2. ASSUME NEW q \in Requests, lost'[q], ~lost[q], req[q].kind = "perf"
      PROVE  req[q].pc \notin Before /\ (eng[q].status = "none" \/ mon[q].pc = "done")
  <2>1. rec[q].status \in {"running", "paused"} /\ q \notin mapped /\ ~rec[q].touched
    <3>1. ASSUME NEW r \in Requests, StopPerf(r) PROVE rec[q].status \in {"running", "paused"} /\ q \notin mapped /\ ~rec[q].touched
      BY <1>2, <3>1, StopPerfFacts
    <3>2. ASSUME NEW r \in Requests, Pause(r) \/ Resume(r) PROVE rec[q].status \in {"running", "paused"} /\ q \notin mapped /\ ~rec[q].touched
      BY <1>2, <3>2, PauseResumeFacts
    <3>3. ASSUME NEW r \in Requests, EngineStep(r) \/ Answered(r) PROVE UNCHANGED lost BY <3>3, EngineFacts
    <3>4. ASSUME NEW r \in Requests, MonitorStep(r) PROVE UNCHANGED lost BY <3>4, MonitorFacts
    <3>5. ASSUME CallEnds PROVE UNCHANGED lost BY <3>5, CallEndsFacts
    <3> QED BY <1>2, <3>1, <3>2, <3>3, <3>4, <3>5, Steps
        DEF vars, Execute, ExecutePerf, CreateSession, Submit, Status, CtxDone, Settle, CleanupSession,
            UpdateExecutionStatus, SubmitPerf, MarkRunning, Deadline, Webhook, StopSession, CheckWaiting
  <2>4. req[q].pc \notin Before BY <1>2, <2>1 DEF Found
  <2>2. eng[q].status = "none" \/ mon[q].pc \notin {"none", "poll", "report", "save", "write"}
    BY <1>2, <2>1, <2>4 DEF Found, Followed
  <2>3. mon[q].pc \in Places BY DEF Types, MonitorStates
  <2> QED BY <2>2, <2>3, <2>4 DEF Places
<1>3. ASSUME NEW q \in Requests, req[q].pc \notin Before, eng[q].status = "none" \/ mon[q].pc = "done"
      PROVE  req'[q].pc \notin Before /\ (eng'[q].status = "none" \/ mon'[q].pc = "done")
  <2>1. Stays(q) BY StaysStep
  <2> QED BY <1>3, <2>1, MonitorStays DEF Stays, Before
<1>4. ASSUME NEW q \in Requests PROVE req'[q].kind = req[q].kind BY StaysStep DEF Stays
<1> QED BY <1>2, <1>3, <1>4 DEF LostRuns

\* The map of sessions.
LEMMA SessionMapStep ==
    ASSUME Types, CallTypes, Kinds, Outcomes, SessionMap, [Next]_vars
    PROVE  SessionMap'
<1> DEFINE Sim(q) == /\ req'[q].kind = req[q].kind
                     /\ Stream(q) => /\ req'[q].pc \in Live <=> req[q].pc \in Live
                                     /\ req'[q].pc \in {"idle", "create"} => req[q].pc \in {"idle", "create"}
                     /\ req[q].pc \in Live => req'[q].id = req[q].id
           Open == \A q \in Requests : session'[q].closed = session[q].closed /\ writer'[q].closed = writer[q].closed
\* A request that stays in the map, or out of it.
<1>a. ASSUME UNCHANGED sessions, Open, \A q \in Requests : Sim(q) PROVE SessionMap'
  <2>1. ASSUME NEW q \in Requests PROVE Stream(q)' = Stream(q) BY <1>a DEF Stream
  <2>2. ASSUME NEW q \in Requests, req[q].pc \in Live PROVE SessionID(q)' = SessionID(q) BY <1>a, <2>2 DEF SessionID
  <2>3. ASSUME NEW id \in DOMAIN sessions', NEW q \in Requests, q = sessions'[id]
        PROVE  SessionID(q)' = id /\ Stream(q)' /\ req'[q].pc \in Live
    <3>1. id \in DOMAIN sessions /\ q = sessions[id] BY <1>a, <2>3
    <3>2. SessionID(q) = id /\ Stream(q) /\ req[q].pc \in Live BY <3>1 DEF SessionMap
    <3> QED BY <1>a, <2>1, <2>2, <3>2
  <2>4. ASSUME NEW q \in Requests, Stream(q)', req'[q].pc \in Live
        PROVE  SessionID(q)' \in DOMAIN sessions' /\ sessions'[SessionID(q)'] = q
    <3>1. Stream(q) /\ req[q].pc \in Live BY <1>a, <2>1, <2>4
    <3>2. SessionID(q) \in DOMAIN sessions /\ sessions[SessionID(q)] = q BY <3>1 DEF SessionMap
    <3>3. SessionID(q)' = SessionID(q) BY <2>2, <3>1
    <3> QED BY <1>a, <3>2, <3>3
  <2>5. ASSUME NEW q \in Requests, Stream(q)', req'[q].pc \in {"idle", "create"} \cup Live
        PROVE  ~session'[q].closed /\ ~writer'[q].closed
    <3>1. Stream(q) /\ req[q].pc \in {"idle", "create"} \cup Live BY <1>a, <2>1, <2>5
    <3> QED BY <1>a, <3>1 DEF SessionMap
  <2>6. ASSUME NEW id \in DOMAIN sessions' PROVE sessions'[id] \in Requests BY <1>a, <2>6 DEF Types
  <2> QED BY <2>3, <2>4, <2>5, <2>6 DEF SessionMap, SessionID, Stream
<1>b. ASSUME NEW r \in Requests, \A q \in Requests : q # r => req'[q] = req[q], Sim(r), UNCHANGED sessions, Open
      PROVE  SessionMap'
  <2>1. ASSUME NEW q \in Requests, q # r PROVE Sim(q) BY <1>b, <2>1 DEF Stream
  <2> QED BY <1>a, <1>b, <2>1
<1>o. ASSUME SessionsKept, UNCHANGED writer PROVE Open BY <1>o DEF SessionsKept
<1>c. ASSUME UNCHANGED <<req, sessions>>, Open PROVE SessionMap' BY <1>a, <1>c
<1> HIDE DEF Open, Sim
<1>1. CASE UNCHANGED vars BY <1>1, <1>c DEF vars, Open
<1>2. ASSUME NEW r \in Requests, NEW i \in ClientIds, Execute(r, <<"stream", i>>) PROVE SessionMap'
  <2>1. UNCHANGED <<sessions, session, writer>> BY <1>2, ExecuteFacts
  <2>2. PICK p \in {"create", "done"} : ReqTo(r, p, <<"stream", i>>, req[r].ctx, req[r].outcome, req[r].status)
    BY <1>2, ExecuteFacts
  <2>3. req[r].pc = "idle" BY <1>2, ExecuteFacts
  <2>4. Sim(r) BY <2>2, <2>3 DEF Sim, ReqTo, Becomes, Live
  <2> QED BY <1>b, <2>1, <2>2, <2>4 DEF ReqTo, Open
<1>3. ASSUME NEW r \in Requests, ExecutePerf(r) PROVE SessionMap'
  <2>1. UNCHANGED <<sessions, session, writer>> BY <1>3, ExecutePerfFacts
  <2>2. PICK p \in {"submit", "done"} : ReqTo(r, p, <<"exec", r>>, req[r].ctx, req[r].outcome, req[r].status)
    BY <1>3, ExecutePerfFacts
  <2>3. req[r].pc = "idle" /\ req[r].kind = "perf" BY <1>3, ExecutePerfFacts
  <2>4. Sim(r) BY <2>2, <2>3 DEF Sim, ReqTo, Becomes, Live, Stream
  <2> QED BY <1>b, <2>1, <2>2, <2>4 DEF ReqTo, Open
<1>4. ASSUME NEW r \in Requests, CreateSession(r) PROVE SessionMap'
  <2>1. /\ req[r].pc = "create" /\ Stream(r) /\ UNCHANGED writer
    BY <1>4, CreateSessionFacts DEF Kinds
  <2>2. CASE /\ ReqTo(r, "update", req[r].id, req[r].ctx, "refused", req[r].status)
             /\ UNCHANGED <<sessions, session>>
    <3>1. Sim(r) BY <2>1, <2>2 DEF Sim, ReqTo, Becomes, Live
    <3> QED BY <1>b, <2>1, <2>2, <3>1 DEF ReqTo, Open
  <2>3. CASE /\ SessionID(r) \notin DOMAIN sessions
             /\ ReqTo(r, "submit", req[r].id, req[r].ctx, req[r].outcome, req[r].status)
             /\ sessions' = [s \in DOMAIN sessions \cup {SessionID(r)} |-> IF s = SessionID(r) THEN r ELSE sessions[s]]
             /\ SessionsKept
    <3>1. Open BY <1>o, <2>1, <2>3
    <3>2. ASSUME NEW q \in Requests
          PROVE  /\ Stream(q)' = Stream(q) /\ SessionID(q)' = SessionID(q)
                 /\ q # r => req'[q] = req[q]
      BY <2>3 DEF ReqTo, Becomes, Stream, SessionID
    <3>3. req'[r].pc = "submit" BY <2>3 DEF ReqTo, Becomes
    <3>4. ASSUME NEW id \in DOMAIN sessions', NEW q \in Requests, q = sessions'[id]
          PROVE  SessionID(q)' = id /\ Stream(q)' /\ req'[q].pc \in Live
      <4>1. CASE id = SessionID(r)
        <5>1. q = r BY <2>3, <3>4, <4>1
        <5> QED BY <2>1, <3>2, <3>3, <4>1, <5>1 DEF Live
      <4>2. CASE id # SessionID(r)
        <5>1. id \in DOMAIN sessions /\ q = sessions[id] BY <2>3, <3>4, <4>2
        <5>2. SessionID(q) = id /\ Stream(q) /\ req[q].pc \in Live BY <5>1 DEF SessionMap
        <5>3. q # r BY <2>1, <5>2 DEF Live
        <5> QED BY <3>2, <5>2, <5>3
      <4> QED BY <4>1, <4>2
    <3>5. ASSUME NEW q \in Requests, Stream(q)', req'[q].pc \in Live
          PROVE  SessionID(q)' \in DOMAIN sessions' /\ sessions'[SessionID(q)'] = q
      <4>1. CASE q = r BY <2>3, <3>2, <4>1
      <4>2. CASE q # r
        <5>1. Stream(q) /\ req[q].pc \in Live BY <3>2, <3>5, <4>2
        <5>2. SessionID(q) \in DOMAIN sessions /\ sessions[SessionID(q)] = q BY <5>1 DEF SessionMap
        <5> QED BY <2>3, <3>2, <5>2
      <4> QED BY <4>1, <4>2
    <3>6. ASSUME NEW q \in Requests, Stream(q)', req'[q].pc \in {"idle", "create"} \cup Live
          PROVE  ~session'[q].closed /\ ~writer'[q].closed
      <4>1. Stream(q) /\ req[q].pc \in {"idle", "create"} \cup Live BY <2>1, <3>2, <3>6
      <4> QED BY <3>1, <4>1 DEF SessionMap, Open
    <3>7. ASSUME NEW id \in DOMAIN sessions' PROVE sessions'[id] \in Requests BY <2>3, <3>7 DEF Types
    <3> QED BY <3>4, <3>5, <3>6, <3>7 DEF SessionMap, SessionID, Stream
  <2> QED BY <1>4, <2>2, <2>3, CreateSessionFacts
<1>5. ASSUME NEW r \in Requests, Submit(r) PROVE SessionMap'
  <2>1. req[r].pc = "submit" /\ Open /\ UNCHANGED sessions BY <1>5, <1>o, SubmitFacts
  <2>2. PICK p, o : p \in {"wait", "settle"} /\ ReqTo(r, p, req[r].id, req[r].ctx, o, req[r].status) BY <1>5, SubmitFacts
  <2>3. Sim(r) BY <2>1, <2>2 DEF Sim, ReqTo, Becomes, Live
  <2> QED BY <1>b, <2>1, <2>2, <2>3 DEF ReqTo
<1>6. ASSUME NEW r \in Requests, Status(r) \/ CtxDone(r) PROVE SessionMap'
  <2>1. req[r].pc = "wait" /\ Open /\ UNCHANGED sessions BY <1>6, WaitFacts DEF Open
  <2>2. PICK o : ReqTo(r, "settle", req[r].id, req[r].ctx, o, req[r].status) BY <1>6, WaitFacts
  <2>3. Sim(r) BY <2>1, <2>2 DEF Sim, ReqTo, Becomes, Live
  <2> QED BY <1>b, <2>1, <2>2, <2>3 DEF ReqTo
<1>7. ASSUME NEW r \in Requests, Settle(r) PROVE SessionMap'
  <2>1. req[r].pc = "settle" /\ Open /\ UNCHANGED sessions BY <1>7, SettleFacts DEF Open, SessionsKept
  <2>2. PICK s : ReqTo(r, "cleanup", req[r].id, req[r].ctx, req[r].outcome, s) BY <1>7, SettleFacts
  <2>3. Sim(r) BY <2>1, <2>2 DEF Sim, ReqTo, Becomes, Live
  <2> QED BY <1>b, <2>1, <2>2, <2>3 DEF ReqTo
<1>8. ASSUME NEW r \in Requests, CleanupSession(r) PROVE SessionMap'
  <2>1. /\ req[r].pc = "cleanup" /\ Stream(r)
        /\ SessionID(r) \in DOMAIN sessions /\ sessions[SessionID(r)] = r
        /\ sessions' = [x \in DOMAIN sessions \ {SessionID(r)} |-> sessions[x]]
        /\ \A q \in Requests : q # r => session'[q] = session[q] /\ writer'[q] = writer[q]
    BY <1>8, CleanupFacts
  <2>2. PICK c \in Contexts : ReqTo(r, "update", req[r].id, c, req[r].outcome, req[r].status) BY <1>8, CleanupFacts
  <2>3. ASSUME NEW q \in Requests
        PROVE  /\ Stream(q)' = Stream(q) /\ SessionID(q)' = SessionID(q)
               /\ q # r => req'[q] = req[q]
    BY <2>2 DEF ReqTo, Becomes, Stream, SessionID
  <2>4. req'[r].pc = "update" BY <2>2 DEF ReqTo, Becomes
  <2>5. ASSUME NEW id \in DOMAIN sessions', NEW q \in Requests, q = sessions'[id]
        PROVE  SessionID(q)' = id /\ Stream(q)' /\ req'[q].pc \in Live
    <3>1. id \in DOMAIN sessions /\ id # SessionID(r) /\ q = sessions[id] BY <2>1, <2>5
    <3>2. SessionID(q) = id /\ Stream(q) /\ req[q].pc \in Live BY <3>1 DEF SessionMap
    <3> QED BY <2>3, <3>1, <3>2
  <2>6. ASSUME NEW q \in Requests, Stream(q)', req'[q].pc \in Live
        PROVE  SessionID(q)' \in DOMAIN sessions' /\ sessions'[SessionID(q)'] = q
    <3>1. q # r BY <2>4, <2>6 DEF Live
    <3>2. Stream(q) /\ req[q].pc \in Live BY <2>3, <2>6, <3>1
    <3>3. SessionID(q) \in DOMAIN sessions /\ sessions[SessionID(q)] = q BY <3>2 DEF SessionMap
    <3> QED BY <2>1, <2>3, <3>1, <3>3
  <2>7. ASSUME NEW q \in Requests, Stream(q)', req'[q].pc \in {"idle", "create"} \cup Live
        PROVE  ~session'[q].closed /\ ~writer'[q].closed
    <3>1. q # r BY <2>4, <2>7 DEF Live
    <3>2. Stream(q) /\ req[q].pc \in {"idle", "create"} \cup Live BY <2>3, <2>7, <3>1
    <3> QED BY <2>1, <3>1, <3>2 DEF SessionMap
  <2>8. ASSUME NEW id \in DOMAIN sessions' PROVE sessions'[id] \in Requests BY <2>1, <2>8 DEF Types
  <2> QED BY <2>5, <2>6, <2>7, <2>8 DEF SessionMap, SessionID, Stream
<1>9. ASSUME NEW r \in Requests, UpdateExecutionStatus(r) \/ MarkRunning(r) PROVE SessionMap'
  <2>1. /\ req[r].pc \in {"update", "mark"} /\ UNCHANGED <<sessions, session, writer>>
        /\ ReqTo(r, "done", req[r].id, req[r].ctx, req[r].outcome, req[r].status)
    BY <1>9, UpdateFacts, MarkFacts
  <2>2. Sim(r) BY <2>1 DEF Sim, ReqTo, Becomes, Live
  <2> QED BY <1>b, <2>1, <2>2 DEF ReqTo, Open
<1>10. ASSUME NEW r \in Requests, SubmitPerf(r) PROVE SessionMap'
  <2>1. req[r].kind = "perf" /\ UNCHANGED <<sessions, session, writer>> BY <1>10, SubmitPerfFacts
  <2>2. PICK p \in {"mark", "done"} : ReqTo(r, p, req[r].id, req[r].ctx, req[r].outcome, req[r].status)
    BY <1>10, SubmitPerfFacts
  <2>3. Sim(r) BY <2>1, <2>2 DEF Sim, ReqTo, Becomes, Live, Stream
  <2> QED BY <1>b, <2>1, <2>2, <2>3 DEF ReqTo, Open
<1>12. ASSUME NEW r \in Requests, Deadline(r) PROVE SessionMap'
  <2>1. /\ UNCHANGED <<sessions, session, writer>>
        /\ ReqTo(r, req[r].pc, req[r].id, "deadline", req[r].outcome, req[r].status)
    BY <1>12, DeadlineFacts
  <2>2. Sim(r) BY <2>1 DEF Sim, ReqTo, Becomes
  <2> QED BY <1>b, <2>1, <2>2 DEF ReqTo, Open
<1>13. ASSUME NEW r \in Requests, MonitorStep(r) PROVE SessionMap' BY <1>13, <1>c, MonitorFacts DEF Open
<1>14. ASSUME NEW r \in Requests, EngineStep(r) \/ Answered(r) PROVE SessionMap'
  BY <1>14, <1>c, EngineFacts DEF Open, SessionsKept
<1>15. ASSUME NEW r \in Requests, StopPerf(r) PROVE SessionMap' BY <1>15, <1>c, StopPerfFacts DEF Open
<1>16. ASSUME NEW r \in Requests, Pause(r) \/ Resume(r) PROVE SessionMap' BY <1>16, <1>c, PauseResumeFacts DEF Open
<1>17. ASSUME NEW r \in Requests, NEW s \in HookStatuses, Webhook(r, s) PROVE SessionMap'
  BY <1>17, <1>c, WebhookFacts DEF Open
<1>18. ASSUME NEW id \in DOMAIN sessions, StopSession(id) PROVE SessionMap'
  <2> DEFINE r == sessions[id]
  <2>1. PICK c \in Contexts : ReqTo(r, req[r].pc, req[r].id, c, req[r].outcome, req[r].status) BY <1>18, StopSessionFacts
  <2>2. r \in Requests /\ Open /\ UNCHANGED sessions BY <1>18, <1>o, StopSessionFacts
  <2> HIDE DEF r
  <2>3. Sim(r) BY <2>1, <2>2 DEF Sim, ReqTo, Becomes
  <2> QED BY <1>b, <2>1, <2>2, <2>3 DEF ReqTo
<1>19. ASSUME NEW id \in DOMAIN sessions, CheckWaiting(id) PROVE SessionMap' BY <1>19, <1>c DEF CheckWaiting, Open
<1>20. CASE CallEnds BY <1>20, <1>c, CallEndsFacts DEF Open, SessionsKept
<1> QED BY <1>1, <1>2, <1>3, <1>4, <1>5, <1>6, <1>7, <1>8, <1>9, <1>10, <1>12, <1>13, <1>14, <1>15,
           <1>16, <1>17, <1>18, <1>19, <1>20, Steps

\* What RecordTruth says of a row with status s and the id of request r.
Succeeded(q) == /\ req[q].outcome = "nil" /\ eng[q].status = "completed"
                /\ (\A p \in Requests : SameId(p, q) => p = q) => ~session[q].failed
TrueOf(r, s) ==
    /\ s = "success" => \E q \in Requests : SameId(r, q) /\ Succeeded(q)
    /\ s = "completed" => eng[r].status = "completed"
    /\ s = "timeout" => \E q \in Requests : SameId(r, q) /\ req[q].ctx = "deadline"

\* A row that is true stays true: the request that bears it out keeps what it
\* had, and requests that take the id later only make it share the id.
LEMMA TruthStays ==
    ASSUME Types, CallTypes, Kinds, Outcomes, SessionMap, [Next]_vars,
           NEW r \in Requests, req[r].pc # "idle", NEW s, TrueOf(r, s)
    PROVE  TrueOf(r, s)'
<1>0. \A q \in Requests : Stays(q) BY StaysStep
<1>1. ~IsStream(<<"none", 0>>) /\ \A q \in Requests : <<"exec", q>> # <<"none", 0>> BY DEF IsStream
<1>2. ASSUME NEW q \in Requests, req[q].pc # "idle" PROVE req[q].id # <<"none", 0>>
  <2>1. req[q].kind \in {"sse", "blocking", "perf"} BY <1>2 DEF Types, HandlerRecords, Kinds
  <2>2. CASE req[q].kind = "perf" BY <1>1, <1>2, <2>2 DEF Kinds
  <2>3. CASE req[q].kind # "perf" BY <1>1, <1>2, <2>1, <2>3 DEF Kinds, Stream
  <2> QED BY <2>2, <2>3
<1>3. ASSUME NEW p \in Requests, NEW q \in Requests, SameId(p, q), req[p].pc # "idle" \/ req[q].pc # "idle"
      PROVE  req[p].pc # "idle" /\ req[q].pc # "idle" /\ SameId(p, q)'
  <2>1. req[p].pc # "idle" /\ req[q].pc # "idle" BY <1>2, <1>3 DEF SameId, Kinds
  <2> QED BY <1>0, <1>3, <2>1 DEF SameId, Stays
<1>4. ASSUME s = "success" PROVE \E q \in Requests : SameId(r, q)' /\ Succeeded(q)'
  <2>1. PICK q \in Requests : SameId(r, q) /\ Succeeded(q) BY <1>4 DEF TrueOf
  <2>2. SameId(r, q)' /\ req[q].pc # "idle" BY <1>3, <2>1
  <2>3. req'[q].outcome = "nil" /\ eng'[q].status = "completed" /\ session'[q].failed = session[q].failed
    BY <1>0, <2>1 DEF Succeeded, Stays
  <2>4. ASSUME \A p \in Requests : SameId(p, q)' => p = q PROVE ~session'[q].failed
    <3>1. \A p \in Requests : SameId(p, q) => p = q BY <1>3, <2>2, <2>4
    <3> QED BY <2>1, <2>3, <3>1 DEF Succeeded
  <2>5. Succeeded(q)' BY <2>3, <2>4 DEF Succeeded, SameId
  <2> QED BY <2>2, <2>5
<1>5. ASSUME s = "timeout" PROVE \E q \in Requests : SameId(r, q)' /\ req'[q].ctx = "deadline"
  <2>1. PICK q \in Requests : SameId(r, q) /\ req[q].ctx = "deadline" BY <1>5 DEF TrueOf
  <2>2. SameId(r, q)' BY <1>3, <2>1
  <2>3. req'[q].ctx = "deadline" BY <1>0, <2>1 DEF Stays
  <2> QED BY <2>2, <2>3
<1>6. ASSUME s = "completed" PROVE eng'[r].status = "completed" BY <1>0, <1>6 DEF TrueOf, Stays
<1> QED BY <1>4, <1>5, <1>6 DEF TrueOf, Succeeded, SameId

\* What the rows say is true.
LEMMA RecordTruthStep ==
    ASSUME Types, CallTypes, Kinds, Outcomes, Monitors, SessionMap, RecordTruth, [Next]_vars
    PROVE  RecordTruth'
<1>t. ASSUME NEW r \in Requests, ~rec[r].hooked PROVE TrueOf(r, rec[r].status)
  BY <1>t DEF RecordTruth, TrueOf, Succeeded
\* Of a row it is enough that it is as it was, or says nothing that could be untrue.
<1> DEFINE Weak(q) == rec'[q].hooked \/ rec'[q].status \notin {"success", "completed", "timeout"}
<1>w. ASSUME NEW q \in Requests, rec'[q] = rec[q] \/ Weak(q) \/ (req[q].pc # "idle" /\ TrueOf(q, rec'[q].status)),
             ~rec'[q].hooked, NEW s, s = rec'[q].status
      PROVE  TrueOf(q, s)'
  <2>1. CASE s \notin {"success", "completed", "timeout"} BY <2>1 DEF TrueOf
  <2>2. CASE rec'[q] = rec[q] /\ req[q].pc = "idle"
    <3>1. s = "none" BY <1>w, <2>2 DEF Kinds
    <3> QED BY <2>1, <3>1
  <2>3. CASE rec'[q] = rec[q] /\ req[q].pc # "idle"
    <3>1. TrueOf(q, s) BY <1>t, <1>w, <2>3
    <3> QED BY <2>3, <3>1, TruthStays
  <2>4. CASE req[q].pc # "idle" /\ TrueOf(q, rec'[q].status)
    <3>1. TrueOf(q, s) BY <1>w, <2>4
    <3> QED BY <2>4, <3>1, TruthStays
  <2> QED BY <1>w, <2>1, <2>2, <2>3, <2>4
<1>z. ASSUME \A q \in Requests : \A s : ~rec'[q].hooked /\ s = rec'[q].status => TrueOf(q, s)' PROVE RecordTruth'
  <2>1. ASSUME NEW q \in Requests, ~rec'[q].hooked PROVE TrueOf(q, rec[q].status)'
    <3>1. PICK s : s = rec'[q].status OBVIOUS
    <3>2. TrueOf(q, s)' BY <1>z, <2>1, <3>1
    <3> QED BY <3>1, <3>2 DEF TrueOf, Succeeded, SameId
  <2> QED BY <2>1 DEF RecordTruth, TrueOf, Succeeded, SameId
<1>g. ASSUME \A q \in Requests : rec'[q] = rec[q] \/ Weak(q) \/ (req[q].pc # "idle" /\ TrueOf(q, rec'[q].status))
      PROVE  RecordTruth'
  BY <1>g, <1>w, <1>z
<1> HIDE DEF Weak
<1>a. ASSUME UNCHANGED rec PROVE RecordTruth' BY <1>a, <1>g
<1>b. ASSUME NEW r \in Requests, NEW s, NEW h, RowSet(r, s, h), h \/ s \notin {"success", "completed", "timeout"}
      PROVE  RecordTruth'
  BY <1>b, <1>g DEF RowSet, Weak
<1>1. ASSUME NEW r \in Requests, NEW i \in ClientIds, Execute(r, <<"stream", i>>) PROVE RecordTruth'
  BY <1>1, <1>a, <1>b, ExecuteFacts
<1>2. ASSUME NEW r \in Requests, ExecutePerf(r) PROVE RecordTruth' BY <1>2, <1>b, ExecutePerfFacts
<1>3. ASSUME NEW r \in Requests, UpdateExecutionStatus(r) PROVE RecordTruth'
  <2>1. CASE UNCHANGED rec BY <1>a, <2>1
  <2>2. ASSUME NEW s \in Summaries, RowsSet(req[r].id, s),
               s = "success" => \/ req[r].status = "success"
                                \/ /\ req[r].kind = "sse" /\ req[r].outcome = "nil"
                                   /\ SessionID(r) \in DOMAIN sessions,
               s = "timeout" => req[r].status = "timeout"
        PROVE  RecordTruth'
    <3>0. req[r].pc = "update" BY <1>3, UpdateFacts
    <3>1. ASSUME s = "success" PROVE Succeeded(r)
      <4>1. req[r].outcome = "nil" /\ eng[r].status = "completed" BY <2>2, <3>1 DEF Outcomes, Outcome
      <4>2. CASE req[r].status = "success" BY <4>1, <4>2 DEF Outcomes, Outcome, Succeeded
      <4>3. CASE req[r].kind = "sse" /\ SessionID(r) \in DOMAIN sessions
        \* Another stream has this id.
        <5> DEFINE p == sessions[SessionID(r)]
        <5>1. p \in Requests /\ SessionID(p) = SessionID(r) /\ Stream(p) /\ req[p].pc \in Live
          BY <4>3 DEF Types, SessionMap
        <5> HIDE DEF p
        <5>2. p # r BY <3>0, <5>1 DEF Live
        <5>3. SessionID(r) = req[r].id /\ IsStream(req[r].id) BY <3>0, <4>3 DEF SessionID, Kinds, Stream
        <5>4. SessionID(p) = req[p].id
          <6>1. ~IsStream(<<"blocking", p>>) BY DEF IsStream
          <6> QED BY <5>1, <5>3, <6>1 DEF SessionID
        <5>5. SameId(p, r) BY <5>1, <5>3, <5>4 DEF SameId
        <5> QED BY <4>1, <5>1, <5>2, <5>5 DEF Succeeded
      <4> QED BY <2>2, <3>1, <4>2, <4>3
    <3>2. ASSUME s = "timeout" PROVE req[r].ctx = "deadline" BY <2>2, <3>2 DEF Outcomes, Outcome
    <3>3. s # "completed" BY DEF Summaries
    <3>4. ASSUME NEW q \in Requests, rec[q].status # "none", req[q].id = req[r].id
          PROVE  req[q].pc # "idle" /\ TrueOf(q, s)
      <4>1. SameId(q, r) BY <3>4 DEF SameId
      <4> QED BY <3>1, <3>2, <3>3, <3>4, <4>1 DEF TrueOf, Kinds
    <3>5. ASSUME NEW q \in Requests PROVE rec'[q] = rec[q] \/ (req[q].pc # "idle" /\ TrueOf(q, rec'[q].status))
      <4>1. CASE rec[q].status # "none" /\ req[q].id = req[r].id
        <5>1. rec'[q] = rec[q] \/ rec'[q].status = s BY <2>2, <4>1 DEF RowsSet
        <5> QED BY <3>4, <4>1, <5>1
      <4>2. CASE ~(rec[q].status # "none" /\ req[q].id = req[r].id) BY <2>2, <4>2 DEF RowsSet
      <4> QED BY <4>1, <4>2
    <3> QED BY <1>g, <3>5
  <2> QED BY <1>3, <2>1, <2>2, UpdateFacts
<1>4. ASSUME NEW r \in Requests, SubmitPerf(r) PROVE RecordTruth' BY <1>4, <1>a, <1>b, SubmitPerfFacts
<1>5. ASSUME NEW r \in Requests, MarkRunning(r) PROVE RecordTruth' BY <1>5, <1>b, MarkFacts
<1>6. ASSUME NEW r \in Requests, MonitorStep(r) PROVE RecordTruth'
  <2>1. CASE UNCHANGED rec BY <1>a, <2>1
  <2>2. CASE RowSet(r, "failed", FALSE) BY <1>b, <2>2
  <2>3. CASE mon[r].pc = "write" /\ RowSet(r, mon[r].status, FALSE)
    <3>1. /\ mon[r].status \in {"completed", "failed", "stopped"}
          /\ mon[r].status = "completed" => eng[r].status = "completed"
          /\ req[r].pc # "idle"
      BY <2>3 DEF Monitors, MonitorOf
    <3>2. TrueOf(r, mon[r].status) BY <3>1 DEF TrueOf
    <3> QED BY <1>g, <2>3, <3>1, <3>2 DEF RowSet
  <2> QED BY <1>6, <2>1, <2>2, <2>3, MonitorFacts
<1>7. ASSUME NEW r \in Requests, NEW s \in HookStatuses, Webhook(r, s) PROVE RecordTruth'
  BY <1>7, <1>b, WebhookFacts
<1>8. CASE CallEnds
  <2>1. ASSUME NEW id, RowsSet(id, "stopped") PROVE RecordTruth' BY <1>g, <2>1 DEF RowsSet, Weak
  <2> QED BY <1>8, <1>a, <1>b, <2>1, CallEndsFacts
<1>9. ASSUME NEW r \in Requests, EngineStep(r) \/ Answered(r) PROVE UNCHANGED rec BY <1>9, EngineFacts
<1>10. ASSUME NEW r \in Requests, Pause(r) \/ Resume(r) PROVE UNCHANGED rec BY <1>10, PauseResumeFacts
<1> QED BY <1>1, <1>2, <1>3, <1>4, <1>5, <1>6, <1>7, <1>8, <1>9, <1>10, <1>a, Steps
        DEF vars, CreateSession, Submit, Status, CtxDone, Settle, CleanupSession, Deadline, StopPerf,
            StopSession, CheckWaiting
-----------------------------------------------------------------------------
(* The invariant, and what it says of the code.                             *)

\* At the start no request has an id, no session and no monitor exists.
LEMMA InitIInv == Init => IInv
<1> SUFFICES ASSUME Init PROVE IInv OBVIOUS
<1>1. PICK m \in Mixes :
         req = [r \in Requests |->
                  [pc |-> "idle", kind |-> m.requests[r].kind, persist |-> m.requests[r].persist,
                   size |-> m.requests[r].size, id |-> <<"none", 0>>, ctx |-> "live",
                   outcome |-> "none", status |-> "none"]]
  BY DEF Init
<1>2. m.requests \in [Requests -> [kind : {"sse", "blocking", "perf", "none"}, persist : BOOLEAN, size : Nat]]
  BY <1>1, MixesAssumption
<1>3. ASSUME NEW r \in Requests
      PROVE  /\ req[r].pc = "idle" /\ req[r].id = <<"none", 0>> /\ req[r].ctx = "live"
             /\ req[r].outcome = "none" /\ req[r].status = "none"
             /\ req[r] \in HandlerRecords
  <2>1. <<"none", 0>> \in Ids BY DEF Ids
  <2>2. m.requests[r] \in [kind : {"sse", "blocking", "perf", "none"}, persist : BOOLEAN, size : Nat] BY <1>2
  <2> QED BY <1>1, <2>1, <2>2 DEF HandlerRecords, PCs, Contexts, Results, Summaries
<1>4. ASSUME NEW r \in Requests
      PROVE  /\ rec[r].status = "none" /\ ~session[r].closed /\ ~writer[r].closed /\ ~writer[r].completed
             /\ eng[r].status = "none" /\ mon[r].pc = "none" /\ mon[r].status = "none" /\ mon[r].report = "none" /\ ~lost[r]
  BY DEF Init
<1>5. DOMAIN sessions = {} /\ call.op = "none" BY DEF Init, NoCall
<1>6. Types
  <2>1. req \in [Requests -> HandlerRecords] BY <1>1, <1>3
  <2>2. rec \in [Requests -> Rows] BY DEF Init, Rows, RowStatuses
  <2>3. sessions \in [DOMAIN sessions -> Requests] BY DEF Init
  <2>4. session \in [Requests -> Sessions] BY DEF Init, Sessions, SessionStatuses
  <2>5. writer \in [Requests -> Writers] BY DEF Init, Writers
  <2>6. eng \in [Requests -> Executions] BY DEF Init, Executions, Runs
  <2>7. mon \in [Requests -> MonitorStates] BY DEF Init, MonitorStates, Places, Seen
  <2>8. mapped \subseteq Requests /\ lost \in [Requests -> BOOLEAN] BY DEF Init
  <2> QED BY <2>1, <2>2, <2>3, <2>4, <2>5, <2>6, <2>7, <2>8 DEF Types
<1>7. CallTypes BY <1>5 DEF CallTypes
<1>8. Kinds BY <1>3, <1>4, <1>5 DEF Kinds
<1>9. Outcomes BY <1>3, <1>4 DEF Outcomes, Outcome
<1>10. Monitors BY <1>3, <1>4 DEF Monitors, MonitorOf
<1>11. Found BY <1>3, <1>4, <1>5 DEF Found, IsTerminal
<1>12. SessionMap BY <1>3, <1>4, <1>5 DEF SessionMap, Live
<1>13. Followed /\ LostRuns BY <1>4 DEF Followed, LostRuns
<1>14. RecordTruth BY <1>4 DEF RecordTruth
<1> QED BY <1>6, <1>7, <1>8, <1>9, <1>10, <1>11, <1>12, <1>13, <1>14 DEF IInv

\* The invariant holds at the start and every step of the handlers, the
\* monitors, the engine and the users keeps it.
THEOREM Inductive == Spec => []IInv
<1>1. IInv /\ [Next]_vars => IInv'
  <2> SUFFICES ASSUME IInv, [Next]_vars PROVE IInv' OBVIOUS
  <2> USE DEF IInv
  <2>1. Types' BY TypesStep
  <2>2. CallTypes' BY CallTypesStep
  <2>3. Kinds' BY KindsStep
  <2>4. Outcomes' BY OutcomesStep
  <2>5. Monitors' BY MonitorsStep
  <2>6. Found' BY FoundStep
  <2>7. SessionMap' BY SessionMapStep
  <2>8. Followed' /\ LostRuns' BY FollowedStep, LostRunsStep
  <2>9. RecordTruth' BY RecordTruthStep
  <2> QED BY <2>1, <2>2, <2>3, <2>4, <2>5, <2>6, <2>7, <2>8, <2>9
<1> QED BY InitIInv, <1>1, PTL DEF Spec

\* CreateSession and CleanupSession: an id leads to the one request that runs
\* under it, and every stream can be reached under its own, whatever session
\* ids the clients send and however their requests overlap.
THEOREM SessionsAgreeTheorem == Spec => []SessionsAgree
<1>1. IInv => SessionsAgree BY DEF IInv, SessionMap, SessionsAgree, Live
<1> QED BY Inductive, <1>1, PTL

\* Summary, monitorExecution and StopExecution: what a row says of its run is
\* true of a request with its id, for any overlap of requests that share it.
THEOREM RecordTruthTheorem == Spec => []RecordTruth
<1>1. IInv => RecordTruth BY DEF IInv
<1> QED BY Inductive, <1>1, PTL

\* The row of a performance run shows a terminal status of its monitor only with the
\* report saved or refused by SaveFromReport, or every attempt to fetch it spent.
THEOREM ReportFirstTheorem == Spec => []ReportFirst
<1>1. IInv => ReportFirst BY DEF IInv, Found, Monitors, MonitorOf, ReportFirst
<1> QED BY Inductive, <1>1, PTL

\* Stop, Pause and Resume find a performance run as long as its monitor follows it,
\* unless a webhook has written its row.
THEOREM CallFindsRunTheorem == Spec => []CallFindsRun
<1>1. IInv => CallFindsRun BY DEF IInv, LostRuns, CallFindsRun
<1> QED BY Inductive, <1>1, PTL

\* A run that its handler has seen to its end (waitForCompletion) is over in
\* the engine, so no callback sends an event after workflow_completed.
THEOREM CompletionIsLastTheorem == Spec => CompletionIsLast
<1> DEFINE Last == \A r \in Requests : writer[r].completed /\ req[r].outcome # "ctx" => writer'[r].sent = writer[r].sent
<1>1. IInv /\ [Next]_vars => Last
  <2> SUFFICES ASSUME IInv, [Next]_vars, NEW q \in Requests, writer[q].completed, req[q].outcome # "ctx"
               PROVE  writer'[q].sent = writer[q].sent
    OBVIOUS
  <2> USE DEF IInv
  <2>1. eng[q].status # "running" BY DEF Outcomes, Outcome
  <2>2. ASSUME NEW r \in Requests, EngineStep(r) \/ Answered(r) PROVE writer'[q].sent = writer[q].sent
    BY <2>1, <2>2, EngineFacts
  <2>3. ASSUME NEW r \in Requests, Settle(r) PROVE writer'[q].sent = writer[q].sent BY <2>3, SettleFacts
  <2>4. ASSUME NEW r \in Requests, CleanupSession(r) PROVE writer'[q].sent = writer[q].sent BY <2>4, CleanupFacts
  <2>5. ASSUME NEW r \in Requests, MonitorStep(r) PROVE UNCHANGED writer BY <2>5, MonitorFacts
  <2>6. ASSUME NEW r \in Requests, Pause(r) \/ Resume(r) PROVE UNCHANGED writer BY <2>6, PauseResumeFacts
  <2>7. ASSUME CallEnds PROVE UNCHANGED writer BY <2>7, CallEndsFacts
  <2> QED BY <2>2, <2>3, <2>4, <2>5, <2>6, <2>7, Steps
        DEF vars, Execute, ExecutePerf, CreateSession, Submit, Status, CtxDone, UpdateExecutionStatus, SubmitPerf,
            MarkRunning, Deadline, StopPerf, Webhook, StopSession, CheckWaiting
<1> QED BY Inductive, <1>1, PTL DEF CompletionIsLast, Spec

-----------------------------------------------------------------------------
(* The documents of a knowledge base.  What a goroutine relies on while it   *)
(* runs alone is said place by place: its rows, the collection, what it has  *)
(* written so far of its first document, and what it has deleted.            *)

Configs  == [text : Nat, image : Nat]
SegTypes == [job : Jobs, doc : Docs, pos : Nat, kind : {"text", "image"}, enabled : BOOLEAN, text : Nat]
RowTypes == [status : {"new", "waiting", "parsing", "splitting", "indexing", "completed", "error", "deleted"},
             setting : Nat, count : Nat, orphan : BOOLEAN]
JobPcs   == Processing \cup {"idle", "done", "failed", "delvectors", "delfile", "dropcoll", "droprows",
                             "dropdir", "reembed", "findseg", "reupsert", "unembed"}
JobTypes == [pc : JobPcs, docs : SUBSET Docs, dim : Nat, imgdim : Nat, multimodal : BOOLEAN, config : Configs,
             settings : [Docs -> Nat], field : {"text", "image"}, total : Nat,
             seg : SegTypes \cup {NoSeg}, refused : BOOLEAN, left : BOOLEAN, extra : Nat,
             remade : BOOLEAN, calm : BOOLEAN]

BaseTypes == [deleted : BOOLEAN, dim : Dims, imgdim : ImageDims \cup {0}, multimodal : BOOLEAN, config : Configs]

StoreTypes ==
    /\ kb \in BaseTypes
    /\ row \in [Docs -> RowTypes]
    /\ segs \subseteq SegTypes
    /\ coll \in Configs

IndexTypes == StoreTypes /\ job \in [Jobs -> JobTypes]

\* The config that an Update of the base has read.
UpdateTypes == update.config \in Configs

\* A goroutine that works on documents has one left.
DocPcs  == Processing \cup {"failed", "delvectors", "delfile"}
HasDocs == \A j \in Jobs : job[j].pc \in DocPcs => job[j].docs # {}

\* A goroutine that is calm is the only one.
CalmAlone == \A i, j \in Jobs : job[j].calm /\ Active(j) /\ Active(i) => i = j

\* ... and none of its statements fails.
CalmHeeded == \A j \in Jobs : job[j].calm => ~job[j].refused

Connecting == {"ensure", "rebuild", "create", "make", "config"}
Writing    == {"wipevectors", "wipesegments", "upsert", "segments", "images"}
Indexing   == Connecting \cup Writing \cup {"complete"}

\* The documents of a batch that are left still have their rows.
RowsThere(j) ==
    /\ job[j].pc \in Processing \cup {"failed"} =>
         job[j].dim > 0 /\ \A d \in job[j].docs : Exists(d)
    /\ job[j].pc \in Indexing => row[Doc(j)].status = "indexing"
    /\ job[j].pc \in {"parsing", "splitting"} => Text(j)

\* What Ensure found is still so, and a collection that has taken the text of
\* the document has, when its images come, the field for it, made anew or not.
Collection(j) ==
    /\ In(j, "dropcoll") => kb.deleted
    /\ In(j, "rebuild") => \/ Wanted(j).text > 0 /\ coll.text # Wanted(j).text
                           \/ Wanted(j).image > 0 /\ coll.image \notin {0, Wanted(j).image}
    /\ job[j].pc \in {"create", "make"} => ~CollExists
    /\ job[j].pc \in Connecting /\ Text(j) => Chunks(j) > 0
    /\ job[j].pc \in {"wipevectors", "wipesegments"} => (Text(j) <=> Chunks(j) > 0)
    /\ job[j].pc \in Indexing /\ (job[j].pc \in Writing \/ ~Text(j)) /\ Chunks(j) > 0 =>
         job[j].config.text = job[j].dim
    /\ /\ job[j].pc \in Indexing \ {"create", "make"}
       /\ job[j].pc \in {"segments", "images"} \/ ~Text(j)
       /\ Chunks(j) > 0
       => coll.text = job[j].dim

\* The point and the row of a position: the images come after the text.
KindAt(j, i) == IF i < Chunks(j) THEN "text" ELSE "image"
PointAt(j, i) == [doc |-> Doc(j), pos |-> i, kind |-> KindAt(j, i), text |-> 0]
SegAt(j, i) == [job |-> j, doc |-> Doc(j), pos |-> i, kind |-> KindAt(j, i), enabled |-> TRUE, text |-> 0]

\* The collection, or the table, holds the first n positions and nothing else
\* of the document.
Stored(j, n) ==
    /\ PointsOf(Doc(j)) = {PointID(Doc(j), i) : i \in 0 .. (n - 1)}
    /\ \A i \in 0 .. (n - 1) : points[PointID(Doc(j), i)] = PointAt(j, i)
Listed(j, n) == SegsOf(Doc(j)) = {SegAt(j, i) : i \in 0 .. (n - 1)} /\ job[j].total = n + job[j].extra

\* Once the collection was made anew for the images nothing is said of it.
Contents(j) ==
    /\ job[j].pc \in Processing \ {"complete"} => job[j].extra = 0
    /\ job[j].pc \in Processing /\ job[j].remade => Chunks(j) > 0
    /\ job[j].pc \in {"parsing", "splitting", "wipevectors", "wipesegments"} => job[j].total = 0
    /\ job[j].pc \in Connecting /\ Text(j) => job[j].total = 0
    /\ In(j, "wipesegments") => Stored(j, 0)
    /\ In(j, "upsert") /\ Text(j) => Stored(j, 0) /\ Listed(j, 0)
    /\ In(j, "segments") /\ Text(j) => Stored(j, Chunks(j)) /\ Listed(j, 0)
    /\ In(j, "images") => Stored(j, Chunks(j)) /\ Listed(j, Chunks(j))
    /\ job[j].pc \in Connecting \cup {"upsert"} /\ ~Text(j) /\ ~job[j].remade =>
         Stored(j, Chunks(j)) /\ Listed(j, Chunks(j))
    /\ In(j, "segments") /\ ~Text(j) /\ ~job[j].remade => Stored(j, Chunks(j) + 1) /\ Listed(j, Chunks(j))
    /\ In(j, "complete") /\ ~job[j].remade => \E n \in Nat : Stored(j, n) /\ Listed(j, n)

\* What a deletion has behind it.
Deletion(j) ==
    /\ job[j].pc \in {"delvectors", "delfile"} => \A d \in job[j].docs : SegsOf(d) = {}
    /\ In(j, "delfile") => PointsOf(Doc(j)) = {}
    /\ job[j].pc \in {"droprows", "dropdir"} => points = NoPoints
    /\ In(j, "dropdir") => segs = {}

Sound(j) == RowsThere(j) /\ Collection(j) /\ Contents(j) /\ Deletion(j)

IndexInv == IndexTypes /\ HasDocs /\ CalmAlone /\ CalmHeeded /\ \A j \in Jobs : job[j].calm => Sound(j)

-----------------------------------------------------------------------------
(* Facts about one goroutine.                                                *)

\* The dimensions of the models: one without images has none for them.
LEMMA DimensionFacts ==
    (\A x \in Dims : x \in Nat /\ x > 0) /\ \A x \in ImageDims \cup {0} : x \in Nat
<1>1. \A x \in Dims : x \in Nat /\ x > 0 BY DimsAssumption
<1>2. \A x \in ImageDims : x \in Nat BY ImageDimsAssumption
<1> QED BY <1>1, <1>2

\* A set of natural numbers that is not empty has a least element.
LEMMA LeastElement ==
    ASSUME NEW S \in SUBSET Nat, S # {}
    PROVE  \E n \in S : \A m \in S : n <= m
<1> DEFINE Less == OpToRel(<, Nat)
<1>1. IsWellFoundedOn(Less, Nat) BY NatLessThanWellFounded
<1>2. \A m, n \in Nat : m < n => <<m, n>> \in Less BY DEF OpToRel
<1> HIDE DEF Less
<1>3. \E n \in S : \A m \in S : ~(<<m, n>> \in Less) BY <1>1, WFMin
<1>4. PICK n \in S : \A m \in S : ~(<<m, n>> \in Less) BY <1>3
<1>5. ASSUME NEW m \in S PROVE n <= m
  <2>1. ~(m < n) BY <1>2, <1>4, <1>5
  <2> QED BY <2>1
<1> QED BY <1>5

\* The first document of a goroutine is one of its documents.
LEMMA DocFacts ==
    ASSUME IndexTypes, NEW j \in Jobs, job[j].docs # {}
    PROVE  Doc(j) \in job[j].docs /\ Doc(j) \in Docs
<1>1. job[j].docs \in SUBSET Docs BY DEF IndexTypes, JobTypes
<1>2. job[j].docs \in SUBSET Nat BY <1>1, DocsAssumption
<1>3. \E d \in job[j].docs : \A e \in job[j].docs : d <= e BY <1>2, LeastElement
<1>4. Doc(j) \in job[j].docs BY <1>3 DEF Doc
<1> QED BY <1>1, <1>4

\* Nothing is said of a goroutine that is not running.
LEMMA AtRest ==
    ASSUME NEW j \in Jobs, job'[j].pc \in {"idle", "done"}
    PROVE  Sound(j)'
BY DEF Sound, RowsThere, Collection, Contents, Deletion, In, Processing, Connecting, Writing, Indexing

\* The fields that most steps leave alone, and what depends on them only.
SameWork(j) ==
    /\ job'[j].docs = job[j].docs /\ job'[j].settings = job[j].settings
    /\ job'[j].dim = job[j].dim /\ job'[j].calm = job[j].calm
SameNotes(j) ==
    /\ job'[j].imgdim = job[j].imgdim /\ job'[j].extra = job[j].extra /\ job'[j].remade = job[j].remade

\* A goroutine with the same documents and settings is at the same document with the
\* same number of chunks.
LEMMA SameDoc ==
    ASSUME NEW j \in Jobs, job'[j].docs = job[j].docs, job'[j].settings = job[j].settings
    PROVE  Doc(j)' = Doc(j) /\ Chunks(j)' = Chunks(j)
BY DEF Doc, Chunks

\* Stored and Listed look at the document, its chunks, and one store each.
LEMMA SameContents ==
    ASSUME NEW j \in Jobs, job'[j].docs = job[j].docs, job'[j].settings = job[j].settings
    PROVE  /\ UNCHANGED points => \A n : Stored(j, n)' <=> Stored(j, n)
           /\ UNCHANGED segs /\ job'[j].total = job[j].total /\ job'[j].extra = job[j].extra =>
                \A n : Listed(j, n)' <=> Listed(j, n)
<1>1. Doc(j)' = Doc(j) /\ Chunks(j)' = Chunks(j) BY SameDoc
<1>2. \A i : PointAt(j, i)' = PointAt(j, i) /\ SegAt(j, i)' = SegAt(j, i)
  BY <1>1 DEF PointAt, SegAt, KindAt
<1>3. ASSUME UNCHANGED points PROVE \A n : Stored(j, n)' <=> Stored(j, n)
  BY <1>1, <1>2, <1>3 DEF Stored, PointsOf, PointID
<1>4. ASSUME UNCHANGED segs, job'[j].total = job[j].total, job'[j].extra = job[j].extra
      PROVE  \A n : Listed(j, n)' <=> Listed(j, n)
  BY <1>1, <1>2, <1>4 DEF Listed, SegsOf
<1> QED BY <1>3, <1>4

\* A goroutine moves on and the others stay where they are.
LEMMA JobMoves ==
    ASSUME IndexTypes, NEW j \in Jobs, NEW p \in JobPcs, Go(j, p)
    PROVE  /\ job' \in [Jobs -> JobTypes] /\ \A i \in Jobs \ {j} : job'[i] = job[i]
           /\ job'[j].pc = p /\ SameWork(j)
           /\ job'[j].field = job[j].field /\ job'[j].total = job[j].total
           /\ job'[j].config = job[j].config /\ SameNotes(j) /\ ~job'[j].refused
<1>1. job[j] \in JobTypes /\ job' = [job EXCEPT ![j] = [job[j] EXCEPT !.pc = p, !.refused = FALSE]]
  BY DEF Go, IndexTypes
<1>2. PICK r : r = [job[j] EXCEPT !.pc = p, !.refused = FALSE] OBVIOUS
<1>3. /\ r \in JobTypes /\ r.pc = p /\ r.docs = job[j].docs /\ r.settings = job[j].settings
      /\ r.dim = job[j].dim /\ r.calm = job[j].calm /\ r.field = job[j].field /\ r.total = job[j].total
      /\ r.config = job[j].config /\ r.imgdim = job[j].imgdim /\ r.extra = job[j].extra
      /\ r.remade = job[j].remade /\ ~r.refused
  BY <1>1, <1>2 DEF JobTypes
<1>4. job'[j] = r /\ job' \in [Jobs -> JobTypes] /\ \A i \in Jobs \ {j} : job'[i] = job[i]
  BY <1>1, <1>2, <1>3 DEF IndexTypes
<1> QED BY <1>3, <1>4 DEF SameWork, SameNotes

\* ... and with it what it works on.
LEMMA MovesWork ==
    ASSUME IndexTypes, NEW j \in Jobs, NEW p \in JobPcs, Go(j, p)
    PROVE  /\ Doc(j)' = Doc(j) /\ Chunks(j)' = Chunks(j) /\ Wanted(j)' = Wanted(j)
           /\ Text(j)' <=> Text(j)
           /\ UNCHANGED points => \A n : Stored(j, n)' <=> Stored(j, n)
           /\ UNCHANGED segs => \A n : Listed(j, n)' <=> Listed(j, n)
<1>1. /\ job'[j].docs = job[j].docs /\ job'[j].settings = job[j].settings
      /\ job'[j].dim = job[j].dim /\ job'[j].config = job[j].config
      /\ job'[j].field = job[j].field /\ job'[j].total = job[j].total
      /\ job'[j].imgdim = job[j].imgdim /\ job'[j].extra = job[j].extra
  BY JobMoves DEF SameWork, SameNotes
<1> QED BY <1>1, SameDoc, SameContents DEF Wanted, Text

\* A step of one goroutine: what the others rely on is not touched, since a
\* calm one would be alone.
LEMMA OneStep ==
    ASSUME IndexInv, NEW j \in Jobs, Active(j), IndexTypes', \A i \in Jobs \ {j} : job'[i] = job[i],
           job'[j].pc \in DocPcs => job'[j].docs # {},
           job'[j].calm => job[j].calm /\ ~job'[j].refused, job'[j].calm => Sound(j)'
    PROVE  IndexInv'
<1>1. CalmAlone' BY DEF IndexInv, CalmAlone, Active
<1>2. ASSUME NEW i \in Jobs, i # j, job'[i].calm PROVE Sound(i)'
  <2>1. job[i].calm /\ ~Active(i) BY <1>2 DEF IndexInv, CalmAlone
  <2>2. job'[i].pc \in {"idle", "done"} BY <1>2, <2>1 DEF Active
  <2> QED BY <2>2, AtRest
<1>3. HasDocs' /\ CalmHeeded' BY DEF IndexInv, HasDocs, CalmHeeded
<1> QED BY <1>1, <1>2, <1>3 DEF IndexInv

\* ... that moves on with the same documents.
LEMMA GoStep ==
    ASSUME IndexInv, NEW j \in Jobs, job[j].pc \in DocPcs, NEW p \in JobPcs, Go(j, p), StoreTypes',
           job[j].calm => Sound(j)'
    PROVE  IndexInv'
<1>1. /\ job' \in [Jobs -> JobTypes] /\ \A i \in Jobs \ {j} : job'[i] = job[i]
      /\ SameWork(j) /\ ~job'[j].refused
  BY JobMoves DEF IndexInv
<1>2. IndexTypes' BY <1>1 DEF IndexTypes
<1>3. Active(j) BY DEF Active, DocPcs, Processing
<1>4. job'[j].docs # {} BY <1>1 DEF IndexInv, HasDocs, SameWork
<1> QED BY <1>1, <1>2, <1>3, <1>4, OneStep DEF SameWork

\* A goroutine has a number of chunks as long as it has a document.
LEMMA ChunksNat ==
    ASSUME IndexTypes, NEW j \in Jobs, job[j].docs # {} PROVE Chunks(j) \in Nat
BY DocFacts DEF IndexTypes, JobTypes, Chunks

\* Between the first write of the index and the end the row is left alone.
LEMMA RowsKept ==
    ASSUME NEW j \in Jobs, job[j].pc \in Indexing, job'[j].pc \in Indexing \cup {"failed"},
           SameWork(j), UNCHANGED row, RowsThere(j)
    PROVE  RowsThere(j)'
<1>1. Doc(j)' = Doc(j) BY SameDoc DEF SameWork
<1> QED BY <1>1 DEF RowsThere, Exists, SameWork, Processing, Indexing, Connecting, Writing

\* What is known of a calm goroutine in the middle of the indexing.
LEMMA Midway ==
    ASSUME IndexInv, NEW j \in Jobs, job[j].calm, job[j].pc \in Indexing
    PROVE  /\ Sound(j) /\ Doc(j) \in job[j].docs /\ Doc(j) \in Docs
           /\ Chunks(j) \in Nat /\ job[j].dim > 0 /\ job[j].dim \in Nat
<1>1. Sound(j) /\ IndexTypes BY DEF IndexInv
<1>2. job[j].docs # {} /\ job[j].dim > 0
  BY <1>1 DEF IndexInv, HasDocs, DocPcs, Sound, RowsThere, Processing, Indexing, Connecting, Writing
<1> QED BY <1>1, <1>2, DocFacts, ChunksNat DEF IndexTypes, JobTypes

\* Without points nothing is stored.
LEMMA NoneStored ==
    ASSUME NEW j \in Jobs, PointsOf(Doc(j))' = {} PROVE Stored(j, 0)'
<1>1. 0 .. (0 - 1) = {} OBVIOUS
<1> QED BY <1>1 DEF Stored

-----------------------------------------------------------------------------
(* The steps of Process.                                                     *)

\* Status of a row: SetStatus keeps the types and touches one row that exists.
LEMMA StatusFacts ==
    ASSUME IndexTypes, NEW j \in Jobs,
           NEW st \in {"parsing", "splitting", "indexing"}, SetStatus(j, st)
    PROVE  /\ row' \in [Docs -> RowTypes]
           /\ \A d \in Docs : Exists(d) => Exists(d)'
           /\ ~job[j].refused => \A d \in Docs : d = Doc(j) /\ Exists(d) => row'[d].status = st
<1>1. row \in [Docs -> RowTypes] BY DEF IndexTypes, StoreTypes
<1>2. CASE ~Exists(Doc(j)) \/ job[j].refused BY <1>1, <1>2 DEF SetStatus, Exists
<1>3. CASE Exists(Doc(j)) /\ ~job[j].refused
  <2>1. row' = [row EXCEPT ![Doc(j)].status = st] BY <1>3 DEF SetStatus
  <2>2. ASSUME NEW d \in Docs PROVE row'[d] \in RowTypes /\ (Exists(d) => Exists(d)')
                                     /\ (d = Doc(j) => row'[d].status = st)
    <3>1. CASE d = Doc(j)
      <4>1. row'[d] = [row[d] EXCEPT !.status = st] BY <1>1, <2>1, <3>1
      <4>2. row[d] \in RowTypes BY <1>1
      <4> QED BY <4>1, <4>2 DEF RowTypes, Exists
    <3>2. CASE d # Doc(j) BY <1>1, <2>1, <3>2 DEF Exists
    <3> QED BY <3>1, <3>2
  <2>3. row' = [d \in Docs |-> row'[d]] BY <1>1, <2>1
  <2> QED BY <2>2, <2>3
<1> QED BY <1>2, <1>3

\* The steps of processKnowledgeDocument, in their order, keep the invariant.  Parsing
\* goes on to splitting or fails, with the row marked.
LEMMA ParseKeeps == ASSUME IndexInv, NEW j \in Jobs, Parse(j) PROVE IndexInv'
<1>1. IndexTypes /\ In(j, "parsing") /\ UNCHANGED <<kb, segs, coll, points>>
  BY DEF IndexInv, Parse
<1>2. PICK p \in {"splitting", "failed"} : Go(j, p) BY DEF Parse
<1>3. /\ job' \in [Jobs -> JobTypes] /\ \A i \in Jobs \ {j} : job'[i] = job[i]
      /\ job'[j].pc = p /\ SameWork(j) /\ SameNotes(j) /\ ~job'[j].refused
      /\ job'[j].field = job[j].field /\ job'[j].total = job[j].total
  BY <1>1, <1>2, JobMoves DEF JobPcs, Processing
<1>4. /\ row' \in [Docs -> RowTypes]
      /\ \A d \in Docs : Exists(d) => Exists(d)'
  BY <1>1, StatusFacts DEF Parse
<1>5. IndexTypes' BY <1>1, <1>3, <1>4 DEF IndexTypes, StoreTypes
<1>6. ASSUME job[j].calm PROVE Sound(j)'
  <2>1. Sound(j) BY <1>6 DEF IndexInv
  <2>2. job[j].docs \subseteq Docs BY <1>1 DEF IndexTypes, JobTypes
  <2>3. RowsThere(j)'
    BY <1>1, <1>3, <1>4, <2>1, <2>2
       DEF Sound, RowsThere, In, Text, SameWork, Processing, Indexing, Connecting, Writing
  <2>4. Collection(j)' BY <1>3 DEF Collection, In, Indexing, Connecting, Writing
  <2>5. Contents(j)'
    BY <1>1, <1>3, <2>1, SameDoc DEF Sound, Contents, In, Connecting, Processing, SameNotes, SameWork
  <2>6. Deletion(j)' BY <1>3 DEF Deletion, In
  <2> QED BY <2>3, <2>4, <2>5, <2>6 DEF Sound
<1>7. Active(j) /\ job'[j].docs # {}
  BY <1>1, <1>3 DEF In, Active, IndexInv, HasDocs, DocPcs, Processing, SameWork
<1> QED BY <1>3, <1>5, <1>6, <1>7, OneStep DEF SameWork

\* Splitting decides which collection the text goes to, or that there is no text.
LEMMA SplitKeeps == ASSUME IndexInv, NEW j \in Jobs, Split(j) PROVE IndexInv'
<1>1. IndexTypes /\ In(j, "splitting") /\ UNCHANGED <<kb, segs, coll, points>>
  BY DEF IndexInv, Split
<1>2. PICK p \in {"failed", "ensure", "wipevectors"}, f \in {"text", "image"} :
        /\ job' = [job EXCEPT ![j] = [job[j] EXCEPT !.pc = p, !.refused = FALSE, !.field = f]]
        /\ p = "failed" => SetStatus(j, "splitting")
        /\ p # "failed" => SetStatus(j, "indexing")
        /\ p = "ensure" => f = "text" /\ Chunks(j) > 0
        /\ p = "wipevectors" => f = "image" /\ ~(Chunks(j) > 0)
  <2>1. CASE Chunks(j) = 0 /\ ~HasImages(j)
    <3>1. job' = [job EXCEPT ![j].pc = "failed", ![j].refused = FALSE] /\ SetStatus(j, "splitting")
      BY <2>1 DEF Split, Go
    <3>2. job[j].field \in {"text", "image"} BY <1>1 DEF IndexTypes, JobTypes
    <3>3. [job[j] EXCEPT !.pc = "failed", !.refused = FALSE] =
          [job[j] EXCEPT !.pc = "failed", !.refused = FALSE, !.field = job[j].field]
      BY <1>1 DEF IndexTypes, JobTypes
    <3>4. job' = [job EXCEPT ![j] = [job[j] EXCEPT !.pc = "failed", !.refused = FALSE, !.field = job[j].field]]
      BY <1>1, <3>1, <3>3 DEF IndexTypes
    <3> QED BY <3>1, <3>2, <3>4
  <2>2. CASE ~(Chunks(j) = 0 /\ ~HasImages(j))
    <3>1. CASE Chunks(j) > 0 BY <2>2, <3>1 DEF Split
    <3>2. CASE ~(Chunks(j) > 0) BY <2>2, <3>2 DEF Split
    <3> QED BY <3>1, <3>2
  <2> QED BY <2>1, <2>2
<1>3. /\ job' \in [Jobs -> JobTypes] /\ \A i \in Jobs \ {j} : job'[i] = job[i]
      /\ job'[j].pc = p /\ SameWork(j) /\ SameNotes(j) /\ ~job'[j].refused
      /\ job'[j].field = f /\ job'[j].total = job[j].total
  <2>1. job[j] \in JobTypes BY <1>1 DEF IndexTypes
  <2>2. p \in JobPcs BY DEF JobPcs, Processing
  <2>3. PICK r : r = [job[j] EXCEPT !.pc = p, !.refused = FALSE, !.field = f] OBVIOUS
  <2>4. /\ r \in JobTypes /\ r.pc = p /\ r.docs = job[j].docs /\ r.settings = job[j].settings
        /\ r.dim = job[j].dim /\ r.calm = job[j].calm /\ r.field = f /\ r.total = job[j].total
        /\ r.imgdim = job[j].imgdim /\ r.extra = job[j].extra /\ r.remade = job[j].remade /\ ~r.refused
    BY <2>1, <2>2, <2>3 DEF JobTypes
  <2>5. job'[j] = r /\ job' \in [Jobs -> JobTypes] /\ \A i \in Jobs \ {j} : job'[i] = job[i]
    BY <1>1, <1>2, <2>3, <2>4 DEF IndexTypes
  <2> QED BY <2>4, <2>5 DEF SameWork, SameNotes
<1>4. /\ row' \in [Docs -> RowTypes]
      /\ \A d \in Docs : Exists(d) => Exists(d)'
      /\ p # "failed" /\ ~job[j].refused =>
           \A d \in Docs : d = Doc(j) /\ Exists(d) => row'[d].status = "indexing"
  BY <1>1, <1>2, StatusFacts
<1>5. IndexTypes' BY <1>1, <1>3, <1>4 DEF IndexTypes, StoreTypes
<1>6. ASSUME job[j].calm PROVE Sound(j)'
  <2>1. Sound(j) /\ ~job[j].refused BY <1>6 DEF IndexInv, CalmHeeded
  <2>2. /\ job[j].docs \subseteq Docs /\ job[j].docs # {} /\ job[j].dim > 0
        /\ \A d \in job[j].docs : Exists(d)
    BY <1>1, <2>1 DEF IndexInv, HasDocs, DocPcs, IndexTypes, JobTypes, Sound, RowsThere, In, Processing
  <2>3. Doc(j)' = Doc(j) /\ Chunks(j)' = Chunks(j) /\ Doc(j) \in job[j].docs /\ Doc(j) \in Docs
    BY <1>1, <1>3, <2>2, SameDoc, DocFacts DEF SameWork
  <2>4. RowsThere(j)'
    BY <1>3, <1>4, <2>1, <2>2, <2>3
       DEF RowsThere, In, SameWork, Processing, Indexing, Connecting, Writing
  <2>5. Collection(j)'
    BY <1>2, <1>3, <2>3 DEF Collection, In, Text, Indexing, Connecting, Writing
  <2>6. Contents(j)'
    BY <1>1, <1>2, <1>3, <2>1, <2>3 DEF Sound, Contents, In, Text, Connecting, Processing, SameNotes
  <2>7. Deletion(j)' BY <1>3 DEF Deletion, In
  <2> QED BY <2>4, <2>5, <2>6, <2>7 DEF Sound
<1>7. Active(j) /\ job'[j].docs # {}
  BY <1>1, <1>3 DEF In, Active, IndexInv, HasDocs, DocPcs, Processing, SameWork
<1> QED BY <1>3, <1>5, <1>6, <1>7, OneStep DEF SameWork

\* EnsureCollection finds what the next step relies on: nothing, another dimension, or
\* the collection that is wanted.
LEMMA EnsureKeeps == ASSUME IndexInv, NEW j \in Jobs, Ensure(j) PROVE IndexInv'
<1>1. IndexTypes /\ In(j, "ensure") /\ UNCHANGED stores BY DEF IndexInv, Ensure
<1>2. PICK p \in {"create", "rebuild", "config"} :
        /\ Go(j, p)
        /\ p = "create" => ~CollExists
        /\ p = "rebuild" => \/ Wanted(j).text > 0 /\ coll.text # Wanted(j).text
                            \/ Wanted(j).image > 0 /\ coll.image \notin {0, Wanted(j).image}
  BY DEF Ensure
<1>3. /\ job' \in [Jobs -> JobTypes] /\ \A i \in Jobs \ {j} : job'[i] = job[i]
      /\ job'[j].pc = p /\ SameWork(j) /\ SameNotes(j) /\ ~job'[j].refused
      /\ job'[j].field = job[j].field /\ job'[j].total = job[j].total /\ job'[j].config = job[j].config
  BY <1>1, <1>2, JobMoves DEF JobPcs, Processing
<1>4. /\ Doc(j)' = Doc(j) /\ Chunks(j)' = Chunks(j) /\ Wanted(j)' = Wanted(j)
      /\ Text(j)' <=> Text(j)
      /\ \A n : Stored(j, n)' <=> Stored(j, n)
      /\ \A n : Listed(j, n)' <=> Listed(j, n)
  BY <1>1, <1>2, MovesWork DEF JobPcs, Processing, stores
<1>5. IndexTypes' BY <1>1, <1>3 DEF IndexTypes, StoreTypes, stores
<1>6. ASSUME job[j].calm PROVE Sound(j)'
  <2>1. Sound(j) BY <1>6 DEF IndexInv
  <2>3. RowsThere(j)'
    BY <1>1, <1>3, <1>4, <2>1
       DEF Sound, RowsThere, Exists, In, SameWork, stores, Processing, Indexing, Connecting, Writing
  <2>4. Collection(j)'
    BY <1>1, <1>2, <1>3, <1>4, <2>1
       DEF Sound, Collection, CollExists, In, SameWork, stores, Indexing, Connecting, Writing
  <2>5. Contents(j)'
    BY <1>1, <1>3, <1>4, <2>1 DEF Sound, Contents, In, Connecting, Processing, SameNotes
  <2>6. Deletion(j)' BY <1>3 DEF Deletion, In
  <2> QED BY <2>3, <2>4, <2>5, <2>6 DEF Sound
<1>7. Active(j) /\ job'[j].docs # {}
  BY <1>1, <1>3 DEF In, Active, IndexInv, HasDocs, DocPcs, Processing, SameWork
<1> QED BY <1>3, <1>5, <1>6, <1>7, OneStep DEF SameWork

\* Rebuilding drops the collection: what is left is to create it.
LEMMA RebuildKeeps == ASSUME IndexInv, NEW j \in Jobs, Rebuild(j) PROVE IndexInv'
<1>1. /\ IndexTypes /\ In(j, "rebuild") /\ UNCHANGED <<kb, row, segs>>
      /\ coll' = NoColl /\ points' = NoPoints /\ job[j] \in JobTypes
  BY DEF IndexInv, IndexTypes, Rebuild
<1>2. StoreTypes' BY <1>1 DEF IndexTypes, StoreTypes, Configs, NoColl
<1>3. PICK b \in BOOLEAN :
        /\ job' = [job EXCEPT ![j] = [job[j] EXCEPT !.pc = "create", !.remade = b]]
        /\ b <=> ~Text(j) /\ Chunks(j) > 0 /\ coll.image \notin {0, Wanted(j).image}
  <2>1. PICK b \in BOOLEAN : b = (~Text(j) /\ Chunks(j) > 0 /\ coll.image \notin {0, Wanted(j).image})
    OBVIOUS
  <2>2. job' = [job EXCEPT ![j] = [job[j] EXCEPT !.pc = "create", !.remade = b]]
    BY <1>1, <2>1 DEF Rebuild, IndexTypes
  <2> QED BY <2>1, <2>2
<1>4. /\ job' \in [Jobs -> JobTypes] /\ \A i \in Jobs \ {j} : job'[i] = job[i]
      /\ job'[j].pc = "create" /\ SameWork(j) /\ job'[j].config = job[j].config
      /\ job'[j].field = job[j].field /\ job'[j].total = job[j].total /\ job'[j].extra = job[j].extra
      /\ job'[j].remade = b /\ job'[j].refused = job[j].refused
  <2>1. PICK q : q = [job[j] EXCEPT !.pc = "create", !.remade = b] OBVIOUS
  <2>2. /\ q \in JobTypes /\ q.pc = "create" /\ q.docs = job[j].docs /\ q.settings = job[j].settings
        /\ q.dim = job[j].dim /\ q.calm = job[j].calm /\ q.config = job[j].config
        /\ q.field = job[j].field /\ q.total = job[j].total /\ q.extra = job[j].extra
        /\ q.remade = b /\ q.refused = job[j].refused
    BY <1>1, <2>1 DEF JobTypes, JobPcs, Processing
  <2>3. job'[j] = q /\ job' \in [Jobs -> JobTypes] /\ \A i \in Jobs \ {j} : job'[i] = job[i]
    BY <1>1, <1>3, <2>1, <2>2 DEF IndexTypes
  <2> QED BY <2>2, <2>3 DEF SameWork
<1>5. IndexTypes' BY <1>2, <1>4 DEF IndexTypes
<1>6. ASSUME job[j].calm PROVE Sound(j)'
  <2>1. Sound(j) /\ Chunks(j) \in Nat BY <1>1, <1>6, Midway DEF In, Indexing, Connecting
  <2>2. /\ Doc(j)' = Doc(j) /\ Chunks(j)' = Chunks(j)
        /\ Text(j)' <=> Text(j)
        /\ \A n : Listed(j, n)' <=> Listed(j, n)
    BY <1>1, <1>4, SameDoc, SameContents DEF SameWork, Text
  <2>3. ~Text(j) /\ Chunks(j) > 0 => b
    <3>1. ~Text(j) /\ Chunks(j) > 0 => Wanted(j).text = coll.text
      BY <1>1, <2>1 DEF Sound, Collection, In, Wanted, Indexing, Connecting
    <3> QED BY <1>1, <1>3, <2>1, <3>1 DEF Sound, Collection
  <2>4. Stored(j, 0)'
    <3>1. PointsOf(Doc(j))' = {} BY <1>1 DEF PointsOf, NoPoints
    <3> QED BY <3>1, NoneStored
  <2>5. RowsThere(j)' BY <1>1, <1>4, <2>1, RowsKept DEF Sound, In, Indexing, Connecting
  <2>6. Collection(j)'
    BY <1>1, <1>4, <2>1, <2>2
       DEF Sound, Collection, CollExists, In, SameWork, Indexing, Connecting, Writing
  <2>7. Contents(j)'
    <3>1. ~Text(j) /\ ~job'[j].remade => Chunks(j) = 0 BY <1>4, <2>1, <2>3
    <3>2. ~Text(j) /\ ~job'[j].remade => Listed(j, 0)
      <4>1. Chunks(j) = 0 /\ ~Text(j) /\ ~job[j].remade => Listed(j, 0)
        BY <1>1, <2>1 DEF Sound, Contents, In, Connecting
      <4>2. Chunks(j) = 0 /\ ~Text(j) => ~job[j].remade
        BY <1>1, <2>1 DEF Sound, Contents, In, Processing
      <4> QED BY <3>1, <4>1, <4>2
    <3> QED BY <1>1, <1>3, <1>4, <2>1, <2>2, <2>4, <3>1, <3>2 DEF Sound, Contents, In, Connecting, Processing
  <2>8. Deletion(j)' BY <1>4 DEF Deletion, In
  <2> QED BY <2>5, <2>6, <2>7, <2>8 DEF Sound
<1>7. Active(j) /\ job'[j].docs # {}
  BY <1>1, <1>4 DEF In, Active, IndexInv, HasDocs, DocPcs, Processing, SameWork
<1>8. job[j].calm => ~job'[j].refused BY <1>4 DEF IndexInv, CalmHeeded
<1> QED BY <1>4, <1>5, <1>6, <1>7, <1>8, OneStep DEF SameWork

\* Creating asks for the collection once more when there is none.
LEMMA CreateKeeps == ASSUME IndexInv, NEW j \in Jobs, Create(j) PROVE IndexInv'
<1>1. IndexTypes /\ In(j, "create") /\ UNCHANGED <<kb, row, segs>> BY DEF IndexInv, Create
<1>2. PICK p \in {"make", "config"} :
        /\ Go(j, p)
        /\ coll' \in {coll, NoColl}
        /\ ~CollExists => p = "make" /\ UNCHANGED <<coll, points>>
  BY DEF Create
<1>3. StoreTypes' BY <1>1, <1>2 DEF IndexTypes, StoreTypes, Configs, NoColl
<1>4. p \in JobPcs /\ job[j].pc \in DocPcs BY <1>1 DEF JobPcs, DocPcs, Processing, In
<1>5. ASSUME job[j].calm PROVE Sound(j)'
  <2>1. Sound(j) BY <1>5 DEF IndexInv
  <2>2. ~CollExists /\ p = "make" /\ UNCHANGED <<coll, points>>
    BY <1>1, <1>2, <2>1 DEF Sound, Collection, In
  <2>3. /\ job'[j].pc = "make" /\ SameWork(j) /\ SameNotes(j) /\ job'[j].total = job[j].total
        /\ job'[j].config = job[j].config
        /\ Doc(j)' = Doc(j) /\ Chunks(j)' = Chunks(j)
        /\ Text(j)' <=> Text(j)
        /\ \A n : Stored(j, n)' <=> Stored(j, n)
        /\ \A n : Listed(j, n)' <=> Listed(j, n)
    BY <1>1, <1>2, <1>4, <2>2, JobMoves, MovesWork
  <2>4. RowsThere(j)' BY <1>1, <2>1, <2>3, RowsKept DEF Sound, In, Indexing, Connecting
  <2>5. Collection(j)'
    BY <1>1, <2>1, <2>2, <2>3
       DEF Sound, Collection, CollExists, In, SameWork, Indexing, Connecting, Writing
  <2>6. Contents(j)' BY <1>1, <2>1, <2>3 DEF Sound, Contents, In, Connecting, Processing, SameNotes
  <2>7. Deletion(j)' BY <2>3 DEF Deletion, In
  <2> QED BY <2>4, <2>5, <2>6, <2>7 DEF Sound
<1> QED BY <1>2, <1>3, <1>4, <1>5, GoStep

\* Making the collection gives it the fields that were wanted.
LEMMA MakeKeeps == ASSUME IndexInv, NEW j \in Jobs, Make(j) PROVE IndexInv'
<1>1. IndexTypes /\ In(j, "make") /\ UNCHANGED <<kb, row, segs, points>> BY DEF IndexInv, Make
<1>2. PICK p \in {"failed", "complete", "config"} :
        /\ Go(j, p)
        /\ p = "config" => coll' = Wanted(j)
        /\ p # "config" => coll' = coll /\ (p = "failed" <=> Text(j))
        /\ ~CollExists /\ Wanted(j).text > 0 => p = "config"
  BY DEF Make, OnError
<1>3. Wanted(j) \in Configs BY <1>1 DEF IndexTypes, JobTypes, Configs, Wanted
<1>4. StoreTypes' BY <1>1, <1>2, <1>3 DEF IndexTypes, StoreTypes
<1>5. p \in JobPcs /\ job[j].pc \in DocPcs BY <1>1 DEF JobPcs, DocPcs, Processing, In
<1>6. ASSUME job[j].calm PROVE Sound(j)'
  <2>1. Sound(j) /\ Chunks(j) \in Nat /\ job[j].dim > 0
    BY <1>1, <1>6, Midway DEF In, Indexing, Connecting
  <2>2. /\ job'[j].pc = p /\ SameWork(j) /\ SameNotes(j) /\ job'[j].total = job[j].total
        /\ job'[j].config = job[j].config
        /\ Doc(j)' = Doc(j) /\ Chunks(j)' = Chunks(j)
        /\ Text(j)' <=> Text(j)
        /\ \A n : Stored(j, n)' <=> Stored(j, n)
        /\ \A n : Listed(j, n)' <=> Listed(j, n)
    BY <1>1, <1>2, <1>5, JobMoves, MovesWork
  <2>3. ~CollExists BY <1>1, <2>1 DEF Sound, Collection, In
  <2>4. ~Text(j) /\ Chunks(j) > 0 => p = "config" /\ coll'.text = job[j].dim
    <3>1. ~Text(j) /\ Chunks(j) > 0 => Wanted(j).text = job[j].dim
      BY <1>1, <2>1 DEF Sound, Collection, In, Wanted, Indexing, Connecting
    <3>2. Wanted(j).text > 0 => p = "config" BY <1>2, <2>3
    <3> QED BY <1>2, <2>1, <3>1, <3>2
  <2>5. RowsThere(j)' BY <1>1, <2>1, <2>2, RowsKept DEF Sound, In, Indexing, Connecting
  <2>6. Collection(j)'
    BY <1>1, <1>2, <2>1, <2>2, <2>4
       DEF Sound, Collection, In, SameWork, Indexing, Connecting, Writing
  <2>7. Contents(j)'
    BY <1>1, <1>2, <2>1, <2>2 DEF Sound, Contents, In, Connecting, Processing, SameNotes
  <2>8. Deletion(j)' BY <2>2 DEF Deletion, In
  <2> QED BY <2>5, <2>6, <2>7, <2>8 DEF Sound
<1> QED BY <1>2, <1>4, <1>5, <1>6, GoStep

\* Saving the collection's fields hands them to the goroutine, which then writes.
LEMMA WriteConfigKeeps == ASSUME IndexInv, NEW j \in Jobs, WriteConfig(j) PROVE IndexInv'
<1>1. /\ IndexTypes /\ In(j, "config") /\ UNCHANGED <<row, segs, coll, points>>
      /\ job[j] \in JobTypes
  BY DEF IndexInv, IndexTypes, WriteConfig
<1>2. PICK c \in Configs, p \in {"wipevectors", "upsert"} :
        /\ job' = [job EXCEPT ![j] = [job[j] EXCEPT !.config = c, !.refused = FALSE, !.pc = p]]
        /\ kb' \in {kb, [kb EXCEPT !.config = c]}
        /\ IF Text(j) THEN c.text = job[j].dim /\ p = "wipevectors"
           ELSE c.text = job[j].config.text /\ p = "upsert"
  <2>1. CASE Text(j)
    <3> DEFINE c == [job[j].config EXCEPT !["text"] = Wanted(j)["text"]]
    <3>1. c \in Configs /\ c.text = job[j].dim
      BY <1>1, <2>1 DEF JobTypes, Configs, Wanted
    <3>2. kb' \in {kb, [kb EXCEPT !.config = c]} BY <2>1 DEF WriteConfig, Text
    <3>3. job' = [job EXCEPT ![j] = [job[j] EXCEPT !.config = c, !.refused = FALSE, !.pc = "wipevectors"]]
      BY <1>1, <2>1 DEF WriteConfig, Text, IndexTypes
    <3> HIDE DEF c
    <3> QED BY <2>1, <3>1, <3>2, <3>3
  <2>2. CASE ~Text(j)
    <3> DEFINE c == [job[j].config EXCEPT !["image"] = Wanted(j)["image"]]
    <3>0. job[j].field = "image" BY <1>1, <2>2 DEF JobTypes, Text
    <3>1. c \in Configs /\ c.text = job[j].config.text
      BY <1>1, <2>2 DEF JobTypes, Configs, Wanted
    <3>2. kb' \in {kb, [kb EXCEPT !.config = c]} BY <3>0 DEF WriteConfig
    <3>3. job' = [job EXCEPT ![j] = [job[j] EXCEPT !.config = c, !.refused = FALSE, !.pc = "upsert"]]
      BY <1>1, <2>2, <3>0 DEF WriteConfig, IndexTypes
    <3> HIDE DEF c
    <3> QED BY <2>2, <3>1, <3>2, <3>3
  <2> QED BY <2>1, <2>2
<1>3. p \in JobPcs BY <1>1 DEF JobPcs, Processing
<1>4. /\ job' \in [Jobs -> JobTypes] /\ \A i \in Jobs \ {j} : job'[i] = job[i]
      /\ job'[j].pc = p /\ SameWork(j) /\ SameNotes(j) /\ job'[j].config = c /\ ~job'[j].refused
      /\ job'[j].field = job[j].field /\ job'[j].total = job[j].total
  <2>1. PICK r : r = [job[j] EXCEPT !.config = c, !.refused = FALSE, !.pc = p] OBVIOUS
  <2>2. /\ r \in JobTypes /\ r.pc = p /\ r.docs = job[j].docs /\ r.settings = job[j].settings
        /\ r.dim = job[j].dim /\ r.calm = job[j].calm /\ r.field = job[j].field /\ r.total = job[j].total
        /\ r.config = c /\ r.imgdim = job[j].imgdim /\ r.extra = job[j].extra
        /\ r.remade = job[j].remade /\ ~r.refused
    BY <1>1, <1>3, <2>1 DEF JobTypes
  <2>3. job'[j] = r /\ job' \in [Jobs -> JobTypes] /\ \A i \in Jobs \ {j} : job'[i] = job[i]
    BY <1>1, <1>2, <2>1, <2>2 DEF IndexTypes
  <2> QED BY <2>2, <2>3 DEF SameWork, SameNotes
<1>5. IndexTypes'
  <2>1. kb' \in BaseTypes BY <1>1, <1>2 DEF IndexTypes, StoreTypes, BaseTypes
  <2> QED BY <1>1, <1>4, <2>1 DEF IndexTypes, StoreTypes
<1>6. ASSUME job[j].calm PROVE Sound(j)'
  <2>1. Sound(j) /\ Chunks(j) \in Nat BY <1>1, <1>6, Midway DEF In, Indexing, Connecting
  <2>2. /\ Doc(j)' = Doc(j) /\ Chunks(j)' = Chunks(j)
        /\ Text(j)' <=> Text(j)
        /\ \A n : Stored(j, n)' <=> Stored(j, n)
        /\ \A n : Listed(j, n)' <=> Listed(j, n)
    BY <1>1, <1>4, SameDoc, SameContents DEF SameWork, SameNotes, Text
  <2>3. RowsThere(j)' BY <1>1, <1>4, <2>1, RowsKept DEF Sound, In, Indexing, Connecting, Writing
  <2>4. Collection(j)'
    BY <1>1, <1>2, <1>4, <2>1, <2>2
       DEF Sound, Collection, In, SameWork, Indexing, Connecting, Writing
  <2>5. Contents(j)'
    BY <1>1, <1>2, <1>4, <2>1, <2>2 DEF Sound, Contents, In, Connecting, Processing, SameNotes
  <2>6. Deletion(j)' BY <1>4 DEF Deletion, In
  <2> QED BY <2>3, <2>4, <2>5, <2>6 DEF Sound
<1>7. Active(j) /\ job'[j].docs # {}
  BY <1>1, <1>4 DEF In, Active, IndexInv, HasDocs, DocPcs, Processing, SameWork
<1> QED BY <1>4, <1>5, <1>6, <1>7, OneStep DEF SameWork

\* Deleting the old points leaves none of the document.
LEMMA WipeVectorsKeeps == ASSUME IndexInv, NEW j \in Jobs, WipeVectors(j) PROVE IndexInv'
<1>1. /\ IndexTypes /\ In(j, "wipevectors") /\ Go(j, "wipesegments") /\ UNCHANGED <<kb, row, segs, coll>>
      /\ points' = [k \in DOMAIN points \ PointsOf(Doc(j)) |-> points[k]]
  BY DEF IndexInv, WipeVectors, Keep, Restrict
<1>2. StoreTypes' BY <1>1 DEF IndexTypes, StoreTypes
<1>3. "wipesegments" \in JobPcs /\ job[j].pc \in DocPcs BY <1>1 DEF JobPcs, DocPcs, Processing, In
<1>4. ASSUME job[j].calm PROVE Sound(j)'
  <2>1. Sound(j) BY <1>4 DEF IndexInv
  <2>2. /\ job'[j].pc = "wipesegments" /\ SameWork(j) /\ SameNotes(j) /\ job'[j].total = job[j].total
        /\ job'[j].config = job[j].config
        /\ Doc(j)' = Doc(j) /\ Chunks(j)' = Chunks(j)
        /\ Text(j)' <=> Text(j)
    BY <1>1, <1>3, JobMoves, MovesWork
  <2>3. Stored(j, 0)'
    <3>1. PointsOf(Doc(j))' = {} BY <1>1, <2>2 DEF PointsOf
    <3> QED BY <3>1, NoneStored
  <2>4. RowsThere(j)' BY <1>1, <2>1, <2>2, RowsKept DEF Sound, In, Indexing, Writing
  <2>5. Collection(j)'
    BY <1>1, <2>1, <2>2 DEF Sound, Collection, In, SameWork, Indexing, Connecting, Writing
  <2>6. Contents(j)' BY <1>1, <2>1, <2>2, <2>3 DEF Sound, Contents, In, Connecting, Processing, SameNotes
  <2>7. Deletion(j)' BY <2>2 DEF Deletion, In
  <2> QED BY <2>4, <2>5, <2>6, <2>7 DEF Sound
<1> QED BY <1>1, <1>2, <1>3, <1>4, GoStep

\* Deleting the old segments leaves none of the document: it starts from nothing.
LEMMA WipeSegmentsKeeps == ASSUME IndexInv, NEW j \in Jobs, WipeSegments(j) PROVE IndexInv'
<1>1. /\ IndexTypes /\ In(j, "wipesegments") /\ UNCHANGED <<kb, row, coll, points>>
      /\ segs' \subseteq segs /\ (~job[j].refused => segs' = segs \ SegsOf(Doc(j)))
  BY DEF IndexInv, WipeSegments
<1>2. PICK p \in {"upsert", "images"} : Go(j, p) /\ (p = "upsert" <=> Text(j)) BY DEF WipeSegments
<1>3. StoreTypes' BY <1>1 DEF IndexTypes, StoreTypes
<1>4. p \in JobPcs /\ job[j].pc \in DocPcs BY <1>1 DEF JobPcs, DocPcs, Processing, In
<1>5. ASSUME job[j].calm PROVE Sound(j)'
  <2>1. Sound(j) /\ Chunks(j) \in Nat /\ ~job[j].refused
    BY <1>1, <1>5, Midway DEF In, Indexing, Writing, IndexInv, CalmHeeded
  <2>2. /\ job'[j].pc = p /\ SameWork(j) /\ SameNotes(j) /\ job'[j].total = job[j].total
        /\ job'[j].config = job[j].config
        /\ Doc(j)' = Doc(j) /\ Chunks(j)' = Chunks(j)
        /\ Text(j)' <=> Text(j)
        /\ \A n : Stored(j, n)' <=> Stored(j, n)
    BY <1>1, <1>2, <1>4, JobMoves, MovesWork
  <2>3. Stored(j, 0)' /\ Listed(j, 0)'
    <3>1. SegsOf(Doc(j))' = {} BY <1>1, <2>1, <2>2 DEF SegsOf
    <3>2. job'[j].total = 0 /\ job'[j].extra = 0
      BY <1>1, <2>1, <2>2 DEF Sound, Contents, In, Processing, SameNotes
    <3>3. 0 .. (0 - 1) = {} OBVIOUS
    <3>4. Listed(j, 0)' BY <3>1, <3>2, <3>3 DEF Listed
    <3>5. Stored(j, 0) BY <1>1, <2>1 DEF Sound, Contents
    <3> QED BY <2>2, <3>4, <3>5
  <2>4. ~Text(j) => Chunks(j) = 0 BY <1>1, <2>1 DEF Sound, Collection, In
  <2>5. RowsThere(j)' BY <1>1, <2>1, <2>2, RowsKept DEF Sound, In, Indexing, Writing
  <2>6. Collection(j)'
    BY <1>1, <1>2, <2>1, <2>2, <2>4 DEF Sound, Collection, In, SameWork, Indexing, Connecting, Writing
  <2>7. Contents(j)'
    BY <1>1, <1>2, <2>1, <2>2, <2>3, <2>4 DEF Sound, Contents, In, Connecting, Processing, SameNotes
  <2>8. Deletion(j)' BY <2>2 DEF Deletion, In
  <2> QED BY <2>5, <2>6, <2>7, <2>8 DEF Sound
<1> QED BY <1>2, <1>3, <1>4, <1>5, GoStep

\* The ids of a document's points are numbered from a first one.
LEMMA PointIds == ASSUME NEW d \in Docs PROVE \E b \in Int : \A i \in Nat : PointID(d, i) = b + i
<1>1. d * Stride \in Int BY DocsAssumption, StrideAssumption
<1> QED BY <1>1 DEF PointID

\* The positions that are written next, and their kind.
LEMMA NextPositions ==
    ASSUME IndexTypes, NEW j \in Jobs, Chunks(j) \in Nat
    PROVE  \E a, b \in Nat :
             /\ a <= b /\ Positions(j) = a .. (b - 1)
             /\ \A i \in a .. (b - 1) : KindAt(j, i) = job[j].field
             /\ Text(j) => a = 0 /\ b = Chunks(j)
             /\ ~Text(j) => a = Chunks(j) /\ b = Chunks(j) + 1
             /\ Cardinality(Positions(j)) = b - a
<1>1. job[j].field \in {"text", "image"} BY DEF IndexTypes, JobTypes
<1>2. PICK n \in Nat : n = Chunks(j) OBVIOUS
<1>3. CASE Text(j)
  <2>1. Positions(j) = 0 .. (n - 1) BY <1>2, <1>3 DEF Positions
  <2>2. \A i \in 0 .. (n - 1) : KindAt(j, i) = "text" BY <1>2 DEF KindAt
  <2>3. Cardinality(0 .. (n - 1)) = n BY FS_Interval
  <2>4. n - 0 = n /\ 0 <= n OBVIOUS
  <2> QED BY <1>2, <1>3, <2>1, <2>2, <2>3, <2>4 DEF Text
<1>4. CASE ~Text(j)
  <2>1. Positions(j) = {n} BY <1>2, <1>4 DEF Positions
  <2>2. {n} = n .. ((n + 1) - 1) OBVIOUS
  <2>3. \A i \in n .. ((n + 1) - 1) : KindAt(j, i) = "image" BY <1>2 DEF KindAt
  <2>4. Cardinality({n}) = 1 BY FS_Singleton
  <2>5. job[j].field = "image" BY <1>1, <1>4 DEF Text
  <2> QED BY <1>2, <1>4, <2>1, <2>2, <2>3, <2>4, <2>5
<1> QED BY <1>3, <1>4

\* Upserting positions a .. b-1 of a document whose first a are stored stores the first b.
LEMMA UpsertStores ==
    ASSUME NEW j \in Jobs, Doc(j) \in Docs, NEW a \in Nat, NEW b \in Nat, a <= b,
           Positions(j) = a .. (b - 1),
           \A i \in a .. (b - 1) : KindAt(j, i) = job[j].field,
           Stored(j, a), Doc(j)' = Doc(j), Chunks(j)' = Chunks(j),
           NEW new, new = [k \in {PointID(Doc(j), i) : i \in Positions(j)} |->
                             [doc |-> Doc(j), pos |-> k - PointID(Doc(j), 0),
                              kind |-> job[j].field, text |-> 0]],
           points' = [k \in DOMAIN new \cup DOMAIN points |->
                        IF k \in DOMAIN new THEN new[k] ELSE points[k]]
    PROVE  Stored(j, b)'
<1> DEFINE d == Doc(j)
<1>1. PICK z \in Int : \A i \in Nat : PointID(d, i) = z + i BY PointIds
<1>2. \A i : PointAt(j, i)' = PointAt(j, i) BY DEF PointAt, KindAt
<1>3. \A k : k \in DOMAIN new <=> \E i \in a .. (b - 1) : k = PointID(d, i) OBVIOUS
<1>4. ASSUME NEW i \in a .. (b - 1)
      PROVE  PointID(d, i) \in DOMAIN new /\ new[PointID(d, i)] = PointAt(j, i)
  <2>1. PointID(d, i) \in DOMAIN new BY <1>3
  <2>2. PointID(d, i) - PointID(d, 0) = i BY <1>1
  <2>3. new[PointID(d, i)] = [doc |-> d, pos |-> PointID(d, i) - PointID(d, 0),
                              kind |-> job[j].field, text |-> 0]
    OBVIOUS
  <2> QED BY <2>1, <2>2, <2>3 DEF PointAt
<1>5. ASSUME NEW i \in 0 .. (a - 1)
      PROVE  /\ PointID(d, i) \notin DOMAIN new /\ PointID(d, i) \in DOMAIN points
             /\ points[PointID(d, i)] = PointAt(j, i)
  <2>1. PointID(d, i) \notin DOMAIN new BY <1>1, <1>3
  <2>2. PointID(d, i) \in PointsOf(d) /\ points[PointID(d, i)] = PointAt(j, i) BY DEF Stored
  <2> QED BY <2>1, <2>2 DEF PointsOf
<1> HIDE DEF d
<1>6. /\ DOMAIN points' = DOMAIN new \cup DOMAIN points
      /\ \A k \in DOMAIN new : points'[k] = new[k]
      /\ \A k \in DOMAIN points \ DOMAIN new : points'[k] = points[k]
  OBVIOUS
<1>7. \A i \in 0 .. (b - 1) : i \in 0 .. (a - 1) \/ i \in a .. (b - 1) OBVIOUS
<1>8. \A i \in 0 .. (b - 1) : PointID(d, i) \in DOMAIN points' /\ points'[PointID(d, i)] = PointAt(j, i)
  BY <1>4, <1>5, <1>6, <1>7
<1>9. \A i : PointAt(j, i).doc = d BY DEF PointAt, d
<1>10. PointsOf(d) = {PointID(d, i) : i \in 0 .. (a - 1)} BY DEF Stored, d
<1>11. ASSUME NEW k \in DOMAIN points', points'[k].doc = d
       PROVE  \E i \in 0 .. (b - 1) : k = PointID(d, i)
  <2>1. CASE k \in DOMAIN new
    <3>1. PICK i \in a .. (b - 1) : k = PointID(d, i) BY <1>3, <2>1
    <3>2. i \in 0 .. (b - 1) OBVIOUS
    <3> QED BY <3>1, <3>2
  <2>2. CASE k \notin DOMAIN new
    <3>1. k \in PointsOf(d) BY <1>6, <1>11, <2>2 DEF PointsOf
    <3>2. PICK i \in 0 .. (a - 1) : k = PointID(d, i) BY <1>10, <3>1
    <3>3. i \in 0 .. (b - 1) OBVIOUS
    <3> QED BY <3>2, <3>3
  <2> QED BY <2>1, <2>2
<1>12. {k \in DOMAIN points' : points'[k].doc = d} = {PointID(d, i) : i \in 0 .. (b - 1)}
  <2>1. \A i \in 0 .. (b - 1) : PointID(d, i) \in DOMAIN points' /\ points'[PointID(d, i)].doc = d
    BY <1>8, <1>9
  <2> DEFINE here == {k \in DOMAIN points' : points'[k].doc = d}
             ids  == {PointID(d, i) : i \in 0 .. (b - 1)}
  <2>2. ids \subseteq here BY <2>1
  <2>3. here \subseteq ids BY <1>11
  <2> QED BY <2>2, <2>3
<1>13. PointsOf(Doc(j))' = {k \in DOMAIN points' : points'[k].doc = d} BY DEF PointsOf, d
<1>14. \A i : PointID(Doc(j), i)' = PointID(d, i) BY DEF PointID, d
<1>15. Doc(j)' = d BY DEF d
<1> QED BY <1>2, <1>8, <1>12, <1>13, <1>14, <1>15 DEF Stored, PointID

\* Inserting the rows of positions a .. b-1 after the first a lists the first b.
LEMMA InsertLists ==
    ASSUME NEW j \in Jobs, NEW a \in Nat, NEW b \in Nat, a <= b,
           Positions(j) = a .. (b - 1),
           \A i \in a .. (b - 1) : KindAt(j, i) = job[j].field,
           Listed(j, a), Doc(j)' = Doc(j), Chunks(j)' = Chunks(j),
           job'[j].total = b + job'[j].extra,
           segs' = segs \cup {[job |-> j, doc |-> Doc(j), pos |-> i, kind |-> job[j].field,
                               enabled |-> TRUE, text |-> 0] : i \in Positions(j)}
    PROVE  Listed(j, b)'
<1>1. \A i : SegAt(j, i)' = SegAt(j, i) /\ SegAt(j, i).doc = Doc(j) BY DEF SegAt, KindAt
<1>2. segs' = segs \cup {SegAt(j, i) : i \in a .. (b - 1)} BY DEF SegAt
<1>3. {s \in segs' : s.doc = Doc(j)} = SegsOf(Doc(j)) \cup {SegAt(j, i) : i \in a .. (b - 1)}
  BY <1>1, <1>2 DEF SegsOf
<1>4. SegsOf(Doc(j)) = {SegAt(j, i) : i \in 0 .. (a - 1)} BY DEF Listed
<1>5. \A i \in 0 .. (b - 1) : i \in 0 .. (a - 1) \/ i \in a .. (b - 1) OBVIOUS
<1>6. \A i : i \in 0 .. (a - 1) \/ i \in a .. (b - 1) => i \in 0 .. (b - 1) OBVIOUS
<1>7. {s \in segs' : s.doc = Doc(j)} = {SegAt(j, i) : i \in 0 .. (b - 1)} BY <1>3, <1>4, <1>5, <1>6
<1>8. SegsOf(Doc(j))' = {s \in segs' : s.doc = Doc(j)} BY DEF SegsOf
<1> QED BY <1>1, <1>7, <1>8 DEF Listed

\* Upserting the points of a text, or of an image, keeps the invariant.
LEMMA UpsertKeeps == ASSUME IndexInv, NEW j \in Jobs, Upsert(j) PROVE IndexInv'
<1>1. IndexTypes /\ In(j, "upsert") /\ UNCHANGED <<kb, row, segs, coll>> BY DEF IndexInv, Upsert
<1> DEFINE new == [k \in {PointID(Doc(j), i) : i \in Positions(j)} |->
                     [doc |-> Doc(j), pos |-> k - PointID(Doc(j), 0),
                      kind |-> job[j].field, text |-> 0]]
<1>2. PICK p \in {"segments", "failed", "complete"} :
        /\ Go(j, p)
        /\ p = "segments" =>
             /\ coll[job[j].field] = Wanted(j)[job[j].field]
             /\ points' = [k \in DOMAIN new \cup DOMAIN points |->
                             IF k \in DOMAIN new THEN new[k] ELSE points[k]]
        /\ p # "segments" => points' = points /\ (p = "failed" <=> Text(j))
  <2>1. CASE coll[job[j].field] = Wanted(j)[job[j].field] BY <2>1 DEF Upsert
  <2>2. CASE ~(coll[job[j].field] = Wanted(j)[job[j].field]) BY <2>2 DEF Upsert, OnError
  <2> QED BY <2>1, <2>2
<1>3. StoreTypes' BY <1>1 DEF IndexTypes, StoreTypes
<1>4. p \in JobPcs /\ job[j].pc \in DocPcs BY <1>1 DEF JobPcs, DocPcs, Processing, In
<1>5. ASSUME job[j].calm PROVE Sound(j)'
  <2>1. Sound(j) /\ Chunks(j) \in Nat /\ Doc(j) \in Docs BY <1>1, <1>5, Midway DEF In, Indexing, Writing
  <2>2. /\ job'[j].pc = p /\ SameWork(j) /\ SameNotes(j) /\ job'[j].total = job[j].total
        /\ job'[j].config = job[j].config
        /\ Doc(j)' = Doc(j) /\ Chunks(j)' = Chunks(j)
        /\ Text(j)' <=> Text(j)
        /\ UNCHANGED points => \A n : Stored(j, n)' <=> Stored(j, n)
        /\ \A n : Listed(j, n)' <=> Listed(j, n)
    BY <1>1, <1>2, <1>4, JobMoves, MovesWork
  <2>3. PICK a, b \in Nat :
          /\ a <= b /\ Positions(j) = a .. (b - 1)
          /\ \A i \in a .. (b - 1) : KindAt(j, i) = job[j].field
          /\ Text(j) => a = 0 /\ b = Chunks(j)
          /\ ~Text(j) => a = Chunks(j) /\ b = Chunks(j) + 1
    BY <1>1, <2>1, NextPositions
  <2> DEFINE whole == Text(j) \/ ~job[j].remade
  <2>4. whole => Stored(j, a) /\ Listed(j, a) BY <1>1, <2>1, <2>3 DEF Sound, Contents, In
  <2>5. p = "segments" /\ whole => Stored(j, b)' /\ Listed(j, a)'
    <3> SUFFICES ASSUME p = "segments", whole PROVE Stored(j, b)' BY <2>2, <2>4
    <3>1. points' = [k \in DOMAIN new \cup DOMAIN points |->
                       IF k \in DOMAIN new THEN new[k] ELSE points[k]]
      BY <1>2
    <3>2. PICK m : m = new OBVIOUS
    <3>3. points' = [k \in DOMAIN m \cup DOMAIN points |-> IF k \in DOMAIN m THEN m[k] ELSE points[k]]
      BY <3>1, <3>2
    <3> QED BY <2>1, <2>2, <2>3, <2>4, <3>2, <3>3, UpsertStores
  <2>6. p # "segments" /\ whole => Stored(j, a)' /\ Listed(j, a)' BY <1>2, <2>2, <2>4
  <2>7. p = "segments" /\ Text(j) => coll.text = job[j].dim BY <1>2 DEF Text, Wanted
  <2> HIDE DEF new
  <2>8. RowsThere(j)' BY <1>1, <2>1, <2>2, RowsKept DEF Sound, In, Indexing, Writing
  <2>9. Collection(j)'
    BY <1>1, <1>2, <2>1, <2>2, <2>7 DEF Sound, Collection, In, SameWork, Indexing, Connecting, Writing
  <2>10. Contents(j)'
    BY <1>1, <1>2, <2>1, <2>2, <2>3, <2>5, <2>6 DEF Sound, Contents, In, Connecting, Processing, SameNotes
  <2>11. Deletion(j)' BY <2>2 DEF Deletion, In
  <2> QED BY <2>8, <2>9, <2>10, <2>11 DEF Sound
<1> QED BY <1>2, <1>3, <1>4, <1>5, GoStep

\* Inserting the segments of the points just stored keeps the invariant.
LEMMA InsertKeeps == ASSUME IndexInv, NEW j \in Jobs, InsertSegments(j) PROVE IndexInv'
<1>1. /\ IndexTypes /\ In(j, "segments") /\ UNCHANGED <<kb, row, coll, points>>
      /\ job[j] \in JobTypes
      /\ \/ job[j].refused /\ segs' = segs
         \/ segs' = segs \cup {[job |-> j, doc |-> Doc(j), pos |-> i, kind |-> job[j].field,
                                enabled |-> TRUE, text |-> 0] : i \in Positions(j)}
  BY DEF IndexInv, IndexTypes, InsertSegments
<1>2. Active(j) /\ job[j].docs # {}
  BY <1>1 DEF In, Active, IndexInv, HasDocs, DocPcs, Processing
<1>3. Chunks(j) \in Nat /\ Doc(j) \in Docs BY <1>1, <1>2, ChunksNat, DocFacts
<1>4. PICK a, b \in Nat :
        /\ a <= b /\ Positions(j) = a .. (b - 1)
        /\ \A i \in a .. (b - 1) : KindAt(j, i) = job[j].field
        /\ Text(j) => a = 0 /\ b = Chunks(j)
        /\ ~Text(j) => a = Chunks(j) /\ b = Chunks(j) + 1
        /\ Cardinality(Positions(j)) = b - a
  BY <1>1, <1>3, NextPositions
<1>5. PICK p \in {"images", "complete"}, t \in Nat :
        /\ job' = [job EXCEPT ![j] = [job[j] EXCEPT !.pc = p, !.total = t, !.refused = FALSE]]
        /\ p = "images" <=> Text(j)
        /\ t = job[j].total + (b - a)
  <2>1. PICK c \in Nat : c = b - a BY <1>4
  <2>2. job[j].total + c \in Nat BY <1>1, <2>1 DEF JobTypes
  <2>3. \E p \in {"images", "complete"} :
          /\ job' = [job EXCEPT ![j] = [job[j] EXCEPT !.pc = p, !.total = job[j].total + c, !.refused = FALSE]]
          /\ p = "images" <=> Text(j)
    BY <1>1, <1>4, <2>1 DEF InsertSegments, IndexTypes
  <2> QED BY <2>1, <2>2, <2>3
<1>6. p \in JobPcs BY DEF JobPcs, Processing
<1>7. /\ job' \in [Jobs -> JobTypes] /\ \A i \in Jobs \ {j} : job'[i] = job[i]
      /\ job'[j].pc = p /\ SameWork(j) /\ SameNotes(j) /\ job'[j].config = job[j].config
      /\ job'[j].field = job[j].field /\ job'[j].total = t /\ ~job'[j].refused
  <2>1. PICK r : r = [job[j] EXCEPT !.pc = p, !.total = t, !.refused = FALSE] OBVIOUS
  <2>2. /\ r \in JobTypes /\ r.pc = p /\ r.docs = job[j].docs /\ r.settings = job[j].settings
        /\ r.dim = job[j].dim /\ r.calm = job[j].calm /\ r.field = job[j].field /\ r.total = t
        /\ r.config = job[j].config /\ r.imgdim = job[j].imgdim /\ r.extra = job[j].extra
        /\ r.remade = job[j].remade /\ ~r.refused
    BY <1>1, <1>6, <2>1 DEF JobTypes
  <2>3. job'[j] = r /\ job' \in [Jobs -> JobTypes] /\ \A i \in Jobs \ {j} : job'[i] = job[i]
    BY <1>1, <1>5, <2>1, <2>2 DEF IndexTypes
  <2> QED BY <2>2, <2>3 DEF SameWork, SameNotes
<1>8. IndexTypes'
  <2>1. job[j].field \in {"text", "image"} BY <1>1 DEF JobTypes
  <2>2. \A i \in Positions(j) : i \in Nat BY <1>4
  <2>3. \A i \in Positions(j) : [job |-> j, doc |-> Doc(j), pos |-> i, kind |-> job[j].field,
                                 enabled |-> TRUE, text |-> 0] \in SegTypes
    BY <1>3, <2>1, <2>2 DEF SegTypes
  <2>4. segs \subseteq SegTypes BY <1>1 DEF IndexTypes, StoreTypes
  <2>5. segs' \subseteq SegTypes BY <1>1, <2>3, <2>4
  <2> QED BY <1>1, <1>7, <2>5 DEF IndexTypes, StoreTypes
<1>9. ASSUME job[j].calm PROVE Sound(j)'
  <2>1. Sound(j) /\ ~job[j].refused BY <1>9 DEF IndexInv, CalmHeeded
  <2>2. /\ Doc(j)' = Doc(j) /\ Chunks(j)' = Chunks(j)
        /\ Text(j)' <=> Text(j)
        /\ \A n : Stored(j, n)' <=> Stored(j, n)
    BY <1>1, <1>7, SameDoc, SameContents DEF SameWork, Text
  <2> DEFINE whole == Text(j) \/ ~job[j].remade
  <2>3. whole => Stored(j, b) /\ Listed(j, a) BY <1>1, <1>4, <2>1 DEF Sound, Contents, In
  <2>4. whole => t = b + job'[j].extra
    <3>1. job[j].extra \in Nat /\ job'[j].extra = job[j].extra BY <1>1, <1>7 DEF JobTypes, SameNotes
    <3> QED BY <1>4, <1>5, <2>3, <3>1 DEF Listed
  <2>5. whole => Stored(j, b)' /\ Listed(j, b)' BY <1>1, <1>4, <1>7, <2>1, <2>2, <2>3, <2>4, InsertLists
  <2>6. RowsThere(j)' BY <1>1, <1>7, <2>1, RowsKept DEF Sound, In, Indexing, Writing
  <2>7. Collection(j)'
    BY <1>1, <1>7, <2>1, <2>2 DEF Sound, Collection, In, SameWork, Indexing, Connecting, Writing
  <2>8. Contents(j)'
    BY <1>1, <1>4, <1>5, <1>7, <2>1, <2>2, <2>5 DEF Sound, Contents, In, Connecting, Processing, SameNotes
  <2>9. Deletion(j)' BY <1>7 DEF Deletion, In
  <2> QED BY <2>6, <2>7, <2>8, <2>9 DEF Sound
<1>10. job'[j].docs # {} BY <1>2, <1>7 DEF SameWork
<1> QED BY <1>2, <1>7, <1>8, <1>9, <1>10, OneStep DEF SameWork

\* Going on to the images, or past them, keeps the invariant.
LEMMA ImagesKeeps == ASSUME IndexInv, NEW j \in Jobs, Images(j) PROVE IndexInv'
<1>1. IndexTypes /\ In(j, "images") /\ UNCHANGED stores /\ job[j] \in JobTypes
  BY DEF IndexInv, IndexTypes, Images
<1>2. PICK p \in {"ensure", "complete"}, n \in Nat, t \in Nat :
        /\ job' = [job EXCEPT ![j] = [job[j] EXCEPT !.field = "image", !.total = t, !.extra = n, !.pc = p]]
        /\ t = job[j].total + n
        /\ p = "ensure" => n = 0
  <2> DEFINE indexed == HasImages(j) /\ job[j].imgdim > 0
  <2>1. PICK n \in {0, 1} : n = IF indexed /\ job[j].left THEN 1 ELSE 0 OBVIOUS
  <2>2. PICK p \in {"ensure", "complete"} : p = IF indexed /\ ~job[j].left THEN "ensure" ELSE "complete" OBVIOUS
  <2>3. PICK t \in Nat : t = job[j].total + n BY <1>1, <2>1 DEF JobTypes
  <2>4. job' = [job EXCEPT ![j] = [job[j] EXCEPT !.field = "image", !.total = t, !.extra = n, !.pc = p]]
    BY <1>1, <2>1, <2>2, <2>3 DEF Images, IndexTypes
  <2>5. p = "ensure" => n = 0 BY <2>1, <2>2
  <2> QED BY <2>1, <2>3, <2>4, <2>5
<1>3. /\ job' \in [Jobs -> JobTypes] /\ \A i \in Jobs \ {j} : job'[i] = job[i]
      /\ job'[j].pc = p /\ SameWork(j) /\ job'[j].config = job[j].config
      /\ job'[j].field = "image" /\ job'[j].total = t /\ job'[j].extra = n
      /\ job'[j].remade = job[j].remade /\ job'[j].refused = job[j].refused
  <2>1. p \in JobPcs BY DEF JobPcs, Processing
  <2>2. PICK r : r = [job[j] EXCEPT !.field = "image", !.total = t, !.extra = n, !.pc = p] OBVIOUS
  <2>3. /\ r \in JobTypes /\ r.pc = p /\ r.docs = job[j].docs /\ r.settings = job[j].settings
        /\ r.dim = job[j].dim /\ r.calm = job[j].calm /\ r.config = job[j].config
        /\ r.field = "image" /\ r.total = t /\ r.extra = n
        /\ r.remade = job[j].remade /\ r.refused = job[j].refused
    BY <1>1, <2>1, <2>2 DEF JobTypes
  <2>4. job'[j] = r /\ job' \in [Jobs -> JobTypes] /\ \A i \in Jobs \ {j} : job'[i] = job[i]
    BY <1>1, <1>2, <2>2, <2>3 DEF IndexTypes
  <2> QED BY <2>3, <2>4 DEF SameWork
<1>4. IndexTypes' BY <1>1, <1>3 DEF IndexTypes, StoreTypes, stores
<1>5. ASSUME job[j].calm PROVE Sound(j)'
  <2>1. Sound(j) /\ Chunks(j) \in Nat BY <1>1, <1>5, Midway DEF In, Indexing, Writing
  <2>2. /\ Doc(j)' = Doc(j) /\ Chunks(j)' = Chunks(j)
        /\ \A k : Stored(j, k)' <=> Stored(j, k)
    BY <1>1, <1>3, SameDoc, SameContents DEF SameWork, stores
  <2>7. Stored(j, Chunks(j)) /\ Listed(j, Chunks(j)) /\ job[j].extra = 0
    BY <1>1, <2>1 DEF Sound, Contents, In, Processing
  <2>8. Listed(j, Chunks(j))'
    <3>1. \A i : SegAt(j, i)' = SegAt(j, i) BY <2>2 DEF SegAt, KindAt
    <3>2. SegsOf(Doc(j))' = SegsOf(Doc(j)) BY <1>1, <2>2 DEF SegsOf, stores
    <3>3. t = Chunks(j) + n BY <1>2, <2>1, <2>7 DEF Listed
    <3> QED BY <1>3, <2>2, <2>7, <3>1, <3>2, <3>3 DEF Listed
  <2>3. RowsThere(j)'
    BY <1>1, <1>3, <2>1, RowsKept DEF Sound, In, stores, Indexing, Connecting, Writing
  <2>4. Collection(j)'
    BY <1>1, <1>3, <2>1, <2>2
       DEF Sound, Collection, In, Text, SameWork, stores, Indexing, Connecting, Writing
  <2>5. Contents(j)'
    BY <1>1, <1>2, <1>3, <2>1, <2>2, <2>7, <2>8 DEF Sound, Contents, In, Text, Connecting, Processing
  <2>6. Deletion(j)' BY <1>3 DEF Deletion, In
  <2> QED BY <2>3, <2>4, <2>5, <2>6 DEF Sound
<1>6. Active(j) /\ job'[j].docs # {} /\ (job[j].calm => ~job'[j].refused)
  BY <1>1, <1>3 DEF In, Active, IndexInv, HasDocs, DocPcs, Processing, SameWork, CalmHeeded
<1> QED BY <1>3, <1>4, <1>5, <1>6, OneStep DEF SameWork

\* The goroutine goes to its next document, or ends.
LEMMA Leaves ==
    ASSUME IndexTypes, NEW j \in Jobs, NEW p \in JobPcs, Leave(j, p)
    PROVE  /\ job' \in [Jobs -> JobTypes] /\ \A i \in Jobs \ {j} : job'[i] = job[i]
           /\ \/ job'[j].pc = "done" /\ ~job'[j].refused
              \/ /\ job'[j].pc = p /\ job'[j].docs = job[j].docs \ {Doc(j)} /\ job'[j].docs # {}
                 /\ job'[j].total = 0 /\ job'[j].field = "text"
                 /\ job'[j].dim = job[j].dim /\ job'[j].calm = job[j].calm
                 /\ job'[j].extra = 0 /\ ~job'[j].remade /\ ~job'[j].refused
<1>1. job[j] \in JobTypes BY DEF IndexTypes
<1> DEFINE rest == job[j].docs \ {Doc(j)}
<1>2. CASE rest = {}
  <2>1. job' = [job EXCEPT ![j] = NotRunning("done")] BY <1>2 DEF Leave
  <2>2. NotRunning("done") \in JobTypes
    BY DEF NotRunning, JobTypes, JobPcs, Configs, NoColl
  <2>3. NotRunning("done").pc = "done" /\ ~NotRunning("done").refused BY DEF NotRunning
  <2> QED BY <2>1, <2>2, <2>3 DEF IndexTypes
<1>3. CASE rest # {}
  <2>1. PICK r : r = [job[j] EXCEPT !.docs = rest, !.pc = p, !.total = 0, !.field = "text",
                                    !.refused = FALSE, !.left = FALSE, !.extra = 0, !.remade = FALSE]
    OBVIOUS
  <2>2. job' = [job EXCEPT ![j] = r] BY <1>3, <2>1 DEF Leave
  <2>3. /\ r \in JobTypes /\ r.pc = p /\ r.docs = rest /\ r.total = 0 /\ r.field = "text"
        /\ r.dim = job[j].dim /\ r.calm = job[j].calm /\ r.extra = 0 /\ ~r.remade /\ ~r.refused
    BY <1>1, <2>1 DEF JobTypes
  <2> QED BY <1>3, <2>2, <2>3 DEF IndexTypes
<1> QED BY <1>2, <1>3

\* A goroutine that ends leaves nothing to be said of it.
LEMMA Ends ==
    ASSUME IndexInv, NEW j \in Jobs, Active(j), IndexTypes', \A i \in Jobs \ {j} : job'[i] = job[i],
           job'[j].pc = "done", ~job'[j].refused
    PROVE  IndexInv'
<1>1. Sound(j)' BY AtRest
<1>2. CalmAlone' /\ CalmHeeded' BY DEF IndexInv, CalmAlone, CalmHeeded, Active
<1>3. HasDocs' BY DEF IndexInv, HasDocs, DocPcs, Processing
<1>4. ASSUME NEW i \in Jobs, i # j, job'[i].calm PROVE Sound(i)'
  <2>1. job'[i].pc \in {"idle", "done"} BY <1>4 DEF IndexInv, CalmAlone, Active
  <2> QED BY <2>1, AtRest
<1> QED BY <1>1, <1>2, <1>3, <1>4 DEF IndexInv

\* The end of Process for one document.
LEMMA ProcessLeaves ==
    ASSUME IndexInv, NEW j \in Jobs, job[j].pc \in {"complete", "failed"}, Leave(j, "parsing"),
           StoreTypes', \A d \in Docs : Exists(d) => Exists(d)'
    PROVE  IndexInv'
<1>1. IndexTypes /\ "parsing" \in JobPcs BY DEF IndexInv, JobPcs, Processing
<1>2. /\ job' \in [Jobs -> JobTypes] /\ \A i \in Jobs \ {j} : job'[i] = job[i]
      /\ \/ job'[j].pc = "done" /\ ~job'[j].refused
         \/ /\ job'[j].pc = "parsing" /\ job'[j].docs = job[j].docs \ {Doc(j)} /\ job'[j].docs # {}
            /\ job'[j].total = 0 /\ job'[j].field = "text"
            /\ job'[j].dim = job[j].dim /\ job'[j].calm = job[j].calm
            /\ job'[j].extra = 0 /\ ~job'[j].remade /\ ~job'[j].refused
  BY <1>1, Leaves
<1>3. IndexTypes' BY <1>2 DEF IndexTypes
<1>4. Active(j) BY DEF Active
<1>5. CASE job'[j].pc = "done"
  BY <1>2, <1>3, <1>4, <1>5, Ends
<1>6. CASE job'[j].pc = "parsing"
  <2>1. ASSUME job[j].calm PROVE Sound(j)'
    <3>1. Sound(j) /\ job[j].docs \subseteq Docs BY <1>1, <2>1 DEF IndexInv, IndexTypes, JobTypes
    <3>2. RowsThere(j)'
      BY <1>2, <1>6, <3>1
         DEF Sound, RowsThere, Text, Processing, Indexing, Connecting, Writing
    <3>3. Collection(j)' BY <1>6 DEF Collection, In, Indexing, Connecting, Writing
    <3>4. Contents(j)' BY <1>2, <1>6 DEF Contents, In, Connecting
    <3>5. Deletion(j)' BY <1>6 DEF Deletion, In
    <3> QED BY <3>2, <3>3, <3>4, <3>5 DEF Sound
  <2> QED BY <1>2, <1>3, <1>4, <1>6, <2>1, OneStep
<1> QED BY <1>2, <1>5, <1>6

\* The last write of a row keeps the types and touches one row that exists.
LEMMA FinalFacts ==
    ASSUME IndexTypes, NEW j \in Jobs, NEW st \in {"completed", "error"}, NEW n,
           Doc(j) \in Docs => n \in Nat, SetFinal(j, st, n)
    PROVE  /\ row' \in [Docs -> RowTypes]
           /\ \A d \in Docs : Exists(d) => Exists(d)'
           /\ \A d \in Docs : d # Doc(j) => row'[d] = row[d]
           /\ \A d \in Docs : d = Doc(j) /\ Exists(d) =>
                IF job[j].refused THEN row'[d].orphan
                ELSE row'[d].status = st /\ row'[d].count = n
<1>1. row \in [Docs -> RowTypes] BY DEF IndexTypes, StoreTypes
<1>2. CASE ~Exists(Doc(j)) BY <1>1, <1>2 DEF SetFinal, Exists
<1>3. CASE Exists(Doc(j))
  <2>1. CASE job[j].refused
    <3>1. row' = [row EXCEPT ![Doc(j)] = [row[Doc(j)] EXCEPT !.orphan = TRUE]] BY <1>3, <2>1 DEF SetFinal
    <3>2. ASSUME NEW d \in Docs
          PROVE  /\ row'[d] \in RowTypes /\ (Exists(d) => Exists(d)') /\ (d # Doc(j) => row'[d] = row[d])
                 /\ (d = Doc(j) => row'[d].orphan)
      <4>1. CASE d = Doc(j)
        <5>1. row'[d] = [row[d] EXCEPT !.orphan = TRUE] BY <1>1, <3>1, <4>1
        <5> QED BY <1>1, <4>1, <5>1 DEF RowTypes, Exists
      <4>2. CASE d # Doc(j) BY <1>1, <3>1, <4>2 DEF Exists
      <4> QED BY <4>1, <4>2
    <3>3. row' = [d \in Docs |-> row'[d]] BY <1>1, <3>1
    <3> QED BY <2>1, <3>2, <3>3
  <2>2. CASE ~job[j].refused
    <3>1. row' = [row EXCEPT ![Doc(j)] = [row[Doc(j)] EXCEPT !.status = st, !.count = n]]
      BY <1>3, <2>2 DEF SetFinal
    <3>2. ASSUME NEW d \in Docs
          PROVE  /\ row'[d] \in RowTypes /\ (Exists(d) => Exists(d)') /\ (d # Doc(j) => row'[d] = row[d])
                 /\ (d = Doc(j) => row'[d].status = st /\ row'[d].count = n)
      <4>1. CASE d = Doc(j)
        <5>1. row'[d] = [row[d] EXCEPT !.status = st, !.count = n] /\ n \in Nat BY <1>1, <3>1, <4>1
        <5>2. row[d] \in RowTypes BY <1>1
        <5> QED BY <4>1, <5>1, <5>2 DEF RowTypes, Exists
      <4>2. CASE d # Doc(j) BY <1>1, <3>1, <4>2 DEF Exists
      <4> QED BY <4>1, <4>2
    <3>3. row' = [d \in Docs |-> row'[d]] BY <1>1, <3>1
    <3> QED BY <2>2, <3>2, <3>3
  <2> QED BY <2>1, <2>2
<1> QED BY <1>2, <1>3

\* Completing a document leaves it for the next of the batch.
LEMMA CompleteKeeps == ASSUME IndexInv, NEW j \in Jobs, Complete(j) PROVE IndexInv'
<1>1. /\ IndexTypes /\ In(j, "complete") /\ Leave(j, "parsing") /\ UNCHANGED <<kb, segs, coll>>
      /\ job[j].total \in Nat /\ SetFinal(j, "completed", job[j].total)
  BY DEF IndexInv, Complete, IndexTypes, JobTypes
<1>2. row' \in [Docs -> RowTypes] /\ \A d \in Docs : Exists(d) => Exists(d)'
  BY <1>1, FinalFacts
<1>3. StoreTypes' BY <1>1, <1>2 DEF IndexTypes, StoreTypes
<1> QED BY <1>1, <1>2, <1>3, ProcessLeaves DEF In

\* Marking a document failed leaves it for the next of the batch.
LEMMA MarkFailedKeeps == ASSUME IndexInv, NEW j \in Jobs, MarkFailed(j) PROVE IndexInv'
<1>1. /\ IndexTypes /\ In(j, "failed") /\ Leave(j, "parsing") /\ UNCHANGED <<kb, segs, coll>>
      /\ SetFinal(j, "error", row[Doc(j)].count)
  BY DEF IndexInv, MarkFailed
<1>2. Doc(j) \in Docs => row[Doc(j)].count \in Nat BY <1>1 DEF IndexTypes, StoreTypes, RowTypes
<1>3. row' \in [Docs -> RowTypes] /\ \A d \in Docs : Exists(d) => Exists(d)'
  BY <1>1, <1>2, FinalFacts
<1>4. StoreTypes' BY <1>1, <1>3 DEF IndexTypes, StoreTypes
<1> QED BY <1>1, <1>3, <1>4, ProcessLeaves DEF In

\* An image that is left out is no failure, and changes nothing that was said.
LEMMA ImageLeftKeeps == ASSUME IndexInv, NEW j \in Jobs, ImageLeft(j) PROVE IndexInv'
<1>1. IndexTypes /\ UNCHANGED stores /\ job[j] \in JobTypes /\ In(j, "parsing")
  BY DEF IndexInv, IndexTypes, ImageLeft
<1>2. job' = [job EXCEPT ![j] = [job[j] EXCEPT !.left = TRUE]] BY <1>1 DEF ImageLeft, IndexTypes
<1>3. /\ job' \in [Jobs -> JobTypes] /\ \A i \in Jobs \ {j} : job'[i] = job[i]
      /\ job'[j].pc = job[j].pc /\ SameWork(j) /\ SameNotes(j) /\ job'[j].refused = job[j].refused
      /\ job'[j].field = job[j].field /\ job'[j].total = job[j].total
  <2>1. PICK r : r = [job[j] EXCEPT !.left = TRUE] OBVIOUS
  <2>2. /\ r \in JobTypes /\ r.pc = job[j].pc /\ r.docs = job[j].docs /\ r.settings = job[j].settings
        /\ r.dim = job[j].dim /\ r.calm = job[j].calm /\ r.field = job[j].field /\ r.total = job[j].total
        /\ r.imgdim = job[j].imgdim /\ r.extra = job[j].extra /\ r.remade = job[j].remade
        /\ r.refused = job[j].refused
    BY <1>1, <2>1 DEF JobTypes
  <2>3. job'[j] = r /\ job' \in [Jobs -> JobTypes] /\ \A i \in Jobs \ {j} : job'[i] = job[i]
    BY <1>1, <1>2, <2>1, <2>2 DEF IndexTypes
  <2> QED BY <2>2, <2>3 DEF SameWork, SameNotes
<1>4. IndexTypes' BY <1>1, <1>3 DEF IndexTypes, StoreTypes, stores
<1>5. ASSUME job[j].calm PROVE Sound(j)'
  <2>1. Sound(j) BY <1>5 DEF IndexInv
  <2>2. RowsThere(j)'
    BY <1>1, <1>3, <2>1
       DEF Sound, RowsThere, Exists, In, Text, SameWork, stores, Processing, Indexing, Connecting, Writing
  <2>3. Collection(j)' BY <1>1, <1>3 DEF Collection, In, Indexing, Connecting, Writing
  <2>4. Contents(j)'
    BY <1>1, <1>3, <2>1, SameDoc DEF Sound, Contents, In, Connecting, Processing, SameNotes, SameWork
  <2>5. Deletion(j)' BY <1>1, <1>3 DEF Deletion, In
  <2> QED BY <2>2, <2>3, <2>4, <2>5 DEF Sound
<1>6. Active(j) /\ job'[j].docs # {} /\ (job[j].calm => ~job'[j].refused)
  BY <1>1, <1>3 DEF In, Active, IndexInv, HasDocs, DocPcs, Processing, SameWork, CalmHeeded
<1> QED BY <1>3, <1>4, <1>5, <1>6, OneStep DEF SameWork

\* A failure ends the calm: nothing is claimed any more.
LEMMA FailureKeeps ==
    ASSUME IndexInv, NEW j \in Jobs,
           Fails(j) \/ ImagesFail(j) \/ InfoFails(j) \/ CallFails(j) \/ StatementFails(j)
    PROVE  IndexInv'
<1>1. IndexTypes /\ UNCHANGED stores /\ job[j] \in JobTypes
  BY DEF IndexInv, IndexTypes, Fails, ImagesFail, InfoFails, CallFails, StatementFails
<1>2. ASSUME NEW p \in JobPcs, NEW f \in BOOLEAN, Active(j), p \in DocPcs => job[j].pc \in DocPcs,
             job' = [job EXCEPT ![j] = [job[j] EXCEPT !.pc = p, !.refused = f, !.calm = FALSE]]
      PROVE  IndexInv'
  <2>1. PICK r : r = [job[j] EXCEPT !.pc = p, !.refused = f, !.calm = FALSE] OBVIOUS
  <2>2. r \in JobTypes /\ ~r.calm /\ r.docs = job[j].docs /\ r.pc = p BY <1>1, <2>1 DEF JobTypes
  <2>3. job' \in [Jobs -> JobTypes] /\ job'[j] = r /\ \A i \in Jobs \ {j} : job'[i] = job[i]
    BY <1>1, <1>2, <2>1, <2>2 DEF IndexTypes
  <2>4. IndexTypes' BY <1>1, <2>3 DEF IndexTypes, StoreTypes, stores
  <2>5. r.pc \in DocPcs => r.docs # {} BY <1>2, <2>2 DEF IndexInv, HasDocs
  <2> QED BY <1>2, <2>2, <2>3, <2>4, <2>5, OneStep
<1>3. PICK f \in BOOLEAN : f = job[j].refused BY <1>1 DEF JobTypes
<1>4. ASSUME NEW p, job' = [job EXCEPT ![j] = [job[j] EXCEPT !.pc = p, !.calm = FALSE]]
      PROVE  job' = [job EXCEPT ![j] = [job[j] EXCEPT !.pc = p, !.refused = f, !.calm = FALSE]]
  <2>1. [job[j] EXCEPT !.pc = p, !.calm = FALSE] = [job[j] EXCEPT !.pc = p, !.refused = f, !.calm = FALSE]
    BY <1>1, <1>3 DEF JobTypes
  <2> QED BY <1>4, <2>1
<1>5. CASE Fails(j)
  <2>1. job' = [job EXCEPT ![j] = [job[j] EXCEPT !.pc = "failed", !.calm = FALSE]] /\ job[j].pc \in Processing
    BY <1>1, <1>5 DEF Fails, IndexTypes
  <2>2. "failed" \in JobPcs /\ Active(j) /\ job[j].pc \in DocPcs BY <2>1 DEF JobPcs, Active, DocPcs, Processing
  <2> QED BY <1>2, <1>4, <2>1, <2>2
<1>6. CASE ImagesFail(j)
  <2>1. /\ job' = [job EXCEPT ![j] = [job[j] EXCEPT !.pc = "complete", !.calm = FALSE]]
        /\ job[j].pc \in {"images", "ensure", "create", "make", "upsert"}
    BY <1>1, <1>6 DEF ImagesFail, IndexTypes, In
  <2>2. "complete" \in JobPcs /\ Active(j) /\ job[j].pc \in DocPcs BY <2>1 DEF JobPcs, Active, DocPcs, Processing
  <2> QED BY <1>2, <1>4, <2>1, <2>2
<1>7. CASE InfoFails(j)
  <2>1. job[j].pc \in {"ensure", "create"} BY <1>7 DEF InfoFails
  <2>2. PICK p \in {"create", "config"} : p = IF job[j].pc = "ensure" THEN "create" ELSE "config" OBVIOUS
  <2>3. job' = [job EXCEPT ![j] = [job[j] EXCEPT !.pc = p, !.calm = FALSE]]
    BY <1>1, <1>7, <2>2 DEF InfoFails, IndexTypes
  <2>4. p \in JobPcs /\ Active(j) /\ job[j].pc \in DocPcs BY <2>1 DEF JobPcs, Active, DocPcs, Processing
  <2> QED BY <1>2, <1>4, <2>3, <2>4
<1>8. CASE StatementFails(j)
  <2>1. job[j].pc \in {"parsing", "splitting", "config", "wipesegments", "segments", "complete", "failed", "droprows"}
    BY <1>8 DEF StatementFails
  <2>2. job' = [job EXCEPT ![j] = [job[j] EXCEPT !.refused = TRUE, !.calm = FALSE]]
    BY <1>1, <1>8 DEF StatementFails, IndexTypes
  <2>3. [job[j] EXCEPT !.refused = TRUE, !.calm = FALSE] =
        [job[j] EXCEPT !.pc = job[j].pc, !.refused = TRUE, !.calm = FALSE]
    BY <1>1 DEF JobTypes
  <2>4. job[j].pc \in JobPcs /\ Active(j) BY <1>1, <2>1 DEF JobTypes, Active
  <2> QED BY <1>2, <2>2, <2>3, <2>4
<1>9. CASE CallFails(j)
  <2>1. job[j].pc \in {"rebuild", "wipevectors", "delvectors", "dropcoll", "reembed", "findseg", "reupsert", "unembed"}
    BY <1>9 DEF CallFails, LoggedOnly
  <2>2. Active(j) BY <2>1 DEF Active
  <2>3. PICK q : q = LoggedOnly[job[j].pc] OBVIOUS
  <2>4. job' = [job EXCEPT ![j] = IF q = "done" THEN NotRunning(q)
                                  ELSE [job[j] EXCEPT !.pc = q, !.calm = FALSE]]
    BY <1>1, <1>9, <2>3 DEF CallFails, IndexTypes
  <2>5. /\ LoggedOnly["rebuild"] = "create"
        /\ LoggedOnly["wipevectors"] = "wipesegments" /\ LoggedOnly["delvectors"] = "delfile"
        /\ LoggedOnly["dropcoll"] = "droprows"
        /\ LoggedOnly["reembed"] = "done" /\ LoggedOnly["findseg"] = "done"
        /\ LoggedOnly["reupsert"] = "done" /\ LoggedOnly["unembed"] = "done"
    BY DEF LoggedOnly
  <2>6. CASE job[j].pc \in {"reembed", "findseg", "reupsert", "unembed"}
    <3>1. q = "done" BY <2>3, <2>5, <2>6
    <3>2. job' = [job EXCEPT ![j] = NotRunning("done")] BY <2>4, <3>1
    <3>3. NotRunning("done") \in JobTypes /\ NotRunning("done").pc = "done" /\ ~NotRunning("done").refused
      BY DEF NotRunning, JobTypes, JobPcs, Configs, NoColl
    <3>4. /\ job' \in [Jobs -> JobTypes] /\ job'[j].pc = "done" /\ ~job'[j].refused
          /\ \A i \in Jobs \ {j} : job'[i] = job[i]
      BY <1>1, <3>2, <3>3 DEF IndexTypes
    <3>5. IndexTypes' BY <1>1, <3>4 DEF IndexTypes, StoreTypes, stores
    <3> QED BY <2>2, <3>4, <3>5, Ends
  <2>7. CASE job[j].pc \in {"rebuild", "wipevectors", "delvectors", "dropcoll"}
    <3>1. q \in {"create", "wipesegments", "delfile", "droprows"} /\ (q # "droprows" => job[j].pc # "dropcoll")
      BY <2>3, <2>5, <2>7
    <3>2. job' = [job EXCEPT ![j] = [job[j] EXCEPT !.pc = q, !.calm = FALSE]] BY <2>4, <3>1
    <3>3. q \in JobPcs /\ (q \in DocPcs => job[j].pc \in DocPcs) BY <2>7, <3>1 DEF JobPcs, DocPcs, Processing
    <3> QED BY <1>2, <1>4, <2>2, <3>2, <3>3
  <2> QED BY <2>1, <2>6, <2>7
<1> QED BY <1>5, <1>6, <1>7, <1>8, <1>9

-----------------------------------------------------------------------------
(* The other goroutines.                                                     *)

LEMMA DeleteVectorsKeeps == ASSUME IndexInv, NEW j \in Jobs, DeleteVectors(j) PROVE IndexInv'
<1>1. /\ IndexTypes /\ In(j, "delvectors") /\ Go(j, "delfile") /\ UNCHANGED <<kb, row, segs, coll>>
      /\ points' = [k \in DOMAIN points \ PointsOf(Doc(j)) |-> points[k]]
  BY DEF IndexInv, DeleteVectors, Keep, Restrict
<1>2. StoreTypes' BY <1>1 DEF IndexTypes, StoreTypes
<1>3. "delfile" \in JobPcs /\ job[j].pc \in DocPcs BY <1>1 DEF JobPcs, DocPcs, In
<1>4. ASSUME job[j].calm PROVE Sound(j)'
  <2>1. Sound(j) BY <1>4 DEF IndexInv
  <2>2. job'[j].pc = "delfile" /\ SameWork(j) /\ Doc(j)' = Doc(j) BY <1>1, <1>3, JobMoves, MovesWork
  <2>3. PointsOf(Doc(j))' = {} BY <1>1, <2>2 DEF PointsOf
  <2>4. Deletion(j)'
    BY <1>1, <2>1, <2>2, <2>3 DEF Sound, Deletion, In, SegsOf, SameWork
  <2>5. RowsThere(j)' /\ Collection(j)' /\ Contents(j)'
    BY <2>2 DEF RowsThere, Collection, Contents, In, Processing, Indexing, Connecting, Writing
  <2> QED BY <2>4, <2>5 DEF Sound
<1> QED BY <1>1, <1>2, <1>3, <1>4, GoStep

\* Deleting a file ends the deletion of one document.
LEMMA DeleteFileKeeps == ASSUME IndexInv, NEW j \in Jobs, DeleteFile(j) PROVE IndexInv'
<1>1. /\ IndexTypes /\ In(j, "delfile") /\ Leave(j, "delvectors") /\ UNCHANGED <<kb, row, segs, coll, points>>
      /\ "delvectors" \in JobPcs
  BY DEF IndexInv, DeleteFile, JobPcs
<1>2. /\ job' \in [Jobs -> JobTypes] /\ \A i \in Jobs \ {j} : job'[i] = job[i]
      /\ ~job'[j].refused
      /\ \/ job'[j].pc = "done"
         \/ /\ job'[j].pc = "delvectors" /\ job'[j].docs = job[j].docs \ {Doc(j)} /\ job'[j].docs # {}
            /\ job'[j].calm = job[j].calm
  BY <1>1, Leaves
<1>3. IndexTypes' BY <1>1, <1>2 DEF IndexTypes, StoreTypes
<1>4. Active(j) BY <1>1 DEF Active, In
<1>5. CASE job'[j].pc = "done" BY <1>2, <1>3, <1>4, <1>5, Ends
<1>6. CASE job'[j].pc = "delvectors"
  <2>1. ASSUME job[j].calm PROVE Sound(j)'
    <3>1. Sound(j) BY <2>1 DEF IndexInv
    <3>2. Deletion(j)' BY <1>1, <1>2, <1>6, <3>1 DEF Sound, Deletion, In, SegsOf
    <3>3. RowsThere(j)' /\ Collection(j)' /\ Contents(j)'
      BY <1>6 DEF RowsThere, Collection, Contents, In, Processing, Indexing, Connecting, Writing
    <3> QED BY <3>2, <3>3 DEF Sound
  <2> QED BY <1>2, <1>3, <1>4, <1>6, <2>1, OneStep
<1> QED BY <1>2, <1>5, <1>6

\* The deletion of the knowledge base, which has no documents of its own.
LEMMA DropKeeps ==
    ASSUME IndexInv, NEW j \in Jobs, DropCollection(j) \/ DropRows(j)
    PROVE  IndexInv'
<1>1. PICK p \in {"droprows", "dropdir"} :
        /\ Go(j, p) /\ UNCHANGED kb
        /\ p = "droprows" => In(j, "dropcoll") /\ coll' = NoColl /\ points' = NoPoints /\ UNCHANGED <<row, segs>>
        /\ p = "dropdir" => /\ In(j, "droprows") /\ UNCHANGED <<coll, points>>
                            /\ segs' \in {segs, {}} /\ (~job[j].refused => segs' = {})
                            /\ row' = [d \in Docs |-> IF Exists(d) /\ ~job[j].refused
                                                      THEN [row[d] EXCEPT !.status = "deleted"] ELSE row[d]]
  BY DEF DropCollection, DropRows
<1>2. IndexTypes BY DEF IndexInv
<1>3. p \in JobPcs /\ Active(j) BY <1>1 DEF JobPcs, Active, In
<1>4. /\ job' \in [Jobs -> JobTypes] /\ \A i \in Jobs \ {j} : job'[i] = job[i]
      /\ job'[j].pc = p /\ job'[j].calm = job[j].calm /\ ~job'[j].refused
  BY <1>1, <1>2, <1>3, JobMoves DEF SameWork
<1>5. row' \in [Docs -> RowTypes]
  <2>1. row \in [Docs -> RowTypes] BY <1>2 DEF IndexTypes, StoreTypes
  <2>2. \A d \in Docs : [row[d] EXCEPT !.status = "deleted"] \in RowTypes BY <2>1 DEF RowTypes
  <2> QED BY <1>1, <2>1, <2>2
<1>6. IndexTypes'
  BY <1>1, <1>2, <1>4, <1>5 DEF IndexTypes, StoreTypes, Configs, NoColl
<1>7. ASSUME job[j].calm PROVE Sound(j)'
  <2>1. Sound(j) /\ ~job[j].refused BY <1>7 DEF IndexInv, CalmHeeded
  <2>2. Deletion(j)' BY <1>1, <1>4, <2>1 DEF Sound, Deletion, In
  <2>3. RowsThere(j)' /\ Collection(j)' /\ Contents(j)'
    BY <1>4 DEF RowsThere, Collection, Contents, In, Processing, Indexing, Connecting, Writing
  <2> QED BY <2>2, <2>3 DEF Sound
<1>8. job'[j].pc \notin DocPcs BY <1>4 DEF DocPcs, Processing
<1> QED BY <1>3, <1>4, <1>6, <1>7, <1>8, OneStep

\* The goroutines of a segment say nothing of a document.
LEMMA SegmentStepKeeps ==
    ASSUME IndexInv, NEW j \in Jobs, ReadModel(j) \/ (FindSegment(j) /\ ~EndJob(j)) PROVE IndexInv'
<1>1. IndexTypes /\ UNCHANGED stores /\ job[j] \in JobTypes /\ job[j].pc \in {"reembed", "findseg"} /\ kb.dim \in Nat
  <2>1. kb.dim \in Dims BY DEF IndexInv, IndexTypes, StoreTypes, BaseTypes
  <2>2. kb.dim \in Nat BY <2>1, DimsAssumption
  <2> QED BY <2>2 DEF IndexInv, IndexTypes, ReadModel, FindSegment, In
<1>2. PICK p \in {"findseg", "reupsert"} :
        /\ job' \in [Jobs -> JobTypes] /\ job'[j].pc = p /\ \A i \in Jobs \ {j} : job'[i] = job[i]
        /\ job'[j].calm = job[j].calm /\ (~job[j].refused => ~job'[j].refused)
  <2>1. CASE ReadModel(j)
    <3>1. PICK r : r = [job[j] EXCEPT !.pc = "findseg", !.dim = kb.dim] OBVIOUS
    <3>2. r \in JobTypes /\ r.pc = "findseg" /\ r.calm = job[j].calm /\ r.refused = job[j].refused
      BY <1>1, <3>1 DEF JobTypes, JobPcs
    <3>3. job' = [job EXCEPT ![j] = r] BY <1>1, <2>1, <3>1 DEF ReadModel, IndexTypes
    <3>4. job' \in [Jobs -> JobTypes] /\ job'[j] = r /\ \A i \in Jobs \ {j} : job'[i] = job[i]
      BY <1>1, <3>2, <3>3 DEF IndexTypes
    <3> QED BY <3>2, <3>4
  <2>2. CASE FindSegment(j) /\ ~EndJob(j)
    <3>1. Go(j, "reupsert") /\ "reupsert" \in JobPcs BY <2>2 DEF FindSegment, JobPcs
    <3> QED BY <1>1, <3>1, JobMoves DEF SameWork
  <2> QED BY <2>1, <2>2
<1>3. IndexTypes' BY <1>1, <1>2 DEF IndexTypes, StoreTypes, stores
<1>4. Active(j) /\ job'[j].pc \notin DocPcs BY <1>1, <1>2 DEF Active, DocPcs, Processing
<1>5. Sound(j)'
  BY <1>2 DEF Sound, RowsThere, Collection, Contents, Deletion, In, Processing, Connecting, Writing, Indexing
<1>6. job[j].calm => ~job'[j].refused BY <1>2 DEF IndexInv, CalmHeeded
<1> QED BY <1>2, <1>3, <1>4, <1>5, <1>6, OneStep

\* The steps a goroutine ends with.
LEMMA LastStepKeeps ==
    ASSUME IndexInv, NEW j \in Jobs,
           DropDir(j) \/ (FindSegment(j) /\ EndJob(j)) \/ ReEmbedSegment(j) \/ DeleteSegmentVector(j)
    PROVE  IndexInv'
<1>1. /\ IndexTypes /\ EndJob(j) /\ UNCHANGED <<kb, row, segs, coll>> /\ Active(j)
  BY DEF IndexInv, DropDir, FindSegment, ReEmbedSegment, DeleteSegmentVector, In, Active, stores
<1>2. NotRunning("done") \in JobTypes /\ NotRunning("done").pc = "done" /\ ~NotRunning("done").refused
  BY DEF NotRunning, JobTypes, JobPcs, Configs, NoColl
<1>3. /\ job' \in [Jobs -> JobTypes] /\ job'[j].pc = "done" /\ ~job'[j].refused
      /\ \A i \in Jobs \ {j} : job'[i] = job[i]
  BY <1>1, <1>2 DEF EndJob, IndexTypes
<1>4. IndexTypes' BY <1>1, <1>3 DEF IndexTypes, StoreTypes
<1> QED BY <1>1, <1>3, <1>4, Ends

-----------------------------------------------------------------------------
(* The handlers.                                                             *)

\* A goroutine is started: if it is calm it starts alone, and it ends the calm
\* of those that run already.
LEMMA Launches ==
    ASSUME IndexInv, StoreTypes', NEW p \in JobPcs \ {"idle", "done"}, NEW D \in SUBSET Docs,
           NEW st \in [Docs -> Nat], NEW sg \in SegTypes \cup {NoSeg}, SafeGo(p, D, st, sg),
           p \in DocPcs => D # {},
           \A j \in Jobs : /\ job'[j].pc = p /\ job'[j].docs = D /\ job'[j].field = "text"
                           /\ job'[j].total = 0 /\ job'[j].dim > 0 /\ job'[j].extra = 0 /\ ~job'[j].remade
                           => Sound(j)'
    PROVE  IndexInv'
<1>1. PICK j \in Jobs :
        /\ job[j].pc = "idle"
        /\ job' = [i \in Jobs |->
             IF i = j
             THEN [NotRunning(p) EXCEPT !.docs = D, !.settings = st, !.seg = sg,
                     !.dim = kb.dim, !.imgdim = kb.imgdim, !.multimodal = kb.multimodal,
                     !.config = kb.config,
                     !.calm = \A k \in Jobs : ~Active(k)]
             ELSE [job[i] EXCEPT !.calm = job[i].calm /\ ~Active(i)]]
  BY DEF SafeGo
<1>2. PICK alone \in BOOLEAN : alone <=> \A k \in Jobs : ~Active(k) OBVIOUS
<1>3. /\ kb.dim \in Nat /\ kb.dim > 0 /\ kb.imgdim \in Nat /\ kb.multimodal \in BOOLEAN /\ kb.config \in Configs
      /\ job \in [Jobs -> JobTypes]
  <2>1. /\ kb.dim \in Dims /\ kb.imgdim \in ImageDims \cup {0} /\ kb.multimodal \in BOOLEAN
        /\ kb.config \in Configs /\ job \in [Jobs -> JobTypes]
    BY DEF IndexInv, IndexTypes, StoreTypes, BaseTypes
  <2>2. kb.dim \in Nat /\ kb.dim > 0 BY <2>1, DimensionFacts
  <2>3. kb.imgdim \in Nat BY <2>1, DimensionFacts
  <2> QED BY <2>1, <2>2, <2>3
<1>4. /\ job'[j] \in JobTypes /\ job'[j].pc = p /\ job'[j].docs = D /\ job'[j].field = "text"
      /\ job'[j].total = 0 /\ job'[j].dim = kb.dim /\ job'[j].calm = alone
      /\ job'[j].extra = 0 /\ ~job'[j].remade /\ ~job'[j].refused
  <2>1. PICK r : r = [NotRunning(p) EXCEPT !.docs = D, !.settings = st, !.seg = sg,
                        !.dim = kb.dim, !.imgdim = kb.imgdim, !.multimodal = kb.multimodal,
                        !.config = kb.config, !.calm = alone]
    OBVIOUS
  <2>2. /\ r.pc = p /\ r.docs = D /\ r.field = "text" /\ r.total = 0 /\ r.dim = kb.dim /\ r.calm = alone
        /\ r.extra = 0 /\ ~r.remade /\ ~r.refused /\ r \in JobTypes
    BY <1>3, <2>1 DEF NotRunning, JobTypes
  <2>3. (\A k \in Jobs : ~Active(k)) = alone BY <1>2
  <2>4. job'[j] = r BY <1>1, <2>1, <2>3
  <2> QED BY <2>2, <2>4
<1>5. ASSUME NEW i \in Jobs, i # j
      PROVE  /\ job'[i] \in JobTypes /\ job'[i].pc = job[i].pc /\ job'[i].docs = job[i].docs
             /\ job'[i].calm => ~Active(i) /\ job[i].calm
             /\ job'[i].refused = job[i].refused
  <2>1. PICK c \in BOOLEAN : c = (job[i].calm /\ ~Active(i)) OBVIOUS
  <2>2. job'[i] = [job[i] EXCEPT !.calm = c] BY <1>1, <1>5, <2>1
  <2>3. job[i] \in JobTypes BY <1>3
  <2>4. /\ [job[i] EXCEPT !.calm = c] \in JobTypes /\ job'[i].pc = job[i].pc
        /\ job'[i].docs = job[i].docs /\ job'[i].calm = c /\ job'[i].refused = job[i].refused
    BY <2>2, <2>3 DEF JobTypes
  <2> QED BY <2>1, <2>2, <2>4
<1>6. IndexTypes'
  <2>1. \A i \in Jobs : job'[i] \in JobTypes BY <1>4, <1>5
  <2>2. job' = [i \in Jobs |-> job'[i]] BY <1>1
  <2> QED BY <2>1, <2>2 DEF IndexTypes
<1>7. HasDocs' /\ CalmHeeded' BY <1>4, <1>5 DEF IndexInv, HasDocs, CalmHeeded
<1>8. CalmAlone'
  <2> SUFFICES ASSUME NEW i \in Jobs, NEW k \in Jobs, job'[k].calm, Active(k)', Active(i)' PROVE i = k
    BY DEF CalmAlone
  <2>1. k = j BY <1>5 DEF Active
  <2>2. \A h \in Jobs : ~Active(h) BY <1>2, <1>4, <2>1
  <2> QED BY <1>5, <2>1, <2>2 DEF Active
<1>9. ASSUME NEW i \in Jobs, job'[i].calm PROVE Sound(i)'
  <2>1. CASE i = j BY <1>3, <1>4, <2>1
  <2>2. CASE i # j
    <3>1. job'[i].pc \in {"idle", "done"} BY <1>5, <1>9, <2>2 DEF Active
    <3> QED BY <3>1, AtRest
  <2> QED BY <2>1, <2>2
<1> QED BY <1>6, <1>7, <1>8, <1>9 DEF IndexInv

\* A goroutine that is about to process documents that exist.
LEMMA StartsProcess ==
    ASSUME NEW j \in Jobs, job'[j].pc = "parsing", job'[j].field = "text", job'[j].total = 0,
           job'[j].dim > 0, job'[j].extra = 0, ~job'[j].remade, \A d \in job'[j].docs : Exists(d)'
    PROVE  Sound(j)'
BY DEF Sound, RowsThere, Collection, Contents, Deletion, In, Text, Processing, Connecting, Writing, Indexing

\* The handlers keep the invariant.  Processing one document starts a goroutine for it.
LEMMA ProcessDocumentKeeps ==
    ASSUME IndexInv, NEW d \in Docs, NEW n \in ChunkCounts, ProcessDocument(d, n)
    PROVE  IndexInv'
<1>1. /\ Exists(d) /\ UNCHANGED <<kb, segs, coll>> /\ n \in Nat
      /\ row' = [row EXCEPT ![d] = [row[d] EXCEPT !.status = "waiting", !.setting = n, !.orphan = FALSE]]
      /\ SafeGo("parsing", {d}, [Settings({d}) EXCEPT ![d] = n], NoSeg)
      /\ row \in [Docs -> RowTypes]
  BY ChunksAssumption DEF ProcessDocument, IndexInv, IndexTypes, StoreTypes
<1>2. row' \in [Docs -> RowTypes] /\ row'[d].status = "waiting" BY <1>1 DEF RowTypes
<1>3. StoreTypes' BY <1>1, <1>2 DEF IndexInv, IndexTypes, StoreTypes
<1>4. [Settings({d}) EXCEPT ![d] = n] \in [Docs -> Nat] BY <1>1 DEF Settings, RowTypes
<1>5. Exists(d)' BY <1>2 DEF Exists
<1>6. "parsing" \in JobPcs \ {"idle", "done"} BY DEF JobPcs, Processing
<1>7. {d} # {} /\ {d} \in SUBSET Docs OBVIOUS
<1>8. ASSUME NEW j \in Jobs, job'[j].pc = "parsing", job'[j].docs = {d}, job'[j].field = "text",
             job'[j].total = 0, job'[j].dim > 0, job'[j].extra = 0, ~job'[j].remade
      PROVE  Sound(j)'
  BY <1>5, <1>8, StartsProcess
<1> QED BY <1>1, <1>3, <1>4, <1>6, <1>7, <1>8, Launches

\* Reprocessing starts one goroutine for the whole batch.
LEMMA ReprocessKeeps ==
    ASSUME IndexInv, NEW D \in SUBSET Docs, D # {}, ReprocessDocuments(D)
    PROVE  IndexInv'
<1>1. /\ (\A d \in D : Exists(d)) /\ UNCHANGED <<kb, segs, coll>>
      /\ row' = [d \in Docs |-> IF d \in D THEN [row[d] EXCEPT !.status = "waiting", !.orphan = FALSE] ELSE row[d]]
      /\ SafeGo("parsing", D, Settings(D), NoSeg)
      /\ row \in [Docs -> RowTypes]
  BY DEF ReprocessDocuments, IndexInv, IndexTypes, StoreTypes
<1>2. \A d \in Docs : /\ [row[d] EXCEPT !.status = "waiting", !.orphan = FALSE] \in RowTypes
                      /\ [row[d] EXCEPT !.status = "waiting", !.orphan = FALSE].status = "waiting"
  BY <1>1 DEF RowTypes
<1>3. row' \in [Docs -> RowTypes] /\ \A d \in D : row'[d].status = "waiting" BY <1>1, <1>2
<1>4. StoreTypes' BY <1>1, <1>3 DEF IndexInv, IndexTypes, StoreTypes
<1>5. Settings(D) \in [Docs -> Nat] BY <1>1 DEF Settings, RowTypes
<1>6. \A d \in D : Exists(d)' BY <1>3 DEF Exists
<1>7. "parsing" \in JobPcs \ {"idle", "done"} BY DEF JobPcs, Processing
<1>8. ASSUME NEW j \in Jobs, job'[j].pc = "parsing", job'[j].docs = D, job'[j].field = "text",
             job'[j].total = 0, job'[j].dim > 0, job'[j].extra = 0, ~job'[j].remade
      PROVE  Sound(j)'
  BY <1>6, <1>8, StartsProcess
<1> QED BY <1>1, <1>4, <1>5, <1>7, <1>8, Launches

\* Deleting documents removes rows and segments, and starts the goroutine for the rest.
LEMMA DeleteDocumentsKeeps ==
    ASSUME IndexInv, NEW D \in SUBSET Docs, D # {}, DeleteDocuments(D)
    PROVE  IndexInv'
<1>1. /\ UNCHANGED <<kb, coll>> /\ segs' = {s \in segs : s.doc \notin D}
      /\ row' = [d \in Docs |-> IF d \in D THEN [row[d] EXCEPT !.status = "deleted"] ELSE row[d]]
      /\ SafeGo("delvectors", D, Settings({}), NoSeg)
      /\ row \in [Docs -> RowTypes]
  BY DEF DeleteDocuments, IndexInv, IndexTypes, StoreTypes
<1>2. \A d \in Docs : [row[d] EXCEPT !.status = "deleted"] \in RowTypes BY <1>1 DEF RowTypes
<1>3. row' \in [Docs -> RowTypes] BY <1>1, <1>2
<1>4. StoreTypes' BY <1>1, <1>3 DEF IndexInv, IndexTypes, StoreTypes
<1>5. Settings({}) \in [Docs -> Nat] BY DEF Settings
<1>6. \A d \in D : SegsOf(d)' = {} BY <1>1 DEF SegsOf
<1>7. "delvectors" \in JobPcs \ {"idle", "done"} BY DEF JobPcs, Processing
<1>8. ASSUME NEW j \in Jobs, job'[j].pc = "delvectors", job'[j].docs = D
      PROVE  Sound(j)'
  BY <1>6, <1>8
     DEF Sound, RowsThere, Collection, Contents, Deletion, In, Processing, Connecting, Writing, Indexing
<1> QED BY <1>1, <1>4, <1>5, <1>7, <1>8, Launches

\* Deleting the knowledge base starts the goroutine that drops everything of it.
LEMMA DeleteBaseKeeps == ASSUME IndexInv, DeleteBase PROVE IndexInv'
<1>1. /\ UNCHANGED <<row, segs, coll>> /\ kb' = [kb EXCEPT !.deleted = TRUE]
      /\ SafeGo("dropcoll", {}, Settings({}), NoSeg)
  BY DEF DeleteBase
<1>2. StoreTypes' /\ kb'.deleted BY <1>1 DEF IndexInv, IndexTypes, StoreTypes, BaseTypes
<1>3. Settings({}) \in [Docs -> Nat] BY DEF Settings
<1>4. "dropcoll" \in JobPcs \ {"idle", "done"} /\ "dropcoll" \notin DocPcs
  BY DEF JobPcs, DocPcs, Processing
<1>5. ASSUME NEW j \in Jobs, job'[j].pc = "dropcoll" PROVE Sound(j)'
  BY <1>2, <1>5
     DEF Sound, RowsThere, Collection, Contents, Deletion, In, Processing, Connecting, Writing, Indexing
<1> QED BY <1>1, <1>2, <1>3, <1>4, <1>5, Launches

\* UpdateSegment starts a goroutine, or changes a row that is not enabled; the
\* rows a calm goroutine has written are.
LEMMA UpdateSegmentKeeps ==
    ASSUME IndexInv, NEW s \in segs, NEW e \in BOOLEAN, NEW x \in 0 .. MaxEvents, UpdateSegment(s, e, x)
    PROVE  IndexInv'
<1>1. PICK t : t = [s EXCEPT !.enabled = e, !.text = x] OBVIOUS
<1>2. /\ UNCHANGED <<kb, row, coll, points>> /\ segs' = (segs \ {s}) \cup {t}
      /\ \/ \E p \in {"unembed", "reembed"} : SafeGo(p, {s.doc}, Settings({}), t)
         \/ ~s.enabled /\ UNCHANGED job
  BY <1>1 DEF UpdateSegment
<1>3. s \in SegTypes /\ x \in Nat BY BoundAssumption DEF IndexInv, IndexTypes, StoreTypes
<1>4. t \in SegTypes /\ t.doc = s.doc /\ s.doc \in Docs BY <1>1, <1>3 DEF SegTypes
<1>5. StoreTypes' BY <1>2, <1>4 DEF IndexInv, IndexTypes, StoreTypes
<1>6. CASE \E p \in {"unembed", "reembed"} : SafeGo(p, {s.doc}, Settings({}), t)
  <2>1. PICK p \in {"unembed", "reembed"} : SafeGo(p, {s.doc}, Settings({}), t) BY <1>6
  <2>2. p \in JobPcs \ {"idle", "done"} /\ p \notin DocPcs BY DEF JobPcs, DocPcs, Processing
  <2>3. Settings({}) \in [Docs -> Nat] BY DEF Settings
  <2>4. ASSUME NEW j \in Jobs, job'[j].pc = p PROVE Sound(j)'
    BY <2>4
       DEF Sound, RowsThere, Collection, Contents, Deletion, In, Processing, Connecting, Writing, Indexing
  <2>5. {s.doc} \in SUBSET Docs BY <1>4
  <2> QED BY <1>4, <1>5, <2>1, <2>2, <2>3, <2>4, <2>5, Launches
<1>7. CASE ~s.enabled /\ UNCHANGED job
  <2>1. IndexTypes' /\ HasDocs' /\ CalmAlone' /\ CalmHeeded'
    BY <1>5, <1>7 DEF IndexInv, IndexTypes, HasDocs, CalmAlone, CalmHeeded, Active
  <2>2. ASSUME NEW j \in Jobs, job[j].calm PROVE Sound(j)'
    <3>1. Sound(j) BY <2>2 DEF IndexInv
    <3>2. /\ Doc(j)' = Doc(j) /\ Chunks(j)' = Chunks(j) /\ (Text(j)' <=> Text(j))
          /\ \A n : Stored(j, n)' <=> Stored(j, n)
      BY <1>2, <1>7, SameDoc, SameContents DEF Text
    <3>3. \A n : Listed(j, n) => Listed(j, n)'
      <4> SUFFICES ASSUME NEW n, Listed(j, n) PROVE Listed(j, n)' OBVIOUS
      <4>1. \A i : SegAt(j, i).enabled = TRUE BY DEF SegAt
      <4>2. s \notin SegsOf(Doc(j)) BY <1>7, <4>1 DEF Listed
      <4>3. SegsOf(Doc(j))' = SegsOf(Doc(j)) BY <1>2, <1>4, <3>2, <4>2 DEF SegsOf
      <4>4. \A i : SegAt(j, i)' = SegAt(j, i) BY <3>2 DEF SegAt, KindAt
      <4> QED BY <1>7, <4>3, <4>4 DEF Listed
    <3>4. RowsThere(j)' BY <1>2, <1>7, <3>1, <3>2 DEF Sound, RowsThere, Exists
    <3>5. Collection(j)'
      BY <1>2, <1>7, <3>1, <3>2 DEF Sound, Collection, In, CollExists, Wanted
    <3>6. Contents(j)'
      BY <1>7, <3>1, <3>2, <3>3 DEF Sound, Contents, In
    <3>7. Deletion(j)'
      <4>1. \A d : SegsOf(d) = {} => SegsOf(d)' = {} BY <1>2, <1>4 DEF SegsOf
      <4>2. segs # {} OBVIOUS
      <4>3. PointsOf(Doc(j))' = PointsOf(Doc(j)) BY <1>2, <3>2 DEF PointsOf
      <4> QED BY <1>2, <1>7, <3>1, <4>1, <4>2, <4>3 DEF Sound, Deletion, In
    <3> QED BY <3>4, <3>5, <3>6, <3>7 DEF Sound
  <2> QED BY <1>7, <2>1, <2>2 DEF IndexInv
<1> QED BY <1>2, <1>6, <1>7

\* A handler that starts nothing and touches neither the segments nor the
\* collection.
LEMMA QuietHandler ==
    ASSUME IndexInv, StoreTypes', UNCHANGED <<segs, coll, points, job>>, kb.deleted => kb'.deleted,
           \A d \in Docs : Exists(d) => row'[d] = row[d]
    PROVE  IndexInv'
<1>1. IndexTypes' /\ HasDocs' /\ CalmAlone' /\ CalmHeeded'
  BY DEF IndexInv, IndexTypes, HasDocs, CalmAlone, CalmHeeded, Active
<1>2. ASSUME NEW j \in Jobs, job[j].calm PROVE Sound(j)'
  <2>1. Sound(j) /\ job[j].docs \subseteq Docs BY <1>2 DEF IndexInv, IndexTypes, JobTypes
  <2>2. /\ Doc(j)' = Doc(j) /\ Chunks(j)' = Chunks(j) /\ (Text(j)' <=> Text(j))
        /\ (\A n : Stored(j, n)' <=> Stored(j, n)) /\ (\A n : Listed(j, n)' <=> Listed(j, n))
    BY SameDoc, SameContents DEF Text
  <2>3. RowsThere(j)'
    <3>1. job[j].pc \in Indexing => Doc(j) \in Docs /\ Exists(Doc(j))
      BY <1>2, <2>1, Midway DEF Sound, RowsThere, Processing, Indexing, Connecting, Writing
    <3> QED BY <2>1, <2>2, <3>1 DEF Sound, RowsThere, Exists
  <2>4. Collection(j)' BY <2>1, <2>2 DEF Sound, Collection, In, CollExists, Wanted
  <2>5. Contents(j)' BY <2>1, <2>2 DEF Sound, Contents, In
  <2>6. Deletion(j)'
    <3>1. PointsOf(Doc(j))' = PointsOf(Doc(j)) /\ \A d : SegsOf(d)' = SegsOf(d)
      BY <2>2 DEF PointsOf, SegsOf
    <3> QED BY <2>1, <3>1 DEF Sound, Deletion, In
  <2> QED BY <2>3, <2>4, <2>5, <2>6 DEF Sound
<1> QED BY <1>1, <1>2 DEF IndexInv

\* Uploading makes a row where there was none.
LEMMA UploadKeeps == ASSUME IndexInv, NEW d \in Docs, UploadDocument(d) PROVE IndexInv'
<1>1. /\ UNCHANGED <<kb, segs, coll, points, job>> /\ row \in [Docs -> RowTypes] /\ ~Exists(d)
      /\ row' \in {row, [row EXCEPT ![d].status = "waiting"]}
  BY DEF UploadDocument, IndexInv, IndexTypes, StoreTypes, Exists
<1>2. row' \in [Docs -> RowTypes] /\ \A e \in Docs : Exists(e) => row'[e] = row[e]
  <2>1. CASE row' = row BY <1>1, <2>1
  <2>2. CASE row' = [row EXCEPT ![d].status = "waiting"]
    <3>1. [row[d] EXCEPT !.status = "waiting"] \in RowTypes BY <1>1 DEF RowTypes
    <3>2. row' = [row EXCEPT ![d] = [row[d] EXCEPT !.status = "waiting"]] BY <2>2
    <3> QED BY <1>1, <3>1, <3>2
  <2> QED BY <1>1, <2>1, <2>2
<1>3. StoreTypes' BY <1>1, <1>2 DEF IndexInv, IndexTypes, StoreTypes
<1> QED BY <1>1, <1>2, <1>3, QuietHandler

\* New settings of the base reach only goroutines that start later.
LEMMA UpdateBaseKeeps ==
    ASSUME IndexInv, UpdateTypes, NEW dim \in Dims, NEW i \in ImageDims \cup {0}, NEW m \in BOOLEAN,
           UpdateBase(dim, i, m)
    PROVE  IndexInv'
<1>1. /\ UNCHANGED <<row, segs, coll, points, job>>
      /\ kb' = [kb EXCEPT !.dim = dim, !.imgdim = i, !.multimodal = m, !.config = update.config]
  BY DEF UpdateBase
<1>2. StoreTypes' /\ kb'.deleted = kb.deleted
  BY <1>1 DEF IndexInv, IndexTypes, StoreTypes, BaseTypes, UpdateTypes
<1> QED BY <1>1, <1>2, QuietHandler

\* A restart ends every goroutine where it is.
LEMMA RestartKeeps == ASSUME IndexInv, Restart PROVE IndexInv'
<1>1. /\ UNCHANGED <<kb, segs, coll>> /\ job \in [Jobs -> JobTypes]
      /\ job' = [j \in Jobs |-> IF Active(j) THEN NotRunning("done") ELSE job[j]]
      /\ row' = [d \in Docs |-> [row[d] EXCEPT !.orphan = TRUE]] /\ row \in [Docs -> RowTypes]
  BY DEF Restart, IndexInv, IndexTypes, StoreTypes
<1>2. NotRunning("done") \in JobTypes /\ NotRunning("done").pc = "done" /\ ~NotRunning("done").refused
  BY DEF NotRunning, JobTypes, JobPcs, Configs, NoColl
<1>3. job' \in [Jobs -> JobTypes] BY <1>1, <1>2
<1>4. \A j \in Jobs : /\ job'[j].pc \in {"idle", "done"}
                      /\ job'[j] = job[j] \/ ~job'[j].refused
  BY <1>1, <1>2 DEF Active
<1>5. row' \in [Docs -> RowTypes]
  <2>1. \A d \in Docs : [row[d] EXCEPT !.orphan = TRUE] \in RowTypes BY <1>1 DEF RowTypes
  <2> QED BY <1>1, <2>1
<1>6. IndexTypes' BY <1>1, <1>3, <1>5 DEF IndexInv, IndexTypes, StoreTypes
<1>7. HasDocs' BY <1>4 DEF HasDocs, DocPcs, Processing
<1>8. CalmAlone' /\ CalmHeeded' BY <1>4 DEF CalmAlone, CalmHeeded, Active, IndexInv
<1> QED BY <1>4, <1>6, <1>7, <1>8, AtRest DEF IndexInv

\* The invariant holds at the start.
LEMMA IndexInvInit == IndexInit => IndexInv
<1> SUFFICES ASSUME IndexInit PROVE IndexInv OBVIOUS
<1>1. NotRunning("idle") \in JobTypes /\ NotRunning("idle").pc = "idle" /\ ~NotRunning("idle").refused
  BY DEF NotRunning, JobTypes, JobPcs, Configs, NoColl
<1>2. \A j \in Jobs : job[j] \in JobTypes /\ job[j].pc = "idle" /\ ~job[j].refused BY <1>1 DEF IndexInit
<1>3. job \in [Jobs -> JobTypes] BY <1>1 DEF IndexInit
<1>4. StoreTypes
  <2>1. FirstDim \in Dims /\ FirstImageDim \in ImageDims \cup {0} /\ DefaultChunks \in Nat
    BY DimsAssumption, ImageDimsAssumption, ChunksAssumption
  <2>2. coll \in Configs BY CollsAssumption DEF IndexInit, Configs
  <2>3. [status |-> "new", setting |-> DefaultChunks, count |-> 0, orphan |-> FALSE] \in RowTypes
    BY <2>1 DEF RowTypes
  <2> QED BY <2>1, <2>2, <2>3 DEF IndexInit, StoreTypes, BaseTypes
<1>5. HasDocs /\ CalmAlone /\ CalmHeeded BY <1>2 DEF HasDocs, CalmAlone, CalmHeeded, Active, DocPcs, Processing
<1>6. \A j \in Jobs : Sound(j)
  BY <1>2 DEF Sound, RowsThere, Collection, Contents, Deletion, In, Processing, Connecting, Writing, Indexing
<1> QED BY <1>3, <1>4, <1>5, <1>6 DEF IndexInv, IndexTypes

\* Every step keeps the invariant.
LEMMA IndexInvStep == IndexInv /\ UpdateTypes /\ [IndexNext]_indexVars => IndexInv'
<1> SUFFICES ASSUME IndexInv, UpdateTypes, [IndexNext]_indexVars PROVE IndexInv' OBVIOUS
<1>1. ASSUME UNCHANGED <<stores, job>> PROVE IndexInv'
  <2>1. UNCHANGED <<kb, row, segs, coll, points, job>> BY <1>1 DEF stores
  <2>2. StoreTypes' BY <2>1 DEF IndexInv, IndexTypes, StoreTypes
  <2> QED BY <2>1, <2>2, QuietHandler
<1>2. ASSUME Handlers PROVE IndexInv'
  <2>1. ASSUME NEW d \in Docs, UploadDocument(d) PROVE IndexInv' BY <2>1, UploadKeeps
  <2>2. ASSUME NEW d \in Docs, NEW n \in ChunkCounts, ProcessDocument(d, n) PROVE IndexInv'
    BY <2>2, ProcessDocumentKeeps
  <2>3. ASSUME NEW D \in (SUBSET Docs) \ {{}}, ReprocessDocuments(D) \/ DeleteDocuments(D) PROVE IndexInv'
    <3>1. D \in SUBSET Docs /\ D # {} OBVIOUS
    <3> QED BY <2>3, <3>1, ReprocessKeeps, DeleteDocumentsKeeps
  <2>4. ASSUME NEW dim \in Dims, NEW i \in ImageDims \cup {0}, NEW m \in BOOLEAN, UpdateBase(dim, i, m)
        PROVE  IndexInv'
    BY <2>4, UpdateBaseKeeps
  <2>5. ASSUME NEW s \in segs, NEW e \in BOOLEAN, NEW t \in 0 .. MaxEvents, UpdateSegment(s, e, t)
        PROVE  IndexInv'
    BY <2>5, UpdateSegmentKeeps
  <2>6. ASSUME ReadBase PROVE IndexInv' BY <1>1, <2>6 DEF ReadBase
  <2> QED BY <1>2, <2>1, <2>2, <2>3, <2>4, <2>5, <2>6, DeleteBaseKeeps DEF Handlers
<1>3. ASSUME NEW j \in Jobs, Process(j) PROVE IndexInv'
  BY <1>3, ParseKeeps, SplitKeeps, EnsureKeeps, RebuildKeeps, CreateKeeps, MakeKeeps, WriteConfigKeeps,
     WipeVectorsKeeps, WipeSegmentsKeeps, UpsertKeeps, InsertKeeps, ImagesKeeps,
     CompleteKeeps, MarkFailedKeeps DEF Process
<1>4. ASSUME NEW j \in Jobs, Other(j) PROVE IndexInv'
  BY <1>4, DeleteVectorsKeeps, DeleteFileKeeps, DropKeeps, SegmentStepKeeps, LastStepKeeps DEF Other
<1>5. ASSUME NEW j \in Jobs, Failure(j) PROVE IndexInv' BY <1>5, ImageLeftKeeps, FailureKeeps DEF Failure
<1>6. ASSUME UNCHANGED indexVars PROVE IndexInv' BY <1>1, <1>6 DEF indexVars
<1> QED BY <1>2, <1>3, <1>4, <1>5, <1>6, RestartKeeps DEF IndexNext, Quiet

\* An Update has read the config of a base.
LEMMA UpdateTypesStep == IndexInv /\ UpdateTypes /\ [IndexNext]_indexVars => UpdateTypes'
<1> SUFFICES ASSUME IndexInv, UpdateTypes, [IndexNext]_indexVars PROVE UpdateTypes' OBVIOUS
<1>1. kb.config \in Configs BY DEF IndexInv, IndexTypes, StoreTypes, BaseTypes
<1>2. ASSUME update' = NoUpdate PROVE UpdateTypes' BY <1>2 DEF UpdateTypes, NoUpdate, NoColl, Configs
<1>3. ASSUME UNCHANGED update PROVE UpdateTypes' BY <1>3 DEF UpdateTypes
<1>4. ASSUME ReadBase PROVE UpdateTypes' BY <1>1, <1>4 DEF ReadBase, UpdateTypes
<1>5. ASSUME Handlers PROVE UpdateTypes'
  BY <1>2, <1>3, <1>4, <1>5
     DEF Handlers, UploadDocument, ProcessDocument, ReprocessDocuments, DeleteDocuments, DeleteBase, UpdateBase,
         UpdateSegment, around
<1>6. ASSUME NEW j \in Jobs, Process(j) PROVE UNCHANGED update
  BY <1>6 DEF Process, Parse, Split, Ensure, Rebuild, Create, Make, WriteConfig, WipeVectors, WipeSegments,
              Upsert, InsertSegments, Images, Complete, MarkFailed, around
<1>7. ASSUME NEW j \in Jobs, Other(j) PROVE UNCHANGED update
  BY <1>7 DEF Other, DeleteVectors, DeleteFile, DropCollection, DropRows, DropDir, ReadModel, FindSegment,
              ReEmbedSegment, DeleteSegmentVector, around
<1>8. ASSUME NEW j \in Jobs, Failure(j) PROVE UNCHANGED update
  BY <1>8 DEF Failure, ImageLeft, Fails, ImagesFail, InfoFails, CallFails, StatementFails
<1> QED BY <1>2, <1>3, <1>5, <1>6, <1>7, <1>8 DEF IndexNext, Restart, Quiet, indexVars, around

-----------------------------------------------------------------------------
(* The properties follow from the invariant at the step that each of them    *)
(* is about.                                                                 *)

\* IndexInv holds in every reachable state.
THEOREM IndexInductive == IndexSpec => []IndexInv
<1>1. IndexInit => UpdateTypes BY DEF IndexInit, UpdateTypes, NoUpdate, NoColl, Configs
<1> QED BY <1>1, IndexInvInit, IndexInvStep, UpdateTypesStep, PTL DEF IndexSpec

\* A step of a goroutine other than the one that is calm is not possible.
LEMMA OnlyOne ==
    ASSUME IndexInv, NEW j \in Jobs, job[j].calm, Active(j), NEW i \in Jobs, Active(i) PROVE i = j
BY DEF IndexInv, CalmAlone

\* Whoever takes a step of Process or of another goroutine is active.
LEMMA StepIsActive ==
    ASSUME NEW i \in Jobs, Process(i) \/ Other(i) \/ Failure(i) PROVE Active(i)
<1>1. CASE Process(i)
  BY <1>1 DEF Process, Parse, Split, Ensure, Rebuild, Create, Make, WriteConfig, WipeVectors, WipeSegments,
              Upsert, InsertSegments, Images, Complete, MarkFailed, In, Active
<1>2. CASE Other(i)
  BY <1>2 DEF Other, DeleteVectors, DeleteFile, DropCollection, DropRows, DropDir, ReadModel, FindSegment,
              ReEmbedSegment, DeleteSegmentVector, In, Active
<1>3. CASE Failure(i)
  BY <1>3 DEF Failure, ImageLeft, Fails, ImagesFail, InfoFails, CallFails, StatementFails, Processing,
              LoggedOnly, In, Active
<1> QED BY <1>1, <1>2, <1>3

\* The handlers start goroutines but move none that is running.
LEMMA HandlerMoves ==
    ASSUME IndexInv, Handlers, NEW j \in Jobs, Active(j) PROVE job'[j].pc = job[j].pc
<1>1. job \in [Jobs -> JobTypes] BY DEF IndexInv, IndexTypes
<1>2. ASSUME NEW p, NEW D, NEW st, NEW sg, SafeGo(p, D, st, sg) PROVE job'[j].pc = job[j].pc
  <2>1. PICK i \in Jobs :
          /\ job[i].pc = "idle"
          /\ \A k \in Jobs \ {i} : job'[k] = [job[k] EXCEPT !.calm = job[k].calm /\ ~Active(k)]
    BY <1>2 DEF SafeGo
  <2>2. j # i BY <2>1 DEF Active
  <2>3. job[j] \in JobTypes BY <1>1
  <2> QED BY <2>1, <2>2, <2>3 DEF JobTypes
<1> QED BY <1>2 DEF Handlers, UploadDocument, ProcessDocument, ReprocessDocuments, DeleteDocuments,
                    DeleteBase, ReadBase, UpdateBase, UpdateSegment

\* No step of a handler or of the process touches the collection.
LEMMA WhoTouchesTheCollection ==
    ASSUME IndexNext, coll' # coll
    PROVE  \E j \in Jobs : Rebuild(j) \/ Create(j) \/ Make(j) \/ DropCollection(j)
<1>1. ~Handlers
  BY DEF Handlers, UploadDocument, ProcessDocument, ReprocessDocuments, DeleteDocuments,
         DeleteBase, ReadBase, UpdateBase, UpdateSegment, stores
<1>2. ~Restart /\ ~Quiet BY DEF Restart, Quiet, stores, indexVars
<1>3. \A j \in Jobs : ~Failure(j)
  BY DEF Failure, ImageLeft, Fails, ImagesFail, InfoFails, CallFails, StatementFails, stores
<1>4. ASSUME NEW j \in Jobs, Process(j) PROVE Rebuild(j) \/ Create(j) \/ Make(j)
  BY <1>4 DEF Process, Parse, Split, Ensure, WriteConfig, WipeVectors, WipeSegments,
              Upsert, InsertSegments, Images, Complete, MarkFailed, stores
<1>5. ASSUME NEW j \in Jobs, Other(j) PROVE DropCollection(j)
  BY <1>5 DEF Other, DeleteVectors, DeleteFile, DropRows, DropDir, ReadModel, FindSegment, ReEmbedSegment,
              DeleteSegmentVector, stores
<1> QED BY <1>1, <1>2, <1>3, <1>4, <1>5 DEF IndexNext

\* The bound on failures counts in natural numbers.
EventsNat == events \in Nat
\* Failures and restarts are counted, never more than one at a step.
LEMMA EventsCount == EventsNat /\ [IndexNext]_indexVars => EventsNat'
<1> SUFFICES ASSUME EventsNat, [IndexNext]_indexVars PROVE EventsNat' OBVIOUS
<1> SUFFICES events' \in {events, events + 1} BY DEF EventsNat
<1>1. CASE UNCHANGED indexVars BY <1>1 DEF indexVars, around
<1>2. CASE Handlers
  BY <1>2 DEF Handlers, UploadDocument, ProcessDocument, ReprocessDocuments, DeleteDocuments,
              DeleteBase, ReadBase, UpdateBase, UpdateSegment, around
<1>3. CASE Restart BY <1>3 DEF Restart
<1>4. ASSUME NEW j \in Jobs, Process(j) PROVE events' \in {events, events + 1}
  BY <1>4 DEF Process, Parse, Split, Ensure, Rebuild, Create, Make, WriteConfig, WipeVectors, WipeSegments,
              Upsert, InsertSegments, Images, Complete, MarkFailed, around
<1>5. ASSUME NEW j \in Jobs, Other(j) PROVE events' \in {events, events + 1}
  BY <1>5 DEF Other, DeleteVectors, DeleteFile, DropCollection, DropRows, DropDir, ReadModel, FindSegment,
              ReEmbedSegment, DeleteSegmentVector, around
<1>6. ASSUME NEW j \in Jobs, Failure(j) PROVE events' \in {events, events + 1}
  BY <1>6 DEF Failure, ImageLeft, Fails, ImagesFail, InfoFails, CallFails, StatementFails
<1> QED BY <1>1, <1>2, <1>3, <1>4, <1>5, <1>6 DEF IndexNext, Quiet

\* No segment and no point of a document is left once its deletion has run
\* alone, and nothing at all of a knowledge base (Delete, DeleteDocument).
THEOREM DeletedIsGoneTheorem == IndexSpec => DeletedIsGone
<1> DEFINE Gone == \A j \in Jobs, d \in Docs :
         job[j].calm /\ job'[j].pc # job[j].pc /\ events' = events =>
           /\ In(j, "delfile") /\ d = Doc(j) => SegsOf(d)' = {} /\ PointsOf(d)' = {}
           /\ In(j, "dropdir") => segs' = {} /\ points' = NoPoints /\ files' = {}
<1>1. IndexInv /\ EventsNat /\ [IndexNext]_indexVars => [Gone]_indexVars
  <2> SUFFICES ASSUME IndexInv, events \in Nat, IndexNext, NEW j \in Jobs, NEW d \in Docs,
                      job[j].calm, job'[j].pc # job[j].pc, events' = events,
                      job[j].pc \in {"delfile", "dropdir"}
               PROVE  /\ In(j, "delfile") /\ d = Doc(j) => SegsOf(d)' = {} /\ PointsOf(d)' = {}
                      /\ In(j, "dropdir") => segs' = {} /\ points' = NoPoints /\ files' = {}
    BY DEF In, EventsNat
  <2>1. Active(j) /\ Sound(j) BY DEF Active, IndexInv
  <2>2. ~Handlers BY <2>1, HandlerMoves
  <2>3. ~Restart /\ ~Quiet BY <2>1 DEF Restart, Quiet
  <2>4. Process(j) \/ Other(j) \/ Failure(j)
    BY <2>1, <2>2, <2>3, OnlyOne, StepIsActive DEF IndexNext
  <2>5. ~Process(j)
    BY DEF Process, Parse, Split, Ensure, Rebuild, Create, Make, WriteConfig, WipeVectors, WipeSegments,
           Upsert, InsertSegments, Images, Complete, MarkFailed, In
  <2>6. ~Failure(j)
    BY DEF Failure, ImageLeft, Fails, ImagesFail, InfoFails, CallFails, StatementFails, Processing, LoggedOnly, In
  <2>7. DeleteFile(j) \/ DropDir(j)
    BY <2>4, <2>5, <2>6 DEF Other, DeleteVectors, DropCollection, DropRows, ReadModel, FindSegment,
                            ReEmbedSegment, DeleteSegmentVector, In
  <2>8. CASE DeleteFile(j)
    <3>1. In(j, "delfile") /\ UNCHANGED <<segs, points>> BY <2>8 DEF DeleteFile
    <3>2. job[j].docs # {} BY <3>1 DEF IndexInv, HasDocs, DocPcs, In
    <3>3. Doc(j) \in job[j].docs BY <3>2, DocFacts DEF IndexInv
    <3>4. SegsOf(Doc(j)) = {} /\ PointsOf(Doc(j)) = {}
      BY <2>1, <3>1, <3>3 DEF Sound, Deletion, In
    <3> QED BY <3>1, <3>4 DEF SegsOf, PointsOf, In
  <2>9. CASE DropDir(j)
    BY <2>1, <2>9 DEF DropDir, Sound, Deletion, In
  <2> QED BY <2>7, <2>8, <2>9
<1>2. IndexInit => EventsNat BY DEF IndexInit, EventsNat
<1> QED BY <1>1, <1>2, IndexInductive, EventsCount, PTL DEF IndexSpec, DeletedIsGone

\* Indexing never drops a collection that fits the models, whoever else's
\* vectors are in it, as long as the goroutine runs alone (knowledge_qdrant.go).
THEOREM CollectionIsKeptTheorem == IndexSpec => CollectionIsKept
<1> DEFINE CollKept == CollExists /\ ~kb.deleted
         /\ (\A j \in Jobs : Active(j) =>
               job[j].calm /\ Fits(j) /\ \A d \in job[j].docs : job[j].settings[d] > 0)
         => coll' = coll
<1>1. IndexInv /\ [IndexNext]_indexVars => [CollKept]_indexVars
  <2> SUFFICES ASSUME IndexInv, IndexNext, CollExists, ~kb.deleted, coll' # coll,
                      \A j \in Jobs : Active(j) =>
                        job[j].calm /\ Fits(j) /\ \A d \in job[j].docs : job[j].settings[d] > 0
               PROVE  FALSE
    OBVIOUS
  <2>1. PICK j \in Jobs : Rebuild(j) \/ Create(j) \/ Make(j) \/ DropCollection(j)
    BY WhoTouchesTheCollection
  <2>2. job[j].pc \in {"rebuild", "create", "make", "dropcoll"}
    BY <2>1 DEF Rebuild, Create, Make, DropCollection, In
  <2>3. /\ job[j].calm /\ Sound(j) /\ Fits(j)
        /\ \A d \in job[j].docs : job[j].settings[d] > 0
    BY <2>2 DEF Active, IndexInv
  <2>4. job[j].pc = "rebuild" BY <2>2, <2>3 DEF Sound, Collection, In
  <2>5. Doc(j) \in job[j].docs BY <2>3, <2>4, Midway DEF Indexing, Connecting
  <2>6. Chunks(j) > 0 BY <2>3, <2>5 DEF Chunks
  <2>7. Wanted(j).text = coll.text
    BY <2>3, <2>4, <2>6 DEF Sound, Collection, Fits, Wanted, Text, Indexing, Connecting
  <2>8. coll.image # 0 => Wanted(j).image \in {0, coll.image} BY <2>3 DEF Fits, Wanted
  <2>9. coll.image \in Nat /\ Wanted(j).image \in Nat
    BY DEF IndexInv, IndexTypes, StoreTypes, JobTypes, Configs, Wanted
  <2> QED BY <2>3, <2>4, <2>7, <2>8, <2>9 DEF Sound, Collection, In
<1> QED BY <1>1, IndexInductive, PTL DEF IndexSpec, CollectionIsKept

\* What is stored is what is listed, and it is as many as the total says.
LEMMA Agreement ==
    ASSUME NEW j \in Jobs, NEW n \in Nat, Stored(j, n), Listed(j, n)
    PROVE  /\ {<<points[k].pos, points[k].kind, points[k].text>> : k \in PointsOf(Doc(j))} =
              {<<s.pos, s.kind, s.text>> : s \in {t \in SegsOf(Doc(j)) : t.enabled}}
           /\ Cardinality(SegsOf(Doc(j))) = n
<1> DEFINE Said == {<<i, KindAt(j, i), 0>> : i \in 0 .. (n - 1)}
<1>1. \A i : /\ PointAt(j, i).pos = i /\ PointAt(j, i).kind = KindAt(j, i) /\ PointAt(j, i).text = 0
             /\ SegAt(j, i).pos = i /\ SegAt(j, i).kind = KindAt(j, i) /\ SegAt(j, i).text = 0
             /\ SegAt(j, i).enabled = TRUE
  BY DEF PointAt, SegAt
<1>2. {<<points[k].pos, points[k].kind, points[k].text>> : k \in PointsOf(Doc(j))} = Said
  <2>1. PointsOf(Doc(j)) = {PointID(Doc(j), i) : i \in 0 .. (n - 1)} BY DEF Stored
  <2>2. \A i \in 0 .. (n - 1) : LET k == PointID(Doc(j), i) IN
          <<points[k].pos, points[k].kind, points[k].text>> = <<i, KindAt(j, i), 0>>
    BY <1>1 DEF Stored
  <2> QED BY <2>1, <2>2
<1>3. SegsOf(Doc(j)) = {SegAt(j, i) : i \in 0 .. (n - 1)} BY DEF Listed
<1>4. {<<s.pos, s.kind, s.text>> : s \in {t \in SegsOf(Doc(j)) : t.enabled}} = Said
  <2>1. {t \in SegsOf(Doc(j)) : t.enabled} = {SegAt(j, i) : i \in 0 .. (n - 1)} BY <1>1, <1>3
  <2>2. \A i \in 0 .. (n - 1) :
          <<SegAt(j, i).pos, SegAt(j, i).kind, SegAt(j, i).text>> = <<i, KindAt(j, i), 0>>
    BY <1>1
  <2> QED BY <2>1, <2>2
<1>5. Cardinality(SegsOf(Doc(j))) = n
  <2> DEFINE f == [i \in 0 .. (n - 1) |-> SegAt(j, i)]
             S == 0 .. (n - 1)
             T == SegsOf(Doc(j))
  <2>1. f \in [S -> T] BY <1>3
  <2>2. \A i, k \in S : f[i] = f[k] => i = k BY <1>1
  <2>3. \A t \in T : \E i \in S : f[i] = t BY <1>3
  <2>4. f \in Bijection(S, T) BY <2>1, <2>2, <2>3 DEF Bijection, Injection, Surjection, IsInjective
  <2>5. ExistsBijection(S, T) BY <2>4 DEF ExistsBijection
  <2>6. IsFiniteSet(S) /\ Cardinality(S) = n BY FS_Interval
  <2> HIDE DEF S, T
  <2>7. Cardinality(T) = Cardinality(S) BY <2>5, <2>6, FS_Bijection
  <2> QED BY <2>6, <2>7 DEF T
<1> QED BY <1>2, <1>4, <1>5

\* The handlers complete no document.
LEMMA HandlersCompleteNothing ==
    ASSUME IndexInv, Handlers, NEW d \in Docs, row'[d].status = "completed"
    PROVE  row[d].status = "completed"
<1>1. row \in [Docs -> RowTypes] BY DEF IndexInv, IndexTypes, StoreTypes
<1>2. ASSUME NEW e \in Docs, NEW st \in {"waiting", "deleted"}
      PROVE  /\ [row[e] EXCEPT !.status = st].status # "completed"
             /\ [row[e] EXCEPT !.status = st, !.orphan = FALSE].status # "completed"
  BY <1>1 DEF RowTypes
<1>3. ASSUME NEW e \in Docs, UploadDocument(e) PROVE row[d].status = "completed"
  BY <1>1, <1>3 DEF UploadDocument, RowTypes
<1>4. ASSUME NEW e \in Docs, NEW n \in ChunkCounts, ProcessDocument(e, n) PROVE row[d].status = "completed"
  BY <1>1, <1>4 DEF ProcessDocument, RowTypes
<1>5. ASSUME NEW D, ReprocessDocuments(D) PROVE row[d].status = "completed"
  BY <1>1, <1>2, <1>5 DEF ReprocessDocuments
<1>6. ASSUME NEW D, DeleteDocuments(D) PROVE row[d].status = "completed"
  BY <1>1, <1>2, <1>6 DEF DeleteDocuments
<1>7. ASSUME UNCHANGED row PROVE row[d].status = "completed" BY <1>7
<1> QED BY <1>3, <1>4, <1>5, <1>6, <1>7 DEF Handlers, DeleteBase, ReadBase, UpdateBase, UpdateSegment, stores

\* A document that Process completes alone is the same in the collection and in
\* the database, whatever was left of earlier runs, unless the collection was made
\* anew for its images (knowledge_processor.go).
THEOREM CompletedIsIndexedTheorem == IndexSpec => CompletedIsIndexed
<1> DEFINE Indexed == \A j \in Jobs, d \in Docs :
         In(j, "complete") /\ d = Doc(j) /\ row'[d].status = "completed" /\ row[d].status # "completed"
           /\ job[j].calm /\ ~job[j].remade
         => /\ row[d].status = "indexing" /\ Agree(d)'
            /\ row'[d].count = Cardinality(SegsOf(d)') + job[j].extra
<1>1. IndexInv /\ [IndexNext]_indexVars => [Indexed]_indexVars
  <2> SUFFICES ASSUME IndexInv, IndexNext, NEW j \in Jobs, NEW d \in Docs, In(j, "complete"), d = Doc(j),
                      row'[d].status = "completed", row[d].status # "completed", job[j].calm, ~job[j].remade
               PROVE  /\ row[d].status = "indexing" /\ Agree(d)'
                      /\ row'[d].count = Cardinality(SegsOf(d)') + job[j].extra
    OBVIOUS
  <2>1. Active(j) /\ Sound(j) /\ ~job[j].refused BY DEF Active, In, IndexInv, CalmHeeded
  <2>2. ~Handlers BY HandlersCompleteNothing
  <2>3. ~Restart /\ ~Quiet
    <3>1. row[d] \in RowTypes BY DEF IndexInv, IndexTypes, StoreTypes
    <3>2. [row[d] EXCEPT !.orphan = TRUE].status = row[d].status BY <3>1 DEF RowTypes
    <3> QED BY <3>2 DEF Restart, Quiet, indexVars, stores
  <2>4. Process(j) \/ Other(j) \/ Failure(j)
    BY <2>1, <2>2, <2>3, OnlyOne, StepIsActive DEF IndexNext
  <2>5. ~Failure(j)
    BY DEF Failure, ImageLeft, Fails, ImagesFail, InfoFails, CallFails, StatementFails, stores
  <2>6. ~Other(j)
    BY DEF Other, DeleteVectors, DeleteFile, DropCollection, DropRows, DropDir, ReadModel, FindSegment,
           ReEmbedSegment, DeleteSegmentVector, In
  <2>7. Complete(j)
    BY <2>4, <2>5, <2>6
       DEF Process, Parse, Split, Ensure, Rebuild, Create, Make, WriteConfig, WipeVectors, WipeSegments,
           Upsert, InsertSegments, Images, MarkFailed, In
  <2>8. row[d].status = "indexing" BY <2>1 DEF Sound, RowsThere, In, Indexing
  <2>9. PICK n \in Nat : Stored(j, n) /\ Listed(j, n) BY <2>1 DEF Sound, Contents
  <2>10. row'[d].count = n + job[j].extra
    <3>1. IndexTypes /\ job[j].total \in Nat BY DEF IndexInv, IndexTypes, JobTypes
    <3>2. SetFinal(j, "completed", job[j].total) BY <2>7 DEF Complete
    <3>3. row'[d].count = job[j].total BY <2>1, <2>8, <3>1, <3>2, FinalFacts DEF Exists
    <3>4. job[j].total = n + job[j].extra BY <2>9 DEF Listed
    <3> QED BY <3>3, <3>4
  <2>11. UNCHANGED <<points, segs>> BY <2>7 DEF Complete
  <2>12. /\ {<<points[k].pos, points[k].kind, points[k].text>> : k \in PointsOf(d)} =
            {<<s.pos, s.kind, s.text>> : s \in {t \in SegsOf(d) : t.enabled}}
         /\ Cardinality(SegsOf(d)) = n
    BY <2>9, Agreement
  <2>13. Agree(d)' BY <2>11, <2>12 DEF Agree, PointsOf, SegsOf
  <2>14. SegsOf(d)' = SegsOf(d) BY <2>11 DEF SegsOf
  <2> QED BY <2>8, <2>10, <2>12, <2>13, <2>14
<1> QED BY <1>1, IndexInductive, PTL DEF IndexSpec, CompletedIsIndexed

-----------------------------------------------------------------------------
(* Attended needs the types and HasDocs only, so it holds for goroutines that *)
(* run beside one another, too.                                              *)

Busy(d) == \E j \in Jobs : job[j].pc \in Processing \cup {"failed"} /\ d \in job[j].docs
Underway == {"parsing", "splitting", "indexing"}

\* A document is attended to as long as its row is left as it is and the
\* goroutines that process documents go on with theirs.
LEMMA StaysAttended ==
    ASSUME Attended, NEW d \in Docs, row'[d].status \in Underway => row'[d] = row[d],
           Busy(d) => Busy(d)'
    PROVE  row'[d].status \in Underway => row'[d].orphan \/ Busy(d)'
BY DEF Attended, Busy, Underway

\* A goroutine that goes on with its documents keeps all busy.
LEMMA StaysBusy ==
    ASSUME NEW j \in Jobs, \A i \in Jobs \ {j} : job'[i] = job[i],
           job[j].pc \in Processing \cup {"failed"} =>
             job'[j].pc \in Processing \cup {"failed"} /\ job'[j].docs = job[j].docs
    PROVE  \A d : Busy(d) => Busy(d)'
<1> SUFFICES ASSUME NEW d, Busy(d) PROVE Busy(d)' OBVIOUS
<1>1. PICK i \in Jobs : job[i].pc \in Processing \cup {"failed"} /\ d \in job[i].docs BY DEF Busy
<1>2. job'[i].pc \in Processing \cup {"failed"} /\ d \in job'[i].docs BY <1>1
<1> QED BY <1>2 DEF Busy

\* A step of Process writes the row of the document the goroutine is at, and
\* goes on with it or leaves it with the last word said, or orphaned.
LEMMA ProcessAttends ==
    ASSUME IndexInv, Attended, NEW j \in Jobs, Process(j) PROVE Attended'
<1>1. /\ IndexTypes /\ job \in [Jobs -> JobTypes] /\ job[j] \in JobTypes /\ row \in [Docs -> RowTypes]
      /\ job[j].pc \in Processing \cup {"failed"} /\ job[j].docs # {}
  <2>1. job[j].pc \in Processing \cup {"failed"}
    BY DEF Process, Parse, Split, Ensure, Rebuild, Create, Make, WriteConfig, WipeVectors, WipeSegments,
           Upsert, InsertSegments, Images, Complete, MarkFailed, In, Processing
  <2> QED BY <2>1 DEF IndexInv, IndexTypes, StoreTypes, HasDocs, DocPcs
<1>2. Doc(j) \in job[j].docs /\ Doc(j) \in Docs BY <1>1, DocFacts
<1>3. ASSUME \A i \in Jobs \ {j} : job'[i] = job[i],
             job'[j].pc \in Processing \cup {"failed"}, job'[j].docs = job[j].docs,
             \A d \in Docs : d # Doc(j) => row'[d] = row[d]
      PROVE  Attended'
  <2>1. \A d : Busy(d) => Busy(d)' BY <1>3, StaysBusy
  <2>2. ASSUME NEW d \in Docs, d = Doc(j) PROVE Busy(d)' BY <1>2, <1>3, <2>2 DEF Busy
  <2>3. ASSUME NEW d \in Docs PROVE row'[d].status \in Underway => row'[d].orphan \/ Busy(d)'
    BY <1>3, <2>1, <2>2, StaysAttended
  <2> QED BY <2>3 DEF Attended, Busy, Underway
<1>4. ASSUME NEW st, SetStatus(j, st) PROVE \A d \in Docs : d # Doc(j) => row'[d] = row[d]
  BY <1>1, <1>2, <1>4 DEF SetStatus
<1>5. ASSUME NEW p \in Processing \cup {"failed"}, Go(j, p)
      PROVE  /\ \A i \in Jobs \ {j} : job'[i] = job[i]
             /\ job'[j].pc \in Processing \cup {"failed"} /\ job'[j].docs = job[j].docs
  <2>1. p \in JobPcs BY DEF JobPcs
  <2> QED BY <1>1, <1>5, <2>1, JobMoves DEF SameWork
<1>6. ASSUME NEW r, job' = [job EXCEPT ![j] = r], r.pc \in Processing \cup {"failed"}, r.docs = job[j].docs
      PROVE  /\ \A i \in Jobs \ {j} : job'[i] = job[i]
             /\ job'[j].pc \in Processing \cup {"failed"} /\ job'[j].docs = job[j].docs
  BY <1>1, <1>6
<1>7. ASSUME UNCHANGED row PROVE \A d \in Docs : d # Doc(j) => row'[d] = row[d] BY <1>7
<1>8. ASSUME NEW st \in {"completed", "error"}, NEW n \in Nat, SetFinal(j, st, n), Leave(j, "parsing")
      PROVE  Attended'
  <2>1. "parsing" \in JobPcs BY DEF JobPcs, Processing
  <2>2. /\ \A i \in Jobs \ {j} : job'[i] = job[i]
        /\ \/ job'[j].pc = "done" /\ job[j].docs = {Doc(j)}
           \/ job'[j].pc = "parsing" /\ job'[j].docs = job[j].docs \ {Doc(j)}
    <3>1. CASE job[j].docs \ {Doc(j)} = {}
      <4>1. job' = [job EXCEPT ![j] = NotRunning("done")] BY <1>8, <3>1 DEF Leave
      <4>2. NotRunning("done").pc = "done" BY DEF NotRunning
      <4> QED BY <1>1, <1>2, <3>1, <4>1, <4>2
    <3>2. CASE job[j].docs \ {Doc(j)} # {}
      <4>1. PICK r : r = [job[j] EXCEPT !.docs = job[j].docs \ {Doc(j)}, !.pc = "parsing", !.total = 0, !.field = "text",
                                        !.refused = FALSE, !.left = FALSE, !.extra = 0, !.remade = FALSE]
        OBVIOUS
      <4>2. job' = [job EXCEPT ![j] = r] BY <1>8, <3>2, <4>1 DEF Leave
      <4>3. r.pc = "parsing" /\ r.docs = job[j].docs \ {Doc(j)} BY <1>1, <4>1 DEF JobTypes
      <4> QED BY <1>1, <4>2, <4>3
    <3> QED BY <3>1, <3>2
  <2>3. /\ \A d \in Docs : d # Doc(j) => row'[d] = row[d]
        /\ \A d \in Docs : d = Doc(j) /\ Exists(d) =>
             IF job[j].refused THEN row'[d].orphan ELSE row'[d].status = st /\ row'[d].count = n
    BY <1>1, <1>8, FinalFacts
  <2>4. ASSUME NEW d \in Docs PROVE row'[d].status \in Underway => row'[d].orphan \/ Busy(d)'
    <3>1. CASE d # Doc(j)
      <4>1. ASSUME Busy(d) PROVE Busy(d)'
        <5>1. PICK i \in Jobs : job[i].pc \in Processing \cup {"failed"} /\ d \in job[i].docs
          BY <4>1 DEF Busy
        <5>2. job'[i].pc \in Processing \cup {"failed"} /\ d \in job'[i].docs
          BY <2>2, <3>1, <5>1 DEF Processing
        <5> QED BY <5>2 DEF Busy
      <4> QED BY <2>3, <3>1, <4>1, StaysAttended
    <3>2. CASE d = Doc(j) /\ Exists(d) BY <2>3, <3>2 DEF Underway
    <3>3. CASE d = Doc(j) /\ ~Exists(d)
      BY <1>8, <3>3 DEF SetFinal, Exists, Underway
    <3> QED BY <3>1, <3>2, <3>3
  <2> QED BY <2>4 DEF Attended, Busy, Underway
<1>9. CASE Parse(j) \/ Ensure(j) \/ Create(j) \/ Make(j) \/ WipeVectors(j) \/ WipeSegments(j) \/ Upsert(j)
  <2>1. \E p \in Processing \cup {"failed"} : Go(j, p)
    BY <1>9 DEF Parse, Ensure, Create, Make, WipeVectors, WipeSegments, Upsert, OnError, Processing
  <2>2. CASE Parse(j)
    <3>1. SetStatus(j, "parsing") BY <2>2 DEF Parse
    <3> QED BY <1>3, <1>4, <1>5, <2>1, <3>1
  <2>3. CASE ~Parse(j)
    <3>1. UNCHANGED row
      BY <1>9, <2>3 DEF Ensure, Create, Make, WipeVectors, WipeSegments, Upsert, stores
    <3> QED BY <1>3, <1>5, <1>7, <2>1, <3>1
  <2> QED BY <2>2, <2>3
<1>10. CASE Split(j)
  <2>1. CASE Chunks(j) = 0 /\ ~HasImages(j)
    <3>1. Go(j, "failed") /\ SetStatus(j, "splitting") BY <1>10, <2>1 DEF Split
    <3> QED BY <1>3, <1>4, <1>5, <3>1
  <2>2. CASE ~(Chunks(j) = 0 /\ ~HasImages(j))
    <3>1. PICK p \in {"ensure", "wipevectors"} : p = IF Chunks(j) > 0 THEN "ensure" ELSE "wipevectors" OBVIOUS
    <3>2. PICK f : f = IF Chunks(j) > 0 THEN "text" ELSE "image" OBVIOUS
    <3>3. PICK q : q = [job[j] EXCEPT !.pc = p, !.refused = FALSE, !.field = f] OBVIOUS
    <3>4. job' = [job EXCEPT ![j] = q] /\ SetStatus(j, "indexing")
      BY <1>1, <1>10, <2>2, <3>1, <3>2, <3>3 DEF Split
    <3>5. q.pc = p /\ q.docs = job[j].docs BY <1>1, <3>3 DEF JobTypes
    <3>6. p \in Processing BY DEF Processing
    <3> QED BY <1>3, <1>4, <1>6, <3>4, <3>5, <3>6
  <2> QED BY <2>1, <2>2
<1>11. CASE Rebuild(j)
  <2>1. PICK b : b = (~Text(j) /\ Chunks(j) > 0 /\ coll.image \notin {0, Wanted(j).image}) OBVIOUS
  <2>2. PICK q : q = [job[j] EXCEPT !.pc = "create", !.remade = b] OBVIOUS
  <2>3. job' = [job EXCEPT ![j] = q] /\ UNCHANGED row BY <1>1, <1>11, <2>1, <2>2 DEF Rebuild
  <2>4. q.pc = "create" /\ q.docs = job[j].docs BY <1>1, <2>2 DEF JobTypes
  <2> QED BY <1>3, <1>6, <1>7, <2>3, <2>4 DEF Processing
<1>12. CASE WriteConfig(j)
  <2>1. PICK c : c = [job[j].config EXCEPT ![job[j].field] = Wanted(j)[job[j].field]] OBVIOUS
  <2>2. PICK p \in {"wipevectors", "upsert"} : p = IF Text(j) THEN "wipevectors" ELSE "upsert" OBVIOUS
  <2>3. PICK q : q = [job[j] EXCEPT !.config = c, !.refused = FALSE, !.pc = p] OBVIOUS
  <2>4. job' = [job EXCEPT ![j] = q] /\ UNCHANGED row BY <1>1, <1>12, <2>1, <2>2, <2>3 DEF WriteConfig
  <2>5. q.pc = p /\ q.docs = job[j].docs BY <1>1, <2>3 DEF JobTypes
  <2>6. p \in Processing BY DEF Processing
  <2> QED BY <1>3, <1>6, <1>7, <2>4, <2>5, <2>6
<1>13. CASE InsertSegments(j)
  <2>1. PICK t : t = job[j].total + Cardinality(Positions(j)) OBVIOUS
  <2>2. PICK p \in {"images", "complete"} : p = IF Text(j) THEN "images" ELSE "complete" OBVIOUS
  <2>3. PICK q : q = [job[j] EXCEPT !.pc = p, !.total = t, !.refused = FALSE] OBVIOUS
  <2>4. job' = [job EXCEPT ![j] = q] /\ UNCHANGED row BY <1>1, <1>13, <2>1, <2>2, <2>3 DEF InsertSegments
  <2>5. q.pc = p /\ q.docs = job[j].docs BY <1>1, <2>3 DEF JobTypes
  <2>6. p \in Processing BY DEF Processing
  <2> QED BY <1>3, <1>6, <1>7, <2>4, <2>5, <2>6
<1>14. CASE Images(j)
  <2> DEFINE indexed == HasImages(j) /\ job[j].imgdim > 0
  <2>1. PICK n : n = IF indexed /\ job[j].left THEN 1 ELSE 0 OBVIOUS
  <2>2. PICK p \in {"ensure", "complete"} : p = IF indexed /\ ~job[j].left THEN "ensure" ELSE "complete" OBVIOUS
  <2>3. PICK t : t = job[j].total + n OBVIOUS
  <2>4. PICK q : q = [job[j] EXCEPT !.field = "image", !.total = t, !.extra = n, !.pc = p] OBVIOUS
  <2>5. job' = [job EXCEPT ![j] = q] /\ UNCHANGED row BY <1>1, <1>14, <2>1, <2>2, <2>3, <2>4 DEF Images, stores
  <2>6. q.pc = p /\ q.docs = job[j].docs BY <1>1, <2>4 DEF JobTypes
  <2>7. p \in Processing BY DEF Processing
  <2> QED BY <1>3, <1>6, <1>7, <2>5, <2>6, <2>7
<1>15. CASE Complete(j)
  <2>1. job[j].total \in Nat BY <1>1 DEF JobTypes
  <2> QED BY <1>8, <1>15, <2>1 DEF Complete
<1>16. CASE MarkFailed(j)
  <2>1. row[Doc(j)].count \in Nat BY <1>1, <1>2 DEF RowTypes
  <2> QED BY <1>8, <1>16, <2>1 DEF MarkFailed
<1> QED BY <1>9, <1>10, <1>11, <1>12, <1>13, <1>14, <1>15, <1>16 DEF Process

\* The other goroutines process nothing, and write no row but to delete it.
LEMMA OtherAttends == ASSUME IndexInv, Attended, NEW j \in Jobs, Other(j) PROVE Attended'
<1>1. /\ IndexTypes /\ job \in [Jobs -> JobTypes] /\ row \in [Docs -> RowTypes]
      /\ job[j].pc \notin Processing \cup {"failed"}
  BY DEF IndexInv, IndexTypes, StoreTypes, Other, DeleteVectors, DeleteFile, DropCollection, DropRows, DropDir,
         ReadModel, FindSegment, ReEmbedSegment, DeleteSegmentVector, In, Processing
<1>2. \A i \in Jobs \ {j} : job'[i] = job[i]
  BY <1>1 DEF Other, DeleteVectors, DeleteFile, DropCollection, DropRows, DropDir, ReadModel, FindSegment,
              ReEmbedSegment, DeleteSegmentVector, Go, Leave, EndJob
<1>3. \A d : Busy(d) => Busy(d)' BY <1>1, <1>2, StaysBusy
<1>4. ASSUME NEW d \in Docs PROVE row'[d].status \in Underway => row'[d] = row[d]
  <2>1. CASE DropRows(j)
    <3>1. [row[d] EXCEPT !.status = "deleted"].status = "deleted" BY <1>1 DEF RowTypes
    <3> QED BY <1>1, <2>1, <3>1 DEF DropRows, Underway
  <2>2. CASE ~DropRows(j)
    BY <2>2 DEF Other, DeleteVectors, DeleteFile, DropCollection, DropDir, ReadModel, FindSegment,
                ReEmbedSegment, DeleteSegmentVector, stores
  <2> QED BY <2>1, <2>2
<1>5. ASSUME NEW d \in Docs PROVE row'[d].status \in Underway => row'[d].orphan \/ Busy(d)'
  BY <1>3, <1>4, StaysAttended
<1> QED BY <1>5 DEF Attended, Busy, Underway

\* Whatever fails, the goroutine goes on to say so.
LEMMA FailureAttends == ASSUME IndexInv, Attended, NEW j \in Jobs, Failure(j) PROVE Attended'
<1>1. job \in [Jobs -> JobTypes] /\ job[j] \in JobTypes /\ UNCHANGED row
  BY DEF IndexInv, IndexTypes, Failure, ImageLeft, Fails, ImagesFail, InfoFails, CallFails, StatementFails, stores
<1>2. \A i \in Jobs \ {j} : job'[i] = job[i]
  BY <1>1 DEF Failure, ImageLeft, Fails, ImagesFail, InfoFails, CallFails, StatementFails
<1>3. ASSUME job[j].pc \in Processing \cup {"failed"}
      PROVE  job'[j].pc \in Processing \cup {"failed"} /\ job'[j].docs = job[j].docs
  <2>1. CASE ImageLeft(j)
    <3>1. PICK q : q = [job[j] EXCEPT !.left = TRUE] OBVIOUS
    <3>2. job'[j] = q BY <1>1, <2>1, <3>1 DEF ImageLeft
    <3>3. q.pc = job[j].pc /\ q.docs = job[j].docs BY <1>1, <3>1 DEF JobTypes
    <3> QED BY <1>3, <3>2, <3>3
  <2>2. CASE StatementFails(j)
    <3>1. PICK q : q = [job[j] EXCEPT !.refused = TRUE, !.calm = FALSE] OBVIOUS
    <3>2. job'[j] = q BY <1>1, <2>2, <3>1 DEF StatementFails
    <3>3. q.pc = job[j].pc /\ q.docs = job[j].docs BY <1>1, <3>1 DEF JobTypes
    <3> QED BY <1>3, <3>2, <3>3
  <2>3. ASSUME NEW p \in Processing \cup {"failed"}, job'[j] = [job[j] EXCEPT !.pc = p, !.calm = FALSE]
        PROVE  job'[j].pc \in Processing \cup {"failed"} /\ job'[j].docs = job[j].docs
    <3>1. PICK q : q = [job[j] EXCEPT !.pc = p, !.calm = FALSE] OBVIOUS
    <3>2. q.pc = p /\ q.docs = job[j].docs BY <1>1, <3>1 DEF JobTypes
    <3> QED BY <2>3, <3>1, <3>2
  <2>4. CASE Fails(j)
    <3>1. job'[j] = [job[j] EXCEPT !.pc = "failed", !.calm = FALSE] BY <1>1, <2>4 DEF Fails
    <3> QED BY <2>3, <3>1
  <2>5. CASE ImagesFail(j)
    <3>1. job'[j] = [job[j] EXCEPT !.pc = "complete", !.calm = FALSE] BY <1>1, <2>5 DEF ImagesFail
    <3>2. "complete" \in Processing BY DEF Processing
    <3> QED BY <2>3, <3>1, <3>2
  <2>6. CASE InfoFails(j)
    <3>1. PICK p \in {"create", "config"} : p = IF job[j].pc = "ensure" THEN "create" ELSE "config" OBVIOUS
    <3>2. job'[j] = [job[j] EXCEPT !.pc = p, !.calm = FALSE] BY <1>1, <2>6, <3>1 DEF InfoFails
    <3>3. p \in Processing BY DEF Processing
    <3> QED BY <2>3, <3>2, <3>3
  <2>7. CASE CallFails(j)
    <3>1. job[j].pc \in {"rebuild", "wipevectors"} BY <1>3, <2>7 DEF CallFails, LoggedOnly, Processing
    <3>2. LoggedOnly["rebuild"] = "create" /\ LoggedOnly["wipevectors"] = "wipesegments" BY DEF LoggedOnly
    <3>3. PICK p : p = LoggedOnly[job[j].pc] OBVIOUS
    <3>4. p \in {"create", "wipesegments"} BY <3>1, <3>2, <3>3
    <3>5. job' = [job EXCEPT ![j] = IF p = "done" THEN NotRunning(p) ELSE [job[j] EXCEPT !.pc = p, !.calm = FALSE]]
      BY <1>1, <2>7, <3>3 DEF CallFails
    <3>6. job'[j] = [job[j] EXCEPT !.pc = p, !.calm = FALSE] BY <1>1, <3>4, <3>5
    <3>7. p \in Processing BY <3>4 DEF Processing
    <3> QED BY <2>3, <3>6, <3>7
  <2> QED BY <2>1, <2>2, <2>4, <2>5, <2>6, <2>7 DEF Failure
<1>4. \A d : Busy(d) => Busy(d)' BY <1>2, <1>3, StaysBusy
<1>5. ASSUME NEW d \in Docs PROVE row'[d].status \in Underway => row'[d].orphan \/ Busy(d)'
  BY <1>1, <1>4, StaysAttended
<1> QED BY <1>5 DEF Attended, Busy, Underway

\* A handler starts goroutines and takes none away; the rows it writes wait.
LEMMA HandlerAttends == ASSUME IndexInv, Attended, Handlers PROVE Attended'
<1>1. job \in [Jobs -> JobTypes] /\ row \in [Docs -> RowTypes] BY DEF IndexInv, IndexTypes, StoreTypes
<1>2. ASSUME NEW p, NEW D, NEW st, NEW sg, SafeGo(p, D, st, sg) PROVE \A d : Busy(d) => Busy(d)'
  <2>1. PICK i \in Jobs :
          /\ job[i].pc = "idle"
          /\ \A k \in Jobs \ {i} : job'[k] = [job[k] EXCEPT !.calm = job[k].calm /\ ~Active(k)]
    BY <1>2 DEF SafeGo
  <2> SUFFICES ASSUME NEW d, Busy(d) PROVE Busy(d)' OBVIOUS
  <2>2. PICK k \in Jobs : job[k].pc \in Processing \cup {"failed"} /\ d \in job[k].docs BY DEF Busy
  <2>3. k # i BY <2>1, <2>2 DEF Processing
  <2>4. PICK c : c = (job[k].calm /\ ~Active(k)) OBVIOUS
  <2>5. PICK q : q = [job[k] EXCEPT !.calm = c] OBVIOUS
  <2>6. job'[k] = q BY <2>1, <2>3, <2>4, <2>5
  <2>7. job[k] \in JobTypes BY <1>1
  <2>8. q.pc = job[k].pc /\ q.docs = job[k].docs BY <2>5, <2>7 DEF JobTypes
  <2> QED BY <2>2, <2>6, <2>8 DEF Busy
<1>3. ASSUME UNCHANGED job PROVE \A d : Busy(d) => Busy(d)' BY <1>3 DEF Busy
<1>4. \A d : Busy(d) => Busy(d)'
  BY <1>2, <1>3 DEF Handlers, UploadDocument, ProcessDocument, ReprocessDocuments, DeleteDocuments, DeleteBase,
                    ReadBase, UpdateBase, UpdateSegment
<1>5. ASSUME NEW d \in Docs PROVE row'[d].status \in Underway => row'[d] = row[d]
  <2>1. row[d] \in RowTypes BY <1>1
  <2>2. /\ [row[d] EXCEPT !.status = "waiting", !.orphan = FALSE].status = "waiting"
        /\ [row[d] EXCEPT !.status = "deleted"].status = "deleted"
        /\ [row[d] EXCEPT !.status = "waiting"].status = "waiting"
        /\ \A n : [row[d] EXCEPT !.status = "waiting", !.setting = n, !.orphan = FALSE].status = "waiting"
    BY <2>1 DEF RowTypes
  <2>3. ASSUME NEW e \in Docs, UploadDocument(e) PROVE row'[d].status \in Underway => row'[d] = row[d]
    BY <1>1, <2>2, <2>3 DEF UploadDocument, Underway
  <2>4. ASSUME NEW e \in Docs, NEW n \in ChunkCounts, ProcessDocument(e, n)
        PROVE  row'[d].status \in Underway => row'[d] = row[d]
    BY <1>1, <2>2, <2>4 DEF ProcessDocument, Underway
  <2>5. ASSUME NEW D, ReprocessDocuments(D) PROVE row'[d].status \in Underway => row'[d] = row[d]
    BY <1>1, <2>2, <2>5 DEF ReprocessDocuments, Underway
  <2>6. ASSUME NEW D, DeleteDocuments(D) PROVE row'[d].status \in Underway => row'[d] = row[d]
    BY <1>1, <2>2, <2>6 DEF DeleteDocuments, Underway
  <2>7. ASSUME UNCHANGED row PROVE row'[d].status \in Underway => row'[d] = row[d] BY <2>7
  <2> QED BY <2>3, <2>4, <2>5, <2>6, <2>7 DEF Handlers, DeleteBase, ReadBase, UpdateBase, UpdateSegment, stores
<1>6. ASSUME NEW d \in Docs PROVE row'[d].status \in Underway => row'[d].orphan \/ Busy(d)'
  BY <1>4, <1>5, StaysAttended
<1> QED BY <1>6 DEF Attended, Busy, Underway

\* A row that says parsing, splitting or indexing has a goroutine that will write
\* how it ends, unless a restart or a failed last UPDATE has orphaned it
\* (knowledge_processor.go, Process and markFailed).
THEOREM AttendedTheorem == IndexSpec => []Attended
<1>1. IndexInit => Attended BY DEF IndexInit, Attended
<1>2. IndexInv /\ Attended /\ [IndexNext]_indexVars => Attended'
  <2> SUFFICES ASSUME IndexInv, Attended, [IndexNext]_indexVars PROVE Attended' OBVIOUS
  <2>1. ASSUME UNCHANGED indexVars PROVE Attended' BY <2>1 DEF indexVars, stores, Attended
  <2>2. ASSUME Restart PROVE Attended'
    <3>1. \A d \in Docs : row[d] \in RowTypes BY DEF IndexInv, IndexTypes, StoreTypes
    <3>2. \A d \in Docs : [row[d] EXCEPT !.orphan = TRUE].orphan BY <3>1 DEF RowTypes
    <3>3. \A d \in Docs : row'[d].orphan BY <2>2, <3>2 DEF Restart
    <3> QED BY <3>3 DEF Attended
  <2> QED BY <2>1, <2>2, ProcessAttends, OtherAttends, FailureAttends, HandlerAttends DEF IndexNext, Quiet
<1> QED BY <1>1, <1>2, IndexInductive, PTL DEF IndexSpec
=============================================================================
