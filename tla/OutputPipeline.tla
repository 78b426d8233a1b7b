---------------------------- MODULE OutputPipeline ----------------------------
(***************************************************************************)
(* The metrics pipeline of one execution: VUs emit samples into samplesChan *)
(* without waiting (pkg/output/integration.go), the distributor goroutine   *)
(* of output.Manager batches them and hands every batch to every output,    *)
(* each output buffers and flushes them periodically (sample_buffer.go),    *)
(* and TaskEngine.Execute shuts the pipeline down before it builds the      *)
(* report.  Samples are the numbers 1, 2, ... in the order they are emitted.*)
(***************************************************************************)
EXTENDS Integers, Sequences

CONSTANTS
    NumOutputs,  \* configured outputs, the engine's ingester and the summary
    Capacity,    \* of samplesChan
    MaxSamples   \* bound: samples emitted

ASSUME OutputsAssumption  == NumOutputs \in Nat \ {0}
ASSUME CapacityAssumption == Capacity \in Nat \ {0}
ASSUME SamplesAssumption  == MaxSamples \in Nat

Outputs == 1 .. NumOutputs
Samples == 1 .. MaxSamples

VARIABLES
    phase,      \* where Execute is
    made,       \* the metrics engine, the summary and the collector's emitter are set
    next,       \* the output startOutputs, its clean-up or stopOutputs is at
    started,    \* outputs whose Start has succeeded
    emitted,    \* samples emitted so far
    samplesChan, closed,
    accepted,   \* history: samples that entered samplesChan, in order
    dist,       \* the distributor goroutine: "none" when Manager.Start failed
    batchTo,    \* the output sendToOutputs is at
    buffer,     \* the distributor's batch
    outBuf,     \* outBuf[o]: SampleBuffer of output o
    flusher,    \* flusher[o]: the goroutine of its PeriodicFlusher
    stop,       \* outputs whose pf.stop is closed
    taken,      \* taken[o]: samples of the flush in progress
    sink        \* sink[o]: samples output o has processed

execVars == <<phase, made, next, started>>
distVars == <<dist, batchTo, buffer>>
outVars  == <<outBuf, flusher, stop, taken, sink>>
chanVars == <<emitted, samplesChan, closed, accepted>>
vars     == <<execVars, distVars, outVars, chanVars>>

Init ==
    /\ phase = "create" /\ made = FALSE /\ next = 1 /\ started = {}
    /\ emitted = 0 /\ samplesChan = <<>> /\ closed = FALSE /\ accepted = <<>>
    /\ dist = "none" /\ batchTo = 1 /\ buffer = <<>>
    /\ outBuf = [o \in Outputs |-> <<>>]
    /\ flusher = [o \in Outputs |-> "off"]
    /\ stop = {}
    /\ taken = [o \in Outputs |-> <<>>]
    /\ sink = [o \in Outputs |-> <<>>]

-----------------------------------------------------------------------------
(* Manager.Start and the shutdown in TaskEngine.Execute.                    *)

\* SetupMetricsPipeline: samplesChan exists; the configured outputs are created.
CreateOutputs ==
    /\ phase = "create"
    /\ made' = TRUE /\ phase' = "start"
    /\ UNCHANGED <<next, started, distVars, outVars, chanVars>>

\* One of them cannot be created: SetupMetricsPipeline returns before the engine,
\* the summary and the emitter are set, and Execute only warns and runs.
CreateOutputsFails ==
    /\ phase = "create"
    /\ phase' = "run"
    /\ UNCHANGED <<made, next, started, distVars, outVars, chanVars>>

StartOutput ==
    /\ phase = "start" /\ next <= NumOutputs
    /\ flusher' = [flusher EXCEPT ![next] = "select"]
    /\ started' = started \cup {next}
    /\ next' = next + 1
    /\ UNCHANGED <<phase, made, distVars, outBuf, stop, taken, sink, chanVars>>

\* An output that does not start makes startOutputs stop the ones before it.
StartOutputFails ==
    /\ phase = "start" /\ next <= NumOutputs
    /\ phase' = "undo" /\ next' = 1
    /\ UNCHANGED <<made, started, distVars, outVars, chanVars>>

StartDistributor ==
    /\ phase = "start" /\ next = NumOutputs + 1
    /\ dist' = "select" /\ phase' = "run" /\ next' = 1
    /\ UNCHANGED <<made, started, batchTo, buffer, outVars, chanVars>>

\* PeriodicFlusher.Stop of the output at next: close(pf.stop), then <-pf.done.
StopSignal ==
    /\ phase \in {"undo", "finish"} /\ next \in started /\ next \notin stop
    /\ stop' = stop \cup {next}
    /\ UNCHANGED <<execVars, distVars, outBuf, flusher, taken, sink, chanVars>>

\* Mutated form: Stop does not wait for the final flush.
StopAwaitSkipped ==
    /\ phase \in {"undo", "finish"} /\ next \in stop
    /\ next' = next + 1
    /\ UNCHANGED <<phase, made, started, distVars, outVars, chanVars>>

StopAwait ==
    /\ phase \in {"undo", "finish"} /\ next \in stop /\ flusher[next] = "done"
    /\ next' = next + 1
    /\ UNCHANGED <<phase, made, started, distVars, outVars, chanVars>>

\* Execute only warns when the pipeline could not be set up, and runs.
RunWithoutOutputs ==
    /\ phase = "undo" /\ next \notin started
    /\ phase' = "run" /\ next' = 1
    /\ UNCHANGED <<made, started, distVars, outVars, chanVars>>

\* The mode has returned: close(samplesChan).
CloseSamples ==
    /\ phase = "run"
    /\ closed' = TRUE /\ phase' = "wait"
    /\ UNCHANGED <<made, next, started, distVars, outVars, emitted, samplesChan, accepted>>

\* outputWait(), when there is one, and the wait at the head of outputFinish.
\* Without a summary and an engine Execute returns without a report.
OutputWait ==
    /\ phase = "wait" /\ dist \in {"none", "exit"}
    /\ phase' = IF dist = "exit" THEN "finish" ELSE IF made THEN "report" ELSE "return"
    /\ next' = 1
    /\ UNCHANGED <<made, started, distVars, outVars, chanVars>>

Report ==
    /\ phase = "finish" /\ next = NumOutputs + 1
    /\ phase' = "report"
    /\ UNCHANGED <<made, next, started, distVars, outVars, chanVars>>

Execute ==
    \/ CreateOutputs \/ CreateOutputsFails
    \/ StartOutput \/ StartOutputFails \/ StartDistributor
    \/ StopSignal \/ StopAwait \/ RunWithoutOutputs
    \/ CloseSamples \/ OutputWait \/ Report

-----------------------------------------------------------------------------
(* SampleEmitter.Emit, called by VUs, which exist once the mode runs.  One   *)
(* that outlives the mode sends on the closed channel: the panic ends the VU *)
(* in runVU's recover.  A sample that finds the channel full is dropped.     *)

Emit ==
    /\ made /\ phase \notin {"create", "start", "undo"} /\ emitted < MaxSamples
    /\ emitted' = emitted + 1
    /\ IF ~ closed /\ Len(samplesChan) < Capacity
       THEN /\ samplesChan' = Append(samplesChan, emitted + 1)
            /\ accepted' = Append(accepted, emitted + 1)
       ELSE UNCHANGED <<samplesChan, accepted>>
    /\ UNCHANGED <<execVars, distVars, outVars, closed>>

-----------------------------------------------------------------------------
(* The distributor goroutine.                                               *)

Receive ==
    /\ dist = "select" /\ samplesChan # <<>>
    /\ buffer' = Append(buffer, Head(samplesChan))
    /\ samplesChan' = Tail(samplesChan)
    /\ UNCHANGED <<execVars, dist, batchTo, outVars, emitted, closed, accepted>>

Tick ==
    /\ dist = "select" /\ buffer # <<>>
    /\ dist' = "send" /\ batchTo' = 1
    /\ UNCHANGED <<execVars, buffer, outVars, chanVars>>

\* Mutated form: the goroutine does not return on a closed channel.
ReceiveClosedNoReturn ==
    /\ dist = "select" /\ samplesChan = <<>> /\ closed
    /\ dist' = IF buffer # <<>> THEN "send" ELSE "select"
    /\ batchTo' = 1
    /\ UNCHANGED <<execVars, buffer, outVars, chanVars>>

ReceiveClosed ==
    /\ dist = "select" /\ samplesChan = <<>> /\ closed
    /\ dist' = IF buffer # <<>> THEN "sendLast" ELSE "exit"
    /\ batchTo' = 1
    /\ UNCHANGED <<execVars, buffer, outVars, chanVars>>

\* Mutated form: the batch is emptied before the last output has got it.
SendBatchShort ==
    /\ dist \in {"send", "sendLast"}
    /\ outBuf' = [outBuf EXCEPT ![batchTo] = @ \o buffer]
    /\ IF batchTo + 1 < NumOutputs
       THEN batchTo' = batchTo + 1 /\ UNCHANGED <<dist, buffer>>
       ELSE /\ batchTo' = 1 /\ buffer' = <<>>
            /\ dist' = IF dist = "send" THEN "select" ELSE "exit"
    /\ UNCHANGED <<execVars, flusher, stop, taken, sink, chanVars>>

\* sendToOutputs hands the batch to one output after the other.
SendBatch ==
    /\ dist \in {"send", "sendLast"}
    /\ outBuf' = [outBuf EXCEPT ![batchTo] = @ \o buffer]
    /\ IF batchTo < NumOutputs
       THEN batchTo' = batchTo + 1 /\ UNCHANGED <<dist, buffer>>
       ELSE /\ batchTo' = 1 /\ buffer' = <<>>
            /\ dist' = IF dist = "send" THEN "select" ELSE "exit"
    /\ UNCHANGED <<execVars, flusher, stop, taken, sink, chanVars>>

Distributor == Receive \/ Tick \/ ReceiveClosed \/ SendBatch

-----------------------------------------------------------------------------
(* The PeriodicFlusher goroutine of output o; a flush takes the buffer      *)
(* under its lock and processes it afterwards.                              *)

Take(o) == taken' = [taken EXCEPT ![o] = outBuf[o]] /\ outBuf' = [outBuf EXCEPT ![o] = <<>>]

FlushTick(o) ==
    /\ flusher[o] = "select" /\ outBuf[o] # <<>>
    /\ Take(o)
    /\ flusher' = [flusher EXCEPT ![o] = "flush"]
    /\ UNCHANGED <<execVars, distVars, stop, sink, chanVars>>

FlushStop(o) ==
    /\ flusher[o] = "select" /\ o \in stop
    /\ Take(o)
    /\ flusher' = [flusher EXCEPT ![o] = "flushLast"]
    /\ UNCHANGED <<execVars, distVars, stop, sink, chanVars>>

Process(o) ==
    /\ flusher[o] \in {"flush", "flushLast"}
    /\ sink' = [sink EXCEPT ![o] = @ \o taken[o]]
    /\ taken' = [taken EXCEPT ![o] = <<>>]
    /\ flusher' = [flusher EXCEPT ![o] = IF @ = "flush" THEN "select" ELSE "done"]
    /\ UNCHANGED <<execVars, distVars, outBuf, stop, chanVars>>

Flusher(o) == FlushTick(o) \/ FlushStop(o) \/ Process(o)

-----------------------------------------------------------------------------

\* Execute is through: what is left of the pipeline stutters.
Finished == phase \in {"report", "return"} /\ UNCHANGED vars

Next == Execute \/ Emit \/ Distributor \/ (\E o \in Outputs : Flusher(o)) \/ Finished

\* Every goroutine runs.  A flusher that keeps finding its ticker ready still
\* takes the stop signal: select chooses at random among the ready cases.
Spec == /\ Init /\ [][Next]_vars
        /\ WF_vars(Execute) /\ WF_vars(Distributor)
        /\ \A o \in Outputs : WF_vars(Flusher(o))

-----------------------------------------------------------------------------
(* Properties.                                                              *)

TypeOK ==
    /\ phase \in {"create", "start", "undo", "run", "wait", "finish", "report", "return"}
    /\ made \in BOOLEAN
    /\ next \in 1 .. (NumOutputs + 1) /\ started \subseteq Outputs /\ stop \subseteq Outputs
    /\ emitted \in 0 .. MaxSamples /\ closed \in BOOLEAN
    /\ samplesChan \in Seq(Samples) /\ Len(samplesChan) <= Capacity
    /\ accepted \in Seq(Samples) /\ buffer \in Seq(Samples)
    /\ dist \in {"none", "select", "send", "sendLast", "exit"} /\ batchTo \in Outputs
    /\ outBuf \in [Outputs -> Seq(Samples)]
    /\ taken \in [Outputs -> Seq(Samples)] /\ sink \in [Outputs -> Seq(Samples)]
    /\ flusher \in [Outputs -> {"off", "select", "flush", "flushLast", "done"}]

\* What output o still gets from the distributor.
ToCome(o) == IF dist \in {"send", "sendLast"} /\ o < batchTo THEN <<>> ELSE buffer

\* Every sample that entered samplesChan is, for every output, in exactly one
\* stage of the pipeline, and the stages hold them in the order they came.
Conservation ==
    \A o \in Outputs :
        sink[o] \o taken[o] \o outBuf[o] \o ToCome(o) \o samplesChan = accepted

\* task_engine.go:290: when the report is generated every sink is fully
\* flushed: it has all the samples that were not dropped at the entrance, and no
\* flusher is left to change it, also when the pipeline could not be started.
ReportComplete ==
    phase = "report" => \A o \in Outputs : /\ flusher[o] \in {"off", "done"}
                                           /\ dist # "none" => sink[o] = accepted

\* Once the mode has returned, the report is generated: also when an output did
\* not start, and in every case but the one in which the configured outputs could
\* not be created; there Execute still returns, without a report.
ReportGenerated == closed ~> phase = IF made THEN "report" ELSE "return"
=============================================================================
