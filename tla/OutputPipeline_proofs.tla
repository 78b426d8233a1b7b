------------------------ MODULE OutputPipeline_proofs ------------------------
(***************************************************************************)
(* Proofs about OutputPipeline for any number of outputs, any capacity and  *)
(* any number of samples.  The shutdown is correct because of what the      *)
(* stages hold when it reaches them: IInv says which goroutines exist and   *)
(* what is empty in each phase of Execute.                                  *)
(***************************************************************************)
EXTENDS OutputPipeline, SequenceTheorems, TLAPS

\* Where Execute is decides what has been started, closed and stopped.
Phases ==
    /\ closed <=> phase \in {"wait", "finish", "report", "return"}
    /\ phase = "create" => next = 1
    /\ phase \in {"create", "start"} => started = 1 .. (next - 1) /\ stop = {}
    /\ phase \in {"create", "start", "undo"} => dist = "none"
    /\ phase \in {"run", "wait"} /\ dist # "none" => stop = {}
    /\ phase \in {"finish", "report", "return"} => dist \in {"none", "exit"}
    /\ phase = "finish" => dist = "exit"
    /\ dist # "none" => started = Outputs
    /\ dist \in {"sendLast", "exit"} => closed /\ samplesChan = <<>>
    /\ \E n \in 0 .. NumOutputs : started = 1 .. n

\* The outputs that have been stopped, in order.
Stops ==
    /\ stop \subseteq started
    /\ \A o \in Outputs : flusher[o] = "off" <=> o \notin started
    /\ \A o \in Outputs : flusher[o] \in {"flushLast", "done"} => o \in stop
    /\ phase \in {"undo", "finish"} => \A o \in started : o < next => flusher[o] = "done"
    /\ phase \in {"run", "wait"} /\ dist = "none" => \A o \in started : flusher[o] = "done"
    /\ phase = "report" => \A o \in started : flusher[o] = "done"

\* What is empty: nothing is in hand between flushes or left after the last, and
\* nothing at all enters a pipeline without a distributor.
Empties ==
    /\ \A o \in Outputs :
         /\ flusher[o] \notin {"flush", "flushLast"} => taken[o] = <<>>
         /\ flusher[o] \in {"flushLast", "done"} => outBuf[o] = <<>>
         /\ dist = "none" => outBuf[o] = <<>> /\ taken[o] = <<>> /\ sink[o] = <<>>
    /\ dist \in {"none", "exit"} => buffer = <<>>

IInv == TypeOK /\ Phases /\ Stops /\ Empties

-----------------------------------------------------------------------------
(* Sequences.                                                               *)

\* The empty sequence adds nothing on either side.
LEMMA EmptyRight == \A S : \A s \in Seq(S) : s \o <<>> = s /\ <<>> \o s = s
BY ConcatEmptySeq

\* Two sequences over a set make one over that set.
LEMMA Types ==
    \A S : \A s, t \in Seq(S) : s \o t \in Seq(S)
BY ConcatProperties

\* How a chain of sequences is grouped does not matter.
LEMMA Assoc ==
    \A S : \A s, t, u \in Seq(S) : (s \o t) \o u = s \o (t \o u)
BY ConcatAssociative

\* An element that enters at the end of the last sequence enters at the end.
LEMMA AppendLast ==
    ASSUME NEW S, NEW s \in Seq(S), NEW t \in Seq(S), NEW e \in S
    PROVE  s \o Append(t, e) = Append(s \o t, e)
<1>1. Append(t, e) = t \o <<e>> BY AppendIsConcat
<1>2. <<e>> \in Seq(S) BY AppendProperties, EmptySeq
<1>3. s \o (t \o <<e>>) = (s \o t) \o <<e>> BY <1>2, Assoc
<1>4. Append(s \o t, e) = (s \o t) \o <<e>> BY AppendIsConcat, Types
<1> QED BY <1>1, <1>3, <1>4

\* Moving the first element of a sequence to the end of the one before it.
LEMMA MoveHead ==
    ASSUME NEW S, NEW s \in Seq(S), NEW t \in Seq(S), t # <<>>
    PROVE  Append(s, Head(t)) \o Tail(t) = s \o t
<1>1. Head(t) \in S /\ Tail(t) \in Seq(S) BY HeadTailProperties
<1>2. <<Head(t)>> \in Seq(S) BY <1>1, AppendProperties, EmptySeq
<1>3. t = <<Head(t)>> \o Tail(t)
  <2> DEFINE u == <<Head(t)>> \o Tail(t)
  <2>1. u \in Seq(S) /\ Len(u) = Len(t)
    BY <1>1, <1>2, HeadTailProperties, ConcatProperties, LenProperties
  <2>2. \A i \in 1 .. Len(t) : t[i] = u[i]
    BY <1>1, <1>2, HeadTailProperties, ConcatProperties, LenProperties
  <2> QED BY <2>1, <2>2, SeqEqual
<1>4. Append(s, Head(t)) = s \o <<Head(t)>> BY <1>1, AppendIsConcat
<1>5. (s \o <<Head(t)>>) \o Tail(t) = s \o (<<Head(t)>> \o Tail(t)) BY <1>1, <1>2, Assoc
<1> QED BY <1>3, <1>4, <1>5

-----------------------------------------------------------------------------

\* The types.
LEMMA TypeStep ==
    ASSUME IInv, [Next]_vars
    PROVE  TypeOK'
<1> USE OutputsAssumption, CapacityAssumption, SamplesAssumption
    DEF IInv, TypeOK, execVars, distVars, outVars, chanVars, vars, Outputs
<1>1. CASE UNCHANGED vars BY <1>1
<1>2. ASSUME Execute PROVE TypeOK'
  <2>a. CASE CreateOutputs BY <2>a DEF CreateOutputs, Phases
  <2>b. CASE CreateOutputsFails BY <2>b DEF CreateOutputsFails, Phases
  <2>1. CASE StartOutput BY <2>1 DEF StartOutput
  <2>2. CASE StartOutputFails BY <2>2 DEF StartOutputFails
  <2>3. CASE StartDistributor BY <2>3 DEF StartDistributor
  <2>4. CASE StopSignal BY <2>4 DEF StopSignal
  <2>5. CASE StopAwait BY <2>5 DEF StopAwait
  <2>6. CASE RunWithoutOutputs BY <2>6 DEF RunWithoutOutputs
  <2>7. CASE CloseSamples BY <2>7 DEF CloseSamples
  <2>8. CASE OutputWait BY <2>8 DEF OutputWait
  <2>9. CASE Report BY <2>9 DEF Report
  <2> QED BY <1>2, <2>a, <2>b, <2>1, <2>2, <2>3, <2>4, <2>5, <2>6, <2>7, <2>8, <2>9 DEF Execute
<1>3. CASE Emit
  <2>1. emitted + 1 \in Samples BY <1>3 DEF Emit, Samples
  <2>2. /\ samplesChan' \in Seq(Samples) /\ accepted' \in Seq(Samples)
        /\ Len(samplesChan') <= Capacity
    <3>1. Len(samplesChan) \in Nat BY LenProperties
    <3>2. CASE ~ closed /\ Len(samplesChan) < Capacity
      <4>1. samplesChan' = Append(samplesChan, emitted + 1) /\ accepted' = Append(accepted, emitted + 1)
        BY <1>3, <3>2 DEF Emit
      <4>2. Len(samplesChan') = Len(samplesChan) + 1 BY <4>1, <2>1, AppendProperties
      <4> QED BY <2>1, <3>1, <3>2, <4>1, <4>2, AppendProperties
    <3>3. CASE ~ (~ closed /\ Len(samplesChan) < Capacity) BY <1>3, <3>3 DEF Emit
    <3> QED BY <3>2, <3>3
  <2>3. emitted' \in 0 .. MaxSamples BY <1>3, <2>1 DEF Emit, Samples
  <2>4. UNCHANGED <<execVars, distVars, outVars, closed>> BY <1>3 DEF Emit
  <2> QED BY <2>2, <2>3, <2>4
<1>4. ASSUME Distributor PROVE TypeOK'
  <2>1. CASE Receive
    <3>1. /\ Head(samplesChan) \in Samples /\ Tail(samplesChan) \in Seq(Samples)
          /\ Len(Tail(samplesChan)) = Len(samplesChan) - 1 /\ Len(samplesChan) \in Nat
      BY <2>1, HeadTailProperties, LenProperties DEF Receive
    <3>2. buffer' \in Seq(Samples) BY <2>1, <3>1, AppendProperties DEF Receive
    <3>3. samplesChan' \in Seq(Samples) /\ Len(samplesChan') <= Capacity
      <4>1. samplesChan' = Tail(samplesChan) BY <2>1 DEF Receive
      <4>2. Len(samplesChan') = Len(samplesChan) - 1 BY <3>1, <4>1, Zenon
      <4>3. Len(samplesChan') <= Capacity BY <3>1, <4>2
      <4> QED BY <3>1, <4>1, <4>3
    <3>4. UNCHANGED <<execVars, dist, batchTo, outVars, emitted, closed, accepted>> BY <2>1 DEF Receive
    <3> QED BY <3>2, <3>3, <3>4
  <2>2. CASE Tick BY <2>2 DEF Tick
  <2>3. CASE ReceiveClosed
    <3>1. dist' = "sendLast" \/ dist' = "exit" BY <2>3, Zenon DEF ReceiveClosed
    <3>2. batchTo' \in Outputs BY <2>3 DEF ReceiveClosed
    <3>3. UNCHANGED <<execVars, buffer, outVars, chanVars>> BY <2>3 DEF ReceiveClosed
    <3> QED BY <3>1, <3>2, <3>3
  <2>4. CASE SendBatch
    <3>1. outBuf[batchTo] \o buffer \in Seq(Samples) BY Types
    <3>2. outBuf' \in [Outputs -> Seq(Samples)] BY <2>4, <3>1 DEF SendBatch
    <3>3. <<>> \in Seq(Samples) BY EmptySeq
    <3>4. /\ buffer' \in Seq(Samples) /\ batchTo' \in Outputs
          /\ dist' \in {"select", "send", "sendLast", "exit"}
      <4>1. CASE batchTo < NumOutputs BY <2>4, <4>1 DEF SendBatch
      <4>2. CASE ~ (batchTo < NumOutputs) BY <2>4, <3>3, <4>2 DEF SendBatch
      <4> QED BY <4>1, <4>2
    <3>5. UNCHANGED <<execVars, flusher, stop, taken, sink, chanVars>> BY <2>4 DEF SendBatch
    <3> QED BY <3>2, <3>4, <3>5
  <2> QED BY <1>4, <2>1, <2>2, <2>3, <2>4 DEF Distributor
<1>5. ASSUME NEW o \in Outputs, Flusher(o) PROVE TypeOK'
  <2>0. <<>> \in Seq(Samples) BY EmptySeq
  <2>1. CASE FlushTick(o) BY <2>0, <2>1 DEF FlushTick, Take
  <2>2. CASE FlushStop(o) BY <2>0, <2>2 DEF FlushStop, Take
  <2>3. CASE Process(o)
    <3>1. sink[o] \o taken[o] \in Seq(Samples) BY Types
    <3> QED BY <2>0, <2>3, <3>1 DEF Process
  <2> QED BY <1>5, <2>1, <2>2, <2>3 DEF Flusher
<1>6. CASE Finished BY <1>6 DEF Finished
<1> QED BY <1>1, <1>2, <1>3, <1>4, <1>5, <1>6 DEF Next

\* Where Execute is: the distributor ends only after the close, and what Execute
\* does next depends on whether there is one.
LEMMA PhasesStep ==
    ASSUME IInv, [Next]_vars
    PROVE  Phases'
<1> USE DEF Phases, execVars, distVars, outVars, chanVars
<1> /\ Phases /\ NumOutputs \in Nat \ {0}
    /\ next \in 1 .. (NumOutputs + 1) /\ Outputs = 1 .. NumOutputs
    BY OutputsAssumption DEF IInv, TypeOK, Outputs
<1>1. CASE UNCHANGED vars BY <1>1 DEF vars
<1>2. ASSUME Execute PROVE Phases'
  <2>a. CASE CreateOutputs BY <2>a DEF CreateOutputs, Phases
  <2>b. CASE CreateOutputsFails BY <2>b DEF CreateOutputsFails, Phases
  <2>1. CASE StartOutput
    <3>1. started' = 1 .. next BY <2>1 DEF StartOutput
    <3> QED BY <2>1, <3>1 DEF StartOutput
  <2>2. CASE StartOutputFails BY <2>2 DEF StartOutputFails
  <2>3. CASE StartDistributor BY <2>3 DEF StartDistributor
  <2>4. CASE StopSignal BY <2>4 DEF StopSignal
  <2>5. CASE StopAwait BY <2>5 DEF StopAwait
  <2>6. CASE RunWithoutOutputs BY <2>6 DEF RunWithoutOutputs
  <2>7. CASE CloseSamples BY <2>7 DEF CloseSamples
  <2>8. CASE OutputWait BY <2>8 DEF OutputWait
  <2>9. CASE Report BY <2>9 DEF Report
  <2> QED BY <1>2, <2>a, <2>b, <2>1, <2>2, <2>3, <2>4, <2>5, <2>6, <2>7, <2>8, <2>9 DEF Execute
<1>3. CASE Emit BY <1>3 DEF Emit
<1>4. ASSUME Distributor PROVE Phases'
  <2>1. CASE Receive BY <2>1 DEF Receive
  <2>2. CASE Tick BY <2>2 DEF Tick
  <2>3. CASE ReceiveClosed BY <2>3 DEF ReceiveClosed
  <2>4. CASE SendBatch BY <2>4 DEF SendBatch
  <2> QED BY <1>4, <2>1, <2>2, <2>3, <2>4 DEF Distributor
<1>5. ASSUME NEW o \in Outputs, Flusher(o) PROVE Phases'
  <2>1. UNCHANGED <<execVars, distVars, stop, chanVars>>
    BY <1>5 DEF Flusher, FlushTick, FlushStop, Process
  <2> QED BY <2>1
<1>6. CASE Finished BY <1>6 DEF Finished, vars
<1> QED BY <1>1, <1>2, <1>3, <1>4, <1>5, <1>6 DEF Next

\* Outputs are stopped in order, and only a goroutine that has made its last
\* flush counts as stopped.
LEMMA StopsStep ==
    ASSUME IInv, [Next]_vars
    PROVE  Stops'
<1> USE DEF Stops, execVars, distVars, outVars, chanVars
<1> /\ Phases /\ Stops /\ NumOutputs \in Nat \ {0}
    /\ next \in 1 .. (NumOutputs + 1) /\ Outputs = 1 .. NumOutputs
    /\ started \subseteq Outputs
    /\ flusher \in [Outputs -> {"off", "select", "flush", "flushLast", "done"}]
    BY OutputsAssumption DEF IInv, TypeOK, Outputs
<1>1. CASE UNCHANGED vars BY <1>1 DEF vars
<1>2. ASSUME Execute PROVE Stops'
  <2>a. CASE CreateOutputs BY <2>a DEF CreateOutputs, Phases
  <2>b. CASE CreateOutputsFails BY <2>b DEF CreateOutputsFails, Phases
  <2>1. CASE StartOutput BY <2>1 DEF StartOutput, Phases
  <2>2. CASE StartOutputFails BY <2>2 DEF StartOutputFails, Phases
  <2>3. CASE StartDistributor BY <2>3 DEF StartDistributor, Phases
  <2>4. CASE StopSignal BY <2>4 DEF StopSignal
  <2>5. CASE StopAwait BY <2>5 DEF StopAwait
  <2>6. CASE RunWithoutOutputs BY <2>6 DEF RunWithoutOutputs, Phases
  <2>7. CASE CloseSamples BY <2>7 DEF CloseSamples
  <2>8. CASE OutputWait BY <2>8 DEF OutputWait
  <2>9. CASE Report BY <2>9 DEF Report
  <2> QED BY <1>2, <2>a, <2>b, <2>1, <2>2, <2>3, <2>4, <2>5, <2>6, <2>7, <2>8, <2>9 DEF Execute
<1>3. CASE Emit BY <1>3 DEF Emit
<1>4. ASSUME Distributor PROVE Stops'
  <2>1. CASE Receive BY <2>1 DEF Receive
  <2>2. CASE Tick BY <2>2 DEF Tick
  <2>3. CASE ReceiveClosed BY <2>3 DEF ReceiveClosed
  <2>4. CASE SendBatch BY <2>4 DEF SendBatch
  <2> QED BY <1>4, <2>1, <2>2, <2>3, <2>4 DEF Distributor
<1>5. ASSUME NEW o \in Outputs, Flusher(o) PROVE Stops'
  <2>1. UNCHANGED <<execVars, distVars, stop, chanVars>>
    BY <1>5 DEF Flusher, FlushTick, FlushStop, Process
  <2>2. CASE FlushTick(o) BY <2>1, <2>2 DEF FlushTick
  <2>3. CASE FlushStop(o) BY <2>1, <2>3 DEF FlushStop
  <2>4. CASE Process(o) BY <2>1, <2>4 DEF Process
  <2> QED BY <1>5, <2>2, <2>3, <2>4 DEF Flusher
<1>6. CASE Finished BY <1>6 DEF Finished, vars
<1> QED BY <1>1, <1>2, <1>3, <1>4, <1>5, <1>6 DEF Next

\* A batch goes only to outputs that have not been told to stop.
LEMMA EmptiesStep ==
    ASSUME IInv, [Next]_vars
    PROVE  Empties'
<1> USE DEF Empties, execVars, distVars, outVars, chanVars
<1> /\ Phases /\ Stops /\ Empties /\ batchTo \in Outputs
    /\ phase \in {"create", "start", "undo", "run", "wait", "finish", "report", "return"}
    /\ flusher \in [Outputs -> {"off", "select", "flush", "flushLast", "done"}]
    /\ outBuf \in [Outputs -> Seq(Samples)]
    /\ taken \in [Outputs -> Seq(Samples)] /\ sink \in [Outputs -> Seq(Samples)]
    BY DEF IInv, TypeOK
<1>1. CASE UNCHANGED vars BY <1>1 DEF vars
<1>2. ASSUME Execute PROVE Empties'
  <2>a. CASE CreateOutputs BY <2>a DEF CreateOutputs, Phases
  <2>b. CASE CreateOutputsFails BY <2>b DEF CreateOutputsFails, Phases
  <2>1. CASE StartOutput
    <3>1. next \in Outputs /\ next \notin started
      BY <2>1, OutputsAssumption DEF StartOutput, Phases, IInv, TypeOK, Outputs
    <3>2. flusher[next] = "off" BY <3>1 DEF Stops
    <3> QED BY <2>1, <3>1, <3>2 DEF StartOutput
  <2>2. CASE StartOutputFails BY <2>2 DEF StartOutputFails
  <2>3. CASE StartDistributor BY <2>3 DEF StartDistributor
  <2>4. CASE StopSignal BY <2>4 DEF StopSignal
  <2>5. CASE StopAwait BY <2>5 DEF StopAwait
  <2>6. CASE RunWithoutOutputs BY <2>6 DEF RunWithoutOutputs
  <2>7. CASE CloseSamples BY <2>7 DEF CloseSamples
  <2>8. CASE OutputWait BY <2>8 DEF OutputWait
  <2>9. CASE Report BY <2>9 DEF Report
  <2> QED BY <1>2, <2>a, <2>b, <2>1, <2>2, <2>3, <2>4, <2>5, <2>6, <2>7, <2>8, <2>9 DEF Execute
<1>3. CASE Emit BY <1>3 DEF Emit
<1>4. ASSUME Distributor PROVE Empties'
  <2>1. CASE Receive BY <2>1 DEF Receive
  <2>2. CASE Tick BY <2>2 DEF Tick
  <2>3. CASE ReceiveClosed BY <2>3 DEF ReceiveClosed
  <2>4. CASE SendBatch
    <3>1. stop = {} BY <2>4 DEF SendBatch, Phases
    <3>2. flusher[batchTo] \notin {"flushLast", "done"} BY <3>1 DEF Stops
    <3> QED BY <2>4, <3>2 DEF SendBatch
  <2> QED BY <1>4, <2>1, <2>2, <2>3, <2>4 DEF Distributor
<1>5. ASSUME NEW o \in Outputs, Flusher(o) PROVE Empties'
  <2>1. CASE FlushTick(o) BY <2>1 DEF FlushTick, Take
  <2>2. CASE FlushStop(o) BY <2>2 DEF FlushStop, Take
  <2>3. CASE Process(o)
    <3>1. dist = "none" => sink[o] \o taken[o] = <<>> BY EmptyRight
    <3> QED BY <2>3, <3>1 DEF Process
  <2> QED BY <1>5, <2>1, <2>2, <2>3 DEF Flusher
<1>6. CASE Finished BY <1>6 DEF Finished, vars
<1> QED BY <1>1, <1>2, <1>3, <1>4, <1>5, <1>6 DEF Next

\* The initial state: nothing is started and every stage is empty.
LEMMA InitIInv == Init => IInv
<1> SUFFICES ASSUME Init PROVE IInv
    OBVIOUS
<1> USE OutputsAssumption, CapacityAssumption, SamplesAssumption DEF Init
<1>1. <<>> \in Seq(Samples) /\ Len(<<>>) = 0 BY EmptySeq
<1>2. TypeOK
  <2>1. next \in 1 .. (NumOutputs + 1) /\ batchTo \in Outputs /\ emitted \in 0 .. MaxSamples
    BY DEF Outputs
  <2>2. /\ samplesChan \in Seq(Samples) /\ Len(samplesChan) <= Capacity
        /\ accepted \in Seq(Samples) /\ buffer \in Seq(Samples)
    BY <1>1
  <2>3. /\ outBuf \in [Outputs -> Seq(Samples)]
        /\ taken \in [Outputs -> Seq(Samples)] /\ sink \in [Outputs -> Seq(Samples)]
        /\ flusher \in [Outputs -> {"off", "select", "flush", "flushLast", "done"}]
    BY <1>1
  <2> QED BY <2>1, <2>2, <2>3 DEF TypeOK
<1>3. Phases
  <2>1. started = 1 .. 0 OBVIOUS
  <2> QED BY <2>1 DEF Phases
<1>4. Stops BY DEF Stops
<1>5. Empties BY DEF Empties
<1> QED BY <1>2, <1>3, <1>4, <1>5 DEF IInv

\* The inductive invariant holds in every reachable state.
THEOREM Inductive == Spec => []IInv
<1>1. IInv /\ [Next]_vars => IInv'
  BY TypeStep, PhasesStep, StopsStep, EmptiesStep DEF IInv
<1> QED BY <1>1, InitIInv, PTL DEF Spec

\* TypeOK holds in every reachable state of the pipeline.
THEOREM TypeCorrect == Spec => []TypeOK
<1>1. IInv => TypeOK BY DEF IInv
<1> QED BY <1>1, Inductive, PTL

-----------------------------------------------------------------------------
(* Conservation.                                                            *)

\* The sequences of one output and the parts Conservation is about.
LEMMA Parts ==
    ASSUME IInv, NEW o \in Outputs
    PROVE  /\ sink[o] \in Seq(Samples) /\ taken[o] \in Seq(Samples) /\ outBuf[o] \in Seq(Samples)
           /\ ToCome(o) \in Seq(Samples) /\ samplesChan \in Seq(Samples) /\ buffer \in Seq(Samples)
           /\ sink[o] \o taken[o] \in Seq(Samples)
           /\ sink[o] \o taken[o] \o outBuf[o] \in Seq(Samples)
           /\ sink[o] \o taken[o] \o outBuf[o] \o ToCome(o) \in Seq(Samples)
<1>1. /\ sink[o] \in Seq(Samples) /\ taken[o] \in Seq(Samples) /\ outBuf[o] \in Seq(Samples)
      /\ samplesChan \in Seq(Samples) /\ buffer \in Seq(Samples)
  BY DEF IInv, TypeOK
<1>2. ToCome(o) \in Seq(Samples)
  <2>1. ToCome(o) = <<>> \/ ToCome(o) = buffer BY Zenon DEF ToCome
  <2> QED BY <1>1, <2>1, EmptySeq
<1>3. sink[o] \o taken[o] \in Seq(Samples) BY <1>1, Types
<1>4. sink[o] \o taken[o] \o outBuf[o] \in Seq(Samples) BY <1>1, <1>3, Types
<1>5. sink[o] \o taken[o] \o outBuf[o] \o ToCome(o) \in Seq(Samples) BY <1>2, <1>4, Types
<1> QED BY <1>1, <1>2, <1>3, <1>4, <1>5

\* What the distributor does changes which outputs still get the batch.
LEMMA ToComeSteps ==
    ASSUME IInv, NEW o \in Outputs
    PROVE  /\ Execute \/ Emit \/ Tick \/ ReceiveClosed => ToCome(o)' = ToCome(o)
           /\ Receive => ToCome(o) = buffer /\ ToCome(o)' = buffer'
           /\ SendBatch /\ o = batchTo => ToCome(o) = buffer /\ ToCome(o)' = <<>>
           /\ SendBatch /\ o # batchTo => ToCome(o)' = ToCome(o)
<1> USE DEF ToCome, distVars
<1> /\ NumOutputs \in Nat \ {0} /\ o \in 1 .. NumOutputs /\ batchTo \in 1 .. NumOutputs
    BY OutputsAssumption DEF IInv, TypeOK, Outputs
<1>1. ASSUME Execute PROVE ToCome(o)' = ToCome(o)
  <2>1. CASE StartDistributor BY <2>1 DEF StartDistributor, IInv, Phases
  <2>2. CASE ~ StartDistributor
    <3>1. UNCHANGED distVars
      BY <1>1, <2>2 DEF Execute, CreateOutputs, CreateOutputsFails, StartOutput, StartOutputFails, StopSignal, StopAwait,
         RunWithoutOutputs, CloseSamples, OutputWait, Report
    <3> QED BY <3>1
  <2> QED BY <2>1, <2>2
<1>2. ASSUME Emit PROVE ToCome(o)' = ToCome(o) BY <1>2 DEF Emit
<1>3. ASSUME Tick PROVE ToCome(o)' = ToCome(o) BY <1>3 DEF Tick
<1>4. ASSUME ReceiveClosed PROVE ToCome(o)' = ToCome(o)
  <2>1. dist = "select" /\ batchTo' = 1 /\ buffer' = buffer BY <1>4 DEF ReceiveClosed
  <2> QED BY <2>1
<1>5. ASSUME Receive PROVE ToCome(o) = buffer /\ ToCome(o)' = buffer' BY <1>5 DEF Receive
<1>6. ASSUME SendBatch, o = batchTo PROVE ToCome(o) = buffer /\ ToCome(o)' = <<>>
  <2>1. CASE batchTo < NumOutputs BY <1>6, <2>1 DEF SendBatch
  <2>2. CASE ~ (batchTo < NumOutputs)
    <3>1. batchTo' = 1 /\ buffer' = <<>> BY <1>6, <2>2 DEF SendBatch
    <3> QED BY <1>6, <3>1
  <2> QED BY <2>1, <2>2
<1>7. ASSUME SendBatch, o # batchTo PROVE ToCome(o)' = ToCome(o)
  <2>1. CASE batchTo < NumOutputs BY <1>7, <2>1 DEF SendBatch
  <2>2. CASE ~ (batchTo < NumOutputs)
    <3>1. batchTo' = 1 /\ buffer' = <<>> BY <1>7, <2>2 DEF SendBatch
    <3>2. dist \in {"send", "sendLast"} /\ o < batchTo BY <1>7, <2>2 DEF SendBatch
    <3> QED BY <3>1, <3>2
  <2> QED BY <2>1, <2>2
<1> HIDE DEF ToCome
<1> QED BY <1>1, <1>2, <1>3, <1>4, <1>5, <1>6, <1>7, Zenon

\* Every step keeps the samples of every output, in their order.
LEMMA ConservationStep ==
    ASSUME IInv, Conservation, [Next]_vars
    PROVE  Conservation'
<1> SUFFICES ASSUME NEW o \in Outputs
             PROVE  (sink[o] \o taken[o] \o outBuf[o] \o ToCome(o) \o samplesChan = accepted)'
    BY DEF Conservation
<1>0. sink[o] \o taken[o] \o outBuf[o] \o ToCome(o) \o samplesChan = accepted
  BY DEF Conservation
<1> USE DEF execVars, distVars, outVars, chanVars
<1> DEFINE all == sink[o] \o taken[o] \o outBuf[o] \o ToCome(o)
<1>a. ASSUME UNCHANGED <<sink, taken, outBuf, samplesChan, accepted>>, ToCome(o)' = ToCome(o)
      PROVE  (sink[o] \o taken[o] \o outBuf[o] \o ToCome(o) \o samplesChan = accepted)'
  BY <1>0, <1>a
<1>1. CASE UNCHANGED vars BY <1>1, <1>a DEF vars, ToCome
<1>2. CASE Execute
  <2>1. UNCHANGED <<sink, taken, outBuf, samplesChan, accepted>>
    BY <1>2 DEF Execute, CreateOutputs, CreateOutputsFails, StartOutput, StartOutputFails, StartDistributor, StopSignal, StopAwait,
       RunWithoutOutputs, CloseSamples, OutputWait, Report
  <2> QED BY <1>2, <1>a, <2>1, ToComeSteps
<1>3. CASE Emit
  <2>1. UNCHANGED <<sink, taken, outBuf>> BY <1>3 DEF Emit
  <2>2. ToCome(o)' = ToCome(o) BY <1>3, ToComeSteps
  <2>3. CASE ~ closed /\ Len(samplesChan) < Capacity
    <3>1. emitted + 1 \in Samples BY <1>3, SamplesAssumption DEF Emit, Samples, IInv, TypeOK
    <3>2. all \in Seq(Samples) /\ samplesChan \in Seq(Samples) BY Parts
    <3> HIDE DEF all
    <3>3. all \o Append(samplesChan, emitted + 1) = Append(all \o samplesChan, emitted + 1)
      BY <3>1, <3>2, AppendLast
    <3>4. samplesChan' = Append(samplesChan, emitted + 1) /\ accepted' = Append(accepted, emitted + 1)
      BY <1>3, <2>3 DEF Emit
    <3>5. all' = all BY <2>1, <2>2 DEF all
    <3>6. all \o samplesChan = accepted BY <1>0 DEF all
    <3>7. all' \o samplesChan' = accepted' BY <3>3, <3>4, <3>5, <3>6, Zenon
    <3> QED BY <3>7 DEF all
  <2>4. CASE ~ (~ closed /\ Len(samplesChan) < Capacity)
    <3>1. UNCHANGED <<samplesChan, accepted>> BY <1>3, <2>4 DEF Emit
    <3> QED BY <1>a, <2>1, <2>2, <3>1
  <2> QED BY <2>3, <2>4
<1>4. CASE Receive
  <2> DEFINE pre == sink[o] \o taken[o] \o outBuf[o]
  <2>1. UNCHANGED <<sink, taken, outBuf, accepted>> BY <1>4 DEF Receive
  <2>2. ToCome(o) = buffer /\ ToCome(o)' = Append(buffer, Head(samplesChan))
    BY <1>4, ToComeSteps DEF Receive
  <2>3. samplesChan # <<>> /\ samplesChan' = Tail(samplesChan) BY <1>4 DEF Receive
  <2>4. /\ pre \in Seq(Samples) /\ buffer \in Seq(Samples) /\ samplesChan \in Seq(Samples)
        /\ pre \o buffer \in Seq(Samples)
    BY <2>2, Parts
  <2>5. Head(samplesChan) \in Samples BY <2>3, <2>4, HeadTailProperties
  <2> HIDE DEF pre
  <2>6. pre \o Append(buffer, Head(samplesChan)) = Append(pre \o buffer, Head(samplesChan))
    BY <2>4, <2>5, AppendLast
  <2>7. Append(pre \o buffer, Head(samplesChan)) \o Tail(samplesChan) = (pre \o buffer) \o samplesChan
    BY <2>3, <2>4, MoveHead
  <2>8. pre \o buffer \o samplesChan = accepted BY <1>0, <2>2 DEF pre
  <2>9. pre' = pre BY <2>1 DEF pre
  <2>10. pre' \o ToCome(o)' \o samplesChan' = accepted'
    BY <2>1, <2>2, <2>3, <2>6, <2>7, <2>8, <2>9, Zenon
  <2> QED BY <2>10 DEF pre
<1>5. CASE Tick BY <1>5, <1>a, ToComeSteps DEF Tick
<1>6. CASE ReceiveClosed
  <2>1. UNCHANGED <<sink, taken, outBuf, samplesChan, accepted>> BY <1>6 DEF ReceiveClosed
  <2> QED BY <1>6, <1>a, <2>1, ToComeSteps
<1>7. CASE SendBatch
  <2>1. UNCHANGED <<sink, taken, samplesChan, accepted>> BY <1>7 DEF SendBatch
  <2>2. /\ outBuf \in [Outputs -> Seq(Samples)] /\ batchTo \in Outputs
        /\ outBuf' = [outBuf EXCEPT ![batchTo] = outBuf[batchTo] \o buffer]
    BY <1>7 DEF SendBatch, IInv, TypeOK
  <2>3. CASE o = batchTo
    <3> DEFINE pre == sink[o] \o taken[o]
               out == outBuf[o]
    <3>1. outBuf'[o] = out \o buffer BY <2>2, <2>3
    <3>2. ToCome(o) = buffer /\ ToCome(o)' = <<>> BY <1>7, <2>3, ToComeSteps
    <3>3. /\ pre \in Seq(Samples) /\ out \in Seq(Samples) /\ buffer \in Seq(Samples)
          /\ pre \o out \o buffer \in Seq(Samples)
      BY <3>2, Parts
    <3> HIDE DEF pre, out
    <3>4. (pre \o out) \o buffer = pre \o (out \o buffer) BY <3>3, ConcatAssociative
    <3>5. pre \o out \o buffer \o <<>> = pre \o out \o buffer BY <3>3, EmptyRight
    <3>6. pre \o out \o buffer \o samplesChan = accepted BY <1>0, <3>2 DEF pre, out
    <3>7. pre' = pre BY <2>1 DEF pre
    <3>8. pre' \o outBuf'[o] \o ToCome(o)' \o samplesChan' = accepted'
      <4>1. pre' \o outBuf'[o] \o ToCome(o)' = pre \o out \o buffer
        BY <3>1, <3>2, <3>4, <3>5, <3>7, Zenon
      <4> QED BY <2>1, <3>6, <4>1
    <3> QED BY <3>8 DEF pre, out
  <2>4. CASE o # batchTo
    <3>1. outBuf'[o] = outBuf[o] BY <2>2, <2>4
    <3>2. ToCome(o)' = ToCome(o) BY <1>7, <2>4, ToComeSteps
    <3> QED BY <1>0, <2>1, <3>1, <3>2
  <2> QED BY <2>3, <2>4
<1>8. ASSUME NEW p \in Outputs, Flusher(p)
      PROVE  (sink[o] \o taken[o] \o outBuf[o] \o ToCome(o) \o samplesChan = accepted)'
  <2>1. ToCome(o)' = ToCome(o) /\ UNCHANGED <<samplesChan, accepted>>
    BY <1>8 DEF Flusher, FlushTick, FlushStop, Process, ToCome
  <2>2. /\ outBuf \in [Outputs -> Seq(Samples)] /\ taken \in [Outputs -> Seq(Samples)]
        /\ sink \in [Outputs -> Seq(Samples)]
        /\ sink[o] \in Seq(Samples) /\ taken[o] \in Seq(Samples) /\ outBuf[o] \in Seq(Samples)
        /\ sink[o] \o taken[o] \in Seq(Samples) /\ <<>> \in Seq(Samples)
    BY Parts, EmptySeq DEF IInv, TypeOK
  <2>3. CASE p # o
    <3>1. sink'[o] = sink[o] /\ taken'[o] = taken[o] /\ outBuf'[o] = outBuf[o]
      BY <1>8, <2>2, <2>3 DEF Flusher, FlushTick, FlushStop, Process, Take
    <3> QED BY <1>0, <2>1, <3>1
  <2>4. CASE p = o /\ (FlushTick(o) \/ FlushStop(o))
    <3>1. sink'[o] = sink[o] /\ taken'[o] = outBuf[o] /\ outBuf'[o] = <<>>
      BY <2>2, <2>4 DEF FlushTick, FlushStop, Take
    <3>2. taken[o] = <<>> BY <2>4 DEF FlushTick, FlushStop, IInv, Empties
    <3>3. sink[o] \o taken[o] \o outBuf[o] = sink[o] \o outBuf[o] BY <2>2, <3>2, EmptyRight
    <3>4. sink[o] \o outBuf[o] \in Seq(Samples) BY <2>2, Types
    <3>5. (sink[o] \o outBuf[o]) \o <<>> = sink[o] \o outBuf[o] BY <3>4, EmptyRight
    <3>6. sink'[o] \o taken'[o] \o outBuf'[o] = sink[o] \o taken[o] \o outBuf[o]
      BY <3>1, <3>3, <3>5, Zenon
    <3> QED BY <1>0, <2>1, <3>6
  <2>5. CASE p = o /\ Process(o)
    <3>1. sink'[o] = sink[o] \o taken[o] /\ taken'[o] = <<>> /\ outBuf'[o] = outBuf[o]
      BY <2>2, <2>5 DEF Process
    <3>2. (sink[o] \o taken[o]) \o <<>> = sink[o] \o taken[o] BY <2>2, EmptyRight
    <3>3. sink'[o] \o taken'[o] = sink[o] \o taken[o] BY <3>1, <3>2, Zenon
    <3> QED BY <1>0, <2>1, <3>1, <3>3
  <2> QED BY <1>8, <2>3, <2>4, <2>5 DEF Flusher
<1>9. CASE Finished BY <1>9, <1>1 DEF Finished
<1> QED BY <1>1, <1>2, <1>3, <1>4, <1>5, <1>6, <1>7, <1>8, <1>9 DEF Next, Distributor

\* Conservation holds in every reachable state: no sample that entered the
\* channel is lost, doubled or reordered on its way to any output.
THEOREM ConservationTheorem == Spec => []Conservation
<1>1. Init => Conservation
  <2> SUFFICES ASSUME Init, NEW o \in Outputs
               PROVE  sink[o] \o taken[o] \o outBuf[o] \o ToCome(o) \o samplesChan = accepted
      BY DEF Conservation
  <2>1. /\ sink[o] = <<>> /\ taken[o] = <<>> /\ outBuf[o] = <<>> /\ ToCome(o) = <<>>
        /\ samplesChan = <<>> /\ accepted = <<>>
    BY DEF Init, ToCome
  <2>2. <<>> \in Seq(Samples) BY EmptySeq
  <2>3. <<>> \o <<>> = <<>> BY <2>2, EmptyRight
  <2> QED BY <2>1, <2>3, Zenon
<1>2. IInv /\ Conservation /\ [Next]_vars => Conservation' BY ConservationStep
<1> QED BY <1>1, <1>2, Inductive, PTL DEF Spec

\* When the report is built every sink has all the samples that entered the
\* channel: the stages before it are empty, and Conservation leaves no other place.
THEOREM ReportCompleteTheorem == Spec => []ReportComplete
<1>1. IInv /\ Conservation => ReportComplete
  <2> SUFFICES ASSUME IInv, Conservation, phase = "report", NEW o \in Outputs
               PROVE  /\ flusher[o] \in {"off", "done"}
                      /\ dist # "none" => sink[o] = accepted
      BY DEF ReportComplete
  <2>1. flusher[o] \in {"off", "done"} BY DEF IInv, Stops
  <2>2. ASSUME dist # "none" PROVE sink[o] = accepted
    <3>1. dist = "exit" /\ o \in started BY <2>2 DEF IInv, Phases
    <3>2. flusher[o] = "done" BY <3>1 DEF IInv, Stops
    <3>3. taken[o] = <<>> /\ outBuf[o] = <<>> /\ buffer = <<>> /\ samplesChan = <<>>
      BY <3>1, <3>2 DEF IInv, Empties, Phases
    <3>4. ToCome(o) = <<>> BY <3>1, <3>3 DEF ToCome
    <3>5. sink[o] \o <<>> = sink[o] BY Parts, EmptyRight
    <3>6. sink[o] \o taken[o] \o outBuf[o] \o ToCome(o) \o samplesChan = accepted
      BY DEF Conservation
    <3> QED BY <3>3, <3>4, <3>5, <3>6, Zenon
  <2> QED BY <2>1, <2>2
<1> QED BY <1>1, Inductive, ConservationTheorem, PTL
=============================================================================
