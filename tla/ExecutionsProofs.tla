--------------------------- MODULE ExecutionsProofs ---------------------------
(***************************************************************************)
(* Proofs about Executions for any executions, watches, emission bound,    *)
(* chunk size and idle timer: the types, the shape of the stream, what     *)
(* watchers have seen of it, that the runtime implements ExecutionStream,  *)
(* and what of the output the stream has delivered.                        *)
(***************************************************************************)
EXTENDS Executions, SequenceTheorems, WellFoundedInduction, TLAPS

-----------------------------------------------------------------------------
(* Broadcasting.                                                           *)

\* The events one synchronous stretch of code hands to the sink: whole
\* events of which only the last may be a terminal.
Batch == {events \in Seq(Event) :
            \A i \in 1..Len(events) : IsTerminal(events[i]) => i = Len(events)}

LEMMA ChunkIsBatch ==
  ASSUME NEW lines \in Seq(Nat)
  PROVE  /\ Chunk(lines) \in Batch
         /\ \A i \in 1..Len(Chunk(lines)) : ~IsTerminal(Chunk(lines)[i])
  BY DEF Chunk, Batch, Event, IsTerminal, Terminal

LEMMA ChunkAndEventIsBatch ==
  ASSUME NEW lines \in Seq(Nat), NEW event \in Event
  PROVE  Append(Chunk(lines), event) \in Batch
<1>1. Chunk(lines) \in Seq(Event)
  BY ChunkIsBatch DEF Batch
<1>2. Append(Chunk(lines), event) \in Seq(Event)
  BY <1>1
<1>3. ASSUME NEW i \in 1..Len(Append(Chunk(lines), event)),
             IsTerminal(Append(Chunk(lines), event)[i])
      PROVE  i = Len(Append(Chunk(lines), event))
  <2>1. CASE i \in 1..Len(Chunk(lines))
    <3>1. Append(Chunk(lines), event)[i] = Chunk(lines)[i]
      BY <1>1, <2>1
    <3>2. QED
      BY <1>3, <2>1, <3>1, ChunkIsBatch
  <2>2. QED
    BY <1>1, <1>3, <2>1
<1>4. QED
  BY <1>2, <1>3 DEF Batch

LEMMA EndedIsEvent ==
  ASSUME NEW type \in Terminal
  PROVE  Ended(type) \in Event
  BY DEF Ended, Event, Terminal

\* Everything a broadcast does to one execution's stream.
Kept(f) ==
  /\ buffer'[f] = buffer[f]
  /\ closed'[f] = closed[f]
  /\ waiting'[f] = waiting[f]

Extended(f) ==
  /\ ~closed[f]
  /\ buffer'[f] \in Seq(Event)
  /\ Len(buffer'[f]) > Len(buffer[f])
  /\ \A i \in 1..Len(buffer[f]) : buffer'[f][i] = buffer[f][i]
  /\ \A i \in 1..Len(buffer'[f]) :
       i > Len(buffer[f]) /\ IsTerminal(buffer'[f][i]) => i = Len(buffer'[f])
  /\ closed'[f] = IsTerminal(buffer'[f][Len(buffer'[f])])
  /\ waiting'[f] \in Nat
  /\ waiting'[f] > waiting[f]

Streams ==
  /\ buffer \in [Execution -> Seq(Event)]
  /\ closed \in [Execution -> BOOLEAN]
  /\ waiting \in [Execution -> Nat]

\* What one step may do to the streams: extend at most one open one.
StreamStep ==
  /\ Streams'
  /\ \E e \in Execution :
       /\ Kept(e) \/ Extended(e)
       /\ \A f \in Execution \ {e} : Kept(f)

LEMMA BroadcastStep ==
  ASSUME Streams, NEW e \in Execution, NEW events \in Batch,
         Broadcast(e, events)
  PROVE  StreamStep
<1>1. CASE closed[e] \/ events = <<>>
  <2>1. UNCHANGED <<buffer, closed, waiting>>
    BY <1>1 DEF Broadcast
  <2>2. QED
    BY <2>1 DEF Streams, StreamStep, Kept
<1>2. CASE ~closed[e] /\ events # <<>>
  <2>1. /\ buffer' = [buffer EXCEPT ![e] = @ \o events]
        /\ closed' = [closed EXCEPT ![e] = IsTerminal(events[Len(events)])]
        /\ waiting' = [waiting EXCEPT ![e] = @ + Len(events)]
    BY <1>2 DEF Broadcast
  <2> DEFINE old == buffer[e]
  <2>2. /\ old \in Seq(Event) /\ events \in Seq(Event)
        /\ Len(events) \in Nat \ {0} /\ Len(old) \in Nat
    BY <1>2 DEF Streams, Batch
  <2>3. /\ buffer'[e] = old \o events
        /\ closed'[e] = IsTerminal(events[Len(events)])
        /\ waiting'[e] = waiting[e] + Len(events)
    BY <2>1 DEF Streams
  <2>4. /\ old \o events \in Seq(Event)
        /\ Len(old \o events) = Len(old) + Len(events)
        /\ \A i \in 1..Len(old) : (old \o events)[i] = old[i]
        /\ \A i \in Len(old) + 1 .. Len(old) + Len(events) :
             (old \o events)[i] = events[i - Len(old)]
    BY <2>2
  <2>5. IsTerminal(events[Len(events)]) \in BOOLEAN
    BY DEF IsTerminal
  <2>6. Extended(e)
    <3>1. ASSUME NEW i \in 1..Len(old \o events), i > Len(old),
                 IsTerminal((old \o events)[i])
          PROVE  i = Len(old \o events)
      <4>1. i - Len(old) \in 1..Len(events)
        BY <3>1, <2>2, <2>4
      <4>2. IsTerminal(events[i - Len(old)])
        BY <3>1, <2>2, <2>4
      <4>3. i - Len(old) = Len(events)
        BY <4>1, <4>2 DEF Batch
      <4>4. QED
        BY <4>3, <2>2, <2>4
    <3>2. waiting[e] \in Nat
      BY DEF Streams
    <3>3. closed'[e] = IsTerminal((old \o events)[Len(old \o events)])
      BY <2>2, <2>3, <2>4
    <3>4. QED
      BY <1>2, <2>2, <2>3, <2>4, <3>1, <3>2, <3>3 DEF Extended
  <2>7. \A f \in Execution \ {e} : Kept(f)
    BY <2>1 DEF Streams, Kept
  <2>8. Streams'
    BY <2>1, <2>2, <2>4, <2>5 DEF Streams
  <2>9. QED
    BY <2>6, <2>7, <2>8 DEF StreamStep
<1>3. QED
  BY <1>1, <1>2

LEMMA SinkStep ==
  ASSUME Streams, NEW e \in Execution, NEW events \in Batch, Sink(e, events)
  PROVE  StreamStep
<1>1. <<>> \in Batch
  BY DEF Batch
<1>2. QED
  BY <1>1, BroadcastStep DEF Sink

-----------------------------------------------------------------------------
(* Types.                                                                  *)

LEMMA TypeOKInit == Init => TypeOK
  BY DEF Init, TypeOK, Stage, Event, WatchPc

\* A step is a watch's own, or leaves the watches alone and extends at most
\* one stream.
LEMMA NextStep ==
  ASSUME TypeOK, [Next]_vars
  PROVE  \/ UNCHANGED watchVars /\ StreamStep
         \/ UNCHANGED execVars /\ \E w \in Watcher : WatchStep(w)
         \/ UNCHANGED vars
<1> USE DEF TypeOK
<1>0. Streams
  BY DEF Streams
<1>1. ASSUME NEW e \in Execution, UNCHANGED <<buffer, closed, waiting>>
      PROVE  StreamStep
  BY <1>0, <1>1 DEF Streams, StreamStep, Kept
<1>2. ASSUME NEW e \in Execution, Start(e)
      PROVE  UNCHANGED watchVars /\ StreamStep
  BY <1>1, <1>2 DEF Start
<1>3. ASSUME NEW e \in Execution, EmitLog(e)
      PROVE  UNCHANGED watchVars /\ StreamStep
  <2> DEFINE lines == Append(held[e], emits[e] + 1)
  <2>1. lines \in Seq(Nat)
    OBVIOUS
  <2>2. Sink(e, Chunk(lines)) \/ UNCHANGED <<buffer, closed, waiting>>
    BY <1>3 DEF EmitLog
  <2>3. QED
    BY <1>0, <1>1, <1>3, <2>1, <2>2, ChunkIsBatch, SinkStep DEF EmitLog
<1>4. ASSUME NEW e \in Execution, EmitStep(e)
      PROVE  UNCHANGED watchVars /\ StreamStep
  <2>1. [type |-> "step", items |-> <<emits[e] + 1>>] \in Event
    BY DEF Event
  <2>2. QED
    BY <1>0, <1>4, <2>1, ChunkAndEventIsBatch, SinkStep DEF EmitStep
<1>5. ASSUME NEW e \in Execution, NEW type \in Terminal, EmitTerminal(e, type)
      PROVE  UNCHANGED watchVars /\ StreamStep
  BY <1>0, <1>5, EndedIsEvent, ChunkAndEventIsBatch, SinkStep DEF EmitTerminal
<1>6. ASSUME NEW e \in Execution, Return(e) \/ Throw(e)
      PROVE  UNCHANGED watchVars /\ StreamStep
  BY <1>0, <1>6, EndedIsEvent, ChunkAndEventIsBatch, SinkStep
     DEF Return, Throw, Settle, Terminal
<1>7. ASSUME NEW e \in Execution, Cancel(e) \/ Stall(e)
      PROVE  UNCHANGED watchVars /\ StreamStep
  <2>1. <<Ended("cancelled")>> \in Batch /\ <<Ended("failed")>> \in Batch
    BY EndedIsEvent DEF Batch, Terminal
  <2>2. QED
    BY <1>0, <1>7, <2>1, BroadcastStep, SinkStep DEF Cancel, Stall
<1>8. ASSUME NEW w \in Watcher, WatchStep(w)
      PROVE  UNCHANGED execVars
  BY <1>8 DEF WatchStep, Attach, Deliver, Sleep, Wake, Detach
<1>9. QED
  BY <1>2, <1>3, <1>4, <1>5, <1>6, <1>7, <1>8 DEF Next, TaskStep

\* How a step may change the runtime's other variables, execution by execution.
RuntimeStep ==
  /\ UNCHANGED task \/ \E e \in Execution, stage \in Stage :
                         task' = [task EXCEPT ![e] = stage]
  /\ UNCHANGED aborted \/ \E e \in Execution :
                            aborted' = [aborted EXCEPT ![e] = TRUE]
  /\ UNCHANGED held \/ \E e \in Execution, lines \in Seq(Nat) :
                         held' = [held EXCEPT ![e] = lines]
  /\ UNCHANGED emits \/ \E e \in Execution :
                          emits' = [emits EXCEPT ![e] = @ + 1]
  /\ UNCHANGED armed \/ \E e \in Execution, on \in BOOLEAN :
                          armed' = [armed EXCEPT ![e] = on]

LEMMA NextRuntimeStep ==
  ASSUME TypeOK, [Next]_vars
  PROVE  RuntimeStep
<1> USE DEF RuntimeStep
<1>0. Watchdog \in BOOLEAN /\ <<>> \in Seq(Nat)
  BY ExecutionsAssumption DEF ExecutionsAssumption
<1>1. ASSUME NEW e \in Execution, Start(e)
      PROVE  RuntimeStep
  BY <1>0, <1>1 DEF Start, Stage
<1>2. ASSUME NEW e \in Execution, EmitLog(e)
      PROVE  RuntimeStep
  <2>1. Append(held[e], emits[e] + 1) \in Seq(Nat)
    BY DEF TypeOK
  <2>2. QED
    BY <1>0, <1>2, <2>1 DEF EmitLog
<1>3. ASSUME NEW e \in Execution, EmitStep(e)
      PROVE  RuntimeStep
  BY <1>0, <1>3 DEF EmitStep
<1>4. ASSUME NEW e \in Execution, NEW type \in Terminal, EmitTerminal(e, type)
      PROVE  RuntimeStep
  BY <1>0, <1>4 DEF EmitTerminal
<1>5. ASSUME NEW e \in Execution, Return(e) \/ Throw(e)
      PROVE  RuntimeStep
  BY <1>0, <1>5 DEF Return, Throw, Settle, Stage
<1>6. ASSUME NEW e \in Execution, Cancel(e)
      PROVE  RuntimeStep
  BY <1>6 DEF Cancel
<1>7. ASSUME NEW e \in Execution, Stall(e)
      PROVE  RuntimeStep
  BY <1>7 DEF Stall
<1>8. ASSUME NEW w \in Watcher, WatchStep(w)
      PROVE  RuntimeStep
  BY <1>8 DEF WatchStep, Attach, Deliver, Sleep, Wake, Detach, execVars
<1>9. CASE UNCHANGED vars
  BY <1>9 DEF vars
<1>10. QED
  BY <1>1, <1>2, <1>3, <1>4, <1>5, <1>6, <1>7, <1>8, <1>9 DEF Next, TaskStep

LEMMA UpdateKeepsType ==
  ASSUME NEW S, NEW f \in [Execution -> S], NEW g,
         g = f \/ \E e \in Execution, x \in S : g = [f EXCEPT ![e] = x]
  PROVE  g \in [Execution -> S]
  OBVIOUS

LEMMA TypeOKStep ==
  ASSUME TypeOK, [Next]_vars
  PROVE  TypeOK'
<1>1. /\ buffer' \in [Execution -> Seq(Event)]
      /\ closed' \in [Execution -> BOOLEAN]
      /\ waiting' \in [Execution -> Nat]
  BY NextStep DEF TypeOK, StreamStep, Streams, execVars, vars
<1>2. RuntimeStep
  BY NextRuntimeStep
<1>3. task' \in [Execution -> Stage]
  <2>1. task \in [Execution -> Stage]
    BY DEF TypeOK
  <2>2. task' = task \/ \E e \in Execution, stage \in Stage :
                          task' = [task EXCEPT ![e] = stage]
    BY <1>2 DEF RuntimeStep
  <2>3. QED
    BY <2>1, <2>2, UpdateKeepsType
<1>4. emits' \in [Execution -> Nat]
  <2>1. emits \in [Execution -> Nat]
    BY DEF TypeOK
  <2>2. emits' = emits \/ \E e \in Execution : emits' = [emits EXCEPT ![e] = @ + 1]
    BY <1>2 DEF RuntimeStep
  <2>3. \A e \in Execution : emits[e] + 1 \in Nat
    BY <2>1
  <2>4. QED
    BY <2>1, <2>2, <2>3
<1>4a. held' \in [Execution -> Seq(Nat)]
  <2>1. held \in [Execution -> Seq(Nat)]
    BY DEF TypeOK
  <2>2. held' = held \/ \E e \in Execution, lines \in Seq(Nat) :
                          held' = [held EXCEPT ![e] = lines]
    BY <1>2 DEF RuntimeStep
  <2>3. QED
    BY <2>1, <2>2, UpdateKeepsType
<1>5. aborted' \in [Execution -> BOOLEAN]
  BY <1>2 DEF RuntimeStep, TypeOK
<1>6. armed' \in [Execution -> BOOLEAN]
  BY <1>2 DEF RuntimeStep, TypeOK
<1> DEFINE WatchTypes == /\ pc' \in [Watcher -> WatchPc]
                         /\ cursor' \in [Watcher -> Nat]
                         /\ awaits' \in [Watcher -> Nat]
                         /\ seen' \in [Watcher -> Seq(Event)]
<1>7. WatchTypes
  <2> USE DEF TypeOK, WatchPc
  <2>1. CASE UNCHANGED watchVars
    BY <2>1 DEF watchVars
  <2>2. ASSUME NEW w \in Watcher, WatchStep(w)
        PROVE  WatchTypes
    <3>1. Of[w] \in Execution
      BY ExecutionsAssumption DEF ExecutionsAssumption
    <3>2. CASE Attach(w) \/ Wake(w) \/ Detach(w)
      BY <3>2 DEF Attach, Wake, Detach
    <3>3. CASE Deliver(w)
      <4>1. buffer[Of[w]][cursor[w] + 1] \in Event
        BY <3>1, <3>3 DEF Deliver
      <4>2. Append(seen[w], buffer[Of[w]][cursor[w] + 1]) \in Seq(Event)
        BY <4>1
      <4>3. QED
        BY <3>3, <4>2 DEF Deliver
    <3>4. CASE Sleep(w)
      BY <3>1, <3>4 DEF Sleep
    <3>5. QED
      BY <2>2, <3>2, <3>3, <3>4 DEF WatchStep
  <2>3. CASE UNCHANGED vars
    BY <2>1, <2>3 DEF vars, watchVars
  <2> HIDE DEF WatchTypes
  <2>4. QED
    BY <2>1, <2>2, <2>3, NextStep
<1>8. QED
  BY <1>1, <1>3, <1>4, <1>4a, <1>5, <1>6, <1>7 DEF TypeOK

\* The state of the runtime is always of the declared types.
THEOREM TypeCorrect == Spec => []TypeOK
  BY TypeOKInit, TypeOKStep, PTL DEF Spec

-----------------------------------------------------------------------------
(* The inductive invariant.  What watchers have seen is tied to the stream *)
(* by their cursors, and sleep by the promise it awaits: a watcher that    *)
(* awaits the current promise has read everything of an open stream.       *)

CursorsInStream == \A w \in Watcher : cursor[w] <= Len(buffer[Of[w]])

SleepersAwait ==
  \A w \in Watcher :
    pc[w] = "sleeping" =>
      /\ awaits[w] <= waiting[Of[w]]
      /\ awaits[w] = waiting[Of[w]] =>
           cursor[w] = Len(buffer[Of[w]]) /\ ~closed[Of[w]]

IInv ==
  TypeOK /\ TerminalIsLast /\ WatchersReplay /\ CursorsInStream /\ SleepersAwait

LEMMA IInvInit == Init => IInv
<1> SUFFICES ASSUME Init PROVE IInv
  OBVIOUS
<1>1. TypeOK
  BY TypeOKInit
<1>2. \A w \in Watcher : Of[w] \in Execution
  BY ExecutionsAssumption DEF ExecutionsAssumption
<1>3. TerminalIsLast
  BY DEF Init, TerminalIsLast
<1>4. WatchersReplay
  BY <1>2 DEF Init, WatchersReplay
<1>5. CursorsInStream /\ SleepersAwait
  BY <1>2 DEF Init, CursorsInStream, SleepersAwait
<1>6. QED
  BY <1>1, <1>3, <1>4, <1>5 DEF IInv

\* Extending streams disturbs neither their shape nor any watch of them.
LEMMA IInvStreamStep ==
  ASSUME IInv, TypeOK', UNCHANGED watchVars, StreamStep
  PROVE  IInv'
<1> USE DEF IInv
<1>1. /\ \A f \in Execution : Kept(f) \/ Extended(f)
      /\ \A w \in Watcher : Of[w] \in Execution
  BY ExecutionsAssumption DEF StreamStep, ExecutionsAssumption
<1>2. /\ buffer \in [Execution -> Seq(Event)]
      /\ closed \in [Execution -> BOOLEAN]
      /\ waiting \in [Execution -> Nat]
      /\ cursor \in [Watcher -> Nat]
      /\ awaits \in [Watcher -> Nat]
      /\ buffer' \in [Execution -> Seq(Event)]
      /\ waiting' \in [Execution -> Nat]
  BY DEF TypeOK
<1>3. UNCHANGED <<pc, cursor, awaits, seen>>
  BY DEF watchVars
<1>4. TerminalIsLast'
  <2> SUFFICES ASSUME NEW e \in Execution
               PROVE  /\ \A i \in 1..Len(buffer'[e]) :
                           IsTerminal(buffer'[e][i]) => i = Len(buffer'[e])
                      /\ closed'[e] <=> \E i \in 1..Len(buffer'[e]) :
                                          IsTerminal(buffer'[e][i])
    BY DEF TerminalIsLast
  <2>1. CASE Kept(e)
    BY <2>1 DEF Kept, TerminalIsLast
  <2>2. CASE Extended(e)
    <3>1. \A i \in 1..Len(buffer[e]) : ~IsTerminal(buffer[e][i])
      BY <2>2 DEF Extended, TerminalIsLast
    <3>2. ASSUME NEW i \in 1..Len(buffer'[e]), IsTerminal(buffer'[e][i])
          PROVE  i = Len(buffer'[e])
      <4>1. CASE i <= Len(buffer[e])
        BY <1>2, <2>2, <3>1, <3>2, <4>1 DEF Extended
      <4>2. CASE i > Len(buffer[e])
        BY <2>2, <3>2, <4>2 DEF Extended
      <4>3. QED
        BY <1>2, <4>1, <4>2
    <3>3. Len(buffer'[e]) \in 1..Len(buffer'[e])
      BY <1>2, <2>2 DEF Extended
    <3>4. closed'[e] <=> IsTerminal(buffer'[e][Len(buffer'[e])])
      BY <2>2 DEF Extended, IsTerminal
    <3>5. QED
      BY <3>2, <3>3, <3>4
  <2>3. QED
    BY <1>1, <2>1, <2>2
<1>5. CursorsInStream'
  <2> SUFFICES ASSUME NEW w \in Watcher
               PROVE  cursor[w] <= Len(buffer'[Of[w]])
    BY <1>3 DEF CursorsInStream
  <2>1. cursor[w] <= Len(buffer[Of[w]]) /\ cursor[w] \in Nat
    BY <1>2 DEF CursorsInStream
  <2>2. Len(buffer[Of[w]]) \in Nat /\ Len(buffer'[Of[w]]) \in Nat
    BY <1>1, <1>2
  <2>3. Len(buffer'[Of[w]]) >= Len(buffer[Of[w]])
    BY <1>1, <2>2 DEF Kept, Extended
  <2>4. QED
    BY <2>1, <2>2, <2>3
<1>6. WatchersReplay'
  <2> SUFFICES ASSUME NEW w \in Watcher
               PROVE  /\ seen[w] = SubSeq(buffer'[Of[w]], 1, cursor[w])
                      /\ pc[w] = "done" =>
                           closed'[Of[w]] /\ seen[w] = buffer'[Of[w]]
    BY <1>3 DEF WatchersReplay
  <2>1. /\ seen[w] = SubSeq(buffer[Of[w]], 1, cursor[w])
        /\ pc[w] = "done" => closed[Of[w]] /\ seen[w] = buffer[Of[w]]
    BY DEF WatchersReplay
  <2>2. CASE Kept(Of[w])
    BY <2>1, <2>2 DEF Kept
  <2>3. CASE Extended(Of[w])
    <3> DEFINE old == buffer[Of[w]]
               new == buffer'[Of[w]]
    <3>1. /\ old \in Seq(Event) /\ new \in Seq(Event)
          /\ cursor[w] \in Nat /\ cursor[w] <= Len(old) /\ Len(old) < Len(new)
          /\ \A i \in 1..Len(old) : new[i] = old[i]
      BY <1>1, <1>2, <2>3 DEF Extended, CursorsInStream
    <3>2. SubSeq(new, 1, cursor[w]) = SubSeq(old, 1, cursor[w])
      <4> HIDE DEF old, new
      <4>1. QED
        BY <3>1
    <3>3. pc[w] # "done"
      BY <2>1, <2>3 DEF Extended
    <3>4. QED
      BY <2>1, <3>2, <3>3
  <2>4. QED
    BY <1>1, <2>2, <2>3
<1>7. SleepersAwait'
  <2> SUFFICES ASSUME NEW w \in Watcher, pc[w] = "sleeping"
               PROVE  /\ awaits[w] <= waiting'[Of[w]]
                      /\ awaits[w] = waiting'[Of[w]] =>
                           cursor[w] = Len(buffer'[Of[w]]) /\ ~closed'[Of[w]]
    BY <1>3 DEF SleepersAwait
  <2>1. /\ awaits[w] <= waiting[Of[w]]
        /\ awaits[w] = waiting[Of[w]] =>
             cursor[w] = Len(buffer[Of[w]]) /\ ~closed[Of[w]]
    BY DEF SleepersAwait
  <2>2. CASE Kept(Of[w])
    BY <2>1, <2>2 DEF Kept
  <2>3. CASE Extended(Of[w])
    BY <1>1, <1>2, <2>1, <2>3 DEF Extended
  <2>4. QED
    BY <1>1, <2>2, <2>3
<1>8. QED
  BY <1>4, <1>5, <1>6, <1>7

\* Nor does a watch's own step disturb the streams or the other watches.
LEMMA IInvWatchStep ==
  ASSUME IInv, TypeOK', UNCHANGED execVars, NEW w \in Watcher, WatchStep(w)
  PROVE  IInv'
<1> USE DEF IInv
<1> DEFINE stream == buffer[Of[w]]
<1>1. UNCHANGED <<buffer, closed, waiting>>
  BY DEF execVars
<1>2. /\ Of[w] \in Execution
      /\ stream \in Seq(Event)
      /\ cursor \in [Watcher -> Nat]
      /\ awaits \in [Watcher -> Nat]
      /\ seen \in [Watcher -> Seq(Event)]
      /\ pc \in [Watcher -> WatchPc]
      /\ waiting[Of[w]] \in Nat
  BY ExecutionsAssumption DEF TypeOK, ExecutionsAssumption
<1>3. TerminalIsLast'
  BY <1>1 DEF TerminalIsLast
<1>4. /\ cursor[w] <= Len(stream)
      /\ seen[w] = SubSeq(stream, 1, cursor[w])
      /\ pc[w] = "done" => closed[Of[w]] /\ seen[w] = stream
  BY DEF CursorsInStream, WatchersReplay
<1>5. \A v \in Watcher \ {w} :
        pc'[v] = pc[v] /\ cursor'[v] = cursor[v] /\ awaits'[v] = awaits[v]
          /\ seen'[v] = seen[v]
  BY <1>2 DEF WatchStep, Attach, Deliver, Sleep, Wake, Detach
<1>6. /\ cursor'[w] <= Len(stream)
      /\ seen'[w] = SubSeq(stream, 1, cursor'[w])
      /\ pc'[w] = "done" => closed[Of[w]] /\ seen'[w] = stream
      /\ pc'[w] = "sleeping" =>
           /\ awaits'[w] <= waiting[Of[w]]
           /\ awaits'[w] = waiting[Of[w]] =>
                cursor'[w] = Len(stream) /\ ~closed[Of[w]]
  <2>1. CASE Attach(w) \/ Wake(w) \/ Detach(w)
    BY <1>2, <1>4, <2>1 DEF Attach, Wake, Detach
  <2>2. CASE Deliver(w)
    <3> DEFINE n == cursor[w] + 1
    <3>1. /\ n \in 1..Len(stream)
          /\ cursor'[w] = n
          /\ seen'[w] = Append(seen[w], stream[n])
          /\ pc'[w] = IF IsTerminal(stream[n]) THEN "done" ELSE "reading"
      BY <1>2, <2>2 DEF Deliver
    <3>2. SubSeq(stream, 1, n) = Append(SubSeq(stream, 1, cursor[w]), stream[n])
      <4>1. SubSeq(stream, 1, cursor[w]) \in Seq(Event) /\ stream[n] \in Event
        BY <1>2, <1>4, <3>1
      <4>2. SubSeq(stream, 1, n) = SubSeq(stream, 1, n - 1) \o <<stream[n]>>
        <5>1. 1 \in 1..Len(stream) /\ stream \in Seq(Event)
          BY <1>2, <3>1
        <5> HIDE DEF stream, n
        <5>2. QED
          BY <3>1, <5>1, SubSeqRecursiveSecond
      <4>3. n - 1 = cursor[w]
        BY <1>2
      <4>4. QED
        BY <4>1, <4>2, <4>3
    <3>3. IsTerminal(stream[n]) => closed[Of[w]] /\ n = Len(stream)
      BY <1>2, <3>1 DEF TerminalIsLast
    <3>4. SubSeq(stream, 1, Len(stream)) = stream
      <4> HIDE DEF stream
      <4>1. QED
        BY <1>2
    <3>5. cursor'[w] <= Len(stream) /\ seen'[w] = SubSeq(stream, 1, cursor'[w])
      BY <1>2, <1>4, <3>1, <3>2
    <3>6. pc'[w] = "done" => closed[Of[w]] /\ seen'[w] = stream
      BY <3>1, <3>3, <3>4, <3>5
    <3>7. pc'[w] # "sleeping"
      BY <3>1
    <3>8. QED
      BY <3>5, <3>6, <3>7
  <2>3. CASE Sleep(w)
    <3>1. SubSeq(stream, 1, Len(stream)) = stream
      <4> HIDE DEF stream
      <4>1. QED
        BY <1>2
    <3>2. /\ cursor'[w] = Len(stream) /\ seen'[w] = seen[w]
          /\ cursor[w] = Len(stream)
          /\ awaits'[w] = waiting[Of[w]]
          /\ pc'[w] = IF closed[Of[w]] THEN "done" ELSE "sleeping"
      BY <1>2, <2>3 DEF Sleep
    <3>3. QED
      BY <1>2, <1>4, <3>1, <3>2
  <2>4. QED
    BY <2>1, <2>2, <2>3 DEF WatchStep
<1>7. WatchersReplay' /\ CursorsInStream'
  <2> SUFFICES ASSUME NEW v \in Watcher
               PROVE  /\ seen'[v] = SubSeq(buffer[Of[v]], 1, cursor'[v])
                      /\ pc'[v] = "done" =>
                           closed[Of[v]] /\ seen'[v] = buffer[Of[v]]
                      /\ cursor'[v] <= Len(buffer[Of[v]])
    BY <1>1 DEF WatchersReplay, CursorsInStream
  <2>1. CASE v = w
    BY <1>6, <2>1
  <2>2. CASE v # w
    BY <1>5, <2>2 DEF WatchersReplay, CursorsInStream
  <2>3. QED
    BY <2>1, <2>2
<1>8. SleepersAwait'
  BY <1>1, <1>5, <1>6 DEF SleepersAwait
<1>9. QED
  BY <1>3, <1>7, <1>8

LEMMA IInvStep ==
  ASSUME IInv, [Next]_vars
  PROVE  IInv'
<1>1. TypeOK /\ TypeOK'
  BY TypeOKStep DEF IInv
<1>2. CASE UNCHANGED vars
  BY <1>2 DEF vars, IInv, TypeOK, TerminalIsLast, WatchersReplay,
             CursorsInStream, SleepersAwait
<1>3. QED
  BY <1>1, <1>2, NextStep, IInvStreamStep, IInvWatchStep

LEMMA Invariance == Spec => []IInv
  BY IInvInit, IInvStep, PTL DEF Spec

\* However task, cancel and idle timer race, a stream has at most one terminal
\* and ends with it, for any number of executions and items.
THEOREM OneTerminal == Spec => []TerminalIsLast
<1>1. IInv => TerminalIsLast
  BY DEF IInv
<1>2. QED
  BY <1>1, Invariance, PTL

\* Whenever it attached, a watch has seen a prefix of the stream, and all of
\* it once its iteration has ended.
THEOREM Replay == Spec => []WatchersReplay
<1>1. IInv => WatchersReplay
  BY DEF IInv
<1>2. QED
  BY <1>1, Invariance, PTL

\* No watch sleeps on an unresolved promise with an event left to read.
THEOREM Wakeups == Spec => []NoLostWakeup
<1>1. ASSUME IInv PROVE NoLostWakeup
  <2> SUFFICES ASSUME NEW w \in Watcher, pc[w] = "sleeping",
                      cursor[w] < Len(buffer[Of[w]]) \/ closed[Of[w]]
               PROVE  awaits[w] < waiting[Of[w]]
    BY DEF NoLostWakeup, Resolved
  <2>1. /\ Of[w] \in Execution /\ waiting[Of[w]] \in Nat /\ awaits[w] \in Nat
        /\ cursor[w] \in Nat
    BY <1>1, ExecutionsAssumption DEF IInv, TypeOK, ExecutionsAssumption
  <2>2. awaits[w] <= waiting[Of[w]] /\ awaits[w] # waiting[Of[w]]
    BY <1>1, <2>1 DEF IInv, SleepersAwait
  <2>3. QED
    BY <2>1, <2>2
<1>2. QED
  BY <1>1, Invariance, PTL

-----------------------------------------------------------------------------
(* The runtime implements ExecutionStream.                                 *)

LEMMA PublishStep ==
  ASSUME IInv, TypeOK', UNCHANGED watchVars, StreamStep
  PROVE  [Stream!Next]_Stream!vars
<1> USE DEF IInv
<1>1. UNCHANGED <<Phase, seen>>
  BY DEF watchVars, Phase
<1>2. /\ buffer \in [Execution -> Seq(Event)]
      /\ buffer' \in [Execution -> Seq(Event)]
  BY DEF TypeOK
<1>3. PICK e \in Execution : /\ Kept(e) \/ Extended(e)
                             /\ \A f \in Execution \ {e} : Kept(f)
  BY DEF StreamStep
<1>4. CASE Kept(e)
  <2>1. buffer' = buffer
    BY <1>2, <1>3, <1>4 DEF Kept
  <2>2. QED
    BY <1>1, <2>1 DEF Stream!vars
<1>5. CASE Extended(e)
  <2>1. ~Stream!Over(buffer[e])
    BY <1>5 DEF Extended, TerminalIsLast, Stream!Over, Stream!IsTerminal,
                IsTerminal, Terminal
  <2>2. /\ Len(buffer'[e]) > Len(buffer[e])
        /\ \A i \in 1..Len(buffer[e]) : buffer'[e][i] = buffer[e][i]
    BY <1>5 DEF Extended
  <2>3. \A i \in 1..Len(buffer'[e]) :
          Stream!IsTerminal(buffer'[e][i]) => i = Len(buffer'[e])
    <3>1. TerminalIsLast'
      BY IInvStreamStep
    <3>2. QED
      BY <3>1 DEF TerminalIsLast, Stream!IsTerminal, IsTerminal, Terminal
  <2>4. buffer' = [buffer EXCEPT ![e] = buffer'[e]]
    BY <1>2, <1>3 DEF Kept
  <2>5. Stream!Publish(e)
    BY <1>1, <2>1, <2>2, <2>3, <2>4 DEF Stream!Publish
  <2>6. QED
    BY <2>5 DEF Stream!Next
<1>6. QED
  BY <1>3, <1>4, <1>5

LEMMA ConsumeStep ==
  ASSUME IInv, TypeOK', UNCHANGED execVars, NEW w \in Watcher, WatchStep(w)
  PROVE  [Stream!Next]_Stream!vars
<1> USE DEF IInv
<1>1. /\ UNCHANGED buffer
      /\ pc \in [Watcher -> WatchPc] /\ pc' \in [Watcher -> WatchPc]
      /\ cursor \in [Watcher -> Nat] /\ seen \in [Watcher -> Seq(Event)]
      /\ buffer[Of[w]] \in Seq(Event)
  BY ExecutionsAssumption DEF execVars, TypeOK, ExecutionsAssumption
<1>2. CASE Attach(w)
  <2>1. Phase[w] = "unopened" /\ Phase' = [Phase EXCEPT ![w] = "open"]
    BY <1>1, <1>2 DEF Attach, Phase
  <2>2. Stream!Open(w)
    BY <1>1, <1>2, <2>1 DEF Stream!Open, Attach
  <2>3. QED
    BY <2>2 DEF Stream!Next
<1>3. CASE Deliver(w)
  <2> DEFINE event == buffer[Of[w]][cursor[w] + 1]
  <2>1. Len(seen[w]) = cursor[w] /\ cursor[w] \in Nat
    <3>1. cursor[w] \in Nat /\ cursor[w] <= Len(buffer[Of[w]])
      BY <1>1 DEF CursorsInStream
    <3>2. seen[w] = SubSeq(buffer[Of[w]], 1, cursor[w])
      BY DEF WatchersReplay
    <3>3. QED
      BY <1>1, <3>1, <3>2
  <2>2. Len(seen[w]) + 1 = cursor[w] + 1 /\ cursor[w] + 1 <= Len(buffer[Of[w]])
    BY <1>1, <1>3, <2>1 DEF Deliver
  <2>3. Phase[w] = "open"
    BY <1>3 DEF Deliver, Phase
  <2>4. Phase' = [Phase EXCEPT ![w] =
                    IF Stream!IsTerminal(event) THEN "closed" ELSE @]
    <3>1. Stream!IsTerminal(event) <=> IsTerminal(event)
      BY DEF Stream!IsTerminal, IsTerminal, Terminal
    <3>2. pc[w] = "reading"
          /\ pc' = [pc EXCEPT ![w] = IF IsTerminal(event) THEN "done" ELSE @]
      BY <1>3 DEF Deliver
    <3>3. CASE IsTerminal(event)
      BY <1>1, <3>1, <3>2, <3>3 DEF Phase
    <3>4. CASE ~IsTerminal(event)
      BY <1>1, <3>1, <3>2, <3>4 DEF Phase
    <3>5. QED
      BY <3>3, <3>4
  <2>5. seen' = [seen EXCEPT ![w] = Append(@, event)]
    BY <1>3 DEF Deliver
  <2>6. Stream!Read(w)
    BY <1>1, <2>2, <2>3, <2>4, <2>5 DEF Stream!Read
  <2>7. QED
    BY <2>6 DEF Stream!Next
<1>4. CASE Sleep(w) \/ Wake(w) \/ Detach(w)
  <2>1. /\ pc[w] \in {"reading", "sleeping"}
        /\ \E to \in {"reading", "sleeping", "done", "gone"} :
             pc' = [pc EXCEPT ![w] = to]
        /\ UNCHANGED seen
    BY <1>4 DEF Sleep, Wake, Detach
  <2>2. PICK to \in {"reading", "sleeping", "done", "gone"} :
          pc' = [pc EXCEPT ![w] = to]
    BY <2>1
  <2>3. CASE to \in {"reading", "sleeping"}
    <3>1. Phase' = Phase
      BY <1>1, <2>1, <2>2, <2>3 DEF Phase
    <3>2. QED
      BY <1>1, <2>1, <3>1 DEF Stream!vars
  <2>4. CASE to \in {"done", "gone"}
    <3>1. Phase[w] = "open" /\ Phase' = [Phase EXCEPT ![w] = "closed"]
      BY <1>1, <2>1, <2>2, <2>4 DEF Phase
    <3>2. Stream!Leave(w)
      BY <1>1, <2>1, <3>1 DEF Stream!Leave
    <3>3. QED
      BY <3>2 DEF Stream!Next
  <2>5. QED
    BY <2>3, <2>4
<1>5. QED
  BY <1>2, <1>3, <1>4 DEF WatchStep

\* Every behaviour of the runtime is one of the stream its interface promises.
THEOREM Implementation == Spec => ImplementsStream
<1>1. Init => Stream!Init
  BY DEF Init, Stream!Init, Phase
<1>2. ASSUME IInv, [Next]_vars
      PROVE  [Stream!Next]_Stream!vars
  <2>1. TypeOK /\ TypeOK'
    BY <1>2, TypeOKStep DEF IInv
  <2>2. CASE UNCHANGED vars
    BY <2>2 DEF vars, Stream!vars, Phase
  <2>3. QED
    BY <1>2, <2>1, <2>2, NextStep, PublishStep, ConsumeStep
<1>3. QED
  BY <1>1, <1>2, Invariance, PTL DEF Spec, ImplementsStream, Stream!Spec

-----------------------------------------------------------------------------
(* The output.  FlattenSeq is a recursive function: what it computes is    *)
(* shown by induction on the length, with the least counterexample.        *)

\* A set of naturals that is not empty has a least element.
LEMMA LeastNatural ==
  ASSUME NEW T, T \subseteq Nat, T # {}
  PROVE  \E x \in T : \A y \in T : x <= y
<1> DEFINE R == OpToRel(<, Nat)
<1>1. IsWellFoundedOn(R, Nat)
  BY NatLessThanWellFounded
<1>2. \A x, y \in Nat : <<x, y>> \in R <=> x < y
  BY DEF OpToRel
<1> HIDE DEF R
<1>3. PICK x \in T : \A y \in T : ~(<<y, x>> \in R)
  BY <1>1, WFMin
<1>4. ASSUME NEW y \in T
      PROVE  x <= y
  <2>1. x \in Nat /\ y \in Nat
    OBVIOUS
  <2>2. ~(y < x)
    BY <1>2, <1>3, <2>1
  <2>3. QED
    BY <2>1, <2>2
<1>5. QED
  BY <1>4

\* Flattens(g, s): g has the flattened beginnings of s.
Flattens(g, s) ==
  g = [i \in 1..Len(s) |-> IF i = 1 THEN s[i] ELSE g[i - 1] \o s[i]]

LEMMA FlattensAt ==
  ASSUME NEW s, NEW g, Flattens(g, s), NEW i \in 1..Len(s)
  PROVE  g[i] = IF i = 1 THEN s[i] ELSE g[i - 1] \o s[i]
<1> DEFINE b == [j \in 1..Len(s) |-> IF j = 1 THEN s[j] ELSE g[j - 1] \o s[j]]
<1>1. g = b
  BY DEF Flattens
<1>2. b[i] = IF i = 1 THEN s[i] ELSE g[i - 1] \o s[i]
  OBVIOUS
<1> HIDE DEF b
<1>3. QED
  BY <1>1, <1>2

\* Sequences that begin alike have flattened beginnings that are alike.
LEMMA FlattensAlike ==
  ASSUME NEW s, NEW t, NEW n \in Nat, Len(s) = n,
         Len(t) \in Nat, n <= Len(t), \A i \in 1..n : s[i] = t[i],
         NEW g, Flattens(g, s), NEW h, Flattens(h, t), NEW j \in 1..n
  PROVE  g[j] = h[j]
<1> DEFINE T == {i \in 1..n : g[i] # h[i]}
<1> SUFFICES ASSUME T # {} PROVE FALSE
  OBVIOUS
<1>1. T \subseteq Nat
  OBVIOUS
<1>2. PICK k \in T : \A i \in T : k <= i
  <2> HIDE DEF T
  <2>1. QED
    BY <1>1, LeastNatural
<1>3. /\ k \in 1..n /\ k \in 1..Len(s) /\ k \in 1..Len(t)
      /\ g[k] = IF k = 1 THEN s[k] ELSE g[k - 1] \o s[k]
      /\ h[k] = IF k = 1 THEN t[k] ELSE h[k - 1] \o t[k]
  BY FlattensAt
<1>4. k # 1 => g[k - 1] = h[k - 1]
  BY <1>2, <1>3
<1>5. QED
  BY <1>3, <1>4

\* Every sequence of sequences has them.
LEMMA FlattensExist ==
  ASSUME NEW S
  PROVE  \A s \in Seq(Seq(S)) : \E g : /\ Flattens(g, s)
                                       /\ \A i \in 1..Len(s) : g[i] \in Seq(S)
<1> DEFINE Has(s) == \E g : /\ Flattens(g, s)
                            /\ \A i \in 1..Len(s) : g[i] \in Seq(S)
           T == {n \in Nat : \E s \in Seq(Seq(S)) : Len(s) = n /\ ~Has(s)}
<1> SUFFICES ASSUME T # {} PROVE FALSE
  <2>1. ASSUME NEW s \in Seq(Seq(S)), ~Has(s)
        PROVE  Len(s) \in T
    BY <2>1
  <2>2. QED
    BY <2>1
<1>1. PICK n \in T : \A m \in T : n <= m
  <2>1. T \subseteq Nat
    OBVIOUS
  <2> HIDE DEF T
  <2>2. QED
    BY <2>1, LeastNatural
<1>2. PICK s \in Seq(Seq(S)) : Len(s) = n /\ ~Has(s)
  OBVIOUS
<1>3. n # 0
  <2>1. ASSUME n = 0 PROVE Flattens([i \in 1..Len(s) |-> s[i]], s)
    BY <1>2, <2>1 DEF Flattens
  <2>2. n = 0 => \A i \in 1..Len(s) : [j \in 1..Len(s) |-> s[j]][i] \in Seq(S)
    BY <1>2
  <2>3. QED
    BY <1>2, <2>1, <2>2
<1> DEFINE r == SubSeq(s, 1, n - 1)
<1>4. /\ n \in Nat /\ r \in Seq(Seq(S)) /\ Len(r) = n - 1
      /\ \A i \in 1..n - 1 : r[i] = s[i]
      /\ \A i \in 1..n : s[i] \in Seq(S)
  BY <1>2, <1>3
<1>5. PICK g : Flattens(g, r) /\ \A i \in 1..Len(r) : g[i] \in Seq(S)
  <2>1. n - 1 \notin T
    BY <1>1, <1>4
  <2>2. n - 1 \in Nat
    BY <1>3, <1>4
  <2> HIDE DEF r
  <2>3. Has(r)
    BY <1>4, <2>1, <2>2
  <2>4. QED
    BY <2>3
<1> HIDE DEF r
<1> DEFINE h == [i \in 1..n |-> IF i < n THEN g[i]
                               ELSE IF n = 1 THEN s[n] ELSE g[n - 1] \o s[n]]
<1>6. ASSUME NEW i \in 1..n
      PROVE  /\ h[i] = IF i = 1 THEN s[i] ELSE h[i - 1] \o s[i]
             /\ h[i] \in Seq(S)
  <2>1. CASE i < n
    <3>1. i \in 1..Len(r) /\ h[i] = g[i] /\ (i # 1 => h[i - 1] = g[i - 1])
      BY <1>4, <2>1
    <3>2. g[i] = IF i = 1 THEN r[i] ELSE g[i - 1] \o r[i]
      BY <1>5, <3>1, FlattensAt
    <3>3. QED
      BY <1>4, <1>5, <3>1, <3>2
  <2>2. CASE i = n
    <3>1. n # 1 => g[n - 1] \in Seq(S) /\ h[n - 1] = g[n - 1]
      BY <1>3, <1>4, <1>5
    <3>2. h[n] = IF n = 1 THEN s[n] ELSE g[n - 1] \o s[n]
      BY <1>3, <1>4
    <3>3. s[n] \in Seq(S)
      BY <1>3, <1>4
    <3> HIDE DEF h
    <3>4. QED
      BY <2>2, <3>1, <3>2, <3>3
  <2>3. QED
    BY <1>4, <2>1, <2>2
<1>7. Flattens(h, s)
  <2>1. h = [i \in 1..n |-> h[i]]
    OBVIOUS
  <2> HIDE DEF h
  <2>2. [i \in 1..n |-> h[i]] =
          [i \in 1..n |-> IF i = 1 THEN s[i] ELSE h[i - 1] \o s[i]]
    BY <1>6
  <2>3. QED
    BY <1>2, <2>1, <2>2 DEF Flattens
<1> HIDE DEF h
<1>8. QED
  BY <1>2, <1>6, <1>7

LEMMA FlattenChooses ==
  ASSUME NEW S, NEW s \in Seq(Seq(S)), s # <<>>
  PROVE  \E g : Flattens(g, s) /\ FlattenSeq(s) = g[Len(s)]
<1> DEFINE c == CHOOSE g : Flattens(g, s)
<1>1. Flattens(c, s)
  <2>1. \E g : Flattens(g, s)
    BY FlattensExist
  <2>2. QED
    BY <2>1
<1>2. Len(s) # 0
  OBVIOUS
<1>3. FlattenSeq(s) = c[Len(s)]
  BY <1>2 DEF FlattenSeq, Flattens
<1>4. QED
  BY <1>1, <1>3

\* One more sequence comes behind what the others give.
LEMMA FlattenAppend ==
  ASSUME NEW S, NEW s \in Seq(Seq(S)), NEW x \in Seq(S)
  PROVE  /\ FlattenSeq(s) \in Seq(S)
         /\ FlattenSeq(Append(s, x)) = FlattenSeq(s) \o x
<1> DEFINE t == Append(s, x)
<1>1. /\ t \in Seq(Seq(S)) /\ t # <<>> /\ Len(t) = Len(s) + 1
      /\ t[Len(t)] = x /\ \A i \in 1..Len(s) : s[i] = t[i]
      /\ Len(s) \in Nat
  <2>1. /\ t \in Seq(Seq(S)) /\ Len(t) = Len(s) + 1 /\ Len(s) \in Nat
        /\ t[Len(s) + 1] = x /\ \A i \in 1..Len(s) : t[i] = s[i]
    BY AppendProperties
  <2> HIDE DEF t
  <2>2. t # <<>>
    BY <2>1
  <2>3. QED
    BY <2>1, <2>2
<1> HIDE DEF t
<1>2. PICK h : Flattens(h, t) /\ FlattenSeq(t) = h[Len(t)]
  BY <1>1, FlattenChooses
<1>3. h[Len(t)] = IF Len(t) = 1 THEN x ELSE h[Len(s)] \o x
  <2>1. Len(t) \in 1..Len(t) /\ Len(t) - 1 = Len(s)
    BY <1>1
  <2>2. QED
    BY <1>1, <1>2, <2>1, FlattensAt
<1>4. CASE s = <<>>
  <2>1. FlattenSeq(s) = <<>>
    BY <1>4 DEF FlattenSeq
  <2>2. Len(t) = 1 /\ <<>> \o x = x
    BY <1>1, <1>4
  <2>3. QED
    BY <1>2, <1>3, <2>1, <2>2 DEF t
<1>5. CASE s # <<>>
  <2>1. PICK g : Flattens(g, s) /\ FlattenSeq(s) = g[Len(s)]
    BY <1>5, FlattenChooses
  <2>2. PICK f : Flattens(f, s) /\ \A i \in 1..Len(s) : f[i] \in Seq(S)
    BY FlattensExist
  <2>3. Len(s) \in 1..Len(s)
    BY <1>5
  <2>4. g[Len(s)] = f[Len(s)]
    BY <1>1, <2>1, <2>2, <2>3, FlattensAlike
  <2>5. g[Len(s)] = h[Len(s)]
    <3>1. /\ Len(t) \in Nat /\ Len(s) <= Len(t)
          /\ \A i \in 1..Len(s) : s[i] = t[i]
      BY <1>1
    <3> DEFINE n == Len(s)
    <3>2. /\ n \in Nat /\ n \in 1..n /\ Len(s) = n
          /\ n <= Len(t) /\ \A i \in 1..n : s[i] = t[i]
      BY <1>1, <2>3, <3>1
    <3> HIDE DEF n
    <3>3. g[n] = h[n]
      BY <1>2, <2>1, <3>1, <3>2, FlattensAlike
    <3>4. QED
      BY <3>3 DEF n
  <2>6. Len(t) # 1
    BY <1>1, <2>3
  <2>7. QED
    BY <1>2, <1>3, <2>1, <2>2, <2>3, <2>4, <2>5, <2>6 DEF t
<1>6. QED
  BY <1>4, <1>5

\* What a stream delivers.
Items(stream) == [i \in DOMAIN stream |-> stream[i].items]
Flat(stream) == FlattenSeq(Items(stream))

LEMMA FlatAppend ==
  ASSUME NEW stream \in Seq(Event), NEW event \in Event
  PROVE  /\ Flat(stream) \in Seq(Nat)
         /\ Flat(Append(stream, event)) = Flat(stream) \o event.items
<1>1. Items(stream) \in Seq(Seq(Nat)) /\ event.items \in Seq(Nat)
  <2>1. \A e \in Event : e.items \in Seq(Nat)
    BY DEF Event
  <2>2. /\ \A i \in 1..Len(stream) : stream[i] \in Event
        /\ DOMAIN stream = 1..Len(stream) /\ Len(stream) \in Nat
    OBVIOUS
  <2>3. Items(stream) \in [1..Len(stream) -> Seq(Nat)]
    BY <2>1, <2>2 DEF Items
  <2>4. QED
    BY <2>1, <2>2, <2>3
<1>2. Items(Append(stream, event)) = Append(Items(stream), event.items)
  BY DEF Items
<1>3. QED
  BY <1>1, <1>2, FlattenAppend DEF Flat

\* The held lines come behind the stream, as the chunk that has them.
LEMMA FlatChunk ==
  ASSUME NEW stream \in Seq(Event), NEW lines \in Seq(Nat)
  PROVE  /\ stream \o Chunk(lines) \in Seq(Event)
         /\ Flat(stream \o Chunk(lines)) = Flat(stream) \o lines
<1>1. CASE lines = <<>>
  <2>1. stream \o Chunk(lines) = stream
    BY <1>1 DEF Chunk
  <2>2. Flat(stream) \o lines = Flat(stream)
    <3>1. Flat(stream) \in Seq(Nat)
      BY FlatAppend, EndedIsEvent DEF Terminal
    <3>2. QED
      BY <1>1, <3>1
  <2>3. QED
    BY <2>1, <2>2
<1>2. CASE lines # <<>>
  <2> DEFINE event == [type |-> "log", items |-> lines]
  <2>1. event \in Event /\ Chunk(lines) = <<event>> /\ event.items = lines
    BY <1>2 DEF Event, Chunk
  <2> HIDE DEF event
  <2>2. stream \o Chunk(lines) = Append(stream, event)
    BY <2>1
  <2>3. Append(stream, event) \in Seq(Event)
    BY <2>1
  <2>4. Flat(Append(stream, event)) = Flat(stream) \o event.items
    BY <2>1, FlatAppend
  <2>5. QED
    BY <2>1, <2>2, <2>3, <2>4
<1>3. QED
  BY <1>1, <1>2

LEMMA FlatChunkAndEvent ==
  ASSUME NEW stream \in Seq(Event), NEW lines \in Seq(Nat), NEW event \in Event
  PROVE  /\ stream \o Append(Chunk(lines), event) \in Seq(Event)
         /\ Flat(stream \o Append(Chunk(lines), event)) =
              (Flat(stream) \o lines) \o event.items
<1>1. stream \o Append(Chunk(lines), event) =
        Append(stream \o Chunk(lines), event)
  BY DEF Chunk
<1> DEFINE most == stream \o Chunk(lines)
<1>2. most \in Seq(Event) /\ Flat(most) = Flat(stream) \o lines
  BY FlatChunk
<1> HIDE DEF most
<1>3. Append(most, event) \in Seq(Event)
  BY <1>2
<1>4. Flat(Append(most, event)) = Flat(most) \o event.items
  BY <1>2, FlatAppend
<1>5. QED
  BY <1>1, <1>2, <1>3, <1>4 DEF most

\* The output up to item n.
Upto(n) == [i \in 1..n |-> i]

LEMMA UptoFacts ==
  ASSUME NEW n \in Nat
  PROVE  /\ Upto(n) \in Seq(Nat) /\ Len(Upto(n)) = n
         /\ \A i \in 1..n : Upto(n)[i] = i
         /\ Append(Upto(n), n + 1) = Upto(n + 1)
<1>1. Upto(n) \in [1..n -> Nat]
  BY DEF Upto
<1>2. Upto(n) \in Seq(Nat) /\ Len(Upto(n)) = n
  BY <1>1
<1>3. Append(Upto(n), n + 1) = Upto(n + 1)
  BY DEF Upto
<1>4. QED
  BY <1>2, <1>3 DEF Upto

LEMMA UptoNext ==
  ASSUME NEW n \in Nat
  PROVE  /\ Upto(n) \o <<>> = Upto(n) /\ Upto(n) \o <<n + 1>> = Upto(n + 1)
         /\ Upto(n + 1) \o <<>> = Upto(n + 1) /\ n + 1 \in 0..n + 1
<1> DEFINE m == n + 1
<1>1. m \in Nat /\ m \in 0..m
  OBVIOUS
<1>2. /\ Upto(n) \in Seq(Nat) /\ Upto(m) \in Seq(Nat)
      /\ Append(Upto(n), m) = Upto(m)
  <2> HIDE DEF m
  <2>1. Upto(n) \in Seq(Nat) /\ Upto(m) \in Seq(Nat)
    BY <1>1, UptoFacts
  <2>2. Append(Upto(n), n + 1) = Upto(n + 1)
    BY UptoFacts
  <2>3. QED
    BY <2>1, <2>2 DEF m
<1> HIDE DEF m
<1>3. Upto(n) \o <<m>> = Append(Upto(n), m)
  BY <1>1, <1>2, AppendIsConcat
<1>4. Upto(n) \o <<>> = Upto(n) /\ Upto(m) \o <<>> = Upto(m)
  BY <1>2
<1>5. QED
  BY <1>1, <1>2, <1>3, <1>4 DEF m

\* What is sent first of the output up to n is the output up to somewhere.
LEMMA UptoSplit ==
  ASSUME NEW n \in Nat, NEW s \in Seq(Nat), NEW t \in Seq(Nat),
         s \o t = Upto(n)
  PROVE  Len(s) \in 0..n /\ s = Upto(Len(s))
<1>1. Len(s) \in Nat /\ Len(t) \in Nat /\ Len(s \o t) = Len(s) + Len(t)
  OBVIOUS
<1>2. Len(s) \in 0..n
  BY <1>1, UptoFacts
<1>3. ASSUME NEW i \in 1..Len(s)
      PROVE  s[i] = i
  <2>1. (s \o t)[i] = s[i] /\ i \in 1..n
    BY <1>1, <1>2
  <2>2. QED
    BY <2>1, UptoFacts
<1>4. s = [i \in 1..Len(s) |-> s[i]]
  OBVIOUS
<1>5. QED
  BY <1>2, <1>3, <1>4 DEF Upto

LEMMA UptoPrefix ==
  ASSUME NEW n \in Nat, NEW k \in 0..n
  PROVE  IsPrefix(Upto(k), Upto(n))
<1>1. k \in Nat /\ k <= n
  OBVIOUS
<1>2. /\ Upto(k) \in Seq(Nat) /\ Len(Upto(k)) = k
      /\ Upto(n) \in Seq(Nat) /\ Len(Upto(n)) = n
  BY <1>1, UptoFacts
<1>3. \A i \in 1..k : Upto(n)[i] = Upto(k)[i]
  BY <1>1 DEF Upto
<1>4. SubSeq(Upto(k), 1, k) = SubSeq(Upto(n), 1, k)
  BY <1>1, <1>2, <1>3
<1>5. QED
  BY <1>1, <1>2, <1>4 DEF IsPrefix

\* The stream is the output up to somewhere; while it is open, what is held
\* is the rest.
WellSent(e) ==
  /\ aborted[e] => closed[e]
  /\ \E k \in 0..emits[e] : Flat(buffer[e]) = Upto(k)
  /\ ~closed[e] => Flat(buffer[e]) \o held[e] = Upto(emits[e])

OutputInv == TypeOK /\ \A e \in Execution : WellSent(e)

\* Nothing that happens around a closed stream changes what it has.
LEMMA ClosedStaysSent ==
  ASSUME TypeOK, NEW e \in Execution, WellSent(e), closed[e],
         closed'[e] = closed[e], buffer'[e] = buffer[e],
         emits'[e] \in {emits[e], emits[e] + 1}
  PROVE  WellSent(e)'
<1>1. PICK k \in 0..emits[e] : Flat(buffer[e]) = Upto(k)
  BY DEF WellSent
<1>2. k \in 0..emits'[e]
  BY DEF TypeOK
<1>3. QED
  BY <1>1, <1>2 DEF WellSent

\* The sink of an open stream passes the held lines and one event on.
LEMMA SinkSends ==
  ASSUME TypeOK, NEW e \in Execution, WellSent(e), ~closed[e],
         NEW event \in Event, Sink(e, Append(Chunk(held[e]), event))
  PROVE  /\ closed'[e] = IsTerminal(event)
         /\ Flat(buffer'[e]) = Upto(emits[e]) \o event.items
<1> DEFINE events == Append(Chunk(held[e]), event)
<1>1. /\ ~aborted[e] /\ Flat(buffer[e]) \o held[e] = Upto(emits[e])
      /\ buffer \in [Execution -> Seq(Event)] /\ held[e] \in Seq(Nat)
      /\ closed \in [Execution -> BOOLEAN]
  BY DEF WellSent, TypeOK
<1>2. events # <<>> /\ events[Len(events)] = event
  BY DEF Chunk
<1>3. /\ buffer' = [buffer EXCEPT ![e] = @ \o events]
      /\ closed' = [closed EXCEPT ![e] = IsTerminal(events[Len(events)])]
  BY <1>1, <1>2 DEF Sink, Broadcast
<1> HIDE DEF events
<1>4. buffer'[e] = buffer[e] \o events /\ closed'[e] = IsTerminal(event)
  BY <1>1, <1>2, <1>3
<1>5. Flat(buffer[e] \o events) = (Flat(buffer[e]) \o held[e]) \o event.items
  BY <1>1, FlatChunkAndEvent DEF events
<1>6. QED
  BY <1>1, <1>4, <1>5

\* A terminal alone, as cancel and the idle timer send it, adds no output.
LEMMA EndingSends ==
  ASSUME TypeOK, NEW e \in Execution, WellSent(e), ~closed[e],
         NEW type \in Terminal, Broadcast(e, <<Ended(type)>>)
  PROVE  closed'[e] /\ Flat(buffer'[e]) = Flat(buffer[e])
<1> DEFINE event == Ended(type)
<1>1. /\ buffer \in [Execution -> Seq(Event)]
      /\ closed \in [Execution -> BOOLEAN]
  BY DEF TypeOK
<1>2. event \in Event /\ IsTerminal(event) /\ event.items = <<>>
  BY EndedIsEvent DEF Ended, IsTerminal
<1> HIDE DEF event
<1>3. /\ <<event>> # <<>> /\ Len(<<event>>) = 1 /\ <<event>>[1] = event
  OBVIOUS
<1>4. /\ buffer' = [buffer EXCEPT ![e] = @ \o <<event>>]
      /\ closed' = [closed EXCEPT ![e] = IsTerminal(event)]
  BY <1>3 DEF Broadcast, event
<1>5. buffer'[e] = Append(buffer[e], event) /\ closed'[e]
  BY <1>1, <1>2, <1>4
<1>6. /\ Flat(buffer[e]) \in Seq(Nat)
      /\ Flat(Append(buffer[e], event)) = Flat(buffer[e]) \o <<>>
  BY <1>1, <1>2, FlatAppend
<1>7. QED
  BY <1>5, <1>6

\* A settling task ends its stream with everything it has emitted.
LEMMA SettleSends ==
  ASSUME TypeOK, NEW e \in Execution, WellSent(e), ~closed[e],
         NEW type \in Terminal, Sink(e, Append(Chunk(held[e]), Ended(type)))
  PROVE  closed'[e] /\ Flat(buffer'[e]) = Upto(emits[e])
<1> DEFINE event == Ended(type)
<1>1. event \in Event /\ IsTerminal(event) /\ event.items = <<>>
  BY EndedIsEvent DEF Ended, IsTerminal
<1> HIDE DEF event
<1>2. closed'[e] /\ Flat(buffer'[e]) = Upto(emits[e]) \o <<>>
  BY <1>1, SinkSends DEF event
<1>3. Upto(emits[e]) \o <<>> = Upto(emits[e])
  BY UptoNext DEF TypeOK
<1>4. QED
  BY <1>2, <1>3

LEMMA EmitLogSends ==
  ASSUME TypeOK, NEW e \in Execution, WellSent(e), ~closed[e], EmitLog(e)
  PROVE  WellSent(e)'
<1> DEFINE lines == Append(held[e], emits[e] + 1)
           n == emits[e]
<1>1. /\ ~aborted[e] /\ Flat(buffer[e]) \o held[e] = Upto(n)
      /\ buffer[e] \in Seq(Event) /\ held[e] \in Seq(Nat) /\ n \in Nat
      /\ emits'[e] = n + 1 /\ UNCHANGED aborted
  BY DEF WellSent, TypeOK, EmitLog
<1>2. Flat(buffer[e]) \in Seq(Nat)
  BY <1>1, EndedIsEvent, FlatAppend DEF Terminal
<1>3. lines \in Seq(Nat) /\ Flat(buffer[e]) \o lines = Upto(n + 1)
  <2> DEFINE s == Flat(buffer[e])
             t == held[e]
             m == n + 1
  <2>1. s \in Seq(Nat) /\ t \in Seq(Nat) /\ m \in Nat
    BY <1>1, <1>2
  <2>2. s \o t = Upto(n) /\ Append(Upto(n), m) = Upto(m)
    BY <1>1, UptoFacts
  <2> HIDE DEF s, t, m
  <2>3. s \o Append(t, m) = Append(s \o t, m) /\ Append(t, m) \in Seq(Nat)
    BY <2>1
  <2>4. QED
    BY <2>2, <2>3 DEF s, t, m
<1>4. CASE held'[e] = lines /\ UNCHANGED <<buffer, closed>>
  <2>1. PICK k \in 0..n : Flat(buffer[e]) = Upto(k)
    BY DEF WellSent
  <2>2. k \in 0..n + 1
    BY <1>1
  <2>3. QED
    BY <1>1, <1>3, <1>4, <2>1, <2>2 DEF WellSent
<1>5. CASE held' = [held EXCEPT ![e] = <<>>] /\ Sink(e, Chunk(lines))
  <2>1. lines # <<>> /\ Chunk(lines) # <<>>
    BY <1>1 DEF Chunk
  <2>2. buffer'[e] = buffer[e] \o Chunk(lines)
    BY <1>1, <1>5, <2>1 DEF Sink, Broadcast, TypeOK
  <2>3. Flat(buffer'[e]) = Upto(n + 1)
    <3> HIDE DEF lines
    <3>1. QED
      BY <1>1, <1>3, <2>2, FlatChunk
  <2>4. Upto(n + 1) \o <<>> = Upto(n + 1) /\ n + 1 \in 0..n + 1
    BY <1>1, UptoNext
  <2>5. held'[e] = <<>>
    BY <1>5 DEF TypeOK
  <2>6. QED
    BY <1>1, <2>3, <2>4, <2>5 DEF WellSent
<1>6. QED
  BY <1>4, <1>5 DEF EmitLog, TypeOK

LEMMA EmitStepSends ==
  ASSUME TypeOK, NEW e \in Execution, WellSent(e), ~closed[e], EmitStep(e)
  PROVE  WellSent(e)'
<1> DEFINE n == emits[e]
           event == [type |-> "step", items |-> <<n + 1>>]
<1>1. /\ ~aborted[e] /\ n \in Nat
      /\ emits'[e] = n + 1 /\ UNCHANGED aborted /\ held'[e] = <<>>
  BY DEF WellSent, TypeOK, EmitStep
<1>2. event \in Event /\ event.items = <<n + 1>>
  BY <1>1 DEF Event
<1>3. Sink(e, Append(Chunk(held[e]), event))
  BY DEF EmitStep
<1> HIDE DEF event
<1>4. Flat(buffer'[e]) = Upto(n) \o <<n + 1>>
  BY <1>2, <1>3, SinkSends
<1>5. /\ Upto(n) \o <<n + 1>> = Upto(n + 1)
      /\ Upto(n + 1) \o <<>> = Upto(n + 1) /\ n + 1 \in 0..n + 1
  BY <1>1, UptoNext
<1>6. QED
  BY <1>1, <1>4, <1>5 DEF WellSent

\* What closes a stream leaves what it has delivered a beginning.
LEMMA ClosingSends ==
  ASSUME TypeOK, NEW e \in Execution, WellSent(e), ~closed[e],
         closed'[e], emits'[e] = emits[e],
         \/ Flat(buffer'[e]) = Upto(emits[e])
         \/ Flat(buffer'[e]) = Flat(buffer[e])
  PROVE  WellSent(e)'
<1>1. emits[e] \in Nat
  BY DEF TypeOK
<1>2. \E k \in 0..emits[e] : Flat(buffer'[e]) = Upto(k)
  <2>1. emits[e] \in 0..emits[e]
    BY <1>1
  <2>2. \E k \in 0..emits[e] : Flat(buffer[e]) = Upto(k)
    BY DEF WellSent
  <2>3. QED
    BY <2>1, <2>2
<1>3. QED
  BY <1>2 DEF WellSent

LEMMA OutputInit == Init => OutputInv
<1> SUFFICES ASSUME Init PROVE OutputInv
  OBVIOUS
<1>1. TypeOK
  BY TypeOKInit
<1>2. Flat(<<>>) = <<>>
  <2>1. Items(<<>>) = <<>>
    BY DEF Items
  <2>2. QED
    BY <2>1 DEF Flat, FlattenSeq
<1>3. Upto(0) = <<>> /\ <<>> \o <<>> = <<>>
  BY DEF Upto
<1>4. ASSUME NEW e \in Execution
      PROVE  WellSent(e)
  <2>1. /\ ~aborted[e] /\ buffer[e] = <<>> /\ held[e] = <<>> /\ emits[e] = 0
    BY DEF Init
  <2>2. 0 \in 0..0
    OBVIOUS
  <2>3. QED
    BY <1>2, <1>3, <2>1, <2>2 DEF WellSent
<1>5. QED
  BY <1>1, <1>4 DEF OutputInv

\* The step of an execution.
LEMMA OutputOfOwn ==
  ASSUME TypeOK, NEW e \in Execution, WellSent(e),
         TaskStep(e) \/ Cancel(e) \/ Stall(e)
  PROVE  WellSent(e)'
<1>1. /\ emits'[e] \in {emits[e], emits[e] + 1}
      /\ closed[e] => closed'[e] = closed[e] /\ buffer'[e] = buffer[e]
  <2>1. ASSUME closed[e], NEW events, Sink(e, events) \/ Broadcast(e, events)
        PROVE  UNCHANGED <<buffer, closed>>
    BY <2>1 DEF Sink, Broadcast
  <2>2. ASSUME closed[e] PROVE UNCHANGED <<buffer, closed>>
    <3>1. CASE Start(e)
      BY <3>1 DEF Start
    <3>2. CASE EmitLog(e)
      BY <2>1, <2>2, <3>2 DEF EmitLog
    <3>3. CASE \/ EmitStep(e) \/ Return(e) \/ Throw(e)
               \/ \E type \in Terminal : EmitTerminal(e, type)
      BY <2>1, <2>2, <3>3 DEF EmitStep, EmitTerminal, Return, Throw, Settle
    <3>4. CASE Cancel(e) \/ Stall(e)
      BY <2>1, <2>2, <3>4 DEF Cancel, Stall
    <3>5. QED
      BY <3>1, <3>2, <3>3, <3>4 DEF TaskStep
  <2>3. emits'[e] \in {emits[e], emits[e] + 1}
    BY DEF TaskStep, Start, EmitLog, EmitStep, EmitTerminal, Return, Throw,
           Settle, Cancel, Stall, TypeOK
  <2>4. QED
    BY <2>2, <2>3
<1>2. CASE closed[e]
  BY <1>1, <1>2, ClosedStaysSent
<1>3. CASE ~closed[e]
  <2>1. CASE Start(e)
    <3>1. UNCHANGED <<aborted, buffer, closed, held, emits>>
      BY <2>1 DEF Start
    <3>2. QED
      BY <3>1 DEF WellSent
  <2>2. CASE EmitLog(e)
    BY <1>3, <2>2, EmitLogSends
  <2>3. CASE EmitStep(e)
    BY <1>3, <2>3, EmitStepSends
  <2>4. ASSUME NEW type \in Terminal,
               Sink(e, Append(Chunk(held[e]), Ended(type))), UNCHANGED emits
        PROVE  WellSent(e)'
    <3>1. closed'[e] /\ Flat(buffer'[e]) = Upto(emits[e])
      BY <1>3, <2>4, SettleSends
    <3>2. QED
      BY <1>3, <2>4, <3>1, ClosingSends
  <2>5. ASSUME NEW type \in Terminal, Broadcast(e, <<Ended(type)>>),
               UNCHANGED emits
        PROVE  WellSent(e)'
    <3>1. closed'[e] /\ Flat(buffer'[e]) = Flat(buffer[e])
      BY <1>3, <2>5, EndingSends
    <3>2. QED
      BY <1>3, <2>5, <3>1, ClosingSends
  <2>6. CASE \/ \E type \in Terminal : EmitTerminal(e, type)
             \/ Return(e) \/ Throw(e)
    BY <2>4, <2>6 DEF EmitTerminal, Return, Throw, Settle, Terminal
  <2>7. CASE Cancel(e) \/ Stall(e)
    <3>1. ~aborted[e]
      BY <1>3 DEF WellSent
    <3>2. QED
      BY <2>5, <2>7, <3>1 DEF Cancel, Stall, Sink, Terminal
  <2>8. QED
    BY <2>1, <2>2, <2>3, <2>6, <2>7 DEF TaskStep
<1>4. QED
  BY <1>2, <1>3

\* The step of another leaves it alone.
LEMMA OutputOfOthers ==
  ASSUME TypeOK, NEW e \in Execution, NEW f \in Execution \ {e},
         TaskStep(e) \/ Cancel(e) \/ Stall(e)
  PROVE  /\ aborted'[f] = aborted[f] /\ closed'[f] = closed[f]
         /\ buffer'[f] = buffer[f] /\ held'[f] = held[f] /\ emits'[f] = emits[f]
         /\ task'[f] = task[f]
<1>1. \A events : Sink(e, events) \/ Broadcast(e, events) =>
        buffer'[f] = buffer[f] /\ closed'[f] = closed[f]
  BY DEF Sink, Broadcast, TypeOK
<1>2. buffer'[f] = buffer[f] /\ closed'[f] = closed[f]
  BY <1>1 DEF TaskStep, Start, EmitLog, EmitStep, EmitTerminal, Return, Throw,
              Settle, Cancel, Stall
<1>3. QED
  BY <1>2 DEF TaskStep, Start, EmitLog, EmitStep, EmitTerminal, Return, Throw,
              Settle, Cancel, Stall, TypeOK

LEMMA OutputStep ==
  ASSUME OutputInv, [Next]_vars
  PROVE  OutputInv'
<1>1. TypeOK /\ TypeOK'
  BY TypeOKStep DEF OutputInv
<1>2. ASSUME NEW e \in Execution, TaskStep(e) \/ Cancel(e) \/ Stall(e),
             NEW f \in Execution
      PROVE  WellSent(f)'
  <2>1. WellSent(f)
    BY DEF OutputInv
  <2>2. CASE f = e
    BY <1>1, <1>2, <2>1, <2>2, OutputOfOwn
  <2>3. CASE f # e
    BY <1>1, <1>2, <2>1, <2>3, OutputOfOthers DEF WellSent
  <2>4. QED
    BY <2>2, <2>3
<1>3. ASSUME UNCHANGED <<aborted, closed, buffer, held, emits>>,
             NEW f \in Execution
      PROVE  WellSent(f)'
  BY <1>3 DEF WellSent, OutputInv
<1>4. \/ \E e \in Execution : TaskStep(e) \/ Cancel(e) \/ Stall(e)
      \/ UNCHANGED <<aborted, closed, buffer, held, emits>>
  BY DEF Next, WatchStep, Attach, Deliver, Sleep, Wake, Detach, execVars, vars
<1>5. QED
  BY <1>1, <1>2, <1>3, <1>4 DEF OutputInv

LEMMA OutputInvariance == Spec => []OutputInv
  BY OutputInit, OutputStep, PTL DEF Spec

\* Coalescing neither drops, duplicates nor reorders output, for any output,
\* chunk size and moment the held lines are flushed at.
THEOREM OutputStaysInOrder == Spec => []OutputInOrder
<1>1. OutputInv => OutputInOrder
  <2> SUFFICES ASSUME OutputInv, NEW e \in Execution
               PROVE  /\ IsPrefix(Delivered(e), Emitted(e))
                      /\ ~closed[e] /\ ~aborted[e] =>
                           Delivered(e) \o held[e] = Emitted(e)
    BY DEF OutputInOrder
  <2>1. Delivered(e) = Flat(buffer[e]) /\ Emitted(e) = Upto(emits[e])
    BY DEF Delivered, Emitted, Flat, Items, Upto
  <2>2. emits[e] \in Nat
    BY DEF OutputInv, TypeOK
  <2>3. QED
    BY <2>1, <2>2, UptoPrefix DEF OutputInv, WellSent
<1>2. QED
  BY <1>1, OutputInvariance, PTL

\* A stream that its task's end has closed has delivered the whole output.
THEOREM SettledStreamsAreWhole == Spec => SettledStreamIsWhole
<1> DEFINE Settling == \A e \in Execution :
             ~closed[e] /\ closed'[e] /\ task'[e] # task[e]
               => Delivered(e)' = Emitted(e)
<1>1. ASSUME OutputInv, [Next]_vars
      PROVE  [Settling]_vars
  <2> SUFFICES ASSUME NEW e \in Execution, ~closed[e], closed'[e],
                      task'[e] # task[e]
               PROVE  Delivered(e)' = Emitted(e)
    OBVIOUS
  <2>1. TypeOK /\ WellSent(e)
    BY <1>1 DEF OutputInv
  <2>2. TaskStep(e)
    <3>1. ASSUME NEW f \in Execution, TaskStep(f) \/ Cancel(f) \/ Stall(f)
          PROVE  f = e
      BY <2>1, <3>1, OutputOfOthers
    <3>2. ~(Cancel(e) \/ Stall(e))
      BY DEF Cancel, Stall
    <3>3. QED
      BY <1>1, <3>1, <3>2
         DEF Next, WatchStep, Attach, Deliver, Sleep, Wake, Detach, execVars, vars
  <2>3. Return(e) \/ Throw(e)
    BY <2>2 DEF TaskStep, Start, EmitLog, EmitStep, EmitTerminal
  <2>4. PICK type \in Terminal : Sink(e, Append(Chunk(held[e]), Ended(type)))
    BY <2>3 DEF Return, Throw, Settle, Terminal
  <2>5. Flat(buffer'[e]) = Upto(emits[e])
    BY <2>1, <2>4, SettleSends
  <2>6. QED
    BY <2>5 DEF Delivered, Emitted, Flat, Items, Upto
<1>2. QED
  BY <1>1, OutputInvariance, PTL DEF Spec, SettledStreamIsWhole
=============================================================================
