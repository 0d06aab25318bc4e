----------------------------- MODULE Executions -----------------------------
(***************************************************************************)
(* The runtime of long-running work: InMemoryExecutions starts a task,     *)
(* owns its abort signal and its terminal event; InMemoryExecution is the  *)
(* replayable buffer that any number of watchers iterate; BufferedEmitter  *)
(* and LogTimeBuffer hold log lines back and coalesce them on their way.   *)
(*                                                                         *)
(* JavaScript runs a continuation to its next await, so one action is the  *)
(* code between two awaits.  An emitted item (a log line or a step) is its *)
(* number in emission order; an event carries the items it delivers.       *)
(***************************************************************************)
EXTENDS Naturals, SequencesExt

CONSTANTS
  Execution,   \* the execution ids a client may start
  Watcher,     \* the execution.watch calls
  Of,          \* Of[w] is the executionId of call w
  MaxEmits,    \* bound: items one task emits
  LogLines,    \* LOG_LINES: lines held before a chunk is forced out
  Watchdog     \* whether idleTimeoutMs is set (it is not, by default)

ASSUME ExecutionsAssumption ==
  /\ Of \in [Watcher -> Execution]
  /\ MaxEmits \in Nat
  /\ LogLines \in Nat \ {0}
  /\ Watchdog \in BOOLEAN

VARIABLES
  task,      \* [Execution -> Stage]  what became of task.run
  aborted,   \* [Execution -> BOOLEAN]  controller.signal.aborted
  buffer,    \* [Execution -> Seq(Event)]  everything broadcast
  closed,    \* [Execution -> BOOLEAN]  a terminal has been broadcast
  waiting,   \* [Execution -> Nat]  which `waiting` promise is current
  held,      \* [Execution -> Seq(Nat)]  LogTimeBuffer.buffered
  emits,     \* [Execution -> Nat]  items emitted so far
  armed,     \* [Execution -> BOOLEAN]  the idle timer is running
  \* the generator returned by each call of watch(), and its consumer
  pc,        \* [Watcher -> WatchPc]
  cursor,    \* [Watcher -> Nat]  events yielded so far
  awaits,    \* [Watcher -> Nat]  the `waiting` promise it sleeps on
  seen       \* [Watcher -> Seq(Event)]  what its consumer was given

execVars == <<task, aborted, buffer, closed, waiting, held, emits, armed>>
watchVars == <<pc, cursor, awaits, seen>>
vars == <<task, aborted, buffer, closed, waiting, held, emits, armed,
          pc, cursor, awaits, seen>>

Stage == {"absent", "running", "returned", "threw"}
Terminal == {"succeeded", "failed", "cancelled"}
Event == [type : {"log", "step"} \cup Terminal, items : Seq(Nat)]
IsTerminal(event) == event.type \in Terminal

WatchPc == {"idle", "reading", "sleeping", "done", "gone"}

Ended(type) == [type |-> type, items |-> <<>>]

-----------------------------------------------------------------------------
(* The buffer of one execution.                                            *)

\* Mutant: the terminal is recorded but nobody is woken for it.
BroadcastQuietClose(e, events) ==
  IF closed[e] \/ events = <<>>
  THEN UNCHANGED <<buffer, closed, waiting>>
  ELSE /\ buffer' = [buffer EXCEPT ![e] = @ \o events]
       /\ closed' = [closed EXCEPT ![e] = IsTerminal(Last(events))]
       /\ waiting' = [waiting EXCEPT ![e] =
                        IF IsTerminal(Last(events)) THEN @ ELSE @ + Len(events)]

\* Mutant: the replay buffer is bounded and forgets its oldest event.
BroadcastRing(e, events) ==
  IF closed[e] \/ events = <<>>
  THEN UNCHANGED <<buffer, closed, waiting>>
  ELSE /\ buffer' = [buffer EXCEPT ![e] =
                       IF Len(@) > 1 THEN Tail(@) \o events ELSE @ \o events]
       /\ closed' = [closed EXCEPT ![e] = IsTerminal(Last(events))]
       /\ waiting' = [waiting EXCEPT ![e] = @ + Len(events)]

\* broadcast, for events handed over without an await in between; only the
\* last of them may be a terminal.
Broadcast(e, events) ==
  IF closed[e] \/ events = <<>>
  THEN UNCHANGED <<buffer, closed, waiting>>
  ELSE /\ buffer' = [buffer EXCEPT ![e] = @ \o events]
       /\ closed' = [closed EXCEPT ![e] = IsTerminal(events[Len(events)])]
       /\ waiting' = [waiting EXCEPT ![e] = @ + Len(events)]

\* The sink the runtime gives the emitter: silent once aborted.
Sink(e, events) == Broadcast(e, IF aborted[e] THEN <<>> ELSE events)

\* LogTimeBuffer.drain: the held lines as one log event, if there are any.
Chunk(lines) ==
  IF lines = <<>> THEN <<>> ELSE << [type |-> "log", items |-> lines] >>

-----------------------------------------------------------------------------
(* The task and its runtime.                                               *)

\* Mutant: the idle timer is armed by the first event only.
StartUnarmed(e) ==
  /\ task[e] = "absent"
  /\ task' = [task EXCEPT ![e] = "running"]
  /\ UNCHANGED <<aborted, buffer, closed, waiting, held, emits, armed, watchVars>>

Start(e) ==
  /\ task[e] = "absent"
  /\ task' = [task EXCEPT ![e] = "running"]
  /\ armed' = [armed EXCEPT ![e] = Watchdog]
  /\ UNCHANGED <<aborted, buffer, closed, waiting, held, emits, watchVars>>

\* A line joins the held ones; they leave as one chunk when they are
\* LogLines many, or when this line finds the latency window elapsed.
EmitLog(e) ==
  /\ task[e] = "running" /\ emits[e] < MaxEmits
  /\ emits' = [emits EXCEPT ![e] = @ + 1]
  /\ LET lines == Append(held[e], emits[e] + 1) IN
     \E elapsed \in BOOLEAN :
       /\ elapsed => held[e] # <<>>
       /\ IF elapsed \/ Len(lines) >= LogLines
          THEN /\ held' = [held EXCEPT ![e] = <<>>]
               /\ Sink(e, Chunk(lines))
          ELSE /\ held' = [held EXCEPT ![e] = lines]
               /\ UNCHANGED <<buffer, closed, waiting>>
  /\ armed' = [armed EXCEPT ![e] = Watchdog]
  /\ UNCHANGED <<task, aborted, watchVars>>

\* Any event that is not a log flushes the held lines first.
EmitStep(e) ==
  /\ task[e] = "running" /\ emits[e] < MaxEmits
  /\ emits' = [emits EXCEPT ![e] = @ + 1]
  /\ held' = [held EXCEPT ![e] = <<>>]
  /\ Sink(e, Append(Chunk(held[e]),
                    [type |-> "step", items |-> <<emits[e] + 1>>]))
  /\ armed' = [armed EXCEPT ![e] = Watchdog]
  /\ UNCHANGED <<task, aborted, watchVars>>

\* Some tasks (the station handlers, the image adapter) emit a terminal
\* themselves before they return.
EmitTerminal(e, type) ==
  /\ task[e] = "running"
  /\ held' = [held EXCEPT ![e] = <<>>]
  /\ Sink(e, Append(Chunk(held[e]), Ended(type)))
  /\ armed' = [armed EXCEPT ![e] = Watchdog]
  /\ UNCHANGED <<task, aborted, emits, watchVars>>

\* Mutant: the terminal is broadcast without flushing the held lines.
SettleUnflushed(e, stage, type) ==
  /\ task[e] = "running"
  /\ task' = [task EXCEPT ![e] = stage]
  /\ Sink(e, <<Ended(type)>>)
  /\ armed' = [armed EXCEPT ![e] = FALSE]
  /\ UNCHANGED <<aborted, held, emits, watchVars>>

\* task.run settles: the held lines, then the runtime's own terminal.
Settle(e, stage, type) ==
  /\ task[e] = "running"
  /\ task' = [task EXCEPT ![e] = stage]
  /\ held' = [held EXCEPT ![e] = <<>>]
  /\ Sink(e, Append(Chunk(held[e]), Ended(type)))
  /\ armed' = [armed EXCEPT ![e] = FALSE]
  /\ UNCHANGED <<aborted, emits, watchVars>>

\* Mutant: the terminal carries the task's outcome instead of its type.
ReturnUntyped(e) == Settle(e, "returned", "returned")

Return(e) == Settle(e, "returned", "succeeded")
Throw(e) == Settle(e, "threw", "failed")

\* cancel: abort() and the Cancelled broadcast have no await in between.
Cancel(e) ==
  /\ task[e] # "absent"
  /\ ~aborted[e]
  /\ aborted' = [aborted EXCEPT ![e] = TRUE]
  /\ Broadcast(e, <<Ended("cancelled")>>)
  /\ UNCHANGED <<task, held, emits, armed, watchVars>>

\* The idle timer fires; the task, if it is alive, is left running.
Stall(e) ==
  /\ armed[e]
  /\ armed' = [armed EXCEPT ![e] = FALSE]
  /\ Sink(e, <<Ended("failed")>>)
  /\ UNCHANGED <<task, aborted, held, emits, watchVars>>

-----------------------------------------------------------------------------
(* The generator returned by watch(), driven by the watch endpoint.        *)

Attach(w) ==
  /\ pc[w] = "idle"
  /\ task[Of[w]] # "absent"
  /\ pc' = [pc EXCEPT ![w] = "reading"]
  /\ UNCHANGED <<cursor, awaits, seen, execVars>>

\* One event is yielded and notified; a terminal ends the iteration.
Deliver(w) ==
  LET event == buffer[Of[w]][cursor[w] + 1] IN
  /\ pc[w] = "reading"
  /\ cursor[w] < Len(buffer[Of[w]])
  /\ cursor' = [cursor EXCEPT ![w] = @ + 1]
  /\ seen' = [seen EXCEPT ![w] = Append(@, event)]
  /\ pc' = [pc EXCEPT ![w] = IF IsTerminal(event) THEN "done" ELSE @]
  /\ UNCHANGED <<awaits, execVars>>

\* Nothing left to read: return if the stream is closed, otherwise await the
\* promise that is current now.
Sleep(w) ==
  /\ pc[w] = "reading"
  /\ cursor[w] = Len(buffer[Of[w]])
  /\ pc' = [pc EXCEPT ![w] = IF closed[Of[w]] THEN "done" ELSE "sleeping"]
  /\ awaits' = [awaits EXCEPT ![w] = waiting[Of[w]]]
  /\ UNCHANGED <<cursor, seen, execVars>>

\* Mutant: a broadcast resolves the promise before the one it replaces.
ResolvedLate(e, promise) == promise + 1 < waiting[e]

\* Each broadcast replaces the promise and resolves the one it replaces.
Resolved(e, promise) == promise < waiting[e]

Wake(w) ==
  /\ pc[w] = "sleeping"
  /\ Resolved(Of[w], awaits[w])
  /\ pc' = [pc EXCEPT ![w] = "reading"]
  /\ UNCHANGED <<cursor, awaits, seen, execVars>>

\* notify throws (the client is gone): the for-await loop is left.
Detach(w) ==
  /\ pc[w] = "reading"
  /\ cursor[w] > 0
  /\ pc' = [pc EXCEPT ![w] = "gone"]
  /\ UNCHANGED <<cursor, awaits, seen, execVars>>

-----------------------------------------------------------------------------
Init ==
  /\ task = [e \in Execution |-> "absent"]
  /\ aborted = [e \in Execution |-> FALSE]
  /\ buffer = [e \in Execution |-> <<>>]
  /\ closed = [e \in Execution |-> FALSE]
  /\ waiting = [e \in Execution |-> 0]
  /\ held = [e \in Execution |-> <<>>]
  /\ emits = [e \in Execution |-> 0]
  /\ armed = [e \in Execution |-> FALSE]
  /\ pc = [w \in Watcher |-> "idle"]
  /\ cursor = [w \in Watcher |-> 0]
  /\ awaits = [w \in Watcher |-> 0]
  /\ seen = [w \in Watcher |-> <<>>]

TaskStep(e) ==
  \/ Start(e)
  \/ EmitLog(e)
  \/ EmitStep(e)
  \/ \E type \in Terminal : EmitTerminal(e, type)
  \/ Return(e)
  \/ Throw(e)

WatchStep(w) ==
  \/ Attach(w)
  \/ Deliver(w)
  \/ Sleep(w)
  \/ Wake(w)
  \/ Detach(w)

Next ==
  \/ \E e \in Execution : TaskStep(e) \/ Cancel(e) \/ Stall(e)
  \/ \E w \in Watcher : WatchStep(w)

Spec == Init /\ [][Next]_vars

\* The event loop runs every ready continuation and every due timer; it owes
\* nothing to tasks (a remote command may hang) nor to clients.
Fairness ==
  /\ \A w \in Watcher : WF_vars(Deliver(w) \/ Sleep(w) \/ Wake(w))
  /\ \A e \in Execution : WF_vars(Stall(e))

FairSpec == Spec /\ Fairness
-----------------------------------------------------------------------------
(* Properties.                                                             *)

TypeOK ==
  /\ task \in [Execution -> Stage]
  /\ aborted \in [Execution -> BOOLEAN]
  /\ buffer \in [Execution -> Seq(Event)]
  /\ closed \in [Execution -> BOOLEAN]
  /\ waiting \in [Execution -> Nat]
  /\ held \in [Execution -> Seq(Nat)]
  /\ emits \in [Execution -> Nat]
  /\ armed \in [Execution -> BOOLEAN]
  /\ pc \in [Watcher -> WatchPc]
  /\ cursor \in [Watcher -> Nat]
  /\ awaits \in [Watcher -> Nat]
  /\ seen \in [Watcher -> Seq(Event)]

\* What an execution's stream says of its output, in order.
Delivered(e) ==
  FlattenSeq([i \in DOMAIN buffer[e] |-> buffer[e][i].items])

Emitted(e) == [i \in 1..emits[e] |-> i]

\* One terminal at most, and nothing after it, whoever of the task, the
\* runtime, cancel and the idle timer got there first (in-memory-execution.ts,
\* broadcast; "the 'terminal is last' invariant" of buffered-emitter.ts).
TerminalIsLast ==
  \A e \in Execution :
    /\ \A i \in 1..Len(buffer[e]) :
         IsTerminal(buffer[e][i]) => i = Len(buffer[e])
    /\ closed[e] <=> \E i \in 1..Len(buffer[e]) : IsTerminal(buffer[e][i])

\* A watcher, however late it attached and however its reads interleave with
\* broadcasts, has seen exactly a prefix of the stream; when its iteration
\* ends by itself it has seen all of it (in-memory-execution.ts, watch).
WatchersReplay ==
  \A w \in Watcher :
    /\ seen[w] = SubSeq(buffer[Of[w]], 1, cursor[w])
    /\ pc[w] = "done" => closed[Of[w]] /\ seen[w] = buffer[Of[w]]

\* No lost wake-up: a watcher asleep while there is something to read, or
\* after the stream closed, awaits a promise that is already resolved.
NoLostWakeup ==
  \A w \in Watcher :
    pc[w] = "sleeping" /\ (cursor[w] < Len(buffer[Of[w]]) \/ closed[Of[w]])
      => Resolved(Of[w], awaits[w])

\* Coalescing neither drops, duplicates nor reorders output: the stream is
\* always a prefix of what the task emitted, and while nobody has ended it the
\* rest is what the log buffer holds (buffered-emitter.ts, emit and flush).
OutputInOrder ==
  \A e \in Execution :
    /\ IsPrefix(Delivered(e), Emitted(e))
    /\ ~closed[e] /\ ~aborted[e] => Delivered(e) \o held[e] = Emitted(e)

\* When the task's end is what ends the stream, the stream is the whole output.
SettledStreamIsWhole ==
  [][\A e \in Execution :
       ~closed[e] /\ closed'[e] /\ task'[e] # task[e]
         => Delivered(e)' = Emitted(e)]_vars

\* Every watch call returns once its execution has ended, also when it sleeps
\* at that moment and whichever promise it sleeps on.
WatchEnds ==
  \A w \in Watcher :
    (pc[w] \in {"reading", "sleeping"} /\ closed[Of[w]])
      ~> pc[w] \in {"done", "gone"}

\* With the idle timer set, an execution whose task hangs for ever still ends,
\* and so does every watch of it (stall.test.ts).
StallIsDetected ==
  \A e \in Execution : task[e] = "running" ~> closed[e]

\* What BufferedEmitter's comment promises of every terminal the runtime
\* broadcasts: the held log lines have been flushed before it.
\* Not kept by the code (README, Disagreements).
TerminalAfterFlush ==
  [][\A e \in Execution :
       ~closed[e] /\ closed'[e] => Delivered(e)' = Emitted(e)]_vars

\* The stream as its consumers know it.
Phase ==
  [w \in Watcher |-> CASE pc[w] = "idle" -> "unopened"
                       [] pc[w] \in {"reading", "sleeping"} -> "open"
                       [] OTHER -> "closed"]

Stream ==
  INSTANCE ExecutionStream WITH of <- Of, log <- buffer, phase <- Phase

\* The runtime implements the stream its interface promises.
ImplementsStream == Stream!Spec

\* ... and with the event loop's fairness, a consumer is always served the
\* next event: no watch starves behind another execution or another watch.
ServesStream == Stream!FairSpec
=============================================================================
