--------------------------- MODULE ExecutionStream ---------------------------
(***************************************************************************)
(* What the Execution interface promises its consumers: "Yields every      *)
(* event produced so far, then future events as they arrive, until a       *)
(* terminal event closes it".  No promises, cursors, buffers or signals:   *)
(* one growing log per execution, and watches that each read it from the   *)
(* beginning.                                                              *)
(***************************************************************************)
EXTENDS Naturals, Sequences

CONSTANTS Execution, Watcher, of   \* of[w] is the execution w watches

VARIABLES log, phase, seen

vars == <<log, phase, seen>>

IsTerminal(event) == event.type \in {"succeeded", "failed", "cancelled"}

Over(stream) == \E i \in 1..Len(stream) : IsTerminal(stream[i])

\* Events are published behind the ones already there; a terminal is the
\* last thing ever published.
Publish(e) ==
  /\ ~Over(log[e])
  /\ Len(log'[e]) > Len(log[e])
  /\ \A i \in 1..Len(log[e]) : log'[e][i] = log[e][i]
  /\ \A i \in 1..Len(log'[e]) : IsTerminal(log'[e][i]) => i = Len(log'[e])
  /\ log' = [log EXCEPT ![e] = log'[e]]
  /\ UNCHANGED <<phase, seen>>

Open(w) ==
  /\ phase[w] = "unopened"
  /\ phase' = [phase EXCEPT ![w] = "open"]
  /\ UNCHANGED <<log, seen>>

\* The next event; a terminal closes the watch.
Read(w) ==
  LET n == Len(seen[w]) + 1 IN
  /\ phase[w] = "open"
  /\ n <= Len(log[of[w]])
  /\ seen' = [seen EXCEPT ![w] = Append(@, log[of[w]][n])]
  /\ phase' = [phase EXCEPT ![w] =
                 IF IsTerminal(log[of[w]][n]) THEN "closed" ELSE @]
  /\ UNCHANGED log

\* The consumer stops listening.
Leave(w) ==
  /\ phase[w] = "open"
  /\ phase' = [phase EXCEPT ![w] = "closed"]
  /\ UNCHANGED <<log, seen>>

Init ==
  /\ log = [e \in Execution |-> <<>>]
  /\ phase = [w \in Watcher |-> "unopened"]
  /\ seen = [w \in Watcher |-> <<>>]

Next ==
  \/ \E e \in Execution : Publish(e)
  \/ \E w \in Watcher : Open(w) \/ Read(w) \/ Leave(w)

Spec == Init /\ [][Next]_vars

FairSpec == Spec /\ \A w \in Watcher : WF_vars(Read(w))
=============================================================================
