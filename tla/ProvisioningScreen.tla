------------------------- MODULE ProvisioningScreen -------------------------
(***************************************************************************)
(* The provisioning screen of one cluster in the terminal UI: the state    *)
(* kept per cluster by provisioning-store.ts, the asynchronous runs that   *)
(* settle it, the abort with its grace period, the cluster events and the  *)
(* execution stream that race for the outcome, and the connection to the   *)
(* engine under them.                                                      *)
(*                                                                         *)
(* The state belongs to the cluster and not to the run, so a run the user  *)
(* gave up goes on beside the next one.  What an action does up to its     *)
(* next await on the engine, a timer or an event is one step.  A message   *)
(* is timed when the UI reads it.                                          *)
(***************************************************************************)
EXTENDS Naturals

CONSTANTS
  Node,       \* the nodes of the cluster
  Requests,   \* the sets of nodes the user may select
  MaxRuns,    \* runs the user may start, one after the other
  MaxImages   \* images an apply has to create first

ASSUME ScreenAssumption ==
  /\ Requests \subseteq (SUBSET Node) \ {{}}
  /\ MaxRuns \in Nat
  /\ MaxImages \in Nat

Run == 1..MaxRuns
NoRun == 0

VARIABLES
  \* the state of the cluster's screen
  phase,      \* Phase
  runId,      \* the run whose execution abort would cancel, or NoRun
  aborting,
  latest,     \* the run last started, or NoRun
  \* the runs
  pc,         \* [Run -> Pc]  what the run awaits
  nodes,      \* [Run -> SUBSET Node]  expectedNodeIds
  images,     \* [Run -> 0..MaxImages]  still to create after the current one
  pump,       \* [Run -> Pump]  the loop of trackNodeProgress
  seen,       \* [Run -> SUBSET Node]  doneNodes
  outcome,    \* [Run -> Outcome]
  abort,      \* [Run -> AbortPc]  abortRun, pressed for that run
  \* the engine
  up,         \* its process is running
  subscribed, \* it sends the events of the cluster to this UI
  exec,       \* [Run -> Exec]  the execution of the run
  reported,   \* [Run -> SUBSET Node]  nodes whose success it announced
  \* history
  crowded     \* runs that were not alone from their start to their end

screen == <<phase, runId, aborting, latest>>
runVars == <<pc, nodes, images, pump, seen, outcome>>
engine == <<up, subscribed, exec, reported>>
vars == <<phase, runId, aborting, latest, pc, nodes, images, pump, seen,
          outcome, abort, up, subscribed, exec, reported, crowded>>

Phase == {"idle", "running", "done", "error"}
Pc == {"unborn", "image", "asking", "racing", "draining", "stopping", "over"}
Pump == {"none", "subscribing", "waiting", "ended"}
Outcome == {"none", "done", "error"}
AbortPc == {"none", "cancelling", "grace", "over"}
Exec == {"none", "running", "failing", "failed", "succeeded"}

-----------------------------------------------------------------------------
(* What the actions are made of.                                           *)

Tracking(r) == pump[r] \in {"subscribing", "waiting"}

\* The execution may still announce something about a node.
Live(r) == exec[r] = "running" /\ reported[r] # nodes[r]

Unfinished(r) == pc[r] \notin {"unborn", "over"} \/ Live(r)

\* The last line of start*, or its catch block: whatever the screen shows by
\* now, it shows the end of this run.
Settle(r, how) ==
  /\ pc' = [pc EXCEPT ![r] = "over"]
  /\ outcome' = [outcome EXCEPT ![r] = how]
  /\ phase' = how
  /\ runId' = NoRun

\* A request: on a dead engine's pipe the write fails and the call rejects.
Call(r, await) ==
  IF up
  THEN /\ pc' = [pc EXCEPT ![r] = await]
       /\ UNCHANGED <<phase, runId, outcome>>
  ELSE Settle(r, "error")

-----------------------------------------------------------------------------
(* The user.                                                               *)

\* resetRun, and the run up to its first request.  A confirmation prompt is
\* answered in any phase but running.
Start(r, N, k) ==
  /\ pc[r] = "unborn" /\ (\A x \in Run : x < r => pc[x] # "unborn")
  /\ phase # "running"
  /\ aborting' = FALSE
  /\ latest' = r
  /\ nodes' = [nodes EXCEPT ![r] = N]
  /\ crowded' = LET others == {x \in Run : Unfinished(x)} IN
                IF others = {} THEN crowded ELSE crowded \cup others \cup {r}
  /\ IF up
     THEN /\ phase' = "running" /\ runId' = NoRun
          /\ pc' = [pc EXCEPT ![r] = IF k = 0 THEN "asking" ELSE "image"]
          /\ images' = [images EXCEPT ![r] = IF k = 0 THEN 0 ELSE k - 1]
          /\ UNCHANGED outcome
     ELSE Settle(r, "error") /\ UNCHANGED images
  /\ UNCHANGED <<pump, seen, abort, engine>>

\* Back to the topology.
Acknowledge ==
  /\ phase \in {"done", "error"}
  /\ phase' = "idle"
  /\ UNCHANGED <<runId, aborting, latest, runVars, abort, engine, crowded>>

\* Mutant: without an execution to cancel, abort just returns.
AbortSilently ==
  /\ phase = "running" /\ ~aborting
  /\ aborting' = TRUE
  /\ abort' = [abort EXCEPT ![latest] =
                 IF runId # NoRun /\ up THEN "cancelling" ELSE "over"]
  /\ UNCHANGED <<phase, runId, latest, runVars, engine, crowded>>

\* abortRun: the execution is cancelled if its id is known by now; a call
\* that rejects is only logged.
Abort ==
  /\ phase = "running" /\ ~aborting
  /\ aborting' = TRUE
  /\ abort' = [abort EXCEPT ![latest] =
                 IF runId # NoRun /\ up THEN "cancelling" ELSE "grace"]
  /\ UNCHANGED <<phase, runId, latest, runVars, engine, crowded>>

\* Whether the cancel succeeds or not.  An execution may fail at any time, so
\* the engine's side of a cancel needs no step of its own.
CancelAnswered(r) ==
  /\ abort[r] = "cancelling" /\ up
  /\ abort' = [abort EXCEPT ![r] = "grace"]
  /\ UNCHANGED <<screen, runVars, engine, crowded>>

\* ABORT_GRACE_MS later, whichever run is on the screen then.
GraceOver(r) ==
  /\ abort[r] = "grace"
  /\ abort' = [abort EXCEPT ![r] = "over"]
  /\ IF phase = "running" THEN phase' = "error" /\ runId' = NoRun
     ELSE UNCHANGED <<phase, runId>>
  /\ UNCHANGED <<aborting, latest, runVars, engine, crowded>>

-----------------------------------------------------------------------------
(* A run until its execution is known.                                     *)

\* Mutant: the counter runs past the last image.
ImageReadyUnbounded(r) ==
  /\ pc[r] = "image" /\ up
  /\ images' = [images EXCEPT ![r] = @ + 1]
  /\ Call(r, "image")
  /\ UNCHANGED <<aborting, latest, nodes, pump, seen, abort, engine, crowded>>

\* imagesCreate is over: the next image, or the apply, unless the abort flag
\* is up.
ImageReady(r) ==
  /\ pc[r] = "image" /\ up
  /\ IF aborting THEN Settle(r, "error") /\ UNCHANGED images
     ELSE /\ images' = [images EXCEPT ![r] = IF @ = 0 THEN 0 ELSE @ - 1]
          /\ Call(r, IF images[r] = 0 THEN "asking" ELSE "image")
  /\ UNCHANGED <<aborting, latest, nodes, pump, seen, abort, engine, crowded>>

\* An image fails, or the engine refuses the run: nothing has started.
Refused(r) ==
  /\ pc[r] \in {"image", "asking"} /\ exec[r] = "none" /\ up
  /\ Settle(r, "error")
  /\ UNCHANGED <<aborting, latest, nodes, images, pump, seen, abort, engine,
                 crowded>>

\* The engine starts the execution; its answer is still to come.
Accept(r) ==
  /\ pc[r] = "asking" /\ exec[r] = "none" /\ up
  /\ exec' = [exec EXCEPT ![r] = "running"]
  /\ UNCHANGED <<screen, runVars, abort, up, subscribed, reported, crowded>>

\* awaitRun: both watches are set up, the requests for them sent.
Started(r) ==
  /\ pc[r] = "asking" /\ exec[r] # "none" /\ up
  /\ runId' = r
  /\ pc' = [pc EXCEPT ![r] = "racing"]
  /\ pump' = [pump EXCEPT ![r] = "subscribing"]
  /\ UNCHANGED <<phase, aborting, latest, nodes, images, seen, outcome, abort,
                 engine, crowded>>

-----------------------------------------------------------------------------
(* The race for the outcome of a run.                                      *)

\* cluster.subscribe: register-and-return, never undone.
Subscribe(r) ==
  /\ pump[r] = "subscribing" /\ up
  /\ subscribed' = TRUE
  /\ pump' = [pump EXCEPT ![r] = "waiting"]
  /\ UNCHANGED <<screen, pc, nodes, images, seen, outcome, abort, up, exec,
                 reported, crowded>>

\* The generator of the events throws, which ends the pump, and a stop() that
\* was waiting for it.
SubscribeFails(r) ==
  /\ pump[r] = "subscribing" /\ up
  /\ pump' = [pump EXCEPT ![r] = "ended"]
  /\ IF pc[r] = "stopping" THEN Settle(r, outcome[r])
     ELSE UNCHANGED <<pc, outcome, phase, runId>>
  /\ UNCHANGED <<aborting, latest, nodes, images, seen, abort, engine, crowded>>

\* The runs whose pump an event of the cluster reaches.
Heard == IF subscribed THEN {r \in Run : Tracking(r)} ELSE {}

\* The runs that end with the event: their stop() was waiting for any event
\* at all, or their outcome is decided.
End(ending) ==
  /\ pc' = [r \in Run |-> IF r \in ending THEN "over" ELSE pc[r]]
  /\ IF ending = {} THEN UNCHANGED <<phase, runId>>
     ELSE \E last \in ending : phase' = outcome'[last] /\ runId' = NoRun

Woken == {r \in Heard : pc[r] = "stopping"}

\* Mutant: the first node to succeed completes the run.
CompletedEarly(n) == {r \in Heard \ Woken : n \in nodes[r]}

\* The runs all of whose nodes have succeeded with n.
Completed(n) ==
  {r \in Heard \ Woken : n \in nodes[r] /\ nodes[r] \subseteq seen[r] \cup {n}}

\* node-*-succeeded.
NodeSucceeds(x, n) ==
  /\ exec[x] = "running" /\ up /\ n \in nodes[x] \ reported[x]
  /\ reported' = [reported EXCEPT ![x] = @ \cup {n}]
  /\ seen' = [r \in Run |-> IF r \in Heard /\ n \in nodes[r]
                            THEN seen[r] \cup {n} ELSE seen[r]]
  /\ pump' = [r \in Run |-> IF r \in Woken \cup Completed(n)
                            THEN "ended" ELSE pump[r]]
  /\ outcome' = [r \in Run |-> IF r \in Completed(n) THEN "done"
                               ELSE outcome[r]]
  /\ End(Woken \cup Completed(n))
  /\ UNCHANGED <<aborting, latest, nodes, images, abort, up, subscribed, exec,
                 crowded>>

\* Mutant: the screen does not listen to failures.
NodeFailsUnheard(x) ==
  /\ Live(x) /\ up
  /\ exec' = [exec EXCEPT ![x] = "failing"]
  /\ UNCHANGED <<screen, runVars, abort, up, subscribed, reported, crowded>>

\* node-*-failed, which also ends the loop of the execution: the runs that
\* hear it give the stream FAIL_DRAIN_MS to tell more.
NodeFails(x) ==
  /\ Live(x) /\ up
  /\ exec' = [exec EXCEPT ![x] = "failing"]
  /\ pump' = [r \in Run |-> IF r \in Heard THEN "ended" ELSE pump[r]]
  /\ pc' = [r \in Run |-> IF r \in Woken THEN "over"
                          ELSE IF r \in Heard THEN "draining" ELSE pc[r]]
  /\ IF Woken = {} THEN UNCHANGED <<phase, runId>>
     ELSE \E last \in Woken : phase' = outcome[last] /\ runId' = NoRun
  /\ UNCHANGED <<aborting, latest, nodes, images, seen, outcome, abort, up,
                 subscribed, reported, crowded>>

\* node-*-started: nothing to the run, but it wakes a generator.
NodeStarts(x) ==
  /\ Live(x) /\ up
  /\ Woken # {}
  /\ pump' = [r \in Run |-> IF r \in Woken THEN "ended" ELSE pump[r]]
  /\ UNCHANGED outcome
  /\ End(Woken)
  /\ UNCHANGED <<aborting, latest, nodes, images, seen, abort, engine, crowded>>

\* The execution fails without a word about a node: the task threw before a
\* node was started, or after its success was announced.
FailSilently(x) ==
  /\ exec[x] = "running" /\ up
  /\ exec' = [exec EXCEPT ![x] = "failed"]
  /\ UNCHANGED <<screen, runVars, abort, up, subscribed, reported, crowded>>

\* The window for the details of a failure is over, or they have come.
DrainOver(r) ==
  /\ pc[r] = "draining"
  /\ Settle(r, "error")
  /\ UNCHANGED <<aborting, latest, nodes, images, pump, seen, abort, engine,
                 crowded>>

\* The stream's terminal output is the first to come.  The finally block
\* awaits stop(), whose return() queues behind the pump's pending next():
\* it is answered with the next event of the cluster, unless the pump ended.
Terminal(r, how) ==
  /\ pc[r] = "racing" /\ up
  /\ IF pump[r] = "ended" THEN Settle(r, how)
     ELSE /\ pc' = [pc EXCEPT ![r] = "stopping"]
          /\ outcome' = [outcome EXCEPT ![r] = how]
          /\ UNCHANGED <<phase, runId>>

TerminalSucceeded(r) ==
  /\ exec[r] = "running" /\ reported[r] = nodes[r]
  /\ Terminal(r, "done")
  /\ exec' = [exec EXCEPT ![r] = "succeeded"]
  /\ UNCHANGED <<aborting, latest, nodes, images, pump, seen, abort, up,
                 subscribed, reported, crowded>>

\* The stream tells of a failure or of a cancel, which it does at once, or the
\* watch is rejected: the execution may be alive and go on with its nodes.
TerminalFailed(r) ==
  /\ exec[r] # "none"
  /\ Terminal(r, "error")
  /\ UNCHANGED <<aborting, latest, nodes, images, pump, seen, abort, engine,
                 crowded>>

\* The engine's process dies.  Reading stops without settling a call, so
\* what is in flight is never answered; the executions and the subscription
\* are gone with it.
Die ==
  /\ up
  /\ up' = FALSE /\ subscribed' = FALSE
  /\ exec' = [r \in Run |-> IF exec[r] \in {"running", "failing"}
                            THEN "failed" ELSE exec[r]]
  /\ UNCHANGED <<screen, runVars, abort, reported, crowded>>

-----------------------------------------------------------------------------
Init ==
  /\ phase = "idle" /\ runId = NoRun /\ aborting = FALSE /\ latest = NoRun
  /\ pc = [r \in Run |-> "unborn"]
  /\ nodes = [r \in Run |-> {}]
  /\ images = [r \in Run |-> 0]
  /\ pump = [r \in Run |-> "none"]
  /\ seen = [r \in Run |-> {}]
  /\ outcome = [r \in Run |-> "none"]
  /\ abort = [r \in Run |-> "none"]
  /\ up = TRUE /\ subscribed = FALSE
  /\ exec = [r \in Run |-> "none"]
  /\ reported = [r \in Run |-> {}]
  /\ crowded = {}

User ==
  \/ \E r \in Run, N \in Requests, k \in 0..MaxImages : Start(r, N, k)
  \/ Acknowledge
  \/ Abort

\* The execution of a run gets on with its nodes.
Provision(r) ==
  \/ FailSilently(r)
  \/ NodeFails(r)
  \/ \E n \in Node : NodeSucceeds(r, n)

Next ==
  \/ User
  \/ \E r \in Run :
       \/ CancelAnswered(r) \/ GraceOver(r)
       \/ ImageReady(r) \/ Refused(r) \/ Accept(r) \/ Started(r)
       \/ Subscribe(r) \/ SubscribeFails(r)
       \/ Provision(r) \/ NodeStarts(r)
       \/ DrainOver(r)
       \/ TerminalSucceeded(r) \/ TerminalFailed(r)
  \/ Die

Spec == Init /\ [][Next]_vars

\* Timers fire, a running engine answers a cancel and gets on with what it
\* runs.  Nothing is assumed of the terminal outputs, of images, of the user.
Fairness ==
  \A r \in Run :
    /\ WF_vars(CancelAnswered(r) \/ GraceOver(r))
    /\ WF_vars(DrainOver(r))
    /\ WF_vars(Provision(r))

\* A terminal output of an execution that is over does come.
TerminalsArrive ==
  \A r \in Run :
    WF_vars(\/ TerminalSucceeded(r)
            \/ exec[r] \in {"failing", "failed"} /\ TerminalFailed(r))

FairSpec == Spec /\ Fairness
TerminalSpec == FairSpec /\ TerminalsArrive

-----------------------------------------------------------------------------
(* Properties.                                                             *)

\* The type invariant.
TypeOK ==
  /\ phase \in Phase
  /\ runId \in Run \cup {NoRun}
  /\ aborting \in BOOLEAN
  /\ latest \in Run \cup {NoRun}
  /\ pc \in [Run -> Pc]
  /\ nodes \in [Run -> SUBSET Node]
  /\ images \in [Run -> 0..MaxImages]
  /\ pump \in [Run -> Pump]
  /\ seen \in [Run -> SUBSET Node]
  /\ outcome \in [Run -> Outcome]
  /\ abort \in [Run -> AbortPc]
  /\ up \in BOOLEAN
  /\ subscribed \in BOOLEAN
  /\ exec \in [Run -> Exec]
  /\ reported \in [Run -> SUBSET Node]
  /\ crowded \subseteq Run

\* The spinner never outlives the run: while the screen says running, the run
\* started last has not returned, whatever older runs and aborts do to the
\* state they share with it.
SpinnerHasRun == phase = "running" => latest \in Run /\ pc[latest] # "over"

\* A run ends as done only if its own execution succeeded on every node it
\* was asked for, even when only the events told so; unless it overlapped with
\* another run, whose events it cannot tell from its own.
DoneIsEarned ==
  \A r \in Run : outcome[r] = "done" /\ r \notin crowded
                   => nodes[r] \subseteq reported[r]

\* Once its subscription is confirmed, a run that has missed no event of its
\* execution ends even if the terminal output of the stream never comes,
\* unless the execution fails without an event or the engine dies.
EventsEndRun ==
  \A r \in Run :
    (/\ pc[r] = "racing" /\ exec[r] = "running"
     /\ pump[r] = "waiting" /\ seen[r] = reported[r])
      ~> (pc[r] = "over" \/ exec[r] = "failed" \/ ~up)

\* An abort takes the screen out of running, whatever the run was waiting
\* for, unless the engine dies: then the cancel may never be answered.
AbortEndsSpinner ==
  (aborting /\ phase = "running") ~> (phase # "running" \/ ~up)

\* What the comment on abortRun says: "`aborting` stays true so a
\* still-pending ensureImages/startApply also short-circuits".  No image and
\* no execution is requested for a run after its abort.
\* Not kept by the code (README, Disagreements).
AbortedRunAsksNothing ==
  [][\A r \in Run : pc[r] = "image" /\ abort[r] # "none"
                      => pc'[r] \in {"image", "over"} /\ images'[r] = images[r]]_vars

\* What the comment on awaitRun says: "a hung or missing terminal can no
\* longer trap the UI in the running phase", the less so one that came.
\* Not kept by the code (README, Disagreements).
TerminalEndsRun ==
  \A r \in Run : (pc[r] = "stopping" /\ up) ~> (pc[r] = "over" \/ ~up)
=============================================================================
