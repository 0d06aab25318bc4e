---------------------------- MODULE Provisioning ----------------------------
(***************************************************************************)
(* Provisioning runs over the nodes of one Proxmox cluster: the lifecycle  *)
(* a node enforces, the loop of ProvisioningRun that drives it around the  *)
(* external tool for plan, apply and destroy, and everything else that may *)
(* touch a node meanwhile: VM edits, node edits, the operator's            *)
(* acknowledgement of an interruption, cancellation, and a crash of the    *)
(* engine.                                                                 *)
(*                                                                         *)
(* Every change of the aggregate goes through Clusters.update, which is    *)
(* serialized, so each is one action; the awaits around them are where     *)
(* runs and requests interleave.  A VM stands for one specification of it. *)
(***************************************************************************)
EXTENDS Naturals, Sequences, FiniteSets, Functions

CONSTANTS
  Node,            \* the node ids ever registered
  Vm,              \* the VM specifications a client may register
  Run,             \* executions alive at a time (a slot is used again)
  Requests,        \* the node sequences a client may ask a run for
  DispatchMayFail  \* whether a policy or a notification may throw

ASSUME ProvisioningAssumption ==
  /\ Requests \subseteq Seq(Node)
  /\ DispatchMayFail \in BOOLEAN

VARIABLES
  state,      \* [Node -> State or not in the cluster]  clusters.json
  vms,        \* [Node -> SUBSET Vm]  the VMs of the node's spec
  keyed,      \* the nodes whose credential is configured
  infra,      \* [Node -> SUBSET Vm]  the VMs that really exist there
  pc,         \* [Run -> Pc]  where the task of the run is
  phase,      \* [Run -> Phase]
  todo,       \* [Run -> Seq(Node)]  nodeIds still to do, the current first
  snapshot,   \* [Run -> [Node -> SUBSET Vm]]  the cluster as requested
  keys,       \* [Run -> SUBSET Node]  those with a credential in the snapshot
  cancelled,  \* [Run -> BOOLEAN]  execution.signal.aborted
  \* history
  wedged,     \* nodes whose run died with the engine
  contended   \* runs whose node somebody else moved, or had moved, meanwhile

nodeVars == <<state, vms, keyed, infra>>
runVars == <<pc, phase, todo, snapshot, keys, cancelled>>
vars == <<state, vms, keyed, infra, pc, phase, todo, snapshot, keys,
          cancelled, wedged, contended>>

-----------------------------------------------------------------------------
(* The lifecycle of a node.                                                *)

Phase == {"plan", "apply", "destroy"}

Started == [plan |-> "PLAN_STARTED", apply |-> "APPLY_STARTED",
            destroy |-> "DESTROY_STARTED"]
Succeeded == [plan |-> "PLAN_SUCCEEDED", apply |-> "APPLY_SUCCEEDED",
              destroy |-> "DESTROY_SUCCEEDED"]
\* Mutant: a state the lifecycle does not have.
FailedMisspelt == [plan |-> "PLAN_FAILED", apply |-> "APPLY_FAILURE",
                   destroy |-> "DESTROY_FAILED"]

Failed == [plan |-> "PLAN_FAILED", apply |-> "APPLY_FAILED",
           destroy |-> "DESTROY_FAILED"]

State == {"REGISTERED", "PLAN_STARTED", "PLAN_SUCCEEDED", "PLAN_FAILED",
          "APPLY_STARTED", "APPLY_SUCCEEDED", "APPLY_FAILED",
          "DESTROY_STARTED", "DESTROY_SUCCEEDED", "DESTROY_FAILED"}

InCluster(n) == state[n] \in State

\* Mutant: a started apply may be started again.
StartableAgain ==
  [REGISTERED |-> {"plan"},
   PLAN_STARTED |-> {},
   PLAN_SUCCEEDED |-> {"apply", "plan", "destroy"},
   PLAN_FAILED |-> {"plan"},
   APPLY_STARTED |-> {"apply"},
   APPLY_SUCCEEDED |-> {"destroy", "plan"},
   APPLY_FAILED |-> {"apply", "plan", "destroy"},
   DESTROY_STARTED |-> {},
   DESTROY_SUCCEEDED |-> {"plan"},
   DESTROY_FAILED |-> {"destroy", "plan"}]

\* ALLOWED: the phases that may start in a state; a started phase ends in
\* its own success or failure and nowhere else.
Startable ==
  [REGISTERED |-> {"plan"},
   PLAN_STARTED |-> {},
   PLAN_SUCCEEDED |-> {"apply", "plan", "destroy"},
   PLAN_FAILED |-> {"plan"},
   APPLY_STARTED |-> {},
   APPLY_SUCCEEDED |-> {"destroy", "plan"},
   APPLY_FAILED |-> {"apply", "plan", "destroy"},
   DESTROY_STARTED |-> {},
   DESTROY_SUCCEEDED |-> {"plan"},
   DESTROY_FAILED |-> {"destroy", "plan"}]

MayStart(n, p) == InCluster(n) /\ p \in Startable[state[n]]
MayEnd(n, p) == state[n] = Started[p]

\* Mutant: teardown does not lock the VMs.
BusyApplying(n) == state[n] = "APPLY_STARTED"

\* VM_LOCKED_STATES.
Busy(n) == state[n] \in {"APPLY_STARTED", "DESTROY_STARTED"}

-----------------------------------------------------------------------------
(* Runs.                                                                   *)

Pc == {"over", "next", "announceStarted", "tool", "failing", "announceFailed",
       "completing", "announceDone", "rescuing", "announceRescued"}

Current(r) == Head(todo[r])

\* r has moved n to *_STARTED and has not yet tried to move it on.
Drives(r, n) ==
  /\ pc[r] \in {"announceStarted", "tool", "failing", "completing"}
  /\ Current(r) = n

\* A transition of n by one actor takes n from under the others that drive it.
Displace(n, actors) ==
  contended' = contended \cup {r \in Run \ actors : Drives(r, n)}

\* groups: in the snapshot, the node has no credential or no VMs.  It is left
\* out, no tool is called for it, and the task of the node ends well.
Skipped(r) ==
  \/ Current(r) \notin keys[r]
  \/ snapshot[r][Current(r)] = {}

Goto(r, to) ==
  /\ pc' = [pc EXCEPT ![r] = to]
  /\ UNCHANGED <<phase, todo, snapshot, keys, cancelled>>

\* The task is over; nothing of the run is left.
Finish(r) ==
  /\ pc' = [pc EXCEPT ![r] = "over"]
  /\ phase' = [phase EXCEPT ![r] = "plan"]
  /\ todo' = [todo EXCEPT ![r] = <<>>]
  /\ snapshot' = [snapshot EXCEPT ![r] = [n \in Node |-> {}]]
  /\ keys' = [keys EXCEPT ![r] = {}]
  /\ cancelled' = [cancelled EXCEPT ![r] = FALSE]

\* ProvisioningRun.start: the snapshot is taken here, for all the nodes.
Request(r, p, nodes) ==
  /\ pc[r] = "over"
  /\ pc' = [pc EXCEPT ![r] = "next"]
  /\ phase' = [phase EXCEPT ![r] = p]
  /\ todo' = [todo EXCEPT ![r] = nodes]
  /\ snapshot' = [snapshot EXCEPT ![r] = vms]
  /\ keys' = [keys EXCEPT ![r] = keyed]
  /\ UNCHANGED <<cancelled, nodeVars, wedged, contended>>

\* The loop is done: the task returns.
Return(r) ==
  /\ pc[r] = "next" /\ todo[r] = <<>>
  /\ Finish(r)
  /\ UNCHANGED <<nodeVars, wedged, contended>>

\* phase.start, outside the try block: if it throws, so does the task.
StartNode(r) ==
  /\ pc[r] = "next" /\ todo[r] # <<>>
  /\ LET n == Current(r) IN
     IF MayStart(n, phase[r])
     THEN /\ state' = [state EXCEPT ![n] = Started[phase[r]]]
          /\ contended' = contended \cup
               (IF \E q \in Run : Drives(q, n) THEN {r} ELSE {})
          /\ Goto(r, "announceStarted")
     ELSE Finish(r) /\ UNCHANGED <<state, contended>>
  /\ UNCHANGED <<vms, keyed, infra, wedged>>

\* dispatcher.dispatch inside the try block: on to the next step of the run,
\* or, if it throws, to the finally block.
Announce(r, from, to) ==
  /\ pc[r] = from
  /\ \/ Goto(r, to)
     \/ DispatchMayFail /\ Goto(r, "rescuing")
  /\ UNCHANGED <<nodeVars, wedged, contended>>

AnnounceStarted(r) == Announce(r, "announceStarted", "tool")

\* What the tool may leave behind on its node when it is interrupted.
Partial(r) ==
  LET n == Current(r) IN
  IF Skipped(r) \/ phase[r] = "plan" THEN {infra[n]}
  ELSE IF phase[r] = "destroy" THEN SUBSET infra[n]
  ELSE {infra[n] \cap snapshot[r][n]} \cup
       {V \in SUBSET (infra[n] \cup snapshot[r][n]) :
          infra[n] \cap snapshot[r][n] \subseteq V}

\* What an apply or a destroy is to bring about on the node.
Asked(r) == IF phase[r] = "destroy" THEN {} ELSE snapshot[r][Current(r)]

Complete(r) ==
  IF Skipped(r) \/ phase[r] = "plan" THEN infra[Current(r)] ELSE Asked(r)

ToolSucceeds(r) ==
  /\ pc[r] = "tool"
  /\ infra' = [infra EXCEPT ![Current(r)] = Complete(r)]
  /\ Goto(r, "completing")
  /\ UNCHANGED <<state, vms, keyed, wedged, contended>>

\* Mutant: the exit code of the tool is not looked at.
ToolFailsUnnoticed(r) ==
  /\ pc[r] = "tool"
  /\ \E V \in Partial(r) : infra' = [infra EXCEPT ![Current(r)] = V]
  /\ Goto(r, "completing")
  /\ UNCHANGED <<state, vms, keyed, wedged, contended>>

\* Also what cancellation comes to: the signal kills the child process.
ToolFails(r) ==
  /\ pc[r] = "tool"
  /\ \E V \in Partial(r) : infra' = [infra EXCEPT ![Current(r)] = V]
  /\ Goto(r, "failing")
  /\ UNCHANGED <<state, vms, keyed, wedged, contended>>

\* clusters.update with phase.fail or phase.complete, and what follows when
\* the transition is legal and when it throws.
EndNode(r, from, target, to) ==
  LET n == Current(r) IN
  /\ pc[r] = from
  /\ IF MayEnd(n, phase[r])
     THEN /\ state' = [state EXCEPT ![n] = target[phase[r]]]
          /\ Displace(n, {r})
          /\ Goto(r, to)
     ELSE Goto(r, "rescuing") /\ UNCHANGED <<state, contended>>
  /\ UNCHANGED <<vms, keyed, infra, wedged>>

FailNode(r) == EndNode(r, "failing", Failed, "announceFailed")
CompleteNode(r) == EndNode(r, "completing", Succeeded, "announceDone")

\* Mutant: the tool's error is not thrown again, the node is retried.
AnnounceFailedRetry(r) ==
  /\ pc[r] = "announceFailed"
  /\ Goto(r, "next")
  /\ contended' = contended \ {r}
  /\ UNCHANGED <<nodeVars, wedged>>

\* Announced: the tool's error is thrown again, and ends the task.
AnnounceFailed(r) ==
  /\ pc[r] = "announceFailed"
  /\ \/ Finish(r) /\ contended' = contended \ {r}
     \/ DispatchMayFail /\ Goto(r, "rescuing") /\ UNCHANGED contended
  /\ UNCHANGED <<nodeVars, wedged>>

\* Announced: the loop goes on with the next node.
AnnounceDone(r) ==
  /\ pc[r] = "announceDone"
  /\ \/ /\ pc' = [pc EXCEPT ![r] = "next"]
        /\ todo' = [todo EXCEPT ![r] = Tail(@)]
        /\ contended' = contended \ {r}
        /\ UNCHANGED <<phase, snapshot, keys, cancelled>>
     \/ DispatchMayFail /\ Goto(r, "rescuing") /\ UNCHANGED contended
  /\ UNCHANGED <<nodeVars, wedged>>

\* Mutant: no finally block.
RescueNothing(r) ==
  /\ pc[r] = "rescuing"
  /\ Finish(r)
  /\ contended' = contended \ {r}
  /\ UNCHANGED nodeVars
  /\ UNCHANGED wedged

\* The finally block when reachedTerminal is false: phase.fail if it is
\* legal, nothing otherwise.
Rescue(r) ==
  LET n == Current(r) IN
  /\ pc[r] = "rescuing"
  /\ IF MayEnd(n, phase[r])
     THEN /\ state' = [state EXCEPT ![n] = Failed[phase[r]]]
          /\ Displace(n, {r})
          /\ Goto(r, "announceRescued")
     ELSE /\ Finish(r)
          /\ contended' = contended \ {r}
          /\ UNCHANGED state
  /\ UNCHANGED <<vms, keyed, infra, wedged>>

\* Whether the dispatch throws or not, the first error ends the task.
AnnounceRescued(r) ==
  /\ pc[r] = "announceRescued"
  /\ Finish(r)
  /\ contended' = contended \ {r}
  /\ UNCHANGED <<nodeVars, wedged>>

Cancel(r) ==
  /\ pc[r] # "over" /\ ~cancelled[r]
  /\ cancelled' = [cancelled EXCEPT ![r] = TRUE]
  /\ UNCHANGED <<pc, phase, todo, snapshot, keys, nodeVars, wedged, contended>>

-----------------------------------------------------------------------------
(* Everything else that reaches a node.                                    *)

\* The credential of a command may be the marker for "not configured".
WithKey(n, configured) == IF configured THEN keyed \cup {n} ELSE keyed \ {n}

RegisterNode(n, configured) ==
  /\ state[n] = "unregistered"
  /\ state' = [state EXCEPT ![n] = "REGISTERED"]
  /\ keyed' = WithKey(n, configured)
  /\ UNCHANGED <<vms, infra, runVars, wedged, contended>>

\* Nodes.remove asks for a node without VMs, in whatever state.
UnregisterNode(n) ==
  /\ InCluster(n) /\ vms[n] = {}
  /\ state' = [state EXCEPT ![n] = "removed"]
  /\ keyed' = keyed \ {n}
  /\ Displace(n, {})
  /\ wedged' = wedged \ {n}
  /\ UNCHANGED <<vms, infra, runVars>>

UnregisterAllNodes ==
  /\ \A n \in Node : InCluster(n) => vms[n] = {}
  /\ state' = [n \in Node |-> IF InCluster(n) THEN "removed" ELSE state[n]]
  /\ keyed' = {}
  /\ contended' = contended \cup {r \in Run : \E n \in Node : Drives(r, n)}
  /\ wedged' = {}
  /\ UNCHANGED <<vms, infra, runVars>>

\* UpdateNodeHandler builds the replacement without the state argument.
UpdateNode(n, configured) ==
  /\ InCluster(n)
  /\ state' = [state EXCEPT ![n] = "REGISTERED"]
  /\ keyed' = WithKey(n, configured)
  /\ Displace(n, {})
  /\ wedged' = wedged \ {n}
  /\ UNCHANGED <<vms, infra, runVars>>

\* Whatever *_STARTED state it is in, the node becomes *_FAILED.
AcknowledgeInterruption(n) ==
  /\ \E p \in Phase :
       /\ MayEnd(n, p)
       /\ state' = [state EXCEPT ![n] = Failed[p]]
  /\ Displace(n, {})
  /\ wedged' = wedged \ {n}
  /\ UNCHANGED <<vms, keyed, infra, runVars>>

EditVms(n, V) ==
  /\ InCluster(n) /\ ~Busy(n)
  /\ vms' = [vms EXCEPT ![n] = V]
  /\ UNCHANGED <<state, keyed, infra, runVars, wedged, contended>>

RegisterVirtualMachine(n, v) ==
  /\ \A m \in Node : v \notin vms[m]
  /\ EditVms(n, vms[n] \cup {v})

ReplaceVirtualMachine(n, v, w) ==
  /\ v \in vms[n]
  /\ \A m \in Node : w \notin vms[m]
  /\ EditVms(n, (vms[n] \ {v}) \cup {w})

UnregisterVirtualMachine(n, v) ==
  /\ v \in vms[n]
  /\ EditVms(n, vms[n] \ {v})

UnregisterAllVirtualMachines(n) == EditVms(n, {})

\* The engine dies and is started again: the cluster is on disk, the runs are
\* lost, the tools they were running stop where they are.
Crash ==
  /\ \E left \in [Node -> SUBSET Vm] :
       /\ \A n \in Node :
            left[n] \in {infra[n]} \cup UNION {Partial(r) :
                          r \in {q \in Run : pc[q] = "tool" /\ Current(q) = n}}
       /\ infra' = left
  /\ pc' = [r \in Run |-> "over"]
  /\ phase' = [r \in Run |-> "plan"]
  /\ todo' = [r \in Run |-> <<>>]
  /\ snapshot' = [r \in Run |-> [n \in Node |-> {}]]
  /\ keys' = [r \in Run |-> {}]
  /\ cancelled' = [r \in Run |-> FALSE]
  /\ wedged' = {n \in Node : \E p \in Phase : MayEnd(n, p)}
  /\ contended' = {}
  /\ UNCHANGED <<state, vms, keyed>>

-----------------------------------------------------------------------------
Init ==
  /\ state = [n \in Node |-> "unregistered"]
  /\ vms = [n \in Node |-> {}]
  /\ keyed = {}
  /\ infra = [n \in Node |-> {}]
  /\ pc = [r \in Run |-> "over"]
  /\ phase = [r \in Run |-> "plan"]
  /\ todo = [r \in Run |-> <<>>]
  /\ snapshot = [r \in Run |-> [n \in Node |-> {}]]
  /\ keys = [r \in Run |-> {}]
  /\ cancelled = [r \in Run |-> FALSE]
  /\ wedged = {}
  /\ contended = {}

RunStep(r) ==
  \/ Return(r)
  \/ StartNode(r)
  \/ AnnounceStarted(r)
  \/ FailNode(r)
  \/ CompleteNode(r)
  \/ AnnounceFailed(r)
  \/ AnnounceDone(r)
  \/ Rescue(r)
  \/ AnnounceRescued(r)

ToolStep(r) == ToolSucceeds(r) \/ ToolFails(r)

NodeRequest(n) ==
  \/ \E configured \in BOOLEAN :
       RegisterNode(n, configured) \/ UpdateNode(n, configured)
  \/ UnregisterNode(n)
  \/ AcknowledgeInterruption(n)
  \/ \E v \in Vm : RegisterVirtualMachine(n, v)
  \/ \E v, w \in Vm : ReplaceVirtualMachine(n, v, w)
  \/ \E v \in Vm : UnregisterVirtualMachine(n, v)
  \/ UnregisterAllVirtualMachines(n)

Next ==
  \/ \E r \in Run :
       \/ \E p \in Phase, nodes \in Requests : Request(r, p, nodes)
       \/ RunStep(r)
       \/ ToolStep(r)
       \/ Cancel(r)
  \/ \E n \in Node : NodeRequest(n)
  \/ UnregisterAllNodes
  \/ Crash

Spec == Init /\ [][Next]_vars

\* The event loop resumes every run whose await is over.  A tool may hang, but
\* not once its run is cancelled: the abort signal kills it.
Fairness ==
  \A r \in Run :
    /\ WF_vars(RunStep(r))
    /\ WF_vars(cancelled[r] /\ ToolStep(r))

FairSpec == Spec /\ Fairness

-----------------------------------------------------------------------------
(* Properties.                                                             *)

TypeOK ==
  /\ state \in [Node -> State \cup {"unregistered", "removed"}]
  /\ vms \in [Node -> SUBSET Vm]
  /\ keyed \subseteq Node
  /\ infra \in [Node -> SUBSET Vm]
  /\ pc \in [Run -> Pc]
  /\ phase \in [Run -> Phase]
  /\ todo \in [Run -> Seq(Node)]
  /\ snapshot \in [Run -> [Node -> SUBSET Vm]]
  /\ keys \in [Run -> SUBSET Node]
  /\ cancelled \in [Run -> BOOLEAN]
  /\ wedged \subseteq Node
  /\ contended \subseteq Run

\* No node is left in *_STARTED: one that is there has a live run whose next
\* transition will take it out (or a crash left it there, for the operator to
\* acknowledge).  "leaving a node stuck is strictly worse than a noisy log"
\* (provisioning-run.ts): whichever dispatch throws, whoever interferes.
StartedHasDriver ==
  \A n \in Node, p \in Phase :
    state[n] = Started[p] /\ n \notin wedged =>
      \E r \in Run :
        /\ phase[r] = p
        /\ Drives(r, n) \/ (pc[r] = "rescuing" /\ Current(r) = n)

\* The node's state is what keeps runs apart, there is no other lock: two
\* tools never work on one node at once, unless somebody moved the node while
\* a run was driving it.
ToolExclusive ==
  \A r, q \in Run :
    /\ r # q
    /\ pc[r] = "tool" /\ pc[q] = "tool"
    /\ Current(r) = Current(q)
    => {r, q} \subseteq contended

\* The VMs of a node do not change while a tool creates or destroys them
\* (VM_LOCKED_STATES), unless the node was moved from under its run.
VmsLocked ==
  [][\A r \in Run :
       /\ pc[r] = "tool" /\ phase[r] # "plan" /\ r \notin contended
       => vms'[Current(r)] = vms[Current(r)]]_vars

\* A node reaches APPLY_SUCCEEDED or DESTROY_SUCCEEDED only when the run that
\* drove it there has made its infrastructure what it was asked for, or had left
\* the node out altogether: such a success says nothing (SuccessMeansDone).
SuccessIsReal ==
  [][\A n \in Node, p \in {"apply", "destroy"} :
       state[n] # state'[n] /\ state'[n] = Succeeded[p] =>
         \E r \in Run :
           /\ pc[r] = "completing" /\ phase[r] = p /\ Current(r) = n
           /\ r \in contended \/ Skipped(r) \/ infra[n] = Asked(r)]_vars

\* A cancelled execution ends, whatever its tool does; by StartedHasDriver it
\* leaves no node behind in *_STARTED.
CancelEnds == \A r \in Run : cancelled[r] ~> pc[r] = "over"

\* destroy "tears down a re-planned one", "real infra is never stranded"
\* (node.ts): a success is one for every node, the ones left out included.
\* Not kept by the code (README, Disagreements).
SuccessMeansDone ==
  [][\A r \in Run :
       LET n == Current(r) IN
       /\ pc[r] = "completing" /\ pc'[r] = "announceDone"
       /\ phase[r] # "plan" /\ r \notin contended
       => infra[n] = Asked(r)]_vars

\* "provisioning is actively creating/tearing down this node's VMs from their
\* current spec" (node.ts): the tool works from the VMs the node has.
\* Not kept by the code (README, Disagreements).
AppliesCurrentSpec ==
  \A r \in Run :
    pc[r] = "tool" /\ phase[r] = "apply" /\ r \notin contended
      => snapshot[r][Current(r)] = vms[Current(r)]
=============================================================================
