------------------------- MODULE ProvisioningProofs -------------------------
(***************************************************************************)
(* Proofs about Provisioning, for any nodes, VMs, runs and requests.       *)
(***************************************************************************)
EXTENDS Provisioning, SequenceTheorems, TLAPS

\* A run that is past the head of its loop has a current node.
HasCurrent ==
  \A r \in Run : pc[r] \notin {"over", "next"} => todo[r] # <<>>

\* Who has moved n to *_STARTED and is still to move it on.
Holds(r, n) == Drives(r, n) \/ (pc[r] = "rescuing" /\ Current(r) = n)


\* The node a run works on is a node.
LEMMA CurrentIsNode ==
  ASSUME NEW r \in Run, TypeOK, todo[r] # <<>>
  PROVE  Current(r) \in Node
BY DEF TypeOK, Current

\* The tables of the three phases have states for values, all different.
LEMMA PhaseStates ==
  /\ \A p \in Phase :
       Started[p] \in State /\ Succeeded[p] \in State /\ Failed[p] \in State
  /\ \A p, q \in Phase :
       /\ Started[p] = Started[q] => p = q
       /\ Started[p] # Succeeded[q]
       /\ Started[p] # Failed[q]
       /\ Started[p] # "REGISTERED"
       /\ Started[p] # "removed"
       /\ Started[p] # "unregistered"
BY DEF Phase, Started, Succeeded, Failed, State

\* A started phase is not started again, by any run.
LEMMA StartedIsNotStartable ==
  ASSUME NEW n, NEW p \in Phase, NEW q \in Phase, state[n] = Started[p]
  PROVE  ~MayStart(n, q)
BY DEF Phase, Started, MayStart, Startable

\* What the tool leaves behind is a set of VMs.
LEMMA ToolLeavesVms ==
  ASSUME NEW r \in Run, TypeOK, todo[r] # <<>>
  PROVE  /\ Complete(r) \in SUBSET Vm
         /\ Partial(r) \subseteq SUBSET Vm
<1>1. Current(r) \in Node
  BY CurrentIsNode
<1>2. infra[Current(r)] \in SUBSET Vm /\ snapshot[r][Current(r)] \in SUBSET Vm
  BY <1>1 DEF TypeOK
<1>3. Complete(r) \in SUBSET Vm
  BY <1>2 DEF Complete, Asked
<1>4. Partial(r) \subseteq SUBSET Vm
  BY <1>2 DEF Partial
<1> QED
  BY <1>3, <1>4

-----------------------------------------------------------------------------
(* Type correctness.                                                       *)

LEMMA FinishKeepsTypes ==
  ASSUME NEW r \in Run, TypeOK, Finish(r)
  PROVE  /\ pc' \in [Run -> Pc]
         /\ phase' \in [Run -> Phase]
         /\ todo' \in [Run -> Seq(Node)]
         /\ snapshot' \in [Run -> [Node -> SUBSET Vm]]
         /\ keys' \in [Run -> SUBSET Node]
         /\ cancelled' \in [Run -> BOOLEAN]
<1>1. pc' \in [Run -> Pc]
  BY DEF TypeOK, Finish, Pc
<1>2. phase' \in [Run -> Phase]
  BY DEF TypeOK, Finish, Phase
<1>3. todo' \in [Run -> Seq(Node)]
  BY DEF TypeOK, Finish
<1>4. snapshot' \in [Run -> [Node -> SUBSET Vm]]
  <2>1. [n \in Node |-> {}] \in [Node -> SUBSET Vm]
    OBVIOUS
  <2> QED
    BY <2>1 DEF TypeOK, Finish
<1>5. keys' \in [Run -> SUBSET Node]
  BY DEF TypeOK, Finish
<1>6. cancelled' \in [Run -> BOOLEAN]
  BY DEF TypeOK, Finish
<1> QED
  BY <1>1, <1>2, <1>3, <1>4, <1>5, <1>6

LEMMA GotoKeepsTypes ==
  ASSUME NEW r \in Run, NEW to \in Pc, TypeOK, Goto(r, to)
  PROVE  /\ pc' \in [Run -> Pc]
         /\ phase' \in [Run -> Phase]
         /\ todo' \in [Run -> Seq(Node)]
         /\ snapshot' \in [Run -> [Node -> SUBSET Vm]]
         /\ keys' \in [Run -> SUBSET Node]
         /\ cancelled' \in [Run -> BOOLEAN]
BY DEF TypeOK, Goto

LEMMA RunStepKeepsTypes ==
  ASSUME NEW r \in Run, TypeOK, HasCurrent, RunStep(r)
  PROVE  TypeOK'
<1> DEFINE RunTypes == /\ pc' \in [Run -> Pc]
                       /\ phase' \in [Run -> Phase]
                       /\ todo' \in [Run -> Seq(Node)]
                       /\ snapshot' \in [Run -> [Node -> SUBSET Vm]]
                       /\ keys' \in [Run -> SUBSET Node]
                       /\ cancelled' \in [Run -> BOOLEAN]
           NodeTypes == /\ state' \in [Node -> State \cup {"unregistered", "removed"}]
                        /\ vms' \in [Node -> SUBSET Vm]
                        /\ keyed' \subseteq Node
                        /\ infra' \in [Node -> SUBSET Vm]
           Ghosts == wedged' \subseteq Node /\ contended' \subseteq Run
<1>f. Finish(r) => RunTypes
  BY FinishKeepsTypes
<1>g. \A to \in Pc : Goto(r, to) => RunTypes
  BY GotoKeepsTypes
<1>n. UNCHANGED nodeVars => NodeTypes
  BY DEF TypeOK, nodeVars
<1>s. ASSUME NEW n, NEW s \in State, state' = [state EXCEPT ![n] = s],
             UNCHANGED <<vms, keyed, infra>>
      PROVE  NodeTypes
  BY <1>s DEF TypeOK
<1>p. phase[r] \in Phase
  BY DEF TypeOK
<1>1. CASE Return(r)
  <2>1. RunTypes
    BY <1>1, <1>f DEF Return
  <2>2. NodeTypes /\ Ghosts
    BY <1>1, <1>n DEF Return, TypeOK
  <2> QED
    BY <2>1, <2>2 DEF TypeOK
<1>2. CASE StartNode(r)
  <2>1. CASE MayStart(Current(r), phase[r])
    <3>1. RunTypes
      BY <1>2, <2>1, <1>g DEF StartNode, Pc
    <3>2. NodeTypes
      BY <1>2, <2>1, <1>s, <1>p, PhaseStates DEF StartNode
    <3>3. Ghosts
      BY <1>2, <2>1 DEF StartNode, TypeOK
    <3> QED
      BY <3>1, <3>2, <3>3 DEF TypeOK
  <2>2. CASE ~MayStart(Current(r), phase[r])
    <3>1. RunTypes
      BY <1>2, <2>2, <1>f DEF StartNode
    <3>2. NodeTypes /\ Ghosts
      BY <1>2, <2>2 DEF StartNode, TypeOK
    <3> QED
      BY <3>1, <3>2 DEF TypeOK
  <2> QED
    BY <2>1, <2>2
<1>3. CASE AnnounceStarted(r)
  <2>1. RunTypes
    BY <1>3, <1>g DEF AnnounceStarted, Announce, Pc
  <2>2. NodeTypes /\ Ghosts
    BY <1>3, <1>n DEF AnnounceStarted, Announce, TypeOK
  <2> QED
    BY <2>1, <2>2 DEF TypeOK
<1>4. ASSUME NEW from, NEW target, NEW to \in Pc, EndNode(r, from, target, to),
             target[phase[r]] \in State
      PROVE  TypeOK'
  <2>1. RunTypes
    <3>1. "rescuing" \in Pc
      BY DEF Pc
    <3> QED
      BY <1>4, <1>g, <3>1 DEF EndNode
  <2>2. NodeTypes
    <3>1. CASE MayEnd(Current(r), phase[r])
      BY <1>4, <3>1, <1>s DEF EndNode
    <3>2. CASE ~MayEnd(Current(r), phase[r])
      BY <1>4, <3>2 DEF EndNode, TypeOK
    <3> QED
      BY <3>1, <3>2
  <2>3. Ghosts
    BY <1>4 DEF EndNode, Displace, TypeOK
  <2> QED
    BY <2>1, <2>2, <2>3 DEF TypeOK
<1>5. CASE FailNode(r) \/ CompleteNode(r)
  <2>1. "announceFailed" \in Pc /\ "announceDone" \in Pc
    BY DEF Pc
  <2>2. Failed[phase[r]] \in State /\ Succeeded[phase[r]] \in State
    BY <1>p, PhaseStates
  <2> QED
    BY <1>4, <1>5, <2>1, <2>2 DEF FailNode, CompleteNode
<1>6. CASE AnnounceFailed(r)
  <2>1. RunTypes
    BY <1>6, <1>f, <1>g DEF AnnounceFailed, Pc
  <2>2. NodeTypes /\ Ghosts
    BY <1>6, <1>n DEF AnnounceFailed, TypeOK
  <2> QED
    BY <2>1, <2>2 DEF TypeOK
<1>7. CASE AnnounceDone(r)
  <2>1. RunTypes
    <3>1. CASE Goto(r, "rescuing")
      BY <3>1, <1>g DEF Pc
    <3>2. CASE /\ pc' = [pc EXCEPT ![r] = "next"]
               /\ todo' = [todo EXCEPT ![r] = Tail(@)]
               /\ UNCHANGED <<phase, snapshot, keys, cancelled>>
      <4>1. todo[r] \in Seq(Node) /\ todo[r] # <<>>
        BY <1>7 DEF TypeOK, HasCurrent, AnnounceDone
      <4>2. Tail(todo[r]) \in Seq(Node)
        BY <4>1
      <4>3. pc' \in [Run -> Pc]
        BY <3>2 DEF TypeOK, Pc
      <4>4. todo' \in [Run -> Seq(Node)]
        BY <3>2, <4>2 DEF TypeOK
      <4> QED
        BY <3>2, <4>3, <4>4 DEF TypeOK
    <3> QED
      BY <1>7, <3>1, <3>2 DEF AnnounceDone
  <2>2. NodeTypes /\ Ghosts
    BY <1>7, <1>n DEF AnnounceDone, TypeOK
  <2> QED
    BY <2>1, <2>2 DEF TypeOK
<1>8. CASE Rescue(r)
  <2>1. CASE MayEnd(Current(r), phase[r])
    <3>1. RunTypes
      BY <1>8, <2>1, <1>g DEF Rescue, Pc
    <3>2. NodeTypes
      BY <1>8, <2>1, <1>s, <1>p, PhaseStates DEF Rescue
    <3>3. Ghosts
      BY <1>8, <2>1 DEF Rescue, Displace, TypeOK
    <3> QED
      BY <3>1, <3>2, <3>3 DEF TypeOK
  <2>2. CASE ~MayEnd(Current(r), phase[r])
    <3>1. RunTypes
      BY <1>8, <2>2, <1>f DEF Rescue
    <3>2. NodeTypes /\ Ghosts
      BY <1>8, <2>2 DEF Rescue, TypeOK
    <3> QED
      BY <3>1, <3>2 DEF TypeOK
  <2> QED
    BY <2>1, <2>2
<1>9. CASE AnnounceRescued(r)
  <2>1. RunTypes
    BY <1>9, <1>f DEF AnnounceRescued
  <2>2. NodeTypes /\ Ghosts
    BY <1>9, <1>n DEF AnnounceRescued, TypeOK
  <2> QED
    BY <2>1, <2>2 DEF TypeOK
<1> QED
  BY <1>1, <1>2, <1>3, <1>5, <1>6, <1>7, <1>8, <1>9 DEF RunStep

LEMMA ToolStepKeepsTypes ==
  ASSUME NEW r \in Run, TypeOK, HasCurrent, ToolStep(r)
  PROVE  TypeOK'
<1>1. todo[r] # <<>>
  BY DEF HasCurrent, ToolStep, ToolSucceeds, ToolFails
<1>2. infra' \in [Node -> SUBSET Vm]
  <2>1. Complete(r) \in SUBSET Vm /\ Partial(r) \subseteq SUBSET Vm
    BY <1>1, ToolLeavesVms
  <2>2. CASE ToolSucceeds(r)
    BY <2>1, <2>2 DEF ToolSucceeds, TypeOK
  <2>3. CASE ToolFails(r)
    <3>1. PICK V \in Partial(r) : infra' = [infra EXCEPT ![Current(r)] = V]
      BY <2>3 DEF ToolFails
    <3>2. V \in SUBSET Vm
      BY <2>1
    <3> QED
      BY <3>1, <3>2 DEF TypeOK
  <2> QED
    BY <2>2, <2>3 DEF ToolStep
<1>3. /\ pc' \in [Run -> Pc]
      /\ phase' \in [Run -> Phase]
      /\ todo' \in [Run -> Seq(Node)]
      /\ snapshot' \in [Run -> [Node -> SUBSET Vm]]
      /\ keys' \in [Run -> SUBSET Node]
      /\ cancelled' \in [Run -> BOOLEAN]
  <2>1. PICK to \in Pc : Goto(r, to)
    BY DEF ToolStep, ToolSucceeds, ToolFails, Pc
  <2> QED
    BY <2>1, GotoKeepsTypes
<1>4. UNCHANGED <<state, vms, keyed, wedged, contended>>
  BY DEF ToolStep, ToolSucceeds, ToolFails
<1> QED
  BY <1>2, <1>3, <1>4 DEF TypeOK

LEMMA RequestKeepsTypes ==
  ASSUME TypeOK, NEW r \in Run, NEW p \in Phase, NEW nodes \in Requests,
         Request(r, p, nodes) \/ Cancel(r)
  PROVE  TypeOK'
<1>1. CASE Request(r, p, nodes)
  <2>1. pc' \in [Run -> Pc]
    BY <1>1 DEF TypeOK, Request, Pc
  <2>2. /\ phase' \in [Run -> Phase]
        /\ snapshot' \in [Run -> [Node -> SUBSET Vm]]
        /\ keys' \in [Run -> SUBSET Node]
    BY <1>1 DEF TypeOK, Request
  <2>3. todo' \in [Run -> Seq(Node)]
    BY <1>1, ProvisioningAssumption DEF TypeOK, Request
  <2> QED
    BY <1>1, <2>1, <2>2, <2>3 DEF TypeOK, Request, nodeVars
<1>2. CASE Cancel(r)
  BY <1>2 DEF TypeOK, Cancel, nodeVars
<1> QED
  BY <1>1, <1>2

LEMMA NodeRequestKeepsTypes ==
  ASSUME TypeOK, NEW n \in Node, NodeRequest(n)
  PROVE  TypeOK'
<1>1. ASSUME NEW s \in State \cup {"removed"}, state' = [state EXCEPT ![n] = s],
             UNCHANGED <<vms, infra, runVars>>,
             keyed' \subseteq keyed \cup {n},
             wedged' \subseteq wedged,
             Displace(n, {}) \/ UNCHANGED contended
      PROVE  TypeOK'
  <2>1. state' \in [Node -> State \cup {"unregistered", "removed"}]
    BY <1>1 DEF TypeOK
  <2>2. contended' \subseteq Run
    BY <1>1 DEF TypeOK, Displace
  <2> QED
    BY <1>1, <2>1, <2>2 DEF TypeOK, runVars
<1>2. ASSUME NEW V \in SUBSET Vm, EditVms(n, V)
      PROVE  TypeOK'
  BY <1>2 DEF TypeOK, EditVms, runVars
<1>3. CASE \E configured \in BOOLEAN : RegisterNode(n, configured)
  BY <1>1, <1>3 DEF RegisterNode, WithKey, State
<1>4. CASE UnregisterNode(n)
  BY <1>1, <1>4 DEF UnregisterNode
<1>5. CASE \E configured \in BOOLEAN : UpdateNode(n, configured)
  BY <1>1, <1>5 DEF UpdateNode, WithKey, State
<1>6. CASE AcknowledgeInterruption(n)
  BY <1>1, <1>6, PhaseStates DEF AcknowledgeInterruption
<1>v. vms[n] \in SUBSET Vm
  BY DEF TypeOK
<1>7. CASE \E v \in Vm : RegisterVirtualMachine(n, v)
  BY <1>2, <1>7, <1>v DEF RegisterVirtualMachine
<1>8. CASE \E v, w \in Vm : ReplaceVirtualMachine(n, v, w)
  BY <1>2, <1>8, <1>v DEF ReplaceVirtualMachine
<1>9. CASE \E v \in Vm : UnregisterVirtualMachine(n, v)
  BY <1>2, <1>9, <1>v DEF UnregisterVirtualMachine
<1>10. CASE UnregisterAllVirtualMachines(n)
  BY <1>2, <1>10 DEF UnregisterAllVirtualMachines
<1> QED
  BY <1>3, <1>4, <1>5, <1>6, <1>7, <1>8, <1>9, <1>10 DEF NodeRequest

LEMMA UnregisterAllNodesKeepsTypes ==
  ASSUME TypeOK, UnregisterAllNodes
  PROVE  TypeOK'
<1>1. state' \in [Node -> State \cup {"unregistered", "removed"}]
  BY DEF TypeOK, UnregisterAllNodes, InCluster
<1>2. contended' \subseteq Run /\ wedged' \subseteq Node
  BY DEF TypeOK, UnregisterAllNodes
<1> QED
  BY <1>1, <1>2 DEF TypeOK, UnregisterAllNodes, runVars

LEMMA CrashKeepsTypes ==
  ASSUME TypeOK, Crash
  PROVE  TypeOK'
<1>1. pc' \in [Run -> Pc] /\ phase' \in [Run -> Phase]
  BY DEF Crash, Pc, Phase
<1>2. todo' \in [Run -> Seq(Node)]
  BY DEF Crash
<1>3. snapshot' \in [Run -> [Node -> SUBSET Vm]]
  <2>1. [n \in Node |-> {}] \in [Node -> SUBSET Vm]
    OBVIOUS
  <2> QED
    BY <2>1 DEF Crash
<1>4. cancelled' \in [Run -> BOOLEAN]
  BY DEF Crash
<1>5. infra' \in [Node -> SUBSET Vm] /\ keys' \in [Run -> SUBSET Node]
  BY DEF Crash
<1>6. UNCHANGED <<state, vms, keyed>> /\ wedged' \subseteq Node /\ contended' \subseteq Run
  BY DEF Crash
<1> QED
  BY <1>1, <1>2, <1>3, <1>4, <1>5, <1>6 DEF TypeOK

LEMMA TypeOKStep == TypeOK /\ HasCurrent /\ [Next]_vars => TypeOK'
<1> SUFFICES ASSUME TypeOK, HasCurrent, [Next]_vars
             PROVE  TypeOK'
  OBVIOUS
<1>1. ASSUME NEW r \in Run, NEW p \in Phase, NEW nodes \in Requests,
             Request(r, p, nodes)
      PROVE  TypeOK'
  BY <1>1, RequestKeepsTypes
<1>2. ASSUME NEW r \in Run, RunStep(r)
      PROVE  TypeOK'
  BY <1>2, RunStepKeepsTypes
<1>3. ASSUME NEW r \in Run, ToolStep(r)
      PROVE  TypeOK'
  BY <1>3, ToolStepKeepsTypes
<1>4. ASSUME NEW r \in Run, Cancel(r)
      PROVE  TypeOK'
  BY <1>4 DEF TypeOK, Cancel, nodeVars
<1>5. ASSUME NEW n \in Node, NodeRequest(n)
      PROVE  TypeOK'
  BY <1>5, NodeRequestKeepsTypes
<1>6. CASE UnregisterAllNodes
  BY <1>6, UnregisterAllNodesKeepsTypes
<1>7. CASE Crash
  BY <1>7, CrashKeepsTypes
<1>8. CASE UNCHANGED vars
  BY <1>8 DEF TypeOK, vars
<1> QED
  BY <1>1, <1>2, <1>3, <1>4, <1>5, <1>6, <1>7, <1>8 DEF Next

-----------------------------------------------------------------------------
(* Every run past its loop's head has a node to work on.                   *)

LEMMA HasCurrentStep == TypeOK /\ HasCurrent /\ [Next]_vars => HasCurrent'
<1> SUFFICES ASSUME TypeOK, HasCurrent, [Next]_vars
             PROVE  HasCurrent'
  OBVIOUS
<1>g. ASSUME NEW r \in Run, NEW to, Goto(r, to), todo[r] # <<>>
      PROVE  HasCurrent'
  BY <1>g DEF HasCurrent, Goto, TypeOK
<1>f. ASSUME NEW r \in Run, Finish(r)
      PROVE  HasCurrent'
  BY <1>f DEF HasCurrent, Finish, TypeOK
<1>1. ASSUME NEW r \in Run, NEW p \in Phase, NEW nodes \in Requests,
             Request(r, p, nodes)
      PROVE  HasCurrent'
  BY <1>1 DEF HasCurrent, Request, TypeOK
<1>2. ASSUME NEW r \in Run, RunStep(r)
      PROVE  HasCurrent'
  <2>1. CASE Return(r)
    BY <2>1, <1>f DEF Return
  <2>2. CASE StartNode(r)
    BY <2>2, <1>f, <1>g DEF StartNode
  <2>3. CASE AnnounceStarted(r)
    BY <2>3, <1>g DEF AnnounceStarted, Announce, HasCurrent
  <2>4. CASE FailNode(r) \/ CompleteNode(r)
    BY <2>4, <1>g DEF FailNode, CompleteNode, EndNode, HasCurrent
  <2>5. CASE AnnounceFailed(r)
    BY <2>5, <1>f, <1>g DEF AnnounceFailed, HasCurrent
  <2>6. CASE AnnounceDone(r)
    <3>1. CASE Goto(r, "rescuing")
      BY <2>6, <3>1, <1>g DEF AnnounceDone, HasCurrent
    <3>2. CASE /\ pc' = [pc EXCEPT ![r] = "next"]
               /\ todo' = [todo EXCEPT ![r] = Tail(@)]
      BY <3>2 DEF HasCurrent, TypeOK
    <3> QED
      BY <2>6, <3>1, <3>2 DEF AnnounceDone
  <2>7. CASE Rescue(r)
    BY <2>7, <1>f, <1>g DEF Rescue, HasCurrent
  <2>8. CASE AnnounceRescued(r)
    BY <2>8, <1>f DEF AnnounceRescued
  <2> QED
    BY <1>2, <2>1, <2>2, <2>3, <2>4, <2>5, <2>6, <2>7, <2>8 DEF RunStep
<1>3. ASSUME NEW r \in Run, ToolStep(r)
      PROVE  HasCurrent'
  BY <1>3, <1>g DEF ToolStep, ToolSucceeds, ToolFails, HasCurrent
<1>4. CASE UNCHANGED <<pc, todo>>
  BY <1>4 DEF HasCurrent
<1>5. ASSUME NEW n \in Node, NodeRequest(n)
      PROVE  UNCHANGED <<pc, todo>>
  BY <1>5 DEF NodeRequest, RegisterNode, UnregisterNode, UpdateNode,
       AcknowledgeInterruption, RegisterVirtualMachine, ReplaceVirtualMachine,
       UnregisterVirtualMachine, UnregisterAllVirtualMachines, EditVms, runVars
<1>6. CASE UnregisterAllNodes
  BY <1>6, <1>4 DEF UnregisterAllNodes, runVars
<1>7. CASE Crash
  BY <1>7 DEF HasCurrent, Crash
<1>8. ASSUME NEW r \in Run, Cancel(r)
      PROVE  HasCurrent'
  BY <1>8, <1>4 DEF Cancel
<1>9. CASE UNCHANGED vars
  BY <1>9, <1>4 DEF vars
<1> QED
  BY <1>1, <1>2, <1>3, <1>4, <1>5, <1>6, <1>7, <1>8, <1>9 DEF Next

-----------------------------------------------------------------------------
(* No node is stuck.                                                       *)

\* A step after which every node in *_STARTED was there before, and is held
\* by the run that held it then.
LEMMA NothingNewStarted ==
  ASSUME StartedHasDriver,
         \A n \in Node, p \in Phase :
           state'[n] = Started[p] /\ n \notin wedged'
             => state[n] = Started[p] /\ n \notin wedged,
         \A n \in Node, r \in Run :
           Holds(r, n) /\ state'[n] = Started[phase[r]]
             => Holds(r, n)' /\ phase'[r] = phase[r]
  PROVE  StartedHasDriver'
<1> SUFFICES ASSUME NEW n \in Node, NEW p \in Phase,
                    state'[n] = Started[p], n \notin wedged'
             PROVE  \E r \in Run : phase'[r] = p /\ Holds(r, n)'
  BY DEF StartedHasDriver, Holds
<1>1. state[n] = Started[p] /\ n \notin wedged
  OBVIOUS
<1>2. PICK r \in Run : phase[r] = p /\ Holds(r, n)
  BY <1>1 DEF StartedHasDriver, Holds
<1>3. Holds(r, n)' /\ phase'[r] = p
  BY <1>2
<1> QED
  BY <1>3

\* A step of r leaves what the other runs hold alone.
LEMMA OthersHold ==
  ASSUME TypeOK, NEW r \in Run, Finish(r) \/ \E to : Goto(r, to),
         NEW q \in Run \ {r}, NEW n
  PROVE  Holds(q, n)' = Holds(q, n) /\ phase'[q] = phase[q]
BY DEF TypeOK, Finish, Goto, Holds, Drives, Current

LEMMA RunStepKeepsDrivers ==
  ASSUME TypeOK, HasCurrent, StartedHasDriver, NEW r \in Run, RunStep(r)
  PROVE  StartedHasDriver'
<1>p. phase[r] \in Phase
  BY DEF TypeOK
\* r holds nothing, and no state changes.
<1>a. ASSUME UNCHANGED <<state, wedged>>, Finish(r) \/ \E to : Goto(r, to),
             \A n \in Node : ~Holds(r, n)
      PROVE  StartedHasDriver'
  BY <1>a, OthersHold, NothingNewStarted
\* r still holds what it held, and no state changes.
<1>b. ASSUME UNCHANGED <<state, wedged>>, NEW to, Goto(r, to),
             to \in {"tool", "rescuing"}
      PROVE  StartedHasDriver'
  <2>1. \A n \in Node : Holds(r, n) => Holds(r, n)' /\ phase'[r] = phase[r]
    BY <1>b DEF Holds, Drives, Current, Goto, TypeOK
  <2> QED
    BY <1>b, <2>1, OthersHold, NothingNewStarted
\* r ends the phase of its current node.
<1>c. ASSUME NEW s, state' = [state EXCEPT ![Current(r)] = s],
             \A p \in Phase : s # Started[p],
             UNCHANGED wedged, NEW to, Goto(r, to), todo[r] # <<>>,
             \A n \in Node : Holds(r, n) => n = Current(r)
      PROVE  StartedHasDriver'
  <2>1. Current(r) \in Node
    BY <1>c, CurrentIsNode
  <2>2. \A n \in Node, p \in Phase : state'[n] = Started[p] =>
          n # Current(r) /\ state[n] = Started[p]
    BY <1>c, <2>1 DEF TypeOK
  <2>3. \A q \in Run : phase[q] \in Phase
    BY DEF TypeOK
  <2>4. ASSUME NEW n \in Node, NEW q \in Run, Holds(q, n),
               state'[n] = Started[phase[q]]
        PROVE  Holds(q, n)' /\ phase'[q] = phase[q]
    <3>1. q # r
      BY <1>c, <2>2, <2>3, <2>4
    <3> QED
      BY <1>c, <2>4, <3>1, OthersHold
  <2> QED
    BY <1>c, <2>2, <2>4, NothingNewStarted
<1>d. \A n \in Node : Holds(r, n) => n = Current(r)
  BY DEF Holds, Drives
<1>1. CASE Return(r)
  <2>1. \A n \in Node : ~Holds(r, n)
    BY <1>1 DEF Return, Holds, Drives
  <2> QED
    BY <1>1, <2>1, <1>a DEF Return, nodeVars
<1>2. CASE StartNode(r)
  <2>1. \A n \in Node : ~Holds(r, n)
    BY <1>2 DEF StartNode, Holds, Drives
  <2>2. CASE ~MayStart(Current(r), phase[r])
    BY <1>2, <2>1, <2>2, <1>a DEF StartNode
  <2>3. CASE MayStart(Current(r), phase[r])
    <3>1. /\ state' = [state EXCEPT ![Current(r)] = Started[phase[r]]]
          /\ Goto(r, "announceStarted")
          /\ wedged' = wedged
      BY <1>2, <2>3 DEF StartNode
    <3>2. Holds(r, Current(r))' /\ phase'[r] = phase[r]
      BY <3>1 DEF Goto, Holds, Drives, Current, TypeOK
    <3>3. Current(r)' = Current(r)
      BY <3>1 DEF Goto, Current
    <3> SUFFICES ASSUME NEW n \in Node, NEW p \in Phase,
                        state'[n] = Started[p], n \notin wedged
                 PROVE  \E q \in Run : phase'[q] = p /\ Holds(q, n)'
      BY <3>1 DEF StartedHasDriver, Holds
    <3>4. CASE n = Current(r)
      <4>1. state'[n] = Started[phase[r]]
        BY <3>1, <3>4 DEF TypeOK
      <4>2. phase[r] = p
        BY <4>1, <1>p, PhaseStates
      <4>3. Holds(r, n)'
        BY <3>1, <3>4 DEF Goto, Holds, Drives, Current, TypeOK
      <4> QED
        BY <3>2, <4>2, <4>3
    <3>5. CASE n # Current(r)
      <4>1. state[n] = Started[p]
        BY <3>1, <3>5 DEF TypeOK
      <4>2. PICK q \in Run : phase[q] = p /\ Holds(q, n)
        BY <4>1 DEF StartedHasDriver, Holds
      <4>3. q # r
        BY <2>1, <4>2
      <4> QED
        BY <3>1, <4>2, <4>3, OthersHold
    <3> QED
      BY <3>4, <3>5
  <2> QED
    BY <2>2, <2>3
<1>3. CASE AnnounceStarted(r)
  BY <1>3, <1>b DEF AnnounceStarted, Announce, nodeVars
<1>4. ASSUME NEW from, NEW target, NEW to, EndNode(r, from, target, to),
             \A p \in Phase : target[phase[r]] # Started[p], todo[r] # <<>>
      PROVE  StartedHasDriver'
  <2>1. CASE MayEnd(Current(r), phase[r])
    <3>1. /\ state' = [state EXCEPT ![Current(r)] = target[phase[r]]]
          /\ Goto(r, to)
          /\ wedged' = wedged
      BY <1>4, <2>1 DEF EndNode
    <3> QED
      BY <1>4, <3>1, <1>c, <1>d
  <2>2. CASE ~MayEnd(Current(r), phase[r])
    BY <1>4, <2>2, <1>b DEF EndNode
  <2> QED
    BY <2>1, <2>2
<1>5. CASE FailNode(r) \/ CompleteNode(r)
  <2>1. todo[r] # <<>>
    BY <1>5 DEF HasCurrent, FailNode, CompleteNode, EndNode
  <2>2. \A p \in Phase : /\ Failed[phase[r]] # Started[p]
                         /\ Succeeded[phase[r]] # Started[p]
    BY <1>p, PhaseStates
  <2> QED
    BY <1>4, <1>5, <2>1, <2>2 DEF FailNode, CompleteNode
<1>6. CASE AnnounceFailed(r)
  <2>1. \A n \in Node : ~Holds(r, n)
    BY <1>6 DEF AnnounceFailed, Holds, Drives
  <2> QED
    BY <1>6, <2>1, <1>a DEF AnnounceFailed, nodeVars
<1>7. CASE AnnounceDone(r)
  <2>1. \A n \in Node : ~Holds(r, n)
    BY <1>7 DEF AnnounceDone, Holds, Drives
  <2>2. CASE Goto(r, "rescuing")
    BY <1>7, <2>1, <2>2, <1>a DEF AnnounceDone, nodeVars
  <2>3. CASE /\ pc' = [pc EXCEPT ![r] = "next"]
             /\ todo' = [todo EXCEPT ![r] = Tail(@)]
             /\ UNCHANGED <<phase, snapshot, keys, cancelled>>
    <3>1. \A q \in Run \ {r}, n \in Node : Holds(q, n)' = Holds(q, n)
      BY <2>3 DEF Holds, Drives, Current, TypeOK
    <3> QED
      BY <1>7, <2>1, <2>3, <3>1, NothingNewStarted DEF AnnounceDone, nodeVars
  <2> QED
    BY <1>7, <2>2, <2>3 DEF AnnounceDone
<1>8. CASE Rescue(r)
  <2>1. todo[r] # <<>>
    BY <1>8 DEF HasCurrent, Rescue
  <2>2. CASE MayEnd(Current(r), phase[r])
    <3>1. /\ state' = [state EXCEPT ![Current(r)] = Failed[phase[r]]]
          /\ Goto(r, "announceRescued")
          /\ wedged' = wedged
      BY <1>8, <2>2 DEF Rescue
    <3>2. \A p \in Phase : Failed[phase[r]] # Started[p]
      BY <1>p, PhaseStates
    <3> QED
      BY <2>1, <3>1, <3>2, <1>c, <1>d
  <2>3. CASE ~MayEnd(Current(r), phase[r])
    <3>1. Finish(r) /\ UNCHANGED <<state, wedged>>
      BY <1>8, <2>3 DEF Rescue
    <3>2. \A n \in Node : Holds(r, n) => state'[n] # Started[phase[r]]
      BY <2>3, <3>1, <1>d DEF MayEnd
    <3> QED
      BY <3>1, <3>2, OthersHold, NothingNewStarted
  <2> QED
    BY <2>2, <2>3
<1>9. CASE AnnounceRescued(r)
  <2>1. \A n \in Node : ~Holds(r, n)
    BY <1>9 DEF AnnounceRescued, Holds, Drives
  <2> QED
    BY <1>9, <2>1, <1>a DEF AnnounceRescued, nodeVars
<1> QED
  BY <1>1, <1>2, <1>3, <1>5, <1>6, <1>7, <1>8, <1>9 DEF RunStep

LEMMA NodeRequestKeepsDrivers ==
  ASSUME TypeOK, StartedHasDriver, NEW n \in Node, NodeRequest(n)
  PROVE  StartedHasDriver'
<1>1. UNCHANGED runVars
  BY DEF NodeRequest, RegisterNode, UnregisterNode, UpdateNode,
     AcknowledgeInterruption, RegisterVirtualMachine, ReplaceVirtualMachine,
     UnregisterVirtualMachine, UnregisterAllVirtualMachines, EditVms
<1>2. \A m \in Node, r \in Run :
        Holds(r, m) => Holds(r, m)' /\ phase'[r] = phase[r]
  BY <1>1 DEF Holds, Drives, Current, runVars
<1>3. ASSUME NEW s, state' = [state EXCEPT ![n] = s],
             \A p \in Phase : s # Started[p],
             wedged' = wedged \/ wedged' = wedged \ {n}
      PROVE  StartedHasDriver'
  <2>1. \A m \in Node, p \in Phase :
          state'[m] = Started[p] => m # n /\ state[m] = Started[p]
    BY <1>3 DEF TypeOK
  <2> QED
    BY <1>2, <1>3, <2>1, NothingNewStarted
<1>4. CASE UNCHANGED <<state, wedged>>
  BY <1>2, <1>4, NothingNewStarted
<1>5. CASE \/ \E configured \in BOOLEAN :
                RegisterNode(n, configured) \/ UpdateNode(n, configured)
           \/ UnregisterNode(n)
  <2>1. /\ \/ state' = [state EXCEPT ![n] = "REGISTERED"]
           \/ state' = [state EXCEPT ![n] = "removed"]
        /\ wedged' = wedged \/ wedged' = wedged \ {n}
    BY <1>5 DEF RegisterNode, UnregisterNode, UpdateNode
  <2>2. \A p \in Phase : "REGISTERED" # Started[p] /\ "removed" # Started[p]
    BY PhaseStates
  <2>3. CASE state' = [state EXCEPT ![n] = "REGISTERED"]
    BY <1>3, <2>1, <2>2, <2>3
  <2>4. CASE state' = [state EXCEPT ![n] = "removed"]
    BY <1>3, <2>1, <2>2, <2>4
  <2> QED
    BY <2>1, <2>3, <2>4
<1>6. CASE AcknowledgeInterruption(n)
  <2>1. PICK q \in Phase : state' = [state EXCEPT ![n] = Failed[q]]
    BY <1>6 DEF AcknowledgeInterruption
  <2>2. \A p \in Phase : Failed[q] # Started[p]
    BY PhaseStates
  <2>3. wedged' = wedged \ {n}
    BY <1>6 DEF AcknowledgeInterruption
  <2> QED
    BY <1>3, <2>1, <2>2, <2>3
<1>7. CASE \/ \E v \in Vm : RegisterVirtualMachine(n, v)
           \/ \E v, w \in Vm : ReplaceVirtualMachine(n, v, w)
           \/ \E v \in Vm : UnregisterVirtualMachine(n, v)
           \/ UnregisterAllVirtualMachines(n)
  BY <1>4, <1>7 DEF RegisterVirtualMachine, ReplaceVirtualMachine,
     UnregisterVirtualMachine, UnregisterAllVirtualMachines, EditVms
<1> QED
  BY <1>5, <1>6, <1>7 DEF NodeRequest

LEMMA StartedHasDriverStep ==
  TypeOK /\ HasCurrent /\ StartedHasDriver /\ [Next]_vars => StartedHasDriver'
<1> SUFFICES ASSUME TypeOK, HasCurrent, StartedHasDriver, [Next]_vars
             PROVE  StartedHasDriver'
  OBVIOUS
<1>a. CASE UNCHANGED <<state, wedged, pc, todo, phase>>
  <2>1. \A n \in Node, r \in Run :
          Holds(r, n) => Holds(r, n)' /\ phase'[r] = phase[r]
    BY <1>a DEF Holds, Drives, Current
  <2> QED
    BY <1>a, <2>1, NothingNewStarted
<1>1. ASSUME NEW r \in Run, NEW p \in Phase, NEW nodes \in Requests,
             Request(r, p, nodes)
      PROVE  StartedHasDriver'
  <2>1. \A n \in Node, q \in Run : Holds(q, n) =>
          q # r /\ Holds(q, n)' /\ phase'[q] = phase[q]
    BY <1>1 DEF Request, Holds, Drives, Current, TypeOK
  <2> QED
    BY <1>1, <2>1, NothingNewStarted DEF Request, nodeVars
<1>2. ASSUME NEW r \in Run, RunStep(r)
      PROVE  StartedHasDriver'
  BY <1>2, RunStepKeepsDrivers
<1>3. ASSUME NEW r \in Run, ToolStep(r)
      PROVE  StartedHasDriver'
  <2>1. PICK to \in {"completing", "failing"} : Goto(r, to)
    BY <1>3 DEF ToolStep, ToolSucceeds, ToolFails
  <2>2. \A n \in Node : Holds(r, n) => Holds(r, n)' /\ phase'[r] = phase[r]
    BY <2>1 DEF Holds, Drives, Current, Goto, TypeOK
  <2>3. UNCHANGED <<state, wedged>>
    BY <1>3 DEF ToolStep, ToolSucceeds, ToolFails
  <2> QED
    BY <2>1, <2>2, <2>3, OthersHold, NothingNewStarted
<1>4. ASSUME NEW r \in Run, Cancel(r)
      PROVE  StartedHasDriver'
  BY <1>4, <1>a DEF Cancel, nodeVars
<1>5. ASSUME NEW n \in Node, NodeRequest(n)
      PROVE  StartedHasDriver'
  BY <1>5, NodeRequestKeepsDrivers
<1>6. CASE UnregisterAllNodes
  <2>1. \A n \in Node : state'[n] = "removed" \/ state'[n] = "unregistered"
    BY <1>6 DEF UnregisterAllNodes, InCluster, TypeOK
  <2>2. \A n \in Node, p \in Phase : state'[n] # Started[p]
    BY <2>1, PhaseStates
  <2> QED
    BY <2>2 DEF StartedHasDriver
<1>7. CASE Crash
  BY <1>7 DEF Crash, MayEnd, StartedHasDriver
<1>8. CASE UNCHANGED vars
  BY <1>8, <1>a DEF vars
<1> QED
  BY <1>1, <1>2, <1>3, <1>4, <1>5, <1>6, <1>7, <1>8 DEF Next

-----------------------------------------------------------------------------
(* No two tools on one node.                                               *)

\* A run that was not interfered with finds its node as it left it.
Owns ==
  \A r \in Run, n \in Node :
    Drives(r, n) /\ r \notin contended => state[n] = Started[phase[r]]

\* Runs that drive one node all know of it as contended.
Paired ==
  \A r, q \in Run, n \in Node :
    r # q /\ Drives(r, n) /\ Drives(q, n) => {r, q} \subseteq contended

\* A step after which no run drives a node it did not drive before, and the
\* runs whose node has changed are contended.
LEMMA NothingNewDriven ==
  ASSUME Owns, Paired,
         \A q \in Run, n \in Node : Drives(q, n)' =>
           /\ Drives(q, n) /\ phase'[q] = phase[q]
           /\ q \in contended => q \in contended'
           /\ q \in contended' \/ state'[n] = state[n]
  PROVE  Owns' /\ Paired'
<1>1. Owns'
  <2> SUFFICES ASSUME NEW q \in Run, NEW n \in Node, Drives(q, n)',
                      q \notin contended'
               PROVE  state'[n] = Started[phase'[q]]
    BY DEF Owns
  <2> QED
    BY DEF Owns
<1>2. Paired'
  <2> SUFFICES ASSUME NEW r \in Run, NEW q \in Run, NEW n \in Node, r # q,
                      Drives(r, n)', Drives(q, n)'
               PROVE  r \in contended' /\ q \in contended'
    BY DEF Paired
  <2> QED
    BY DEF Paired
<1> QED
  BY <1>1, <1>2

\* A step of r leaves what the other runs drive alone.
LEMMA OthersDrive ==
  ASSUME TypeOK, NEW r \in Run, Finish(r) \/ \E to : Goto(r, to),
         NEW q \in Run \ {r}, NEW n
  PROVE  Drives(q, n)' = Drives(q, n) /\ phase'[q] = phase[q]
BY DEF TypeOK, Finish, Goto, Drives, Current

LEMMA FinishDrivesNothing ==
  ASSUME TypeOK, NEW r \in Run, Finish(r), NEW n
  PROVE  ~Drives(r, n)'
BY DEF TypeOK, Finish, Drives

LEMMA GotoDrives ==
  ASSUME TypeOK, NEW r \in Run, NEW to, Goto(r, to), NEW n,
         pc[r] \in {"announceStarted", "tool", "failing", "completing"}
           \/ to \notin {"announceStarted", "tool", "failing", "completing"},
         Drives(r, n)'
  PROVE  Drives(r, n) /\ phase'[r] = phase[r]
BY DEF TypeOK, Goto, Drives, Current

LEMMA RunStepKeepsExclusive ==
  ASSUME TypeOK, HasCurrent, Owns, Paired, NEW r \in Run, RunStep(r)
  PROVE  Owns' /\ Paired'
<1> DEFINE Driving == {"announceStarted", "tool", "failing", "completing"}
<1>p. phase[r] \in Phase
  BY DEF TypeOK
\* r ends, and nothing else changes.
<1>f. ASSUME Finish(r), state' = state,
             contended' = contended \/ contended' = contended \ {r}
      PROVE  Owns' /\ Paired'
  <2>1. ASSUME NEW q \in Run, NEW n \in Node, Drives(q, n)'
        PROVE  /\ Drives(q, n) /\ phase'[q] = phase[q]
               /\ q \in contended => q \in contended'
    <3>1. q # r
      BY <1>f, <2>1, FinishDrivesNothing
    <3> QED
      BY <1>f, <2>1, <3>1, OthersDrive
  <2> QED
    BY <1>f, <2>1, NothingNewDriven
\* r goes on, without starting to drive.
<1>g. ASSUME NEW to, Goto(r, to), UNCHANGED <<state, contended>>,
             pc[r] \in Driving \/ to \notin Driving
      PROVE  Owns' /\ Paired'
  <2>1. ASSUME NEW q \in Run, NEW n \in Node, Drives(q, n)'
        PROVE  Drives(q, n) /\ phase'[q] = phase[q]
    <3>1. CASE q = r
      BY <1>g, <2>1, <3>1, GotoDrives
    <3>2. CASE q # r
      BY <1>g, <2>1, <3>2, OthersDrive
    <3> QED
      BY <3>1, <3>2
  <2> QED
    BY <1>g, <2>1, NothingNewDriven
\* r moves its node out of *_STARTED and displaces the others that drive it.
<1>e. ASSUME NEW s, state' = [state EXCEPT ![Current(r)] = s],
             Displace(Current(r), {r}), NEW to, Goto(r, to), to \notin Driving
      PROVE  Owns' /\ Paired'
  <2>1. ASSUME NEW q \in Run, NEW n \in Node, Drives(q, n)'
        PROVE  /\ Drives(q, n) /\ phase'[q] = phase[q]
               /\ q \in contended => q \in contended'
               /\ q \in contended' \/ state'[n] = state[n]
    <3>1. q # r
      BY <1>e, <2>1 DEF Goto, Drives, TypeOK
    <3>2. Drives(q, n) /\ phase'[q] = phase[q]
      BY <1>e, <2>1, <3>1, OthersDrive
    <3>3. CASE n = Current(r)
      BY <1>e, <3>1, <3>2, <3>3 DEF Displace
    <3>4. CASE n # Current(r)
      BY <1>e, <3>2, <3>4 DEF Displace, TypeOK
    <3> QED
      BY <3>2, <3>3, <3>4
  <2> QED
    BY <2>1, NothingNewDriven
<1>1. CASE Return(r)
  BY <1>1, <1>f DEF Return, nodeVars
<1>2. CASE StartNode(r)
  <2>1. CASE ~MayStart(Current(r), phase[r])
    BY <1>2, <2>1, <1>f DEF StartNode
  <2>2. CASE MayStart(Current(r), phase[r])
    <3> DEFINE c == Current(r)
    <3>1. /\ state' = [state EXCEPT ![c] = Started[phase[r]]]
          /\ Goto(r, "announceStarted")
          /\ contended' = contended \cup
               (IF \E q \in Run : Drives(q, c) THEN {r} ELSE {})
          /\ todo[r] # <<>>
      BY <1>2, <2>2 DEF StartNode
    <3>2. c \in Node
      BY <3>1, CurrentIsNode
    <3>3. \A n : ~Drives(r, n)
      BY <1>2 DEF StartNode, Drives
    <3>4. \A n : Drives(r, n)' => n = c
      BY <3>1 DEF Goto, Drives, Current
    <3>5. phase'[r] = phase[r]
      BY <3>1 DEF Goto
    <3>6. \A q \in Run \ {r}, n \in Node :
            Drives(q, n)' => Drives(q, n) /\ phase'[q] = phase[q]
      BY <3>1, OthersDrive
    <3>7. \A q \in Run : Drives(q, c) => q \in contended
      <4> SUFFICES ASSUME NEW q \in Run, Drives(q, c), q \notin contended
                   PROVE  FALSE
        OBVIOUS
      <4>1. state[c] = Started[phase[q]]
        BY <3>2 DEF Owns
      <4>2. phase[q] \in Phase
        BY DEF TypeOK
      <4> QED
        BY <4>1, <4>2, <2>2, <1>p, StartedIsNotStartable
    <3>8. Owns'
      <4> SUFFICES ASSUME NEW q \in Run, NEW n \in Node, Drives(q, n)',
                          q \notin contended'
                   PROVE  state'[n] = Started[phase'[q]]
        BY DEF Owns
      <4>1. CASE q = r
        BY <3>1, <3>2, <3>4, <3>5, <4>1 DEF TypeOK
      <4>2. CASE q # r
        <5>1. Drives(q, n) /\ phase'[q] = phase[q] /\ q \notin contended
          BY <3>1, <3>6, <4>2
        <5>2. n # c
          BY <3>7, <5>1
        <5> QED
          BY <3>1, <5>1, <5>2 DEF Owns, TypeOK
      <4> QED
        BY <4>1, <4>2
    <3>9. Paired'
      <4>1. ASSUME NEW q \in Run \ {r}, NEW n \in Node,
                   Drives(r, n)', Drives(q, n)'
            PROVE  r \in contended' /\ q \in contended'
        <5>1. Drives(q, c)
          BY <3>4, <3>6, <4>1
        <5> QED
          BY <3>1, <3>7, <5>1
      <4>2. ASSUME NEW q \in Run \ {r}, NEW t \in Run \ {r}, NEW n \in Node,
                   q # t, Drives(q, n)', Drives(t, n)'
            PROVE  q \in contended' /\ t \in contended'
        <5>1. Drives(q, n) /\ Drives(t, n)
          BY <3>6, <4>2
        <5>2. q \in contended /\ t \in contended
          BY <4>2, <5>1 DEF Paired
        <5> QED
          BY <3>1, <5>2
      <4> QED
        BY <4>1, <4>2 DEF Paired
    <3> QED
      BY <3>8, <3>9
  <2> QED
    BY <2>1, <2>2
<1>3. CASE AnnounceStarted(r)
  BY <1>3, <1>g DEF AnnounceStarted, Announce, nodeVars
<1>4. ASSUME NEW from \in Driving, NEW target, NEW to, to \notin Driving,
             EndNode(r, from, target, to)
      PROVE  Owns' /\ Paired'
  <2>1. CASE MayEnd(Current(r), phase[r])
    BY <1>4, <2>1, <1>e DEF EndNode
  <2>2. CASE ~MayEnd(Current(r), phase[r])
    BY <1>4, <2>2, <1>g DEF EndNode
  <2> QED
    BY <2>1, <2>2
<1>5. CASE FailNode(r)
  BY <1>5, <1>4 DEF FailNode
<1>6. CASE CompleteNode(r)
  BY <1>6, <1>4 DEF CompleteNode
<1>7. CASE AnnounceFailed(r)
  <2>1. CASE Finish(r) /\ contended' = contended \ {r}
    BY <1>7, <2>1, <1>f DEF AnnounceFailed, nodeVars
  <2>2. CASE Goto(r, "rescuing") /\ UNCHANGED contended
    BY <1>7, <2>2, <1>g DEF AnnounceFailed, nodeVars
  <2> QED
    BY <1>7, <2>1, <2>2 DEF AnnounceFailed
<1>8. CASE AnnounceDone(r)
  <2>1. CASE Goto(r, "rescuing") /\ UNCHANGED contended
    BY <1>8, <2>1, <1>g DEF AnnounceDone, nodeVars
  <2>2. CASE /\ pc' = [pc EXCEPT ![r] = "next"]
             /\ todo' = [todo EXCEPT ![r] = Tail(@)]
             /\ contended' = contended \ {r}
             /\ UNCHANGED <<phase, snapshot, keys, cancelled>>
    <3>1. \A n : ~Drives(r, n)'
      BY <2>2 DEF Drives, TypeOK
    <3>2. \A q \in Run \ {r}, n \in Node : Drives(q, n)' = Drives(q, n)
      BY <2>2 DEF Drives, Current, TypeOK
    <3>3. state' = state
      BY <1>8 DEF AnnounceDone, nodeVars
    <3>4. ASSUME NEW q \in Run, NEW n \in Node, Drives(q, n)'
          PROVE  /\ Drives(q, n) /\ phase'[q] = phase[q]
                 /\ q \in contended => q \in contended'
      <4>1. q # r
        BY <3>1, <3>4
      <4> QED
        BY <2>2, <3>2, <3>4, <4>1
    <3> QED
      BY <3>3, <3>4, NothingNewDriven
  <2> QED
    BY <1>8, <2>1, <2>2 DEF AnnounceDone
<1>9. CASE Rescue(r)
  <2>1. CASE MayEnd(Current(r), phase[r])
    BY <1>9, <2>1, <1>e DEF Rescue
  <2>2. CASE ~MayEnd(Current(r), phase[r])
    BY <1>9, <2>2, <1>f DEF Rescue
  <2> QED
    BY <2>1, <2>2
<1>10. CASE AnnounceRescued(r)
  BY <1>10, <1>f DEF AnnounceRescued, nodeVars
<1> QED
  BY <1>1, <1>2, <1>3, <1>5, <1>6, <1>7, <1>8, <1>9, <1>10 DEF RunStep

LEMMA NodeRequestKeepsExclusive ==
  ASSUME TypeOK, Owns, Paired, NEW n \in Node, NodeRequest(n)
  PROVE  Owns' /\ Paired'
<1>1. UNCHANGED runVars
  BY DEF NodeRequest, RegisterNode, UnregisterNode, UpdateNode,
     AcknowledgeInterruption, RegisterVirtualMachine, ReplaceVirtualMachine,
     UnregisterVirtualMachine, UnregisterAllVirtualMachines, EditVms
<1>2. \A q \in Run, m \in Node :
        Drives(q, m)' = Drives(q, m) /\ phase'[q] = phase[q]
  BY <1>1 DEF Drives, Current, runVars
<1>3. ASSUME NEW s, state' = [state EXCEPT ![n] = s], Displace(n, {})
      PROVE  Owns' /\ Paired'
  <2>1. ASSUME NEW q \in Run, NEW m \in Node, Drives(q, m)'
        PROVE  /\ q \in contended => q \in contended'
               /\ q \in contended' \/ state'[m] = state[m]
    <3>1. CASE m = n
      BY <1>2, <1>3, <2>1, <3>1 DEF Displace
    <3>2. CASE m # n
      BY <1>3, <3>2 DEF Displace, TypeOK
    <3> QED
      BY <3>1, <3>2
  <2> QED
    BY <1>2, <2>1, NothingNewDriven
<1>4. CASE UNCHANGED <<state, contended>>
  BY <1>2, <1>4, NothingNewDriven
\* A node that is not in the cluster yet is driven only by contended runs.
<1>5. CASE \E configured \in BOOLEAN : RegisterNode(n, configured)
  <2>1. /\ state' = [state EXCEPT ![n] = "REGISTERED"]
        /\ state[n] = "unregistered"
        /\ contended' = contended
    BY <1>5 DEF RegisterNode
  <2>2. ASSUME NEW q \in Run, Drives(q, n)
        PROVE  q \in contended
    <3>1. phase[q] \in Phase
      BY DEF TypeOK
    <3>2. state[n] # Started[phase[q]]
      BY <2>1, <3>1, PhaseStates
    <3> QED
      BY <2>2, <3>2 DEF Owns
  <2>3. ASSUME NEW q \in Run, NEW m \in Node, Drives(q, m)'
        PROVE  q \in contended' \/ state'[m] = state[m]
    <3>1. CASE m = n
      BY <1>2, <2>1, <2>2, <2>3, <3>1
    <3>2. CASE m # n
      BY <2>1, <3>2 DEF TypeOK
    <3> QED
      BY <3>1, <3>2
  <2> QED
    BY <1>2, <2>1, <2>3, NothingNewDriven
<1>6. CASE UnregisterNode(n)
  BY <1>3, <1>6 DEF UnregisterNode
<1>7. CASE \E configured \in BOOLEAN : UpdateNode(n, configured)
  BY <1>3, <1>7 DEF UpdateNode
<1>8. CASE AcknowledgeInterruption(n)
  <2>1. PICK q \in Phase : state' = [state EXCEPT ![n] = Failed[q]]
    BY <1>8 DEF AcknowledgeInterruption
  <2>2. Displace(n, {})
    BY <1>8 DEF AcknowledgeInterruption
  <2> QED
    BY <1>3, <2>1, <2>2
<1>9. CASE \/ \E v \in Vm : RegisterVirtualMachine(n, v)
           \/ \E v, w \in Vm : ReplaceVirtualMachine(n, v, w)
           \/ \E v \in Vm : UnregisterVirtualMachine(n, v)
           \/ UnregisterAllVirtualMachines(n)
  BY <1>4, <1>9 DEF RegisterVirtualMachine, ReplaceVirtualMachine,
     UnregisterVirtualMachine, UnregisterAllVirtualMachines, EditVms
<1> QED
  BY <1>5, <1>6, <1>7, <1>8, <1>9 DEF NodeRequest

LEMMA ExclusiveStep ==
  TypeOK /\ HasCurrent /\ Owns /\ Paired /\ [Next]_vars => Owns' /\ Paired'
<1> SUFFICES ASSUME TypeOK, HasCurrent, Owns, Paired, [Next]_vars
             PROVE  Owns' /\ Paired'
  OBVIOUS
<1>a. CASE UNCHANGED <<state, contended, pc, todo, phase>>
  <2>1. \A q \in Run, n \in Node : Drives(q, n)' => Drives(q, n)
    BY <1>a DEF Drives, Current
  <2> QED
    BY <1>a, <2>1, NothingNewDriven
<1>1. ASSUME NEW r \in Run, NEW p \in Phase, NEW nodes \in Requests,
             Request(r, p, nodes)
      PROVE  Owns' /\ Paired'
  <2>1. \A q \in Run, n \in Node : Drives(q, n)' =>
          Drives(q, n) /\ phase'[q] = phase[q]
    BY <1>1 DEF Request, Drives, Current, TypeOK
  <2> QED
    BY <1>1, <2>1, NothingNewDriven DEF Request, nodeVars
<1>2. ASSUME NEW r \in Run, RunStep(r)
      PROVE  Owns' /\ Paired'
  BY <1>2, RunStepKeepsExclusive
<1>3. ASSUME NEW r \in Run, ToolStep(r)
      PROVE  Owns' /\ Paired'
  <2>1. PICK to \in {"completing", "failing"} : Goto(r, to)
    BY <1>3 DEF ToolStep, ToolSucceeds, ToolFails
  <2>2. pc[r] = "tool" /\ UNCHANGED <<state, contended>>
    BY <1>3 DEF ToolStep, ToolSucceeds, ToolFails
  <2>3. ASSUME NEW q \in Run, NEW n \in Node, Drives(q, n)'
        PROVE  Drives(q, n) /\ phase'[q] = phase[q]
    <3>1. CASE q = r
      BY <2>1, <2>2, <2>3, <3>1, GotoDrives
    <3>2. CASE q # r
      BY <2>1, <2>3, <3>2, OthersDrive
    <3> QED
      BY <3>1, <3>2
  <2> QED
    BY <2>2, <2>3, NothingNewDriven
<1>4. ASSUME NEW r \in Run, Cancel(r)
      PROVE  Owns' /\ Paired'
  BY <1>4, <1>a DEF Cancel, nodeVars
<1>5. ASSUME NEW n \in Node, NodeRequest(n)
      PROVE  Owns' /\ Paired'
  BY <1>5, NodeRequestKeepsExclusive
<1>6. CASE UnregisterAllNodes
  <2>1. \A q \in Run, n \in Node : Drives(q, n)' =>
          Drives(q, n) /\ phase'[q] = phase[q]
    BY <1>6 DEF UnregisterAllNodes, runVars, Drives, Current
  <2>2. \A q \in Run, n \in Node : Drives(q, n) => q \in contended'
    BY <1>6 DEF UnregisterAllNodes
  <2> QED
    BY <2>1, <2>2, NothingNewDriven
<1>7. CASE Crash
  BY <1>7 DEF Crash, Owns, Paired, Drives
<1>8. CASE UNCHANGED vars
  BY <1>8, <1>a DEF vars
<1> QED
  BY <1>1, <1>2, <1>3, <1>4, <1>5, <1>6, <1>7, <1>8 DEF Next

-----------------------------------------------------------------------------
(* What a run reports is what its tool has made.                           *)

\* Once the tool of a run has succeeded, and until that is recorded, the
\* infrastructure of its node is as the run made it.
Made ==
  \A r \in Run :
    pc[r] = "completing" /\ r \notin contended
      => infra[Current(r)] = Complete(r)

\* A step that changes neither the infrastructure, nor what a run that is
\* completing has in hand.
LEMMA NothingNewMade ==
  ASSUME Made,
         \A r \in Run : pc'[r] = "completing" /\ r \notin contended' =>
           /\ pc[r] = "completing" /\ r \notin contended
           /\ infra'[Current(r)] = infra[Current(r)]
           /\ todo'[r] = todo[r] /\ phase'[r] = phase[r]
           /\ snapshot'[r] = snapshot[r] /\ keys'[r] = keys[r]
  PROVE  Made'
<1> SUFFICES ASSUME NEW r \in Run, pc'[r] = "completing", r \notin contended'
             PROVE  infra'[Current(r)'] = Complete(r)'
  BY DEF Made
<1>1. Current(r)' = Current(r)
  BY DEF Current
<1>2. infra[Current(r)] = Complete(r)
  BY DEF Made
<1>3. Complete(r)' = Complete(r)
  BY <1>1 DEF Complete, Asked, Skipped
<1> QED
  BY <1>1, <1>2, <1>3

LEMMA MadeStep ==
  TypeOK /\ HasCurrent /\ Paired /\ Made /\ [Next]_vars => Made'
<1> SUFFICES ASSUME TypeOK, HasCurrent, Paired, Made, [Next]_vars
             PROVE  Made'
  OBVIOUS
\* r goes on without having completed its tool, and infra is left alone.
<1>g. ASSUME NEW r \in Run, NEW to, Goto(r, to), to # "completing",
             infra' = infra, contended \subseteq contended' \cup {r}
      PROVE  Made'
  BY <1>g, NothingNewMade DEF Goto, TypeOK
<1>f. ASSUME NEW r \in Run, Finish(r), infra' = infra,
             contended \subseteq contended' \cup {r}
      PROVE  Made'
  BY <1>f, NothingNewMade DEF Finish, TypeOK
<1>1. ASSUME NEW r \in Run, NEW p \in Phase, NEW nodes \in Requests,
             Request(r, p, nodes)
      PROVE  Made'
  BY <1>1, NothingNewMade DEF Request, nodeVars, TypeOK
<1>2. ASSUME NEW r \in Run, RunStep(r)
      PROVE  Made'
  <2>1. CASE Return(r)
    BY <2>1, <1>f DEF Return, nodeVars
  <2>2. CASE StartNode(r)
    BY <2>2, <1>f, <1>g DEF StartNode
  <2>3. CASE AnnounceStarted(r)
    BY <2>3, <1>g DEF AnnounceStarted, Announce, nodeVars
  <2>4. CASE FailNode(r) \/ CompleteNode(r)
    BY <2>4, <1>g DEF FailNode, CompleteNode, EndNode, Displace
  <2>5. CASE AnnounceFailed(r)
    BY <2>5, <1>f, <1>g DEF AnnounceFailed, nodeVars
  <2>6. CASE AnnounceDone(r)
    <3>1. CASE Goto(r, "rescuing") /\ UNCHANGED contended
      BY <2>6, <3>1, <1>g DEF AnnounceDone, nodeVars
    <3>2. CASE /\ pc' = [pc EXCEPT ![r] = "next"]
               /\ todo' = [todo EXCEPT ![r] = Tail(@)]
               /\ contended' = contended \ {r}
               /\ UNCHANGED <<phase, snapshot, keys, cancelled>>
      BY <2>6, <3>2, NothingNewMade DEF AnnounceDone, nodeVars, TypeOK
    <3> QED
      BY <2>6, <3>1, <3>2 DEF AnnounceDone
  <2>7. CASE Rescue(r)
    BY <2>7, <1>f, <1>g DEF Rescue, Displace
  <2>8. CASE AnnounceRescued(r)
    BY <2>8, <1>f DEF AnnounceRescued, nodeVars
  <2> QED
    BY <1>2, <2>1, <2>2, <2>3, <2>4, <2>5, <2>6, <2>7, <2>8 DEF RunStep
\* The tool of r reaches only the node that r drives.
<1>3. ASSUME NEW r \in Run, ToolStep(r)
      PROVE  Made'
  <2>1. PICK to : Goto(r, to)
    BY <1>3 DEF ToolStep, ToolSucceeds, ToolFails
  <2>2. /\ pc[r] = "tool" /\ contended' = contended
        /\ \E V : infra' = [infra EXCEPT ![Current(r)] = V]
    BY <1>3 DEF ToolStep, ToolSucceeds, ToolFails
  <2>3. Current(r) \in Node
    BY <2>2, CurrentIsNode DEF HasCurrent
  <2> SUFFICES ASSUME NEW q \in Run, pc'[q] = "completing", q \notin contended'
               PROVE  infra'[Current(q)'] = Complete(q)'
    BY DEF Made
  <2>4. /\ Current(q)' = Current(q)
        /\ phase'[q] = phase[q]
        /\ snapshot'[q] = snapshot[q] /\ keys'[q] = keys[q]
    BY <2>1 DEF Goto, Current
  <2>5. CASE q = r
    <3>1. infra' = [infra EXCEPT ![Current(r)] = Complete(r)]
      BY <1>3, <2>5 DEF ToolStep, ToolSucceeds, ToolFails, Goto, TypeOK
    <3>2. infra'[Current(r)] = Complete(r)
      BY <2>3, <3>1 DEF TypeOK
    <3> QED
      BY <2>4, <2>5, <3>2 DEF Complete, Asked, Skipped
  <2>6. CASE q # r
    <3>1. pc[q] = "completing" /\ q \notin contended
      BY <2>1, <2>2, <2>6 DEF Goto, TypeOK
    <3>2. Current(q) # Current(r)
      <4>1. Drives(q, Current(q)) /\ Drives(r, Current(r))
        BY <2>2, <3>1 DEF Drives
      <4> QED
        BY <2>3, <2>6, <3>1, <4>1 DEF Paired
    <3>3. infra'[Current(q)] = infra[Current(q)]
      BY <2>2, <3>2
    <3>4. infra[Current(q)] = Complete(q)
      BY <3>1 DEF Made
    <3> QED
      BY <2>4, <3>3, <3>4 DEF Complete, Asked, Skipped
  <2> QED
    BY <2>5, <2>6
<1>4. CASE /\ UNCHANGED <<infra, pc, todo, phase, snapshot, keys>>
           /\ contended \subseteq contended'
  BY <1>4, NothingNewMade
<1>5. ASSUME NEW r \in Run, Cancel(r)
      PROVE  Made'
  BY <1>5, <1>4 DEF Cancel, nodeVars
<1>6. ASSUME NEW n \in Node, NodeRequest(n)
      PROVE  Made'
  <2>1. UNCHANGED runVars /\ infra' = infra /\ contended \subseteq contended'
    BY <1>6 DEF NodeRequest, RegisterNode, UnregisterNode, UpdateNode,
       AcknowledgeInterruption, RegisterVirtualMachine, ReplaceVirtualMachine,
       UnregisterVirtualMachine, UnregisterAllVirtualMachines, EditVms, Displace
  <2> QED
    BY <2>1, <1>4 DEF runVars
<1>7. CASE UnregisterAllNodes
  BY <1>7, <1>4 DEF UnregisterAllNodes, runVars
<1>8. CASE Crash
  BY <1>8 DEF Crash, Made
<1>9. CASE UNCHANGED vars
  BY <1>9, <1>4 DEF vars
<1> QED
  BY <1>1, <1>2, <1>3, <1>5, <1>6, <1>7, <1>8, <1>9 DEF Next

-----------------------------------------------------------------------------
(* Theorems.                                                               *)

IInv == TypeOK /\ HasCurrent /\ StartedHasDriver /\ Owns /\ Paired /\ Made

LEMMA IInvInit == Init => IInv
<1> SUFFICES ASSUME Init PROVE IInv
  OBVIOUS
<1>1. TypeOK
  <2>1. [n \in Node |-> {}] \in [Node -> SUBSET Vm]
    OBVIOUS
  <2> QED
    BY <2>1 DEF Init, TypeOK, Pc, Phase
<1>2. HasCurrent
  BY DEF Init, HasCurrent
<1>3. StartedHasDriver
  BY PhaseStates DEF Init, StartedHasDriver
<1>4. Owns /\ Paired /\ Made
  BY DEF Init, Owns, Paired, Made, Drives
<1> QED
  BY <1>1, <1>2, <1>3, <1>4 DEF IInv

LEMMA IInvStep == IInv /\ [Next]_vars => IInv'
BY TypeOKStep, HasCurrentStep, StartedHasDriverStep, ExclusiveStep, MadeStep
   DEF IInv

LEMMA Invariance == Spec => []IInv
BY IInvInit, IInvStep, PTL DEF Spec

\* The cluster on disk and the runs in memory stay well-formed under every
\* interleaving of runs, requests and crashes.
THEOREM TypeCorrect == Spec => []TypeOK
<1>1. IInv => TypeOK
  BY DEF IInv
<1> QED
  BY <1>1, Invariance, PTL

\* For any number of nodes, runs and interfering requests, and whichever
\* dispatch throws: a node in *_STARTED is held by a live run of that phase,
\* or was left there by a crash (provisioning-run.ts, try and finally).
THEOREM NoStuckNode == Spec => []StartedHasDriver
<1>1. IInv => StartedHasDriver
  BY DEF IInv
<1> QED
  BY <1>1, Invariance, PTL

\* However many runs are asked for one node: two tools work on it at once only
\* if both of their runs had it moved, or took it, while another was driving
\* it (node.ts, ALLOWED, is all the lock there is).
THEOREM NoTwoTools == Spec => []ToolExclusive
<1>1. IInv => ToolExclusive
  <2> SUFFICES ASSUME IInv, NEW r \in Run, NEW q \in Run, r # q,
                      pc[r] = "tool", pc[q] = "tool", Current(r) = Current(q)
               PROVE  {r, q} \subseteq contended
    BY DEF ToolExclusive
  <2>1. Drives(r, Current(r)) /\ Drives(q, Current(r))
    BY DEF Drives
  <2>2. Current(r) \in Node
    BY CurrentIsNode DEF IInv, HasCurrent
  <2> QED
    BY <2>1, <2>2 DEF IInv, Paired
<1> QED
  BY <1>1, Invariance, PTL

\* While a tool creates or destroys the VMs of a node, no edit of them gets
\* through, unless the node was moved from under its run (node.ts,
\* VM_LOCKED_STATES).
THEOREM VmsStayLocked == Spec => VmsLocked
<1>1. ASSUME IInv, [Next]_vars, NEW r \in Run,
             pc[r] = "tool", phase[r] # "plan", r \notin contended
      PROVE  vms'[Current(r)] = vms[Current(r)]
  <2>1. Current(r) \in Node
    BY <1>1, CurrentIsNode DEF IInv, HasCurrent
  <2>2. Busy(Current(r))
    <3>1. Drives(r, Current(r))
      BY <1>1 DEF Drives
    <3>2. state[Current(r)] = Started[phase[r]]
      BY <1>1, <2>1, <3>1 DEF IInv, Owns
    <3>3. phase[r] \in {"apply", "destroy"}
      BY <1>1 DEF IInv, TypeOK, Phase
    <3> QED
      BY <3>2, <3>3 DEF Busy, Started
  <2>3. ASSUME NEW n \in Node, NEW V, EditVms(n, V)
        PROVE  vms'[Current(r)] = vms[Current(r)]
    BY <2>2, <2>3 DEF EditVms
  <2>4. CASE UNCHANGED vms
    BY <2>4
  <2>5. ASSUME NEW q \in Run,
               \/ \E p \in Phase, nodes \in Requests : Request(q, p, nodes)
               \/ RunStep(q) \/ ToolStep(q) \/ Cancel(q)
        PROVE  UNCHANGED vms
    BY <2>5 DEF Request, RunStep, ToolStep, Cancel, Return, StartNode,
         AnnounceStarted, Announce, FailNode, CompleteNode, EndNode,
         AnnounceFailed, AnnounceDone, Rescue, AnnounceRescued, ToolSucceeds,
         ToolFails, nodeVars
  <2>6. ASSUME NEW n \in Node, NodeRequest(n)
        PROVE  vms' = vms \/ \E V : EditVms(n, V)
    BY <2>6 DEF NodeRequest, RegisterNode, UnregisterNode, UpdateNode,
         AcknowledgeInterruption, RegisterVirtualMachine, ReplaceVirtualMachine,
         UnregisterVirtualMachine, UnregisterAllVirtualMachines
  <2>7. CASE UnregisterAllNodes \/ Crash \/ UNCHANGED vars
    BY <2>7 DEF UnregisterAllNodes, Crash, vars
  <2> QED
    BY <1>1, <2>3, <2>4, <2>5, <2>6, <2>7 DEF Next
<1>2. IInv /\ [Next]_vars =>
        [\A r \in Run :
           /\ pc[r] = "tool" /\ phase[r] # "plan" /\ r \notin contended
           => vms'[Current(r)] = vms[Current(r)]]_vars
  BY <1>1
<1> QED
  BY <1>2, Invariance, PTL DEF Spec, VmsLocked

\* A node is reported applied or destroyed only by the run that drove it there,
\* with its infrastructure as that run was asked for, unless the node was left
\* out for want of a credential or of VMs (provisioning-run.ts; groups in
\* provisioning-adapter.ts).
THEOREM SuccessIsTrue == Spec => SuccessIsReal
<1>1. ASSUME IInv, [Next]_vars, NEW n \in Node, NEW p \in {"apply", "destroy"},
             state[n] # state'[n], state'[n] = Succeeded[p]
      PROVE  \E r \in Run :
               /\ pc[r] = "completing" /\ phase[r] = p /\ Current(r) = n
               /\ r \in contended \/ Skipped(r) \/ infra[n] = Asked(r)
  <2>s. /\ \A q \in Phase : Succeeded[p] # Started[q] /\ Succeeded[p] # Failed[q]
        /\ \A q \in Phase : Succeeded[p] = Succeeded[q] => p = q
        /\ Succeeded[p] # "REGISTERED" /\ Succeeded[p] # "removed"
    BY DEF Phase, Started, Succeeded, Failed
  <2>t. \A q \in Run : phase[q] \in Phase
    BY <1>1 DEF IInv, TypeOK
  <2>u. state \in [Node -> State \cup {"unregistered", "removed"}]
    BY <1>1 DEF IInv, TypeOK
  <2>1. ASSUME NEW m, NEW to, state' = [state EXCEPT ![m] = to]
        PROVE  to = Succeeded[p] /\ m = n
    BY <1>1, <2>1, <2>u
  <2>2. PICK r \in Run : CompleteNode(r) /\ MayEnd(Current(r), phase[r])
    <3>1. state' # state
      BY <1>1
    <3>2. ASSUME NEW q \in Run,
                 \/ \E x \in Phase, nodes \in Requests : Request(q, x, nodes)
                 \/ ToolStep(q) \/ Cancel(q)
          PROVE  FALSE
      BY <3>1, <3>2 DEF Request, ToolStep, ToolSucceeds, ToolFails, Cancel, nodeVars
    <3>3. ASSUME NEW q \in Run, RunStep(q)
          PROVE  CompleteNode(q) /\ MayEnd(Current(q), phase[q])
      <4>1. ~Return(q) /\ ~AnnounceStarted(q) /\ ~AnnounceFailed(q)
            /\ ~AnnounceDone(q) /\ ~AnnounceRescued(q)
        BY <3>1 DEF Return, AnnounceStarted, Announce, AnnounceFailed,
           AnnounceDone, AnnounceRescued, nodeVars
      <4>2. ~StartNode(q)
        BY <2>1, <2>s, <2>t, <3>1 DEF StartNode
      <4>3. ~FailNode(q)
        BY <2>1, <2>s, <2>t, <3>1 DEF FailNode, EndNode
      <4>4. ~Rescue(q)
        BY <2>1, <2>s, <2>t, <3>1 DEF Rescue
      <4> QED
        BY <3>1, <3>3, <4>1, <4>2, <4>3, <4>4
           DEF RunStep, CompleteNode, EndNode
    <3>4. ASSUME NEW m \in Node, NodeRequest(m)
          PROVE  FALSE
      <4>1. /\ ~UnregisterNode(m)
            /\ \A configured \in BOOLEAN :
                 ~RegisterNode(m, configured) /\ ~UpdateNode(m, configured)
        BY <2>1, <2>s DEF RegisterNode, UnregisterNode, UpdateNode
      <4>2. ~AcknowledgeInterruption(m)
        BY <2>1, <2>s DEF AcknowledgeInterruption
      <4> QED
        BY <3>1, <3>4, <4>1, <4>2 DEF NodeRequest, RegisterVirtualMachine,
           ReplaceVirtualMachine, UnregisterVirtualMachine,
           UnregisterAllVirtualMachines, EditVms
    <3>5. CASE UnregisterAllNodes
      BY <1>1, <2>s, <3>5 DEF UnregisterAllNodes
    <3>6. CASE Crash \/ UNCHANGED vars
      BY <3>1, <3>6 DEF Crash, vars
    <3> QED
      BY <1>1, <3>2, <3>3, <3>4, <3>5, <3>6 DEF Next
  <2>3. /\ state' = [state EXCEPT ![Current(r)] = Succeeded[phase[r]]]
        /\ pc[r] = "completing"
    BY <2>2 DEF CompleteNode, EndNode
  <2>4. Current(r) = n /\ phase[r] = p
    BY <2>1, <2>3, <2>s, <2>t
  <2>5. r \in contended \/ infra[n] = Complete(r)
    BY <1>1, <2>3, <2>4 DEF IInv, Made
  <2>6. Skipped(r) \/ Complete(r) = Asked(r)
    BY <2>4 DEF Complete
  <2> QED
    BY <2>3, <2>4, <2>5, <2>6
<1>2. IInv /\ [Next]_vars =>
        [\A n \in Node, p \in {"apply", "destroy"} :
           state[n] # state'[n] /\ state'[n] = Succeeded[p] =>
             \E r \in Run :
               /\ pc[r] = "completing" /\ phase[r] = p /\ Current(r) = n
               /\ r \in contended \/ Skipped(r) \/ infra[n] = Asked(r)]_vars
  BY <1>1
<1> QED
  BY <1>2, Invariance, PTL DEF Spec, SuccessIsReal
=============================================================================
