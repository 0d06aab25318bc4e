------------------------ MODULE StationInstallProofs ------------------------
(***************************************************************************)
(* Proofs about StationInstall, for any services, hosts, sessions and      *)
(* editors: the types, the claims of the sessions, who moves on a service  *)
(* in flight, the order of hosts and what they host, and what a session    *)
(* has completed.                                                          *)
(***************************************************************************)
EXTENDS StationInstall, FiniteSetTheorems, SequenceTheorems, TLAPS

\* Where a session works on a service, its list of them is not empty.
Working == {"preparing", "tool", "probing", "completing", "announcing",
            "failing", "aborting"}
HasCurrent == \A s \in Session : pc[s] \in Working => todo[s] # <<>>

\* The parts of TypeOK that the steps of a session and of an editor change.
SessionTypes ==
  /\ pc \in [Session -> Pc]
  /\ op \in [Session -> Op]
  /\ chosen \in [Session -> SUBSET Service]
  /\ todo \in [Session -> Seq(Service)]
  /\ snapshot \in [Session -> Statuses]
  /\ aborted \in [Session -> BOOLEAN]
EditorTypes ==
  /\ editing \subseteq Editor
  /\ base \in [Editor -> Statuses]
  /\ draft \in [Editor -> Statuses]
StationTypes ==
  /\ exists \in BOOLEAN
  /\ status \in Statuses
  /\ running \subseteq Service
  /\ abandoned \subseteq Service
  /\ clobbered \subseteq Service

LEMMA TypeParts ==
  /\ TypeOK <=> SessionTypes /\ EditorTypes /\ StationTypes
  /\ TypeOK' <=> SessionTypes' /\ EditorTypes' /\ StationTypes'
BY DEF TypeOK, SessionTypes, EditorTypes, StationTypes

-----------------------------------------------------------------------------
(* Facts about the definitions of the model.                               *)

\* The statuses of the two operations, all different where it matters.
LEMMA OpStatuses ==
  /\ \A o \in Op : /\ Starting[o] \in Status /\ Done[o] \in Status
                   /\ FailedAs[o] \in Status /\ AbortedAs[o] \in Status
  /\ \A o, q \in Op : /\ Starting[o] = Starting[q] => o = q
                      /\ Done[o] # Starting[q]
                      /\ FailedAs[o] # Starting[q]
                      /\ AbortedAs[o] # Starting[q]
                      /\ Starting[q] \notin {"absent", "removed", "REGISTERED"}
BY DEF Op, Starting, Done, FailedAs, AbortedAs, Status

LEMMA NowhereIsAStation == Nowhere \in Statuses
BY DEF Nowhere, Statuses, Absent

\* The service a session works on is a service.
LEMMA CurrentIsService ==
  ASSUME NEW s \in Session, SessionTypes, todo[s] # <<>>
  PROVE  Current(s) \in Service
BY DEF SessionTypes, Current

\* Whichever way a set of services is sorted, the result lists services.
LEMMA OrdersAreSequences ==
  ASSUME NEW S \in SUBSET Service, NEW o
  PROVE  Orders(o, S) \subseteq Seq(Service)
<1>1. Cardinality(S) \in Nat
  BY StationAssumption, FS_Subset, FS_CardinalityType
<1>2. TopoSorts(S) \subseteq Seq(Service)
  <2>1. SetToSeqs(S) \subseteq [1..Cardinality(S) -> S]
    BY DEF SetToSeqs
  <2>2. \A f \in [1..Cardinality(S) -> S] : f \in Seq(Service)
    BY <1>1
  <2> QED
    BY <2>1, <2>2 DEF TopoSorts
<1>3. \A order \in Seq(Service) : Reverse(order) \in Seq(Service)
  BY DEF Reverse
<1> QED
  BY <1>2, <1>3 DEF Orders

-----------------------------------------------------------------------------
(* Type correctness.                                                       *)

LEMMA FinishKeepsTypes ==
  ASSUME NEW s \in Session, SessionTypes, Finish(s)
  PROVE  SessionTypes'
<1>1. pc' \in [Session -> Pc]
  BY DEF SessionTypes, Finish, Pc
<1>2. op' \in [Session -> Op]
  BY DEF SessionTypes, Finish, Op
<1>3. chosen' \in [Session -> SUBSET Service]
  BY DEF SessionTypes, Finish
<1>4. todo' \in [Session -> Seq(Service)]
  BY DEF SessionTypes, Finish
<1>5. snapshot' \in [Session -> Statuses]
  BY NowhereIsAStation DEF SessionTypes, Finish
<1>6. aborted' \in [Session -> BOOLEAN]
  BY DEF SessionTypes, Finish
<1> QED
  BY <1>1, <1>2, <1>3, <1>4, <1>5, <1>6 DEF SessionTypes

LEMMA GotoKeepsTypes ==
  ASSUME NEW s \in Session, NEW to \in Pc, SessionTypes, Goto(s, to)
  PROVE  SessionTypes'
BY DEF SessionTypes, Goto

LEMMA CatchKeepsTypes ==
  ASSUME NEW s \in Session, SessionTypes, Catch(s)
  PROVE  SessionTypes'
BY GotoKeepsTypes DEF Catch, Pc

LEMMA AdvanceKeepsTypes ==
  ASSUME NEW s \in Session, SessionTypes, todo[s] # <<>>,
         pc' = [pc EXCEPT ![s] = "next"],
         todo' = [todo EXCEPT ![s] = Tail(@)],
         UNCHANGED <<op, chosen, snapshot, aborted>>
  PROVE  SessionTypes'
<1>1. Tail(todo[s]) \in Seq(Service)
  BY DEF SessionTypes
<1>2. pc' \in [Session -> Pc]
  BY DEF SessionTypes, Pc
<1>3. todo' \in [Session -> Seq(Service)]
  BY <1>1 DEF SessionTypes
<1> QED
  BY <1>2, <1>3 DEF SessionTypes

LEMMA EndKeepsTypes ==
  ASSUME NEW s \in Session, SessionTypes, status \in Statuses,
         NEW target, \A o \in Op : target[o] \in Status, End(s, target)
  PROVE  status' \in Statuses
BY DEF SessionTypes, End, Statuses

LEMMA BeginKeepsTypes ==
  ASSUME NEW s \in Session, SessionTypes, running \subseteq Service, Begin(s)
  PROVE  SessionTypes' /\ running' \subseteq Service
<1>1. chosen[s] \in SUBSET Service
  BY DEF SessionTypes
<1>2. CASE Finish(s) /\ UNCHANGED running
  BY <1>2, FinishKeepsTypes
<1>3. CASE \E order \in Orders(op[s], chosen[s]) :
             /\ running' = running \cup chosen[s]
             /\ todo' = [todo EXCEPT ![s] = order]
             /\ pc' = [pc EXCEPT ![s] = "next"]
             /\ snapshot' = [snapshot EXCEPT ![s] = Nowhere]
             /\ UNCHANGED <<op, chosen, aborted>>
  <2>1. PICK order \in Orders(op[s], chosen[s]) :
             /\ running' = running \cup chosen[s]
             /\ todo' = [todo EXCEPT ![s] = order]
             /\ pc' = [pc EXCEPT ![s] = "next"]
             /\ snapshot' = [snapshot EXCEPT ![s] = Nowhere]
             /\ UNCHANGED <<op, chosen, aborted>>
    BY <1>3
  <2>2. order \in Seq(Service)
    BY <1>1, OrdersAreSequences
  <2>3. pc' \in [Session -> Pc]
    BY <2>1 DEF SessionTypes, Pc
  <2>4. todo' \in [Session -> Seq(Service)]
    BY <2>1, <2>2 DEF SessionTypes
  <2>5. snapshot' \in [Session -> Statuses]
    BY <2>1, NowhereIsAStation DEF SessionTypes
  <2> QED
    BY <1>1, <2>1, <2>3, <2>4, <2>5 DEF SessionTypes
<1> QED
  BY <1>2, <1>3 DEF Begin

LEMMA SessionStepKeepsTypes ==
  ASSUME NEW s \in Session, TypeOK, HasCurrent,
         SessionStep(s) \/ ToolStep(s) \/ Probe(s) \/ Abort(s)
  PROVE  TypeOK'
<1> USE TypeParts
<1>1. ASSUME SessionTypes', UNCHANGED editorVars, UNCHANGED historyVars,
             UNCHANGED exists, status' \in Statuses, running' \subseteq Service
      PROVE  TypeOK'
  BY <1>1 DEF editorVars, historyVars, EditorTypes, StationTypes
<1>2. CASE Begin(s)
  BY <1>1, <1>2, BeginKeepsTypes DEF Begin, stationVars, StationTypes
<1>3. CASE Release(s)
  BY <1>1, <1>3, FinishKeepsTypes DEF Release, stationVars, StationTypes
<1>4. CASE \E to \in Pc : /\ Goto(s, to)
                          /\ UNCHANGED <<stationVars, running, editorVars,
                                         historyVars>>
  <2>1. PICK to \in Pc : /\ Goto(s, to)
                         /\ UNCHANGED <<stationVars, running, editorVars,
                                        historyVars>>
    BY <1>4
  <2>2. SessionTypes'
    BY <2>1, GotoKeepsTypes
  <2> QED
    BY <1>1, <2>1, <2>2 DEF stationVars, StationTypes
<1>5. CASE StartService(s)
  <2>1. SessionTypes'
    BY <1>5, GotoKeepsTypes DEF StartService, Pc
  <2>2. CASE exists /\ status[Current(s)] \in Status
    <3>1. op[s] \in Op
      BY DEF SessionTypes
    <3>2. status' \in Statuses
      BY <1>5, <2>2, <3>1, OpStatuses DEF StartService, StationTypes, Statuses
    <3>3. abandoned' \subseteq Service /\ clobbered' \subseteq Service
      BY <1>5, <2>2 DEF StartService, StationTypes
    <3> QED
      BY <1>5, <2>1, <3>2, <3>3
         DEF StartService, editorVars, EditorTypes, StationTypes
  <2>3. CASE ~(exists /\ status[Current(s)] \in Status)
    BY <1>1, <1>5, <2>1, <2>3 DEF StartService, StationTypes
  <2> QED
    BY <2>2, <2>3
<1>6. CASE CompleteService(s)
  <2>1. SessionTypes'
    BY <1>6, GotoKeepsTypes, CatchKeepsTypes DEF CompleteService, Pc
  <2>2. status' \in Statuses
    BY <1>6, EndKeepsTypes, OpStatuses DEF CompleteService, StationTypes
  <2> QED
    BY <1>1, <1>6, <2>1, <2>2 DEF CompleteService, StationTypes
<1>7. CASE Announce(s)
  <2>1. todo[s] # <<>>
    BY <1>7 DEF Announce, HasCurrent, Working
  <2>2. SessionTypes'
    BY <1>7, <2>1, AdvanceKeepsTypes, CatchKeepsTypes DEF Announce
  <2> QED
    BY <1>1, <1>7, <2>2 DEF Announce, stationVars, StationTypes
<1>8. CASE FailService(s)
  <2>1. SessionTypes'
    BY <1>8, GotoKeepsTypes DEF FailService, Pc
  <2>2. status' \in Statuses
    <3>1. CASE End(s, FailedAs)
      BY <3>1, EndKeepsTypes, OpStatuses DEF StationTypes
    <3>2. CASE End(s, AbortedAs)
      BY <3>2, EndKeepsTypes, OpStatuses DEF StationTypes
    <3> QED
      BY <1>8, <3>1, <3>2 DEF FailService
  <2> QED
    BY <1>1, <1>8, <2>1, <2>2 DEF FailService, StationTypes
<1>9. CASE Abort(s)
  <2>1. SessionTypes'
    BY <1>9 DEF Abort, SessionTypes
  <2> QED
    BY <1>1, <1>9, <2>1 DEF Abort, stationVars, StationTypes
<1>10. CASE Return(s) \/ Throw(s)
  BY <1>3, <1>10 DEF Return, Throw
<1>11. CASE NextService(s) \/ PrepareFails(s)
  BY <1>4, <1>11 DEF NextService, PrepareFails, Pc
<1>12. CASE ToolStep(s) \/ Probe(s)
  BY <1>4, <1>12 DEF ToolStep, ToolSucceeds, ToolFails, Probe, ProbeStarts,
           ProbeEnds, Catch, Pc
<1> QED
  BY <1>2, <1>5, <1>6, <1>7, <1>8, <1>9, <1>10, <1>11, <1>12 DEF SessionStep

LEMMA RequestKeepsTypes ==
  ASSUME NEW s \in Session, NEW o \in Op, NEW S \in SUBSET Service,
         TypeOK, Request(s, o, S)
  PROVE  TypeOK'
<1>1. SessionTypes'
  <2>1. pc' \in [Session -> Pc]
    BY DEF TypeOK, Request, Pc
  <2>2. op' \in [Session -> Op] /\ chosen' \in [Session -> SUBSET Service]
    BY DEF TypeOK, Request
  <2>3. snapshot' \in [Session -> Statuses]
    BY DEF TypeOK, Request
  <2> QED
    BY <2>1, <2>2, <2>3 DEF TypeOK, Request, SessionTypes
<1> QED
  BY <1>1, TypeParts
     DEF Request, stationVars, editorVars, historyVars, EditorTypes, StationTypes

\* An edit of a station is a station, and starts nothing.
LEMMA EditsOfAStation ==
  ASSUME NEW station \in Statuses, NEW edit \in Edits(station)
  PROVE  /\ edit \in Statuses
         /\ \A x \in Service, o \in Op :
              edit[x] = Starting[o] => station[x] = Starting[o]
<1>1. CASE edit = station
  BY <1>1
<1>2. CASE \E x \in Service : \/ edit = [station EXCEPT ![x] = "REGISTERED"]
                              \/ edit = [station EXCEPT ![x] = "removed"]
  <2>1. PICK x \in Service, st \in {"REGISTERED", "removed"} :
               edit = [station EXCEPT ![x] = st]
    BY <1>2
  <2>2. edit \in Statuses
    BY <2>1 DEF Statuses, Status, Absent
  <2>3. \A o \in Op : st # Starting[o]
    BY OpStatuses
  <2> QED
    BY <2>1, <2>2, <2>3 DEF Statuses
<1> QED
  BY <1>1, <1>2 DEF Edits

LEMMA EditorKeepsTypes ==
  ASSUME NEW e \in Editor, TypeOK, EditorReads(e) \/ EditorSaves(e)
  PROVE  TypeOK'
<1> USE TypeParts
<1>1. CASE EditorReads(e)
  <2>1. EditorTypes'
    <3>1. PICK edit \in Edits(status) : draft' = [draft EXCEPT ![e] = edit]
      BY <1>1 DEF EditorReads
    <3>2. edit \in Statuses
      BY EditsOfAStation DEF StationTypes
    <3>3. draft' \in [Editor -> Statuses]
      BY <3>1, <3>2 DEF EditorTypes
    <3>4. base' \in [Editor -> Statuses]
      BY <1>1 DEF EditorReads, EditorTypes, StationTypes
    <3> QED
      BY <1>1, <3>3, <3>4 DEF EditorReads, EditorTypes
  <2> QED
    BY <1>1, <2>1
       DEF EditorReads, stationVars, sessionVars, historyVars, SessionTypes,
           StationTypes
<1>2. CASE EditorSaves(e)
  <2>1. EditorTypes'
    <3>1. base' \in [Editor -> Statuses] /\ draft' \in [Editor -> Statuses]
      BY <1>2, NowhereIsAStation DEF EditorSaves, EditorTypes
    <3> QED
      BY <1>2, <3>1 DEF EditorSaves, EditorTypes
  <2>2. Overwritten(draft[e]) \in Statuses
    <3>1. draft[e] \in Statuses
      BY DEF EditorTypes
    <3> QED
      BY <3>1 DEF Overwritten, Statuses, Absent
  <2>3. status' \in Statuses /\ clobbered' \subseteq Service
    BY <1>2, <2>2 DEF EditorSaves, StationTypes
  <2> QED
    BY <1>2, <2>1, <2>3
       DEF EditorSaves, sessionVars, SessionTypes, StationTypes
<1> QED
  BY <1>1, <1>2

LEMMA StationOrEngineKeepsTypes ==
  ASSUME TypeOK, UnregisterStation \/ Crash
  PROVE  TypeOK'
<1> USE TypeParts
<1>1. CASE UnregisterStation
  <2>1. status' \in Statuses
    BY <1>1 DEF UnregisterStation, StationTypes, Statuses, Absent
  <2> QED
    BY <1>1, <2>1
       DEF UnregisterStation, sessionVars, editorVars, historyVars, SessionTypes,
           EditorTypes, StationTypes
<1>2. CASE Crash
  <2>1. SessionTypes'
    BY <1>2, NowhereIsAStation DEF Crash, SessionTypes, Pc, Op
  <2>2. EditorTypes'
    BY <1>2, NowhereIsAStation DEF Crash, EditorTypes
  <2>3. StationTypes'
    BY <1>2 DEF Crash, stationVars, StationTypes
  <2> QED
    BY <2>1, <2>2, <2>3
<1> QED
  BY <1>1, <1>2

LEMMA InitTypes ==
  ASSUME Init
  PROVE  TypeOK /\ HasCurrent
<1>1. SessionTypes
  BY NowhereIsAStation DEF Init, SessionTypes, Pc, Op
<1>2. EditorTypes
  BY NowhereIsAStation DEF Init, EditorTypes
<1>3. StationTypes
  BY DEF Init, StationTypes, Statuses, Status, Absent
<1>4. HasCurrent
  BY DEF Init, HasCurrent, Working
<1> QED
  BY <1>1, <1>2, <1>3, <1>4, TypeParts

\* Only NextService takes a session to a service, when there is one.
LEMMA NextKeepsCurrent ==
  ASSUME TypeOK, HasCurrent, [Next]_vars
  PROVE  HasCurrent'
<1>1. ASSUME NEW s \in Session, NEW to,
             pc' = [pc EXCEPT ![s] = to],
             to \in Working =>
               pc[s] \in Working \cup {"next"} /\ todo[s] # <<>>,
             \/ UNCHANGED todo
             \/ to \notin Working /\ \E q : todo' = [todo EXCEPT ![s] = q]
      PROVE  HasCurrent'
  <2> SUFFICES ASSUME NEW t \in Session, pc'[t] \in Working
               PROVE  todo'[t] # <<>>
    BY DEF HasCurrent
  <2>1. CASE t = s
    BY <1>1, <2>1 DEF TypeOK
  <2>2. CASE t # s
    BY <1>1, <2>2 DEF TypeOK, HasCurrent
  <2> QED
    BY <2>1, <2>2
<1>2. ASSUME NEW s \in Session, Finish(s)
      PROVE  HasCurrent'
  BY <1>1, <1>2 DEF Finish, Working
<1>3. ASSUME NEW s \in Session, SessionStep(s) \/ ToolStep(s) \/ Probe(s)
      PROVE  HasCurrent'
  <2>1. CASE Begin(s)
    BY <1>1, <1>2, <2>1 DEF Begin, Working
  <2>2. CASE Return(s) \/ Throw(s)
    BY <1>2, <2>2 DEF Return, Throw, Release
  <2>3. CASE NextService(s) \/ PrepareFails(s)
    BY <1>1, <2>3 DEF NextService, PrepareFails, Goto, Working
  <2>4. CASE StartService(s)
    <3>1. todo[s] # <<>> /\ pc[s] \in Working
      BY <2>4 DEF StartService, HasCurrent, Working
    <3> QED
      BY <1>1, <2>4, <3>1 DEF StartService, Goto
  <2>5. CASE CompleteService(s)
    <3>1. todo[s] # <<>> /\ pc[s] \in Working
      BY <2>5 DEF CompleteService, HasCurrent, Working
    <3> QED
      BY <1>1, <2>5, <3>1 DEF CompleteService, Catch, Goto
  <2>6. CASE Announce(s)
    <3>1. todo[s] # <<>> /\ pc[s] \in Working
      BY <2>6 DEF Announce, HasCurrent, Working
    <3>2. "next" \notin Working
      BY DEF Working
    <3> QED
      BY <1>1, <2>6, <3>1, <3>2 DEF Announce, Catch, Goto
  <2>7. CASE FailService(s)
    BY <1>1, <2>7 DEF FailService, Goto, Working
  <2>8. CASE ToolStep(s) \/ Probe(s)
    <3>1. todo[s] # <<>> /\ pc[s] \in Working
      BY <2>8 DEF ToolStep, ToolSucceeds, ToolFails, Probe, ProbeStarts,
           ProbeEnds, HasCurrent, Working
    <3> QED
      BY <1>1, <2>8, <3>1
         DEF ToolStep, ToolSucceeds, ToolFails, Probe, ProbeStarts, ProbeEnds,
             Catch, Goto
  <2> QED
    BY <1>3, <2>1, <2>2, <2>3, <2>4, <2>5, <2>6, <2>7, <2>8 DEF SessionStep
<1>4. ASSUME NEW s \in Session, NEW o \in Op, NEW S \in SUBSET Service,
             Request(s, o, S)
      PROVE  HasCurrent'
  BY <1>1, <1>4 DEF Request, Working
<1>5. ASSUME UNCHANGED <<pc, todo>>
      PROVE  HasCurrent'
  BY <1>5 DEF HasCurrent
<1>6. ASSUME NEW s \in Session, Abort(s)
      PROVE  HasCurrent'
  BY <1>5, <1>6 DEF Abort
<1>7. ASSUME NEW e \in Editor, EditorReads(e) \/ EditorSaves(e)
      PROVE  HasCurrent'
  BY <1>5, <1>7 DEF EditorReads, EditorSaves, sessionVars
<1>8. CASE UnregisterStation
  BY <1>5, <1>8 DEF UnregisterStation, sessionVars
<1>9. CASE Crash
  BY <1>9 DEF Crash, HasCurrent, Working
<1>10. CASE UNCHANGED vars
  BY <1>5, <1>10 DEF vars
<1> QED
  BY <1>3, <1>4, <1>6, <1>7, <1>8, <1>9, <1>10 DEF Next

LEMMA NextKeepsTypes ==
  ASSUME TypeOK, HasCurrent, [Next]_vars
  PROVE  TypeOK'
<1>1. CASE Next
  BY <1>1, SessionStepKeepsTypes, RequestKeepsTypes, EditorKeepsTypes,
     StationOrEngineKeepsTypes DEF Next
<1>2. CASE UNCHANGED vars
  BY <1>2 DEF vars, TypeOK
<1> QED
  BY <1>1, <1>2

\* The station, the sessions and the editors are well-formed in every
\* reachable state: in particular every list of services a session works
\* through lists services of the station, in whatever way it was sorted.
THEOREM TypeCorrect == Spec => []TypeOK
<1>1. Init => TypeOK /\ HasCurrent
  BY InitTypes
<1>2. TypeOK /\ HasCurrent /\ [Next]_vars => (TypeOK /\ HasCurrent)'
  BY NextKeepsTypes, NextKeepsCurrent
<1> QED
  BY <1>1, <1>2, PTL DEF Spec

-----------------------------------------------------------------------------
(* One session to a service.                                               *)

\* A step of s alone: the others hold what they held.
LEMMA OthersHold ==
  ASSUME TypeOK, OneDriver, NEW s \in Session,
         \A t \in Session \ {s} : pc'[t] = pc[t] /\ chosen'[t] = chosen[t],
         \/ Active(s)' /\ Active(s) /\ chosen'[s] = chosen[s] /\ running' = running
         \/ ~Active(s)' /\ ~Active(s) /\ running' = running
         \/ ~Active(s)' /\ Active(s) /\ running' = running \ chosen[s]
         \/ /\ Active(s)' /\ ~Active(s) /\ chosen'[s] \cap running = {}
            /\ running' = running \cup chosen'[s]
  PROVE  OneDriver'
<1>1. \A t \in Session \ {s} : Active(t)' <=> Active(t)
  BY DEF Active
<1>2. \A t \in Session : Active(t) => chosen[t] \subseteq running
  BY DEF OneDriver
<1>3. \A t, u \in Session :
        t # u /\ Active(t) /\ Active(u) => chosen[t] \cap chosen[u] = {}
  BY DEF OneDriver
<1>4. ASSUME NEW t \in Session, NEW u \in Session, t # u, Active(t)', Active(u)'
      PROVE  chosen'[t] \cap chosen'[u] = {}
  <2>1. CASE t # s /\ u # s
    BY <1>1, <1>3, <1>4, <2>1
  <2>2. CASE t = s
    BY <1>1, <1>2, <1>3, <1>4, <2>2
  <2>3. CASE u = s
    BY <1>1, <1>2, <1>3, <1>4, <2>3
  <2> QED
    BY <2>1, <2>2, <2>3
<1>5. \A x : x \in running' <=> \E t \in Session : Active(t)' /\ x \in chosen'[t]
  <2>1. \A x : x \in running <=> \E t \in Session : Active(t) /\ x \in chosen[t]
    BY DEF OneDriver
  <2> SUFFICES ASSUME NEW x
               PROVE  x \in running' <=>
                        \E t \in Session : Active(t)' /\ x \in chosen'[t]
    OBVIOUS
  <2>2. ASSUME x \in running'
        PROVE  \E t \in Session : Active(t)' /\ x \in chosen'[t]
    <3>1. CASE x \in running
      <4>1. PICK t \in Session : Active(t) /\ x \in chosen[t]
        BY <2>1, <3>1
      <4> QED
        BY <1>1, <2>2, <4>1
    <3>2. CASE x \notin running
      BY <2>2, <3>2
    <3> QED
      BY <3>1, <3>2
  <2>3. ASSUME NEW t \in Session, Active(t)', x \in chosen'[t]
        PROVE  x \in running'
    <3>1. CASE t = s
      BY <1>2, <2>3, <3>1
    <3>2. CASE t # s
      BY <1>1, <1>2, <1>3, <2>3, <3>2
    <3> QED
      BY <3>1, <3>2
  <2> QED
    BY <2>2, <2>3
<1>6. running' = UNION {chosen'[t] : t \in {u \in Session : Active(u)'}}
  BY <1>5
<1> QED
  BY <1>4, <1>6 DEF OneDriver

LEMMA NextKeepsOneDriver ==
  ASSUME TypeOK, OneDriver, [Next]_vars
  PROVE  OneDriver'
<1> USE DEF Active
<1>1. ASSUME NEW s \in Session, Finish(s)
      PROVE  /\ ~Active(s)'
             /\ \A t \in Session \ {s} : pc'[t] = pc[t] /\ chosen'[t] = chosen[t]
  BY <1>1 DEF Finish, TypeOK
<1>2. ASSUME NEW s \in Session, NEW to, Goto(s, to)
      PROVE  /\ pc'[s] = to /\ chosen' = chosen
             /\ \A t \in Session \ {s} : pc'[t] = pc[t]
  BY <1>2 DEF Goto, TypeOK
<1>3. ASSUME NEW s \in Session, Active(s), Release(s)
      PROVE  OneDriver'
  BY <1>1, <1>3, OthersHold DEF Release
<1>4. ASSUME NEW s \in Session, Active(s), UNCHANGED running,
             NEW to, to \notin {"idle", "reading"}, Goto(s, to)
      PROVE  OneDriver'
  <2>1. pc'[s] = to /\ chosen' = chosen /\ \A t \in Session \ {s} : pc'[t] = pc[t]
    BY <1>2, <1>4
  <2> QED
    BY <1>4, <2>1, OthersHold
<1>5. ASSUME NEW s \in Session, Begin(s)
      PROVE  OneDriver'
  <2>1. ~Active(s)
    BY <1>5 DEF Begin
  <2>2. CASE Finish(s) /\ UNCHANGED running
    BY <1>1, <2>1, <2>2, OthersHold
  <2>3. CASE /\ chosen[s] \cap running = {} /\ running' = running \cup chosen[s]
             /\ pc' = [pc EXCEPT ![s] = "next"] /\ UNCHANGED chosen
    <3>1. Active(s)' /\ \A t \in Session \ {s} : pc'[t] = pc[t]
      BY <2>3 DEF TypeOK
    <3> QED
      BY <2>1, <2>3, <3>1, OthersHold
  <2> QED
    BY <1>5, <2>2, <2>3 DEF Begin
<1>6. ASSUME NEW s \in Session, SessionStep(s) \/ ToolStep(s) \/ Probe(s)
      PROVE  OneDriver'
  <2>1. CASE Return(s) \/ Throw(s)
    BY <1>3, <2>1 DEF Return, Throw
  <2>2. CASE NextService(s) \/ PrepareFails(s) \/ FailService(s)
    BY <1>4, <2>2 DEF NextService, PrepareFails, FailService
  <2>3. CASE StartService(s)
    BY <1>4, <2>3 DEF StartService
  <2>4. CASE CompleteService(s)
    BY <1>4, <2>4 DEF CompleteService, Catch
  <2>5. CASE ToolStep(s) \/ Probe(s)
    BY <1>4, <2>5 DEF ToolStep, ToolSucceeds, ToolFails, Probe, ProbeStarts,
           ProbeEnds, Catch
  <2>6. CASE Announce(s)
    <3>1. CASE Catch(s)
      BY <1>4, <2>6, <3>1 DEF Announce, Catch
    <3>2. CASE pc' = [pc EXCEPT ![s] = "next"] /\ UNCHANGED chosen
      <4>1. Active(s) /\ Active(s)' /\ \A t \in Session \ {s} : pc'[t] = pc[t]
        BY <2>6, <3>2 DEF Announce, TypeOK
      <4> QED
        BY <2>6, <3>2, <4>1, OthersHold DEF Announce
    <3> QED
      BY <2>6, <3>1, <3>2 DEF Announce
  <2> QED
    BY <1>5, <1>6, <2>1, <2>2, <2>3, <2>4, <2>5, <2>6 DEF SessionStep
<1>7. ASSUME NEW s \in Session, NEW o \in Op, NEW S \in SUBSET Service,
             Request(s, o, S)
      PROVE  OneDriver'
  <2>1. /\ ~Active(s) /\ ~Active(s)' /\ running' = running
        /\ \A t \in Session \ {s} : pc'[t] = pc[t] /\ chosen'[t] = chosen[t]
    BY <1>7 DEF Request, TypeOK
  <2> QED
    BY <2>1, OthersHold
<1>8. ASSUME UNCHANGED <<pc, chosen, running>>
      PROVE  OneDriver'
  BY <1>8 DEF OneDriver
<1>9. CASE Crash
  BY <1>9 DEF Crash, OneDriver
<1>10. ASSUME NEW s \in Session, Abort(s)
       PROVE  OneDriver'
  BY <1>8, <1>10 DEF Abort
<1>11. ASSUME NEW e \in Editor, EditorReads(e) \/ EditorSaves(e)
       PROVE  OneDriver'
  BY <1>8, <1>11 DEF EditorReads, EditorSaves, sessionVars
<1>12. CASE UnregisterStation
  BY <1>8, <1>12 DEF UnregisterStation, sessionVars
<1>13. CASE UNCHANGED vars
  BY <1>8, <1>13 DEF vars
<1> QED
  BY <1>6, <1>7, <1>9, <1>10, <1>11, <1>12, <1>13 DEF Next

\* However many sessions are asked for at once, whatever fails, is aborted or
\* dies in them: no two live sessions ever hold one service, and the registry
\* of ActiveInstalls never keeps a claim of a session that is over.
THEOREM ClaimsAreExclusive == Spec => []OneDriver
<1>1. Init => TypeOK /\ HasCurrent /\ OneDriver
  <2>1. Init => OneDriver
    BY DEF Init, OneDriver, Active
  <2> QED
    BY <2>1, InitTypes
<1>2. TypeOK /\ HasCurrent /\ OneDriver /\ [Next]_vars
        => (TypeOK /\ HasCurrent /\ OneDriver)'
  BY NextKeepsTypes, NextKeepsCurrent, NextKeepsOneDriver
<1> QED
  BY <1>1, <1>2, PTL DEF Spec

-----------------------------------------------------------------------------
(* Nothing stays INSTALLING or UNINSTALLING without a session.             *)

\* Services go with their station; an editor starts nothing by itself.
GoneIsEmpty == ~exists => \A x \in Service : status[x] \notin Status
DraftsStartNothing ==
  \A e \in Editor, x \in Service, o \in Op :
    draft[e][x] = Starting[o] => base[e][x] = Starting[o]

IInv == /\ TypeOK /\ HasCurrent
        /\ GoneIsEmpty /\ DraftsStartNothing /\ InFlightIsDriven

LEMMA NextKeepsGone ==
  ASSUME IInv, [Next]_vars
  PROVE  GoneIsEmpty'
<1> USE DEF IInv
<1>1. ASSUME UNCHANGED stationVars
      PROVE  GoneIsEmpty'
  BY <1>1 DEF GoneIsEmpty, stationVars
<1>2. ASSUME exists, UNCHANGED exists
      PROVE  GoneIsEmpty'
  BY <1>2 DEF GoneIsEmpty
<1>3. ASSUME UNCHANGED <<exists, status>>
      PROVE  GoneIsEmpty'
  BY <1>3 DEF GoneIsEmpty
<1>4. ASSUME NEW s \in Session, SessionStep(s) \/ ToolStep(s) \/ Probe(s)
      PROVE  GoneIsEmpty'
  <2>1. CASE StartService(s)
    BY <1>2, <1>3, <2>1 DEF StartService
  <2>2. CASE CompleteService(s)
    BY <1>2, <1>3, <2>2 DEF CompleteService, End, MayEnd
  <2>3. CASE FailService(s)
    BY <1>2, <1>3, <2>3 DEF FailService, End, MayEnd
  <2>4. CASE Begin(s) \/ Return(s) \/ Throw(s) \/ NextService(s)
               \/ PrepareFails(s) \/ Announce(s) \/ ToolStep(s) \/ Probe(s)
    BY <1>1, <2>4
       DEF Begin, Return, Throw, Release, NextService, PrepareFails, Announce,
           ToolStep, ToolSucceeds, ToolFails, Probe, ProbeStarts,
           ProbeEnds
  <2> QED
    BY <1>4, <2>1, <2>2, <2>3, <2>4 DEF SessionStep
<1>5. ASSUME NEW e \in Editor, EditorReads(e) \/ EditorSaves(e)
      PROVE  GoneIsEmpty'
  BY <1>1, <1>2, <1>3, <1>5 DEF EditorReads, EditorSaves
<1>6. CASE UnregisterStation
  BY <1>6 DEF UnregisterStation, GoneIsEmpty, Status
<1>7. ASSUME NEW s \in Session, NEW o \in Op, NEW S \in SUBSET Service,
             Request(s, o, S)
      PROVE  GoneIsEmpty'
  BY <1>1, <1>7 DEF Request
<1>8. CASE Crash \/ UNCHANGED vars
  BY <1>1, <1>3, <1>8 DEF Crash, vars
<1>9. ASSUME NEW s \in Session, Abort(s)
      PROVE  GoneIsEmpty'
  BY <1>1, <1>9 DEF Abort
<1> QED
  BY <1>4, <1>5, <1>6, <1>7, <1>8, <1>9 DEF Next

LEMMA NextKeepsDrafts ==
  ASSUME IInv, [Next]_vars
  PROVE  DraftsStartNothing'
<1> USE DEF IInv
<1>1. ASSUME UNCHANGED editorVars
      PROVE  DraftsStartNothing'
  BY <1>1 DEF DraftsStartNothing, editorVars
<1>2. ASSUME NEW s \in Session, SessionStep(s) \/ ToolStep(s) \/ Probe(s) \/ Abort(s)
      PROVE  DraftsStartNothing'
  <2>1. UNCHANGED editorVars
    BY <1>2
       DEF SessionStep, ToolStep, Probe, ProbeStarts, ProbeEnds, Begin,
           Return, Throw, Release, NextService,
           PrepareFails, StartService, ToolSucceeds, ToolFails, CompleteService,
           Announce, FailService, Abort
  <2> QED
    BY <1>1, <2>1
<1>3. ASSUME NEW e \in Editor, EditorReads(e)
      PROVE  DraftsStartNothing'
  <2>1. PICK edit \in Edits(status) : draft' = [draft EXCEPT ![e] = edit]
    BY <1>3 DEF EditorReads
  <2>2. \A x \in Service, o \in Op :
          edit[x] = Starting[o] => status[x] = Starting[o]
    BY EditsOfAStation DEF TypeOK
  <2>3. base' = [base EXCEPT ![e] = status]
    BY <1>3 DEF EditorReads
  <2> QED
    BY <2>1, <2>2, <2>3 DEF DraftsStartNothing, TypeOK
<1>4. ASSUME NEW e \in Editor, EditorSaves(e)
      PROVE  DraftsStartNothing'
  <2>1. \A x \in Service, o \in Op : Nowhere[x] # Starting[o]
    BY OpStatuses DEF Nowhere
  <2>2. base' = [base EXCEPT ![e] = Nowhere] /\ draft' = [draft EXCEPT ![e] = Nowhere]
    BY <1>4 DEF EditorSaves
  <2> QED
    BY <2>1, <2>2 DEF DraftsStartNothing, TypeOK
<1>5. ASSUME NEW s \in Session, NEW o \in Op, NEW S \in SUBSET Service,
             Request(s, o, S)
      PROVE  DraftsStartNothing'
  BY <1>1, <1>5 DEF Request
<1>6. CASE Crash
  <2>1. \A x \in Service, o \in Op : Nowhere[x] # Starting[o]
    BY OpStatuses DEF Nowhere
  <2> QED
    BY <1>6, <2>1 DEF Crash, DraftsStartNothing
<1>7. CASE UnregisterStation \/ UNCHANGED vars
  BY <1>1, <1>7 DEF UnregisterStation, vars, editorVars
<1> QED
  BY <1>2, <1>3, <1>4, <1>5, <1>6, <1>7 DEF Next

\* A step of one session: what the others drive, they go on driving.
LEMMA OthersDrive ==
  ASSUME TypeOK, NEW s \in Session, NEW t \in Session \ {s}, NEW x,
         \E to : pc' = [pc EXCEPT ![s] = to],
         \E o : op' = [op EXCEPT ![s] = o],
         \E q : todo' = [todo EXCEPT ![s] = q],
         Drives(t, x)
  PROVE  Drives(t, x)' /\ op'[t] = op[t]
BY DEF TypeOK, Drives, Current

LEMMA NextKeepsDrivers ==
  ASSUME IInv, [Next]_vars
  PROVE  InFlightIsDriven'
<1> USE DEF IInv
\* A step of s that moves no service but the one s works on.
<1>1. ASSUME NEW s \in Session,
             \E to : pc' = [pc EXCEPT ![s] = to],
             \E o : op' = [op EXCEPT ![s] = o],
             \E q : todo' = [todo EXCEPT ![s] = q],
             \A x \in Service : \/ status'[x] = status[x]
                                \/ \A o \in Op : status'[x] # Starting[o]
                                \/ Drives(s, x)' /\ status'[x] = Starting[op'[s]],
             \A x \in Service : x \in abandoned \cup clobbered =>
                \/ x \in abandoned' \cup clobbered'
                \/ Drives(s, x)' /\ status'[x] = Starting[op'[s]],
             \A x \in Service : Drives(s, x) =>
                \/ Drives(s, x)' /\ op'[s] = op[s]
                \/ status'[x] # Starting[op[s]],
             op'[s] \in Op
      PROVE  InFlightIsDriven'
  <2> SUFFICES ASSUME NEW x \in Service, NEW o \in Op,
                      status'[x] = Starting[o],
                      x \notin abandoned' \cup clobbered'
               PROVE  \E t \in Session : op'[t] = o /\ Drives(t, x)'
    BY DEF InFlightIsDriven
  <2>1. CASE Drives(s, x)' /\ status'[x] = Starting[op'[s]]
    <3>1. op'[s] = o
      BY <1>1, <2>1, OpStatuses
    <3> QED
      BY <2>1, <3>1
  <2>2. CASE status'[x] = status[x] /\ x \notin abandoned \cup clobbered
    <3>1. PICK t \in Session : op[t] = o /\ Drives(t, x)
      BY <2>2 DEF InFlightIsDriven
    <3>2. CASE t = s
      BY <1>1, <3>1, <3>2
    <3>3. CASE t # s
      <4>1. Drives(t, x)' /\ op'[t] = op[t]
        BY <1>1, <3>1, <3>3, OthersDrive
      <4> QED
        BY <3>1, <4>1
    <3> QED
      BY <3>2, <3>3
  <2> QED
    BY <1>1, <2>1, <2>2
<1>2. ASSUME NEW s \in Session, NEW to, Goto(s, to), UNCHANGED <<status, historyVars>>,
             \/ pc[s] \notin {"tool", "probing", "completing", "failing", "aborting"}
             \/ to \in {"tool", "probing", "completing", "failing", "aborting"}
      PROVE  InFlightIsDriven'
  <2>1. pc' = [pc EXCEPT ![s] = to] /\ op' = op /\ todo' = todo
    BY <1>2 DEF Goto
  <2>2. op' = [op EXCEPT ![s] = op[s]] /\ todo' = [todo EXCEPT ![s] = todo[s]]
    BY <2>1 DEF TypeOK
  <2>3. \A x \in Service : Drives(s, x) => Drives(s, x)'
    BY <1>2, <2>1 DEF Drives, Current, TypeOK
  <2>4. op'[s] \in Op
    BY <2>1 DEF TypeOK
  <2> QED
    BY <1>1, <1>2, <2>1, <2>2, <2>3, <2>4 DEF historyVars
<1>3. ASSUME NEW s \in Session, Finish(s), UNCHANGED <<status, historyVars>>,
             pc[s] \notin {"tool", "probing", "completing", "failing", "aborting"}
      PROVE  InFlightIsDriven'
  <2>1. /\ pc' = [pc EXCEPT ![s] = "idle"] /\ op' = [op EXCEPT ![s] = "install"]
        /\ todo' = [todo EXCEPT ![s] = <<>>]
    BY <1>3 DEF Finish
  <2>2. \A x \in Service : ~Drives(s, x)
    BY <1>3 DEF Drives
  <2>3. op'[s] \in Op
    BY <2>1 DEF TypeOK, Op
  <2> QED
    BY <1>1, <1>3, <2>1, <2>2, <2>3 DEF historyVars
\* The end of a service, one way or another: it is not driven any more.
<1>4. ASSUME NEW s \in Session, NEW target, NEW to, End(s, target),
             \A o, q \in Op : target[o] # Starting[q],
             todo[s] # <<>>, UNCHANGED historyVars, Goto(s, to),
             \/ MayEnd(s)
             \/ to = "throwing"
             \/ to \in {"failing", "aborting"} /\ ~MayEnd(s)
      PROVE  InFlightIsDriven'
  <2>1. Current(s) \in Service /\ op[s] \in Op
    BY <1>4, CurrentIsService, TypeParts DEF TypeOK
  <2>2. pc' = [pc EXCEPT ![s] = to] /\ op' = op /\ todo' = todo
    BY <1>4 DEF Goto
  <2>3. op' = [op EXCEPT ![s] = op[s]] /\ todo' = [todo EXCEPT ![s] = todo[s]]
    BY <2>2 DEF TypeOK
  <2>4. status'[Current(s)] # Starting[op[s]]
    <3>1. CASE MayEnd(s)
      <4>1. status' = [status EXCEPT ![Current(s)] = target[op[s]]]
        BY <1>4, <3>1 DEF End
      <4> QED
        BY <1>4, <2>1, <4>1 DEF TypeOK, Statuses
    <3>2. CASE ~MayEnd(s)
      <4>1. status' = status
        BY <1>4, <3>2 DEF End
      <4>2. ~exists => status[Current(s)] \notin Status
        BY <2>1 DEF GoneIsEmpty
      <4> QED
        BY <2>1, <3>2, <4>1, <4>2, OpStatuses DEF MayEnd
    <3> QED
      BY <3>1, <3>2
  <2>5. \A x \in Service : \/ status'[x] = status[x]
                           \/ \A o \in Op : status'[x] # Starting[o]
    BY <1>4, <2>1 DEF End, TypeOK, Statuses
  <2>6. \A x \in Service : Drives(s, x) => status'[x] # Starting[op[s]]
    BY <2>4 DEF Drives
  <2> QED
    BY <1>1, <1>4, <2>1, <2>2, <2>3, <2>5, <2>6 DEF historyVars
<1>5. ASSUME NEW s \in Session, StartService(s)
      PROVE  InFlightIsDriven'
  <2>1. CASE exists /\ status[Current(s)] \in Status
    <3>1. Current(s) \in Service /\ op[s] \in Op
      BY <1>5, CurrentIsService, TypeParts
         DEF StartService, TypeOK, HasCurrent, Working
    <3>2. /\ pc' = [pc EXCEPT ![s] = "tool"] /\ op' = op /\ todo' = todo
          /\ status' = [status EXCEPT ![Current(s)] = Starting[op[s]]]
          /\ abandoned' = abandoned \ {Current(s)}
          /\ clobbered' = clobbered \ {Current(s)}
      BY <1>5, <2>1 DEF StartService, Goto
    <3>3. op' = [op EXCEPT ![s] = op[s]] /\ todo' = [todo EXCEPT ![s] = todo[s]]
      BY <3>2 DEF TypeOK
    <3>4. \A x \in Service : x = Current(s) => Drives(s, x)'
      BY <3>2 DEF Drives, Current, TypeOK
    <3>5. \A x \in Service : ~Drives(s, x)
      BY <1>5 DEF StartService, Drives
    <3>6. status'[Current(s)] = Starting[op'[s]]
      BY <3>1, <3>2 DEF TypeOK, Statuses
    <3>7. \A x \in Service : x # Current(s) => status'[x] = status[x]
      BY <3>2 DEF TypeOK, Statuses
    <3> QED
      BY <1>1, <3>1, <3>2, <3>3, <3>4, <3>5, <3>6, <3>7
  <2>2. CASE ~(exists /\ status[Current(s)] \in Status)
    BY <1>2, <1>5, <2>2 DEF StartService
  <2> QED
    BY <2>1, <2>2
<1>6. ASSUME NEW s \in Session, CompleteService(s)
      PROVE  InFlightIsDriven'
  <2>1. todo[s] # <<>>
    BY <1>6 DEF CompleteService, HasCurrent, Working
  <2>2. CASE MayEnd(s)
    BY <1>4, <1>6, <2>1, <2>2, OpStatuses DEF CompleteService
  <2>3. CASE ~MayEnd(s)
    BY <1>4, <1>6, <2>1, <2>3, OpStatuses DEF CompleteService, Catch
  <2> QED
    BY <2>2, <2>3
<1>7. ASSUME NEW s \in Session, FailService(s)
      PROVE  InFlightIsDriven'
  <2>1. todo[s] # <<>>
    BY <1>7 DEF FailService, HasCurrent, Working
  <2>2. CASE End(s, FailedAs)
    BY <1>4, <1>7, <2>1, <2>2, OpStatuses DEF FailService
  <2>3. CASE End(s, AbortedAs)
    BY <1>4, <1>7, <2>1, <2>3, OpStatuses DEF FailService
  <2> QED
    BY <1>7, <2>2, <2>3 DEF FailService
<1>8. ASSUME NEW s \in Session, Announce(s)
      PROVE  InFlightIsDriven'
  <2>1. CASE Catch(s)
    BY <1>2, <1>8, <2>1 DEF Announce, Catch, stationVars
  <2>2. CASE /\ pc' = [pc EXCEPT ![s] = "next"]
             /\ todo' = [todo EXCEPT ![s] = Tail(@)]
             /\ UNCHANGED op
    <3>1. op' = [op EXCEPT ![s] = op[s]] /\ op'[s] \in Op
      BY <2>2 DEF TypeOK
    <3>2. \A x \in Service : ~Drives(s, x)
      BY <1>8 DEF Announce, Drives
    <3>3. todo' = [todo EXCEPT ![s] = Tail(todo[s])]
      BY <2>2
    <3> QED
      BY <1>1, <1>8, <2>2, <3>1, <3>2, <3>3 DEF Announce, stationVars, historyVars
  <2> QED
    BY <1>8, <2>1, <2>2 DEF Announce
<1>9. ASSUME NEW s \in Session, Begin(s)
      PROVE  InFlightIsDriven'
  <2>1. CASE Finish(s)
    BY <1>3, <1>9, <2>1 DEF Begin, stationVars
  <2>2. CASE \E order : /\ todo' = [todo EXCEPT ![s] = order]
                        /\ pc' = [pc EXCEPT ![s] = "next"]
                        /\ UNCHANGED op
    <3>1. op' = [op EXCEPT ![s] = op[s]] /\ op'[s] \in Op
      BY <2>2 DEF TypeOK
    <3>2. \A x \in Service : ~Drives(s, x)
      BY <1>9 DEF Begin, Drives
    <3>3. status' = status /\ UNCHANGED historyVars
      BY <1>9 DEF Begin, stationVars
    <3> QED
      BY <1>1, <2>2, <3>1, <3>2, <3>3 DEF historyVars
  <2> QED
    BY <1>9, <2>1, <2>2 DEF Begin
<1>10. ASSUME NEW s \in Session, SessionStep(s) \/ ToolStep(s) \/ Probe(s)
       PROVE  InFlightIsDriven'
  <2>1. CASE Return(s) \/ Throw(s)
    BY <1>3, <2>1 DEF Return, Throw, Release, stationVars
  <2>2. CASE NextService(s) \/ PrepareFails(s)
    BY <1>2, <2>2 DEF NextService, PrepareFails, stationVars
  <2>3. CASE ToolStep(s) \/ Probe(s)
    BY <1>2, <2>3 DEF ToolStep, ToolSucceeds, ToolFails, Probe, ProbeStarts,
           ProbeEnds, Catch, stationVars
  <2> QED
    BY <1>5, <1>6, <1>7, <1>8, <1>9, <1>10, <2>1, <2>2, <2>3 DEF SessionStep
<1>11. ASSUME NEW s \in Session, NEW o \in Op, NEW S \in SUBSET Service,
              Request(s, o, S)
       PROVE  InFlightIsDriven'
  <2>1. /\ pc' = [pc EXCEPT ![s] = "reading"] /\ op' = [op EXCEPT ![s] = o]
        /\ todo' = todo /\ UNCHANGED <<status, historyVars>>
    BY <1>11 DEF Request, stationVars
  <2>2. todo' = [todo EXCEPT ![s] = todo[s]] /\ op'[s] \in Op
    BY <2>1 DEF TypeOK
  <2>3. \A x \in Service : ~Drives(s, x)
    BY <1>11 DEF Request, Drives
  <2> QED
    BY <1>1, <2>1, <2>2, <2>3 DEF historyVars
<1>12. ASSUME UNCHANGED <<status, pc, op, todo, historyVars>>
       PROVE  InFlightIsDriven'
  BY <1>12 DEF InFlightIsDriven, Drives, Current, historyVars
<1>13. ASSUME NEW e \in Editor, EditorSaves(e)
       PROVE  InFlightIsDriven'
  <2>1. CASE exists
    <3> SUFFICES ASSUME NEW x \in Service, NEW o \in Op,
                        status'[x] = Starting[o],
                        x \notin abandoned' \cup clobbered'
                 PROVE  \E t \in Session : op'[t] = o /\ Drives(t, x)'
      BY DEF InFlightIsDriven
    <3>1. status' = Overwritten(draft[e]) /\ status[x] = base[e][x]
      BY <1>13, <2>1 DEF EditorSaves
    <3>2. draft[e][x] = Starting[o]
      BY <3>1, OpStatuses DEF Overwritten
    <3>3. status[x] = Starting[o]
      BY <3>1, <3>2 DEF DraftsStartNothing
    <3>4. x \notin abandoned \cup clobbered
      BY <1>13, <2>1 DEF EditorSaves
    <3>5. UNCHANGED <<pc, op, todo>>
      BY <1>13 DEF EditorSaves, sessionVars
    <3> QED
      BY <3>3, <3>4, <3>5 DEF InFlightIsDriven, Drives, Current
  <2>2. CASE ~exists
    BY <1>12, <1>13, <2>2 DEF EditorSaves, sessionVars, historyVars
  <2> QED
    BY <2>1, <2>2
<1>14. CASE UnregisterStation
  <2>1. \A x \in Service, o \in Op : status'[x] # Starting[o]
    BY <1>14, OpStatuses DEF UnregisterStation
  <2> QED
    BY <2>1 DEF InFlightIsDriven
<1>15. CASE Crash
  BY <1>15 DEF Crash, InFlightIsDriven, stationVars
<1>16. ASSUME NEW s \in Session, Abort(s)
       PROVE  InFlightIsDriven'
  BY <1>12, <1>16 DEF Abort, stationVars
<1>17. ASSUME NEW e \in Editor, EditorReads(e)
       PROVE  InFlightIsDriven'
  BY <1>12, <1>17 DEF EditorReads, stationVars, sessionVars
<1>18. CASE UNCHANGED vars
  BY <1>12, <1>18 DEF vars, historyVars
<1> QED
  BY <1>10, <1>11, <1>13, <1>14, <1>15, <1>16, <1>17, <1>18 DEF Next

\* No service stays INSTALLING or UNINSTALLING with nobody to move it on,
\* whichever transition or policy throws and whatever is requested meanwhile;
\* only a crash or a save of a stale copy can leave one so.
THEOREM NoStuckService == Spec => []InFlightIsDriven
<1>1. Init => IInv
  <2>1. \A x \in Service, o \in Op : Nowhere[x] # Starting[o]
    BY OpStatuses DEF Nowhere
  <2>2. Init => GoneIsEmpty /\ DraftsStartNothing
    BY <2>1 DEF Init, GoneIsEmpty, DraftsStartNothing
  <2>3. Init => InFlightIsDriven
    BY OpStatuses DEF Init, InFlightIsDriven
  <2> QED
    BY <2>2, <2>3, InitTypes DEF IInv
<1>2. IInv /\ [Next]_vars => IInv'
  BY NextKeepsTypes, NextKeepsCurrent, NextKeepsGone, NextKeepsDrafts,
     NextKeepsDrivers DEF IInv
<1>3. IInv => InFlightIsDriven
  BY DEF IInv
<1> QED
  BY <1>1, <1>2, <1>3, PTL DEF Spec

-----------------------------------------------------------------------------
(* Hosts first, and what a session has completed.                          *)

\* Of two services of one session, o works on x before it works on y.
ComesFirst(o, x, y) == IF o = "install" THEN x = Host[y] ELSE Host[x] = y

\* The list of a session holds services it has claimed, in an order that
\* suits the hosts.
ListIsOrdered ==
  \A s \in Session : Active(s) =>
    /\ ToSet(todo[s]) \subseteq chosen[s]
    /\ \A i, j \in DOMAIN todo[s] :
         ComesFirst(op[s], todo[s][i], todo[s][j]) => i < j

\* What an editor saves is what it read, but for one service it registers or
\* removes.
EditOf(was, is) ==
  \/ is = was
  \/ was = "absent" /\ is = "REGISTERED"
  \/ was \in Removable /\ is = "removed"
DraftsAreEdits ==
  \A e \in editing, x \in Service : EditOf(base[e][x], draft[e][x])

\* DoneStaysDone as it is kept: a service that was uninstalled cannot have
\* been absent, or an editor could register it.
EndsStay ==
  \A s \in Session : \A x \in Completed(s) \ clobbered :
    exists => \/ status[x] = Done[op[s]]
              \/ op[s] = "uninstall" /\ status[x] = "removed"

HInv == /\ TypeOK /\ HasCurrent /\ OneDriver
        /\ ListIsOrdered /\ DraftsAreEdits /\ EndsStay

\* A host comes before what it hosts in every result of topoSort, and every
\* service that was asked for comes once.
LEMMA TopoSortsSort ==
  ASSUME NEW S \in SUBSET Service, NEW order \in TopoSorts(S)
  PROVE  /\ order \in Seq(Service)
         /\ ToSet(order) = S
         /\ \A i, j \in DOMAIN order : order[i] = Host[order[j]] => i < j
<1> DEFINE n == Cardinality(S)
<1>1. n \in Nat /\ IsFiniteSet(S)
  BY StationAssumption, FS_Subset, FS_CardinalityType
<1>2. /\ order \in [1..n -> S]
      /\ \A i, j \in 1..n : i # j => order[i] # order[j]
  BY DEF TopoSorts, SetToSeqs
<1>3. order \in Injection(1..n, S)
  BY <1>2 DEF Injection, IsInjective
<1>4. Cardinality(1..n) = n
  BY <1>1, FS_Interval
<1>5. order \in Surjection(1..n, S)
  BY <1>1, <1>3, <1>4, FS_Injection
<1>6. ToSet(order) = S
  BY <1>2, <1>5 DEF Surjection, ToSet
<1>7. PICK layer \in [S -> 0..n] :
        /\ Layering(layer, S)
        /\ \A i, j \in DOMAIN order :
             i < j => layer[order[i]] <= layer[order[j]]
  BY DEF TopoSorts
<1>8. ASSUME NEW i \in DOMAIN order, NEW j \in DOMAIN order,
             order[i] = Host[order[j]], ~(i < j)
      PROVE  FALSE
  <2>1. i \in 1..n /\ j \in 1..n /\ order[i] \in S /\ order[j] \in S
    BY <1>2, <1>8
  <2>2. layer[order[i]] \in Nat /\ layer[order[j]] \in Nat
    BY <1>1, <1>7, <2>1
  <2>3. layer[order[j]] = layer[order[i]] + 1
    BY <1>7, <1>8, <2>1 DEF Layering
  <2>4. layer[order[j]] <= layer[order[i]]
    <3>1. CASE j < i
      BY <1>7, <3>1
    <3>2. CASE j = i
      BY <2>2, <3>2
    <3> QED
      BY <1>1, <1>8, <2>1, <3>1, <3>2
  <2> QED
    BY <2>2, <2>3, <2>4
<1>9. order \in Seq(Service)
  BY <1>1, <1>2
<1> QED
  BY <1>6, <1>8, <1>9

\* An order lists the services asked for, hosts first or hosts last.
LEMMA OrdersSuitTheHosts ==
  ASSUME NEW S \in SUBSET Service, NEW o \in Op, NEW order \in Orders(o, S)
  PROVE  /\ ToSet(order) = S
         /\ \A i, j \in DOMAIN order :
              ComesFirst(o, order[i], order[j]) => i < j
<1>1. CASE o = "install"
  BY <1>1, TopoSortsSort DEF Orders, ComesFirst
<1>2. CASE o = "uninstall"
  <2>1. PICK sorted \in TopoSorts(S) : order = Reverse(sorted)
    BY <1>2 DEF Orders
  <2>2. /\ sorted \in Seq(Service)
        /\ ToSet(sorted) = S
        /\ \A i, j \in DOMAIN sorted : sorted[i] = Host[sorted[j]] => i < j
    BY TopoSortsSort
  <2> DEFINE n == Len(sorted)
  <2>3. n \in Nat /\ DOMAIN sorted = 1..n
    BY <2>2
  <2>4. DOMAIN order = 1..n /\ \A i \in 1..n : order[i] = sorted[n - i + 1]
    BY <2>1 DEF Reverse
  <2>5. \A i \in 1..n : n - i + 1 \in 1..n /\ n - (n - i + 1) + 1 = i
    BY <2>3
  <2>6. ToSet(order) = ToSet(sorted)
    <3>1. \A i \in 1..n : order[i] \in ToSet(sorted)
      BY <2>3, <2>4, <2>5 DEF ToSet
    <3>2. \A i \in 1..n : sorted[i] \in ToSet(order)
      <4> SUFFICES ASSUME NEW i \in 1..n
                   PROVE  sorted[i] \in ToSet(order)
        OBVIOUS
      <4>1. order[n - i + 1] = sorted[i]
        BY <2>4, <2>5
      <4> QED
        BY <2>4, <2>5, <4>1 DEF ToSet
    <3> QED
      BY <2>3, <2>4, <3>1, <3>2 DEF ToSet
  <2>7. ASSUME NEW i \in 1..n, NEW j \in 1..n, Host[order[i]] = order[j]
        PROVE  i < j
    <3>1. sorted[n - j + 1] = Host[sorted[n - i + 1]]
      BY <2>4, <2>7
    <3>2. n - j + 1 < n - i + 1
      BY <2>2, <2>3, <2>5, <3>1
    <3> QED
      BY <2>3, <3>2
  <2> QED
    BY <1>2, <2>2, <2>4, <2>6, <2>7 DEF ComesFirst
<1> QED
  BY <1>1, <1>2 DEF Op

\* The step is one of s: nothing happens to the other sessions.
OnlyOf(s) ==
  \A t \in Session \ {s} :
    pc'[t] = pc[t] /\ op'[t] = op[t] /\ chosen'[t] = chosen[t] /\ todo'[t] = todo[t]

\* Where the step leaves s with the services it had to do, or fewer.
LEMMA ListStaysOrdered ==
  ASSUME TypeOK, ListIsOrdered, NEW s \in Session, OnlyOf(s),
         Active(s)' =>
           \/ /\ Active(s)
              /\ op'[s] = op[s] /\ chosen'[s] = chosen[s]
              /\ \/ todo'[s] = todo[s]
                 \/ todo[s] # <<>> /\ todo'[s] = Tail(todo[s])
           \/ /\ op'[s] \in Op /\ chosen'[s] \in SUBSET Service
              /\ todo'[s] \in Orders(op'[s], chosen'[s])
  PROVE  ListIsOrdered'
<1> SUFFICES ASSUME NEW t \in Session, Active(t)'
             PROVE  /\ ToSet(todo'[t]) \subseteq chosen'[t]
                    /\ \A i, j \in DOMAIN todo'[t] :
                         ComesFirst(op'[t], todo'[t][i], todo'[t][j]) => i < j
  BY DEF ListIsOrdered, ComesFirst
<1>1. CASE t # s
  BY <1>1 DEF ListIsOrdered, OnlyOf, Active
<1>2. CASE /\ t = s /\ Active(s) /\ op'[s] = op[s] /\ chosen'[s] = chosen[s]
           /\ todo'[s] = todo[s]
  BY <1>2 DEF ListIsOrdered
<1>3. CASE /\ t = s /\ Active(s) /\ op'[s] = op[s] /\ chosen'[s] = chosen[s]
           /\ todo[s] # <<>> /\ todo'[s] = Tail(todo[s])
  <2> DEFINE q == todo[s]
  <2>1. q \in Seq(Service) /\ q # <<>>
    BY <1>3 DEF TypeOK
  <2>2. /\ Len(q) \in Nat /\ DOMAIN q = 1..Len(q)
        /\ DOMAIN Tail(q) = 1..(Len(q) - 1)
        /\ \A i \in 1..(Len(q) - 1) : Tail(q)[i] = q[i + 1]
    BY <2>1
  <2>3. \A i \in DOMAIN Tail(q) : i + 1 \in DOMAIN q
    BY <2>2
  <2>4. /\ ToSet(q) \subseteq chosen[s]
        /\ \A i, j \in DOMAIN q : ComesFirst(op[s], q[i], q[j]) => i < j
    BY <1>3 DEF ListIsOrdered
  <2>5. ToSet(Tail(q)) \subseteq chosen[s]
    BY <2>2, <2>3, <2>4 DEF ToSet
  <2>6. \A i, j \in DOMAIN Tail(q) :
          ComesFirst(op[s], Tail(q)[i], Tail(q)[j]) => i + 1 < j + 1
    BY <2>2, <2>3, <2>4
  <2>7. \A i, j \in DOMAIN Tail(q) : i + 1 < j + 1 => i < j
    BY <2>2
  <2> QED
    BY <1>3, <2>5, <2>6, <2>7
<1>4. CASE /\ t = s /\ op'[s] \in Op /\ chosen'[s] \in SUBSET Service
           /\ todo'[s] \in Orders(op'[s], chosen'[s])
  BY <1>4, OrdersSuitTheHosts
<1> QED
  BY <1>1, <1>2, <1>3, <1>4

\* What a step of s touches is not of another session, nor done.
LEMMA EndsStayDone ==
  ASSUME TypeOK, OneDriver, ListIsOrdered, EndsStay,
         NEW s \in Session, OnlyOf(s), exists' => exists,
         \A x \in Service :
           \/ status'[x] = status[x] /\ (x \in clobbered => x \in clobbered')
           \/ /\ Active(s) /\ pc[s] # "announcing" /\ todo[s] # <<>>
              /\ x = Current(s),
         \/ Completed(s)' = {}
         \/ /\ op'[s] = op[s]
            /\ \A x \in Completed(s)' :
                 \/ x \in Completed(s)
                 \/ exists' => status'[x] = Done[op[s]]
  PROVE  EndsStay'
<1> SUFFICES ASSUME NEW t \in Session, NEW x \in Completed(t)',
                    x \notin clobbered', exists'
             PROVE  \/ status'[x] = Done[op'[t]]
                    \/ op'[t] = "uninstall" /\ status'[x] = "removed"
  BY DEF EndsStay
<1>1. CASE t = s /\ x \notin Completed(s)
  BY <1>1
<1>2. CASE x \in Completed(t) /\ op'[t] = op[t]
  <2>1. x \in chosen[t] /\ Active(t) /\ x \in Service
    BY <1>2 DEF Completed, TypeOK
  <2>2. ~ (Active(s) /\ pc[s] # "announcing" /\ todo[s] # <<>> /\ x = Current(s))
    <3>1. ASSUME Active(s), pc[s] # "announcing", todo[s] # <<>>, x = Current(s)
          PROVE  FALSE
      <4>1. x \in ToSet(todo[s])
        BY <3>1 DEF TypeOK, Current, ToSet
      <4>2. x \in chosen[s]
        BY <3>1, <4>1 DEF ListIsOrdered
      <4>3. t = s
        BY <2>1, <3>1, <4>2 DEF OneDriver
      <4> QED
        BY <1>2, <3>1, <4>1, <4>3 DEF Completed
    <3> QED
      BY <3>1
  <2>3. status'[x] = status[x] /\ x \notin clobbered
    BY <2>1, <2>2
  <2> QED
    BY <1>2, <2>3 DEF EndsStay
<1>3. CASE t # s
  <2>1. x \in Completed(t) /\ op'[t] = op[t]
    BY <1>3 DEF OnlyOf, Completed, Active, Current
  <2> QED
    BY <1>2, <2>1
<1> QED
  BY <1>1, <1>2, <1>3

LEMMA NextKeepsEdits ==
  ASSUME TypeOK, DraftsAreEdits, [Next]_vars
  PROVE  DraftsAreEdits'
<1>1. ASSUME UNCHANGED editorVars
      PROVE  DraftsAreEdits'
  BY <1>1 DEF DraftsAreEdits, EditOf, editorVars
<1>2. ASSUME NEW s \in Session, SessionStep(s) \/ ToolStep(s) \/ Probe(s) \/ Abort(s)
      PROVE  DraftsAreEdits'
  <2>1. UNCHANGED editorVars
    BY <1>2
       DEF SessionStep, ToolStep, Probe, ProbeStarts, ProbeEnds, Begin,
           Return, Throw, Release, NextService,
           PrepareFails, StartService, ToolSucceeds, ToolFails, CompleteService,
           Announce, FailService, Abort
  <2> QED
    BY <1>1, <2>1
<1>3. ASSUME NEW e \in Editor, EditorReads(e)
      PROVE  DraftsAreEdits'
  <2>1. PICK edit \in Edits(status) : draft' = [draft EXCEPT ![e] = edit]
    BY <1>3 DEF EditorReads
  <2>2. \A x \in Service : EditOf(status[x], edit[x])
    BY <2>1 DEF Edits, EditOf, TypeOK, Statuses
  <2>3. /\ editing' = editing \cup {e} /\ editing' \subseteq Editor
        /\ base' = [base EXCEPT ![e] = status]
    BY <1>3 DEF EditorReads, TypeOK
  <2>4. ASSUME NEW f \in editing', NEW x \in Service
        PROVE  EditOf(base'[f][x], draft'[f][x])
    <3>1. CASE f = e
      BY <2>1, <2>2, <2>3, <3>1 DEF TypeOK
    <3>2. CASE f # e
      <4>1. f \in editing /\ base'[f] = base[f] /\ draft'[f] = draft[f]
        BY <2>1, <2>3, <2>4, <3>2 DEF TypeOK
      <4> QED
        BY <4>1 DEF DraftsAreEdits
    <3> QED
      BY <3>1, <3>2
  <2> QED
    BY <2>4 DEF DraftsAreEdits, EditOf
<1>4. ASSUME NEW e \in Editor, EditorSaves(e)
      PROVE  DraftsAreEdits'
  <2>1. \A f \in editing' : /\ f \in editing
                            /\ base'[f] = base[f] /\ draft'[f] = draft[f]
    BY <1>4 DEF EditorSaves, TypeOK
  <2> QED
    BY <2>1 DEF DraftsAreEdits, EditOf
<1>5. ASSUME NEW s \in Session, NEW o \in Op, NEW S \in SUBSET Service,
             Request(s, o, S)
      PROVE  DraftsAreEdits'
  BY <1>1, <1>5 DEF Request
<1>6. CASE Crash
  BY <1>6 DEF Crash, DraftsAreEdits
<1>7. CASE UnregisterStation \/ UNCHANGED vars
  BY <1>1, <1>7 DEF UnregisterStation, vars, editorVars
<1> QED
  BY <1>2, <1>3, <1>4, <1>5, <1>6, <1>7 DEF Next

\* A save spares what no change has overtaken, and ends are no one's to edit.
LEMMA SaveKeepsEnds ==
  ASSUME HInv, NEW e \in Editor, EditorSaves(e)
  PROVE  EndsStay'
<1> SUFFICES ASSUME NEW s \in Session, NEW x \in Completed(s)',
                    x \notin clobbered', exists'
             PROVE  \/ status'[x] = Done[op'[s]]
                    \/ op'[s] = "uninstall" /\ status'[x] = "removed"
  BY DEF EndsStay
<1>1. exists /\ UNCHANGED <<pc, op, chosen, todo>> /\ e \in editing
  BY DEF EditorSaves, sessionVars
<1>2. x \in Completed(s) /\ x \in Service /\ op[s] \in Op
  BY <1>1 DEF Completed, Active, Current, HInv, TypeOK
<1>3. status' = Overwritten(draft[e]) /\ status[x] = base[e][x] /\ x \notin clobbered
  BY <1>1, <1>2 DEF EditorSaves
<1>4. EditOf(status[x], draft[e][x])
  BY <1>1, <1>2, <1>3 DEF HInv, DraftsAreEdits
<1>5. \/ status[x] = Done[op[s]]
      \/ op[s] = "uninstall" /\ status[x] = "removed"
  BY <1>1, <1>2, <1>3 DEF HInv, EndsStay
<1>6. status[x] # "absent" /\ draft[e][x] # "absent"
  BY <1>2, <1>4, <1>5 DEF EditOf, Op, Done, Removable
<1>7. status'[x] = draft[e][x]
  BY <1>2, <1>3, <1>6 DEF Overwritten
<1> QED
  BY <1>1, <1>2, <1>4, <1>5, <1>6, <1>7 DEF EditOf, Op, Done, Removable

LEMMA StepsOfOne ==
  ASSUME TypeOK, NEW s \in Session
  PROVE  /\ \A to : Goto(s, to) =>
              /\ OnlyOf(s) /\ pc'[s] = to
              /\ op' = op /\ chosen' = chosen /\ todo' = todo
         /\ Finish(s) => OnlyOf(s) /\ ~Active(s)' /\ Completed(s)' = {}
<1>1. ASSUME NEW to, Goto(s, to)
      PROVE  /\ OnlyOf(s) /\ pc'[s] = to
             /\ op' = op /\ chosen' = chosen /\ todo' = todo
  BY <1>1 DEF Goto, OnlyOf, TypeOK
<1>2. ASSUME Finish(s)
      PROVE  OnlyOf(s) /\ ~Active(s)' /\ Completed(s)' = {}
  <2>1. OnlyOf(s) /\ pc'[s] = "idle" /\ chosen'[s] = {}
    BY <1>2 DEF Finish, OnlyOf, TypeOK
  <2> QED
    BY <2>1 DEF Active, Completed
<1> QED
  BY <1>1, <1>2

\* One step of a session: its list stays in order, its ends stay.
LEMMA SessionKeepsEnds ==
  ASSUME HInv, NEW s \in Session,
         SessionStep(s) \/ ToolStep(s) \/ Probe(s) \/ Abort(s)
  PROVE  ListIsOrdered' /\ EndsStay'
<1> USE DEF HInv
\* A move of the session that leaves the station and what it has done alone.
<1>1. ASSUME NEW to, to \notin {"idle", "reading", "announcing"},
             Active(s), Goto(s, to), UNCHANGED <<stationVars, clobbered>>
      PROVE  ListIsOrdered' /\ EndsStay'
  <2>1. /\ OnlyOf(s) /\ pc'[s] = to
        /\ op' = op /\ chosen' = chosen /\ todo' = todo
    BY <1>1, StepsOfOne
  <2>2. Completed(s)' \subseteq Completed(s)
    BY <1>1, <2>1 DEF Completed
  <2>3. ListIsOrdered'
    BY <1>1, <2>1, ListStaysOrdered
  <2>4. EndsStay'
    BY <1>1, <2>1, <2>2, EndsStayDone DEF stationVars
  <2> QED
    BY <2>3, <2>4
<1>2. ASSUME Finish(s), UNCHANGED <<stationVars, clobbered>>
      PROVE  ListIsOrdered' /\ EndsStay'
  <2>1. OnlyOf(s) /\ ~Active(s)' /\ Completed(s)' = {}
    BY <1>2, StepsOfOne
  <2>2. ListIsOrdered'
    BY <2>1, ListStaysOrdered
  <2>3. EndsStay'
    BY <1>2, <2>1, EndsStayDone DEF stationVars
  <2> QED
    BY <2>2, <2>3
\* The end of a service: completed only if it is done.
<1>3. ASSUME NEW to, to \notin {"idle", "reading"}, Goto(s, to),
             NEW target, End(s, target), UNCHANGED <<exists, clobbered>>,
             pc[s] \in {"completing", "failing", "aborting"},
             to = "announcing" => MayEnd(s) /\ target = Done
      PROVE  ListIsOrdered' /\ EndsStay'
  <2>1. /\ OnlyOf(s) /\ pc'[s] = to
        /\ op' = op /\ chosen' = chosen /\ todo' = todo
    BY <1>3, StepsOfOne
  <2>2. Active(s) /\ Active(s)' /\ todo[s] # <<>>
    BY <1>3, <2>1 DEF Active, HasCurrent, Working
  <2>3. Current(s) \in Service
    BY <2>2, CurrentIsService, TypeParts
  <2>4. \A x \in Service : status'[x] = status[x] \/ x = Current(s)
    BY <1>3 DEF End, TypeOK, Statuses
  <2>5. to = "announcing" => status'[Current(s)] = Done[op[s]]
    BY <1>3, <2>3 DEF End, TypeOK, Statuses
  <2>6. \A x \in Completed(s)' :
          x \in Completed(s) \/ status'[x] = Done[op[s]]
    BY <1>3, <2>1, <2>2, <2>5 DEF Completed, Current
  <2>7. ListIsOrdered'
    BY <2>1, <2>2, ListStaysOrdered
  <2>8. EndsStay'
    BY <1>3, <2>1, <2>2, <2>4, <2>6, EndsStayDone
  <2> QED
    BY <2>7, <2>8
<1>4. CASE Begin(s)
  <2>1. CASE Finish(s)
    BY <1>2, <1>4, <2>1 DEF Begin, historyVars
  <2>2. CASE \E order \in Orders(op[s], chosen[s]) :
               /\ todo' = [todo EXCEPT ![s] = order]
               /\ pc' = [pc EXCEPT ![s] = "next"]
               /\ UNCHANGED <<op, chosen>>
    <3>1. PICK order \in Orders(op[s], chosen[s]) :
               /\ todo' = [todo EXCEPT ![s] = order]
               /\ pc' = [pc EXCEPT ![s] = "next"]
               /\ UNCHANGED <<op, chosen>>
      BY <2>2
    <3>2. OnlyOf(s) /\ todo'[s] = order /\ pc'[s] = "next"
      BY <3>1 DEF OnlyOf, TypeOK
    <3>3. op'[s] \in Op /\ chosen'[s] \in SUBSET Service
      BY <3>1 DEF TypeOK
    <3>4. ToSet(todo'[s]) = chosen'[s]
      BY <3>1, <3>2, <3>3, OrdersSuitTheHosts
    <3>5. Completed(s)' = {}
      BY <3>2, <3>4 DEF Completed
    <3>6. ListIsOrdered'
      BY <3>1, <3>2, <3>3, ListStaysOrdered
    <3>7. EndsStay'
      BY <1>4, <3>2, <3>5, EndsStayDone DEF Begin, stationVars, historyVars
    <3> QED
      BY <3>6, <3>7
  <2> QED
    BY <1>4, <2>1, <2>2 DEF Begin
<1>5. CASE StartService(s)
  <2>1. Active(s) /\ todo[s] # <<>> /\ pc[s] = "preparing"
    BY <1>5 DEF StartService, Active, HasCurrent, Working
  <2>2. CASE exists /\ status[Current(s)] \in Status
    <3>1. /\ OnlyOf(s) /\ pc'[s] = "tool"
          /\ op' = op /\ chosen' = chosen /\ todo' = todo
      BY <1>5, <2>2, StepsOfOne DEF StartService
    <3>2. Completed(s)' \subseteq Completed(s)
      BY <2>1, <3>1 DEF Completed
    <3>3. \A x \in Service :
            \/ status'[x] = status[x] /\ (x \in clobbered => x \in clobbered')
            \/ x = Current(s)
      BY <1>5, <2>2 DEF StartService, TypeOK, Statuses
    <3>4. ListIsOrdered'
      BY <2>1, <3>1, ListStaysOrdered
    <3>5. EndsStay'
      BY <1>5, <2>1, <3>1, <3>2, <3>3, EndsStayDone DEF StartService
    <3> QED
      BY <3>4, <3>5
  <2>3. CASE ~(exists /\ status[Current(s)] \in Status)
    BY <1>1, <1>5, <2>1, <2>3 DEF StartService, stationVars, historyVars
  <2> QED
    BY <2>2, <2>3
<1>6. CASE CompleteService(s)
  <2>1. CASE MayEnd(s)
    BY <1>3, <1>6, <2>1 DEF CompleteService, historyVars
  <2>2. CASE ~MayEnd(s)
    BY <1>3, <1>6, <2>2 DEF CompleteService, Catch, historyVars
  <2> QED
    BY <2>1, <2>2
<1>7. CASE FailService(s)
  BY <1>3, <1>7 DEF FailService, historyVars
<1>8. CASE Announce(s)
  <2>1. Active(s) /\ todo[s] # <<>> /\ pc[s] = "announcing"
    BY <1>8 DEF Announce, Active, HasCurrent, Working
  <2>2. CASE Catch(s)
    BY <1>1, <1>8, <2>1, <2>2 DEF Announce, Catch, historyVars
  <2>3. CASE /\ pc' = [pc EXCEPT ![s] = "next"]
             /\ todo' = [todo EXCEPT ![s] = Tail(@)]
             /\ UNCHANGED <<op, chosen>>
    <3>1. OnlyOf(s) /\ pc'[s] = "next" /\ todo'[s] = Tail(todo[s])
      BY <2>3 DEF OnlyOf, TypeOK
    <3>2. \A x : x \in ToSet(todo[s]) => x \in ToSet(Tail(todo[s])) \/ x = Current(s)
      <4> DEFINE q == todo[s]
      <4>1. q \in Seq(Service) /\ q # <<>>
        BY <2>1 DEF TypeOK
      <4>2. /\ Len(q) \in Nat /\ DOMAIN q = 1..Len(q) /\ Head(q) = q[1]
            /\ DOMAIN Tail(q) = 1..(Len(q) - 1)
            /\ \A i \in 1..(Len(q) - 1) : Tail(q)[i] = q[i + 1]
        BY <4>1
      <4>3. \A i \in DOMAIN q : i # 1 =>
              i - 1 \in DOMAIN Tail(q) /\ q[i] = Tail(q)[i - 1]
        BY <4>2
      <4> QED
        BY <4>2, <4>3 DEF ToSet, Current
    <3>3. Completed(s)' \subseteq Completed(s)
      BY <2>1, <2>3, <3>1, <3>2 DEF Completed
    <3>4. ListIsOrdered'
      BY <2>1, <2>3, <3>1, ListStaysOrdered
    <3>5. EndsStay'
      BY <1>8, <2>3, <3>1, <3>3, EndsStayDone DEF Announce, stationVars, historyVars
    <3> QED
      BY <3>4, <3>5
  <2> QED
    BY <1>8, <2>2, <2>3 DEF Announce
<1>9. CASE Abort(s)
  <2>1. UNCHANGED <<pc, op, chosen, todo, exists, status, clobbered>>
    BY <1>9 DEF Abort, stationVars, historyVars
  <2> QED
    BY <2>1 DEF ListIsOrdered, EndsStay, Completed, Active, Current, ComesFirst
<1>10. CASE Return(s) \/ Throw(s)
  BY <1>2, <1>10 DEF Return, Throw, Release, historyVars
<1>11. CASE NextService(s) \/ PrepareFails(s)
  BY <1>1, <1>11 DEF NextService, PrepareFails, Active, historyVars
<1>12. CASE ToolStep(s) \/ Probe(s)
  BY <1>1, <1>12 DEF ToolStep, ToolSucceeds, ToolFails, Probe, ProbeStarts,
           ProbeEnds, Catch, Active, historyVars
<1> QED
  BY <1>4, <1>5, <1>6, <1>7, <1>8, <1>9, <1>10, <1>11, <1>12 DEF SessionStep

LEMMA NextKeepsEnds ==
  ASSUME HInv, [Next]_vars
  PROVE  ListIsOrdered' /\ EndsStay'
<1> USE DEF HInv
<1>1. ASSUME UNCHANGED <<pc, op, chosen, todo>>
      PROVE  /\ ListIsOrdered'
             /\ UNCHANGED <<exists, status, clobbered>> => EndsStay'
  BY <1>1 DEF ListIsOrdered, EndsStay, Completed, Active, Current, ComesFirst
<1>2. ASSUME NEW s \in Session, NEW o \in Op, NEW S \in SUBSET Service,
             Request(s, o, S)
      PROVE  ListIsOrdered' /\ EndsStay'
  <2>1. OnlyOf(s) /\ ~Active(s)' /\ Completed(s)' = {}
    BY <1>2 DEF Request, OnlyOf, Active, Completed, TypeOK
  <2>2. ListIsOrdered'
    BY <2>1, ListStaysOrdered
  <2>3. EndsStay'
    BY <1>2, <2>1, EndsStayDone DEF Request, stationVars, historyVars
  <2> QED
    BY <2>2, <2>3
<1>3. ASSUME NEW e \in Editor, EditorReads(e)
      PROVE  ListIsOrdered' /\ EndsStay'
  BY <1>1, <1>3 DEF EditorReads, stationVars, sessionVars, historyVars
<1>4. ASSUME NEW e \in Editor, EditorSaves(e)
      PROVE  ListIsOrdered' /\ EndsStay'
  BY <1>1, <1>4, SaveKeepsEnds DEF EditorSaves, sessionVars
<1>5. CASE UnregisterStation
  BY <1>1, <1>5 DEF UnregisterStation, sessionVars, EndsStay
<1>6. CASE Crash
  BY <1>6 DEF Crash, ListIsOrdered, EndsStay, Completed, Active
<1>7. CASE UNCHANGED vars
  BY <1>1, <1>7 DEF vars
<1> QED
  BY <1>2, <1>3, <1>4, <1>5, <1>6, <1>7, SessionKeepsEnds DEF Next

LEMMA HInvIsInvariant == Spec => []HInv
<1>1. Init => HInv
  <2>1. Init => OneDriver /\ ListIsOrdered /\ DraftsAreEdits /\ EndsStay
    BY DEF Init, OneDriver, ListIsOrdered, DraftsAreEdits, EndsStay, Completed,
           Active
  <2> QED
    BY <2>1, InitTypes DEF HInv
<1>2. HInv /\ [Next]_vars => HInv'
  BY NextKeepsTypes, NextKeepsCurrent, NextKeepsOneDriver, NextKeepsEdits,
     NextKeepsEnds DEF HInv
<1> QED
  BY <1>1, <1>2, PTL DEF Spec

\* Succeeded tells the truth of every service of a session: what the session
\* has completed is still so when the session ends, whatever other sessions,
\* requests and cancellations there were meanwhile; only a save that overwrote
\* the change, or the removal of the station, undoes it.
THEOREM CompletedStaysCompleted == Spec => []DoneStaysDone
<1>1. HInv => DoneStaysDone
  BY DEF HInv, EndsStay, DoneStaysDone, Absent
<1> QED
  BY <1>1, HInvIsInvariant, PTL

\* In whichever of its orders topoSort sorts the services and however the
\* sessions interleave, no service is worked on before its host is installed,
\* or uninstalled before what it hosts is gone.
THEOREM HostsComeFirst == Spec => []HostsFirst
<1>1. ASSUME HInv
      PROVE  HostsFirst
  <2> SUFFICES ASSUME NEW s \in Session, NEW x \in Service,
                      pc[s] \in {"tool", "probing"}, Current(s) = x, exists
               PROVE  /\ op[s] = "install" /\ Host[x] \in chosen[s] \ clobbered
                           => status[Host[x]] = "INSTALLED"
                      /\ op[s] = "uninstall" =>
                           \A y \in chosen[s] \ clobbered :
                             Host[y] = x => status[y] \in {"UNINSTALLED"} \cup Absent
    BY DEF HostsFirst
  <2>1. Active(s) /\ todo[s] # <<>> /\ todo[s] \in Seq(Service)
    BY <1>1 DEF HInv, HasCurrent, Working, Active, TypeOK
  <2>2. 1 \in DOMAIN todo[s] /\ todo[s][1] = x /\ DOMAIN todo[s] \subseteq Nat \ {0}
    BY <2>1 DEF Current
  <2>3. \A i, j \in DOMAIN todo[s] :
          ComesFirst(op[s], todo[s][i], todo[s][j]) => i < j
    BY <1>1, <2>1 DEF HInv, ListIsOrdered
  <2>4. ASSUME NEW y \in chosen[s] \ clobbered, ComesFirst(op[s], y, x)
        PROVE  \/ status[y] = Done[op[s]]
               \/ op[s] = "uninstall" /\ status[y] = "removed"
    <3>1. y \notin ToSet(todo[s])
      BY <2>2, <2>3, <2>4 DEF ToSet
    <3>2. y \in Completed(s)
      BY <2>1, <3>1 DEF Completed
    <3> QED
      BY <1>1, <3>2 DEF HInv, EndsStay
  <2> QED
    BY <2>4 DEF ComesFirst, Done, Absent
<1> QED
  BY <1>1, HInvIsInvariant, PTL
=============================================================================
