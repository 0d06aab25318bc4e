--------------------------- MODULE StationInstall ---------------------------
(***************************************************************************)
(* Install and uninstall sessions over the services of one station: the    *)
(* handlers that check a request and claim its services, runServiceInstall *)
(* and runServiceUninstall that drive one service after the other around   *)
(* the installer, and what else reaches the station meanwhile: the         *)
(* registration handlers, cancellation, and a crash of the engine.         *)
(*                                                                         *)
(* Sessions change the station through Stations.update, which loads and    *)
(* writes it under one lock: one action.  The registration handlers load   *)
(* it, change it and save it whole: two actions.                           *)
(***************************************************************************)
EXTENDS Naturals, Sequences, FiniteSets, SequencesExt

CONSTANTS
  Service,         \* the services ever registered in the station
  NoHost,          \* the host of a standalone service
  Host,            \* [Service -> Service \cup {NoHost}]  service.host
  Session,         \* sessions alive at a time (a slot is used again)
  Editor,          \* of ... save requests alive at a time
  DispatchMayFail  \* whether a policy of the vault or the cluster may throw

ASSUME StationAssumption ==
  /\ IsFiniteSet(Service)
  /\ NoHost \notin Service
  /\ Host \in [Service -> Service \cup {NoHost}]
  /\ DispatchMayFail \in BOOLEAN

VARIABLES
  exists,     \* the station is in stations.json
  status,     \* [Service -> Status or not in the station]  stations.json
  running,    \* ActiveInstalls.running
  pc,         \* [Session -> Pc]  where the request or its task is
  op,         \* [Session -> Op]
  chosen,     \* [Session -> SUBSET Service]  command.serviceIds
  todo,       \* [Session -> Seq(Service)]  ordered, the current first
  snapshot,   \* [Session -> statuses]  the station as the handler read it
  aborted,    \* [Session -> BOOLEAN]  execution.signal.aborted
  editing,    \* editors between their of and their save
  base,       \* [Editor -> statuses]  what an editor read
  draft,      \* [Editor -> statuses]  what it is going to save
  \* history
  abandoned,  \* services whose session died with the engine
  clobbered   \* services whose last change a save has overwritten

stationVars == <<exists, status>>
sessionVars == <<pc, op, chosen, todo, snapshot, aborted>>
editorVars == <<editing, base, draft>>
historyVars == <<abandoned, clobbered>>
vars == <<exists, status, running, pc, op, chosen, todo, snapshot, aborted,
          editing, base, draft, abandoned, clobbered>>

-----------------------------------------------------------------------------
(* The lifecycle of a service.                                             *)

Op == {"install", "uninstall"}

\* startInstall and startUninstall, from any status; the rest only from there.
Starting == [install |-> "INSTALLING", uninstall |-> "UNINSTALLING"]
Done == [install |-> "INSTALLED", uninstall |-> "UNINSTALLED"]
FailedAs == [install |-> "FAILED", uninstall |-> "UNINSTALL_FAILED"]
\* Mutant: an uninstall is aborted the way an install is.
AbortedAsSuch == [install |-> "ABORTED", uninstall |-> "UNINSTALL_ABORTED"]

AbortedAs == [install |-> "ABORTED", uninstall |-> "UNINSTALL_FAILED"]

Status == {"REGISTERED", "INSTALLING", "INSTALLED", "FAILED", "ABORTED",
           "UNINSTALLING", "UNINSTALLED", "UNINSTALL_FAILED"}
Removable == {"REGISTERED", "UNINSTALLED"}

\* A service id is registered once, and never again after its removal.
Absent == {"absent", "removed"}
Nowhere == [x \in Service |-> "absent"]

Holds(station) == {x \in Service : station[x] \in Status}

-----------------------------------------------------------------------------
(* What a session is asked, and in which order it does it.                 *)

\* Where topoSort puts the services of S: a host one layer before what it
\* hosts.  A host outside S counts as there; no layering if there is a cycle.
Layering(layer, S) ==
  \A x \in S : layer[x] = IF Host[x] \in S THEN layer[Host[x]] + 1 ELSE 0

\* The results topoSort has for the orders S may be given in.
TopoSorts(S) ==
  {order \in SetToSeqs(S) :
     \E layer \in [S -> 0..Cardinality(S)] :
       /\ Layering(layer, S)
       /\ \A i, j \in DOMAIN order :
            i < j => layer[order[i]] <= layer[order[j]]}

\* Mutant: the uninstall goes through the services as the install does.
OrdersForward(o, S) == TopoSorts(S)

\* Hosts first to install, hosts last to uninstall.
Orders(o, S) ==
  IF o = "install" THEN TopoSorts(S)
  ELSE {Reverse(order) : order \in TopoSorts(S)}

\* validateDependencyClosure: every host is selected too, or installed.
DependencyClosed(S, station) ==
  \A x \in S : \/ Host[x] \in S \cup {NoHost}
               \/ station[Host[x]] = "INSTALLED"

\* validateReverseClosure: what is installed on a host goes with it.
ReverseClosed(S, station) ==
  \A x \in Service :
    Host[x] \in S /\ station[x] = "INSTALLED" => x \in S

Valid(o, S, station) ==
  /\ S \subseteq Holds(station)
  /\ IF o = "install" THEN DependencyClosed(S, station)
                      ELSE ReverseClosed(S, station)

-----------------------------------------------------------------------------
(* Sessions.                                                               *)

Pc == {"idle", "reading", "next", "preparing", "tool", "probing",
       "completing", "announcing", "failing", "aborting", "throwing"}

Active(s) == pc[s] \notin {"idle", "reading"}

Current(s) == Head(todo[s])

\* s has started x and has not yet tried to move it on.
Drives(s, x) ==
  /\ pc[s] \in {"tool", "probing", "completing", "failing", "aborting"}
  /\ Current(s) = x

\* What s has brought to the end it was asked for.
Completed(s) ==
  {x \in chosen[s] :
     /\ Active(s)
     /\ x \notin ToSet(todo[s]) \/ (pc[s] = "announcing" /\ x = Current(s))}

Goto(s, to) ==
  /\ pc' = [pc EXCEPT ![s] = to]
  /\ UNCHANGED <<op, chosen, todo, snapshot, aborted>>

\* Nothing of the request or the task is left.
Finish(s) ==
  /\ pc' = [pc EXCEPT ![s] = "idle"]
  /\ op' = [op EXCEPT ![s] = "install"]
  /\ chosen' = [chosen EXCEPT ![s] = {}]
  /\ todo' = [todo EXCEPT ![s] = <<>>]
  /\ snapshot' = [snapshot EXCEPT ![s] = Nowhere]
  /\ aborted' = [aborted EXCEPT ![s] = FALSE]

\* stations.of of the handler; the commands refuse an empty selection.
Request(s, o, S) ==
  /\ pc[s] = "idle" /\ exists /\ S # {}
  /\ pc' = [pc EXCEPT ![s] = "reading"]
  /\ op' = [op EXCEPT ![s] = o]
  /\ chosen' = [chosen EXCEPT ![s] = S]
  /\ snapshot' = [snapshot EXCEPT ![s] = status]
  /\ UNCHANGED <<todo, aborted, stationVars, running, editorVars, historyVars>>

\* Mutant: a claim that fails releases the ids it was asked for.
BeginReleasingAll(s) ==
  /\ pc[s] = "reading"
  /\ IF Valid(op[s], chosen[s], snapshot[s]) /\ chosen[s] \cap running = {}
     THEN \E order \in Orders(op[s], chosen[s]) :
            /\ running' = running \cup chosen[s]
            /\ todo' = [todo EXCEPT ![s] = order]
            /\ pc' = [pc EXCEPT ![s] = "next"]
            /\ snapshot' = [snapshot EXCEPT ![s] = Nowhere]
            /\ UNCHANGED <<op, chosen, aborted>>
     ELSE Finish(s) /\ running' = running \ chosen[s]
  /\ UNCHANGED <<stationVars, editorVars, historyVars>>

\* The rest of the handler, without an await: the checks, claimAll, start.
Begin(s) ==
  /\ pc[s] = "reading"
  /\ IF Valid(op[s], chosen[s], snapshot[s]) /\ chosen[s] \cap running = {}
     THEN \E order \in Orders(op[s], chosen[s]) :
            /\ running' = running \cup chosen[s]
            /\ todo' = [todo EXCEPT ![s] = order]
            /\ pc' = [pc EXCEPT ![s] = "next"]
            /\ snapshot' = [snapshot EXCEPT ![s] = Nowhere]
            /\ UNCHANGED <<op, chosen, aborted>>
     ELSE Finish(s) /\ UNCHANGED running
  /\ UNCHANGED <<stationVars, editorVars, historyVars>>

\* The task settles: its finally block releases the claims.
Release(s) ==
  /\ Finish(s)
  /\ running' = running \ chosen[s]
  /\ UNCHANGED <<stationVars, editorVars, historyVars>>

\* The loop is over: all are done, or the signal is aborted.
Return(s) ==
  /\ pc[s] = "next" /\ (todo[s] = <<>> \/ aborted[s])
  /\ Release(s)

NextService(s) ==
  /\ pc[s] = "next" /\ todo[s] # <<>> /\ ~aborted[s]
  /\ Goto(s, "preparing")
  /\ UNCHANGED <<stationVars, running, editorVars, historyVars>>

\* The blueprint, a secret or a host's instances are not found.
PrepareFails(s) ==
  /\ pc[s] = "preparing"
  /\ Goto(s, "throwing")
  /\ UNCHANGED <<stationVars, running, editorVars, historyVars>>

\* startServiceInstall or startServiceUninstall, from whatever status; it
\* throws, outside the try block, when the service is gone.
StartService(s) ==
  LET x == Current(s) IN
  /\ pc[s] = "preparing"
  /\ IF exists /\ status[x] \in Status
     THEN /\ status' = [status EXCEPT ![x] = Starting[op[s]]]
          /\ abandoned' = abandoned \ {x}
          /\ clobbered' = clobbered \ {x}
          /\ Goto(s, "tool")
     ELSE Goto(s, "throwing") /\ UNCHANGED <<status, historyVars>>
  /\ UNCHANGED <<exists, running, editorVars>>

\* alreadyHealthy: before a step, the installer runs the step's verify on the
\* host, over a connection with a signal of its own, which nobody aborts.
ProbeStarts(s) ==
  /\ pc[s] = "tool" /\ ~aborted[s]
  /\ Goto(s, "probing")
  /\ UNCHANGED <<stationVars, running, editorVars, historyVars>>

ProbeEnds(s) ==
  /\ pc[s] = "probing"
  /\ Goto(s, "tool")
  /\ UNCHANGED <<stationVars, running, editorVars, historyVars>>

ToolSucceeds(s) ==
  /\ pc[s] = "tool"
  /\ Goto(s, "completing")
  /\ UNCHANGED <<stationVars, running, editorVars, historyVars>>

\* The catch block: the signal decides which transition it asks for.
Catch(s) == Goto(s, IF aborted[s] THEN "aborting" ELSE "failing")

\* Mutant: an aborted run throws at once.
ToolFailsAtOnce(s) ==
  /\ pc[s] = "tool"
  /\ Goto(s, IF aborted[s] THEN "throwing" ELSE "failing")
  /\ UNCHANGED <<stationVars, running, editorVars, historyVars>>

\* Also what cancellation comes to: ssh is killed, ensureNotAborted throws.
ToolFails(s) ==
  /\ pc[s] = "tool"
  /\ Catch(s)
  /\ UNCHANGED <<stationVars, running, editorVars, historyVars>>

\* checkInstalling, checkUninstalling.
MayEnd(s) == exists /\ status[Current(s)] = Starting[op[s]]

End(s, target) ==
  IF MayEnd(s) THEN status' = [status EXCEPT ![Current(s)] = target[op[s]]]
               ELSE UNCHANGED status

\* installService or uninstallService, inside the try block.
CompleteService(s) ==
  /\ pc[s] = "completing"
  /\ End(s, Done)
  /\ IF MayEnd(s) THEN Goto(s, "announcing") ELSE Catch(s)
  /\ UNCHANGED <<exists, running, editorVars, historyVars>>

\* The dispatch of ServiceInstallSucceeded or ServiceUninstalled, the only
\* events of the station with policies; the try block holds it too.
Announce(s) ==
  /\ pc[s] = "announcing"
  /\ \/ /\ pc' = [pc EXCEPT ![s] = "next"]
        /\ todo' = [todo EXCEPT ![s] = Tail(@)]
        /\ UNCHANGED <<op, chosen, snapshot, aborted>>
     \/ DispatchMayFail /\ Catch(s)
  /\ UNCHANGED <<stationVars, running, editorVars, historyVars>>

\* Mutant: the error of an illegal transition is caught like the tool's.
FailServiceAgain(s) ==
  /\ pc[s] \in {"failing", "aborting"}
  /\ End(s, IF pc[s] = "failing" THEN FailedAs ELSE AbortedAs)
  /\ IF MayEnd(s) THEN Goto(s, "throwing") ELSE Goto(s, pc[s])
  /\ UNCHANGED <<exists, running, editorVars, historyVars>>

\* failService, abortService and their uninstall twins.  When the transition
\* is illegal its error takes the place of the one that was caught.
FailService(s) ==
  /\ pc[s] \in {"failing", "aborting"}
  /\ End(s, IF pc[s] = "failing" THEN FailedAs ELSE AbortedAs)
  /\ Goto(s, "throwing")
  /\ UNCHANGED <<exists, running, editorVars, historyVars>>

Throw(s) ==
  /\ pc[s] = "throwing"
  /\ Release(s)

\* executions.cancel, or the idle timer of the executions.
Abort(s) ==
  /\ Active(s) /\ ~aborted[s]
  /\ aborted' = [aborted EXCEPT ![s] = TRUE]
  /\ UNCHANGED <<pc, op, chosen, todo, snapshot, stationVars, running,
                 editorVars, historyVars>>

-----------------------------------------------------------------------------
(* Everything else that reaches the station.                               *)

\* The station an editor has in hand after its change to what it read.
Edits(station) ==
  {station}                                               \* UpdateStation
  \cup {[station EXCEPT ![x] = "REGISTERED"] :            \* RegisterService
          x \in {y \in Service : /\ station[y] = "absent"
                                 /\ Host[y] \in Holds(station) \cup {NoHost}}}
  \cup {[station EXCEPT ![x] = "removed"] :               \* UnregisterService
          x \in {y \in Service : station[y] \in Removable}}

\* stations.of, the checks and the change, on the copy that was read.
EditorReads(e) ==
  /\ exists /\ e \notin editing
  /\ editing' = editing \cup {e}
  /\ base' = [base EXCEPT ![e] = status]
  /\ \E edit \in Edits(status) : draft' = [draft EXCEPT ![e] = edit]
  /\ UNCHANGED <<stationVars, running, sessionVars, historyVars>>

\* A service a save does not know of is gone: its id does not come back.
Overwritten(station) ==
  [x \in Service |-> IF station[x] = "absent" /\ status[x] # "absent"
                     THEN "removed" ELSE station[x]]

\* stations.save: the copy replaces the station, whatever that is by now.
EditorSaves(e) ==
  /\ e \in editing
  /\ editing' = editing \ {e}
  /\ base' = [base EXCEPT ![e] = Nowhere]
  /\ draft' = [draft EXCEPT ![e] = Nowhere]
  /\ IF exists
     THEN /\ status' = Overwritten(draft[e])
          /\ clobbered' = clobbered \cup
                            {x \in Service : status[x] # base[e][x]}
     ELSE UNCHANGED <<status, clobbered>>
  /\ UNCHANGED <<exists, running, sessionVars, abandoned>>

\* No status and no claim keeps a station from being removed.
UnregisterStation ==
  /\ exists
  /\ exists' = FALSE
  /\ status' = [x \in Service |->
                  IF status[x] \in Status THEN "removed" ELSE status[x]]
  /\ UNCHANGED <<running, sessionVars, editorVars, historyVars>>

\* The engine dies and is started again: the station is on disk.
Crash ==
  /\ running' = {}
  /\ pc' = [s \in Session |-> "idle"]
  /\ op' = [s \in Session |-> "install"]
  /\ chosen' = [s \in Session |-> {}]
  /\ todo' = [s \in Session |-> <<>>]
  /\ snapshot' = [s \in Session |-> Nowhere]
  /\ aborted' = [s \in Session |-> FALSE]
  /\ editing' = {}
  /\ base' = [e \in Editor |-> Nowhere]
  /\ draft' = [e \in Editor |-> Nowhere]
  /\ abandoned' = {x \in Service : \E o \in Op : status[x] = Starting[o]}
  /\ UNCHANGED <<stationVars, clobbered>>

-----------------------------------------------------------------------------
\* A station with some of its services registered.
Init ==
  /\ exists = TRUE
  /\ status \in [Service -> {"absent", "REGISTERED"}]
  /\ \A x \in Holds(status) : Host[x] \in Holds(status) \cup {NoHost}
  /\ running = {}
  /\ pc = [s \in Session |-> "idle"]
  /\ op = [s \in Session |-> "install"]
  /\ chosen = [s \in Session |-> {}]
  /\ todo = [s \in Session |-> <<>>]
  /\ snapshot = [s \in Session |-> Nowhere]
  /\ aborted = [s \in Session |-> FALSE]
  /\ editing = {}
  /\ base = [e \in Editor |-> Nowhere]
  /\ draft = [e \in Editor |-> Nowhere]
  /\ abandoned = {}
  /\ clobbered = {}

SessionStep(s) ==
  \/ Begin(s)
  \/ Return(s)
  \/ NextService(s)
  \/ PrepareFails(s)
  \/ StartService(s)
  \/ CompleteService(s)
  \/ Announce(s)
  \/ FailService(s)
  \/ Throw(s)

ToolStep(s) == ToolSucceeds(s) \/ ToolFails(s)

Probe(s) == ProbeStarts(s) \/ ProbeEnds(s)

Next ==
  \/ \E s \in Session :
       \/ \E o \in Op, S \in SUBSET Service : Request(s, o, S)
       \/ SessionStep(s)
       \/ ToolStep(s)
       \/ Probe(s)
       \/ Abort(s)
  \/ \E e \in Editor : EditorReads(e) \/ EditorSaves(e)
  \/ UnregisterStation
  \/ Crash

Spec == Init /\ [][Next]_vars

\* The event loop resumes every task whose await is over.  The installer may
\* hang on a host, but once its session is aborted only in a probe: its other
\* connections are killed by the signal.
Fairness ==
  \A s \in Session :
    /\ WF_vars(SessionStep(s))
    /\ WF_vars(aborted[s] /\ ToolStep(s))

FairSpec == Spec /\ Fairness

-----------------------------------------------------------------------------
(* Properties.                                                             *)

Statuses == [Service -> Status \cup Absent]

TypeOK ==
  /\ exists \in BOOLEAN
  /\ status \in Statuses
  /\ running \subseteq Service
  /\ pc \in [Session -> Pc]
  /\ op \in [Session -> Op]
  /\ chosen \in [Session -> SUBSET Service]
  /\ todo \in [Session -> Seq(Service)]
  /\ snapshot \in [Session -> Statuses]
  /\ aborted \in [Session -> BOOLEAN]
  /\ editing \subseteq Editor
  /\ base \in [Editor -> Statuses]
  /\ draft \in [Editor -> Statuses]
  /\ abandoned \subseteq Service
  /\ clobbered \subseteq Service

\* "a service can't install and uninstall at once" (UninstallStationHandler):
\* two sessions never hold the same service, not even one they have yet to
\* come to, and the registry lists what they hold and nothing else.
OneDriver ==
  /\ running = UNION {chosen[s] : s \in {t \in Session : Active(t)}}
  /\ \A s, t \in Session :
       s # t /\ Active(s) /\ Active(t) => chosen[s] \cap chosen[t] = {}

\* A service that is INSTALLING or UNINSTALLING has a live session that will
\* move it on, unless the session died with the engine (start again, as
\* startInstall of service.ts explains) or a save brought the status back.
InFlightIsDriven ==
  \A x \in Service, o \in Op :
    status[x] = Starting[o] /\ x \notin abandoned \cup clobbered =>
      \E s \in Session : op[s] = o /\ Drives(s, x)

\* What a session has completed stays as it left it until the session ends,
\* so that Succeeded tells the truth of every service of the session.
DoneStaysDone ==
  \A s \in Session : \A x \in Completed(s) \ clobbered :
    exists => status[x] \in {Done[op[s]]} \cup
                 (IF op[s] = "uninstall" THEN Absent ELSE {})

\* "a host is always installed before anything hosted on it" (the tests of
\* topoSort), and uninstalled after it: within a session the tool works on a
\* service only when what it rests on is there, or what rests on it is gone.
HostsFirst ==
  \A s \in Session, x \in Service :
    pc[s] \in {"tool", "probing"} /\ Current(s) = x /\ exists =>
      /\ op[s] = "install" /\ Host[x] \in chosen[s] \ clobbered
           => status[Host[x]] = "INSTALLED"
      /\ op[s] = "uninstall" =>
           \A y \in chosen[s] \ clobbered :
             Host[y] = x => status[y] \in {"UNINSTALLED"} \cup Absent

\* An aborted session ends, whatever the installer does and whichever of its
\* transitions throws, unless it is left hanging in a probe; by OneDriver its
\* services can then be claimed again.
AbortEnds ==
  \A s \in Session : aborted[s] ~> pc[s] \in {"idle", "probing"}

\* "a selected host service may not be uninstalled while a hosted dependent
\* stays INSTALLED" (UninstallStationHandler): nothing is left installed on a
\* host that has been uninstalled.
\* Not kept by the code (README, Disagreements).
NoOrphans ==
  \A x \in Service :
    Host[x] \in Service /\ status[x] = "INSTALLED"
      => status[Host[x]] # "UNINSTALLED"

\* "honors the aborted signal" (uninstall of the Installer interface): an
\* aborted session ends.
\* Not kept by the code (README, Disagreements).
AbortIsHonored == \A s \in Session : aborted[s] ~> pc[s] = "idle"

\* "two concurrent requests cannot tear or lose each other's persisted state"
\* (Server.serve): a status changes only as the lifecycle of Service says.
\* Not kept by the code (README, Disagreements).
LifecycleOnly ==
  [][\A x \in Service :
       status'[x] # status[x] =>
         \/ status[x] = "absent" /\ status'[x] = "REGISTERED"
         \/ status[x] \in Status /\ \E o \in Op : status'[x] = Starting[o]
         \/ \E o \in Op :
              /\ status[x] = Starting[o]
              /\ status'[x] \in {Done[o], FailedAs[o], AbortedAs[o]}
         \/ status[x] \in Removable /\ status'[x] = "removed"
         \/ ~exists']_vars

\* "Already-completed services keep their INSTALLED state; the failed one is
\* FAILED" (InstallStationHandler): a service the session fails at, once it
\* was started, ends up failed or aborted.
\* Not kept by the code (README, Disagreements).
FailureIsRecorded ==
  [][\A s \in Session :
       /\ pc[s] \in {"failing", "aborting"} /\ pc'[s] = "throwing"
       /\ exists /\ Current(s) \notin clobbered
       => status'[Current(s)] \in {FailedAs[op[s]], AbortedAs[op[s]]}]_vars
=============================================================================
