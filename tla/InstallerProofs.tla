--------------------------- MODULE InstallerProofs ---------------------------
(***************************************************************************)
(* Theorems about Installer, for any blueprints, hosts, attempts and       *)
(* faults.                                                                 *)
(*                                                                         *)
(* Inv says where the run can be: the place it is at is one of the plan's  *)
(* for as long as it is at a host or a step, a task exists only while its  *)
(* step is applied, and the peers of a role are as many as its hosts that  *)
(* are through.                                                            *)
(***************************************************************************)
EXTENDS Installer, SequenceTheorems, TLAPS

AtStep == {"probe", "apply", "rollback", "verify"}
AtHost == {"wait", "step"} \cup AtStep

\* How many hosts and steps there are.
NHosts == [k \in 1..NRoles |-> Len(Hosts(k))]
NSteps == [k \in 1..NRoles |-> Len(Steps(k))]

\* The place is one of the plan.
Placed ==
  /\ pc # "idle" => op \in {"install", "uninstall"}
  /\ op # NoRun => at[1] <= NRoles + 1
  /\ pc \in {"host"} \cup AtHost => at[1] <= NRoles
  /\ pc = "identity" => at = <<1, 1, 1>>
  /\ pc = "role" => at[2] = 1 /\ at[3] = 1
  /\ pc \in {"host", "wait"} => at[3] = 1
  /\ pc = "host" => at[2] <= NHosts[at[1]] + 1
  /\ pc \in AtHost => at[2] <= NHosts[at[1]] /\ NSteps[at[1]] >= 1
  /\ pc = "step" => at[3] <= NSteps[at[1]] + 1
  /\ pc \in AtStep => at[3] <= NSteps[at[1]]
  /\ outcome = "succeeded" => pc = "idle" /\ at = <<NRoles + 1, 1, 1>>
  /\ pc # "idle" => outcome = "none"
  /\ outcome # "none" => op # NoRun

TaskPlaced == task # "none" <=> pc \in {"apply", "rollback"}

\* The hosts of a role that are through are its peers.
PeersCollected ==
  pc # "idle" /\ op = "install" /\ ~plan.hosted =>
    /\ \A k \in 1..NRoles : k < at[1] => Len(peers[k]) = NHosts[k]
    /\ at[1] <= NRoles => Len(peers[at[1]]) = at[2] - 1
    /\ \A k \in 1..NRoles : k > at[1] => peers[k] = <<>>

Rendered == task = "shell" => Renders(StepOf(at))

Inv == TypeOK /\ Placed /\ TaskPlaced /\ PeersCollected /\ Rendered

-----------------------------------------------------------------------------
(* Plans.                                                                  *)

\* What a plan is made of.
LEMMA PlanTypes ==
  ASSUME plan \in Plans
  PROVE  /\ plan.hosted \in BOOLEAN
         /\ plan.roles \in Seq(Role)
         /\ NRoles \in Nat
         /\ plan.hosted => NRoles = 1
<1>1. plan \in [hosted: BOOLEAN, roles: Seq(Role)]
  BY InstallerAssumption
<1>2. plan.hosted \in BOOLEAN /\ plan.roles \in Seq(Role)
  BY <1>1
<1> QED
  BY <1>2, InstallerAssumption DEF NRoles

\* Every role a run comes to has its hosts and steps.
LEMMA RoleTypes ==
  ASSUME plan \in Plans, NEW k \in 1..NRoles
  PROVE  /\ RoleAt(k) \in 1..NRoles
         /\ Hosts(k) \in Seq(Host) /\ Len(Hosts(k)) \in Nat
         /\ Steps(k) \in Seq(Step) /\ Len(Steps(k)) \in Nat
         /\ op = "install" => RoleAt(k) = k /\ Steps(k) # <<>>
<1>1. NRoles \in Nat /\ plan.roles \in Seq(Role)
  BY PlanTypes
<1>2. RoleAt(k) \in 1..NRoles
  BY <1>1 DEF RoleAt
<1>3. plan.roles[RoleAt(k)] \in Role
  BY <1>1, <1>2 DEF NRoles
<1>4. /\ plan.roles[RoleAt(k)].hosts \in Seq(Host)
      /\ plan.roles[RoleAt(k)].install \in Seq(Step) \ {<<>>}
      /\ plan.roles[RoleAt(k)].uninstall \in Seq(Step)
  BY <1>3 DEF Role
<1>5. Hosts(k) \in Seq(Host) /\ Steps(k) \in Seq(Step)
  BY <1>4 DEF Hosts, Steps
<1>6. op = "install" => RoleAt(k) = k /\ Steps(k) # <<>>
  BY <1>4 DEF RoleAt, Steps
<1> QED
  BY <1>2, <1>5, <1>6

\* How many of them there are.
LEMMA Counts ==
  ASSUME plan \in Plans
  PROVE  /\ NRoles \in Nat
         /\ NHosts \in [1..NRoles -> Nat]
         /\ NSteps \in [1..NRoles -> Nat]
         /\ \A k \in 1..NRoles :
              /\ NHosts[k] = Len(Hosts(k)) /\ NSteps[k] = Len(Steps(k))
              /\ Hosts(k) = <<>> <=> NHosts[k] = 0
              /\ Steps(k) = <<>> <=> NSteps[k] = 0
<1>1. NRoles \in Nat
  BY PlanTypes
<1>2. \A k \in 1..NRoles : /\ Hosts(k) \in Seq(Host) /\ Len(Hosts(k)) \in Nat
                           /\ Steps(k) \in Seq(Step) /\ Len(Steps(k)) \in Nat
  BY RoleTypes
<1>3. \A k \in 1..NRoles : /\ Hosts(k) = <<>> <=> Len(Hosts(k)) = 0
                           /\ Steps(k) = <<>> <=> Len(Steps(k)) = 0
  BY <1>2, EmptySeq
<1> QED
  BY <1>1, <1>2, <1>3 DEF NHosts, NSteps

\* The host and the step of a place.
LEMMA PlaceTypes ==
  ASSUME plan \in Plans, NEW w \in (Nat \ {0}) \X (Nat \ {0}) \X (Nat \ {0}),
         w[1] <= NRoles, w[2] <= NHosts[w[1]]
  PROVE  /\ HostOf(w) \in Host
         /\ RoleAt(w[1]) \in 1..NRoles
         /\ w[3] <= NSteps[w[1]] => StepOf(w) \in Step
<1>1. w[1] \in 1..NRoles
  BY PlanTypes
<1>2. /\ Hosts(w[1]) \in Seq(Host) /\ Steps(w[1]) \in Seq(Step)
      /\ RoleAt(w[1]) \in 1..NRoles
  BY <1>1, RoleTypes
<1>3. HostOf(w) \in Host
  BY <1>1, <1>2, Counts DEF HostOf
<1>4. w[3] <= NSteps[w[1]] => StepOf(w) \in Step
  BY <1>1, <1>2, Counts DEF StepOf
<1> QED
  BY <1>2, <1>3, <1>4

\* Only Begin changes the list of steps a run goes through.
LEMMA SamePlan ==
  ASSUME plan' = plan, op' = op
  PROVE  /\ NRoles' = NRoles
         /\ \A k : RoleAt(k)' = RoleAt(k)
         /\ \A k : Hosts(k)' = Hosts(k) /\ Steps(k)' = Steps(k)
         /\ \A w : HostOf(w)' = HostOf(w) /\ StepOf(w)' = StepOf(w)
         /\ NHosts' = NHosts /\ NSteps' = NSteps
BY DEF NRoles, RoleAt, Hosts, Steps, HostOf, StepOf, NHosts, NSteps

-----------------------------------------------------------------------------
(* Types.                                                                  *)

Places == (Nat \ {0}) \X (Nat \ {0}) \X (Nat \ {0})
AllParts == Nat \X Host \X Nat

\* The next place is a place.
LEMMA NextPlaces ==
  ASSUME NEW w \in Places
  PROVE  NextRole(w) \in Places /\ NextHost(w) \in Places
           /\ NextStep(w) \in Places
BY DEF Places, NextRole, NextHost, NextStep

\* A shell, whole or not, leaves parts of hosts in effect.
LEMMA RanTypes ==
  ASSUME TypeOK, Placed, pc \in AtStep, NEW b \in BOOLEAN, Ran(at, b)
  PROVE  up' \subseteq AllParts /\ starting' \subseteq AllParts
<1>1. at \in Places /\ plan \in Plans /\ at[1] <= NRoles
        /\ at[2] <= NHosts[at[1]]
  BY DEF TypeOK, Placed, AtStep, AtHost, Places
<1>2. HostOf(at) \in Host /\ RoleAt(at[1]) \in Nat
  BY <1>1, PlaceTypes, PlanTypes DEF Places
<1>3. Part(at) \in AllParts
  BY <1>1, <1>2 DEF Part, AllParts, Places
<1>4. up \subseteq AllParts /\ starting \subseteq AllParts
  BY DEF TypeOK, AllParts
<1> QED
  BY <1>3, <1>4 DEF Ran

LEMMA BrokeTypes ==
  ASSUME TypeOK, Placed, pc \in AtStep, Broke(at)
  PROVE  up' \subseteq AllParts /\ starting' \subseteq AllParts
BY RanTypes DEF Broke, TypeOK, AllParts

\* An error changes no type.
LEMMA ThrowTypes ==
  ASSUME TypeOK, Throw, UNCHANGED <<plan, power, faults>>,
         up' \subseteq AllParts, starting' \subseteq AllParts
  PROVE  TypeOK'
BY SamePlan DEF TypeOK, Throw, AllParts

\* From role to role and host to host.
LEMMA WalkTypes ==
  ASSUME TypeOK, Placed, Walk
  PROVE  TypeOK'
<1> USE DEF Stay, worldVars
<1>1. at \in Places /\ plan \in Plans
  BY DEF TypeOK, Places
<1>2. NextRole(at) \in Places /\ NextHost(at) \in Places
  BY <1>1, NextPlaces
<1>3. CASE Throw /\ Stay /\ UNCHANGED <<plan, faults>>
  <2>1. up' \subseteq AllParts /\ starting' \subseteq AllParts
    BY <1>3 DEF TypeOK, AllParts
  <2> QED
    BY <1>3, <2>1, ThrowTypes
<1>4. CASE EnsureIdentity /\ ~Throw
  BY <1>4, SamePlan DEF EnsureIdentity, TypeOK
<1>5. CASE EnterRole /\ ~Throw
  <2>1. UNCHANGED <<plan, op, tries, signal, task, unread, published, peers,
                    outcome, power, up, starting, passed, runs, faults>>
    BY <1>5 DEF EnterRole
  <2>2. pc' \in {"role", "host"} /\ at' \in Places
    BY <1>1, <1>2, <1>5 DEF EnterRole, Goto
  <2> QED
    BY <2>1, <2>2, SamePlan DEF TypeOK, Places
<1>6. CASE Return
  BY <1>6, SamePlan DEF Return, TypeOK
<1>7. CASE EnterHost /\ ~Throw
  <2>1. UNCHANGED <<plan, op, signal, task, unread, published, peers,
                    outcome, power, up, starting, passed, runs, faults>>
    BY <1>7 DEF EnterHost
  <2>2. pc' \in {"role", "host", "wait"} /\ at' \in Places
    BY <1>1, <1>2, <1>7 DEF EnterHost, Goto
  <2>3. tries' \in {tries, 1}
    BY <1>7 DEF EnterHost
  <2>4. tries' \in (0..MaxAttempts) \cup (0..RetryCount)
    BY <2>3, InstallerAssumption DEF TypeOK
  <2> QED
    BY <2>1, <2>2, <2>4, SamePlan DEF TypeOK, Places
<1>8. CASE WaitReady
  BY <1>8, SamePlan DEF WaitReady, TypeOK
<1>9. CASE WaitRefused
  <2>1. tries' \in (0..MaxAttempts) \cup (0..RetryCount)
    BY <1>9, InstallerAssumption DEF WaitRefused, TypeOK
  <2> QED
    BY <1>9, <2>1, SamePlan DEF WaitRefused, TypeOK
<1>10. CASE WaitOver /\ ~Throw
  <2>1. /\ UNCHANGED <<plan, op, tries, signal, task, unread, published,
                       peers, outcome, power, up, starting, runs, faults>>
        /\ pc' = "host" /\ at' \in Places
        /\ passed' = passed \cup {<<RoleAt(at[1]), HostOf(at)>>}
    BY <1>2, <1>10 DEF WaitOver, Goto
  <2>2. HostOf(at) \in Host /\ RoleAt(at[1]) \in Nat
    BY <1>1, <1>10, PlaceTypes, PlanTypes DEF WaitOver, Placed, AtHost, Places
  <2> QED
    BY <2>1, <2>2, SamePlan DEF TypeOK, Places
<1>11. CASE HostOver
  <2>1. /\ UNCHANGED <<plan, op, tries, signal, task, unread, published,
                       outcome, power, up, starting, passed, runs, faults>>
        /\ pc' = "host" /\ at' \in Places
    BY <1>2, <1>11 DEF HostOver, Goto
  <2>2. peers' \in [1..NRoles -> Seq(SUBSET Value)]
    <3>1. RoleAt(at[1]) \in 1..NRoles
      BY <1>1, <1>11, RoleTypes, PlanTypes DEF HostOver, Placed, AtHost, Places
    <3>2. peers \in [1..NRoles -> Seq(SUBSET Value)]
            /\ published \in SUBSET Value
      BY DEF TypeOK
    <3>3. Append(peers[RoleAt(at[1])], published) \in Seq(SUBSET Value)
      BY <3>1, <3>2
    <3> QED
      BY <3>2, <3>3, <1>11 DEF HostOver
  <2> QED
    BY <2>1, <2>2, SamePlan DEF TypeOK, Places
<1> QED
  BY <1>3, <1>4, <1>5, <1>6, <1>7, <1>8, <1>9, <1>10, <1>11
  DEF Walk, EnsureIdentity, EnterRole, EnterHost, WaitOver

\* One step of a host.
LEMMA TryTypes ==
  ASSUME TypeOK, Placed, TaskPlaced, Try \/ ShellSucceeds \/ ShellFails
  PROVE  TypeOK'
<1> USE DEF Stay, worldVars
<1>1. at \in Places /\ plan \in Plans
  BY DEF TypeOK, Places
<1>2. NextStep(at) \in Places
  BY <1>1, NextPlaces
<1>3. CASE Throw /\ Stay /\ UNCHANGED <<plan, faults>>
  <2>1. up' \subseteq AllParts /\ starting' \subseteq AllParts
    BY <1>3 DEF TypeOK, AllParts
  <2> QED
    BY <1>3, <2>1, ThrowTypes
<1>4. tries' \in {tries, tries + 1, 1} /\ (tries' = tries + 1 => tries < RetryCount)
        => tries' \in (0..MaxAttempts) \cup (0..RetryCount)
  BY InstallerAssumption DEF TypeOK
<1>5. pc \in AtStep => StepOf(at) \in Step
  BY <1>1, PlaceTypes DEF Placed, AtHost, AtStep, Places
<1>6. \A w : Applied(w) \in {"failed", "shell"}
  BY DEF Applied
<1>7. task = "shell" => pc \in AtStep
  BY DEF TaskPlaced, AtStep
<1>8. CASE EnterStep /\ ~Throw
  <2>1. /\ UNCHANGED <<plan, op, at, signal, unread, published, peers, outcome,
                       power, up, starting, passed, runs, faults>>
        /\ pc' \in {"probe", "apply"}
        /\ task' \in {task, "failed", "shell"}
        /\ tries' \in {tries, 1}
    BY <1>6, <1>8 DEF EnterStep
  <2>2. tries' \in (0..MaxAttempts) \cup (0..RetryCount)
    BY <2>1, InstallerAssumption DEF TypeOK
  <2> QED
    BY <2>1, <2>2, SamePlan DEF TypeOK
<1>9. CASE ProbeHealthy
  BY <1>2, <1>9, SamePlan DEF ProbeHealthy, Goto, TypeOK, Places
<1>10. CASE ProbeUnhealthy
  <2>1. /\ UNCHANGED <<plan, op, at, signal, unread, published, peers, outcome,
                       power, up, starting, passed, runs, faults>>
        /\ pc' \in {"probe", "apply"}
        /\ task' \in {task, "failed", "shell"}
    BY <1>6, <1>10 DEF ProbeUnhealthy
  <2>2. tries \in (0..MaxAttempts) \cup (0..RetryCount)
    BY DEF TypeOK
  <2>3. tries' = tries \/ (tries' = tries + 1 /\ tries < RetryCount)
    BY <1>10 DEF ProbeUnhealthy
  <2>4. tries' \in (0..MaxAttempts) \cup (0..RetryCount)
    BY <2>2, <2>3, InstallerAssumption
  <2> QED
    BY <2>1, <2>4, SamePlan DEF TypeOK
<1>11. CASE ShellSucceeds
  <2>1. up' \subseteq AllParts /\ starting' \subseteq AllParts
    BY <1>7, <1>11, RanTypes DEF ShellSucceeds
  <2>2. unread' \in SUBSET Value
    BY <1>5, <1>7, <1>11 DEF ShellSucceeds, Step
  <2> QED
    BY <1>11, <2>1, <2>2, SamePlan DEF ShellSucceeds, Unchanged, TypeOK, AllParts
<1>12. CASE ShellFails \/ ShellKilled
  <2>1. up' \subseteq AllParts /\ starting' \subseteq AllParts
    BY <1>7, <1>12, BrokeTypes DEF ShellFails, ShellKilled
  <2> QED
    BY <1>12, <2>1, SamePlan
    DEF ShellFails, ShellKilled, Unchanged, TypeOK, AllParts
<1>13. CASE ReadNext
  BY <1>13, SamePlan DEF ReadNext, TypeOK
<1>14. CASE ReadStops \/ ReadOver
  BY <1>14, SamePlan DEF ReadStops, ReadOver, Unchanged, TypeOK
<1>15. CASE ApplyFailed /\ ~Throw
  BY <1>15, SamePlan DEF ApplyFailed, TypeOK
<1>16. CASE ApplyOver
  <2>1. /\ UNCHANGED <<plan, op, signal, unread, published, peers, outcome,
                       power, up, starting, passed, runs, faults>>
        /\ pc' \in {"verify", "step"} /\ task' = "none"
        /\ at' \in Places
        /\ tries' \in {tries, 1}
    BY <1>1, <1>2, <1>16 DEF ApplyOver, Goto
  <2>2. tries' \in (0..MaxAttempts) \cup (0..RetryCount)
    BY <2>1, InstallerAssumption DEF TypeOK
  <2> QED
    BY <2>1, <2>2, SamePlan DEF TypeOK, Places
<1>17. CASE Rollback
  <2>1. up' \subseteq AllParts /\ starting' \subseteq AllParts
    BY <1>17, RanTypes DEF Rollback, AtStep, TypeOK, AllParts
  <2> QED
    BY <1>17, <2>1, ThrowTypes DEF Rollback
<1>18. CASE VerifyHealthy
  BY <1>2, <1>18, SamePlan DEF VerifyHealthy, Goto, TypeOK, Places
<1>19. CASE VerifyUnhealthy /\ ~Throw
  <2>1. /\ UNCHANGED <<plan, op, pc, at, signal, task, unread, published, peers,
                       outcome, power, up, starting, passed, runs, faults>>
        /\ tries' = tries + 1 /\ tries < RetryCount
    BY <1>19 DEF VerifyUnhealthy
  <2> QED
    BY <2>1, <1>4, SamePlan DEF TypeOK
<1>20. CASE ApplyCancelled
  BY <1>3, <1>20 DEF ApplyCancelled
<1> QED
  BY <1>3, <1>8, <1>9, <1>10, <1>11, <1>12, <1>13, <1>14, <1>15, <1>16, <1>17,
     <1>18, <1>19, <1>20
  DEF Try, EnterStep, ApplyFailed, VerifyUnhealthy

\* What goes on around the run.
LEMMA WorldTypes ==
  ASSUME TypeOK, World \/ Abort \/ (\E o \in {"install", "uninstall"} : Begin(o))
  PROVE  TypeOK'
<1>1. CASE Abort
  BY <1>1, SamePlan DEF Abort, Stay, worldVars, TypeOK
<1>2. ASSUME NEW o \in {"install", "uninstall"}, Begin(o)
      PROVE  TypeOK'
  <2>1. NRoles' = NRoles
    BY <1>2 DEF Begin, NRoles
  <2>2. peers' \in [1..NRoles -> Seq(SUBSET Value)]
    BY <1>2 DEF Begin
  <2>3. /\ op' = o /\ pc' = "identity" /\ signal' = FALSE /\ published' = {}
        /\ outcome' = "none" /\ passed' = {} /\ runs' = runs + 1
        /\ UNCHANGED <<plan, tries, task, unread, power, up, starting, faults>>
    BY <1>2 DEF Begin, Goto, Stay, worldVars
  <2>4. at' \in (Nat \ {0}) \X (Nat \ {0}) \X (Nat \ {0})
    BY <1>2 DEF Begin, Goto
  <2>5. peers' \in [1..NRoles' -> Seq(SUBSET Value)]
    BY <2>1, <2>2
  <2>6. /\ op' \in {"install", "uninstall", NoRun}
        /\ published' \subseteq Value /\ passed' \subseteq Nat \X Host
        /\ runs' \in Nat
    BY <1>2, <2>3 DEF TypeOK
  <2> QED
    BY <2>3, <2>4, <2>5, <2>6 DEF TypeOK
<1>3. CASE World
  <2>1. UNCHANGED <<runVars, plan>> /\ faults' \in Nat
    BY <1>3 DEF World, Converge, Boot, Restart, Destroy, TypeOK
  <2>2. power' \in [Host -> {"booting", "up", "gone"}]
    BY <1>3 DEF World, Converge, Boot, Restart, Destroy, TypeOK
  <2>3. up' \subseteq Nat \X Host \X Nat /\ starting' \subseteq Nat \X Host \X Nat
    BY <1>3 DEF World, Converge, Boot, Restart, Destroy, TypeOK
  <2> QED
    BY <2>1, <2>2, <2>3, SamePlan DEF runVars, TypeOK
<1> QED
  BY <1>1, <1>2, <1>3

-----------------------------------------------------------------------------
(* The place, the task and the peers.                                      *)

\* What places are made of.
LEMMA AtTypes ==
  ASSUME TypeOK
  PROVE  /\ at \in Places /\ at = <<at[1], at[2], at[3]>>
         /\ at[1] \in Nat \ {0} /\ at[2] \in Nat \ {0} /\ at[3] \in Nat \ {0}
         /\ NextRole(at) = <<at[1] + 1, 1, 1>>
         /\ NextHost(at) = <<at[1], at[2] + 1, 1>>
         /\ NextStep(at) = <<at[1], at[2], at[3] + 1>>
BY DEF TypeOK, Places, NextRole, NextHost, NextStep

\* An error leaves the run where it is, without a task.
LEMMA ThrowPlaced ==
  ASSUME TypeOK, Placed, Throw, pc # "idle", UNCHANGED plan
  PROVE  Placed' /\ TaskPlaced' /\ PeersCollected' /\ Rendered'
<1>1. /\ NRoles' = NRoles /\ op' = op /\ at' = at /\ pc' = "idle"
      /\ outcome' \in {"cancelled", "failed"} /\ task' = "none"
  BY SamePlan DEF Throw
<1>2. op # NoRun
  BY InstallerAssumption DEF Placed
<1> QED
  BY <1>1, <1>2 DEF Placed, TaskPlaced, PeersCollected, Rendered, AtHost, AtStep

\* What leaves the plan, the place, and the task alone.
LEMMA StillPlaced ==
  ASSUME Placed, TaskPlaced, PeersCollected, Rendered,
         UNCHANGED <<plan, op, pc, at, outcome, peers>>,
         task' = task \/ (task # "none" /\ task' \notin {"none", "shell"})
  PROVE  Placed' /\ TaskPlaced' /\ PeersCollected' /\ Rendered'
<1>1. /\ NRoles' = NRoles /\ NHosts' = NHosts /\ NSteps' = NSteps
  BY SamePlan
<1>2. Placed'
  BY <1>1 DEF Placed, AtHost, AtStep
<1>3. TaskPlaced'
  BY DEF TaskPlaced
<1>4. PeersCollected'
  BY <1>1 DEF PeersCollected
<1>5. Rendered'
  BY <1>1 DEF Rendered, Renders, StepOf, Steps, RoleAt, NRoles
<1> QED
  BY <1>2, <1>3, <1>4, <1>5

\* From role to role and host to host.
LEMMA WalkPlaced ==
  ASSUME TypeOK, Placed, TaskPlaced, PeersCollected, Rendered, Walk
  PROVE  Placed' /\ TaskPlaced' /\ PeersCollected' /\ Rendered'
<1>1. /\ at \in Places /\ at = <<at[1], at[2], at[3]>>
      /\ at[1] \in Nat \ {0} /\ at[2] \in Nat \ {0} /\ at[3] \in Nat \ {0}
      /\ NextRole(at) = <<at[1] + 1, 1, 1>>
      /\ NextHost(at) = <<at[1], at[2] + 1, 1>>
  BY AtTypes
<1>2. /\ NRoles \in Nat /\ NHosts \in [1..NRoles -> Nat]
      /\ NSteps \in [1..NRoles -> Nat]
      /\ \A k \in 1..NRoles :
           /\ NHosts[k] = Len(Hosts(k)) /\ NSteps[k] = Len(Steps(k))
           /\ Hosts(k) = <<>> <=> NHosts[k] = 0
           /\ Steps(k) = <<>> <=> NSteps[k] = 0
  BY Counts DEF TypeOK
<1>3. plan' = plan
  BY DEF Walk, EnsureIdentity, EnterRole, Return, EnterHost, WaitReady,
         WaitRefused, WaitOver, HostOver
<1>4. pc # "idle" /\ task = "none"
  BY DEF Walk, EnsureIdentity, EnterRole, Return, EnterHost, WaitReady,
         WaitRefused, WaitOver, HostOver, TaskPlaced
<1>5. CASE Throw
  BY <1>3, <1>4, <1>5, ThrowPlaced
<1>6. op = "install" => \A k \in 1..NRoles : RoleAt(k) = k /\ NSteps[k] # 0
  BY <1>2, RoleTypes DEF TypeOK
<1> USE DEF AtHost, AtStep
<1>7. CASE EnsureIdentity /\ ~Throw
  <2>1. /\ UNCHANGED <<op, at, task, peers, outcome>>
        /\ pc = "identity" /\ pc' = "role"
        /\ NRoles' = NRoles /\ NHosts' = NHosts /\ NSteps' = NSteps
    BY <1>3, <1>7, SamePlan DEF EnsureIdentity
  <2>2. Placed' /\ TaskPlaced' /\ PeersCollected'
    BY <2>1, <1>3, <1>4 DEF Placed, TaskPlaced, PeersCollected
  <2> QED
    BY <2>1, <2>2, <1>4 DEF Rendered
<1>8. CASE EnterRole /\ ~Throw
  <2>1. /\ UNCHANGED <<op, task, peers, outcome>>
        /\ pc = "role" /\ at[1] <= NRoles
        /\ \/ pc' = "role" /\ at' = NextRole(at) /\ NHosts[at[1]] = 0
           \/ pc' = "host" /\ at' = at /\ NHosts[at[1]] # 0
        /\ NRoles' = NRoles /\ NHosts' = NHosts /\ NSteps' = NSteps
    BY <1>1, <1>2, <1>3, <1>8, SamePlan DEF EnterRole, Goto
  <2>2. Placed' /\ TaskPlaced'
    BY <2>1, <1>1, <1>2, <1>4 DEF Placed, TaskPlaced
  <2>3. PeersCollected'
    <3>1. CASE at' = at
      BY <2>1, <1>3, <3>1 DEF PeersCollected
    <3>2. CASE at' = NextRole(at) /\ NHosts[at[1]] = 0
      <4>1. at'[1] = at[1] + 1 /\ at'[2] = 1 /\ at[2] = NHosts[at[1]] + 1
              /\ at[1] \in 1..NRoles
        BY <2>1, <1>1, <1>2, <3>2 DEF Placed
      <4> SUFFICES ASSUME op = "install", ~plan.hosted
                   PROVE  PeersCollected'
        BY <2>1, <1>3 DEF PeersCollected
      <4>2. /\ \A k \in 1..NRoles : k < at[1] => Len(peers[k]) = NHosts[k]
            /\ Len(peers[at[1]]) = at[2] - 1
            /\ \A k \in 1..NRoles : k > at[1] => peers[k] = <<>>
        BY <2>1, <4>1 DEF PeersCollected
      <4>3. \A k \in 1..NRoles : k < at'[1] => Len(peers[k]) = NHosts[k]
        <5> TAKE k \in 1..NRoles
        <5>1. NRoles \in Nat /\ NHosts[at[1]] \in Nat
          BY <1>2, <4>1
        <5>2. Len(peers[at[1]]) = NHosts[at[1]]
          BY <4>1, <4>2, <5>1
        <5>3. k < at'[1] => k < at[1] \/ k = at[1]
          BY <4>1, <5>1
        <5> QED
          BY <4>2, <5>2, <5>3
      <4>4. at'[1] <= NRoles => Len(peers[at'[1]]) = at'[2] - 1
        <5>1. Len(<<>>) = 0
          OBVIOUS
        <5> QED
          BY <5>1, <4>1, <4>2, <1>1, <1>2
      <4>5. \A k \in 1..NRoles : k > at'[1] => peers[k] = <<>>
        BY <4>1, <4>2, <1>1, <1>2
      <4> QED
        BY <2>1, <4>3, <4>4, <4>5 DEF PeersCollected
    <3> QED
      BY <2>1, <3>1, <3>2
  <2> QED
    BY <2>1, <2>2, <2>3, <1>4 DEF Rendered
<1>9. CASE Return
  <2>1. /\ UNCHANGED <<op, at, task, peers>>
        /\ pc = "role" /\ at[1] > NRoles /\ pc' = "idle"
        /\ outcome' = "succeeded"
        /\ NRoles' = NRoles /\ NHosts' = NHosts /\ NSteps' = NSteps
    BY <1>3, <1>9, SamePlan DEF Return
  <2>2. op # NoRun /\ at = <<NRoles + 1, 1, 1>>
    BY <2>1, <1>1, <1>2, InstallerAssumption DEF Placed
  <2> QED
    BY <2>1, <2>2, <1>4 DEF Placed, TaskPlaced, PeersCollected, Rendered
<1>10. CASE EnterHost /\ ~Throw
  <2>1. /\ UNCHANGED <<op, task, peers, outcome>>
        /\ pc = "host"
        /\ \/ /\ pc' = "role" /\ at' = NextRole(at)
              /\ at[2] > Len(Hosts(at[1]))
           \/ /\ pc' = "host" /\ at' = NextHost(at)
              /\ at[2] <= Len(Hosts(at[1])) /\ Steps(at[1]) = <<>>
           \/ /\ pc' = "wait" /\ at' = at
              /\ at[2] <= Len(Hosts(at[1])) /\ Steps(at[1]) # <<>>
    BY <1>10 DEF EnterHost, Goto
  <2>2. NRoles' = NRoles /\ NHosts' = NHosts /\ NSteps' = NSteps
    BY <2>1, <1>3, SamePlan
  <2>3. at[1] \in 1..NRoles /\ at[2] <= NHosts[at[1]] + 1 /\ at[3] = 1
    BY <2>1, <1>1, <1>2 DEF Placed
  <2>4. \/ pc' = "role" /\ at' = NextRole(at) /\ at[2] = NHosts[at[1]] + 1
        \/ /\ pc' = "host" /\ at' = NextHost(at)
           /\ at[2] <= NHosts[at[1]] /\ NSteps[at[1]] = 0
        \/ /\ pc' = "wait" /\ at' = at
           /\ at[2] <= NHosts[at[1]] /\ NSteps[at[1]] # 0
    BY <2>1, <2>3, <1>1, <1>2
  <2>5. Placed' /\ TaskPlaced'
    BY <2>1, <2>2, <2>3, <2>4, <1>1, <1>2, <1>4 DEF Placed, TaskPlaced
  <2>6. PeersCollected'
    <3>1. CASE at' = at
      BY <2>1, <2>2, <1>3, <3>1 DEF PeersCollected
    <3>2. CASE at' = NextRole(at) /\ at[2] = NHosts[at[1]] + 1
      <4>1. at'[1] = at[1] + 1 /\ at'[2] = 1 /\ at[2] = NHosts[at[1]] + 1
              /\ at[1] \in 1..NRoles
        BY <2>1, <2>2, <2>3, <1>1, <1>2, <3>2 DEF Placed
      <4> SUFFICES ASSUME op = "install", ~plan.hosted
                   PROVE  PeersCollected'
        BY <2>1, <1>3 DEF PeersCollected
      <4>2. /\ \A k \in 1..NRoles : k < at[1] => Len(peers[k]) = NHosts[k]
            /\ Len(peers[at[1]]) = at[2] - 1
            /\ \A k \in 1..NRoles : k > at[1] => peers[k] = <<>>
        BY <2>1, <4>1 DEF PeersCollected
      <4>3. \A k \in 1..NRoles : k < at'[1] => Len(peers[k]) = NHosts[k]
        <5> TAKE k \in 1..NRoles
        <5>1. NRoles \in Nat /\ NHosts[at[1]] \in Nat
          BY <1>2, <4>1
        <5>2. Len(peers[at[1]]) = NHosts[at[1]]
          BY <4>1, <4>2, <5>1
        <5>3. k < at'[1] => k < at[1] \/ k = at[1]
          BY <4>1, <5>1
        <5> QED
          BY <4>2, <5>2, <5>3
      <4>4. at'[1] <= NRoles => Len(peers[at'[1]]) = at'[2] - 1
        <5>1. Len(<<>>) = 0
          OBVIOUS
        <5> QED
          BY <5>1, <4>1, <4>2, <1>1, <1>2
      <4>5. \A k \in 1..NRoles : k > at'[1] => peers[k] = <<>>
        BY <4>1, <4>2, <1>1, <1>2
      <4> QED
        BY <2>2, <2>3, <2>1, <4>3, <4>4, <4>5 DEF PeersCollected
    <3>3. CASE op # "install"
      BY <2>1, <3>3 DEF PeersCollected
    <3> QED
      BY <2>3, <2>4, <1>6, <3>1, <3>2, <3>3
  <2> QED
    BY <2>1, <2>5, <2>6, <1>4 DEF Rendered
<1>11. CASE WaitReady
  <2>1. /\ UNCHANGED <<op, at, task, peers, outcome>>
        /\ pc = "wait" /\ pc' = "step"
        /\ NRoles' = NRoles /\ NHosts' = NHosts /\ NSteps' = NSteps
    BY <1>3, <1>11, SamePlan DEF WaitReady
  <2>2. Placed' /\ TaskPlaced' /\ PeersCollected'
    BY <2>1, <1>1, <1>2, <1>3, <1>4 DEF Placed, TaskPlaced, PeersCollected
  <2> QED
    BY <2>1, <2>2, <1>4 DEF Rendered
<1>12. CASE WaitRefused
  BY <1>12, StillPlaced DEF WaitRefused
<1>13. CASE WaitOver /\ ~Throw
  <2>1. /\ UNCHANGED <<op, task, peers, outcome>>
        /\ pc = "wait" /\ pc' = "host" /\ at' = NextHost(at)
        /\ op # "install"
        /\ NRoles' = NRoles /\ NHosts' = NHosts /\ NSteps' = NSteps
    BY <1>3, <1>13, SamePlan DEF WaitOver, Goto
  <2>2. Placed' /\ TaskPlaced' /\ PeersCollected'
    BY <2>1, <1>1, <1>2, <1>4 DEF Placed, TaskPlaced, PeersCollected
  <2> QED
    BY <2>1, <2>2, <1>4 DEF Rendered
<1>14. CASE HostOver
  <2>1. /\ UNCHANGED <<op, task, outcome>>
        /\ pc = "step" /\ pc' = "host" /\ at' = NextHost(at)
        /\ NRoles' = NRoles /\ NHosts' = NHosts /\ NSteps' = NSteps
    BY <1>3, <1>14, SamePlan DEF HostOver, Goto
  <2>2. Placed' /\ TaskPlaced'
    BY <2>1, <1>1, <1>2, <1>4 DEF Placed, TaskPlaced
  <2>3. PeersCollected'
    <3>1. CASE op = "install" /\ ~plan.hosted
      <4>1. at[1] \in 1..NRoles /\ RoleAt(at[1]) = at[1]
        BY <3>1, <2>1, <1>1, <1>2, <1>6 DEF Placed
      <4>2. peers' = [peers EXCEPT ![at[1]] = Append(@, published)]
        BY <3>1, <4>1, <1>14 DEF HostOver
      <4>3. /\ peers \in [1..NRoles -> Seq(SUBSET Value)]
            /\ published \in SUBSET Value
        BY DEF TypeOK
      <4>4. /\ Len(peers'[at[1]]) = Len(peers[at[1]]) + 1
            /\ \A k \in 1..NRoles : k # at[1] => peers'[k] = peers[k]
        BY <4>1, <4>2, <4>3
      <4>5. /\ \A k \in 1..NRoles : k < at[1] => Len(peers[k]) = NHosts[k]
            /\ Len(peers[at[1]]) = at[2] - 1
            /\ \A k \in 1..NRoles : k > at[1] => peers[k] = <<>>
        BY <4>1, <2>1, <3>1 DEF PeersCollected
      <4>6. at'[1] = at[1] /\ at'[2] = at[2] + 1
        BY <2>1, <1>1
      <4>7. \A k \in 1..NRoles : k < at[1] => k # at[1]
        BY <4>1, <1>2
      <4>8. \A k \in 1..NRoles : k > at[1] => k # at[1]
        BY <4>1, <1>2
      <4>9. Len(peers'[at[1]]) = at'[2] - 1
        BY <4>4, <4>5, <4>6, <1>1
      <4> QED
        BY <4>4, <4>5, <4>6, <4>7, <4>8, <4>9, <2>1 DEF PeersCollected
    <3>2. CASE ~(op = "install" /\ ~plan.hosted)
      BY <3>2, <2>1, <1>3 DEF PeersCollected
    <3> QED
      BY <3>1, <3>2
  <2> QED
    BY <2>1, <2>2, <2>3, <1>4 DEF Rendered
<1> QED
  BY <1>5, <1>7, <1>8, <1>9, <1>10, <1>11, <1>12, <1>13, <1>14 DEF Walk

\* One step of a host.
LEMMA TryPlaced ==
  ASSUME TypeOK, Placed, TaskPlaced, PeersCollected, Rendered,
         Try \/ ShellSucceeds \/ ShellFails
  PROVE  Placed' /\ TaskPlaced' /\ PeersCollected' /\ Rendered'
<1>1. /\ at \in Places /\ at = <<at[1], at[2], at[3]>>
      /\ at[1] \in Nat \ {0} /\ at[2] \in Nat \ {0} /\ at[3] \in Nat \ {0}
      /\ NextStep(at) = <<at[1], at[2], at[3] + 1>>
  BY AtTypes
<1>2. /\ NRoles \in Nat /\ NHosts \in [1..NRoles -> Nat]
      /\ NSteps \in [1..NRoles -> Nat]
      /\ \A k \in 1..NRoles : NSteps[k] = Len(Steps(k))
  BY Counts DEF TypeOK
<1>3. plan' = plan
  BY DEF Try, EnterStep, ProbeHealthy, ProbeUnhealthy, ShellSucceeds,
         ShellFails, ShellKilled, ReadNext, ReadStops, ReadOver,
         ApplyCancelled, ApplyFailed, ApplyOver, Rollback, VerifyHealthy,
         VerifyUnhealthy, Unchanged
<1>4. pc # "idle"
  BY DEF Try, EnterStep, ProbeHealthy, ProbeUnhealthy, ShellSucceeds,
         ShellFails, ShellKilled, ReadNext, ReadStops, ReadOver,
         ApplyCancelled, ApplyFailed, ApplyOver, Rollback, VerifyHealthy,
         VerifyUnhealthy, TaskPlaced
<1>5. CASE Throw
  BY <1>3, <1>4, <1>5, ThrowPlaced
<1> USE DEF AtHost, AtStep
\* The steps that go from label to label, and those to the next step.
<1>6. ASSUME UNCHANGED <<op, peers, outcome>>, pc \in AtHost, pc' \in AtHost,
             at' = at, pc' \in AtStep => at[3] <= NSteps[at[1]],
             pc' # "wait", pc' # "step", pc # "wait"
      PROVE  Placed' /\ PeersCollected'
  <2>1. NRoles' = NRoles /\ NHosts' = NHosts /\ NSteps' = NSteps
    BY <1>3, <1>6, SamePlan
  <2> QED
    BY <2>1, <1>3, <1>4, <1>6 DEF Placed, PeersCollected
<1>7. ASSUME UNCHANGED <<op, peers, outcome>>, pc \in AtStep, pc' = "step",
             at' = NextStep(at)
      PROVE  Placed' /\ PeersCollected'
  <2>1. NRoles' = NRoles /\ NHosts' = NHosts /\ NSteps' = NSteps
    BY <1>3, <1>7, SamePlan
  <2>2. at'[1] = at[1] /\ at'[2] = at[2] /\ at'[3] = at[3] + 1
    BY <1>1, <1>7
  <2>3. at[1] \in 1..NRoles /\ NSteps[at[1]] \in Nat
    BY <1>1, <1>2, <1>7 DEF Placed
  <2>4. Placed'
    BY <2>1, <2>2, <2>3, <1>1, <1>4, <1>7 DEF Placed
  <2> QED
    BY <2>1, <2>2, <2>4, <1>3, <1>4, <1>7 DEF PeersCollected
\* A shell that starts has been rendered.
<1>8. ASSUME UNCHANGED <<op, at, peers>>, task' = "shell" => Renders(StepOf(at))
      PROVE  Rendered'
  BY <1>3, <1>8 DEF Rendered, Renders, StepOf, Steps, RoleAt, NRoles
<1>9. task' = Applied(at) => task' \in {"failed", "shell"}
                              /\ (task' = "shell" => Renders(StepOf(at)))
  BY DEF Applied
<1>10. pc = "step" /\ at[3] <= Len(Steps(at[1])) => at[3] <= NSteps[at[1]]
  BY <1>1, <1>2 DEF Placed
<1>11. CASE EnterStep /\ ~Throw
  <2>1. /\ UNCHANGED <<op, at, peers, outcome>> /\ pc = "step"
        /\ at[3] <= NSteps[at[1]]
        /\ \/ pc' = "probe" /\ task' = task
           \/ pc' = "apply" /\ task' = Applied(at)
    BY <1>10, <1>11 DEF EnterStep
  <2>2. task = "none"
    BY <2>1 DEF TaskPlaced
  <2> QED
    BY <2>1, <2>2, <1>6, <1>8, <1>9 DEF TaskPlaced
<1>12. CASE ProbeHealthy
  <2>1. /\ UNCHANGED <<op, peers, outcome, task>> /\ pc = "probe"
        /\ pc' = "step" /\ at' = NextStep(at) /\ task = "none"
    BY <1>12 DEF ProbeHealthy, Goto, TaskPlaced
  <2> QED
    BY <2>1, <1>7 DEF TaskPlaced, Rendered
<1>13. CASE ProbeUnhealthy
  <2>1. /\ UNCHANGED <<op, at, peers, outcome>> /\ pc = "probe"
        /\ \/ pc' = "probe" /\ task' = task
           \/ pc' = "apply" /\ task' = Applied(at)
    BY <1>13 DEF ProbeUnhealthy
  <2>2. task = "none" /\ at[3] <= NSteps[at[1]]
    BY <2>1 DEF TaskPlaced, Placed
  <2> QED
    BY <2>1, <2>2, <1>6, <1>8, <1>9 DEF TaskPlaced
<1>14. CASE ShellSucceeds \/ ShellFails \/ ShellKilled \/ ReadNext \/ ReadStops
              \/ ReadOver
  <2>1. /\ UNCHANGED <<plan, op, pc, at, outcome, peers>>
        /\ task' = task \/ (task # "none" /\ task' \notin {"none", "shell"})
    BY <1>14 DEF ShellSucceeds, ShellFails, ShellKilled, ReadNext, ReadStops,
                 ReadOver, Unchanged
  <2> QED
    BY <2>1, StillPlaced
<1>15. CASE ApplyFailed /\ ~Throw
  <2>1. /\ UNCHANGED <<op, at, peers, outcome, task>> /\ pc = "apply"
        /\ pc' = "rollback" /\ task = "failed"
    BY <1>15 DEF ApplyFailed
  <2>2. at[3] <= NSteps[at[1]]
    BY <2>1 DEF Placed
  <2> QED
    BY <2>1, <2>2, <1>6, <1>8 DEF TaskPlaced
<1>16. CASE ApplyOver
  <2>1. /\ UNCHANGED <<op, peers, outcome>> /\ pc = "apply" /\ task' = "none"
        /\ \/ pc' = "verify" /\ at' = at
           \/ pc' = "step" /\ at' = NextStep(at)
    BY <1>16 DEF ApplyOver, Goto
  <2>2. at[3] <= NSteps[at[1]]
    BY <2>1 DEF Placed
  <2> QED
    BY <2>1, <2>2, <1>6, <1>7 DEF TaskPlaced, Rendered
<1>17. CASE VerifyHealthy
  <2>1. /\ UNCHANGED <<op, peers, outcome, task>> /\ pc = "verify"
        /\ pc' = "step" /\ at' = NextStep(at) /\ task = "none"
    BY <1>17 DEF VerifyHealthy, Goto, TaskPlaced
  <2> QED
    BY <2>1, <1>7 DEF TaskPlaced, Rendered
<1>18. CASE VerifyUnhealthy /\ ~Throw
  BY <1>18, StillPlaced DEF VerifyUnhealthy
<1> QED
  BY <1>5, <1>11, <1>12, <1>13, <1>14, <1>15, <1>16, <1>17, <1>18
  DEF Try, ApplyCancelled, Rollback

\* A run begins at the first role; the world leaves it where it is.
LEMMA WorldPlaced ==
  ASSUME TypeOK, Placed, TaskPlaced, PeersCollected, Rendered,
         World \/ Abort \/ (\E o \in {"install", "uninstall"} : Begin(o))
  PROVE  Placed' /\ TaskPlaced' /\ PeersCollected' /\ Rendered'
<1>1. CASE World \/ Abort
  <2>1. UNCHANGED <<plan, op, pc, at, outcome, peers, task>>
    BY <1>1 DEF World, Converge, Boot, Restart, Destroy, Abort, runVars
  <2> QED
    BY <2>1, StillPlaced
<1>2. ASSUME NEW o \in {"install", "uninstall"}, Begin(o)
      PROVE  Placed' /\ TaskPlaced' /\ PeersCollected' /\ Rendered'
  <2>1. /\ NRoles' = NRoles /\ NRoles \in Nat
    BY <1>2, Counts DEF Begin, NRoles, TypeOK
  <2>2. /\ op' = o /\ pc = "idle" /\ pc' = "identity" /\ at' = <<1, 1, 1>>
        /\ outcome' = "none" /\ task' = task
        /\ peers' = [r \in 1..NRoles |-> <<>>]
    BY <1>2 DEF Begin, Goto
  <2>3. task' = "none"
    BY <2>2 DEF TaskPlaced
  <2>4. Placed' /\ TaskPlaced' /\ Rendered'
    BY <1>2, <2>1, <2>2, <2>3 DEF Placed, TaskPlaced, Rendered, AtHost, AtStep
  <2>5. \A k \in 1..NRoles : Len(peers'[k]) = 0 /\ peers'[k] = <<>>
    BY <2>2
  <2>6. PeersCollected'
    BY <2>1, <2>2, <2>5 DEF PeersCollected
  <2> QED
    BY <2>4, <2>6
<1> QED
  BY <1>1, <1>2

LEMMA InvInit == Init => Inv
<1> SUFFICES ASSUME Init PROVE Inv
  OBVIOUS
<1>1. plan \in Plans /\ NRoles \in Nat
  BY PlanTypes DEF Init
<1>2. TypeOK
  <2>1. peers \in [1..NRoles -> Seq(SUBSET Value)]
    BY DEF Init
  <2>2. power \in [Host -> {"booting", "up", "gone"}]
    BY DEF Init
  <2>3. tries \in (0..MaxAttempts) \cup (0..RetryCount)
    BY InstallerAssumption DEF Init
  <2>4. at \in (Nat \ {0}) \X (Nat \ {0}) \X (Nat \ {0})
    BY DEF Init
  <2> QED
    BY <2>1, <2>2, <2>3, <2>4 DEF Init, TypeOK
<1>3. Placed /\ TaskPlaced /\ PeersCollected /\ Rendered
  BY InstallerAssumption
  DEF Init, Placed, TaskPlaced, PeersCollected, Rendered, AtHost, AtStep
<1> QED
  BY <1>2, <1>3 DEF Inv

LEMMA InvStep == Inv /\ [Next]_vars => Inv'
<1> SUFFICES ASSUME Inv, [Next]_vars PROVE Inv'
  OBVIOUS
<1> USE DEF Inv
<1>1. CASE Walk
  BY <1>1, WalkTypes, WalkPlaced
<1>2. CASE Try \/ ShellSucceeds \/ ShellFails
  BY <1>2, TryTypes, TryPlaced
<1>3. CASE World \/ Abort \/ (\E o \in {"install", "uninstall"} : Begin(o))
  BY <1>3, WorldTypes, WorldPlaced
<1>4. CASE UNCHANGED vars
  <2>1. UNCHANGED <<plan, op, pc, at, outcome, peers, task>>
    BY <1>4 DEF vars
  <2>2. TypeOK'
    BY <1>4, SamePlan DEF vars, TypeOK
  <2> QED
    BY <2>1, <2>2, StillPlaced
<1> QED
  BY <1>1, <1>2, <1>3, <1>4 DEF Next

LEMMA InvHolds == Spec => []Inv
BY InvInit, InvStep, PTL DEF Spec

\* In every reachable state, for any blueprints and hosts, every variable has
\* its type.
THEOREM InstallerTypes == Spec => []TypeOK
<1>1. Inv => TypeOK
  BY DEF Inv
<1> QED
  BY <1>1, InvHolds, PTL

\* A shell runs only when the peers of all earlier roles are collected, and
\* with their values resolved.
THEOREM ShellsHavePeers == Spec => []RendersFromPeers
<1>1. Inv => RendersFromPeers
  <2> SUFFICES ASSUME Inv, task = "shell"
               PROVE  /\ Renders(StepOf(at))
                      /\ op = "install" /\ ~plan.hosted =>
                           \A k \in 1..(at[1] - 1) :
                             Len(peers[k]) = Len(Hosts(k))
    BY DEF RendersFromPeers
  <2>1. Renders(StepOf(at))
    BY DEF Inv, Rendered
  <2>2. pc \in {"apply", "rollback"}
    BY DEF Inv, TaskPlaced
  <2>3. at[1] \in Nat /\ at[1] <= NRoles /\ NRoles \in Nat
    BY <2>2, AtTypes, Counts DEF Inv, Placed, AtHost, AtStep, TypeOK
  <2>4. ASSUME op = "install" /\ ~plan.hosted, NEW k \in 1..(at[1] - 1)
        PROVE  Len(peers[k]) = Len(Hosts(k))
    <3>1. k \in 1..NRoles /\ k < at[1]
      BY <2>3
    <3> QED
      BY <3>1, <2>2, <2>4, Counts DEF Inv, PeersCollected, TypeOK
  <2> QED
    BY <2>1, <2>4
<1> QED
  BY <1>1, InvHolds, PTL

\* Once the signal is aborted no shell starts, and no rollback changes a host:
\* what still changes is the doing of the shell that was running.
THEOREM NothingAfterAbort == Spec => AbortStopsChanges
<1>1. Inv /\ [Next]_vars =>
        [signal /\ ~World =>
           /\ task # "shell" => task' # "shell"
           /\ <<up, starting>>' # <<up, starting>> => task = "shell"]_vars
  <2> SUFFICES ASSUME Inv, Next, signal, ~World
               PROVE  /\ task # "shell" => task' # "shell"
                      /\ <<up, starting>>' # <<up, starting>> => task = "shell"
    BY DEF vars
  <2> USE DEF Stay, worldVars
  <2>1. CASE Throw /\ UNCHANGED <<up, starting>>
    BY <2>1 DEF Throw
  <2>2. CASE Walk /\ ~Throw
    BY <2>2 DEF Walk, EnsureIdentity, EnterRole, Return, EnterHost, WaitReady,
                WaitRefused, WaitOver, HostOver
  <2>3. CASE EnterStep \/ ProbeHealthy \/ ProbeUnhealthy
    BY <2>3 DEF EnterStep, Throw, ProbeHealthy, ProbeUnhealthy, Applied
  <2>4. CASE ShellSucceeds \/ ShellFails \/ ShellKilled \/ ReadNext \/ ReadStops
              \/ ReadOver
    BY <2>4 DEF ShellSucceeds, ShellFails, ShellKilled, ReadNext, ReadStops,
                ReadOver, Unchanged
  <2>5. CASE Rollback
    BY <2>5 DEF Rollback, Reached, Throw
  <2>6. CASE ApplyCancelled \/ ApplyFailed \/ ApplyOver \/ VerifyHealthy
              \/ VerifyUnhealthy
    BY <2>6 DEF ApplyCancelled, ApplyFailed, ApplyOver, VerifyHealthy,
                VerifyUnhealthy, Throw
  <2>7. CASE Abort \/ (\E o \in {"install", "uninstall"} : Begin(o))
    BY <2>7 DEF Abort, Begin
  <2>8. Walk /\ Throw => UNCHANGED <<up, starting>>
    BY DEF Walk, EnsureIdentity, EnterRole, Return, EnterHost, WaitReady,
           WaitRefused, WaitOver, HostOver
  <2> QED
    BY <2>1, <2>2, <2>3, <2>4, <2>5, <2>6, <2>7, <2>8 DEF Next, Try
<1> QED
  BY <1>1, InvHolds, PTL DEF Spec, AbortStopsChanges

-----------------------------------------------------------------------------
(* The run carries out its plan.                                           *)

\* The steps of a run, by the counts of its hosts and steps.
LEMMA WorkPlaces ==
  ASSUME plan \in Plans
  PROVE  \A w : w \in Work <=>
           /\ w \in Places
           /\ w[1] <= NRoles
           /\ w[2] <= NHosts[w[1]]
           /\ w[3] <= NSteps[w[1]]
<1>1. /\ NRoles \in Nat /\ NHosts \in [1..NRoles -> Nat]
      /\ NSteps \in [1..NRoles -> Nat]
      /\ \A k \in 1..NRoles : NHosts[k] = Len(Hosts(k)) /\ NSteps[k] = Len(Steps(k))
  BY Counts
<1>2. Work = UNION {{k} \X (1..NHosts[k]) \X (1..NSteps[k]) : k \in 1..NRoles}
  BY <1>1 DEF Work
<1>3. ASSUME NEW w \in Work
      PROVE  /\ w \in Places /\ w[1] <= NRoles
             /\ w[2] <= NHosts[w[1]] /\ w[3] <= NSteps[w[1]]
  <2>1. PICK k \in 1..NRoles : w \in {k} \X (1..NHosts[k]) \X (1..NSteps[k])
    BY <1>2, <1>3
  <2> QED
    BY <2>1, <1>1 DEF Places
<1>4. ASSUME NEW w \in Places, w[1] <= NRoles,
             w[2] <= NHosts[w[1]], w[3] <= NSteps[w[1]]
      PROVE  w \in Work
  <2>1. w[1] \in 1..NRoles
    BY <1>1, <1>4 DEF Places
  <2>2. w \in {w[1]} \X (1..NHosts[w[1]]) \X (1..NSteps[w[1]])
    BY <1>1, <1>4, <2>1 DEF Places
  <2> QED
    BY <1>2, <2>1, <2>2
<1> QED
  BY <1>3, <1>4

\* Places are in order, one behind the other.
LEMMA BeforeIsTotal ==
  ASSUME NEW v \in Places, NEW w \in Places
  PROVE  /\ ~Before(w, w)
         /\ v # w => (Before(v, w) <=> ~Before(w, v))
BY DEF Before, Places

\* The next step of a host has one step more before it.
LEMMA NextStepDone ==
  ASSUME NEW a \in Places, NEW v \in Places
  PROVE  Before(v, NextStep(a)) <=> Before(v, a) \/ v = a
BY DEF Before, Places, NextStep

\* The next host has all steps of this one before it.
LEMMA NextHostDone ==
  ASSUME NEW a \in Places, NEW v \in Places
  PROVE  Before(v, NextHost(a)) <=>
           Before(v, a) \/ (v[1] = a[1] /\ v[2] = a[2])
BY DEF Before, Places, NextHost

\* The next role has all hosts of this one before it.
LEMMA NextRoleDone ==
  ASSUME NEW a \in Places, NEW v \in Places
  PROVE  Before(v, NextRole(a)) <=> Before(v, a) \/ v[1] = a[1]
BY DEF Before, Places, NextRole

\* The two modules speak of the same steps, in the same order.
LEMMA SameWork ==
  /\ PlanOf!Work = Work
  /\ \A v, w : PlanOf!Before(v, w) <=> Before(v, w)
<1>1. \A k : PlanOf!Hosts(k) = Hosts(k) /\ PlanOf!Steps(k) = Steps(k)
  BY DEF PlanOf!Hosts, PlanOf!Steps, PlanOf!RoleAt, Hosts, Steps, RoleAt, NRoles
<1>2. PlanOf!Work = Work
  BY <1>1 DEF PlanOf!Work, Work, NRoles
<1> QED
  BY <1>2 DEF PlanOf!Before, Before

Phase == IF pc # "idle" THEN "running" ELSE outcome

\* What is done in the next state, as long as the run is the same.
LEMMA DoneThen ==
  ASSUME plan' = plan, op' = op
  PROVE  /\ Done' = IF op = NoRun THEN {} ELSE {w \in Work : Before(w, at')}
         /\ at' = at => Done' = Done
<1>1. Work' = Work
  BY SamePlan DEF Work
<1>2. Done' = IF op = NoRun THEN {} ELSE {w \in Work : Before(w, at')}
  BY <1>1 DEF Done, Before
<1> QED
  BY <1>2 DEF Done

\* A step of the run that is none of the plan.
LEMMA PlanStutters ==
  ASSUME plan' = plan, op' = op, Done' = Done, Phase' = Phase
  PROVE  [PlanOf!Next]_(PlanOf!vars)
BY DEF PlanOf!vars, Phase

\* An error fails the plan.
LEMMA ThrowFails ==
  ASSUME plan' = plan, Throw, pc # "idle"
  PROVE  PlanOf!Next
<1>1. Done' = Done /\ op' = op
  BY DoneThen DEF Throw
<1>2. Phase = "running" /\ Phase' \in {"failed", "cancelled"}
  BY DEF Throw, Phase
<1>3. PlanOf!Fail
  BY <1>1, <1>2 DEF PlanOf!Fail, Phase
<1> QED
  BY <1>3 DEF PlanOf!Next

\* Going to the next step does the one the run is at.
LEMMA StepDoes ==
  ASSUME Inv, UNCHANGED <<plan, op>>, pc \in AtStep, pc' # "idle",
         at' = NextStep(at)
  PROVE  PlanOf!Next /\ Done' = Done \cup {at}
<1>1. /\ plan \in Plans /\ op # NoRun /\ at \in Places
      /\ at[1] <= NRoles /\ at[2] <= NHosts[at[1]] /\ at[3] <= NSteps[at[1]]
  BY AtTypes, InstallerAssumption DEF Inv, TypeOK, Placed, AtHost, AtStep
<1>2. at \in Work /\ \A w \in Work : w \in Places
  BY <1>1, WorkPlaces
<1>3. Done = {w \in Work : Before(w, at)}
  BY <1>1 DEF Done
<1>4. Done' = {w \in Work : Before(w, NextStep(at))}
  BY <1>1, DoneThen
<1>5. Done' = Done \cup {at}
  BY <1>1, <1>2, <1>3, <1>4, NextStepDone
<1>6. /\ at \in Work \ Done
      /\ \A v \in Work \ Done : v = at \/ Before(at, v)
  BY <1>1, <1>2, <1>3, BeforeIsTotal
<1>7. PlanOf!IsNext(at)
  BY <1>6, SameWork DEF PlanOf!IsNext
<1>8. PlanOf!Do
  BY <1>2, <1>5, <1>7, SameWork DEF PlanOf!Do, AtStep
<1> QED
  BY <1>5, <1>8 DEF PlanOf!Next

\* Taking a host for torn down passes over all its steps.
LEMMA WaitPasses ==
  ASSUME Inv, UNCHANGED <<plan, op>>, op = "uninstall", pc = "wait",
         pc' # "idle", at' = NextHost(at)
  PROVE  /\ PlanOf!Next
         /\ Done' = Done \cup {v \in Work : v[1] = at[1] /\ v[2] = at[2]}
<1>1. /\ plan \in Plans /\ op # NoRun /\ at \in Places
      /\ at[1] <= NRoles /\ at[2] <= NHosts[at[1]] /\ at[3] = 1
      /\ NSteps[at[1]] >= 1
  BY AtTypes, InstallerAssumption DEF Inv, TypeOK, Placed, AtHost, AtStep
<1>2. at \in Work /\ \A w \in Work : w \in Places
  BY <1>1, WorkPlaces
<1>3. Done = {w \in Work : Before(w, at)}
  BY <1>1 DEF Done
<1>4. Done' = {w \in Work : Before(w, NextHost(at))}
  BY <1>1, DoneThen
<1>5. Done' = Done \cup {v \in Work : v[1] = at[1] /\ v[2] = at[2]}
  BY <1>1, <1>2, <1>3, <1>4, NextHostDone
<1>6. /\ at \in Work \ Done
      /\ \A v \in Work \ Done : v = at \/ Before(at, v)
  BY <1>1, <1>2, <1>3, BeforeIsTotal
<1>7. PlanOf!IsNext(at)
  BY <1>6, SameWork DEF PlanOf!IsNext
<1>8. PlanOf!PassOver
  BY <1>1, <1>2, <1>5, <1>7, SameWork DEF PlanOf!PassOver
<1> QED
  BY <1>5, <1>8 DEF PlanOf!Next

\* Going on behind the last step of a host, or the last host of a role, does
\* nothing.
LEMMA HostEnds ==
  ASSUME Inv, UNCHANGED <<plan, op>>, pc \in {"host", "step"}, pc' # "idle",
         at[3] > NSteps[at[1]], at' = NextHost(at)
  PROVE  [PlanOf!Next]_(PlanOf!vars) /\ Done' = Done /\ at \notin Work
<1>1. plan \in Plans /\ op # NoRun /\ at \in Places
  BY AtTypes, InstallerAssumption DEF Inv, TypeOK, Placed
<1>2. \A w \in Work : w \in Places /\ w[3] <= NSteps[w[1]]
  BY <1>1, WorkPlaces
<1>3. /\ NSteps \in [1..NRoles -> Nat] /\ NRoles \in Nat /\ at[1] \in 1..NRoles
  BY <1>1, Counts, AtTypes DEF Inv, TypeOK, Placed, AtHost
<1>4. \A w \in Work : w[1] = at[1] /\ w[2] = at[2] => Before(w, at)
  BY <1>1, <1>2, <1>3 DEF Before, Places
<1>5. \A w \in Work : Before(w, NextHost(at)) <=> Before(w, at)
  BY <1>1, <1>2, <1>4, NextHostDone
<1>6. Done' = Done
  BY <1>1, <1>5, DoneThen DEF Done
<1>7. at \notin Work
  BY <1>1, <1>2, <1>3 DEF Places
<1> QED
  BY <1>6, <1>7, PlanStutters DEF Phase

LEMMA RoleEnds ==
  ASSUME Inv, UNCHANGED <<plan, op>>, pc \in {"role", "host"}, pc' # "idle",
         at[1] <= NRoles, at[2] > NHosts[at[1]], at' = NextRole(at)
  PROVE  [PlanOf!Next]_(PlanOf!vars) /\ Done' = Done /\ at \notin Work
<1>1. plan \in Plans /\ op # NoRun /\ at \in Places
  BY AtTypes, InstallerAssumption DEF Inv, TypeOK, Placed
<1>2. \A w \in Work : w \in Places /\ w[2] <= NHosts[w[1]]
  BY <1>1, WorkPlaces
<1>3. /\ NHosts \in [1..NRoles -> Nat] /\ NRoles \in Nat /\ at[1] \in 1..NRoles
  BY <1>1, Counts, AtTypes DEF Inv, TypeOK
<1>4. \A w \in Work : w[1] = at[1] => Before(w, at)
  BY <1>1, <1>2, <1>3 DEF Before, Places
<1>5. \A w \in Work : Before(w, NextRole(at)) <=> Before(w, at)
  BY <1>1, <1>2, <1>4, NextRoleDone
<1>6. Done' = Done
  BY <1>1, <1>5, DoneThen DEF Done
<1>7. at \notin Work
  BY <1>1, <1>2, <1>3 DEF Places
<1> QED
  BY <1>6, <1>7, PlanStutters DEF Phase

\* Everything that leaves the place alone and does not start or end the run.
LEMMA StillThere ==
  ASSUME UNCHANGED <<plan, op, at, outcome>>, pc = "idle" <=> pc' = "idle"
  PROVE  [PlanOf!Next]_(PlanOf!vars)
BY DoneThen, PlanStutters DEF Phase

WorkInPlaces == plan \in Plans => \A w \in Work : w \in Places

LEMMA WorkIsPlaced == WorkInPlaces
BY WorkPlaces DEF WorkInPlaces

LEMMA InitPlans == Init => PlanOf!Init
BY DEF Init, PlanOf!Init, Done

LEMMA StepPlans == Inv /\ [Next]_vars => [PlanOf!Next]_(PlanOf!vars)
<1> SUFFICES ASSUME Inv, [Next]_vars PROVE [PlanOf!Next]_(PlanOf!vars)
  OBVIOUS
<1> USE DEF AtStep
<1>1. CASE Throw /\ pc # "idle" /\ plan' = plan
  BY <1>1, ThrowFails
<1>2. /\ plan \in Plans /\ at \in Places
      /\ at[1] \in Nat \ {0} /\ at[2] \in Nat \ {0} /\ at[3] \in Nat \ {0}
      /\ NRoles \in Nat
      /\ NHosts \in [1..NRoles -> Nat] /\ NSteps \in [1..NRoles -> Nat]
      /\ \A k \in 1..NRoles :
           /\ NHosts[k] = Len(Hosts(k)) /\ NSteps[k] = Len(Steps(k))
           /\ Hosts(k) = <<>> <=> NHosts[k] = 0
           /\ Steps(k) = <<>> <=> NSteps[k] = 0
  BY AtTypes, Counts DEF Inv, TypeOK
<1>3. pc # "idle" /\ at[1] <= NRoles => at[1] \in 1..NRoles
  BY <1>2
<1>4. CASE EnsureIdentity \/ WaitReady \/ WaitRefused \/ Abort
  BY <1>1, <1>4, StillThere
  DEF EnsureIdentity, WaitReady, WaitRefused, Abort
<1>5. CASE EnterRole /\ ~Throw
  <2>1. /\ UNCHANGED <<plan, op, outcome>> /\ pc = "role" /\ at[1] <= NRoles
        /\ \/ pc' = "role" /\ at' = NextRole(at) /\ Hosts(at[1]) = <<>>
           \/ pc' = "host" /\ at' = at
    BY <1>5 DEF EnterRole, Goto
  <2>2. Hosts(at[1]) = <<>> => at[2] > NHosts[at[1]]
    BY <2>1, <1>2, <1>3
  <2> QED
    BY <2>1, <2>2, RoleEnds, StillThere
<1>6. CASE Return
  <2>1. /\ UNCHANGED <<plan, op, at>> /\ pc = "role" /\ at[1] > NRoles
        /\ pc' = "idle" /\ outcome' = "succeeded"
    BY <1>6 DEF Return
  <2>2. op # NoRun
    BY <2>1, InstallerAssumption DEF Inv, Placed
  <2>3. \A w \in Work : w \in Places /\ w[1] <= NRoles
    BY <1>2, WorkPlaces
  <2>4. Done = Work
    BY <2>1, <2>2, <2>3, <1>2 DEF Done, Before, Places
  <2>5. Done' = Done
    BY <2>1, DoneThen
  <2>6. PlanOf!Succeed
    BY <2>1, <2>4, <2>5, SameWork DEF PlanOf!Succeed
  <2> QED
    BY <2>6 DEF PlanOf!Next
<1>7. CASE EnterHost /\ ~Throw
  <2>1. /\ UNCHANGED <<plan, op, outcome>> /\ pc = "host"
        /\ \/ pc' = "role" /\ at' = NextRole(at) /\ at[2] > Len(Hosts(at[1]))
           \/ pc' = "host" /\ at' = NextHost(at) /\ Steps(at[1]) = <<>>
           \/ pc' = "wait" /\ at' = at
    BY <1>7 DEF EnterHost, Goto
  <2>2. at[1] \in 1..NRoles
    BY <2>1, <1>3 DEF Inv, Placed
  <2>3. /\ at[2] > Len(Hosts(at[1])) => at[2] > NHosts[at[1]]
        /\ Steps(at[1]) = <<>> => at[3] > NSteps[at[1]]
    BY <2>2, <1>2
  <2> QED
    BY <2>1, <2>2, <2>3, RoleEnds, HostEnds, StillThere
<1>8. CASE WaitOver /\ ~Throw
  <2>1. /\ UNCHANGED <<plan, op>> /\ pc = "wait" /\ pc' = "host"
        /\ at' = NextHost(at) /\ op # "install"
    BY <1>8 DEF WaitOver, Goto
  <2>2. op = "uninstall"
    BY <2>1 DEF Inv, Placed
  <2> QED
    BY <2>1, <2>2, WaitPasses
<1>9. CASE HostOver
  <2>1. /\ UNCHANGED <<plan, op>> /\ pc = "step" /\ pc' = "host"
        /\ at' = NextHost(at) /\ at[3] > Len(Steps(at[1]))
    BY <1>9 DEF HostOver, Goto
  <2>2. at[3] > NSteps[at[1]]
    BY <2>1, <1>2, <1>3 DEF Inv, Placed, AtHost
  <2> QED
    BY <2>1, <2>2, HostEnds
<1>10. CASE ProbeHealthy \/ VerifyHealthy
  BY <1>10, StepDoes DEF ProbeHealthy, VerifyHealthy, Goto
<1>11. CASE ApplyOver
  <2>1. /\ UNCHANGED <<plan, op, outcome>> /\ pc = "apply"
        /\ \/ pc' = "verify" /\ at' = at
           \/ pc' = "step" /\ at' = NextStep(at)
    BY <1>11 DEF ApplyOver, Goto
  <2> QED
    BY <2>1, StepDoes, StillThere
<1>12. CASE (EnterStep \/ ApplyFailed \/ VerifyUnhealthy) /\ ~Throw
  BY <1>12, StillThere DEF EnterStep, ApplyFailed, VerifyUnhealthy
<1>13. CASE ApplyCancelled \/ Rollback
  BY <1>1, <1>13 DEF ApplyCancelled, Rollback
<1>14. CASE ProbeUnhealthy
  BY <1>14, StillThere DEF ProbeUnhealthy
<1>15. CASE ShellSucceeds \/ ShellFails \/ ShellKilled \/ ReadNext \/ ReadStops
              \/ ReadOver
  BY <1>15, StillThere DEF ShellSucceeds, ShellFails, ShellKilled, ReadNext,
                           ReadStops, ReadOver, Unchanged
<1>16. ASSUME NEW o \in {"install", "uninstall"}, Begin(o)
       PROVE  PlanOf!Next
  <2>1. /\ plan' = plan /\ op' = o /\ pc = "idle" /\ pc' = "identity"
        /\ at' = <<1, 1, 1>>
    BY <1>16 DEF Begin, Goto
  <2>2. Inv'
    BY <1>16, InvStep DEF Next
  <2>3. \A w \in Work' : w \in Places'
    <3>1. plan' \in Plans
      BY <2>1, <1>2
    <3>2. WorkInPlaces'
      BY WorkIsPlaced, PTL
    <3> QED
      BY <3>1, <3>2 DEF WorkInPlaces
  <2>4. Done' = {}
    BY <2>1, <2>3 DEF Done, Before, Places
  <2>5. Phase # "running" /\ Phase' = "running"
    BY <2>1 DEF Phase, Inv, TypeOK
  <2>6. PlanOf!Begin(o)
    BY <2>1, <2>4, <2>5 DEF PlanOf!Begin, Phase
  <2> QED
    BY <2>6 DEF PlanOf!Next
<1>17. CASE World
  BY <1>17, StillThere DEF World, Converge, Boot, Restart, Destroy, runVars
<1>18. CASE UNCHANGED vars
  BY <1>18, StillThere DEF vars
<1>19. (Walk \/ Try) /\ Throw => plan' = plan /\ pc # "idle"
  BY DEF Walk, Try, EnsureIdentity, EnterRole, Return, EnterHost, WaitReady,
         WaitRefused, WaitOver, HostOver, EnterStep, ProbeHealthy,
         ProbeUnhealthy, ShellKilled, ReadNext, ReadStops, ReadOver,
         ApplyCancelled, ApplyFailed, ApplyOver, Rollback, VerifyHealthy,
         VerifyUnhealthy, Unchanged, Throw, Inv, TaskPlaced
<1> QED
  BY <1>1, <1>4, <1>5, <1>6, <1>7, <1>8, <1>9, <1>10, <1>11, <1>12, <1>13,
     <1>14, <1>15, <1>16, <1>17, <1>18, <1>19 DEF Next, Walk, Try

\* For any blueprint and hosts the run is the plan of its station: every step
\* of every host, in order, none left out, none after one that failed.
THEOREM InstallerImplementsPlan == Spec => ImplementsPlan
BY InitPlans, StepPlans, InvHolds, PTL DEF Spec, ImplementsPlan, PlanOf!Spec

-----------------------------------------------------------------------------
(* What is done is in effect.                                              *)

\* The names of what a step brings about do not change within a run.
LEMMA SameParts ==
  ASSUME plan' = plan, op' = op
  PROVE  /\ Work' = Work
         /\ \A w : Part(w)' = Part(w)
         /\ at' = at => \A w : Again(w)' <=> Again(w)
         /\ \A w : InEffect(w)' <=>
              IF op = "install" THEN Part(w) \in up'
              ELSE {p \in up' \cup starting' :
                      p[1] = RoleAt(w[1]) /\ p[2] = HostOf(w)} = {}
<1>1. Work' = Work
  BY SamePlan DEF Work
<1>2. \A w : Part(w)' = Part(w)
  BY SamePlan DEF Part
<1>3. at' = at => \A w : Again(w)' <=> Again(w)
  BY <1>1, <1>2 DEF Again
<1>4. \A w : Parts(w)' = {p \in up' \cup starting' :
                            p[1] = RoleAt(w[1]) /\ p[2] = HostOf(w)}
  BY SamePlan DEF Parts
<1> QED
  BY <1>1, <1>2, <1>3, <1>4 DEF InEffect

\* A shell changes what it is the shell of: nothing else on an install, and
\* nothing is ever brought back by an uninstall.
LEMMA RanSpares ==
  ASSUME NEW whole, op' = op, plan' = plan, Ran(at, whole), NEW w,
         op = "install" => Part(w) # Part(at), InEffect(w)
  PROVE  InEffect(w)'
<1>1. CASE op = "install"
  <2>1. Part(w) \in up /\ Part(w) # Part(at)
    BY <1>1 DEF InEffect
  <2>2. PICK s \in {"absent", "starting", "up"} :
          up' = (up \ {Part(at)}) \cup (IF s = "up" THEN {Part(at)} ELSE {})
    BY <1>1 DEF Ran
  <2> QED
    BY <1>1, <2>1, <2>2, SameParts
<1>2. CASE op # "install"
  <2>1. up' \subseteq up /\ starting' \subseteq starting
    BY <1>2 DEF Ran
  <2> QED
    BY <1>2, <2>1, SameParts DEF InEffect, Parts
<1> QED
  BY <1>1, <1>2

\* The run stays where it is, whatever becomes of the hosts.
LEMMA EffectsLast ==
  ASSUME DoneIsInEffect, UNCHANGED <<plan, op, at, passed>>,
         \A w \in Done : power[HostOf(w)] = "gone" => power'[HostOf(w)] = "gone",
         \A w \in Done : InEffect(w) /\ ~Again(w) =>
           InEffect(w)' \/ power'[HostOf(w)] = "gone"
  PROVE  DoneIsInEffect'
<1> SUFFICES ASSUME NEW w \in Done', StepOf(w)'.verify,
                    <<RoleAt(w[1])', HostOf(w)'>> \notin passed',
                    power'[HostOf(w)'] # "gone", ~Again(w)'
             PROVE  InEffect(w)'
  BY DEF DoneIsInEffect
<1>1. w \in Done
  BY DoneThen
<1> QED
  BY <1>1, SamePlan, SameParts DEF DoneIsInEffect

\* The run goes on to another place.
LEMMA EffectsFollow ==
  ASSUME DoneIsInEffect, UNCHANGED <<plan, op, power, up, starting>>,
         passed \subseteq passed',
         \A w \in Done' :
           \/ w \in Done /\ ~Again(w)
           \/ InEffect(w)
           \/ ~StepOf(w).verify
           \/ <<RoleAt(w[1]), HostOf(w)>> \in passed'
  PROVE  DoneIsInEffect'
<1> SUFFICES ASSUME NEW w \in Done', StepOf(w)'.verify,
                    <<RoleAt(w[1])', HostOf(w)'>> \notin passed',
                    power'[HostOf(w)'] # "gone"
             PROVE  InEffect(w)'
  BY DEF DoneIsInEffect
<1>1. /\ StepOf(w).verify /\ <<RoleAt(w[1]), HostOf(w)>> \notin passed'
      /\ power[HostOf(w)] # "gone"
  BY SamePlan
<1>2. InEffect(w)
  BY <1>1 DEF DoneIsInEffect
<1> QED
  BY <1>2, SameParts DEF InEffect, Parts

\* A step is left behind when its probe passed, or when it has none.
LEMMA StepLeavesEffect ==
  ASSUME Inv, DoneIsInEffect, UNCHANGED <<plan, op, power, up, starting, passed>>,
         pc \in AtStep, pc' # "idle", at' = NextStep(at),
         InEffect(at) \/ ~StepOf(at).verify
  PROVE  DoneIsInEffect'
<1>1. Done' = Done \cup {at}
  BY StepDoes
<1>2. ASSUME NEW w \in Done, Again(w)
      PROVE  InEffect(w) \/ ~StepOf(w).verify
  <2>1. op = "install" /\ Part(at) = Part(w)
    BY <1>2 DEF Again
  <2>2. at[1] = w[1] /\ at[3] = w[3]
    BY <2>1 DEF Part, RoleAt
  <2>3. StepOf(at) = StepOf(w)
    BY <2>2 DEF StepOf
  <2> QED
    BY <2>1, <2>3 DEF InEffect
<1> QED
  BY <1>1, <1>2, EffectsFollow

\* The hosts go their own way.
LEMMA WorldSparesEffects ==
  ASSUME Inv, DoneIsInEffect, World
  PROVE  DoneIsInEffect'
<1>1. /\ plan \in Plans /\ power \in [Host -> {"booting", "up", "gone"}]
      /\ UNCHANGED <<plan, op, at, passed>>
  BY DEF Inv, TypeOK, World, Converge, Boot, Restart, Destroy, runVars
<1>2. \A w \in Done : HostOf(w) \in Host
  BY <1>1, WorkPlaces, PlaceTypes DEF Done, Places
<1>3. CASE Converge
  <2>1. \A w \in Done : power[HostOf(w)] = "gone" => power'[HostOf(w)] = "gone"
    BY <1>3 DEF Converge
  <2>2. up \subseteq up' /\ up' \cup starting' = up \cup starting
    BY <1>3 DEF Converge
  <2>3. \A w \in Done : InEffect(w) => InEffect(w)'
    BY <1>1, <2>2, SameParts DEF InEffect, Parts
  <2> QED
    BY <1>1, <2>1, <2>3, EffectsLast
<1>4. ASSUME NEW h \in Host, Boot(h) \/ Restart(h)
      PROVE  DoneIsInEffect'
  <2>1. \A w \in Done : power[HostOf(w)] = "gone" => power'[HostOf(w)] = "gone"
    BY <1>1, <1>2, <1>4 DEF Boot, Restart
  <2>2. UNCHANGED <<up, starting>>
    BY <1>4 DEF Boot, Restart
  <2>3. \A w \in Done : InEffect(w) => InEffect(w)'
    BY <1>1, <2>2, SameParts DEF InEffect, Parts
  <2> QED
    BY <1>1, <2>1, <2>3, EffectsLast
<1>5. ASSUME NEW h \in Host, Destroy(h)
      PROVE  DoneIsInEffect'
  <2>1. /\ power' = [power EXCEPT ![h] = "gone"]
        /\ up' = {p \in up : p[2] # h} /\ starting' \subseteq starting
    BY <1>5 DEF Destroy
  <2>2. \A w \in Done : power[HostOf(w)] = "gone" => power'[HostOf(w)] = "gone"
    BY <1>1, <1>2, <2>1
  <2>3. ASSUME NEW w \in Done, InEffect(w), power'[HostOf(w)] # "gone"
        PROVE  InEffect(w)'
    <3>1. HostOf(w) # h
      BY <1>1, <1>2, <2>1, <2>3
    <3>2. CASE op = "install"
      <4>1. Part(w) \in up /\ Part(w)[2] = HostOf(w)
        BY <2>3, <3>2 DEF InEffect, Part
      <4> QED
        BY <1>1, <2>1, <3>1, <3>2, <4>1, SameParts
    <3>3. CASE op # "install"
      BY <1>1, <2>1, <2>3, <3>3, SameParts DEF InEffect, Parts
    <3> QED
      BY <3>2, <3>3
  <2> QED
    BY <1>1, <2>2, <2>3, EffectsLast
<1> QED
  BY <1>3, <1>4, <1>5 DEF World

LEMMA EffectsStep ==
  ASSUME Inv, DoneIsInEffect, [Next]_vars
  PROVE  DoneIsInEffect'
<1>1. /\ plan \in Plans
      /\ \A k \in 1..NRoles : NHosts[k] = Len(Hosts(k)) /\ NSteps[k] = Len(Steps(k))
      /\ pc # "idle" /\ at[1] <= NRoles => at[1] \in 1..NRoles
  BY Counts, AtTypes DEF Inv, TypeOK
<1>2. \A k \in 1..NRoles : /\ Hosts(k) = <<>> <=> NHosts[k] = 0
                           /\ Steps(k) = <<>> <=> NSteps[k] = 0
  BY <1>1, Counts
\* Whatever stays at its place and leaves the hosts alone.
<1>3. ASSUME UNCHANGED <<plan, op, at, passed, power, up, starting>>
      PROVE  DoneIsInEffect'
  <2>1. \A w \in Done : InEffect(w) => InEffect(w)'
    BY <1>3, SameParts DEF InEffect, Parts
  <2> QED
    BY <1>3, <2>1, EffectsLast
<1>4. CASE Throw /\ plan' = plan /\ UNCHANGED worldVars
  BY <1>3, <1>4 DEF Throw, worldVars
<1>5. CASE \/ EnsureIdentity \/ Return \/ WaitReady \/ WaitRefused \/ EnterStep
           \/ ProbeUnhealthy \/ ReadNext \/ ReadStops \/ ReadOver \/ ApplyCancelled
           \/ ApplyFailed \/ VerifyUnhealthy \/ Abort \/ UNCHANGED vars
  BY <1>3, <1>4, <1>5
     DEF EnsureIdentity, Return, WaitReady, WaitRefused, EnterStep, ProbeUnhealthy,
         ReadNext, ReadStops, ReadOver, ApplyCancelled, ApplyFailed,
         VerifyUnhealthy, Abort, Unchanged, Stay, worldVars, vars
\* A host or a role is over, and nothing new is done.
<1>6. ASSUME UNCHANGED <<plan, op, power, up, starting, passed>>, Done' = Done,
             at \notin Work
      PROVE  DoneIsInEffect'
  <2>1. \A w : ~Again(w)
    BY <1>6 DEF Again
  <2> QED
    BY <1>6, <2>1, EffectsFollow
<1>7. CASE EnterRole /\ ~Throw
  <2>1. /\ UNCHANGED <<plan, op, passed, power, up, starting>>
        /\ pc = "role" /\ at[1] <= NRoles
        /\ \/ pc' = "role" /\ at' = NextRole(at) /\ Hosts(at[1]) = <<>>
           \/ pc' = "host" /\ at' = at
    BY <1>7 DEF EnterRole, Goto, Stay, worldVars
  <2>2. Hosts(at[1]) = <<>> => at[2] > NHosts[at[1]]
    BY <2>1, <1>1, <1>2 DEF Inv, TypeOK
  <2> QED
    BY <1>3, <1>6, <2>1, <2>2, RoleEnds
<1>8. CASE EnterHost /\ ~Throw
  <2>1. /\ UNCHANGED <<plan, op, passed, power, up, starting>> /\ pc = "host"
        /\ \/ pc' = "role" /\ at' = NextRole(at) /\ at[2] > Len(Hosts(at[1]))
           \/ pc' = "host" /\ at' = NextHost(at) /\ Steps(at[1]) = <<>>
           \/ pc' = "wait" /\ at' = at
    BY <1>8 DEF EnterHost, Goto, Stay, worldVars
  <2>2. at[1] \in 1..NRoles /\ at[1] <= NRoles
    BY <2>1, <1>1 DEF Inv, Placed
  <2>3. /\ at[2] > Len(Hosts(at[1])) => at[2] > NHosts[at[1]]
        /\ Steps(at[1]) = <<>> => at[3] > NSteps[at[1]]
    BY <2>2, <1>1, <1>2 DEF Inv, TypeOK
  <2> QED
    BY <1>3, <1>6, <2>1, <2>2, <2>3, RoleEnds, HostEnds
<1>9. CASE HostOver
  <2>1. /\ UNCHANGED <<plan, op, passed, power, up, starting>>
        /\ pc = "step" /\ pc' = "host"
        /\ at' = NextHost(at) /\ at[3] > Len(Steps(at[1]))
    BY <1>9 DEF HostOver, Goto, Stay, worldVars
  <2>2. at[3] > NSteps[at[1]]
    BY <2>1, <1>1 DEF Inv, Placed, AtHost
  <2> QED
    BY <1>6, <2>1, <2>2, HostEnds
<1>10. CASE WaitOver /\ ~Throw
  <2>1. /\ UNCHANGED <<plan, op, power, up, starting>>
        /\ pc = "wait" /\ pc' = "host" /\ at' = NextHost(at) /\ op # "install"
        /\ passed' = passed \cup {<<RoleAt(at[1]), HostOf(at)>>}
    BY <1>10 DEF WaitOver, Goto, Stay, worldVars
  <2>2. op = "uninstall"
    BY <2>1 DEF Inv, Placed
  <2>3. Done' = Done \cup {v \in Work : v[1] = at[1] /\ v[2] = at[2]}
    BY <2>1, <2>2, WaitPasses
  <2>4. \A v : v[1] = at[1] /\ v[2] = at[2] => HostOf(v) = HostOf(at)
    BY DEF HostOf
  <2>5. \A w : ~Again(w)
    BY <2>1 DEF Again
  <2> QED
    BY <2>1, <2>3, <2>4, <2>5, EffectsFollow
\* A step is over.
<1>11. CASE ProbeHealthy \/ VerifyHealthy
  BY <1>11, StepLeavesEffect
     DEF ProbeHealthy, VerifyHealthy, Healthy, Goto, Stay, worldVars, AtStep
<1>12. CASE ApplyOver
  <2>1. /\ UNCHANGED <<plan, op, passed, power, up, starting>> /\ pc = "apply"
        /\ \/ at' = at
           \/ pc' = "step" /\ at' = NextStep(at) /\ ~StepOf(at).verify
    BY <1>12 DEF ApplyOver, Goto, Stay, worldVars
  <2> QED
    BY <1>3, <2>1, StepLeavesEffect DEF AtStep
\* A shell or a rollback has changed its host.
<1>13. ASSUME NEW whole, UNCHANGED <<plan, op, at, passed, power>>,
              pc \in {"apply", "rollback"}, Ran(at, whole)
       PROVE  DoneIsInEffect'
  <2>1. at \in Work
    BY <1>1, <1>13, WorkPlaces, AtTypes DEF Inv, TypeOK, Placed, AtHost, AtStep
  <2>2. \A w : ~Again(w) => (op = "install" => Part(w) # Part(at))
    BY <2>1 DEF Again
  <2>3. \A w \in Done : InEffect(w) /\ ~Again(w) => InEffect(w)'
    BY <1>13, <2>2, RanSpares
  <2> QED
    BY <1>13, <2>3, EffectsLast
<1>14. task = "shell" => pc \in {"apply", "rollback"}
  BY DEF Inv, TaskPlaced
<1>15. CASE ShellSucceeds
  BY <1>13, <1>14, <1>15 DEF ShellSucceeds, Unchanged
<1>16. CASE ShellFails \/ ShellKilled
  BY <1>3, <1>13, <1>14, <1>16 DEF ShellFails, ShellKilled, Broke, Unchanged
<1>17. CASE Rollback
  BY <1>3, <1>13, <1>17 DEF Rollback, Throw
<1>18. ASSUME NEW o \in {"install", "uninstall"}, Begin(o)
       PROVE  DoneIsInEffect'
  <2>1. plan' = plan /\ at' = <<1, 1, 1>>
    BY <1>18 DEF Begin, Goto
  <2>2. WorkInPlaces'
    BY WorkIsPlaced, PTL
  <2>3. \A w \in Work' : w \in Places'
    BY <1>1, <2>1, <2>2 DEF WorkInPlaces
  <2>4. Done' = {}
    BY <2>1, <2>3 DEF Done, Before, Places
  <2> QED
    BY <2>4 DEF DoneIsInEffect
<1>19. (Walk \/ Try) /\ Throw => plan' = plan
  BY DEF Walk, Try, EnsureIdentity, EnterRole, Return, EnterHost, WaitReady,
         WaitRefused, WaitOver, HostOver, EnterStep, ProbeHealthy,
         ProbeUnhealthy, ShellKilled, ReadNext, ReadStops, ReadOver,
         ApplyCancelled, ApplyFailed, ApplyOver, Rollback, VerifyHealthy,
         VerifyUnhealthy, Unchanged
<1>20. (EnterRole \/ EnterHost \/ WaitOver) /\ Throw => UNCHANGED worldVars
  BY DEF EnterRole, EnterHost, WaitOver, Stay
<1> QED
  BY <1>4, <1>5, <1>7, <1>8, <1>9, <1>10, <1>11, <1>12, <1>15, <1>16, <1>17,
     <1>18, <1>19, <1>20, WorldSparesEffects DEF Next, Walk, Try

\* A step of any blueprint counts as done only when it is in effect, and
\* stays so for the rest of the run: no later step, no rollback, no restart
\* and no daemon that comes up takes it back, on an uninstall nothing of it
\* comes back; only the loss of its machine does, or the same step of the same
\* host again.
THEOREM DoneStaysInEffect == Spec => []DoneIsInEffect
<1>1. Init => DoneIsInEffect
  BY DEF Init, DoneIsInEffect, Done
<1>2. Inv /\ DoneIsInEffect /\ [Next]_vars => DoneIsInEffect'
  BY EffectsStep
<1> QED
  BY <1>1, <1>2, InvHolds, PTL DEF Spec
=============================================================================
