------------------------------ MODULE Installer ------------------------------
(***************************************************************************)
(* The Proxmox installer: one run at a time installs a service on its      *)
(* hosts, or uninstalls it, over SSH.  Roles come in the order of the      *)
(* blueprint, hosts one behind the other; per host, wait until sshd        *)
(* answers; per step, probe whether it is in effect already, run its shell *)
(* in a task of its own while its output is drained, read the values it    *)
(* publishes, roll back if it failed, and verify it.                       *)
(*                                                                         *)
(* The signal of the execution may be aborted at any time: it kills the    *)
(* ssh that is running and every later one at once, except the probe's.    *)
(* Hosts boot, restart and are destroyed on their own.                     *)
(***************************************************************************)
EXTENDS Naturals, Sequences, FiniteSets

CONSTANTS
  Plans,        \* blueprints with the hosts they are assigned to
  Host, Value,  \* hosts; names of published secrets and facts
  MaxAttempts,  \* how often sshd is tried (90 in the code)
  RetryCount,   \* verify.retryCount
  MaxRuns,      \* bound: installs and uninstalls
  MaxFaults,    \* bound: restarts and losses of hosts
  NoRun         \* null value

\* A blueprint's step, and a role with the hosts that were picked for it.  A
\* hosted blueprint is one role, that of its hosts, with its top-level steps.
Step == [verify: BOOLEAN, rollback: BOOLEAN, publish: SUBSET Value,
         needs: SUBSET ((Nat \ {0}) \X Value)]
Role == [optional: BOOLEAN, hosts: Seq(Host),
         install: Seq(Step) \ {<<>>}, uninstall: Seq(Step)]

ASSUME InstallerAssumption ==
  /\ Plans \subseteq [hosted: BOOLEAN, roles: Seq(Role)]
  /\ \A p \in Plans : p.hosted => Len(p.roles) = 1
  /\ MaxAttempts \in Nat \ {0}
  /\ RetryCount \in Nat \ {0}
  /\ MaxRuns \in Nat
  /\ MaxFaults \in Nat
  /\ NoRun \notin {"install", "uninstall"}

VARIABLES
  plan,
  op,         \* "install", "uninstall" or NoRun
  pc,
  at,         \* <<role, host, step>>, each by its place
  tries,      \* attempts at sshd, or at the probe
  signal,     \* whether the execution was aborted
  task,       \* the apply task of the step
  unread,     \* what the shell published and is still to be read
  published,  \* what this host published so far
  peers,      \* [role -> Seq(values), a host each]
  outcome,
  power,      \* [Host -> "booting", "up" or "gone"]
  up,         \* the steps in effect, <<role, host, step>>
  starting,   \* those that will be after a while
  \* history and bounds
  passed,     \* <<role, host>> taken for torn down
  runs, faults

runVars == <<op, pc, at, tries, signal, task, unread, published, peers,
             outcome, passed, runs>>
worldVars == <<power, up, starting>>
vars == <<plan, op, pc, at, tries, signal, task, unread, published, peers,
          outcome, power, up, starting, passed, runs, faults>>

-----------------------------------------------------------------------------
(* Where the run is.                                                       *)

NRoles == Len(plan.roles)

\* Mutant: an uninstall that takes the roles as they are declared.
RoleForward(k) == k

\* Uninstalls take the roles backwards.
RoleAt(k) == IF op = "install" THEN k ELSE NRoles + 1 - k

Steps(k) ==
  IF op = "install" THEN plan.roles[RoleAt(k)].install
                    ELSE plan.roles[RoleAt(k)].uninstall
Hosts(k) == plan.roles[RoleAt(k)].hosts

HostOf(w) == Hosts(w[1])[w[2]]
StepOf(w) == Steps(w[1])[w[3]]

\* What a step brings about: its own effect, or that of its whole role gone.
Part(w) == <<RoleAt(w[1]), HostOf(w), w[3]>>
Parts(w) == {p \in up \cup starting : p[1] = RoleAt(w[1]) /\ p[2] = HostOf(w)}
InEffect(w) == IF op = "install" THEN Part(w) \in up ELSE Parts(w) = {}

\* A probe or a verify over a live connection.
Healthy(w) == power[HostOf(w)] = "up" /\ InEffect(w)

\* fromRole: the placeholders of a shell can be resolved.  Those of an
\* uninstall have no peers at all.
Renders(step) ==
  \A n \in step.needs :
    /\ n[1] \in 1..NRoles
    /\ peers[n[1]] # <<>>
    /\ n[2] \in peers[n[1]][1]

NextRole(w) == <<w[1] + 1, 1, 1>>
NextHost(w) == <<w[1], w[2] + 1, 1>>
NextStep(w) == <<w[1], w[2], w[3] + 1>>

Goto(label, w) == pc' = label /\ at' = w

\* An error ends the run; the runtime takes it for the cancellation when the
\* signal is aborted.
Throw ==
  /\ pc' = "idle"
  /\ outcome' = IF signal THEN "cancelled" ELSE "failed"
  /\ task' = "none"
  /\ unread' = {}
  /\ UNCHANGED <<op, at, tries, signal, published, peers, passed, runs>>

Stay == UNCHANGED worldVars

-----------------------------------------------------------------------------
(* From role to role, host to host, step to step.                          *)

\* The station starts a run when none is under way.
Begin(o) ==
  /\ pc = "idle"
  /\ runs < MaxRuns
  /\ op' = o
  /\ Goto("identity", <<1, 1, 1>>)
  /\ signal' = FALSE
  /\ published' = {}
  /\ peers' = [r \in 1..NRoles |-> <<>>]
  /\ outcome' = "none"
  /\ passed' = {}
  /\ runs' = runs + 1
  /\ Stay
  /\ UNCHANGED <<plan, tries, task, unread, faults>>

\* ssh-keygen, the first time ever: may fail, or stall and be timed out.
EnsureIdentity ==
  /\ pc = "identity"
  /\ \/ pc' = "role" /\ UNCHANGED <<op, at, tries, signal, task, unread,
                                    published, peers, outcome, passed, runs>>
     \/ Throw
  /\ Stay
  /\ UNCHANGED <<plan, faults>>

\* The next role that has hosts: only a zeroOrMore role may do without.
EnterRole ==
  /\ pc = "role"
  /\ at[1] <= NRoles
  /\ IF ~plan.hosted /\ signal THEN Throw
     ELSE IF /\ Hosts(at[1]) = <<>>
             /\ ~plan.hosted
             /\ ~plan.roles[RoleAt(at[1])].optional
          THEN Throw
     ELSE /\ IF Hosts(at[1]) = <<>> THEN Goto("role", NextRole(at))
                                    ELSE Goto("host", at)
          /\ UNCHANGED <<op, tries, signal, task, unread, published, peers,
                         outcome, passed, runs>>
  /\ Stay
  /\ UNCHANGED <<plan, faults>>

Return ==
  /\ pc = "role"
  /\ at[1] > NRoles
  /\ pc' = "idle"
  /\ outcome' = "succeeded"
  /\ Stay
  /\ UNCHANGED <<plan, op, at, tries, signal, task, unread, published, peers,
                 passed, runs, faults>>

\* A host without teardown steps is not even connected to.
EnterHost ==
  /\ pc = "host"
  /\ IF at[2] <= Len(Hosts(at[1])) /\ plan.hosted /\ signal THEN Throw
     ELSE /\ \/ /\ at[2] > Len(Hosts(at[1]))
                /\ Goto("role", NextRole(at))
                /\ UNCHANGED tries
             \/ /\ at[2] <= Len(Hosts(at[1]))
                /\ Steps(at[1]) = <<>>
                /\ Goto("host", NextHost(at))
                /\ UNCHANGED tries
             \/ /\ at[2] <= Len(Hosts(at[1]))
                /\ Steps(at[1]) # <<>>
                /\ Goto("wait", at)
                /\ tries' = 1
          /\ UNCHANGED <<op, signal, task, unread, published, peers, outcome,
                         passed, runs>>
  /\ Stay
  /\ UNCHANGED <<plan, faults>>

\* waitForSshReady: anything but a refused connection counts as ready, a host
\* that does not answer at all included.
Refused(w) == power[HostOf(w)] = "booting"

WaitReady ==
  /\ pc = "wait"
  /\ ~signal
  /\ ~Refused(at)
  /\ pc' = "step"
  /\ published' = {}
  /\ Stay
  /\ UNCHANGED <<plan, op, at, tries, signal, task, unread, peers, outcome,
                 passed, runs, faults>>

\* Mutant: one attempt too many.
RefusedOnceMore ==
  /\ pc = "wait"
  /\ ~signal
  /\ Refused(at)
  /\ tries <= MaxAttempts
  /\ tries' = tries + 1
  /\ Stay
  /\ UNCHANGED <<plan, op, pc, at, signal, task, unread, published, peers,
                 outcome, passed, runs, faults>>

WaitRefused ==
  /\ pc = "wait"
  /\ ~signal
  /\ Refused(at)
  /\ tries < MaxAttempts
  /\ tries' = tries + 1
  /\ Stay
  /\ UNCHANGED <<plan, op, pc, at, signal, task, unread, published, peers,
                 outcome, passed, runs, faults>>

\* After the last attempt an install fails, an uninstall takes the host for
\* torn down and goes on.
WaitOver ==
  /\ pc = "wait"
  /\ signal \/ (Refused(at) /\ tries = MaxAttempts)
  /\ IF signal \/ op = "install" THEN Throw
     ELSE /\ passed' = passed \cup {<<RoleAt(at[1]), HostOf(at)>>}
          /\ Goto("host", NextHost(at))
          /\ UNCHANGED <<op, tries, signal, task, unread, published, peers,
                         outcome, runs>>
  /\ Stay
  /\ UNCHANGED <<plan, faults>>

\* Mutant: the peers of a role are replaced, not appended to.
LastPeerOnly ==
  /\ pc = "step"
  /\ at[3] > Len(Steps(at[1]))
  /\ Goto("host", NextHost(at))
  /\ peers' = IF op = "install" /\ ~plan.hosted
              THEN [peers EXCEPT ![RoleAt(at[1])] = <<published>>]
              ELSE peers
  /\ Stay
  /\ UNCHANGED <<plan, op, tries, signal, task, unread, published, outcome,
                 passed, runs, faults>>

\* The host is through: later roles find what it published.
HostOver ==
  /\ pc = "step"
  /\ at[3] > Len(Steps(at[1]))
  /\ Goto("host", NextHost(at))
  /\ peers' = IF op = "install" /\ ~plan.hosted
              THEN [peers EXCEPT ![RoleAt(at[1])] = Append(@, published)]
              ELSE peers
  /\ Stay
  /\ UNCHANGED <<plan, op, tries, signal, task, unread, published, outcome,
                 passed, runs, faults>>

-----------------------------------------------------------------------------
(* One step.                                                               *)

\* The task renders the shell and hands it to ssh: what cannot be rendered,
\* and what is killed at once, has failed already.
Applied(w) == IF signal \/ ~Renders(StepOf(w)) THEN "failed" ELSE "shell"

\* The step is probed first, if it has a verify.
EnterStep ==
  /\ pc = "step"
  /\ at[3] <= Len(Steps(at[1]))
  /\ IF signal THEN Throw
     ELSE /\ IF StepOf(at).verify
             THEN pc' = "probe" /\ tries' = 1 /\ UNCHANGED task
             ELSE pc' = "apply" /\ task' = Applied(at) /\ UNCHANGED tries
          /\ UNCHANGED <<op, at, signal, unread, published, peers, outcome,
                         passed, runs>>
  /\ Stay
  /\ UNCHANGED <<plan, faults>>

\* alreadyHealthy: skipped, and nothing published.  The probe does not go by
\* the signal of the execution.
ProbeHealthy ==
  /\ pc = "probe"
  /\ Healthy(at)
  /\ Goto("step", NextStep(at))
  /\ Stay
  /\ UNCHANGED <<plan, op, tries, signal, task, unread, published, peers,
                 outcome, passed, runs, faults>>

ProbeUnhealthy ==
  /\ pc = "probe"
  /\ ~Healthy(at)
  /\ IF tries < RetryCount
     THEN tries' = tries + 1 /\ UNCHANGED <<pc, task>>
     ELSE pc' = "apply" /\ task' = Applied(at) /\ UNCHANGED tries
  /\ Stay
  /\ UNCHANGED <<plan, op, at, signal, unread, published, peers, outcome,
                 passed, runs, faults>>

\* What a shell did to its host when it is over: all of it, or any part.
Ran(w, whole) ==
  IF op = "install" THEN
    \E s \in {"absent", "starting", "up"} :
      /\ whole => s # "absent"
      /\ up' = (up \ {Part(w)}) \cup (IF s = "up" THEN {Part(w)} ELSE {})
      /\ starting' = (starting \ {Part(w)})
                       \cup (IF s = "starting" THEN {Part(w)} ELSE {})
  ELSE
    \E left \in SUBSET Parts(w) :
      /\ whole => left = {}
      /\ up' = up \ (Parts(w) \ left)
      /\ starting' = starting \ (Parts(w) \ left)

Broke(w) == IF power[HostOf(w)] = "gone" THEN UNCHANGED <<up, starting>>
                                         ELSE Ran(w, FALSE)

Unchanged == UNCHANGED <<plan, op, pc, at, tries, signal, published, peers,
                         outcome, power, passed, runs, faults>>

ShellSucceeds ==
  /\ task = "shell"
  /\ ~signal
  /\ power[HostOf(at)] = "up"
  /\ Ran(at, TRUE)
  /\ task' = "reading"
  /\ unread' = StepOf(at).publish
  /\ Unchanged

\* It exits non-zero, or the connection breaks.
ShellFails ==
  /\ task = "shell"
  /\ ~signal
  /\ task' = "failed"
  /\ Broke(at)
  /\ UNCHANGED unread
  /\ Unchanged

\* Mutant: ssh is not given the signal of the execution.
ShellOutlives ==
  /\ task = "shell"
  /\ signal
  /\ power[HostOf(at)] = "gone"
  /\ task' = "failed"
  /\ Broke(at)
  /\ UNCHANGED unread
  /\ Unchanged

ShellKilled ==
  /\ task = "shell"
  /\ signal
  /\ task' = "failed"
  /\ Broke(at)
  /\ UNCHANGED unread
  /\ Unchanged

\* The published values are read one by one.  An aborted task keeps what it
\* has and returns, unless it was reading a file: that read is killed.
ReadNext ==
  /\ task = "reading"
  /\ unread # {}
  /\ ~signal
  /\ \E v \in unread :
       /\ published' = published \cup {v}
       /\ unread' = unread \ {v}
  /\ Stay
  /\ UNCHANGED <<plan, op, pc, at, tries, signal, task, peers, outcome,
                 passed, runs, faults>>

ReadStops ==
  /\ task = "reading"
  /\ unread # {}
  /\ task' \in {"failed"} \cup (IF signal THEN {"done"} ELSE {})
  /\ unread' = {}
  /\ Stay
  /\ Unchanged

ReadOver ==
  /\ task = "reading"
  /\ unread = {}
  /\ task' = "done"
  /\ UNCHANGED unread
  /\ Stay
  /\ Unchanged

\* The drain is over, and the task with it.  Output that came after the abort
\* ends the run there and then; a task that failed without any is rolled back
\* first.
ApplyCancelled ==
  /\ pc = "apply"
  /\ task \in {"done", "failed"}
  /\ signal
  /\ Throw
  /\ Stay
  /\ UNCHANGED <<plan, faults>>

ApplyFailed ==
  /\ pc = "apply"
  /\ task = "failed"
  /\ IF StepOf(at).rollback
     THEN pc' = "rollback" /\ UNCHANGED <<op, at, tries, signal, task, unread,
                                  published, peers, outcome, passed, runs>>
     ELSE Throw
  /\ Stay
  /\ UNCHANGED <<plan, faults>>

ApplyOver ==
  /\ pc = "apply"
  /\ task = "done"
  /\ task' = "none"
  /\ IF StepOf(at).verify THEN pc' = "verify" /\ tries' = 1 /\ UNCHANGED at
                          ELSE Goto("step", NextStep(at)) /\ UNCHANGED tries
  /\ Stay
  /\ UNCHANGED <<plan, op, signal, unread, published, peers, outcome,
                 passed, runs, faults>>

\* Mutant: the rollback does not go by the signal, as the probe does not.
ReachedRegardless(w) == power[HostOf(w)] = "up"

\* Best effort, over the signal of the execution: aborted, it does nothing.
\* The error of the step is what the run ends with.
Reached(w) == ~signal /\ power[HostOf(w)] = "up"

Rollback ==
  /\ pc = "rollback"
  /\ IF Reached(at) THEN Ran(at, FALSE) ELSE UNCHANGED <<up, starting>>
  /\ Throw
  /\ UNCHANGED <<plan, power, faults>>

VerifyHealthy ==
  /\ pc = "verify"
  /\ ~signal
  /\ Healthy(at)
  /\ Goto("step", NextStep(at))
  /\ Stay
  /\ UNCHANGED <<plan, op, tries, signal, task, unread, published, peers,
                 outcome, passed, runs, faults>>

\* Mutant: the result of the last attempt is not looked at.
VerifyIgnored ==
  /\ pc = "verify"
  /\ signal \/ ~Healthy(at)
  /\ IF tries < RetryCount
     THEN tries' = tries + 1 /\ UNCHANGED <<op, pc, at, signal, task, unread,
                                  published, peers, outcome, passed, runs>>
     ELSE /\ Goto("step", NextStep(at))
          /\ UNCHANGED <<op, tries, signal, task, unread, published, peers,
                         outcome, passed, runs>>
  /\ Stay
  /\ UNCHANGED <<plan, faults>>

\* Killed by the abort, an attempt is unhealthy as well.
VerifyUnhealthy ==
  /\ pc = "verify"
  /\ signal \/ ~Healthy(at)
  /\ IF tries < RetryCount
     THEN tries' = tries + 1 /\ UNCHANGED <<op, pc, at, signal, task, unread,
                                  published, peers, outcome, passed, runs>>
     ELSE Throw
  /\ Stay
  /\ UNCHANGED <<plan, faults>>

-----------------------------------------------------------------------------
(* What goes on around the run.                                            *)

\* The operator cancels the execution.
Abort ==
  /\ pc # "idle"
  /\ ~signal
  /\ signal' = TRUE
  /\ Stay
  /\ UNCHANGED <<plan, op, pc, at, tries, task, unread, published, peers,
                 outcome, passed, runs, faults>>

\* A daemon comes up in its own time.
Converge ==
  /\ \E p \in starting :
       /\ power[p[2]] = "up"
       /\ starting' = starting \ {p}
       /\ up' = up \cup {p}
  /\ UNCHANGED <<runVars, plan, power, faults>>

Boot(h) ==
  /\ power[h] = "booting"
  /\ power' = [power EXCEPT ![h] = "up"]
  /\ UNCHANGED <<runVars, plan, up, starting, faults>>

\* A restart keeps what is installed; a machine that is destroyed does not.
Restart(h) ==
  /\ power[h] = "up"
  /\ faults < MaxFaults
  /\ faults' = faults + 1
  /\ power' = [power EXCEPT ![h] = "booting"]
  /\ UNCHANGED <<runVars, plan, up, starting>>

Destroy(h) ==
  /\ power[h] # "gone"
  /\ faults < MaxFaults
  /\ faults' = faults + 1
  /\ power' = [power EXCEPT ![h] = "gone"]
  /\ up' = {p \in up : p[2] # h}
  /\ starting' = {p \in starting : p[2] # h}
  /\ UNCHANGED <<runVars, plan>>

World == Converge \/ \E h \in Host : Boot(h) \/ Restart(h) \/ Destroy(h)

-----------------------------------------------------------------------------

Init ==
  /\ plan \in Plans
  /\ op = NoRun
  /\ pc = "idle"
  /\ at = <<1, 1, 1>>
  /\ tries = 0
  /\ signal = FALSE
  /\ task = "none"
  /\ unread = {}
  /\ published = {}
  /\ peers = [r \in 1..NRoles |-> <<>>]
  /\ outcome = "none"
  /\ power \in [Host -> {"booting", "up"}]
  /\ up = {}
  /\ starting = {}
  /\ passed = {}
  /\ runs = 0
  /\ faults = 0

Walk ==
  \/ EnsureIdentity \/ EnterRole \/ Return \/ EnterHost
  \/ WaitReady \/ WaitRefused \/ WaitOver \/ HostOver

Try ==
  \/ EnterStep \/ ProbeHealthy \/ ProbeUnhealthy
  \/ ShellKilled \/ ReadNext \/ ReadStops \/ ReadOver
  \/ ApplyCancelled \/ ApplyFailed \/ ApplyOver
  \/ Rollback \/ VerifyHealthy \/ VerifyUnhealthy

Next ==
  \/ \E o \in {"install", "uninstall"} : Begin(o)
  \/ Walk \/ Try
  \/ ShellSucceeds \/ ShellFails
  \/ Abort
  \/ World

Spec == Init /\ [][Next]_vars

\* The engine keeps running, and takes every step that waits for no host.  An
\* ssh has no timeout, so that nothing is assumed of one that has reached its
\* host, except that an abort kills it: not the probe's, whose signal nobody
\* aborts.  A machine that is gone is given up by TCP.
AwaitsHost ==
  \/ pc \in {"wait", "probe", "verify", "rollback"}
  \/ task = "shell"
  \/ task = "reading" /\ unread # {}

GoesOn ==
  \/ ~AwaitsHost
  \/ signal /\ pc # "probe"
  \/ AwaitsHost /\ power[HostOf(at)] = "gone"

Fairness == WF_vars(GoesOn /\ (Walk \/ Try \/ ShellFails))

FairSpec == Spec /\ Fairness

-----------------------------------------------------------------------------
(* Properties.                                                             *)

\* Every variable has its type.
TypeOK ==
  /\ plan \in Plans
  /\ op \in {"install", "uninstall", NoRun}
  /\ pc \in {"idle", "identity", "role", "host", "wait", "step", "probe",
             "apply", "rollback", "verify"}
  /\ at \in (Nat \ {0}) \X (Nat \ {0}) \X (Nat \ {0})
  /\ tries \in (0..MaxAttempts) \cup (0..RetryCount)
  /\ signal \in BOOLEAN
  /\ task \in {"none", "shell", "reading", "done", "failed"}
  /\ unread \subseteq Value
  /\ published \subseteq Value
  /\ peers \in [1..NRoles -> Seq(SUBSET Value)]
  /\ outcome \in {"none", "succeeded", "failed", "cancelled"}
  /\ power \in [Host -> {"booting", "up", "gone"}]
  /\ up \subseteq Nat \X Host \X Nat
  /\ starting \subseteq Nat \X Host \X Nat
  /\ passed \subseteq Nat \X Host
  /\ runs \in Nat
  /\ faults \in Nat

Work ==
  UNION {{k} \X (1..Len(Hosts(k))) \X (1..Len(Steps(k))) : k \in 1..NRoles}

Before(v, w) ==
  \/ v[1] < w[1]
  \/ v[1] = w[1] /\ v[2] < w[2]
  \/ v[1] = w[1] /\ v[2] = w[2] /\ v[3] < w[3]

Done == IF op = NoRun THEN {} ELSE {w \in Work : Before(w, at)}

\* A role may have one host twice: the run has come to the step of w again.
Again(w) == op = "install" /\ at \in Work /\ Part(at) = Part(w)

\* "the step only counts as done once the probe passes": what the run is
\* through with is in effect on its host, and torn down on an uninstall, for
\* every step that can be verified, whether it was skipped or applied, unless
\* the machine is gone or was taken for it, or the run is at this step of the
\* host again.
DoneIsInEffect ==
  \A w \in Done :
    /\ StepOf(w).verify
    /\ <<RoleAt(w[1]), HostOf(w)>> \notin passed
    /\ power[HostOf(w)] # "gone"
    /\ ~Again(w)
    => InEffect(w)

\* While a shell runs, all hosts of every role before it have their values
\* collected, each host once and in order, and the ones the shell was
\* rendered with are this run's.
RendersFromPeers ==
  task = "shell" =>
    /\ Renders(StepOf(at))
    /\ op = "install" /\ ~plan.hosted =>
         \A k \in 1..(at[1] - 1) : Len(peers[k]) = Len(Hosts(k))

\* After an abort nothing more is done to a host than what the shell that is
\* running at that moment leaves behind: no shell starts, no rollback runs.
AbortStopsChanges ==
  [][signal /\ ~World =>
       /\ task # "shell" => task' # "shell"
       /\ <<up, starting>>' # <<up, starting>> => task = "shell"]_vars

\* The loops, the waits and the tasks carry out a flat list of steps, in the
\* order of the blueprint, leave none out and stop at the first that fails.
PlanOf == INSTANCE InstallPlan WITH
  done <- Done,
  phase <- IF pc # "idle" THEN "running" ELSE outcome
ImplementsPlan == PlanOf!Spec

\* An abort ends the run, whatever it is waiting for, and no matter how long the
\* hosts would take; but if it comes while a step is probed, only once that
\* probe is over (installer.ts, alreadyHealthy).
AbortEnds == (signal /\ pc \notin {"idle", "probe"}) ~> (pc = "idle")

\* "Tolerate an unreachable host: the VM may already be gone (infra torn down
\* first).  Treat that as already-uninstalled rather than a teardown failure":
\* an uninstall of a service whose machines are all gone succeeds.
\* Not kept by the code (README, Disagreements).
GoneIsTornDown ==
  (/\ op = "uninstall"
   /\ pc = "role" /\ at[1] = 1
   /\ \A h \in Host : power[h] = "gone")
  ~> (signal \/ outcome = "succeeded")
=============================================================================
