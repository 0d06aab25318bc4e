----------------------------- MODULE InstallPlan -----------------------------
(***************************************************************************)
(* What an install or an uninstall is to the station that asked for it: a  *)
(* list of steps, one behind the other, role by role in the order of the   *)
(* blueprint (backwards to uninstall), host by host, in the order they are *)
(* declared.  A run does them in that order, leaves none out, and stops    *)
(* for good when one of them does not work.  No connections, probes,       *)
(* shells or loops.                                                        *)
(***************************************************************************)
EXTENDS Naturals, Sequences

CONSTANTS Plans, NoRun

VARIABLES
  plan,   \* the blueprint, and the hosts it is assigned to
  op,     \* what the run is for
  done,   \* the steps it is through with
  phase

vars == <<plan, op, done, phase>>

\* The k-th role a run comes to, and its steps.
RoleAt(k) == IF op = "install" THEN k ELSE Len(plan.roles) + 1 - k
Steps(k) ==
  IF op = "install" THEN plan.roles[RoleAt(k)].install
                    ELSE plan.roles[RoleAt(k)].uninstall
Hosts(k) == plan.roles[RoleAt(k)].hosts

\* Every step of every host, as <<role, host, step>>, each by its place.
Work ==
  UNION {{k} \X (1..Len(Hosts(k))) \X (1..Len(Steps(k))) :
           k \in 1..Len(plan.roles)}

Before(v, w) ==
  \/ v[1] < w[1]
  \/ v[1] = w[1] /\ v[2] < w[2]
  \/ v[1] = w[1] /\ v[2] = w[2] /\ v[3] < w[3]

IsNext(w) ==
  w \in Work \ done /\ \A v \in Work \ done : v = w \/ Before(w, v)

Begin(o) ==
  /\ phase # "running"
  /\ op' = o
  /\ done' = {}
  /\ phase' = "running"
  /\ UNCHANGED plan

Do ==
  /\ phase = "running"
  /\ \E w \in Work : IsNext(w) /\ done' = done \cup {w}
  /\ UNCHANGED <<plan, op, phase>>

\* There is nothing to tear down on a host that is not there.
PassOver ==
  /\ phase = "running"
  /\ op = "uninstall"
  /\ \E w \in Work :
       /\ IsNext(w)
       /\ w[3] = 1
       /\ done' = done \cup {v \in Work : v[1] = w[1] /\ v[2] = w[2]}
  /\ UNCHANGED <<plan, op, phase>>

Succeed ==
  /\ phase = "running"
  /\ done = Work
  /\ phase' = "succeeded"
  /\ UNCHANGED <<plan, op, done>>

Fail ==
  /\ phase = "running"
  /\ phase' \in {"failed", "cancelled"}
  /\ UNCHANGED <<plan, op, done>>

Init ==
  /\ plan \in Plans
  /\ op = NoRun
  /\ done = {}
  /\ phase = "none"

Next ==
  \/ \E o \in {"install", "uninstall"} : Begin(o)
  \/ Do \/ PassOver \/ Succeed \/ Fail

Spec == Init /\ [][Next]_vars
=============================================================================
