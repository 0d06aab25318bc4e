--------------------------- MODULE MCProvisioning ---------------------------
(* Provisioning on small instances.                                        *)
EXTENDS Provisioning, TLC

CONSTANTS n1, n2, v1, v2, r1, r2

\* Runs of a single node.
OneNode == {<<n1>>}

\* Runs of both nodes, which are alike: one order is enough.
BothNodes == {<<n1, n2>>}

\* States a safety property and the actions cannot tell apart.  A plan does
\* nothing to a node, nor does a run to one it leaves out; a destroy asks only
\* whether it does; and nobody but Cancel and fairness looks at cancelled.
WorkOf(r, n) ==
  IF phase[r] = "plan" \/ n \notin keys[r] THEN {}
  ELSE IF phase[r] = "destroy" /\ snapshot[r][n] # {} THEN Vm
  ELSE snapshot[r][n]

SafetyView ==
  <<nodeVars, pc, phase, todo, [r \in Run |-> [n \in Node |-> WorkOf(r, n)]],
    wedged, contended>>

Symmetry == Permutations(Run) \cup Permutations(Vm)
=============================================================================
