------------------------------ MODULE MCVaults ------------------------------
(* Vaults on small instances: a service that stores in the first vault.    *)
EXTENDS Vaults, TLC

CONSTANTS v1, v2, i1, i2, i3, jenkins, uuid, c1, c2

InFirst == [s \in Service |-> v1]
AllNamed == [s \in Service |-> jenkins]

Symmetry == Permutations(SecretId) \cup Permutations(Call)
=============================================================================
