-------------------------------- MODULE MCAuth --------------------------------
(* Small instances of Auth for TLC.                                        *)
EXTENDS Auth, TLC

CONSTANTS e1, l1, l2, l3, p1, p2, o1

OneEngine == [l \in Login |-> e1]
MintedByFirst == [o \in Slot |-> e1]

Symmetry == Permutations(Password) \cup Permutations(Login)

=============================================================================
