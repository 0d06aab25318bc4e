----------------------- MODULE MCProvisioningScreen -----------------------
(* ProvisioningScreen with runs over both nodes of a cluster.               *)
EXTENDS ProvisioningScreen

CONSTANTS n1, n2

Both == {{n1, n2}}
=============================================================================
