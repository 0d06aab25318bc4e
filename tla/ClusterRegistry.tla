-------------------------- MODULE ClusterRegistry --------------------------
(***************************************************************************)
(* What the port Clusters promises: a registry of clusters in which every  *)
(* command takes the aggregate as it is now and replaces it, whole or not  *)
(* at all.  No file, no copies, no turns.                                  *)
(***************************************************************************)
EXTENDS ProxmoxCluster

CONSTANT Cluster

VARIABLE clusters  \* the registered clusters, by id

Add(c, name) ==
  /\ c \notin DOMAIN clusters
  /\ clusters' = [d \in DOMAIN clusters \cup {c} |->
                    IF d = c THEN NewCluster(name) ELSE clusters[d]]

Update(c, cmd) ==
  /\ c \in DOMAIN clusters
  /\ Accepts(clusters[c], cmd)
  /\ clusters' = [clusters EXCEPT ![c] = Changed(@, cmd)]

Remove(c) ==
  /\ c \in DOMAIN clusters
  /\ clusters' = [d \in DOMAIN clusters \ {c} |-> clusters[d]]

Init == clusters = [c \in {} |-> Nothing]

Next ==
  \E c \in Cluster :
    \/ \E name \in ClusterName : Add(c, name)
    \/ \E cmd \in Command : Update(c, cmd)
    \/ Remove(c)

Spec == Init /\ [][Next]_clusters
=============================================================================
