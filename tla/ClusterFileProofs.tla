-------------------------- MODULE ClusterFileProofs --------------------------
(***************************************************************************)
(* Proofs about ClusterFile: its types, that every cluster in the file and *)
(* in every copy is one the guards of the aggregate let through, that one  *)
(* process gives the registry the port promises, and that the usages of    *)
(* the images then follow the templates.                                   *)
(***************************************************************************)
EXTENDS ClusterFile, TLAPS

-----------------------------------------------------------------------------
(* The aggregate: what a command makes of the nodes.                       *)

\* What a new node is.
LEMMA NewNodeType == NewNode \in NodeRecord
BY DEF NewNode, NodeRecord

\* A new cluster is a cluster.
LEMMA NewClusterType ==
  ASSUME NEW name \in ClusterName
  PROVE  IsCluster(NewCluster(name))
BY NewNodeType DEF NewCluster, IsCluster

NodesOK(nodes) ==
  /\ DOMAIN nodes \subseteq Node
  /\ nodes \in [DOMAIN nodes -> NodeRecord]

\* The commands that replace one node by another.
Replaces == {"updateNode", "unlock", "lock", "registerVm", "replaceVm",
             "unregisterVm", "unregisterAllVms", "assign", "unassign",
             "reassign"}

\* A machine as a command describes it is a machine.
LEMMA StoredType ==
  ASSUME NEW a \in [id: VmId, ip: Ip, image: Image]
  PROVE  Stored(a) \in VirtualMachine
BY DEF Stored, VirtualMachine

\* The replacement of a node is a node.
LEMMA ReplacementType ==
  ASSUME NEW node \in NodeRecord, NEW cmd \in Command, cmd.op \in Replaces
  PROVE  Replacement(node, cmd) \in NodeRecord
<1>1. CASE cmd.op \in {"updateNode", "unlock"}
  BY <1>1 DEF Replacement, WithState, NodeRecord
<1>2. CASE cmd.op = "lock"
  BY <1>2 DEF Replacement, WithState, NodeRecord
<1>3. CASE cmd.op \in {"registerVm", "replaceVm"}
  <2>1. Stored(cmd.arg) \in VirtualMachine
    BY <1>3, StoredType DEF Command
  <2>2. CASE cmd.op = "registerVm"
    BY <2>1, <2>2 DEF Replacement, WithVms, NodeRecord
  <2>3. CASE cmd.op = "replaceVm"
    BY <2>1, <2>3 DEF Replacement, WithVms, NodeRecord
  <2> QED
    BY <1>3, <2>2, <2>3
<1>4. CASE cmd.op = "unregisterVm"
  BY <1>4 DEF Replacement, WithVms, NodeRecord
<1>5. CASE cmd.op = "unregisterAllVms"
  BY <1>5 DEF Replacement, WithVms, NodeRecord
<1>6. CASE cmd.op \in {"assign", "reassign"}
  <2>1. cmd.arg \in NodeImage
    BY <1>6 DEF Command
  <2>2. CASE cmd.op = "assign"
    BY <2>1, <2>2 DEF Replacement, WithImages, NodeRecord
  <2>3. CASE cmd.op = "reassign"
    BY <2>1, <2>3 DEF Replacement, WithImages, NodeRecord
  <2> QED
    BY <1>6, <2>2, <2>3
<1>7. CASE cmd.op = "unassign"
  BY <1>7 DEF Replacement, WithImages, NodeRecord
<1> QED
  BY <1>1, <1>2, <1>3, <1>4, <1>5, <1>6, <1>7 DEF Replaces

\* The machines stay machines when services are recorded or forgotten.
LEMMA ServicesType ==
  ASSUME NEW nodes, NodesOK(nodes), NEW ip \in Ip,
         NEW more \in SUBSET Service, NEW less \in SUBSET Service
  PROVE  NodesOK(WithServices(nodes, ip, more, less))
<1>1. \A vm \in VirtualMachine :
        Serving(vm, ip, more, less) \in VirtualMachine
  BY DEF Serving, VirtualMachine
<1>2. \A node \in NodeRecord :
        WithVms(node, {Serving(vm, ip, more, less) : vm \in node.vms})
          \in NodeRecord
  BY <1>1 DEF WithVms, NodeRecord
<1> QED
  BY <1>2 DEF WithServices, NodesOK

\* What a command does to the nodes, by kind of command.
LEMMA ChangedNodesCases ==
  ASSUME NEW c, NEW cmd \in Command
  PROVE  \/ cmd.op \in {"connect", "disconnect"} /\ ChangedNodes(c, cmd) = c.nodes
         \/ /\ cmd.op = "registerNode"
            /\ ChangedNodes(c, cmd) = [m \in Nodes(c) \cup {cmd.node} |->
                 IF m = cmd.node THEN NewNode ELSE c.nodes[m]]
         \/ /\ cmd.op = "unregisterNode"
            /\ ChangedNodes(c, cmd) =
                 [m \in Nodes(c) \ {cmd.node} |-> c.nodes[m]]
         \/ /\ cmd.op = "unregisterAllNodes"
            /\ ChangedNodes(c, cmd) = [m \in {} |-> NewNode]
         \/ /\ cmd.op = "recordService"
            /\ ChangedNodes(c, cmd) =
                 WithServices(c.nodes, cmd.arg.ip, {cmd.arg.service}, {})
         \/ /\ cmd.op = "forgetService"
            /\ ChangedNodes(c, cmd) =
                 WithServices(c.nodes, cmd.arg.ip, {}, {cmd.arg.service})
         \/ /\ cmd.op \in Replaces
            /\ ChangedNodes(c, cmd) =
                 [c.nodes EXCEPT ![cmd.node] =
                    Replacement(c.nodes[cmd.node], cmd)]
<1>1. cmd.op \in {"connect", "disconnect", "registerNode", "unregisterNode",
                 "unregisterAllNodes", "recordService", "forgetService"}
        \cup Replaces
  BY DEF Command, Replaces
<1> QED
  BY <1>1 DEF ChangedNodes, Replaces
\* An accepted command leaves nodes that are nodes.
LEMMA ChangedNodesType ==
  ASSUME NEW c, IsCluster(c), NEW cmd \in Command, Accepts(c, cmd)
  PROVE  NodesOK(ChangedNodes(c, cmd))
<1> DEFINE n == cmd.node
<1>0. NodesOK(c.nodes)
  BY DEF IsCluster, NodesOK
<1>1. CASE /\ cmd.op \in {"connect", "disconnect"}
           /\ ChangedNodes(c, cmd) = c.nodes
  BY <1>0, <1>1
<1>2. CASE /\ cmd.op = "registerNode"
           /\ ChangedNodes(c, cmd) = [m \in Nodes(c) \cup {n} |->
                IF m = n THEN NewNode ELSE c.nodes[m]]
  <2>1. n \in Node
    BY <1>2 DEF Command
  <2> QED
    BY <1>0, <1>2, <2>1, NewNodeType DEF Nodes, NodesOK
<1>3. CASE /\ cmd.op = "unregisterNode"
           /\ ChangedNodes(c, cmd) = [m \in Nodes(c) \ {n} |-> c.nodes[m]]
  BY <1>0, <1>3 DEF Nodes, NodesOK
<1>4. CASE /\ cmd.op = "unregisterAllNodes"
           /\ ChangedNodes(c, cmd) = [m \in {} |-> NewNode]
  BY <1>4 DEF NodesOK
<1>5. CASE /\ cmd.op = "recordService"
           /\ ChangedNodes(c, cmd) =
                WithServices(c.nodes, cmd.arg.ip, {cmd.arg.service}, {})
  <2>1. cmd.arg.ip \in Ip /\ cmd.arg.service \in Service
    BY <1>5 DEF Command
  <2> QED
    BY <1>0, <1>5, <2>1, ServicesType
<1>6. CASE /\ cmd.op = "forgetService"
           /\ ChangedNodes(c, cmd) =
                WithServices(c.nodes, cmd.arg.ip, {}, {cmd.arg.service})
  <2>1. cmd.arg.ip \in Ip /\ cmd.arg.service \in Service
    BY <1>6 DEF Command
  <2> QED
    BY <1>0, <1>6, <2>1, ServicesType
<1>7. CASE /\ cmd.op \in Replaces
           /\ ChangedNodes(c, cmd) =
                [c.nodes EXCEPT ![n] = Replacement(c.nodes[n], cmd)]
  <2>1. n \in DOMAIN c.nodes
    BY <1>7 DEF Accepts, Replaces, Nodes
  <2>2. Replacement(c.nodes[n], cmd) \in NodeRecord
    BY <1>0, <1>7, <2>1, ReplacementType DEF NodesOK
  <2> QED
    BY <1>0, <1>7, <2>1, <2>2 DEF NodesOK
<1> QED
  BY <1>1, <1>2, <1>3, <1>4, <1>5, <1>6, <1>7, ChangedNodesCases

\* An accepted command leaves a cluster.
LEMMA ChangedType ==
  ASSUME NEW c, IsCluster(c), NEW cmd \in Command, Accepts(c, cmd)
  PROVE  IsCluster(Changed(c, cmd))
<1>1. NodesOK(ChangedNodes(c, cmd))
  BY ChangedNodesType
<1>2. NextVersion(c, cmd) \in Nat
  BY DEF NextVersion, IsCluster
<1>3. Connects(c, cmd) \in BOOLEAN
  BY DEF Connects, IsCluster
<1>4. c.retired \cup (Nodes(c) \ DOMAIN ChangedNodes(c, cmd)) \subseteq Node
  BY DEF IsCluster, Nodes
<1> DEFINE N == ChangedNodes(c, cmd)  V == NextVersion(c, cmd)
           B == Connects(c, cmd)
           R == c.retired \cup (Nodes(c) \ DOMAIN ChangedNodes(c, cmd))
<1>5. Changed(c, cmd) = [name |-> c.name, version |-> V, connected |-> B,
                         nodes |-> N, retired |-> R]
  BY DEF Changed
<1>6. c.name \in ClusterName
  BY DEF IsCluster
<1> HIDE DEF N, V, B, R
<1> QED
  BY <1>1, <1>2, <1>3, <1>4, <1>5, <1>6 DEF IsCluster, NodesOK, N, V, B, R

-----------------------------------------------------------------------------
(* The aggregate: what its guards are for stays true.                      *)

Sound(c) == VmsDistinct(c) /\ TemplatesDistinct(c) /\ ImagesPresent(c)

\* A new cluster is sound.
LEMMA NewClusterSound ==
  ASSUME NEW name
  PROVE  Sound(NewCluster(name))
BY DEF Sound, VmsDistinct, TemplatesDistinct, ImagesPresent, Nodes, NewCluster
\* With fewer nodes, machines and templates nothing new can collide.
LEMMA FewerSound ==
  ASSUME NEW c, NEW d, Sound(c), Nodes(d) \subseteq Nodes(c),
         \A n \in Nodes(d) : /\ d.nodes[n].vms \subseteq c.nodes[n].vms
                             /\ d.nodes[n].images \subseteq c.nodes[n].images,
         ImagesPresent(d)
  PROVE  Sound(d)
BY DEF Sound, VmsDistinct, TemplatesDistinct

\* A cluster whose nodes keep their images, with machines the same but for
\* their services.
LEMMA ServicesSound ==
  ASSUME NEW c, NEW d, Sound(c), NEW ip, NEW more, NEW less,
         d.nodes = WithServices(c.nodes, ip, more, less)
  PROVE  Sound(d)
<1> DEFINE S(vm) == Serving(vm, ip, more, less)
<1>1. Nodes(d) = Nodes(c)
  BY DEF Nodes, WithServices
<1>2. \A n \in Nodes(c) : /\ d.nodes[n].images = c.nodes[n].images
                         /\ d.nodes[n].vms = {S(vm) : vm \in c.nodes[n].vms}
  BY DEF Nodes, WithServices, WithVms
<1>3. \A vm : S(vm).id = vm.id /\ S(vm).ip = vm.ip /\ S(vm).image = vm.image
  BY DEF Serving
<1> HIDE DEF S
<1>4. VmsDistinct(d)
  BY <1>1, <1>2, <1>3 DEF VmsDistinct, Sound
<1>5. TemplatesDistinct(d)
  BY <1>1, <1>2, <1>3 DEF TemplatesDistinct, Sound
<1>6. ImagesPresent(d)
  BY <1>1, <1>2, <1>3 DEF ImagesPresent, Assigned, Sound
<1> QED
  BY <1>4, <1>5, <1>6 DEF Sound

\* One node is replaced: the others and the set of nodes stay.
Replaced(c, d, n, node) ==
  /\ Nodes(d) = Nodes(c)
  /\ d.nodes[n] = node
  /\ \A m \in Nodes(c) : m # n => d.nodes[m] = c.nodes[m]

\* A machine whose id and address are free, and whose image is there.
LEMMA RegisterVmSound ==
  ASSUME NEW c, NEW d, Sound(c), NEW n \in Nodes(c), NEW a,
         IdFree(c, a.id), IpFree(c, a.ip, Nothing), Assigned(c, n, a.image),
         \A m \in Nodes(c) : \A v \in c.nodes[m].vms : v.id # Nothing,
         Replaced(c, d, n,
                  WithVms(c.nodes[n], c.nodes[n].vms \cup {Stored(a)}))
  PROVE  Sound(d)
<1> DEFINE w == Stored(a)
<1>1. /\ d.nodes[n].vms = c.nodes[n].vms \cup {w}
      /\ d.nodes[n].images = c.nodes[n].images
      /\ w.id = a.id /\ w.ip = a.ip /\ w.image = a.image
  BY DEF Replaced, WithVms, Stored
<1>2. \A m \in Nodes(c) : \A v \in c.nodes[m].vms : v.id # w.id /\ v.ip # w.ip
  BY <1>1 DEF IdFree, IpFree, Vms
<1>3. \A m \in Nodes(c) : \A t \in c.nodes[m].images : t.id # w.id
  BY <1>1 DEF IdFree, Templates
<1> HIDE DEF w
<1>0. Nodes(d) = Nodes(c)
  BY DEF Replaced
<1>7. \A m \in Nodes(c) :
        /\ d.nodes[m].images = c.nodes[m].images
        /\ \A v \in d.nodes[m].vms :
             v \in c.nodes[m].vms \/ (m = n /\ v = w)
  BY <1>1 DEF Replaced
<1>4. VmsDistinct(d)
  BY <1>0, <1>2, <1>7 DEF VmsDistinct, Sound
<1>5. TemplatesDistinct(d)
  BY <1>0, <1>3, <1>7 DEF TemplatesDistinct, Sound
<1>6. ImagesPresent(d)
  BY <1>0, <1>1, <1>7 DEF ImagesPresent, Assigned, Sound
<1> QED
  BY <1>4, <1>5, <1>6 DEF Sound

\* A machine described anew keeps its id; its address is free or its own.
LEMMA ReplaceVmSound ==
  ASSUME NEW c, NEW d, Sound(c), NEW n \in Nodes(c), NEW a,
         HasVm(c, n, a.id), IpFree(c, a.ip, a.id), Assigned(c, n, a.image),
         Replaced(c, d, n,
                  WithVms(c.nodes[n], {vm \in c.nodes[n].vms : vm.id # a.id}
                                        \cup {Stored(a)}))
  PROVE  Sound(d)
<1> DEFINE w == Stored(a)
<1>1. /\ d.nodes[n].vms = {vm \in c.nodes[n].vms : vm.id # a.id} \cup {w}
      /\ d.nodes[n].images = c.nodes[n].images
      /\ w.id = a.id /\ w.ip = a.ip /\ w.image = a.image
  BY DEF Replaced, WithVms, Stored
<1>2. PICK old \in c.nodes[n].vms : old.id = w.id
  BY <1>1 DEF HasVm
<1>3. \A m \in Nodes(c) : \A v \in c.nodes[m].vms :
        v.id = w.id \/ v.ip = w.ip => m = n /\ v = old
  BY <1>1, <1>2 DEF IpFree, Vms, VmsDistinct, Sound
<1>4. \A m \in Nodes(c) : \A t \in c.nodes[m].images : t.id # w.id
  BY <1>2 DEF TemplatesDistinct, Sound
<1> HIDE DEF w
<1>5. VmsDistinct(d)
  BY <1>1, <1>2, <1>3 DEF VmsDistinct, Sound, Replaced
<1>6. TemplatesDistinct(d)
  BY <1>1, <1>4 DEF TemplatesDistinct, Sound, Replaced
<1>7. ImagesPresent(d)
  BY <1>1 DEF ImagesPresent, Assigned, Sound, Replaced
<1> QED
  BY <1>5, <1>6, <1>7 DEF Sound

\* A template whose id is free, of an image the node does not have.
LEMMA AssignSound ==
  ASSUME NEW c, NEW d, Sound(c), NEW n \in Nodes(c), NEW t,
         IdFree(c, t.id), ~Assigned(c, n, t.image),
         Replaced(c, d, n,
                  WithImages(c.nodes[n], c.nodes[n].images \cup {t}))
  PROVE  Sound(d)
<1>1. /\ d.nodes[n].vms = c.nodes[n].vms
      /\ d.nodes[n].images = c.nodes[n].images \cup {t}
  BY DEF Replaced, WithImages
<1>2. \A m \in Nodes(c) : \A v \in c.nodes[m].vms : v.id # t.id
  BY DEF IdFree, Vms
<1>3. \A m \in Nodes(c) : \A u \in c.nodes[m].images :
        u.id # t.id /\ (m = n => u.image # t.image)
  BY DEF IdFree, Templates, Assigned
<1>0. Nodes(d) = Nodes(c)
  BY DEF Replaced
<1>7. \A m \in Nodes(c) :
        /\ d.nodes[m].vms = c.nodes[m].vms
        /\ c.nodes[m].images \subseteq d.nodes[m].images
  BY <1>1 DEF Replaced
<1>4. VmsDistinct(d)
  BY <1>1 DEF VmsDistinct, Sound, Replaced
<1>5. TemplatesDistinct(d)
  BY <1>1, <1>2, <1>3 DEF TemplatesDistinct, Sound, Replaced
<1>6. ImagesPresent(d)
  BY <1>0, <1>7 DEF ImagesPresent, Assigned, Sound
<1> QED
  BY <1>4, <1>5, <1>6 DEF Sound

\* A template moved to an id that is free, or left where it was.
LEMMA ReassignSound ==
  ASSUME NEW c, NEW d, Sound(c), NEW n \in Nodes(c), NEW t,
         Assigned(c, n, t.image), t \in c.nodes[n].images \/ IdFree(c, t.id),
         Replaced(c, d, n,
                  WithImages(c.nodes[n],
                             {IF u.image = t.image THEN t ELSE u :
                                u \in c.nodes[n].images}))
  PROVE  Sound(d)
<1>1. /\ d.nodes[n].vms = c.nodes[n].vms
      /\ d.nodes[n].images = {IF u.image = t.image THEN t ELSE u :
                                u \in c.nodes[n].images}
  BY DEF Replaced, WithImages
<1>2. PICK old \in c.nodes[n].images : old.image = t.image
  BY DEF Assigned
<1>3. \A u \in d.nodes[n].images : u = t \/ (u \in c.nodes[n].images /\ u # old)
  BY <1>1, <1>2
<1>4. \A u \in c.nodes[n].images : u.image = t.image => u = old
  BY <1>2 DEF TemplatesDistinct, Sound
<1>5. \A m \in Nodes(c) : \A v \in c.nodes[m].vms : v.id # t.id
  BY DEF IdFree, Vms, TemplatesDistinct, Sound
<1>6. \A m \in Nodes(c) : \A u \in c.nodes[m].images :
        u.id = t.id => m = n /\ u = old
  <2>1. CASE t \in c.nodes[n].images
    BY <2>1, <1>4 DEF TemplatesDistinct, Sound
  <2>2. CASE IdFree(c, t.id)
    BY <2>2 DEF IdFree, Templates
  <2> QED
    BY <2>1, <2>2
<1>7. VmsDistinct(d)
  BY <1>1 DEF VmsDistinct, Sound, Replaced
<1>8. TemplatesDistinct(d)
  BY <1>1, <1>3, <1>4, <1>5, <1>6 DEF TemplatesDistinct, Sound, Replaced
<1>9. ImagesPresent(d)
  BY <1>1 DEF ImagesPresent, Assigned, Sound, Replaced
<1> QED
  BY <1>7, <1>8, <1>9 DEF Sound
\* A command that is accepted leaves a sound cluster sound.
LEMMA ChangedSound ==
  ASSUME NEW c, IsCluster(c), Sound(c), NEW cmd \in Command, Accepts(c, cmd)
  PROVE  Sound(Changed(c, cmd))
<1> DEFINE d == Changed(c, cmd)  n == cmd.node  node == c.nodes[n]
           r == Replacement(node, cmd)
<1>0. d.nodes = ChangedNodes(c, cmd) /\ Nodes(d) = DOMAIN ChangedNodes(c, cmd)
  BY DEF Changed, Nodes
<1>1. CASE /\ cmd.op \in {"connect", "disconnect"}
           /\ ChangedNodes(c, cmd) = c.nodes
  BY <1>0, <1>1 DEF Sound, VmsDistinct, TemplatesDistinct, ImagesPresent,
                    Assigned, Nodes
<1>2. CASE /\ cmd.op = "registerNode"
           /\ ChangedNodes(c, cmd) = [m \in Nodes(c) \cup {n} |->
                IF m = n THEN NewNode ELSE c.nodes[m]]
  <2>1. n \notin Nodes(c)
    BY <1>2 DEF Accepts
  <2>2. /\ Nodes(d) = Nodes(c) \cup {n}
        /\ d.nodes[n].vms = {} /\ d.nodes[n].images = {}
        /\ \A m \in Nodes(c) : d.nodes[m] = c.nodes[m]
    BY <1>0, <1>2, <2>1 DEF NewNode
  <2> QED
    BY <2>2 DEF Sound, VmsDistinct, TemplatesDistinct, ImagesPresent, Assigned
<1>3. CASE /\ cmd.op = "unregisterNode"
           /\ ChangedNodes(c, cmd) = [m \in Nodes(c) \ {n} |-> c.nodes[m]]
  <2>1. Nodes(d) \subseteq Nodes(c) /\ \A m \in Nodes(d) : d.nodes[m] = c.nodes[m]
    BY <1>0, <1>3
  <2>2. ImagesPresent(d)
    BY <2>1 DEF Sound, ImagesPresent, Assigned
  <2> QED
    BY <2>1, <2>2, FewerSound
<1>4. CASE /\ cmd.op = "unregisterAllNodes"
           /\ ChangedNodes(c, cmd) = [m \in {} |-> NewNode]
  BY <1>0, <1>4 DEF Sound, VmsDistinct, TemplatesDistinct, ImagesPresent
<1>5. CASE /\ cmd.op = "recordService"
           /\ ChangedNodes(c, cmd) =
                WithServices(c.nodes, cmd.arg.ip, {cmd.arg.service}, {})
  BY <1>0, <1>5, ServicesSound
<1>6. CASE /\ cmd.op = "forgetService"
           /\ ChangedNodes(c, cmd) =
                WithServices(c.nodes, cmd.arg.ip, {}, {cmd.arg.service})
  BY <1>0, <1>6, ServicesSound
<1>7. CASE /\ cmd.op \in Replaces
           /\ ChangedNodes(c, cmd) = [c.nodes EXCEPT ![n] = r]
  <2>1. n \in Nodes(c)
    BY <1>7 DEF Accepts, Replaces
  <2>2. Replaced(c, d, n, r)
    BY <1>0, <1>7, <2>1 DEF Replaced, Nodes
  <2> SUFFICES Sound(d)
    OBVIOUS
  <2> HIDE DEF d
  <2>3. CASE cmd.op \in {"updateNode", "unlock", "lock"}
    <3>1. r.vms = node.vms /\ r.images = node.images
      BY <2>3 DEF Replacement, WithState
    <3>2. \A m \in Nodes(c) : /\ d.nodes[m].vms = c.nodes[m].vms
                              /\ d.nodes[m].images = c.nodes[m].images
      BY <2>2, <3>1 DEF Replaced
    <3>3. ImagesPresent(d)
      BY <2>2, <3>2 DEF Replaced, Sound, ImagesPresent, Assigned
    <3> QED
      BY <2>2, <3>2, <3>3, FewerSound DEF Replaced
  <2>4. CASE cmd.op \in {"unregisterVm", "unregisterAllVms"}
    <3>1. r.vms \subseteq node.vms /\ r.images = node.images
      BY <2>4 DEF Replacement, WithVms
    <3>2. \A m \in Nodes(c) : /\ d.nodes[m].vms \subseteq c.nodes[m].vms
                              /\ d.nodes[m].images = c.nodes[m].images
      BY <2>2, <3>1 DEF Replaced
    <3>3. ImagesPresent(d)
      BY <2>2, <3>2 DEF Replaced, Sound, ImagesPresent, Assigned
    <3> QED
      BY <2>2, <3>2, <3>3, FewerSound DEF Replaced
  <2>5. CASE cmd.op = "unassign"
    <3>1. ~Referenced(c, n, cmd.arg)
      BY <2>5 DEF Accepts
    <3>2. /\ r.vms = node.vms
          /\ r.images = {t \in node.images : t.image # cmd.arg}
      BY <2>5 DEF Replacement, WithImages
    <3>3. \A m \in Nodes(c) :
            /\ d.nodes[m].vms = c.nodes[m].vms
            /\ d.nodes[m].images \subseteq c.nodes[m].images
            /\ \A t \in c.nodes[m].images :
                 t \in d.nodes[m].images \/ (m = n /\ t.image = cmd.arg)
      BY <2>2, <3>2 DEF Replaced
    <3>4. \A v \in c.nodes[n].vms : v.image # cmd.arg
      BY <3>1 DEF Referenced
    <3>5. ImagesPresent(d)
      BY <2>2, <3>3, <3>4 DEF Replaced, Sound, ImagesPresent, Assigned
    <3> QED
      BY <2>2, <3>3, <3>5, FewerSound DEF Replaced
  <2>6. CASE cmd.op = "registerVm"
    <3>1. /\ IdFree(c, cmd.arg.id) /\ IpFree(c, cmd.arg.ip, Nothing)
          /\ Assigned(c, n, cmd.arg.image)
      BY <2>6 DEF Accepts
    <3>2. r = WithVms(node, node.vms \cup {Stored(cmd.arg)})
      BY <2>6 DEF Replacement
    <3>3. \A m \in Nodes(c) : \A v \in c.nodes[m].vms : v.id \in VmId
      BY DEF IsCluster, Nodes, NodeRecord, VirtualMachine
    <3>4. \A m \in Nodes(c) : \A v \in c.nodes[m].vms : v.id # Nothing
      BY <3>3, ClusterFileAssumption
    <3> QED
      BY <2>1, <2>2, <3>1, <3>2, <3>4, RegisterVmSound
  <2>7. CASE cmd.op = "replaceVm"
    <3>1. /\ HasVm(c, n, cmd.arg.id) /\ IpFree(c, cmd.arg.ip, cmd.arg.id)
          /\ Assigned(c, n, cmd.arg.image)
      BY <2>7 DEF Accepts
    <3>2. r = WithVms(node, {vm \in node.vms : vm.id # cmd.arg.id}
                              \cup {Stored(cmd.arg)})
      BY <2>7 DEF Replacement
    <3> QED
      BY <2>1, <2>2, <3>1, <3>2, ReplaceVmSound
  <2>8. CASE cmd.op = "assign"
    <3>1. IdFree(c, cmd.arg.id) /\ ~Assigned(c, n, cmd.arg.image)
      BY <2>8 DEF Accepts
    <3>2. r = WithImages(node, node.images \cup {cmd.arg})
      BY <2>8 DEF Replacement
    <3> QED
      BY <2>1, <2>2, <3>1, <3>2, AssignSound
  <2>9. CASE cmd.op = "reassign"
    <3>1. /\ Assigned(c, n, cmd.arg.image)
          /\ cmd.arg \in node.images \/ IdFree(c, cmd.arg.id)
      BY <2>9 DEF Accepts
    <3>2. r = WithImages(node, {IF t.image = cmd.arg.image THEN cmd.arg ELSE t :
                                  t \in node.images})
      BY <2>9 DEF Replacement
    <3> QED
      BY <2>1, <2>2, <3>1, <3>2, ReassignSound
  <2> QED
    BY <1>7, <2>3, <2>4, <2>5, <2>6, <2>7, <2>8, <2>9 DEF Replaces
<1> QED
  BY <1>1, <1>2, <1>3, <1>4, <1>5, <1>6, <1>7, ChangedNodesCases
-----------------------------------------------------------------------------
(* The inductive invariant.  Besides the types it says where each call is: *)
(* what it is about, and that it waits in the chain of its process, at the *)
(* head once it has loaded the file.                                       *)

In(k, s) == \E i \in 1..Len(s) : s[i] = k

InTurn(k) == pc[k] \in {"queued", "check", "save"}

WaitOK(k) ==
  /\ pc[k] # "idle" => proc[k] \in Process
  /\ InTurn(k) => In(k, chain[proc[k]])
  /\ pc[k] \in {"check", "save"} => Head(chain[proc[k]]) = k

KindOK(k) ==
  /\ pc[k] = "exists" => kind[k] = "add" /\ arg[k] \in ClusterName
  /\ pc[k] = "owner" => kind[k] = "update" /\ arg[k] \in Command
  /\ InTurn(k) => target[k] \in Cluster /\ kind[k] # "none"
  /\ InTurn(k) /\ kind[k] = "add" => arg[k] \in ClusterName
  /\ InTurn(k) /\ kind[k] = "update" => arg[k] \in Command \cup {Nothing}
  /\ pc[k] = "save" /\ kind[k] = "update" => arg[k] \in Command
  /\ pc[k] = "check" => kind[k] = "update" /\ arg[k] \in Command
  /\ pc[k] \in {"project", "store"} =>
       /\ target[k] \in Cluster /\ arg[k] \in Command
       /\ arg[k].op \in {"assign", "unassign"}

AllSound(f) == \A c \in DOMAIN f : Sound(f[c])

CallTypes ==
  /\ pc \in [Call -> Pc]
  /\ proc \in [Call -> Process \cup {Nothing}]
  /\ kind \in [Call -> Kind]
  /\ target \in [Call -> Cluster \cup {Nothing}]
  /\ arg \in [Call -> Command \cup ClusterName \cup {Nothing}]
  /\ copy = [k \in Call |-> copy[k]]
  /\ rows \in [Call -> SUBSET Slot]

\* A file of clusters that are clusters, and sound.
GoodFile(f) == IsFile(f) /\ AllSound(f)

IInv ==
  /\ TypeOK
  /\ AllSound(file)
  /\ \A k \in Call : AllSound(copy[k]) /\ WaitOK(k) /\ KindOK(k)

\* Only k moves.
Frame(k) ==
  \A j \in Call \ {k} :
    /\ pc'[j] = pc[j] /\ proc'[j] = proc[j] /\ kind'[j] = kind[j]
    /\ target'[j] = target[j] /\ arg'[j] = arg[j]
    /\ copy'[j] = copy[j] /\ rows'[j] = rows[j]

LEMMA EmptyFile == GoodFile(NoClusters)
BY DEF GoodFile, IsFile, AllSound, NoClusters

-----------------------------------------------------------------------------
(* Chains.                                                                 *)

LEMMA InNotEmpty ==
  ASSUME NEW s \in Seq(Call), NEW k, In(k, s)
  PROVE  s # <<>>
BY DEF In

LEMMA InTail ==
  ASSUME NEW s \in Seq(Call), NEW j, In(j, s), Head(s) # j
  PROVE  In(j, Tail(s))
<1>1. PICK i \in 1..Len(s) : s[i] = j
  BY DEF In
<1>2. i # 1
  BY <1>1
<1>3. i - 1 \in 1..Len(Tail(s)) /\ Tail(s)[i - 1] = s[i]
  BY <1>1, <1>2
<1> QED
  BY <1>1, <1>3 DEF In

LEMMA InAppend ==
  ASSUME NEW s \in Seq(Call), NEW k \in Call
  PROVE  /\ In(k, Append(s, k))
         /\ \A j : In(j, s) => In(j, Append(s, k))
         /\ s # <<>> => Head(Append(s, k)) = Head(s)
<1>1. Len(s) + 1 \in 1..Len(Append(s, k)) /\ Append(s, k)[Len(s) + 1] = k
  OBVIOUS
<1>2. \A i \in 1..Len(s) : i \in 1..Len(Append(s, k)) /\ Append(s, k)[i] = s[i]
  OBVIOUS
<1> QED
  BY <1>1, <1>2 DEF In

\* Joining a chain takes nobody's place.
LEMMA QueueKeeps ==
  ASSUME IInv, NEW k \in Call, NEW p \in Process, Queue(k, p)
  PROVE  /\ chain' \in [Process -> Seq(Call)]
         /\ In(k, chain'[p])
         /\ \A j \in Call \ {k} :
              pc'[j] = pc[j] /\ proc'[j] = proc[j] => WaitOK(j)'
<1>1. chain \in [Process -> Seq(Call)]
  BY DEF IInv, TypeOK
<1>2. chain' \in [Process -> Seq(Call)] /\ chain'[p] = Append(chain[p], k)
  BY <1>1 DEF Queue
<1>3. \A q \in Process : q # p => chain'[q] = chain[q]
  BY <1>1 DEF Queue
<1>4. ASSUME NEW j \in Call \ {k}, pc'[j] = pc[j], proc'[j] = proc[j]
      PROVE  WaitOK(j)'
  <2>1. WaitOK(j)
    BY DEF IInv
  <2>2. CASE proc[j] = p /\ InTurn(j)
    <3>1. In(j, chain[p]) /\ chain[p] # <<>>
      BY <1>1, <2>1, <2>2, InNotEmpty DEF WaitOK
    <3>2. In(j, chain'[p]) /\ Head(chain'[p]) = Head(chain[p])
      BY <1>1, <1>2, <3>1, InAppend
    <3> QED
      BY <1>4, <2>1, <2>2, <3>2 DEF WaitOK, InTurn
  <2>3. CASE proc[j] # p /\ InTurn(j)
    BY <1>3, <1>4, <2>1, <2>3 DEF WaitOK, InTurn
  <2>4. CASE ~InTurn(j)
    BY <1>4, <2>1, <2>4 DEF WaitOK, InTurn
  <2> QED
    BY <2>2, <2>3, <2>4
<1> QED
  BY <1>1, <1>2, <1>4, InAppend

\* The head of a chain leaves it, nobody else does.
LEMMA PassKeeps ==
  ASSUME IInv, NEW k \in Call, InTurn(k), Head(chain[proc[k]]) = k,
         PassTurn(k)
  PROVE  /\ chain' \in [Process -> Seq(Call)]
         /\ \A j \in Call \ {k} :
              pc'[j] = pc[j] /\ proc'[j] = proc[j] => WaitOK(j)'
<1> DEFINE p == proc[k]
<1>1. chain \in [Process -> Seq(Call)]
  BY DEF IInv, TypeOK
<1>2. p \in Process /\ In(k, chain[p])
  BY DEF IInv, WaitOK, InTurn
<1>3. chain[p] # <<>>
  BY <1>1, <1>2, InNotEmpty
<1>4. chain' \in [Process -> Seq(Call)] /\ chain'[p] = Tail(chain[p])
  BY <1>1, <1>2, <1>3 DEF PassTurn
<1>5. \A q \in Process : q # p => chain'[q] = chain[q]
  BY <1>1 DEF PassTurn
<1>6. ASSUME NEW j \in Call \ {k}, pc'[j] = pc[j], proc'[j] = proc[j]
      PROVE  WaitOK(j)'
  <2>1. WaitOK(j)
    BY DEF IInv
  <2>2. CASE proc[j] = p /\ InTurn(j)
    <3>1. In(j, chain[p])
      BY <2>1, <2>2 DEF WaitOK
    <3>2. In(j, chain'[p])
      BY <1>1, <1>2, <1>4, <3>1, InTail
    <3>3. pc[j] \notin {"check", "save"}
      BY <2>1, <2>2 DEF WaitOK
    <3> QED
      BY <1>6, <2>1, <2>2, <3>2, <3>3 DEF WaitOK, InTurn
  <2>3. CASE proc[j] # p /\ InTurn(j)
    BY <1>5, <1>6, <2>1, <2>3 DEF WaitOK, InTurn
  <2>4. CASE ~InTurn(j)
    BY <1>6, <2>1, <2>4 DEF WaitOK, InTurn
  <2> QED
    BY <2>2, <2>3, <2>4
<1> QED
  BY <1>4, <1>6
-----------------------------------------------------------------------------
(* Every step keeps the invariant.                                         *)

\* What is left to show of a step of k.
LEMMA Assemble ==
  ASSUME IInv, NEW k \in Call, CallTypes', Frame(k),
         chain' \in [Process -> Seq(Call)],
         GoodFile(file'), GoodFile(copy'[k]),
         usage' \subseteq Slot, minted' \subseteq Cluster, mixed' \in BOOLEAN,
         WaitOK(k)', KindOK(k)',
         \A j \in Call \ {k} : WaitOK(j)'
  PROVE  IInv'
<1>1. \A j \in Call : KindOK(j)'
  <2> SUFFICES ASSUME NEW j \in Call \ {k}
               PROVE  KindOK(j)'
    OBVIOUS
  <2>1. KindOK(j)
    BY DEF IInv
  <2> QED
    BY <2>1 DEF KindOK, InTurn, Frame
<1>2. \A j \in Call : GoodFile(copy'[j])
  BY DEF IInv, TypeOK, GoodFile, Frame
<1>3. TypeOK'
  BY <1>2 DEF TypeOK, CallTypes, GoodFile
<1> QED
  BY <1>1, <1>2, <1>3 DEF IInv, GoodFile

\* A call that ends leaves a free slot.
LEMMA EndKeeps ==
  ASSUME IInv, NEW k \in Call, End(k)
  PROVE  /\ CallTypes' /\ Frame(k)
         /\ pc'[k] = "idle"
         /\ GoodFile(copy'[k]) /\ WaitOK(k)' /\ KindOK(k)'
<1>1. CallTypes
  BY DEF IInv, TypeOK, CallTypes
<1>2. CallTypes'
  BY <1>1 DEF End, Forget, CallTypes, Pc, Kind
<1>3. Frame(k)
  BY DEF End, Forget, Frame
<1>4. pc'[k] = "idle" /\ copy'[k] = NoClusters
  BY DEF End, Forget
<1> QED
  BY <1>2, <1>3, <1>4, EmptyFile DEF WaitOK, KindOK, InTurn

\* Where the chains stay as they are, so does everybody's place.
LEMMA ChainStays ==
  ASSUME IInv, NEW k \in Call, Frame(k), UNCHANGED chain
  PROVE  /\ chain' \in [Process -> Seq(Call)]
         /\ \A j \in Call \ {k} : WaitOK(j)'
<1>1. chain \in [Process -> Seq(Call)] /\ \A j \in Call : WaitOK(j)
  BY DEF IInv, TypeOK
<1> QED
  BY <1>1 DEF WaitOK, InTurn, Frame

\* The files as they are.
LEMMA FilesNow ==
  ASSUME IInv
  PROVE  /\ GoodFile(file) /\ \A k \in Call : GoodFile(copy[k])
         /\ usage \subseteq Slot /\ minted \subseteq Cluster /\ mixed \in BOOLEAN
         /\ CallTypes
BY DEF IInv, TypeOK, GoodFile, CallTypes

\* A call is taken, from outside or by a policy.
LEMMA TakeKeeps ==
  ASSUME IInv, NEW k \in Call, NEW p \in Process, NEW what \in Kind,
         NEW c \in Cluster \cup {Nothing},
         NEW a \in Command \cup ClusterName \cup {Nothing}, NEW to \in Pc,
         Take(k, p, what, c, a, to)
  PROVE  /\ CallTypes' /\ Frame(k)
         /\ pc'[k] = to /\ proc'[k] = p /\ kind'[k] = what
         /\ target'[k] = c /\ arg'[k] = a
         /\ GoodFile(file') /\ GoodFile(copy'[k])
         /\ usage' \subseteq Slot /\ minted' \subseteq Cluster /\ mixed' \in BOOLEAN
<1>1. CallTypes
  BY FilesNow
<1>2. CallTypes'
  BY <1>1 DEF Take, Goto, CallTypes
<1>3. Frame(k)
  BY <1>1 DEF Take, Goto, Frame, CallTypes
<1>4. /\ pc'[k] = to /\ proc'[k] = p /\ kind'[k] = what
      /\ target'[k] = c /\ arg'[k] = a
  BY <1>1 DEF Take, Goto, CallTypes
<1>5. UNCHANGED <<file, usage, copy, minted, mixed>>
  BY DEF Take
<1> QED
  BY <1>2, <1>3, <1>4, <1>5, FilesNow

LEMMA RequestKeeps ==
  ASSUME IInv, NEW k \in Call, NEW p \in Process, Request(k, p)
  PROVE  IInv'
<1>1. ASSUME NEW c \in minted, RequestUpdate(k, p, c)
      PROVE  IInv'
  <2>1. c \in Cluster
    BY <1>1, FilesNow
  <2>2. Take(k, p, "update", c, Nothing, "queued") /\ Queue(k, p)
    BY <1>1 DEF RequestUpdate
  <2>3. /\ CallTypes' /\ Frame(k)
        /\ pc'[k] = "queued" /\ proc'[k] = p /\ kind'[k] = "update"
        /\ target'[k] = c /\ arg'[k] = Nothing
        /\ GoodFile(file') /\ GoodFile(copy'[k])
        /\ usage' \subseteq Slot /\ minted' \subseteq Cluster /\ mixed' \in BOOLEAN
    BY <2>1, <2>2, TakeKeeps DEF Kind, Pc
  <2>4. /\ chain' \in [Process -> Seq(Call)] /\ In(k, chain'[p])
        /\ \A j \in Call \ {k} : WaitOK(j)'
    BY <2>2, <2>3, QueueKeeps DEF Frame
  <2>5. WaitOK(k)' /\ KindOK(k)'
    BY <2>1, <2>3, <2>4 DEF WaitOK, KindOK, InTurn
  <2> QED
    BY <2>3, <2>4, <2>5, Assemble
<1>2. ASSUME NEW c \in minted, RequestRemove(k, p, c)
      PROVE  IInv'
  <2>1. c \in Cluster
    BY <1>2, FilesNow
  <2>2. Take(k, p, "remove", c, Nothing, "queued") /\ Queue(k, p)
    BY <1>2 DEF RequestRemove
  <2>3. /\ CallTypes' /\ Frame(k)
        /\ pc'[k] = "queued" /\ proc'[k] = p /\ kind'[k] = "remove"
        /\ target'[k] = c /\ arg'[k] = Nothing
        /\ GoodFile(file') /\ GoodFile(copy'[k])
        /\ usage' \subseteq Slot /\ minted' \subseteq Cluster /\ mixed' \in BOOLEAN
    BY <2>1, <2>2, TakeKeeps DEF Kind, Pc
  <2>4. /\ chain' \in [Process -> Seq(Call)] /\ In(k, chain'[p])
        /\ \A j \in Call \ {k} : WaitOK(j)'
    BY <2>2, <2>3, QueueKeeps DEF Frame
  <2>5. WaitOK(k)' /\ KindOK(k)'
    BY <2>1, <2>3, <2>4 DEF WaitOK, KindOK, InTurn
  <2> QED
    BY <2>3, <2>4, <2>5, Assemble
<1>3. ASSUME NEW name \in ClusterName, RequestAdd(k, p, name)
      PROVE  IInv'
  <2>1. Take(k, p, "add", Nothing, name, "exists") /\ UNCHANGED chain
    BY <1>3 DEF RequestAdd
  <2>2. /\ CallTypes' /\ Frame(k)
        /\ pc'[k] = "exists" /\ proc'[k] = p /\ kind'[k] = "add"
        /\ target'[k] = Nothing /\ arg'[k] = name
        /\ GoodFile(file') /\ GoodFile(copy'[k])
        /\ usage' \subseteq Slot /\ minted' \subseteq Cluster /\ mixed' \in BOOLEAN
    BY <2>1, TakeKeeps DEF Kind, Pc
  <2>3. /\ chain' \in [Process -> Seq(Call)]
        /\ \A j \in Call \ {k} : WaitOK(j)'
    BY <2>1, <2>2, ChainStays
  <2>4. WaitOK(k)' /\ KindOK(k)'
    BY <2>2 DEF WaitOK, KindOK, InTurn
  <2> QED
    BY <2>2, <2>3, <2>4, Assemble
<1>4. ASSUME NEW cmd \in Command, RequestProjection(k, p, cmd)
      PROVE  IInv'
  <2>1. Take(k, p, "update", Nothing, cmd, "owner") /\ UNCHANGED chain
    BY <1>4 DEF RequestProjection
  <2>2. /\ CallTypes' /\ Frame(k)
        /\ pc'[k] = "owner" /\ proc'[k] = p /\ kind'[k] = "update"
        /\ target'[k] = Nothing /\ arg'[k] = cmd
        /\ GoodFile(file') /\ GoodFile(copy'[k])
        /\ usage' \subseteq Slot /\ minted' \subseteq Cluster /\ mixed' \in BOOLEAN
    BY <2>1, TakeKeeps DEF Kind, Pc
  <2>3. /\ chain' \in [Process -> Seq(Call)]
        /\ \A j \in Call \ {k} : WaitOK(j)'
    BY <2>1, <2>2, ChainStays
  <2>4. WaitOK(k)' /\ KindOK(k)'
    BY <2>2 DEF WaitOK, KindOK, InTurn
  <2> QED
    BY <2>2, <2>3, <2>4, Assemble
<1> QED
  BY <1>1, <1>2, <1>3, <1>4 DEF Request

\* A step that ends k without its turn.
LEMMA EndOnly ==
  ASSUME IInv, NEW k \in Call, End(k), UNCHANGED chain,
         GoodFile(file'), usage' \subseteq Slot, minted' \subseteq Cluster,
         mixed' \in BOOLEAN
  PROVE  IInv'
<1>1. /\ CallTypes' /\ Frame(k)
      /\ GoodFile(copy'[k]) /\ WaitOK(k)' /\ KindOK(k)'
  BY EndKeeps
<1>2. /\ chain' \in [Process -> Seq(Call)]
      /\ \A j \in Call \ {k} : WaitOK(j)'
  BY <1>1, ChainStays
<1> QED
  BY <1>1, <1>2, Assemble

\* A step that ends k with its turn.
LEMMA EndInTurn ==
  ASSUME IInv, NEW k \in Call, InTurn(k), Head(chain[proc[k]]) = k,
         Refused(k), GoodFile(file'), usage' \subseteq Slot,
         minted' \subseteq Cluster, mixed' \in BOOLEAN
  PROVE  IInv'
<1>0. End(k) /\ PassTurn(k)
  BY DEF Refused
<1>1. /\ CallTypes' /\ Frame(k)
      /\ GoodFile(copy'[k]) /\ WaitOK(k)' /\ KindOK(k)'
  BY <1>0, EndKeeps
<1>2. /\ chain' \in [Process -> Seq(Call)]
      /\ \A j \in Call \ {k} : WaitOK(j)'
  BY <1>0, <1>1, PassKeeps DEF Frame
<1> QED
  BY <1>1, <1>2, Assemble
\* A call whose cluster is found asks for its turn.
LEMMA QueueStep ==
  ASSUME IInv, NEW k \in Call, pc[k] \in {"exists", "owner"},
         NEW c \in Cluster, target' = [target EXCEPT ![k] = c],
         Goto(k, "queued"), Queue(k, proc[k]),
         UNCHANGED <<proc, kind, arg, copy, rows, file, usage, mixed>>,
         minted' \subseteq Cluster
  PROVE  IInv'
<1>1. CallTypes /\ proc[k] \in Process /\ KindOK(k)
  BY FilesNow DEF IInv, WaitOK
<1>2. CallTypes' /\ Frame(k) /\ pc'[k] = "queued" /\ target'[k] = c
  BY <1>1 DEF CallTypes, Frame, Goto, Pc
<1>3. /\ chain' \in [Process -> Seq(Call)] /\ In(k, chain'[proc[k]])
      /\ \A j \in Call \ {k} : WaitOK(j)'
  BY <1>1, <1>2, QueueKeeps DEF Frame
<1>4. WaitOK(k)' /\ KindOK(k)'
  BY <1>1, <1>2, <1>3 DEF WaitOK, KindOK, InTurn
<1> QED
  BY <1>2, <1>3, <1>4, FilesNow, Assemble

LEMMA LookUpNameKeeps ==
  ASSUME IInv, NEW k \in Call, LookUpName(k)
  PROVE  IInv'
<1>1. CASE \E c \in DOMAIN file : file[c].name = arg[k]
  BY <1>1, EndOnly, FilesNow DEF LookUpName
<1>2. CASE ~\E c \in DOMAIN file : file[c].name = arg[k]
  <2>1. PICK c \in Cluster \ minted :
          /\ minted' = minted \cup {c}
          /\ target' = [target EXCEPT ![k] = c]
          /\ Goto(k, "queued") /\ Queue(k, proc[k])
          /\ UNCHANGED <<proc, kind, arg, copy, rows>>
    BY <1>2 DEF LookUpName
  <2>2. minted' \subseteq Cluster
    BY <2>1, FilesNow
  <2>3. pc[k] = "exists" /\ UNCHANGED <<file, usage, mixed>>
    BY DEF LookUpName
  <2> QED
    BY <2>1, <2>2, <2>3, QueueStep
<1> QED
  BY <1>1, <1>2

LEMMA FindOwnerKeeps ==
  ASSUME IInv, NEW k \in Call, FindOwner(k)
  PROVE  IInv'
<1> DEFINE owners == {c \in DOMAIN file : HostsIp(file[c], arg[k].arg.ip)}
<1>1. CASE owners = {}
  BY <1>1, EndOnly, FilesNow DEF FindOwner
<1>2. CASE owners # {}
  <2>1. PICK c \in owners :
          /\ target' = [target EXCEPT ![k] = c]
          /\ Goto(k, "queued") /\ Queue(k, proc[k])
          /\ UNCHANGED <<proc, kind, arg, copy, rows>>
    BY <1>2 DEF FindOwner
  <2>2. c \in Cluster
    BY FilesNow DEF GoodFile, IsFile
  <2>3. pc[k] = "owner" /\ UNCHANGED <<file, usage, minted, mixed>>
    BY DEF FindOwner
  <2> QED
    BY <2>1, <2>2, <2>3, FilesNow, QueueStep
<1> QED
  BY <1>1, <1>2

\* A call in its turn that goes on with a copy of clusters.
LEMMA LoadedKeeps ==
  ASSUME IInv, NEW k \in Call, Turn(k), NEW clusters, GoodFile(clusters),
         NEW cmd \in Command \cup ClusterName \cup {Nothing},
         NEW to \in {"check", "save"}, Loaded(k, clusters, cmd, to),
         kind[k] = "add" => cmd \in ClusterName,
         kind[k] = "update" => cmd \in Command,
         to = "check" => kind[k] = "update",
         UNCHANGED <<file, usage, minted, mixed>>
  PROVE  IInv'
<1>1. CallTypes /\ KindOK(k) /\ WaitOK(k)
  BY FilesNow DEF IInv
<1>2. UNCHANGED <<chain, proc, kind, target, rows>>
  BY DEF Loaded
<1>3. CallTypes' /\ Frame(k)
  BY <1>1, <1>2 DEF Loaded, Goto, CallTypes, Frame, Pc
<1>4. pc'[k] = to /\ arg'[k] = cmd /\ copy'[k] = clusters
  BY <1>1 DEF Loaded, Goto, CallTypes
<1>5. /\ chain' \in [Process -> Seq(Call)]
      /\ \A j \in Call \ {k} : WaitOK(j)'
  BY <1>2, <1>3, ChainStays
<1>6. pc[k] = "queued" /\ Head(chain[proc[k]]) = k
  BY DEF Turn
<1>7. WaitOK(k)'
  BY <1>1, <1>2, <1>4, <1>6 DEF WaitOK, InTurn
<1>8. KindOK(k)'
  BY <1>1, <1>2, <1>4, <1>6 DEF KindOK, InTurn
<1> QED
  BY <1>2, <1>3, <1>4, <1>5, <1>7, <1>8, FilesNow, Assemble

\* A file with one good cluster more, or changed, is good.
LEMMA GoodFileWith ==
  ASSUME NEW f, GoodFile(f), NEW c \in Cluster, NEW r, IsCluster(r), Sound(r)
  PROVE  /\ GoodFile([d \in DOMAIN f \cup {c} |-> IF d = c THEN r ELSE f[d]])
         /\ GoodFile([f EXCEPT ![c] = r])
<1> DEFINE g == [d \in DOMAIN f \cup {c} |-> IF d = c THEN r ELSE f[d]]
           h == [f EXCEPT ![c] = r]
<1>1. f = [d \in DOMAIN f |-> f[d]] /\ DOMAIN f \subseteq Cluster
  BY DEF GoodFile, IsFile
<1>2. \A d \in DOMAIN f : IsCluster(f[d]) /\ Sound(f[d])
  BY DEF GoodFile, IsFile, AllSound
<1>3. DOMAIN g = DOMAIN f \cup {c} /\ \A d \in DOMAIN g : g[d] = r \/ (d \in DOMAIN f /\ g[d] = f[d])
  OBVIOUS
<1>4. h = [d \in DOMAIN f |-> IF d = c THEN r ELSE f[d]]
  BY <1>1
<1>5. DOMAIN h = DOMAIN f /\ \A d \in DOMAIN h : h[d] = r \/ h[d] = f[d]
  BY <1>4
<1>6. g = [d \in DOMAIN g |-> g[d]] /\ h = [d \in DOMAIN h |-> h[d]]
  BY <1>4
<1> HIDE DEF g, h
<1>7. GoodFile(g)
  BY <1>1, <1>2, <1>3, <1>6 DEF GoodFile, IsFile, AllSound
<1>8. GoodFile(h)
  BY <1>1, <1>2, <1>5, <1>6 DEF GoodFile, IsFile, AllSound
<1> QED
  BY <1>7, <1>8 DEF g, h

\* A file with a cluster less is good.
LEMMA GoodFileWithout ==
  ASSUME NEW f, GoodFile(f), NEW c
  PROVE  GoodFile([d \in DOMAIN f \ {c} |-> f[d]])
BY DEF GoodFile, IsFile, AllSound

LEMMA LoadAddKeeps ==
  ASSUME IInv, NEW k \in Call, LoadAdd(k)
  PROVE  IInv'
<1>1. KindOK(k) /\ Turn(k) /\ kind[k] = "add"
  BY DEF IInv, LoadAdd
<1>2. target[k] \in Cluster /\ arg[k] \in ClusterName
  BY <1>1 DEF KindOK, InTurn, Turn
<1> DEFINE c == target[k]
           r == NewCluster(arg[k])
           f == [d \in DOMAIN file \cup {c} |-> IF d = c THEN r ELSE file[d]]
<1>3. GoodFile(f)
  <2>1. c \in Cluster /\ GoodFile(file) /\ IsCluster(r) /\ Sound(r)
    BY <1>2, FilesNow, NewClusterType, NewClusterSound
  <2> HIDE DEF c, r
  <2> QED
    BY <2>1, GoodFileWith
<1>4. Loaded(k, f, arg[k], "save") /\ UNCHANGED <<file, usage, minted, mixed>>
  BY DEF LoadAdd
<1> HIDE DEF f
<1> QED
  BY <1>1, <1>2, <1>3, <1>4, LoadedKeeps

LEMMA LoadRemoveKeeps ==
  ASSUME IInv, NEW k \in Call, LoadRemove(k)
  PROVE  IInv'
<1>1. Turn(k) /\ kind[k] = "remove" /\ UNCHANGED <<file, usage, minted, mixed>>
  BY DEF LoadRemove
<1>2. CASE target[k] \in DOMAIN file
  <2> DEFINE f == [c \in DOMAIN file \ {target[k]} |-> file[c]]
  <2>1. GoodFile(f)
    BY FilesNow, GoodFileWithout
  <2>2. Loaded(k, f, Nothing, "save")
    BY <1>2 DEF LoadRemove
  <2> HIDE DEF f
  <2> QED
    BY <1>1, <2>1, <2>2, LoadedKeeps
<1>3. CASE target[k] \notin DOMAIN file
  <2>1. Refused(k) /\ InTurn(k) /\ Head(chain[proc[k]]) = k
    BY <1>1, <1>3 DEF LoadRemove, Turn, InTurn
  <2> QED
    BY <1>1, <2>1, FilesNow, EndInTurn
<1> QED
  BY <1>2, <1>3

LEMMA LoadUpdateKeeps ==
  ASSUME IInv, NEW k \in Call, LoadUpdate(k)
  PROVE  IInv'
<1> DEFINE c == target[k]
<1>1. Turn(k) /\ kind[k] = "update" /\ UNCHANGED <<file, usage, minted, mixed>>
  BY DEF LoadUpdate
<1>2. c \in Cluster /\ arg[k] \in Command \cup {Nothing}
  BY <1>1 DEF IInv, KindOK, InTurn, Turn
<1>3. ASSUME c \in DOMAIN file, NEW cmd \in Asked(k), Accepts(file[c], cmd),
             Loaded(k, [file EXCEPT ![c] = Changed(file[c], cmd)], cmd, "check")
      PROVE  IInv'
  <2>1. cmd \in Command
    BY <1>2, <1>3 DEF Asked
  <2>2. IsCluster(file[c]) /\ Sound(file[c])
    BY <1>3, FilesNow DEF GoodFile, IsFile, AllSound
  <2>3. /\ IsCluster(Changed(file[c], cmd))
        /\ Sound(Changed(file[c], cmd))
    BY <1>3, <2>1, <2>2, ChangedType, ChangedSound
  <2> DEFINE r == Changed(file[c], cmd)
             f == [file EXCEPT ![c] = r]
  <2>4. GoodFile(f)
    <3>1. c \in Cluster /\ GoodFile(file) /\ IsCluster(r) /\ Sound(r)
      BY <1>2, <2>3, FilesNow
    <3> HIDE DEF c, r
    <3> QED
      BY <3>1, GoodFileWith
  <2>5. Loaded(k, f, cmd, "check")
    BY <1>3
  <2> HIDE DEF f
  <2> QED
    BY <1>1, <2>1, <2>4, <2>5, LoadedKeeps
<1>4. ASSUME Refused(k)
      PROVE  IInv'
  <2>1. InTurn(k) /\ Head(chain[proc[k]]) = k
    BY <1>1 DEF Turn, InTurn
  <2> QED
    BY <1>1, <1>4, <2>1, FilesNow, EndInTurn
<1> QED
  BY <1>3, <1>4 DEF LoadUpdate

LEMMA CheckKeeps ==
  ASSUME IInv, NEW k \in Call, Check(k)
  PROVE  IInv'
<1>1. /\ pc[k] = "check" /\ WaitOK(k) /\ KindOK(k) /\ CallTypes
      /\ UNCHANGED <<file, usage, minted, mixed>>
  BY FilesNow DEF IInv, Check
<1>2. ASSUME Refused(k)
      PROVE  IInv'
  <2>1. InTurn(k) /\ Head(chain[proc[k]]) = k
    BY <1>1 DEF WaitOK, InTurn
  <2> QED
    BY <1>1, <1>2, <2>1, FilesNow, EndInTurn
<1>3. ASSUME Goto(k, "save"),
             UNCHANGED <<chain, proc, kind, target, arg, copy, rows>>
      PROVE  IInv'
  <2>1. CallTypes' /\ Frame(k) /\ pc'[k] = "save"
    BY <1>1, <1>3 DEF CallTypes, Frame, Goto, Pc
  <2>2. /\ chain' \in [Process -> Seq(Call)]
        /\ \A j \in Call \ {k} : WaitOK(j)'
    BY <1>3, <2>1, ChainStays
  <2>3. WaitOK(k)' /\ KindOK(k)'
    BY <1>1, <1>3, <2>1 DEF WaitOK, KindOK, InTurn
  <2> QED
    BY <1>1, <1>3, <2>1, <2>2, <2>3, FilesNow, Assemble
<1> QED
  BY <1>2, <1>3 DEF Check

\* The copy is written: its clusters are good, and so is the file.
LEMMA SaveKeeps ==
  ASSUME IInv, NEW k \in Call, Save(k)
  PROVE  IInv'
<1>1. /\ pc[k] = "save" /\ InTurn(k) /\ Head(chain[proc[k]]) = k
      /\ WaitOK(k) /\ KindOK(k) /\ CallTypes /\ PassTurn(k)
      /\ UNCHANGED <<usage, minted>> /\ mixed' \in BOOLEAN
  BY FilesNow DEF IInv, Save, WaitOK, InTurn
<1>2. GoodFile(file')
  BY FilesNow DEF Save
<1>3. CASE Announced(k)
  <2>1. /\ Goto(k, "project") /\ copy' = [copy EXCEPT ![k] = NoClusters]
        /\ UNCHANGED <<proc, kind, target, arg, rows>>
    BY <1>3 DEF Save
  <2>2. CallTypes' /\ Frame(k) /\ pc'[k] = "project" /\ copy'[k] = NoClusters
    BY <1>1, <2>1 DEF CallTypes, Frame, Goto, Pc
  <2>3. /\ chain' \in [Process -> Seq(Call)]
        /\ \A j \in Call \ {k} : WaitOK(j)'
    BY <1>1, <2>2, PassKeeps DEF Frame
  <2>4. WaitOK(k)' /\ KindOK(k)'
    BY <1>1, <1>3, <2>1, <2>2 DEF WaitOK, KindOK, InTurn, Announced
  <2> QED
    BY <1>1, <1>2, <2>2, <2>3, <2>4, FilesNow, EmptyFile, Assemble
<1>4. CASE ~Announced(k)
  <2>1. Refused(k)
    BY <1>1, <1>4 DEF Save, Refused
  <2> QED
    BY <1>1, <1>2, <2>1, FilesNow, EndInTurn
<1> QED
  BY <1>3, <1>4

LEMMA ReadUsageKeeps ==
  ASSUME IInv, NEW k \in Call, ReadUsage(k)
  PROVE  IInv'
<1>1. /\ pc[k] = "project" /\ WaitOK(k) /\ KindOK(k) /\ CallTypes
      /\ UNCHANGED <<file, usage, chain, minted, mixed>>
  BY FilesNow DEF IInv, ReadUsage
<1>2. CASE arg[k].op = "unassign" /\ SlotOf(k) \notin usage
  <2>1. End(k)
    BY <1>2 DEF ReadUsage
  <2> QED
    BY <1>1, <2>1, FilesNow, EndOnly
<1>3. CASE ~(arg[k].op = "unassign" /\ SlotOf(k) \notin usage)
  <2>1. /\ rows' = [rows EXCEPT ![k] = usage] /\ Goto(k, "store")
        /\ UNCHANGED <<proc, kind, target, arg, copy>>
    BY <1>3 DEF ReadUsage
  <2>2. CallTypes' /\ Frame(k) /\ pc'[k] = "store"
    BY <1>1, <2>1, FilesNow DEF CallTypes, Frame, Goto, Pc
  <2>3. /\ chain' \in [Process -> Seq(Call)]
        /\ \A j \in Call \ {k} : WaitOK(j)'
    BY <1>1, <2>2, ChainStays
  <2>4. WaitOK(k)' /\ KindOK(k)'
    BY <1>1, <2>1, <2>2 DEF WaitOK, KindOK, InTurn
  <2> QED
    BY <1>1, <2>1, <2>2, <2>3, <2>4, FilesNow, Assemble
<1> QED
  BY <1>2, <1>3

LEMMA StoreUsageKeeps ==
  ASSUME IInv, NEW k \in Call, StoreUsage(k)
  PROVE  IInv'
<1>1. /\ pc[k] = "store" /\ KindOK(k) /\ rows[k] \subseteq Slot
      /\ UNCHANGED <<file, chain, minted, mixed>> /\ End(k)
  BY FilesNow DEF IInv, StoreUsage, CallTypes
<1>2. /\ target[k] \in Cluster /\ arg[k] \in Command
      /\ arg[k].op \in {"assign", "unassign"}
  BY <1>1 DEF KindOK
<1>3. SlotOf(k) \in Slot
  BY <1>2 DEF SlotOf, Slot, Command, NodeImage
<1>4. usage' \subseteq Slot
  BY <1>1, <1>3 DEF StoreUsage
<1> QED
  BY <1>1, <1>4, FilesNow, EndOnly

LEMMA DieKeeps ==
  ASSUME IInv, NEW p \in Process, Die(p)
  PROVE  IInv'
<1> DEFINE K == {k \in Call : proc[k] = p}
<1>1. /\ Forget(K) /\ chain' = [chain EXCEPT ![p] = <<>>]
      /\ mixed' \in BOOLEAN /\ UNCHANGED <<file, usage, minted>>
  BY FilesNow DEF Die
<1>2. CallTypes /\ chain \in [Process -> Seq(Call)]
  BY FilesNow DEF IInv, TypeOK
<1>3. CallTypes'
  BY <1>1, <1>2 DEF Forget, CallTypes, Pc, Kind
<1>4. /\ chain' \in [Process -> Seq(Call)]
      /\ \A q \in Process : q # p => chain'[q] = chain[q]
  BY <1>1, <1>2
<1>5. \A k \in K : /\ pc'[k] = "idle" /\ copy'[k] = NoClusters
                   /\ WaitOK(k)' /\ KindOK(k)'
  <2> SUFFICES ASSUME NEW k \in K
               PROVE  /\ pc'[k] = "idle" /\ copy'[k] = NoClusters
                      /\ WaitOK(k)' /\ KindOK(k)'
    OBVIOUS
  <2>1. pc'[k] = "idle" /\ copy'[k] = NoClusters
    BY <1>1 DEF Forget
  <2> QED
    BY <2>1 DEF WaitOK, KindOK, InTurn
<1>6. \A k \in Call \ K :
        /\ pc'[k] = pc[k] /\ proc'[k] = proc[k] /\ kind'[k] = kind[k]
        /\ target'[k] = target[k] /\ arg'[k] = arg[k] /\ copy'[k] = copy[k]
  BY <1>1 DEF Forget
<1>7. \A k \in Call \ K : WaitOK(k)' /\ KindOK(k)'
  <2> SUFFICES ASSUME NEW k \in Call \ K
               PROVE  WaitOK(k)' /\ KindOK(k)'
    OBVIOUS
  <2>1. WaitOK(k) /\ KindOK(k) /\ proc[k] # p
    BY DEF IInv
  <2> QED
    BY <1>4, <1>6, <2>1 DEF WaitOK, KindOK, InTurn
<1>8. \A k \in Call : GoodFile(copy'[k])
  BY <1>5, <1>6, FilesNow, EmptyFile
<1>9. GoodFile(file') /\ usage' \subseteq Slot /\ minted' \subseteq Cluster
  BY <1>1, FilesNow
<1>10. TypeOK'
  BY <1>1, <1>3, <1>4, <1>8, <1>9 DEF TypeOK, CallTypes, GoodFile
<1> QED
  BY <1>5, <1>7, <1>8, <1>9, <1>10 DEF IInv, GoodFile

\* Every step keeps the invariant.
LEMMA NextKeeps ==
  ASSUME IInv, [Next]_vars
  PROVE  IInv'
<1>1. CASE UNCHANGED vars
  BY <1>1 DEF vars, IInv, TypeOK, WaitOK, KindOK, InTurn
<1>2. ASSUME NEW k \in Call, Step(k)
      PROVE  IInv'
  BY <1>2, LookUpNameKeeps, FindOwnerKeeps, LoadAddKeeps, LoadRemoveKeeps,
     LoadUpdateKeeps, CheckKeeps, SaveKeeps, ReadUsageKeeps, StoreUsageKeeps
     DEF Step
<1> QED
  BY <1>1, <1>2, RequestKeeps, DieKeeps DEF Next

LEMMA InitGood == Init => IInv
<1> SUFFICES ASSUME Init
             PROVE  IInv
  OBVIOUS
<1>1. GoodFile(file) /\ \A k \in Call : GoodFile(copy[k])
  BY EmptyFile DEF Init
<1>2. chain \in [Process -> Seq(Call)] /\ rows \in [Call -> SUBSET Slot]
  <2>1. <<>> \in Seq(Call)
    OBVIOUS
  <2> QED
    BY <2>1 DEF Init
<1>3. CallTypes
  BY <1>2 DEF Init, CallTypes, Pc, Kind
<1>4. TypeOK
  BY <1>1, <1>2, <1>3 DEF Init, TypeOK, GoodFile, CallTypes
<1> QED
  BY <1>1, <1>4 DEF IInv, GoodFile, Init, WaitOK, KindOK, InTurn

\* The invariant always holds.
LEMMA Always == Spec => []IInv
BY InitGood, NextKeeps, PTL DEF Spec

\* The types of the two files, of the chains and of the calls under way.
THEOREM ClusterTypes == Spec => []TypeOK
BY Always, PTL DEF IInv

\* What the guards of the aggregate are for holds of the file, although each
\* of them looked at a copy, and whatever the number of processes.
THEOREM HoldersStayDistinct == Spec => []HoldersDistinct
<1>1. IInv => HoldersDistinct
  BY DEF IInv, AllSound, Sound, HoldersDistinct
<1> QED
  BY <1>1, Always, PTL

\* The image of a machine that is registered stays assigned to its node,
\* whichever copies the guards that see to it looked at.
THEOREM ImagesStayPresent == Spec => []ImagesArePresent
<1>1. IInv => ImagesArePresent
  BY DEF IInv, AllSound, Sound, ImagesArePresent
<1> QED
  BY <1>1, Always, PTL

-----------------------------------------------------------------------------
(* One process: the chain makes every change atomic.  A call that has its  *)
(* turn is the only one, so what it prepared is the change applied to the  *)
(* file as it still is when it is written.                                 *)

OneProcess == \E p : Process = {p}

Ready(k) == pc[k] \in {"check", "save"}

Prepared(k) ==
  Ready(k) =>
    /\ kind[k] = "add" =>
         /\ target[k] \notin DOMAIN file
         /\ copy[k] = [d \in DOMAIN file \cup {target[k]} |->
                         IF d = target[k] THEN NewCluster(arg[k]) ELSE file[d]]
    /\ kind[k] = "remove" =>
         /\ target[k] \in DOMAIN file
         /\ copy[k] = [d \in DOMAIN file \ {target[k]} |-> file[d]]
    /\ kind[k] = "update" =>
         /\ target[k] \in DOMAIN file
         /\ Accepts(file[target[k]], arg[k])
         /\ copy[k] = [file EXCEPT ![target[k]] =
                         Changed(file[target[k]], arg[k])]

\* The id of a cluster that is still to be added is its own.
Adding(k) == InTurn(k) /\ kind[k] = "add"

Fresh ==
  /\ DOMAIN file \subseteq minted
  /\ \A k \in Call : Adding(k) => target[k] \in minted \ DOMAIN file
  /\ \A j, k \in Call : Adding(j) /\ Adding(k) /\ j # k => target[j] # target[k]

JInv == IInv /\ Fresh /\ \A k \in Call : Prepared(k)

\* The turn belongs to one call.
LEMMA OneReady ==
  ASSUME OneProcess, IInv
  PROVE  \A j, k \in Call : Ready(j) /\ Ready(k) => j = k
BY DEF OneProcess, IInv, WaitOK, Ready

\* A step that leaves the file and adds nothing new to it.
LEMMA FileStays ==
  ASSUME JInv, IInv', UNCHANGED <<file, minted>>,
         \A j \in Call : Adding(j)' => Adding(j) /\ target'[j] = target[j],
         \A j \in Call : Ready(j)' =>
           \/ Prepared(j)'
           \/ /\ Ready(j) /\ kind'[j] = kind[j] /\ target'[j] = target[j]
              /\ arg'[j] = arg[j] /\ copy'[j] = copy[j]
  PROVE  JInv'
<1>1. Fresh'
  BY DEF JInv, Fresh
<1>2. ASSUME NEW j \in Call
      PROVE  Prepared(j)'
  <2>1. CASE ~Ready(j)'
    BY <2>1 DEF Prepared
  <2>2. CASE /\ Ready(j) /\ kind'[j] = kind[j] /\ target'[j] = target[j]
             /\ arg'[j] = arg[j] /\ copy'[j] = copy[j]
    BY <2>2 DEF Prepared, JInv
  <2> QED
    BY <2>1, <2>2
<1> QED
  BY <1>1, <1>2 DEF JInv

\* Calls whose slots are forgotten neither add nor are ready.
LEMMA ForgetStays ==
  ASSUME JInv, IInv', UNCHANGED <<file, minted>>, NEW K, Forget(K)
  PROVE  JInv'
<1>1. \A j \in Call : j \in K => pc'[j] = "idle"
  BY DEF Forget
<1>2. \A j \in Call : j \notin K =>
        /\ pc'[j] = pc[j] /\ kind'[j] = kind[j] /\ target'[j] = target[j]
        /\ arg'[j] = arg[j] /\ copy'[j] = copy[j]
  BY DEF Forget
<1> QED
  BY <1>1, <1>2, FileStays DEF Adding, InTurn, Ready

\* A step of k that does not make it ready.
LEMMA NotReadyStays ==
  ASSUME JInv, IInv', UNCHANGED <<file, minted>>, NEW k \in Call,
         \A j \in Call \ {k} :
           /\ pc'[j] = pc[j] /\ kind'[j] = kind[j] /\ target'[j] = target[j]
           /\ arg'[j] = arg[j] /\ copy'[j] = copy[j],
         pc'[k] \notin {"check", "save"},
         pc'[k] = "queued" => kind'[k] # "add"
  PROVE  JInv'
BY FileStays DEF Adding, InTurn, Ready

LEMMA RequestStays ==
  ASSUME JInv, IInv', NEW k \in Call, NEW p \in Process, Request(k, p)
  PROVE  JInv'
<1>1. CallTypes
  BY FilesNow DEF JInv
<1> DEFINE Taken(what, c, a, to) ==
             /\ Take(k, p, what, c, a, to)
             /\ to \in {"exists", "owner", "queued"}
             /\ to = "queued" => what # "add"
<1>2. PICK what, c, a, to : Taken(what, c, a, to)
  <2>1. ASSUME NEW c, RequestUpdate(k, p, c)
        PROVE  Taken("update", c, Nothing, "queued")
    BY <2>1 DEF RequestUpdate
  <2>2. ASSUME NEW c, RequestRemove(k, p, c)
        PROVE  Taken("remove", c, Nothing, "queued")
    BY <2>2 DEF RequestRemove
  <2>3. ASSUME NEW name, RequestAdd(k, p, name)
        PROVE  Taken("add", Nothing, name, "exists")
    BY <2>3 DEF RequestAdd
  <2>4. ASSUME NEW cmd, RequestProjection(k, p, cmd)
        PROVE  Taken("update", Nothing, cmd, "owner")
    BY <2>4 DEF RequestProjection
  <2> HIDE DEF Taken
  <2> QED
    BY <2>1, <2>2, <2>3, <2>4 DEF Request
<1>3. /\ \A j \in Call \ {k} :
           /\ pc'[j] = pc[j] /\ kind'[j] = kind[j] /\ target'[j] = target[j]
           /\ arg'[j] = arg[j] /\ copy'[j] = copy[j]
      /\ pc'[k] = to /\ kind'[k] = what
      /\ UNCHANGED <<file, minted>>
  BY <1>1, <1>2 DEF Take, Goto, CallTypes
<1> QED
  BY <1>2, <1>3, NotReadyStays

LEMMA FindOwnerStays ==
  ASSUME JInv, IInv', NEW k \in Call, FindOwner(k)
  PROVE  JInv'
<1>1. CallTypes /\ kind[k] = "update" /\ UNCHANGED <<file, minted>>
  BY FilesNow DEF JInv, IInv, KindOK, FindOwner
<1>2. CASE End(k)
  BY <1>1, <1>2, ForgetStays DEF End
<1>3. CASE /\ \E c \in Cluster : target' = [target EXCEPT ![k] = c]
           /\ Goto(k, "queued") /\ UNCHANGED <<kind, arg, copy>>
  <2>1. /\ \A j \in Call \ {k} :
             /\ pc'[j] = pc[j] /\ kind'[j] = kind[j] /\ target'[j] = target[j]
             /\ arg'[j] = arg[j] /\ copy'[j] = copy[j]
        /\ pc'[k] = "queued" /\ kind'[k] = "update"
    BY <1>1, <1>3 DEF Goto, CallTypes
  <2> QED
    BY <1>1, <2>1, NotReadyStays
<1>4. DOMAIN file \subseteq Cluster
  BY FilesNow DEF JInv, GoodFile, IsFile
<1> QED
  BY <1>2, <1>3, <1>4 DEF FindOwner

\* The new id is none of those given before.
LEMMA LookUpNameStays ==
  ASSUME JInv, IInv', NEW k \in Call, LookUpName(k)
  PROVE  JInv'
<1>1. CallTypes /\ pc[k] = "exists" /\ UNCHANGED file
  BY FilesNow DEF JInv, LookUpName
<1>2. CASE End(k) /\ UNCHANGED minted
  BY <1>1, <1>2, ForgetStays DEF End
<1>3. CASE ~(End(k) /\ UNCHANGED minted)
  <2>0. PICK c \in Cluster \ minted :
          /\ minted' = minted \cup {c}
          /\ target' = [target EXCEPT ![k] = c]
          /\ Goto(k, "queued")
          /\ UNCHANGED <<proc, kind, arg, copy, rows>>
    BY <1>3 DEF LookUpName
  <2>1. /\ minted' = minted \cup {c} /\ target' = [target EXCEPT ![k] = c]
        /\ Goto(k, "queued") /\ UNCHANGED <<kind, arg, copy>>
    BY <2>0
  <2>2. /\ \A j \in Call \ {k} :
             /\ pc'[j] = pc[j] /\ kind'[j] = kind[j] /\ target'[j] = target[j]
             /\ arg'[j] = arg[j] /\ copy'[j] = copy[j]
        /\ pc'[k] = "queued" /\ target'[k] = c
    BY <1>1, <2>1 DEF Goto, CallTypes
  <2>3. Fresh'
    <3>1. \A j \in Call \ {k} : Adding(j)' => Adding(j) /\ target'[j] = target[j]
      BY <2>2 DEF Adding, InTurn
    <3> QED
      BY <1>1, <2>1, <2>2, <3>1 DEF JInv, Fresh
  <2>4. \A j \in Call : Prepared(j)'
    BY <1>1, <2>2 DEF JInv, Prepared, Ready
  <2> QED
    BY <2>3, <2>4 DEF JInv
<1> QED
  BY <1>2, <1>3

\* What a call loads is the change applied to the file.
LEMMA LoadedStays ==
  ASSUME JInv, IInv', NEW k \in Call, Turn(k), NEW clusters, NEW cmd,
         NEW to \in {"check", "save"}, Loaded(k, clusters, cmd, to),
         UNCHANGED <<file, minted>>,
         kind[k] = "add" => clusters =
           [d \in DOMAIN file \cup {target[k]} |->
              IF d = target[k] THEN NewCluster(cmd) ELSE file[d]],
         kind[k] = "remove" =>
           /\ target[k] \in DOMAIN file
           /\ clusters = [d \in DOMAIN file \ {target[k]} |-> file[d]],
         kind[k] = "update" =>
           /\ target[k] \in DOMAIN file /\ Accepts(file[target[k]], cmd)
           /\ clusters = [file EXCEPT ![target[k]] =
                            Changed(file[target[k]], cmd)]
  PROVE  JInv'
<1>1. CallTypes
  BY FilesNow DEF JInv
<1>2. UNCHANGED <<kind, target>>
  BY DEF Loaded
<1>3. /\ \A j \in Call \ {k} :
           /\ pc'[j] = pc[j] /\ arg'[j] = arg[j] /\ copy'[j] = copy[j]
      /\ pc'[k] = to /\ arg'[k] = cmd /\ copy'[k] = clusters
  BY <1>1 DEF Loaded, Goto, CallTypes
<1>4. Adding(k) => target[k] \notin DOMAIN file
  BY DEF JInv, Fresh
<1>5. Adding(k) <=> kind[k] = "add"
  BY DEF Adding, InTurn, Turn
<1>6. Prepared(k)'
  BY <1>2, <1>3, <1>4, <1>5 DEF Prepared
<1> QED
  BY <1>2, <1>3, <1>5, <1>6, FileStays DEF Adding, InTurn, Ready

LEMMA LoadStays ==
  ASSUME JInv, IInv', NEW k \in Call,
         LoadAdd(k) \/ LoadRemove(k) \/ LoadUpdate(k)
  PROVE  JInv'
<1>1. Turn(k) /\ UNCHANGED <<file, minted>>
  BY DEF LoadAdd, LoadRemove, LoadUpdate
<1>2. CASE Refused(k)
  BY <1>1, <1>2, ForgetStays DEF Refused, End
<1>3. CASE LoadAdd(k)
  <2> DEFINE f == [c \in DOMAIN file \cup {target[k]} |->
                     IF c = target[k] THEN NewCluster(arg[k]) ELSE file[c]]
  <2>1. kind[k] = "add" /\ Loaded(k, f, arg[k], "save")
    BY <1>3 DEF LoadAdd
  <2> QED
    BY <1>1, <2>1, LoadedStays
<1>4. CASE LoadRemove(k) /\ ~Refused(k)
  <2> DEFINE f == [c \in DOMAIN file \ {target[k]} |-> file[c]]
  <2>1. /\ kind[k] = "remove" /\ target[k] \in DOMAIN file
        /\ Loaded(k, f, Nothing, "save")
    BY <1>4 DEF LoadRemove
  <2> QED
    BY <1>1, <2>1, LoadedStays
<1>5. CASE LoadUpdate(k) /\ ~Refused(k)
  <2> DEFINE f(cmd) == [file EXCEPT ![target[k]] =
                          Changed(file[target[k]], cmd)]
  <2>1. PICK cmd \in Asked(k) :
          /\ kind[k] = "update" /\ target[k] \in DOMAIN file
          /\ Accepts(file[target[k]], cmd)
          /\ Loaded(k, f(cmd), cmd, "check")
    BY <1>5 DEF LoadUpdate
  <2> QED
    BY <1>1, <2>1, LoadedStays
<1> QED
  BY <1>2, <1>3, <1>4, <1>5

LEMMA CheckStays ==
  ASSUME JInv, IInv', NEW k \in Call, Check(k)
  PROVE  JInv'
<1>1. CallTypes /\ pc[k] = "check" /\ UNCHANGED <<file, minted>>
  BY FilesNow DEF JInv, Check
<1>2. CASE Refused(k)
  BY <1>1, <1>2, ForgetStays DEF Refused, End
<1>3. CASE Goto(k, "save") /\ UNCHANGED <<kind, target, arg, copy>>
  BY <1>1, <1>3, FileStays DEF Adding, InTurn, Ready, Goto, CallTypes
<1> QED
  BY <1>2, <1>3 DEF Check

\* The others are not ready, and the ids they are going to add stay new.
LEMMA SaveStays ==
  ASSUME OneProcess, JInv, IInv', NEW k \in Call, Save(k)
  PROVE  JInv'
<1>1. CallTypes /\ pc[k] = "save" /\ file' = copy[k] /\ UNCHANGED minted
  BY FilesNow DEF JInv, Save
<1>2. \A j \in Call \ {k} :
        pc'[j] = pc[j] /\ kind'[j] = kind[j] /\ target'[j] = target[j]
  BY <1>1 DEF Save, End, Forget, Goto, CallTypes
<1>3. pc'[k] \in {"project", "idle"}
  BY <1>1 DEF Save, End, Forget, Goto, CallTypes
<1>4. \A j \in Call : ~Ready(j)'
  BY <1>1, <1>2, <1>3, OneReady DEF JInv, Ready
<1>5. DOMAIN copy[k] \subseteq
        DOMAIN file \cup (IF Adding(k) THEN {target[k]} ELSE {})
  <2>1. Prepared(k) /\ KindOK(k) /\ kind[k] \in {"add", "remove", "update"}
    BY <1>1 DEF JInv, IInv, KindOK, InTurn, CallTypes, Kind
  <2> QED
    BY <1>1, <2>1 DEF Prepared, Ready, Adding, InTurn
<1>6. \A j \in Call : Adding(j)' => j # k /\ Adding(j) /\ target'[j] = target[j]
  BY <1>2, <1>3 DEF Adding, InTurn
<1>7. Fresh'
  BY <1>1, <1>5, <1>6 DEF JInv, Fresh
<1> QED
  BY <1>4, <1>7 DEF JInv, Prepared

LEMMA UsageStays ==
  ASSUME JInv, IInv', NEW k \in Call, ReadUsage(k) \/ StoreUsage(k)
  PROVE  JInv'
<1>1. CallTypes /\ UNCHANGED <<file, minted>>
  BY FilesNow DEF JInv, ReadUsage, StoreUsage
<1>2. CASE End(k)
  BY <1>1, <1>2, ForgetStays DEF End
<1>3. CASE Goto(k, "store") /\ UNCHANGED <<kind, target, arg, copy>>
  BY <1>1, <1>3, NotReadyStays DEF Goto, CallTypes
<1> QED
  BY <1>2, <1>3 DEF ReadUsage, StoreUsage

LEMMA NextStays ==
  ASSUME OneProcess, JInv, [Next]_vars
  PROVE  JInv'
<1>1. IInv'
  BY NextKeeps DEF JInv
<1>2. CASE UNCHANGED vars
  BY <1>1, <1>2, FileStays DEF vars, Adding, InTurn, Ready
<1>3. ASSUME NEW k \in Call, Step(k)
      PROVE  JInv'
  BY <1>1, <1>3, LookUpNameStays, FindOwnerStays, LoadStays, CheckStays,
     SaveStays, UsageStays DEF Step
<1>4. ASSUME NEW p \in Process, Die(p)
      PROVE  JInv'
  BY <1>1, <1>4, ForgetStays DEF Die
<1> QED
  BY <1>1, <1>2, <1>3, <1>4, RequestStays DEF Next

LEMMA InitStays == Init => JInv
BY InitGood DEF Init, JInv, Fresh, Adding, InTurn, Prepared, Ready, NoClusters

\* The registry is of the same aggregate.
LEMMA SameNew ==
  ASSUME NEW name
  PROVE  Registry!NewCluster(name) = NewCluster(name)
BY DEF NewCluster, NewNode, Registry!NewCluster, Registry!NewNode

LEMMA SameCommands == Registry!Command = Command
BY DEF Command, NodeImage, Registry!Command, Registry!NodeImage

LEMMA SameAccepts ==
  ASSUME NEW c, NEW cmd
  PROVE  Registry!Accepts(c, cmd) <=> Accepts(c, cmd)
BY DEF Accepts, Nodes, Vms, Templates, IdFree, IpFree, Assigned, Referenced,
       HasVm, HostsIp, Registry!Accepts, Registry!Nodes, Registry!Vms,
       Registry!Templates, Registry!IdFree, Registry!IpFree,
       Registry!Assigned, Registry!Referenced, Registry!HasVm,
       Registry!HostsIp

LEMMA SameChanged ==
  ASSUME NEW c, NEW cmd
  PROVE  Registry!Changed(c, cmd) = Changed(c, cmd)
<1>1. \A node : Registry!Replacement(node, cmd) = Replacement(node, cmd)
  BY DEF Replacement, WithState, WithImages, WithVms, Stored,
         Registry!Replacement, Registry!WithState, Registry!WithImages,
         Registry!WithVms, Registry!Stored
<1>2. Registry!ChangedNodes(c, cmd) = ChangedNodes(c, cmd)
  BY <1>1 DEF ChangedNodes, WithServices, Serving, WithVms, Nodes, NewNode,
         Registry!ChangedNodes, Registry!WithServices, Registry!Serving,
         Registry!WithVms, Registry!Nodes, Registry!NewNode
<1>3. Registry!NextVersion(c, cmd) = NextVersion(c, cmd)
  BY DEF NextVersion, Bumps, HostsIp, Vms, Nodes, Registry!NextVersion,
         Registry!Bumps, Registry!HostsIp, Registry!Vms, Registry!Nodes
<1>4. Registry!Connects(c, cmd) = Connects(c, cmd)
  BY DEF Connects, Registry!Connects
<1> QED
  BY <1>2, <1>3, <1>4 DEF Changed, Nodes, Registry!Changed, Registry!Nodes

\* What is written is one command of the registry, the rest are stutters.
LEMMA StepIsCommand ==
  ASSUME JInv, [Next]_vars
  PROVE  [Registry!Next]_file
<1>1. ASSUME NEW k \in Call, Save(k)
      PROVE  Registry!Next
  <2>1. /\ pc[k] = "save" /\ file' = copy[k] /\ Prepared(k) /\ KindOK(k)
        /\ CallTypes
    BY <1>1, FilesNow DEF JInv, IInv, Save
  <2>2. target[k] \in Cluster /\ kind[k] \in {"add", "remove", "update"}
    BY <2>1 DEF KindOK, InTurn, CallTypes, Kind
  <2>3. CASE kind[k] = "add"
    <3>1. arg[k] \in ClusterName
      BY <2>1, <2>3 DEF KindOK, InTurn
    <3>2. Registry!Add(target[k], arg[k])
      BY <2>1, <2>3, SameNew DEF Prepared, Ready, Registry!Add
    <3> QED
      BY <2>2, <3>1, <3>2 DEF Registry!Next
  <2>4. CASE kind[k] = "remove"
    <3>1. Registry!Remove(target[k])
      BY <2>1, <2>4 DEF Prepared, Ready, Registry!Remove
    <3> QED
      BY <2>2, <3>1 DEF Registry!Next
  <2>5. CASE kind[k] = "update"
    <3>1. arg[k] \in Command
      BY <2>1, <2>5 DEF KindOK, InTurn
    <3>2. Registry!Update(target[k], arg[k])
      BY <2>1, <2>5, SameAccepts, SameChanged DEF Prepared, Ready, Registry!Update
    <3> QED
      BY <2>2, <3>1, <3>2, SameCommands DEF Registry!Next
  <2> QED
    BY <2>2, <2>3, <2>4, <2>5
<1>2. ASSUME NEW k \in Call, Step(k), ~Save(k)
      PROVE  UNCHANGED file
  BY <1>2 DEF Step, LookUpName, FindOwner, LoadAdd, LoadRemove, LoadUpdate,
              Check, ReadUsage, StoreUsage
<1>3. ASSUME NEW k \in Call, NEW p \in Process, Request(k, p)
      PROVE  UNCHANGED file
  BY <1>3 DEF Request, RequestUpdate, RequestRemove, RequestAdd,
              RequestProjection, Take
<1>4. ASSUME NEW p \in Process, Die(p)
      PROVE  UNCHANGED file
  BY <1>4 DEF Die
<1>5. CASE UNCHANGED vars
  BY <1>5 DEF vars
<1> QED
  BY <1>1, <1>2, <1>3, <1>4, <1>5 DEF Next

\* Within one process every change of clusters.json is one command, applied
\* to the file as it was: no two commands lose each other's changes.
THEOREM RegistryIsAtomic ==
  ASSUME OneProcess
  PROVE  Spec => ImplementsRegistry
<1>1. Init => Registry!Init
  BY DEF Init, Registry!Init, NoClusters
<1>2. JInv /\ [Next]_vars => JInv'
  BY NextStays
<1>3. JInv /\ [Next]_vars => [Registry!Next]_file
  BY StepIsCommand
<1> QED
  BY <1>1, <1>2, <1>3, InitStays, PTL DEF Spec, ImplementsRegistry, Registry!Spec

-----------------------------------------------------------------------------
(* What the policies of the images have caught up with.  One process: of   *)
(* two, one may write away what the other has announced.                   *)

ImageOf(cmd) == IF cmd.op = "assign" THEN cmd.arg.image ELSE cmd.arg

Touches(cmd, n, image) ==
  cmd.op \in {"assign", "unassign"} /\ n = cmd.node /\ image = ImageOf(cmd)

\* Nodes are remembered, and a node that is new was never there and has no
\* templates.
LEMMA NodesRemembered ==
  ASSUME NEW c, NEW cmd \in Command, Accepts(c, cmd)
  PROVE  LET d == Changed(c, cmd) IN
         /\ Nodes(c) \cup c.retired \subseteq Nodes(d) \cup d.retired
         /\ \A n \in Nodes(d) \ Nodes(c) :
              /\ n \notin c.retired /\ cmd.op = "registerNode"
              /\ \A image : ~Assigned(d, n, image)
<1> DEFINE d == Changed(c, cmd)
<1>1. /\ d.nodes = ChangedNodes(c, cmd)
      /\ d.retired = c.retired \cup (Nodes(c) \ DOMAIN ChangedNodes(c, cmd))
  BY DEF Changed
<1> HIDE DEF d
<1>2. Nodes(c) \cup c.retired \subseteq Nodes(d) \cup d.retired
  BY <1>1 DEF Nodes
<1>3. CASE /\ cmd.op = "registerNode"
           /\ ChangedNodes(c, cmd) = [m \in Nodes(c) \cup {cmd.node} |->
                IF m = cmd.node THEN NewNode ELSE c.nodes[m]]
  <2>1. cmd.node \notin Nodes(c) \cup c.retired
    BY <1>3 DEF Accepts
  <2>2. d.nodes[cmd.node].images = {}
    BY <1>1, <1>3 DEF NewNode
  <2> QED
    BY <1>1, <1>2, <1>3, <2>1, <2>2 DEF Nodes, Assigned, d
<1>4. CASE cmd.op # "registerNode"
  <2> DEFINE N == ChangedNodes(c, cmd)
  <2>1. \A e : DOMAIN [c.nodes EXCEPT ![cmd.node] = e] = Nodes(c)
    BY DEF Nodes
  <2>2. \A ip, more, less : DOMAIN WithServices(c.nodes, ip, more, less) = Nodes(c)
    BY DEF Nodes, WithServices
  <2>4. DOMAIN N \subseteq Nodes(c)
    <3>3. CASE cmd.op \in {"connect", "disconnect", "unregisterNode",
                           "unregisterAllNodes"}
      BY <3>3 DEF ChangedNodes, Nodes
    <3>5. CASE cmd.op \in {"recordService", "forgetService"}
      <4>1. \E ip, more, less : N = WithServices(c.nodes, ip, more, less)
        BY <3>5 DEF ChangedNodes
      <4> QED
        BY <2>2, <4>1
    <3>6. CASE cmd.op \in Replaces
      <4>1. N = [c.nodes EXCEPT ![cmd.node] =
                   Replacement(c.nodes[cmd.node], cmd)]
        BY <3>6, ChangedNodesCases DEF Replaces
      <4> QED
        BY <2>1, <4>1
    <3> HIDE DEF N
    <3> QED
      BY <1>4, <3>3, <3>5, <3>6, ChangedNodesCases
  <2> QED
    BY <1>1, <1>2, <2>4 DEF Nodes, d, N
<1>5. cmd.op # "registerNode" \/
        ChangedNodes(c, cmd) = [m \in Nodes(c) \cup {cmd.node} |->
                                  IF m = cmd.node THEN NewNode ELSE c.nodes[m]]
  BY DEF ChangedNodes
<1> QED
  BY <1>3, <1>4, <1>5

\* The images a node has templates of change by assign and unassign alone.
LEMMA AssignedChanges ==
  ASSUME NEW c, IsCluster(c), NEW cmd \in Command, Accepts(c, cmd),
         NEW n \in Nodes(c), n \in Nodes(Changed(c, cmd)), NEW image
  PROVE  Assigned(Changed(c, cmd), n, image) <=>
           IF Touches(cmd, n, image) THEN cmd.op = "assign"
           ELSE Assigned(c, n, image)
<1> DEFINE d == Changed(c, cmd)  node == c.nodes[cmd.node]
           r == Replacement(node, cmd)
<1>0. d.nodes = ChangedNodes(c, cmd) /\ Nodes(d) = DOMAIN ChangedNodes(c, cmd)
  BY DEF Changed, Nodes
<1> SUFFICES Assigned(d, n, image) <=>
               IF Touches(cmd, n, image) THEN cmd.op = "assign"
               ELSE Assigned(c, n, image)
  OBVIOUS
<1>n. n \in Nodes(d)
  OBVIOUS
<1> HIDE DEF d
<1>1. CASE d.nodes[n].images = c.nodes[n].images /\ ~Touches(cmd, n, image)
  BY <1>1 DEF Assigned
<1>2. CASE /\ cmd.op \in {"connect", "disconnect"}
           /\ ChangedNodes(c, cmd) = c.nodes
  BY <1>0, <1>1, <1>2 DEF Touches
<1>3. CASE /\ cmd.op = "registerNode"
           /\ ChangedNodes(c, cmd) = [m \in Nodes(c) \cup {cmd.node} |->
                IF m = cmd.node THEN NewNode ELSE c.nodes[m]]
  <2>1. cmd.node \notin Nodes(c)
    BY <1>3 DEF Accepts
  <2> QED
    BY <1>0, <1>1, <1>3, <2>1 DEF Touches
<1>4. CASE /\ cmd.op = "unregisterNode"
           /\ ChangedNodes(c, cmd) = [m \in Nodes(c) \ {cmd.node} |-> c.nodes[m]]
  BY <1>0, <1>n, <1>1, <1>4 DEF Touches
<1>5. CASE /\ cmd.op = "unregisterAllNodes"
           /\ ChangedNodes(c, cmd) = [m \in {} |-> NewNode]
  BY <1>0, <1>n, <1>5
<1>6. CASE /\ cmd.op = "recordService"
           /\ ChangedNodes(c, cmd) =
                WithServices(c.nodes, cmd.arg.ip, {cmd.arg.service}, {})
  BY <1>0, <1>1, <1>6 DEF Touches, WithServices, WithVms, Nodes
<1>7. CASE /\ cmd.op = "forgetService"
           /\ ChangedNodes(c, cmd) =
                WithServices(c.nodes, cmd.arg.ip, {}, {cmd.arg.service})
  BY <1>0, <1>1, <1>7 DEF Touches, WithServices, WithVms, Nodes
<1>8. CASE /\ cmd.op \in Replaces
           /\ ChangedNodes(c, cmd) = [c.nodes EXCEPT ![cmd.node] = r]
  <2>1. cmd.node \in Nodes(c)
    BY <1>8 DEF Accepts, Replaces
  <2>2. d.nodes[cmd.node] = r /\ \A m \in Nodes(c) : m # cmd.node => d.nodes[m] = c.nodes[m]
    BY <1>0, <1>8, <2>1 DEF Nodes
  <2>3. CASE n # cmd.node
    BY <1>1, <2>2, <2>3 DEF Touches
  <2>4. CASE n = cmd.node /\ cmd.op \in Replaces \ {"assign", "unassign", "reassign"}
    <3>1. r.images = node.images
      BY <2>4 DEF Replacement, WithState, WithVms, Replaces
    <3> QED
      BY <1>1, <2>2, <2>4, <3>1 DEF Touches
  <2>5. CASE n = cmd.node /\ cmd.op = "assign"
    <3>1. r.images = node.images \cup {cmd.arg}
      BY <2>5 DEF Replacement, WithImages
    <3> QED
      BY <2>2, <2>5, <3>1 DEF Touches, ImageOf, Assigned
  <2>6. CASE n = cmd.node /\ cmd.op = "unassign"
    <3>1. r.images = {t \in node.images : t.image # cmd.arg}
      BY <2>6 DEF Replacement, WithImages
    <3> QED
      BY <2>2, <2>6, <3>1 DEF Touches, ImageOf, Assigned
  <2>7. CASE n = cmd.node /\ cmd.op = "reassign"
    <3>1. r.images = {IF t.image = cmd.arg.image THEN cmd.arg ELSE t :
                        t \in node.images}
      BY <2>7 DEF Replacement, WithImages
    <3>2. ~Touches(cmd, n, image)
      BY <2>7 DEF Touches
    <3> QED
      BY <2>2, <2>7, <3>1, <3>2 DEF Assigned
  <2> QED
    BY <1>8, <2>3, <2>4, <2>5, <2>6, <2>7
<1> QED
  BY <1>2, <1>3, <1>4, <1>5, <1>6, <1>7, <1>8, ChangedNodesCases

\* The slot s names a node that is or was in its cluster, if that is
\* registered, and a cluster that is not going to be registered any more.
Known(s) ==
  /\ s.cluster \in minted
  /\ s.cluster \in DOMAIN file =>
       s.node \in Nodes(file[s.cluster]) \cup file[s.cluster].retired
  /\ \A k \in Call : Adding(k) => target[k] # s.cluster

AllKnown ==
  /\ \A s \in usage : Known(s)
  /\ \A k \in Projecting : Known(SlotOf(k))
  /\ \A k \in Call : \A s \in rows[k] : Known(s)

Live(s) == s.cluster \in DOMAIN file /\ s.node \in Nodes(file[s.cluster])
Used(s) == Assigned(file[s.cluster], s.node, s.image)

\* A usage of a node that is there is a template of it, but for the one slot
\* whose event is on its way: there the template is ahead.
Following ==
  ~mixed =>
    /\ \A j, k \in Projecting : j = k
    /\ \A k \in Call : pc[k] = "store" => rows[k] = usage
    /\ \A s \in Slot : Live(s) =>
         /\ (\A k \in Projecting : SlotOf(k) # s) => (s \in usage <=> Used(s))
         /\ \A k \in Projecting :
              SlotOf(k) = s => (Used(s) <=> arg[k].op = "assign")

UInv == JInv /\ AllKnown /\ Following

\* A step in which no call begins to add a cluster whose id was ever given.
NoNewAdds ==
  \A j \in Call : Adding(j)' =>
    (Adding(j) /\ target'[j] = target[j]) \/ target'[j] \notin minted

LEMMA AddsAreNew ==
  ASSUME JInv, [Next]_vars
  PROVE  NoNewAdds /\ minted \subseteq minted'
<1>1. CallTypes
  BY FilesNow DEF JInv
<1>2. ASSUME NEW K, Forget(K)
      PROVE  NoNewAdds
  BY <1>2 DEF Forget, NoNewAdds, Adding, InTurn
<1>3. ASSUME NEW k \in Call, NEW p \in Process, Request(k, p)
      PROVE  NoNewAdds /\ UNCHANGED minted
  BY <1>1, <1>3 DEF Request, RequestUpdate, RequestRemove, RequestAdd,
       RequestProjection, Take, Goto, CallTypes, NoNewAdds, Adding, InTurn
<1>4. ASSUME NEW k \in Call, LookUpName(k)
      PROVE  NoNewAdds /\ minted \subseteq minted'
  <2>1. CASE End(k) /\ UNCHANGED minted
    BY <1>2, <2>1 DEF End
  <2>2. CASE \E c \in Cluster \ minted :
               /\ minted' = minted \cup {c}
               /\ target' = [target EXCEPT ![k] = c]
               /\ Goto(k, "queued") /\ UNCHANGED kind
    BY <1>1, <2>2 DEF Goto, CallTypes, NoNewAdds, Adding, InTurn
  <2> QED
    BY <1>4, <2>1, <2>2 DEF LookUpName
<1>5. ASSUME NEW k \in Call, FindOwner(k)
      PROVE  NoNewAdds /\ UNCHANGED minted
  <2>1. kind[k] = "update"
    BY <1>5 DEF FindOwner, JInv, IInv, KindOK
  <2>2. CASE End(k)
    BY <1>2, <1>5, <2>2 DEF End, FindOwner
  <2>3. CASE \E c : /\ target' = [target EXCEPT ![k] = c]
                    /\ Goto(k, "queued") /\ UNCHANGED kind
    BY <1>1, <1>5, <2>1, <2>3 DEF FindOwner, Goto, CallTypes, NoNewAdds,
         Adding, InTurn
  <2> QED
    BY <1>5, <2>2, <2>3 DEF FindOwner
<1>6. ASSUME NEW k \in Call,
             LoadAdd(k) \/ LoadRemove(k) \/ LoadUpdate(k) \/ Check(k)
      PROVE  NoNewAdds /\ UNCHANGED minted
  <2>1. Refused(k) \/ \E to : Goto(k, to) /\ UNCHANGED <<kind, target>>
    BY <1>6 DEF LoadAdd, LoadRemove, LoadUpdate, Check, Loaded
  <2>2. pc[k] \in {"queued", "check"}
    BY <1>6 DEF LoadAdd, LoadRemove, LoadUpdate, Check, Turn
  <2>3. CASE Refused(k)
    BY <1>2, <1>6, <2>3 DEF Refused, End, LoadAdd, LoadRemove, LoadUpdate, Check
  <2>4. CASE \E to : Goto(k, to) /\ UNCHANGED <<kind, target>>
    BY <1>1, <1>6, <2>2, <2>4 DEF LoadAdd, LoadRemove, LoadUpdate, Check,
         Goto, CallTypes, NoNewAdds, Adding, InTurn
  <2> QED
    BY <2>1, <2>3, <2>4
<1>7. ASSUME NEW k \in Call, Save(k)
      PROVE  NoNewAdds /\ UNCHANGED minted
  <2>1. CASE End(k)
    BY <1>2, <1>7, <2>1 DEF End, Save
  <2>2. CASE Goto(k, "project") /\ UNCHANGED <<kind, target>>
    BY <1>1, <1>7, <2>2 DEF Save, Goto, CallTypes, NoNewAdds, Adding, InTurn
  <2> QED
    BY <1>7, <2>1, <2>2 DEF Save
<1>8. ASSUME NEW k \in Call, ReadUsage(k) \/ StoreUsage(k)
      PROVE  NoNewAdds /\ UNCHANGED minted
  <2>1. CASE End(k)
    BY <1>2, <1>8, <2>1 DEF End, ReadUsage, StoreUsage
  <2>2. CASE Goto(k, "store") /\ UNCHANGED <<kind, target>>
    BY <1>1, <1>8, <2>2 DEF ReadUsage, StoreUsage, Goto, CallTypes,
         NoNewAdds, Adding, InTurn
  <2> QED
    BY <1>8, <2>1, <2>2 DEF ReadUsage, StoreUsage
<1>9. ASSUME NEW p \in Process, Die(p)
      PROVE  NoNewAdds /\ UNCHANGED minted
  BY <1>2, <1>9 DEF Die
<1>10. CASE UNCHANGED vars
  BY <1>10 DEF vars, NoNewAdds, Adding, InTurn
<1> QED
  BY <1>3, <1>4, <1>5, <1>6, <1>7, <1>8, <1>9, <1>10 DEF Next, Step

\* What is written: the clusters of the others as they were.
LEMMA WrittenFile ==
  ASSUME JInv, NEW k \in Call, Save(k)
  PROVE  /\ \A d \in DOMAIN file' : d # target[k] =>
              d \in DOMAIN file /\ file'[d] = file[d]
         /\ target[k] \in DOMAIN file' =>
              \/ /\ Adding(k) /\ Nodes(file'[target[k]]) = {}
              \/ /\ kind[k] = "update" /\ arg[k] \in Command
                 /\ target[k] \in DOMAIN file
                 /\ IsCluster(file[target[k]])
                 /\ Accepts(file[target[k]], arg[k])
                 /\ file'[target[k]] = Changed(file[target[k]], arg[k])
         /\ kind[k] = "update" =>
              target[k] \in DOMAIN file /\ target[k] \in DOMAIN file'
<1>1. /\ pc[k] = "save" /\ file' = copy[k] /\ Prepared(k) /\ KindOK(k)
      /\ CallTypes /\ GoodFile(file)
  BY FilesNow DEF JInv, IInv, Save
<1>2. kind[k] \in {"add", "remove", "update"}
  BY <1>1 DEF KindOK, InTurn, CallTypes, Kind
<1>3. CASE kind[k] = "add"
  BY <1>1, <1>3 DEF Prepared, Ready, Adding, InTurn, NewCluster, Nodes
<1>4. CASE kind[k] = "remove"
  BY <1>1, <1>4 DEF Prepared, Ready
<1>5. CASE kind[k] = "update"
  <2>1. arg[k] \in Command /\ target[k] \in DOMAIN file
    BY <1>1, <1>5 DEF KindOK, Prepared, Ready
  <2> QED
    BY <1>1, <1>5, <2>1 DEF Prepared, Ready, GoodFile, IsFile
<1> QED
  BY <1>2, <1>3, <1>4, <1>5

\* Only Save writes the file.
LEMMA OnlySaveWrites ==
  ASSUME [Next]_vars, file' # file
  PROVE  \E k \in Call : Save(k)
BY DEF Next, Step, LookUpName, FindOwner, LoadAdd, LoadRemove, LoadUpdate,
       Check, ReadUsage, StoreUsage, Request, RequestUpdate, RequestRemove,
       RequestAdd, RequestProjection, Take, Die, vars

\* What is known stays known.
LEMMA KnownStays ==
  ASSUME JInv, [Next]_vars, NEW s, Known(s)
  PROVE  Known(s)'
<1>1. NoNewAdds /\ minted \subseteq minted'
  BY AddsAreNew
<1>2. s.cluster \in minted' /\ \A k \in Call : Adding(k)' => target'[k] # s.cluster
  BY <1>1 DEF NoNewAdds, Known
<1>3. CASE file' = file
  BY <1>2, <1>3 DEF Known
<1>4. CASE file' # file
  <2>1. PICK k \in Call : Save(k)
    BY <1>4, OnlySaveWrites
  <2>2. CASE s.cluster = target[k] /\ s.cluster \in DOMAIN file'
    <3>1. /\ arg[k] \in Command
          /\ target[k] \in DOMAIN file
          /\ Accepts(file[target[k]], arg[k])
          /\ file'[target[k]] = Changed(file[target[k]], arg[k])
      BY <2>1, <2>2, WrittenFile DEF Known
    <3>2. s.node \in Nodes(file'[s.cluster]) \cup file'[s.cluster].retired
      BY <2>2, <3>1, NodesRemembered DEF Known
    <3> QED
      BY <1>2, <3>2 DEF Known
  <2>3. CASE s.cluster # target[k] \/ s.cluster \notin DOMAIN file'
    BY <1>2, <2>1, <2>3, WrittenFile DEF Known
  <2> QED
    BY <2>2, <2>3
<1> QED
  BY <1>3, <1>4

\* The calls K are in a projection as they were.
Undisturbed(K) ==
  \A k \in K : /\ pc'[k] = pc[k] /\ target'[k] = target[k]
               /\ arg'[k] = arg[k] /\ rows'[k] = rows[k]

RowsStay == \A k \in Call : rows'[k] \subseteq rows[k]

\* No file is written and no projection begins, goes on or ends.
Quiet ==
  /\ UNCHANGED <<file, usage, mixed>>
  /\ Projecting' = Projecting /\ Undisturbed(Projecting) /\ RowsStay

CutShort ==
  /\ UNCHANGED <<file, usage>> /\ mixed' /\ RowsStay
  /\ Projecting' \subseteq Projecting /\ Undisturbed(Projecting')

\* Calls that end take their projections with them and leave the others.
LEMMA ForgetProjections ==
  ASSUME CallTypes, NEW K, Forget(K)
  PROVE  /\ Projecting' = Projecting \ K /\ Undisturbed(Projecting')
         /\ RowsStay
BY DEF Forget, CallTypes, Projecting, Undisturbed, RowsStay

\* A call that goes on and is in no projection disturbs none.
LEMMA GoneOnQuietly ==
  ASSUME CallTypes, NEW k \in Call, k \notin Projecting,
         UNCHANGED <<file, usage, mixed, rows>>,
         \A j \in Call \ {k} : /\ pc'[j] = pc[j] /\ target'[j] = target[j]
                               /\ arg'[j] = arg[j],
         pc'[k] \notin {"project", "store"}
  PROVE  Quiet
BY DEF Quiet, Projecting, Undisturbed, RowsStay, CallTypes

LEMMA MostStepsAreQuiet ==
  ASSUME JInv, [Next]_vars
  PROVE  \/ Quiet
         \/ CutShort
         \/ \E k \in Call : Save(k) \/ ReadUsage(k) \/ StoreUsage(k)
<1>1. CallTypes
  BY FilesNow DEF JInv
<1>2. ASSUME NEW k \in Call, k \notin Projecting, End(k),
             UNCHANGED <<file, usage, mixed>>
      PROVE  Quiet
  <2>1. Projecting \ {k} = Projecting
    BY <1>2
  <2> QED
    BY <1>1, <1>2, <2>1, ForgetProjections DEF End, Quiet
<1>3. ASSUME NEW k \in Call, NEW p \in Process, Request(k, p)
      PROVE  Quiet
  <2>1. \E what, c, a : \E to \in {"exists", "owner", "queued"} :
          Take(k, p, what, c, a, to)
    BY <1>3 DEF Request, RequestUpdate, RequestRemove, RequestAdd,
         RequestProjection
  <2>2. /\ pc[k] = "idle" /\ UNCHANGED <<file, usage, mixed, rows>>
        /\ pc'[k] \in {"exists", "owner", "queued"}
        /\ \A j \in Call \ {k} : /\ pc'[j] = pc[j] /\ target'[j] = target[j]
                                 /\ arg'[j] = arg[j]
    BY <1>1, <2>1 DEF Take, Goto, CallTypes
  <2> QED
    BY <1>1, <2>2, GoneOnQuietly DEF Projecting
<1>4. ASSUME NEW k \in Call, LookUpName(k) \/ FindOwner(k)
      PROVE  Quiet
  <2>1. k \notin Projecting /\ UNCHANGED <<file, usage, mixed>>
    BY <1>4 DEF LookUpName, FindOwner, Projecting
  <2>2. CASE \E c : /\ target' = [target EXCEPT ![k] = c]
                    /\ Goto(k, "queued") /\ UNCHANGED <<arg, rows>>
    <3>1. /\ pc'[k] = "queued"
          /\ \A j \in Call \ {k} : /\ pc'[j] = pc[j] /\ target'[j] = target[j]
                                   /\ arg'[j] = arg[j]
      BY <1>1, <2>2 DEF Goto, CallTypes
    <3> QED
      BY <1>1, <2>1, <2>2, <3>1, GoneOnQuietly
  <2> QED
    BY <1>2, <1>4, <2>1, <2>2 DEF LookUpName, FindOwner
<1>5. ASSUME NEW k \in Call,
             LoadAdd(k) \/ LoadRemove(k) \/ LoadUpdate(k) \/ Check(k)
      PROVE  Quiet
  <2>1. k \notin Projecting /\ UNCHANGED <<file, usage, mixed>>
    BY <1>5 DEF LoadAdd, LoadRemove, LoadUpdate, Check, Turn, Projecting
  <2>2. \/ Refused(k)
        \/ \E to \in {"check", "save"} : \E clusters, cmd :
             Loaded(k, clusters, cmd, to)
        \/ Goto(k, "save") /\ UNCHANGED <<target, arg, rows>>
    BY <1>5 DEF LoadAdd, LoadRemove, LoadUpdate, Check
  <2>3. CASE Refused(k)
    BY <1>2, <2>1, <2>3 DEF Refused
  <2>4. CASE \E to \in {"check", "save"} : \E clusters, cmd :
               Loaded(k, clusters, cmd, to)
    <3>1. /\ pc'[k] \in {"check", "save"} /\ UNCHANGED rows
          /\ \A j \in Call \ {k} : /\ pc'[j] = pc[j] /\ target'[j] = target[j]
                                   /\ arg'[j] = arg[j]
      BY <1>1, <2>4 DEF Loaded, Goto, CallTypes
    <3> QED
      BY <1>1, <2>1, <3>1, GoneOnQuietly
  <2>5. CASE Goto(k, "save") /\ UNCHANGED <<target, arg, rows>>
    BY <1>1, <2>1, <2>5, GoneOnQuietly DEF Goto, CallTypes
  <2> QED
    BY <2>2, <2>3, <2>4, <2>5
<1>6. ASSUME NEW p \in Process, Die(p)
      PROVE  Quiet \/ CutShort
  <2> DEFINE K == {k \in Call : proc[k] = p}
  <2>1. /\ Forget(K) /\ UNCHANGED <<file, usage>>
        /\ mixed' = (mixed \/ \E k \in Projecting : proc[k] = p)
    BY <1>6 DEF Die
  <2>2. /\ Projecting' = Projecting \ K /\ Undisturbed(Projecting')
        /\ RowsStay
    BY <1>1, <2>1, ForgetProjections
  <2>3. CASE \E k \in Projecting : proc[k] = p
    BY <2>1, <2>2, <2>3 DEF CutShort
  <2>4. CASE ~\E k \in Projecting : proc[k] = p
    <3>1. Projecting' = Projecting
      BY <2>2, <2>4
    <3>2. mixed \in BOOLEAN
      BY FilesNow DEF JInv
    <3> QED
      BY <2>1, <2>2, <2>4, <3>1, <3>2 DEF Quiet
  <2> QED
    BY <2>3, <2>4
<1>7. CASE UNCHANGED vars
  BY <1>7 DEF vars, Quiet, Projecting, Undisturbed, RowsStay
<1> QED
  BY <1>3, <1>4, <1>5, <1>6, <1>7 DEF Next, Step

\* Saving starts the projection of what it announces.
LEMMA SaveProjects ==
  ASSUME JInv, NEW k \in Call, Save(k)
  PROVE  /\ UNCHANGED usage /\ RowsStay /\ k \notin Projecting
         /\ Undisturbed(Projecting)
         /\ Announced(k) =>
              /\ Projecting' = Projecting \cup {k}
              /\ pc'[k] = "project" /\ target'[k] = target[k] /\ arg'[k] = arg[k]
              /\ ~mixed' => ~mixed /\ Projecting = {}
         /\ ~Announced(k) => Projecting' = Projecting /\ mixed' = mixed
<1>1. CallTypes /\ pc[k] = "save" /\ UNCHANGED usage /\ k \notin Projecting
  BY FilesNow DEF JInv, Save, Projecting
<1>2. CASE Announced(k)
  BY <1>1, <1>2 DEF Save, Goto, CallTypes, Projecting, Undisturbed, RowsStay
<1>3. CASE ~Announced(k)
  <2>1. End(k) /\ mixed' = mixed
    BY <1>3 DEF Save
  <2>2. Projecting \ {k} = Projecting
    BY <1>1
  <2> QED
    BY <1>1, <1>3, <2>1, <2>2, ForgetProjections DEF End
<1> QED
  BY <1>2, <1>3

\* A slot announced is one of a node that is there.
LEMMA AnnouncedKnown ==
  ASSUME JInv, NEW k \in Call, Save(k), Announced(k)
  PROVE  SlotOf(k) \in Slot /\ Known(SlotOf(k)) /\ Live(SlotOf(k))
<1>1. /\ KindOK(k) /\ pc[k] = "save" /\ kind[k] = "update"
      /\ arg[k].op \in {"assign", "unassign"} /\ Prepared(k) /\ Fresh
  BY DEF JInv, IInv, Save, Announced
<1>2. /\ arg[k] \in Command /\ target[k] \in Cluster
      /\ target[k] \in DOMAIN file /\ Accepts(file[target[k]], arg[k])
  BY <1>1 DEF KindOK, InTurn, Prepared, Ready
<1>3. arg[k].node \in Nodes(file[target[k]])
  BY <1>1, <1>2 DEF Accepts
<1>4. SlotOf(k).cluster = target[k] /\ SlotOf(k).node = arg[k].node
  BY DEF SlotOf
<1>5. SlotOf(k) \in Slot
  <2>1. CASE arg[k].op = "assign"
    BY <1>2, <2>1 DEF SlotOf, Slot, Command, NodeImage
  <2>2. CASE arg[k].op = "unassign"
    BY <1>2, <2>2 DEF SlotOf, Slot, Command
  <2> QED
    BY <1>1, <2>1, <2>2
<1>6. Known(SlotOf(k))
  BY <1>1, <1>2, <1>3, <1>4 DEF Known, Fresh
<1> QED
  BY <1>2, <1>3, <1>4, <1>5, <1>6 DEF Live

\* What reading the usages does to the projection k.
LEMMA ReadingDoes ==
  ASSUME JInv, NEW k \in Call, ReadUsage(k)
  PROVE  /\ UNCHANGED <<file, usage, mixed>> /\ k \in Projecting
         /\ Undisturbed(Projecting' \ {k})
         /\ \A j \in Call : rows'[j] \subseteq rows[j] \cup usage
         /\ \/ /\ Projecting' = Projecting \ {k}
               /\ arg[k].op = "unassign" /\ SlotOf(k) \notin usage
            \/ /\ Projecting' = Projecting
               /\ pc'[k] = "store" /\ rows'[k] = usage
               /\ target'[k] = target[k] /\ arg'[k] = arg[k]
<1>1. CallTypes /\ pc[k] = "project" /\ k \in Projecting
  BY FilesNow DEF JInv, ReadUsage, Projecting
<1>2. CASE End(k)
  <2>1. /\ Projecting' = Projecting \ {k} /\ Undisturbed(Projecting')
        /\ RowsStay
    BY <1>1, <1>2, ForgetProjections DEF End
  <2>2. pc'[k] = "idle"
    BY <1>2 DEF End, Forget
  <2>3. arg[k].op = "unassign" /\ SlotOf(k) \notin usage
    BY <2>2, <1>1 DEF ReadUsage, Goto, CallTypes
  <2> QED
    BY <1>1, <2>1, <2>3 DEF ReadUsage, RowsStay, Undisturbed
<1>3. CASE /\ rows' = [rows EXCEPT ![k] = usage] /\ Goto(k, "store")
           /\ UNCHANGED <<target, arg>>
  <2>1. \A j \in Call \ {k} : pc'[j] = pc[j] /\ rows'[j] = rows[j]
    BY <1>1, <1>3 DEF Goto, CallTypes
  <2>2. pc'[k] = "store" /\ rows'[k] = usage
    BY <1>1, <1>3 DEF Goto, CallTypes
  <2>3. Projecting' = Projecting
    BY <1>1, <2>1, <2>2 DEF Projecting
  <2> QED
    BY <1>1, <1>3, <2>1, <2>2, <2>3 DEF ReadUsage, Undisturbed, Projecting
<1> QED
  BY <1>2, <1>3 DEF ReadUsage

\* What writing them does.
LEMMA StoringDoes ==
  ASSUME JInv, NEW k \in Call, StoreUsage(k)
  PROVE  /\ UNCHANGED <<file, mixed>> /\ k \in Projecting /\ pc[k] = "store"
         /\ usage' = IF arg[k].op = "assign" THEN rows[k] \cup {SlotOf(k)}
                     ELSE rows[k] \ {SlotOf(k)}
         /\ Projecting' = Projecting \ {k} /\ Undisturbed(Projecting')
         /\ RowsStay
<1>1. CallTypes
  BY FilesNow DEF JInv
<1> QED
  BY <1>1, ForgetProjections DEF StoreUsage, End, Projecting

\* Every slot that is about to be used was known or is announced.
LEMMA KnownNext ==
  ASSUME UInv, [Next]_vars
  PROVE  AllKnown'
<1>1. ASSUME NEW s, Known(s)
      PROVE  Known(s)'
  BY <1>1, KnownStays DEF UInv
<1>2. \A s : Known(s) => Known(s)'
  BY <1>1
<1>3. ASSUME usage' = usage, RowsStay, Projecting' \subseteq Projecting,
             Undisturbed(Projecting')
      PROVE  AllKnown'
  <2>1. \A k \in Projecting' : SlotOf(k)' = SlotOf(k) /\ Known(SlotOf(k))
    BY <1>3 DEF Undisturbed, SlotOf, UInv, AllKnown
  <2>2. \A k \in Projecting' : Known(SlotOf(k))'
    BY <1>2, <2>1 DEF Known
  <2> QED
    BY <1>2, <1>3, <2>2 DEF UInv, AllKnown, RowsStay
<1>4. CASE Quiet \/ CutShort
  <2>1. /\ usage' = usage /\ RowsStay /\ Projecting' \subseteq Projecting
        /\ Undisturbed(Projecting')
    BY <1>4 DEF Quiet, CutShort
  <2> QED
    BY <1>3, <2>1
<1>5. ASSUME NEW k \in Call, Save(k)
      PROVE  AllKnown'
  <2>1. CASE Announced(k)
    <3>1. SlotOf(k)' = SlotOf(k)
      BY <1>5, <2>1, SaveProjects DEF UInv, SlotOf
    <3>2. Known(SlotOf(k))
      BY <1>5, <2>1, AnnouncedKnown DEF UInv
    <3>4. \A j \in Projecting : SlotOf(j)' = SlotOf(j)
      BY <1>5, SaveProjects DEF UInv, Undisturbed, SlotOf
    <3>5. \A j \in Projecting' : j = k \/ j \in Projecting
      BY <1>5, <2>1, SaveProjects DEF UInv
    <3>6. \A j \in Projecting' : SlotOf(j)' = SlotOf(j) /\ Known(SlotOf(j))
      BY <3>1, <3>2, <3>4, <3>5 DEF UInv, AllKnown
    <3>7. \A j \in Projecting' : Known(SlotOf(j))'
      BY <1>2, <3>6 DEF Known
    <3> QED
      BY <1>2, <1>5, <3>7, SaveProjects DEF UInv, AllKnown, RowsStay
  <2>2. CASE ~Announced(k)
    <3>1. /\ usage' = usage /\ RowsStay /\ Projecting' \subseteq Projecting
          /\ Undisturbed(Projecting')
      BY <1>5, <2>2, SaveProjects DEF UInv
    <3> QED
      BY <1>3, <3>1
  <2> QED
    BY <2>1, <2>2
<1>6. ASSUME NEW k \in Call, ReadUsage(k)
      PROVE  AllKnown'
  <2>1. \A j \in Projecting' : j \in Projecting /\ SlotOf(j)' = SlotOf(j)
    BY <1>6, ReadingDoes DEF UInv, Undisturbed, SlotOf
  <2>2. \A j \in Projecting' : Known(SlotOf(j))'
    BY <1>2, <2>1 DEF UInv, AllKnown, Known
  <2> QED
    BY <1>2, <1>6, <2>2, ReadingDoes DEF UInv, AllKnown
<1>7. ASSUME NEW k \in Call, StoreUsage(k)
      PROVE  AllKnown'
  <2>1. \A j \in Projecting' : j \in Projecting /\ SlotOf(j)' = SlotOf(j)
    BY <1>7, StoringDoes DEF UInv, Undisturbed, SlotOf
  <2>2. \A j \in Projecting' : Known(SlotOf(j))'
    BY <1>2, <2>1 DEF UInv, AllKnown, Known
  <2>3. \A s \in usage' : Known(s)
    BY <1>7, StoringDoes DEF UInv, AllKnown
  <2> QED
    BY <1>2, <1>7, <2>2, <2>3, StoringDoes DEF UInv, AllKnown, RowsStay
<1> QED
  BY <1>4, <1>5, <1>6, <1>7, MostStepsAreQuiet DEF UInv

\* A change that is not about the templates of a slot leaves it used or not.
LEMMA UsedAfterSave ==
  ASSUME UInv, NEW k \in Call, Save(k), NEW s \in Slot, Live(s)'
  PROVE  \/ /\ ~Live(s) /\ ~Known(s) /\ ~Used(s)' /\ ~Announced(k)
         \/ /\ Live(s) /\ Announced(k) /\ s = SlotOf(k)
            /\ Used(s)' <=> arg[k].op = "assign"
         \/ /\ Live(s) /\ ~(Announced(k) /\ s = SlotOf(k))
            /\ Used(s)' <=> Used(s)
<1> DEFINE c == target[k]
<1>1. JInv
  BY DEF UInv
<1>2. CASE s.cluster # c
  <2>1. Live(s) /\ (Used(s)' <=> Used(s))
    BY <1>1, <1>2, WrittenFile DEF Live, Used, Assigned
  <2>2. s # SlotOf(k)
    BY <1>2 DEF SlotOf
  <2> QED
    BY <2>1, <2>2
<1>3. CASE s.cluster = c
  <2>1. /\ kind[k] = "update" /\ arg[k] \in Command
        /\ c \in DOMAIN file /\ IsCluster(file[c])
        /\ Accepts(file[c], arg[k])
        /\ file'[c] = Changed(file[c], arg[k])
    BY <1>1, <1>3, WrittenFile DEF Live
  <2>2. s.node \in Nodes(Changed(file[c], arg[k]))
    BY <1>3, <2>1 DEF Live
  <2>3. Used(s)' <=> Assigned(Changed(file[c], arg[k]), s.node, s.image)
    BY <1>3, <2>1 DEF Used, Assigned
  <2>4. CASE s.node \notin Nodes(file[c])
    <3>1. /\ s.node \notin file[c].retired /\ arg[k].op = "registerNode"
          /\ ~Assigned(Changed(file[c], arg[k]), s.node, s.image)
      BY <2>1, <2>2, <2>4, NodesRemembered
    <3> QED
      BY <1>3, <2>1, <2>3, <2>4, <3>1 DEF Live, Known, Announced
  <2>5. CASE s.node \in Nodes(file[c])
    <3>1. Live(s) /\ (Used(s) <=> Assigned(file[c], s.node, s.image))
      BY <1>3, <2>1, <2>5 DEF Live, Used
    <3>2. Announced(k) /\ s = SlotOf(k) <=> Touches(arg[k], s.node, s.image)
      <4>1. s.cluster = c /\ s = [image |-> s.image, cluster |-> s.cluster, node |-> s.node]
        BY <1>3 DEF Slot
      <4> QED
        BY <2>1, <4>1 DEF Announced, SlotOf, Touches, ImageOf
    <3>3. Assigned(Changed(file[c], arg[k]), s.node, s.image) <=>
            IF Touches(arg[k], s.node, s.image) THEN arg[k].op = "assign"
            ELSE Assigned(file[c], s.node, s.image)
      BY <2>1, <2>2, <2>5, AssignedChanges
    <3> QED
      BY <2>3, <3>1, <3>2, <3>3
  <2> QED
    BY <2>4, <2>5
<1> QED
  BY <1>2, <1>3

LEMMA FollowingSave ==
  ASSUME UInv, NEW k \in Call, Save(k)
  PROVE  Following'
<1>1. /\ UNCHANGED usage /\ RowsStay /\ k \notin Projecting
      /\ Undisturbed(Projecting)
  BY SaveProjects DEF UInv
<1>2. \A j \in Projecting : SlotOf(j)' = SlotOf(j) /\ arg'[j] = arg[j]
  BY <1>1 DEF Undisturbed, SlotOf
<1>3. CASE Announced(k)
  <2> SUFFICES ASSUME ~mixed'
               PROVE  Following'
    BY DEF Following
  <2>1. /\ ~mixed /\ Projecting = {} /\ Projecting' = {k}
        /\ pc'[k] = "project" /\ target'[k] = target[k] /\ arg'[k] = arg[k]
    BY <1>3, SaveProjects DEF UInv
  <2>2. SlotOf(k)' = SlotOf(k)
    BY <2>1 DEF SlotOf
  <2>3. \A j \in Call : pc'[j] # "store"
    BY <2>1 DEF Projecting
  <2>4. ASSUME NEW s \in Slot, Live(s)'
        PROVE  /\ (\A j \in Projecting' : SlotOf(j)' # s) =>
                    (s \in usage' <=> Used(s)')
               /\ \A j \in Projecting' :
                    SlotOf(j)' = s => (Used(s)' <=> arg'[j].op = "assign")
    <3>1. /\ Live(s)
          /\ s = SlotOf(k) => (Used(s)' <=> arg[k].op = "assign")
          /\ s # SlotOf(k) => (Used(s)' <=> Used(s))
      BY <1>3, <2>4, UsedAfterSave
    <3>2. s \in usage <=> Used(s)
      BY <2>1, <3>1 DEF UInv, Following
    <3> QED
      BY <1>1, <2>1, <2>2, <3>1, <3>2
  <2> QED
    BY <2>1, <2>3, <2>4 DEF Following
<1>4. CASE ~Announced(k)
  <2> SUFFICES ASSUME ~mixed'
               PROVE  Following'
    BY DEF Following
  <2>1. ~mixed /\ Projecting' = Projecting
    BY <1>4, SaveProjects DEF UInv
  <2>2. /\ \A i, j \in Projecting' : i = j
        /\ \A j \in Call : pc'[j] = "store" => rows'[j] = usage'
    BY <1>1, <2>1 DEF UInv, Following, Undisturbed, Projecting
  <2>3. ASSUME NEW s \in Slot, Live(s)'
        PROVE  /\ (\A j \in Projecting' : SlotOf(j)' # s) =>
                    (s \in usage' <=> Used(s)')
               /\ \A j \in Projecting' :
                    SlotOf(j)' = s => (Used(s)' <=> arg'[j].op = "assign")
    <3>1. CASE Live(s) /\ (Used(s)' <=> Used(s))
      BY <1>1, <1>2, <2>1, <3>1 DEF UInv, Following
    <3>2. CASE ~Known(s) /\ ~Used(s)'
      <4>1. s \notin usage /\ \A j \in Projecting : SlotOf(j) # s
        BY <3>2 DEF UInv, AllKnown
      <4> QED
        BY <1>1, <1>2, <2>1, <3>2, <4>1
    <3> QED
      BY <1>4, <2>3, <3>1, <3>2, UsedAfterSave
  <2> QED
    BY <2>2, <2>3 DEF Following
<1> QED
  BY <1>3, <1>4

\* Templates and usages are the same as before.
LEMMA FollowingRead ==
  ASSUME UInv, NEW k \in Call, ReadUsage(k)
  PROVE  Following'
<1>1. /\ UNCHANGED <<file, usage, mixed>> /\ k \in Projecting
      /\ Undisturbed(Projecting' \ {k})
      /\ \/ /\ Projecting' = Projecting \ {k}
            /\ arg[k].op = "unassign" /\ SlotOf(k) \notin usage
         \/ /\ Projecting' = Projecting
            /\ pc'[k] = "store" /\ rows'[k] = usage
            /\ target'[k] = target[k] /\ arg'[k] = arg[k]
  BY ReadingDoes DEF UInv
<1> SUFFICES ASSUME ~mixed
             PROVE  Following'
  BY <1>1 DEF Following
<1>2. Projecting = {k}
  BY <1>1 DEF UInv, Following
<1>3. \A s : (Live(s)' <=> Live(s)) /\ (Used(s)' <=> Used(s))
  BY <1>1 DEF Live, Used
<1>4. CASE /\ Projecting' = {}
           /\ arg[k].op = "unassign" /\ SlotOf(k) \notin usage
  <2>1. \A j \in Call : pc'[j] # "store"
    BY <1>4 DEF Projecting
  <2> QED
    BY <1>1, <1>2, <1>3, <1>4, <2>1 DEF UInv, Following
<1>5. CASE /\ Projecting' = {k} /\ rows'[k] = usage
           /\ target'[k] = target[k] /\ arg'[k] = arg[k]
  <2>1. \A j \in Call : pc'[j] = "store" => j = k
    BY <1>5 DEF Projecting
  <2>2. SlotOf(k)' = SlotOf(k)
    BY <1>5 DEF SlotOf
  <2> QED
    BY <1>1, <1>2, <1>3, <1>5, <2>1, <2>2 DEF UInv, Following
<1> QED
  BY <1>1, <1>2, <1>4, <1>5

LEMMA FollowingStore ==
  ASSUME UInv, NEW k \in Call, StoreUsage(k)
  PROVE  Following'
<1>1. /\ UNCHANGED <<file, mixed>> /\ k \in Projecting /\ pc[k] = "store"
      /\ usage' = IF arg[k].op = "assign" THEN rows[k] \cup {SlotOf(k)}
                  ELSE rows[k] \ {SlotOf(k)}
      /\ Projecting' = Projecting \ {k}
  BY StoringDoes DEF UInv
<1> SUFFICES ASSUME ~mixed
             PROVE  Following'
  BY <1>1 DEF Following
<1>2. Projecting = {k} /\ Projecting' = {} /\ rows[k] = usage
  BY <1>1 DEF UInv, Following
<1>3. \A s : (Live(s)' <=> Live(s)) /\ (Used(s)' <=> Used(s))
  BY <1>1 DEF Live, Used
<1>4. \A j \in Call : pc'[j] # "store"
  BY <1>2 DEF Projecting
<1>5. ASSUME NEW s \in Slot, Live(s)
      PROVE  s \in usage' <=> Used(s)
  <2>1. CASE s = SlotOf(k)
    BY <1>1, <1>2, <1>5, <2>1 DEF UInv, Following
  <2>2. CASE s # SlotOf(k)
    BY <1>1, <1>2, <1>5, <2>2 DEF UInv, Following
  <2> QED
    BY <2>1, <2>2
<1> QED
  BY <1>2, <1>3, <1>4, <1>5 DEF Following

LEMMA FollowingQuiet ==
  ASSUME UInv, Quiet
  PROVE  Following'
<1>1. \A k \in Projecting : /\ SlotOf(k)' = SlotOf(k) /\ arg'[k] = arg[k]
                            /\ pc'[k] = pc[k] /\ rows'[k] = rows[k]
  BY DEF Quiet, Undisturbed, SlotOf
<1>2. \A s : (Live(s)' <=> Live(s)) /\ (Used(s)' <=> Used(s))
  BY DEF Live, Used, Quiet
<1>3. \A k \in Call : pc'[k] = "store" => k \in Projecting
  BY DEF Quiet, Projecting
<1> QED
  BY <1>1, <1>2, <1>3 DEF UInv, Following, Quiet

LEMMA UsageNext ==
  ASSUME OneProcess, UInv, [Next]_vars
  PROVE  UInv'
<1>1. JInv' /\ AllKnown'
  BY NextStays, KnownNext DEF UInv
<1>2. CutShort => Following'
  BY DEF CutShort, Following
<1>3. Following'
  BY <1>2, MostStepsAreQuiet, FollowingQuiet, FollowingSave, FollowingRead,
     FollowingStore DEF UInv
<1> QED
  BY <1>1, <1>3 DEF UInv

LEMMA UsageInit == Init => UInv
BY InitStays DEF Init, UInv, AllKnown, Following, Projecting, Live, NoClusters

\* When no call is under way, the usages of the nodes that are registered are
\* their templates: every assignment and unassignment reached image-usage.json,
\* unless two projections overlapped or were cut short.
THEOREM UsageFollowsTemplates ==
  ASSUME OneProcess
  PROVE  Spec => []UsageFollows
<1>1. UInv /\ [Next]_vars => UInv'
  BY UsageNext
<1>2. UInv => UsageFollows
  <2> SUFFICES ASSUME UInv, \A k \in Call : pc[k] = "idle", ~mixed,
                      NEW c \in DOMAIN file
               PROVE  {s \in usage : s.cluster = c /\ s.node \in Nodes(file[c])}
                        = SlotsOf(c)
    BY DEF UsageFollows
  <2>1. usage \subseteq Slot /\ Projecting = {}
    BY FilesNow DEF UInv, JInv, Projecting
  <2> QED
    BY <2>1 DEF UInv, Following, Live, Used, SlotsOf
<1> QED
  BY <1>1, <1>2, UsageInit, PTL DEF Spec
=============================================================================
