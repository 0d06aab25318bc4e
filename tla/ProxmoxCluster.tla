--------------------------- MODULE ProxmoxCluster ---------------------------
(***************************************************************************)
(* The aggregate ProxmoxCluster as a value, and what each command makes of *)
(* it: connect and disconnect, the nodes, the virtual machines of a node,  *)
(* the images assigned to it as templates and the services its machines    *)
(* are known to run.                                                       *)
(*                                                                         *)
(* A node stands for its name and address.  Of its provisioning state only *)
(* what locks its machines is kept (Provisioning has the lifecycle).  The  *)
(* lists of the code are sets: that they hold an id, an address or an      *)
(* image once is not built in, it is what the guards are there for.        *)
(***************************************************************************)
EXTENDS Naturals, FiniteSets

CONSTANTS
  ClusterName,
  Node,        \* node ids, each with a name and an address of its own
  VmId,        \* Proxmox ids, of machines and of templates alike
  Ip,          \* addresses of machines
  Image,
  Service,     \* services, the roles of one on a machine taken together
  Nothing      \* an argument a command does not have

VirtualMachine ==
  [id: VmId, ip: Ip, image: Image, services: SUBSET Service]
NodeImage == [image: Image, id: VmId]
NodeRecord ==
  [busy: BOOLEAN, images: SUBSET NodeImage, vms: SUBSET VirtualMachine]

\* retired is history: the id of a node is minted once.
IsCluster(c) ==
  /\ c = [name |-> c.name, version |-> c.version, connected |-> c.connected,
          nodes |-> c.nodes, retired |-> c.retired]
  /\ c.name \in ClusterName
  /\ c.version \in Nat
  /\ c.connected \in BOOLEAN
  /\ DOMAIN c.nodes \subseteq Node
  /\ c.nodes \in [DOMAIN c.nodes -> NodeRecord]
  /\ c.retired \subseteq Node

NewNode == [busy |-> FALSE, images |-> {}, vms |-> {}]

\* ProxmoxCluster.register
NewCluster(name) ==
  [name |-> name, version |-> 1, connected |-> FALSE,
   nodes |-> [n \in {} |-> NewNode], retired |-> {}]

\* A command: its op, the node it names, what it says of a machine, an image
\* slot, an id, an image or a service, each where the op has one.
Command ==
  [op: {"connect", "disconnect", "unregisterAllNodes"},
   node: {Nothing}, arg: {Nothing}]
  \cup [op: {"registerNode", "updateNode", "unregisterNode",
             "lock", "unlock", "unregisterAllVms"},
        node: Node, arg: {Nothing}]
  \cup [op: {"registerVm", "replaceVm"}, node: Node,
        arg: [id: VmId, ip: Ip, image: Image]]
  \cup [op: {"unregisterVm"}, node: Node, arg: VmId]
  \cup [op: {"assign", "reassign"}, node: Node, arg: NodeImage]
  \cup [op: {"unassign"}, node: Node, arg: Image]
  \cup [op: {"recordService", "forgetService"}, node: {Nothing},
        arg: [ip: Ip, service: Service]]

-----------------------------------------------------------------------------
(* What the guards look at.                                                *)

Nodes(c) == DOMAIN c.nodes
Vms(c) == UNION {c.nodes[n].vms : n \in Nodes(c)}
Templates(c) == UNION {c.nodes[n].images : n \in Nodes(c)}

\* Mutant: the ids of the templates are not looked at.
IdFreeOfVms(c, id) == \A vm \in Vms(c) : vm.id # id

\* requireUniqueVirtualMachineId
IdFree(c, id) ==
  /\ \A vm \in Vms(c) : vm.id # id
  /\ \A t \in Templates(c) : t.id # id

\* requireUniqueVirtualMachineIp, skip being the machine that may have it
IpFree(c, ip, skip) == \A vm \in Vms(c) : vm.ip = ip => vm.id = skip

Assigned(c, n, image) == \E t \in c.nodes[n].images : t.image = image

\* Mutant: nobody asks for the machines of a template.
ReferencedNever(c, n, image) == FALSE

\* requireImageNotReferencedByVirtualMachines
Referenced(c, n, image) == \E vm \in c.nodes[n].vms : vm.image = image

HasVm(c, n, id) == \E vm \in c.nodes[n].vms : vm.id = id
HostsIp(c, ip) == \E vm \in Vms(c) : vm.ip = ip

-----------------------------------------------------------------------------
(* Whether the aggregate accepts a command, or throws and stays as it is.  *)

Accepts(c, cmd) ==
  LET n == cmd.node arg == cmd.arg IN
  CASE cmd.op = "registerNode" -> n \notin Nodes(c) \cup c.retired
    [] cmd.op \in {"updateNode", "unlock"} -> n \in Nodes(c)
    [] cmd.op = "lock" -> n \in Nodes(c) /\ ~c.nodes[n].busy
    [] cmd.op = "unregisterNode" -> n \in Nodes(c) /\ c.nodes[n].vms = {}
    [] cmd.op = "unregisterAllNodes" -> Vms(c) = {}
    [] cmd.op = "registerVm" ->
         /\ n \in Nodes(c) /\ ~c.nodes[n].busy
         /\ IdFree(c, arg.id) /\ IpFree(c, arg.ip, Nothing)
         /\ Assigned(c, n, arg.image)
    [] cmd.op = "replaceVm" ->
         /\ n \in Nodes(c) /\ ~c.nodes[n].busy
         /\ HasVm(c, n, arg.id) /\ IpFree(c, arg.ip, arg.id)
         /\ Assigned(c, n, arg.image)
    [] cmd.op = "unregisterVm" ->
         n \in Nodes(c) /\ ~c.nodes[n].busy /\ HasVm(c, n, arg)
    [] cmd.op = "unregisterAllVms" -> n \in Nodes(c) /\ ~c.nodes[n].busy
    [] cmd.op = "assign" ->
         n \in Nodes(c) /\ IdFree(c, arg.id) /\ ~Assigned(c, n, arg.image)
    [] cmd.op = "unassign" ->
         n \in Nodes(c) /\ ~Referenced(c, n, arg) /\ Assigned(c, n, arg)
    [] cmd.op = "reassign" ->
         /\ n \in Nodes(c) /\ Assigned(c, n, arg.image)
         /\ arg \in c.nodes[n].images \/ IdFree(c, arg.id)
    [] OTHER -> TRUE

-----------------------------------------------------------------------------
(* What an accepted command makes of the cluster.                          *)

Stored(arg) ==
  [id |-> arg.id, ip |-> arg.ip, image |-> arg.image, services |-> {}]

\* Node.withChanges
WithState(node, busy) ==
  [busy |-> busy, images |-> node.images, vms |-> node.vms]
WithImages(node, images) ==
  [busy |-> node.busy, images |-> images, vms |-> node.vms]
WithVms(node, vms) ==
  [busy |-> node.busy, images |-> node.images, vms |-> vms]

\* The machine at an address, in whichever node it is, with its services.
Serving(vm, ip, more, less) ==
  IF vm.ip = ip
  THEN [id |-> vm.id, ip |-> ip, image |-> vm.image,
        services |-> (vm.services \cup more) \ less]
  ELSE vm

WithServices(nodes, ip, more, less) ==
  [n \in DOMAIN nodes |->
     WithVms(nodes[n], {Serving(vm, ip, more, less) : vm \in nodes[n].vms})]

\* Nodes.replaceById: the node a command makes of the one it names.
Replacement(node, cmd) ==
  LET arg == cmd.arg IN
  CASE cmd.op \in {"updateNode", "unlock"} -> WithState(node, FALSE)
    [] cmd.op = "lock" -> WithState(node, TRUE)
    [] cmd.op = "registerVm" -> WithVms(node, node.vms \cup {Stored(arg)})
    [] cmd.op = "replaceVm" ->
         WithVms(node, {vm \in node.vms : vm.id # arg.id} \cup {Stored(arg)})
    [] cmd.op = "unregisterVm" ->
         WithVms(node, {vm \in node.vms : vm.id # arg})
    [] cmd.op = "unregisterAllVms" -> WithVms(node, {})
    [] cmd.op = "assign" -> WithImages(node, node.images \cup {arg})
    [] cmd.op = "unassign" ->
         WithImages(node, {t \in node.images : t.image # arg})
    [] cmd.op = "reassign" ->
         WithImages(node, {IF t.image = arg.image THEN arg ELSE t :
                             t \in node.images})

ChangedNodes(c, cmd) ==
  LET n == cmd.node arg == cmd.arg nodes == c.nodes IN
  CASE cmd.op \in {"connect", "disconnect"} -> nodes
    [] cmd.op = "registerNode" ->
         [m \in Nodes(c) \cup {n} |-> IF m = n THEN NewNode ELSE nodes[m]]
    [] cmd.op = "unregisterNode" -> [m \in Nodes(c) \ {n} |-> nodes[m]]
    [] cmd.op = "unregisterAllNodes" -> [m \in {} |-> NewNode]
    [] cmd.op = "recordService" ->
         WithServices(nodes, arg.ip, {arg.service}, {})
    [] cmd.op = "forgetService" ->
         WithServices(nodes, arg.ip, {}, {arg.service})
    [] OTHER -> [nodes EXCEPT ![n] = Replacement(@, cmd)]

\* A projection that finds no machine at its address changes nothing, every
\* other command counts the version up.
Bumps(c, cmd) ==
  cmd.op \in {"recordService", "forgetService"} => HostsIp(c, cmd.arg.ip)

NextVersion(c, cmd) == IF Bumps(c, cmd) THEN c.version + 1 ELSE c.version

Connects(c, cmd) ==
  CASE cmd.op = "connect" -> TRUE
    [] cmd.op = "disconnect" -> FALSE
    [] OTHER -> c.connected

Changed(c, cmd) ==
  LET nodes == ChangedNodes(c, cmd) IN
  [name |-> c.name, version |-> NextVersion(c, cmd),
   connected |-> Connects(c, cmd), nodes |-> nodes,
   retired |-> c.retired \cup (Nodes(c) \ DOMAIN nodes)]

-----------------------------------------------------------------------------
(* What the guards are for.                                                *)

\* Two machines of a cluster never share an id or an address.
VmsDistinct(c) ==
  \A n, m \in Nodes(c) : \A v \in c.nodes[n].vms, w \in c.nodes[m].vms :
    v.id = w.id \/ v.ip = w.ip => n = m /\ v = w

\* No template has the id of a machine or of another template.
TemplatesDistinct(c) ==
  \A n, m \in Nodes(c) : \A t \in c.nodes[n].images :
    /\ \A v \in c.nodes[m].vms : v.id # t.id
    /\ \A u \in c.nodes[m].images :
         t.id = u.id \/ (n = m /\ t.image = u.image) => n = m /\ t = u

\* The image of a machine is a template of the node it is on.
ImagesPresent(c) ==
  \A n \in Nodes(c) : \A v \in c.nodes[n].vms : Assigned(c, n, v.image)
=============================================================================
