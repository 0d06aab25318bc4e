----------------------------- MODULE ClusterFile -----------------------------
(***************************************************************************)
(* The registry of clusters in clusters.json, and the usage of the images  *)
(* projected from it in image-usage.json.                                  *)
(*                                                                         *)
(* Every change of a cluster is a read-modify-write of the whole file.     *)
(* One engine gives its calls a turn each (writeChain); an update reads    *)
(* the file, changes its copy, reads the file again to compare versions,   *)
(* and writes the copy.  An RPC and an MCP server over one home directory  *)
(* are two processes with a chain each.  After its turn, the call that     *)
(* assigned or unassigned an image dispatches the event to the policy that *)
(* reads and rewrites the usages, out of any turn.                         *)
(*                                                                         *)
(* A write is one step here: Vaults has what truncating and filling the    *)
(* file makes of a crash or a reader in between.                           *)
(***************************************************************************)
EXTENDS ProxmoxCluster, Sequences

CONSTANTS
  Cluster,     \* cluster ids, minted once
  Process,     \* engines over one home directory
  Call,        \* requests in flight (a slot is used again)
  MayCrash,    \* whether a process may die in the middle of a call
  MaxVersion   \* bound: a cluster this old takes no more updates

ASSUME ClusterFileAssumption ==
  /\ Nothing \notin Command /\ Nothing \notin ClusterName
  /\ Nothing \notin Cluster /\ Nothing \notin Process /\ Nothing \notin VmId
  /\ MayCrash \in BOOLEAN
  /\ MaxVersion \in Nat

VARIABLES
  file,        \* clusters.json
  usage,       \* image-usage.json, a set of slots
  chain,       \* [Process -> Seq(Call)]  whose turn it is, and who waits
  pc,          \* [Call -> Pc]
  proc,        \* [Call -> the process that handles it, or Nothing]
  kind,        \* [Call -> Kind]  of the change it is making
  target,      \* [Call -> the cluster it is about, or Nothing]
  arg,         \* [Call -> its command or name, or Nothing]
  copy,        \* [Call -> the clusters as the call is going to write them]
  rows,        \* [Call -> the usages as the policy has read them]
  \* history
  minted,      \* the cluster ids ever given
  mixed        \* two projections overlapped, or a call was cut short

callVars == <<pc, proc, kind, target, arg, copy, rows>>
vars == <<file, usage, chain, pc, proc, kind, target, arg, copy, rows,
          minted, mixed>>

Pc == {"idle", "exists", "owner", "queued", "check", "save",
       "project", "store"}
Kind == {"none", "add", "remove", "update"}

NoClusters == [c \in {} |-> Nothing]

IsFile(f) ==
  /\ f = [c \in DOMAIN f |-> f[c]]
  /\ DOMAIN f \subseteq Cluster
  /\ \A c \in DOMAIN f : IsCluster(f[c])

Slot == [image: Image, cluster: Cluster, node: Node]

-----------------------------------------------------------------------------
(* Calls and turns.                                                        *)

\* Mutant: no turns.
AnyTurn(k) == pc[k] = "queued"

\* The critical section of k may run: those before it are through.
Turn(k) == pc[k] = "queued" /\ Head(chain[proc[k]]) = k

Queue(k, p) == chain' = [chain EXCEPT ![p] = Append(@, k)]

\* serialize: the turn ends, whether the critical section threw or not.
PassTurn(k) == chain' = [chain EXCEPT ![proc[k]] = Tail(@)]

Goto(k, to) == pc' = [pc EXCEPT ![k] = to]

\* The slots of the calls K are free again.
Forget(K) ==
  /\ pc' = [k \in Call |-> IF k \in K THEN "idle" ELSE pc[k]]
  /\ proc' = [k \in Call |-> IF k \in K THEN Nothing ELSE proc[k]]
  /\ kind' = [k \in Call |-> IF k \in K THEN "none" ELSE kind[k]]
  /\ target' = [k \in Call |-> IF k \in K THEN Nothing ELSE target[k]]
  /\ arg' = [k \in Call |-> IF k \in K THEN Nothing ELSE arg[k]]
  /\ copy' = [k \in Call |-> IF k \in K THEN NoClusters ELSE copy[k]]
  /\ rows' = [k \in Call |-> IF k \in K THEN {} ELSE rows[k]]

End(k) == Forget({k})

\* The bounds: how old a cluster may grow, how many are ever registered.
Young(C) == \A c \in C \cap DOMAIN file : file[c].version < MaxVersion
SomeLeft ==
  Cardinality({k \in Call : pc[k] = "exists"}) < Cardinality(Cluster \ minted)

Take(k, p, what, c, a, to) ==
  /\ pc[k] = "idle"
  /\ Goto(k, to)
  /\ proc' = [proc EXCEPT ![k] = p]
  /\ kind' = [kind EXCEPT ![k] = what]
  /\ target' = [target EXCEPT ![k] = c]
  /\ arg' = [arg EXCEPT ![k] = a]
  /\ UNCHANGED <<file, usage, copy, rows, minted, mixed>>

Projection(cmd) == cmd.op \in {"recordService", "forgetService"}

\* A request for a change of a cluster.  Its command is settled when its turn
\* comes: until then nothing looks at it.
RequestUpdate(k, p, c) ==
  /\ Young({c})
  /\ Take(k, p, "update", c, Nothing, "queued")
  /\ Queue(k, p)

RequestRemove(k, p, c) ==
  Take(k, p, "remove", c, Nothing, "queued") /\ Queue(k, p)

RequestAdd(k, p, name) ==
  /\ SomeLeft
  /\ Take(k, p, "add", Nothing, name, "exists")
  /\ UNCHANGED chain

\* The policies that follow a service, for one host of it.
RequestProjection(k, p, cmd) ==
  /\ Projection(cmd) /\ Young(Cluster)
  /\ Take(k, p, "update", Nothing, cmd, "owner")
  /\ UNCHANGED chain

\* RegisterClusterHandler: the name is looked up before the turn is asked for.
LookUpName(k) ==
  /\ pc[k] = "exists"
  /\ IF \E c \in DOMAIN file : file[c].name = arg[k]
     THEN End(k) /\ UNCHANGED <<chain, minted>>
     ELSE \E c \in Cluster \ minted :
            /\ minted' = minted \cup {c}
            /\ target' = [target EXCEPT ![k] = c]
            /\ Goto(k, "queued")
            /\ Queue(k, proc[k])
            /\ UNCHANGED <<proc, kind, arg, copy, rows>>
  /\ UNCHANGED <<file, usage, mixed>>

\* Record and ForgetVirtualMachineServicesHandler: the cluster of the host is
\* found on a snapshot, the first in the file that has it.
FindOwner(k) ==
  LET owners == {c \in DOMAIN file : HostsIp(file[c], arg[k].arg.ip)} IN
  /\ pc[k] = "owner"
  /\ IF owners = {}
     THEN End(k) /\ UNCHANGED chain
     ELSE \E c \in owners :
            /\ target' = [target EXCEPT ![k] = c]
            /\ Goto(k, "queued")
            /\ Queue(k, proc[k])
            /\ UNCHANGED <<proc, kind, arg, copy, rows>>
  /\ UNCHANGED <<file, usage, minted, mixed>>

-----------------------------------------------------------------------------
(* In turn.                                                                *)

Loaded(k, clusters, cmd, to) ==
  /\ copy' = [copy EXCEPT ![k] = clusters]
  /\ arg' = [arg EXCEPT ![k] = cmd]
  /\ Goto(k, to)
  /\ UNCHANGED <<chain, proc, kind, target, rows>>

\* The critical section throws: no such cluster, or the aggregate refuses.
Refused(k) == End(k) /\ PassTurn(k)

LoadAdd(k) ==
  /\ Turn(k) /\ kind[k] = "add"
  /\ Loaded(k, [c \in DOMAIN file \cup {target[k]} |->
                  IF c = target[k] THEN NewCluster(arg[k]) ELSE file[c]],
            arg[k], "save")
  /\ UNCHANGED <<file, usage, minted, mixed>>

LoadRemove(k) ==
  /\ Turn(k) /\ kind[k] = "remove"
  /\ IF target[k] \in DOMAIN file
     THEN Loaded(k, [c \in DOMAIN file \ {target[k]} |-> file[c]],
                 Nothing, "save")
     ELSE Refused(k)
  /\ UNCHANGED <<file, usage, minted, mixed>>

Asked(k) ==
  IF arg[k] = Nothing THEN {cmd \in Command : ~Projection(cmd)} ELSE {arg[k]}

\* The file is read and the change applied to the copy.
LoadUpdate(k) ==
  LET c == target[k] IN
  /\ Turn(k) /\ kind[k] = "update"
  /\ \/ /\ c \in DOMAIN file
        /\ \E cmd \in Asked(k) :
             /\ Accepts(file[c], cmd)
             /\ Loaded(k, [file EXCEPT ![c] = Changed(@, cmd)], cmd, "check")
     \/ /\ c \in DOMAIN file => \E cmd \in Asked(k) : ~Accepts(file[c], cmd)
        /\ Refused(k)
  /\ UNCHANGED <<file, usage, minted, mixed>>

\* The version the copy was changed from.
Base(k) ==
  LET v == copy[k][target[k]].version IN
  IF Projection(arg[k]) /\ ~HostsIp(copy[k][target[k]], arg[k].arg.ip)
  THEN v ELSE v - 1

\* The second read.  A cluster that is gone passes it.
Check(k) ==
  LET c == target[k] IN
  /\ pc[k] = "check"
  /\ IF c \in DOMAIN file /\ file[c].version # Base(k)
     THEN Refused(k)
     ELSE /\ Goto(k, "save")
          /\ UNCHANGED <<chain, proc, kind, target, arg, copy, rows>>
  /\ UNCHANGED <<file, usage, minted, mixed>>

\* Mutant: an assignment is not announced.
AnnouncedUnassign(k) == kind[k] = "update" /\ arg[k].op = "unassign"

\* Whether the change pushed an event a policy of the images listens to.
Announced(k) == kind[k] = "update" /\ arg[k].op \in {"assign", "unassign"}

\* Calls that are between the change of a cluster and of the usages.
Projecting == {k \in Call : pc[k] \in {"project", "store"}}

\* The whole copy is written, and the call goes on after its turn.
Save(k) ==
  /\ pc[k] = "save"
  /\ file' = copy[k]
  /\ PassTurn(k)
  /\ IF Announced(k)
     THEN /\ Goto(k, "project")
          /\ copy' = [copy EXCEPT ![k] = NoClusters]
          /\ mixed' = (mixed \/ Projecting # {})
          /\ UNCHANGED <<proc, kind, target, arg, rows>>
     ELSE End(k) /\ UNCHANGED mixed
  /\ UNCHANGED <<usage, minted>>

-----------------------------------------------------------------------------
(* The policies of the images.                                             *)

\* Mutant: the whole template is taken for its image.
SlotOfTemplate(k) ==
  [cluster |-> target[k], node |-> arg[k].node, image |-> arg[k].arg]

SlotOf(k) ==
  [cluster |-> target[k], node |-> arg[k].node,
   image |-> IF arg[k].op = "assign" THEN arg[k].arg.image ELSE arg[k].arg]

\* ImageUsages.record and forget read the rows; forget stops here when there
\* is nothing to forget.
ReadUsage(k) ==
  /\ pc[k] = "project"
  /\ IF arg[k].op = "unassign" /\ SlotOf(k) \notin usage
     THEN End(k)
     ELSE /\ rows' = [rows EXCEPT ![k] = usage]
          /\ Goto(k, "store")
          /\ UNCHANGED <<proc, kind, target, arg, copy>>
  /\ UNCHANGED <<file, usage, chain, minted, mixed>>

StoreUsage(k) ==
  /\ pc[k] = "store"
  /\ usage' = IF arg[k].op = "assign" THEN rows[k] \cup {SlotOf(k)}
              ELSE rows[k] \ {SlotOf(k)}
  /\ End(k)
  /\ UNCHANGED <<file, chain, minted, mixed>>

-----------------------------------------------------------------------------
\* A process dies and is started again; the files stay as they are.
Die(p) ==
  /\ MayCrash
  /\ \E k \in Call : proc[k] = p
  /\ Forget({k \in Call : proc[k] = p})
  /\ chain' = [chain EXCEPT ![p] = <<>>]
  /\ mixed' = (mixed \/ \E k \in Projecting : proc[k] = p)
  /\ UNCHANGED <<file, usage, minted>>

Init ==
  /\ file = NoClusters
  /\ usage = {}
  /\ chain = [p \in Process |-> <<>>]
  /\ pc = [k \in Call |-> "idle"]
  /\ proc = [k \in Call |-> Nothing]
  /\ kind = [k \in Call |-> "none"]
  /\ target = [k \in Call |-> Nothing]
  /\ arg = [k \in Call |-> Nothing]
  /\ copy = [k \in Call |-> NoClusters]
  /\ rows = [k \in Call |-> {}]
  /\ minted = {}
  /\ mixed = FALSE

Request(k, p) ==
  \/ \E c \in minted : RequestUpdate(k, p, c) \/ RequestRemove(k, p, c)
  \/ \E name \in ClusterName : RequestAdd(k, p, name)
  \/ \E cmd \in Command : RequestProjection(k, p, cmd)

Step(k) ==
  \/ LookUpName(k) \/ FindOwner(k)
  \/ LoadAdd(k) \/ LoadRemove(k) \/ LoadUpdate(k) \/ Check(k) \/ Save(k)
  \/ ReadUsage(k) \/ StoreUsage(k)

Next ==
  \/ \E k \in Call : Step(k) \/ \E p \in Process : Request(k, p)
  \/ \E p \in Process : Die(p)

Spec == Init /\ [][Next]_vars

-----------------------------------------------------------------------------
(* Properties.                                                             *)

\* Every variable has its type.
TypeOK ==
  /\ IsFile(file)
  /\ usage \subseteq Slot
  /\ chain \in [Process -> Seq(Call)]
  /\ pc \in [Call -> Pc]
  /\ proc \in [Call -> Process \cup {Nothing}]
  /\ kind \in [Call -> Kind]
  /\ target \in [Call -> Cluster \cup {Nothing}]
  /\ arg \in [Call -> Command \cup ClusterName \cup {Nothing}]
  /\ copy = [k \in Call |-> copy[k]] /\ \A k \in Call : IsFile(copy[k])
  /\ rows \in [Call -> SUBSET Slot]
  /\ minted \subseteq Cluster
  /\ mixed \in BOOLEAN

\* No two machines of a cluster in the file share an id or an address and no
\* template has the id of a machine: however calls and processes overlap, and
\* although every guard of the aggregate is evaluated on a copy.
HoldersDistinct ==
  \A c \in DOMAIN file : VmsDistinct(file[c]) /\ TemplatesDistinct(file[c])

\* The image of a machine is assigned to its node, as long as the machine is
\* there: what registering a machine asks for, unassigning does not take away.
ImagesArePresent == \A c \in DOMAIN file : ImagesPresent(file[c])

\* "two concurrent commands cannot lose each other's changes": with a chain
\* for all of them, the file is a registry in which every command is atomic.
Registry == INSTANCE ClusterRegistry WITH clusters <- file
ImplementsRegistry == Registry!Spec

SlotsOf(c) ==
  {s \in Slot : /\ s.cluster = c /\ s.node \in Nodes(file[c])
                /\ Assigned(file[c], s.node, s.image)}

\* When nothing is under way, the usages of the nodes that are registered are
\* their templates, unless two projections overlapped or were cut short.
UsageFollows ==
  (\A k \in Call : pc[k] = "idle") /\ ~mixed =>
    \A c \in DOMAIN file :
      {s \in usage : s.cluster = c /\ s.node \in Nodes(file[c])} = SlotsOf(c)

\* "so the catalog knows which clusters/nodes use each image": a usage is of a
\* template that is there.
\* Not kept by the code (README, Disagreements).
UsageIsCurrent ==
  (\A k \in Call : pc[k] = "idle") /\ ~mixed =>
    usage \subseteq UNION {SlotsOf(c) : c \in DOMAIN file}

\* "a loud error instead of a silent lost update" (on a write of another
\* process): what an update saves differs from what it replaces only in
\* the call's own cluster.
\* Not kept by the code (README, Disagreements).
NothingLostSilently ==
  [][\A k \in Call :
       pc[k] = "save" /\ kind[k] = "update" /\ file' # file =>
         \A c \in DOMAIN file :
           c # target[k] => c \in DOMAIN file' /\ file'[c] = file[c]]_vars
=============================================================================
