------------------------------- MODULE Vaults -------------------------------
(***************************************************************************)
(* The vaults and their secrets in vaults.json, the handlers that change   *)
(* them, and the two policies that follow a service: the one that stores   *)
(* what an install published and the one that deletes it when the service  *)
(* is uninstalled.                                                         *)
(*                                                                         *)
(* A handler reads its vault, encrypts over an await, and saves: save      *)
(* reads the whole file again, replaces the vault in it and writes it,     *)
(* which truncates the file before it fills it.  Nothing serializes two    *)
(* calls, be they of one engine or of an RPC and an MCP server that share  *)
(* the home directory.                                                     *)
(***************************************************************************)
EXTENDS Naturals, FiniteSets

CONSTANTS
  Vault, VaultName,  \* ids, never used again, and names of vaults
  SecretId,          \* ids, minted once
  Service,           \* ids of services; each stores in one vault
  VaultOf, NameOf,   \* [Service -> Vault], [Service -> ServiceName]
  ServiceName,
  Rest,              \* <role>-<secret>, the rest of a published name
  Call,              \* requests and policies in flight (a slot is used again)
  NoVault, NoSecret, Operator, \* null values
  Torn,              \* a file that does not parse
  MayCrash           \* whether a process may die in the middle of a call

\* A secret's name is a slug, <prefix>-<rest>; an operator may choose any.
Name == [prefix: ServiceName \cup Service, rest: Rest]
NoName == [prefix |-> NoSecret, rest |-> NoSecret]

VaultRecord == [name: VaultName, secrets: [SecretId -> Name \cup {NoName}]]
Vaults == [Vault -> VaultRecord \cup {NoVault}]

ASSUME VaultsAssumption ==
  /\ VaultOf \in [Service -> Vault]
  /\ NameOf \in [Service -> ServiceName]
  /\ NoSecret \notin SecretId \cup Service \cup ServiceName \cup {Operator}
  /\ Operator \notin Service
  /\ NoVault \notin VaultRecord
  /\ Torn \notin Vaults
  /\ MayCrash \in BOOLEAN

VARIABLES
  disk,     \* vaults.json, or Torn
  pc,       \* [Call -> Pc]
  req,      \* [Call -> Request]  the command being handled
  job,      \* [Call -> Job]  the policy it belongs to, if any
  todo,     \* [Call -> names to publish, or ids to delete]
  held,     \* [Call -> the vault as loaded, then as changed]
  list,     \* [Call -> the vaults as save is going to write them]
  \* history
  settled,  \* what the last finished write wrote
  owner,    \* [SecretId -> who had it minted, or NoSecret]
  born,     \* the vault ids ever minted
  stale,    \* calls whose copy another write has made out of date
  raced     \* a stale copy was written, or a write cut short

callVars == <<pc, req, job, todo, held, list>>
historyVars == <<settled, owner, born, stale, raced>>
vars == <<disk, pc, req, job, todo, held, list,
          settled, owner, born, stale, raced>>

-----------------------------------------------------------------------------
(* The Vault aggregate.                                                    *)

NoSecrets == [i \in SecretId |-> NoName]
Op == {"create", "rename", "remove", "generate", "regenerate", "delete",
       "renameSecret"}

Named(v, n) == {i \in SecretId : v.secrets[i] = n}

\* generate: checkExists keeps a second secret from taking a name.
\* regenerate: the secret that had the name makes room.

\* Mutant: a new secret takes a name that is in use.
KeepsTakenName(r, v) ==
  CASE r.op = "delete"       -> v.secrets[r.id] # NoName
    [] r.op = "renameSecret" -> /\ v.secrets[r.id] # NoName
                                /\ Named(v, r.name) \subseteq {r.id}
    [] OTHER                 -> TRUE

Keeps(r, v) ==
  CASE r.op = "generate"     -> Named(v, r.name) = {}
    [] r.op = "delete"       -> v.secrets[r.id] # NoName
    [] r.op = "renameSecret" -> /\ v.secrets[r.id] # NoName
                                /\ Named(v, r.name) \subseteq {r.id}
    [] OTHER                 -> TRUE

\* Mutant: splice(index) without its count drops what comes after as well.
ChangedToEnd(r, v) ==
  CASE r.op = "rename" -> [v EXCEPT !.name = r.name]
    [] r.op = "delete" -> [v EXCEPT !.secrets = NoSecrets]
    [] r.op \in {"generate", "renameSecret"} ->
         [v EXCEPT !.secrets[r.id] = r.name]
    [] r.op = "regenerate" ->
         [v EXCEPT !.secrets = [i \in SecretId |->
            IF i = r.id THEN r.name
            ELSE IF @[i] = r.name THEN NoName ELSE @[i]]]
    [] OTHER -> v

Changed(r, v) ==
  CASE r.op = "rename" -> [v EXCEPT !.name = r.name]
    [] r.op = "delete" -> [v EXCEPT !.secrets[r.id] = NoName]
    [] r.op \in {"generate", "renameSecret"} ->
         [v EXCEPT !.secrets[r.id] = r.name]
    [] r.op = "regenerate" ->
         [v EXCEPT !.secrets = [i \in SecretId |->
            IF i = r.id THEN r.name
            ELSE IF @[i] = r.name THEN NoName ELSE @[i]]]
    [] OTHER -> v

-----------------------------------------------------------------------------
(* The file.                                                               *)

\* What a missing or an empty file is read as.
NoVaults == [v \in Vault |-> NoVault]

\* Mutant: an empty file is read as null, not as an empty list.
TruncatedToNull == {NoVault, Torn}

\* The file after writeTextFile has opened it, perhaps filled in part.
Truncated == {NoVaults, Torn}

Writing(c) == pc[c] = "write"

\* Another call is writing: what c reads may not be the vaults, and what it
\* writes may be mixed with the other's text.
Beside(c) == \E d \in Call \ {c} : Writing(d)

-----------------------------------------------------------------------------
(* Calls.                                                                  *)

Pc == {"idle", "collect", "next", "read", "encrypt", "save", "open", "write"}

NoRequest == [op |-> "none", vault |-> NoVault, id |-> NoSecret,
              name |-> NoName]
Command(ops, ids, names) == [op: ops, vault: Vault, id: ids, name: names]
Request ==
  Command({"create", "rename"}, {NoSecret}, VaultName)
    \cup Command({"remove"}, {NoSecret}, {NoName})
    \cup Command({"generate", "regenerate"}, {NoSecret}, Name)
    \cup Command({"delete"}, SecretId, {NoName})
    \cup Command({"renameSecret"}, SecretId, Name)

NoJob == [kind |-> "request", service |-> Operator]
Job(kind, s) == [kind |-> kind, service |-> s]

Goto(c, to) == pc' = [pc EXCEPT ![c] = to]

\* The call answers, or throws: its copies are gone.
End(c) ==
  /\ Goto(c, "idle")
  /\ req' = [req EXCEPT ![c] = NoRequest]
  /\ job' = [job EXCEPT ![c] = NoJob]
  /\ todo' = [todo EXCEPT ![c] = {}]
  /\ held' = [held EXCEPT ![c] = NoVault]
  /\ list' = [list EXCEPT ![c] = NoVaults]

\* A request of an operator.
\* regenerate is not among them: replaceIfExists is the policy's.
Ask(c) ==
  /\ pc[c] = "idle"
  /\ \E r \in Request :
       /\ r.op # "regenerate"
       /\ r.op = "create" => r.vault \notin born
       /\ r.op # "create" => r.vault \in born
       /\ r.op \in {"delete", "renameSecret"} => owner[r.id] # NoSecret
       /\ req' = [req EXCEPT ![c] = r]
       /\ born' = born \cup {r.vault}
  /\ Goto(c, "read")
  /\ UNCHANGED <<disk, job, todo, held, list, settled, owner,
                 stale, raced>>

\* secretName: <name of the service>-<role>-<secret>.
PublishedBy(s) == {[prefix |-> NameOf[s], rest |-> x] : x \in Rest}

\* StoreServiceSecretsWhenServiceInstallSucceeded.  When the session has
\* expired meanwhile, resolve throws before anything is stored.
StoreSecrets(c, s) ==
  /\ pc[c] = "idle"
  /\ job' = [job EXCEPT ![c] = Job("store", s)]
  /\ todo' = [todo EXCEPT ![c] = PublishedBy(s)]
  /\ Goto(c, "next")
  /\ UNCHANGED <<disk, req, held, list, settled, owner, born, stale,
                 raced>>

\* DeleteServiceSecretsWhenServiceUninstalled.
DeleteSecrets(c, s) ==
  /\ pc[c] = "idle"
  /\ job' = [job EXCEPT ![c] = Job("delete", s)]
  /\ Goto(c, "collect")
  /\ UNCHANGED <<disk, req, todo, held, list, historyVars>>

\* The secrets whose name starts with <id of the service>-.
PrefixedBy(s, v) == {i \in SecretId : v.secrets[i].prefix = s}

\* A vault that cannot be read is taken for one that is gone.
Collect(c) ==
  LET s == job[c].service IN
  /\ pc[c] = "collect"
  /\ todo' = [todo EXCEPT ![c] =
       IF disk = Torn \/ disk[VaultOf[s]] = NoVault THEN {}
       ELSE PrefixedBy(s, disk[VaultOf[s]])]
  /\ Goto(c, "next")
  /\ UNCHANGED <<disk, req, job, held, list, historyVars>>

\* The policy hands its next command to the handler.
NextCommand(c) ==
  LET s == job[c].service IN
  /\ pc[c] = "next"
  /\ \E x \in todo[c] :
       /\ req' = [req EXCEPT ![c] =
            IF job[c].kind = "store"
            THEN [NoRequest EXCEPT !.op = "regenerate", !.vault = VaultOf[s],
                                   !.name = x]
            ELSE [NoRequest EXCEPT !.op = "delete", !.vault = VaultOf[s],
                                   !.id = x]]
       /\ todo' = [todo EXCEPT ![c] = @ \ {x}]
  /\ Goto(c, "read")
  /\ UNCHANGED <<disk, job, held, list, historyVars>>

PolicyEnds(c) ==
  /\ pc[c] = "next"
  /\ todo[c] = {}
  /\ End(c)
  /\ UNCHANGED <<disk, settled, owner, born, stale, raced>>

-----------------------------------------------------------------------------
(* The handlers.                                                           *)

\* Refused or thrown: the file does not parse, the vault or the secret is
\* not there, the name is taken.
Refuses(r) ==
  IF disk = Torn THEN TRUE
  ELSE IF r.op = "create"
  THEN \E v \in Vault : disk[v] # NoVault /\ disk[v].name = r.name
  ELSE IF disk[r.vault] = NoVault THEN TRUE
  ELSE r.op \in {"delete", "renameSecret"} /\ ~Keeps(r, disk[r.vault])

Refuse(c) ==
  /\ pc[c] = "read"
  /\ Refuses(req[c])
  /\ End(c)
  /\ UNCHANGED <<disk, historyVars>>

ReadMark(c) ==
  stale' = IF Beside(c) THEN stale \cup {c} ELSE stale \ {c}

\* exists and Vault.create; of and the change, but for a generate, which
\* first encrypts.
Load(c) ==
  LET r == req[c] IN
  /\ pc[c] = "read"
  /\ r.op # "remove"
  /\ ~Refuses(r)
  /\ held' = [held EXCEPT ![c] =
       CASE r.op = "create" -> [name |-> r.name, secrets |-> NoSecrets]
         [] r.op \in {"generate", "regenerate"} -> disk[r.vault]
         [] OTHER -> Changed(r, disk[r.vault])]
  /\ Goto(c, IF r.op \in {"generate", "regenerate"} THEN "encrypt" ELSE "save")
  /\ ReadMark(c)
  /\ UNCHANGED <<disk, req, job, todo, list, settled, owner, born, raced>>

\* remove reads once and goes on to write.
LoadRemove(c) ==
  /\ pc[c] = "read"
  /\ req[c].op = "remove"
  /\ ~Refuses(req[c])
  /\ list' = [list EXCEPT ![c] = [disk EXCEPT ![req[c].vault] = NoVault]]
  /\ Goto(c, "open")
  /\ ReadMark(c)
  /\ UNCHANGED <<disk, req, job, todo, held, settled, owner, born, raced>>

\* The value is encrypted, the id is new; the vault as loaded before that
\* decides whether the name is free.
Encrypt(c) ==
  /\ pc[c] = "encrypt"
  /\ \E i \in SecretId :
       LET r == [req[c] EXCEPT !.id = i] IN
       /\ owner[i] = NoSecret
       /\ Keeps(r, held[c])
       /\ req' = [req EXCEPT ![c] = r]
       /\ held' = [held EXCEPT ![c] = Changed(r, @)]
       /\ owner' = [owner EXCEPT ![i] = job[c].service]
  /\ Goto(c, "save")
  /\ UNCHANGED <<disk, job, todo, list, settled, born,
                 stale, raced>>

EncryptRefused(c) ==
  /\ pc[c] = "encrypt"
  /\ ~Keeps(req[c], held[c])
  /\ End(c)
  /\ UNCHANGED <<disk, historyVars>>

\* save: the whole file again, this vault replaced in it, or put back.
Save(c) ==
  /\ pc[c] = "save"
  /\ disk # Torn
  /\ list' = [list EXCEPT ![c] = [disk EXCEPT ![req[c].vault] = held[c]]]
  /\ Goto(c, "open")
  /\ stale' = IF Beside(c) THEN stale \cup {c} ELSE stale
  /\ UNCHANGED <<disk, req, job, todo, held, settled, owner, born, raced>>

SaveThrows(c) ==
  /\ pc[c] = "save"
  /\ disk = Torn
  /\ End(c)
  /\ UNCHANGED <<disk, historyVars>>

Open(c) ==
  /\ pc[c] = "open"
  /\ disk' \in Truncated
  /\ Goto(c, "write")
  /\ UNCHANGED <<req, job, todo, held, list, historyVars>>

\* Calls whose copy is out of date once c has written.
MadeStale(c) ==
  {d \in Call \ {c} :
     \/ pc[d] \in {"open", "write"}
     \/ /\ pc[d] \in {"encrypt", "save"}
        /\ list[c][req[d].vault] # settled[req[d].vault]}

\* Mutant: the file is not truncated, a longer text sticks out of a shorter.
FilledOver(c) == {list[c], Torn}

\* The file is filled; with two at it, what one leaves of its text behind
\* the other's no longer parses.
Filled(c) == IF Beside(c) THEN {list[c], Torn} ELSE {list[c]}

Write(c) ==
  /\ pc[c] = "write"
  /\ disk' \in Filled(c)
  /\ settled' = list[c]
  /\ stale' = (stale \cup MadeStale(c)) \ {c}
  /\ raced' = (raced \/ c \in stale)
  /\ IF job[c] = NoJob THEN End(c)
     ELSE /\ Goto(c, "next")
          /\ req' = [req EXCEPT ![c] = NoRequest]
          /\ held' = [held EXCEPT ![c] = NoVault]
          /\ list' = [list EXCEPT ![c] = NoVaults]
          /\ UNCHANGED <<job, todo>>
  /\ UNCHANGED <<owner, born>>

-----------------------------------------------------------------------------
(* Around the calls.                                                       *)

\* The process of c dies; a write it was in stays as far as it got.
Die(c) ==
  /\ MayCrash
  /\ pc[c] # "idle"
  /\ End(c)
  /\ raced' = (raced \/ Writing(c))
  /\ stale' = stale \ {c}
  /\ UNCHANGED <<disk, settled, owner, born>>

Init ==
  /\ disk = NoVaults
  /\ pc = [c \in Call |-> "idle"]
  /\ req = [c \in Call |-> NoRequest]
  /\ job = [c \in Call |-> NoJob]
  /\ todo = [c \in Call |-> {}]
  /\ held = [c \in Call |-> NoVault]
  /\ list = [c \in Call |-> NoVaults]
  /\ settled = NoVaults
  /\ owner = [i \in SecretId |-> NoSecret]
  /\ born = {}
  /\ stale = {}
  /\ raced = FALSE

Next ==
  \E c \in Call :
       \/ Ask(c) \/ Collect(c) \/ NextCommand(c) \/ PolicyEnds(c)
       \/ Refuse(c) \/ Load(c) \/ LoadRemove(c)
       \/ Encrypt(c) \/ EncryptRefused(c)
       \/ Save(c) \/ SaveThrows(c) \/ Open(c) \/ Write(c) \/ Die(c)
       \/ \E s \in Service : StoreSecrets(c, s) \/ DeleteSecrets(c, s)

Spec == Init /\ [][Next]_vars

-----------------------------------------------------------------------------
(* Properties.                                                             *)

\* Every variable has its type.
TypeOK ==
  /\ disk \in Vaults \cup {Torn}
  /\ pc \in [Call -> Pc]
  /\ req \in [Call -> [op: Op \cup {"none"}, vault: Vault \cup {NoVault},
                       id: SecretId \cup {NoSecret},
                       name: VaultName \cup Name \cup {NoName}]]
  /\ job \in [Call -> [kind: {"request", "store", "delete"},
                       service: Service \cup {Operator}]]
  /\ todo \in [Call -> (SUBSET Name) \cup (SUBSET SecretId)]
  /\ held \in [Call -> VaultRecord \cup {NoVault}]
  /\ list \in [Call -> Vaults]
  /\ settled \in Vaults
  /\ owner \in [SecretId -> Service \cup {Operator, NoSecret}]
  /\ born \subseteq Vault
  /\ stale \subseteq Call
  /\ raced \in BOOLEAN

NamesUnique(v) ==
  \A i, j \in SecretId :
    v.secrets[i] = v.secrets[j] /\ v.secrets[i] # NoName => i = j

\* In a file that parses no vault ever has two secrets of one name, whatever
\* calls overlap and whichever of their copies is written last: a copy is
\* always a whole vault that went through the aggregate.
OneSecretPerName ==
  disk # Torn =>
    \A v \in Vault : disk[v] # NoVault => NamesUnique(disk[v])

\* As long as no stale copy was written and no write cut short, the file is
\* whole whenever nobody is writing it: two calls that overlap without a race
\* leave nothing torn.
WholeBetweenWrites ==
  ~raced /\ (\A c \in Call : ~Writing(c)) => disk = settled

\* The vaults there are, and the secrets of a vault by name.
Opened(vaults) == {v \in Vault : vaults[v] # NoVault}
AtOf(x) ==
  [n \in Name |-> IF x # NoVault /\ Named(x, n) # {}
                  THEN CHOOSE i \in Named(x, n) : TRUE ELSE NoSecret]
ByName(vaults) == [v \in Vault |-> AtOf(vaults[v])]

\* Until then the file is a store of named secrets, every call atomic: the
\* loads, the awaits and the second read of save cannot be told from outside.
Store == INSTANCE VaultStore WITH
  open <- Opened(settled), at <- ByName(settled), raced <- raced
ImplementsStore == Store!Spec

\* server.ts:53-56: two concurrent requests cannot "lose each other's
\* persisted state".  A secret leaves the vaults only by the write of a call
\* that removes it: its deletion, its replacement, or its vault's removal.
\* Not kept by the code (README, Disagreements).
OnlyRemovalsRemove ==
  [][\A i \in SecretId, v \in Vault :
       settled[v] # NoVault /\ settled[v].secrets[i] # NoName =>
         \/ settled'[v] # NoVault /\ settled'[v].secrets[i] # NoName
         \/ \E c \in Call :
              /\ Writing(c)
              /\ req[c].vault = v
              /\ \/ req[c].op = "remove"
                 \/ req[c].op = "delete" /\ req[c].id = i
                 \/ /\ req[c].op = "regenerate"
                    /\ req[c].name = settled[v].secrets[i]]_vars

\* "deletes the secrets that install published for it": when the policy of an
\* uninstall is through, and nothing else is under way, the service has no
\* secret left in its vault.
\* Not kept by the code (README, Disagreements).
UninstallDropsPublished ==
  [][\A c \in Call :
       /\ pc[c] = "next" /\ todo[c] = {} /\ job[c].kind = "delete"
       /\ pc'[c] = "idle"
       /\ ~raced /\ \A d \in Call \ {c} : pc[d] = "idle"
       => LET s == job[c].service IN
          settled[VaultOf[s]] # NoVault =>
            \A i \in SecretId :
              owner[i] = s => settled[VaultOf[s]].secrets[i] = NoName]_vars
=============================================================================
