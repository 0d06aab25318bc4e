---------------------------- MODULE VaultsProofs ----------------------------
(***************************************************************************)
(* Proofs about Vaults: its types, that a vault never has two secrets of   *)
(* one name however calls overlap, that the file is whole between writes   *)
(* unless a stale copy was written or a write cut short, and that until    *)
(* then every call is atomic: what the writes make of the file is          *)
(* VaultStore, a store that is given one request at a time.                *)
(***************************************************************************)
EXTENDS Vaults, TLAPS

Generating == {"generate", "regenerate"}

\* What a call holds fits the point it has reached.
CallOK(c) ==
  /\ pc[c] \in {"read", "encrypt"} => req[c] \in Request
  /\ pc[c] = "encrypt" => req[c].op \in Generating
  /\ pc[c] = "save" => req[c].vault \in Vault
  /\ pc[c] \in {"encrypt", "save"} => /\ held[c] \in VaultRecord
                                      /\ NamesUnique(held[c])
  /\ job[c].kind # "request" => job[c].service \in Service
  /\ job[c].kind = "request" => job[c] = NoJob
  /\ pc[c] \in {"collect", "next"} => job[c].kind # "request"
  /\ pc[c] = "collect" => job[c].kind = "delete"
  /\ pc[c] \in {"idle", "collect"} => todo[c] = {}
  /\ job[c].kind = "store" => todo[c] \subseteq Name
  /\ job[c].kind = "delete" => todo[c] \subseteq SecretId

AllUnique(vaults) ==
  \A v \in Vault : vaults[v] # NoVault => NamesUnique(vaults[v])

\* Every copy of the vaults, wherever it is held, went through the aggregate.
CopiesUnique ==
  /\ disk # Torn => AllUnique(disk)
  /\ \A c \in Call : AllUnique(list[c])

IInv ==
  /\ TypeOK
  /\ \A c \in Call : CallOK(c)
  /\ CopiesUnique

-----------------------------------------------------------------------------
(* The aggregate.                                                          *)

LEMMA NoSecretsUnique ==
  /\ NoSecrets \in [SecretId -> Name \cup {NoName}]
  /\ \A n : NamesUnique([name |-> n, secrets |-> NoSecrets])
BY DEF NoSecrets, NamesUnique

\* A change the aggregate does not refuse leaves its names unique.
LEMMA ChangeKeepsUnique ==
  ASSUME NEW v \in VaultRecord, NamesUnique(v),
         NEW r, r.op \in Op \ {"create", "remove"},
         r.op = "rename" => r.name \in VaultName,
         r.op \in {"delete", "renameSecret"} \cup Generating => r.id \in SecretId,
         r.op \in {"renameSecret"} \cup Generating => r.name \in Name,
         Keeps(r, v)
  PROVE  Changed(r, v) \in VaultRecord /\ NamesUnique(Changed(r, v))
<1> USE DEF VaultRecord, NamesUnique
<1>1. CASE r.op = "rename"
  BY <1>1 DEF Changed
<1>2. CASE r.op = "delete"
  BY <1>2 DEF Changed
<1>3. CASE r.op = "generate"
  <2>1. Changed(r, v) = [v EXCEPT !.secrets[r.id] = r.name]
    BY <1>3 DEF Changed
  <2>2. \A i \in SecretId : v.secrets[i] # r.name
    BY <1>3 DEF Keeps, Named
  <2> QED BY <1>3, <2>1, <2>2 DEF Generating
<1>4. CASE r.op = "renameSecret"
  <2>1. Changed(r, v) = [v EXCEPT !.secrets[r.id] = r.name]
    BY <1>4 DEF Changed
  <2>2. \A i \in SecretId : v.secrets[i] = r.name => i = r.id
    BY <1>4 DEF Keeps, Named
  <2> QED BY <1>4, <2>1, <2>2
<1>5. CASE r.op = "regenerate"
  <2> DEFINE secrets == [i \in SecretId |->
               IF i = r.id THEN r.name
               ELSE IF v.secrets[i] = r.name THEN NoName ELSE v.secrets[i]]
  <2>1. Changed(r, v) = [v EXCEPT !.secrets = secrets]
    BY <1>5 DEF Changed
  <2>2. secrets \in [SecretId -> Name \cup {NoName}]
    BY <1>5 DEF Generating
  <2>3. Changed(r, v).secrets = secrets /\ Changed(r, v) \in VaultRecord
    BY <2>1, <2>2
  <2> QED BY <2>3
<1> QED BY <1>1, <1>2, <1>3, <1>4, <1>5 DEF Op

-----------------------------------------------------------------------------
(* The invariant.                                                          *)

LEMMA InitIInv == Init => IInv
<1> SUFFICES ASSUME Init PROVE IInv
  OBVIOUS
<1> USE DEF Init
<1>1. TypeOK
  BY DEF TypeOK, NoVaults, Vaults, Pc, NoRequest, NoJob
<1>2. \A c \in Call : CallOK(c)
  BY DEF CallOK, NoJob
<1>3. CopiesUnique
  BY DEF CopiesUnique, AllUnique, NoVaults
<1> QED BY <1>1, <1>2, <1>3 DEF IInv

\* Only the fields of c may change, and what c holds still fits.
OnlyOf(c) ==
  /\ pc' = [pc EXCEPT ![c] = pc'[c]]
  /\ req' = [req EXCEPT ![c] = req'[c]]
  /\ job' = [job EXCEPT ![c] = job'[c]]
  /\ todo' = [todo EXCEPT ![c] = todo'[c]]
  /\ held' = [held EXCEPT ![c] = held'[c]]

LEMMA OthersFit ==
  ASSUME NEW c \in Call, TypeOK, \A d \in Call : CallOK(d),
         OnlyOf(c), CallOK(c)'
  PROVE  \A d \in Call : CallOK(d)'
<1> SUFFICES ASSUME NEW d \in Call, d # c PROVE CallOK(d)'
  OBVIOUS
<1>1. /\ pc'[d] = pc[d] /\ req'[d] = req[d] /\ job'[d] = job[d]
      /\ todo'[d] = todo[d] /\ held'[d] = held[d]
  BY DEF OnlyOf, TypeOK
<1> QED BY <1>1 DEF CallOK

\* A call that is over holds nothing.
LEMMA EndKeeps ==
  ASSUME NEW c \in Call, IInv, End(c)
  PROVE  /\ pc' \in [Call -> Pc]
         /\ req' \in [Call -> [op: Op \cup {"none"}, vault: Vault \cup {NoVault},
                              id: SecretId \cup {NoSecret},
                              name: VaultName \cup Name \cup {NoName}]]
         /\ job' \in [Call -> [kind: {"request", "store", "delete"},
                              service: Service \cup {Operator}]]
         /\ todo' \in [Call -> (SUBSET Name) \cup (SUBSET SecretId)]
         /\ held' \in [Call -> VaultRecord \cup {NoVault}]
         /\ list' \in [Call -> Vaults]
         /\ \A d \in Call : CallOK(d)'
         /\ \A d \in Call : AllUnique(list'[d])
<1> USE DEF IInv, TypeOK, End, Goto
<1>1. pc' \in [Call -> Pc]
  BY DEF Pc
<1>2. req' \in [Call -> [op: Op \cup {"none"}, vault: Vault \cup {NoVault},
                        id: SecretId \cup {NoSecret},
                        name: VaultName \cup Name \cup {NoName}]]
  BY DEF NoRequest
<1>3. job' \in [Call -> [kind: {"request", "store", "delete"},
                        service: Service \cup {Operator}]]
  BY DEF NoJob
<1>4. /\ todo' \in [Call -> (SUBSET Name) \cup (SUBSET SecretId)]
      /\ held' \in [Call -> VaultRecord \cup {NoVault}]
  OBVIOUS
<1>5. list' \in [Call -> Vaults]
  BY DEF NoVaults, Vaults
<1>6. CallOK(c)'
  BY DEF CallOK, NoJob
<1>7. \A d \in Call : CallOK(d)'
  BY <1>6, OthersFit DEF OnlyOf
<1>8. \A d \in Call : AllUnique(list'[d])
  BY DEF CopiesUnique, AllUnique, NoVaults
<1> QED BY <1>1, <1>2, <1>3, <1>4, <1>5, <1>7, <1>8

\* Actions that end the call and leave the rest alone.
LEMMA EndingKeeps ==
  ASSUME NEW c \in Call, IInv, End(c), disk' = disk,
         settled' = settled, owner' = owner, born' = born,
         stale' \subseteq stale, raced' \in BOOLEAN
  PROVE  IInv'
<1>1. TypeOK'
  BY EndKeeps DEF IInv, TypeOK
<1>2. CopiesUnique'
  BY EndKeeps DEF IInv, CopiesUnique
<1> QED BY <1>1, <1>2, EndKeeps DEF IInv

\* Actions that leave the file and the copies alone.
LEMMA CopiesUnchanged ==
  ASSUME IInv, disk' = disk, list' = list
  PROVE  CopiesUnique'
BY DEF IInv, CopiesUnique

LEMMA AskKeeps ==
  ASSUME NEW c \in Call, IInv, Ask(c)
  PROVE  IInv'
<1> USE DEF IInv, Ask, Goto, historyVars
<1>0. PICK r \in Request : /\ req' = [req EXCEPT ![c] = r]
                           /\ born' = born \cup {r.vault}
  OBVIOUS
<1>1. r \in [op: Op \cup {"none"}, vault: Vault, id: SecretId \cup {NoSecret},
             name: VaultName \cup Name \cup {NoName}]
  BY DEF Request, Command, Op
<1>2. TypeOK'
  BY <1>0, <1>1 DEF TypeOK, Pc
<1>3. CallOK(c)'
  BY <1>0 DEF CallOK, TypeOK
<1>4. \A d \in Call : CallOK(d)'
  BY <1>3, OthersFit DEF OnlyOf, TypeOK
<1> QED BY <1>2, <1>4, CopiesUnchanged

LEMMA StoreSecretsKeeps ==
  ASSUME NEW c \in Call, NEW s \in Service, IInv, StoreSecrets(c, s)
  PROVE  IInv'
<1> USE DEF IInv, StoreSecrets, Goto, historyVars
<1>1. PublishedBy(s) \subseteq Name
  BY VaultsAssumption DEF PublishedBy, Name
<1>2. TypeOK'
  BY <1>1 DEF TypeOK, Pc, Job
<1>3. CallOK(c)'
  BY <1>1 DEF CallOK, TypeOK, Job
<1>4. \A d \in Call : CallOK(d)'
  BY <1>3, OthersFit DEF OnlyOf, TypeOK
<1> QED BY <1>2, <1>4, CopiesUnchanged

LEMMA DeleteSecretsKeeps ==
  ASSUME NEW c \in Call, NEW s \in Service, IInv, DeleteSecrets(c, s)
  PROVE  IInv'
<1> USE DEF IInv, DeleteSecrets, Goto, historyVars
<1>1. TypeOK'
  BY DEF TypeOK, Pc, Job
<1>2. todo[c] = {}
  BY DEF CallOK
<1>3. CallOK(c)'
  BY <1>2 DEF CallOK, TypeOK, Job
<1>4. \A d \in Call : CallOK(d)'
  BY <1>3, OthersFit DEF OnlyOf, TypeOK
<1> QED BY <1>1, <1>4, CopiesUnchanged

LEMMA CollectKeeps ==
  ASSUME NEW c \in Call, IInv, Collect(c)
  PROVE  IInv'
<1> USE DEF IInv, Collect, Goto, historyVars
<1>1. todo'[c] \subseteq SecretId /\ todo' = [todo EXCEPT ![c] = todo'[c]]
  BY DEF TypeOK, PrefixedBy
<1>0. todo' \in [Call -> (SUBSET Name) \cup (SUBSET SecretId)]
  BY <1>1 DEF TypeOK
<1>2. TypeOK'
  BY <1>0 DEF TypeOK, Pc
<1>3. job[c].kind = "delete"
  BY DEF CallOK, TypeOK
<1>4. CallOK(c)'
  BY <1>1, <1>3 DEF CallOK, TypeOK
<1>5. \A d \in Call : CallOK(d)'
  BY <1>1, <1>4, OthersFit DEF OnlyOf, TypeOK
<1> QED BY <1>2, <1>5, CopiesUnchanged

\* What the policies hand to the handlers are commands.
LEMMA PolicyCommands ==
  ASSUME NEW v \in Vault
  PROVE  /\ \A n \in Name : [op |-> "regenerate", vault |-> v,
                            id |-> NoSecret, name |-> n] \in Request
         /\ \A i \in SecretId : [op |-> "delete", vault |-> v,
                                id |-> i, name |-> NoName] \in Request
BY Z3 DEF Request, Command

LEMMA NextCommandKeeps ==
  ASSUME NEW c \in Call, IInv, NextCommand(c)
  PROVE  IInv'
<1> USE DEF IInv, NextCommand, Goto, historyVars
<1> DEFINE s == job[c].service
<1>1. /\ s \in Service
      /\ job[c].kind = "store" \/ job[c].kind = "delete"
  BY DEF CallOK, TypeOK
<1>2. PICK x \in todo[c] :
        /\ req' = [req EXCEPT ![c] =
             IF job[c].kind = "store"
             THEN [NoRequest EXCEPT !.op = "regenerate", !.vault = VaultOf[s],
                                    !.name = x]
             ELSE [NoRequest EXCEPT !.op = "delete", !.vault = VaultOf[s],
                                    !.id = x]]
        /\ todo' = [todo EXCEPT ![c] = @ \ {x}]
  OBVIOUS
<1>3. VaultOf[s] \in Vault
  BY <1>1, VaultsAssumption
<1>4. req'[c] \in Request
  <2>1. CASE job[c].kind = "store"
    <3>1. x \in Name
      BY <1>2, <2>1 DEF CallOK
    <3>2. req'[c] = [op |-> "regenerate", vault |-> VaultOf[s],
                     id |-> NoSecret, name |-> x]
      BY <1>2, <2>1 DEF NoRequest, TypeOK
    <3> QED BY <1>3, <3>1, <3>2, PolicyCommands
  <2>2. CASE job[c].kind = "delete"
    <3>1. x \in SecretId
      BY <1>2, <2>2 DEF CallOK
    <3>2. req'[c] = [op |-> "delete", vault |-> VaultOf[s],
                     id |-> x, name |-> NoName]
      BY <1>2, <2>2 DEF NoRequest, TypeOK
    <3> QED BY <1>3, <3>1, <3>2, PolicyCommands
  <2> QED BY <1>1, <2>1, <2>2
<1>5. req'[c] \in [op: Op \cup {"none"}, vault: Vault \cup {NoVault},
                  id: SecretId \cup {NoSecret},
                  name: VaultName \cup Name \cup {NoName}]
  BY <1>4 DEF Request, Command, Op
<1>6. req' = [req EXCEPT ![c] = req'[c]]
  BY <1>2 DEF TypeOK
<1>7. todo' \in [Call -> (SUBSET Name) \cup (SUBSET SecretId)]
  BY <1>2 DEF TypeOK
<1>8. TypeOK'
  BY <1>5, <1>6, <1>7 DEF TypeOK, Pc
<1>9. CallOK(c)'
  BY <1>1, <1>2, <1>4 DEF CallOK, TypeOK
<1>10. \A d \in Call : CallOK(d)'
  BY <1>2, <1>6, <1>9, OthersFit DEF OnlyOf, TypeOK
<1> QED BY <1>8, <1>10, CopiesUnchanged

\* What a load or an encryption has changed is a vault with unique names.
LEMMA LoadKeeps ==
  ASSUME NEW c \in Call, IInv, Load(c)
  PROVE  IInv'
<1> USE DEF IInv
<1> DEFINE r == req[c]
<1>1. /\ r \in Request /\ r.op # "remove" /\ disk # Torn
      /\ r.op # "create" => disk[r.vault] # NoVault
      /\ r.op \in {"delete", "renameSecret"} => Keeps(r, disk[r.vault])
  BY DEF Load, CallOK, Refuses
<1>2. r.vault \in Vault /\ r.op \in Op
  BY <1>1 DEF Request, Command, Op
<1>3. disk \in Vaults /\ AllUnique(disk)
  BY <1>1 DEF TypeOK, CopiesUnique
<1>4. r.op # "create" => /\ disk[r.vault] \in VaultRecord
                         /\ NamesUnique(disk[r.vault])
  BY <1>1, <1>2, <1>3 DEF Vaults, AllUnique
<1>5. held'[c] \in VaultRecord /\ NamesUnique(held'[c])
  <2>1. held'[c] = CASE r.op = "create" -> [name |-> r.name, secrets |-> NoSecrets]
                     [] r.op \in Generating -> disk[r.vault]
                     [] OTHER -> Changed(r, disk[r.vault])
    BY DEF Load, TypeOK, Generating
  <2>2. CASE r.op = "create"
    <3>1. r.name \in VaultName
      BY <1>1, <2>2 DEF Request, Command
    <3>2. held'[c] = [name |-> r.name, secrets |-> NoSecrets]
      BY <2>2 DEF Load, TypeOK
    <3> HIDE DEF r
    <3> QED BY <3>1, <3>2, NoSecretsUnique DEF VaultRecord
  <2>3. CASE r.op \in Generating
    BY <1>4, <2>1, <2>3 DEF Generating
  <2>4. CASE r.op \in {"rename", "delete", "renameSecret"}
    <3>1. /\ r.op = "rename" => r.name \in VaultName
          /\ r.op \in {"delete", "renameSecret"} => r.id \in SecretId
          /\ r.op = "renameSecret" => r.name \in Name
      BY <1>1, <2>4 DEF Request, Command
    <3>2. Keeps(r, disk[r.vault])
      BY <1>1, <2>4 DEF Keeps
    <3>3. /\ Changed(r, disk[r.vault]) \in VaultRecord
          /\ NamesUnique(Changed(r, disk[r.vault]))
      BY <1>2, <1>4, <2>4, <3>1, <3>2, ChangeKeepsUnique DEF Generating
    <3> QED BY <2>1, <2>4, <3>3 DEF Generating
  <2> QED BY <1>1, <1>2, <2>2, <2>3, <2>4 DEF Op, Generating
<1>6. held' = [held EXCEPT ![c] = held'[c]]
  BY DEF Load, TypeOK
<1>7. TypeOK'
  BY <1>5, <1>6 DEF TypeOK, Load, Goto, Pc, ReadMark
<1>8. CallOK(c)'
  BY <1>1, <1>2, <1>5 DEF CallOK, TypeOK, Load, Goto, Generating
<1>9. \A d \in Call : CallOK(d)'
  BY <1>6, <1>8, OthersFit DEF OnlyOf, TypeOK, Load, Goto
<1> QED BY <1>7, <1>9, CopiesUnchanged DEF Load

LEMMA LoadRemoveKeeps ==
  ASSUME NEW c \in Call, IInv, LoadRemove(c)
  PROVE  IInv'
<1> USE DEF IInv, LoadRemove, Goto
<1>1. req[c] \in Request /\ disk # Torn
  BY DEF CallOK, Refuses
<1>2. req[c].vault \in Vault /\ disk \in Vaults /\ AllUnique(disk)
  BY <1>1 DEF Request, Command, TypeOK, CopiesUnique
<1>3. /\ list'[c] \in Vaults /\ AllUnique(list'[c])
      /\ list' = [list EXCEPT ![c] = list'[c]]
  BY <1>2 DEF TypeOK, Vaults, AllUnique
<1>4. TypeOK'
  BY <1>3 DEF TypeOK, Pc, ReadMark
<1>5. CallOK(c)'
  BY DEF CallOK, TypeOK
<1>6. \A d \in Call : CallOK(d)'
  BY <1>5, OthersFit DEF OnlyOf, TypeOK
<1>7. CopiesUnique'
  BY <1>3 DEF CopiesUnique, TypeOK
<1> QED BY <1>4, <1>6, <1>7

LEMMA EncryptKeeps ==
  ASSUME NEW c \in Call, IInv, Encrypt(c)
  PROVE  IInv'
<1> USE DEF IInv
<1>1. /\ req[c] \in Request /\ req[c].op \in Generating
      /\ held[c] \in VaultRecord /\ NamesUnique(held[c])
  BY DEF Encrypt, CallOK
<1>2. PICK i \in SecretId :
        LET r == [req[c] EXCEPT !.id = i] IN
        /\ Keeps(r, held[c])
        /\ req' = [req EXCEPT ![c] = r]
        /\ held' = [held EXCEPT ![c] = Changed(r, @)]
        /\ owner' = [owner EXCEPT ![i] = job[c].service]
  BY DEF Encrypt
<1> DEFINE r == [req[c] EXCEPT !.id = i]
<1>3. /\ r.op \in Generating /\ r.id \in SecretId /\ r.name \in Name
      /\ r.vault \in Vault
      /\ r \in [op: Op \cup {"none"}, vault: Vault \cup {NoVault},
               id: SecretId \cup {NoSecret},
               name: VaultName \cup Name \cup {NoName}]
  BY <1>1 DEF Request, Command, Op, Generating
<1>4. Changed(r, held[c]) \in VaultRecord /\ NamesUnique(Changed(r, held[c]))
  <2> HIDE DEF r
  <2> QED BY <1>1, <1>2, <1>3, ChangeKeepsUnique DEF Generating, Op, r
<1>5. /\ req'[c] = r /\ req' = [req EXCEPT ![c] = r]
      /\ held'[c] = Changed(r, held[c])
      /\ held' = [held EXCEPT ![c] = Changed(r, held[c])]
  BY <1>2 DEF TypeOK
<1>6. owner' \in [SecretId -> Service \cup {Operator, NoSecret}]
  BY <1>2 DEF TypeOK
<1> HIDE DEF r
<1>7. TypeOK'
  BY <1>3, <1>4, <1>5, <1>6 DEF TypeOK, Encrypt, Goto, Pc
<1>8. CallOK(c)'
  BY <1>3, <1>4, <1>5 DEF CallOK, TypeOK, Encrypt, Goto
<1>9. \A d \in Call : CallOK(d)'
  BY <1>5, <1>8, OthersFit DEF OnlyOf, TypeOK, Encrypt, Goto
<1> QED BY <1>7, <1>9, CopiesUnchanged DEF Encrypt

LEMMA SaveKeeps ==
  ASSUME NEW c \in Call, IInv, Save(c)
  PROVE  IInv'
<1> USE DEF IInv, Save, Goto
<1>1. /\ req[c].vault \in Vault /\ disk \in Vaults /\ AllUnique(disk)
      /\ held[c] \in VaultRecord /\ NamesUnique(held[c])
  BY DEF CallOK, TypeOK, CopiesUnique
<1>2. /\ list'[c] \in Vaults /\ AllUnique(list'[c])
      /\ list' = [list EXCEPT ![c] = list'[c]]
  BY <1>1 DEF TypeOK, Vaults, AllUnique
<1>3. TypeOK'
  BY <1>2 DEF TypeOK, Pc
<1>4. CallOK(c)'
  BY DEF CallOK, TypeOK
<1>5. \A d \in Call : CallOK(d)'
  BY <1>4, OthersFit DEF OnlyOf, TypeOK
<1>6. CopiesUnique'
  BY <1>2 DEF CopiesUnique, TypeOK
<1> QED BY <1>3, <1>5, <1>6

LEMMA OpenKeeps ==
  ASSUME NEW c \in Call, IInv, Open(c)
  PROVE  IInv'
<1> USE DEF IInv, Open, Goto, historyVars
<1>1. TypeOK'
  BY DEF TypeOK, Pc, Truncated, NoVaults, Vaults
<1>2. CallOK(c)'
  BY DEF CallOK, TypeOK
<1>3. \A d \in Call : CallOK(d)'
  BY <1>2, OthersFit DEF OnlyOf, TypeOK
<1>4. CopiesUnique'
  BY DEF CopiesUnique, Truncated, NoVaults, AllUnique
<1> QED BY <1>1, <1>3, <1>4

LEMMA WriteKeeps ==
  ASSUME NEW c \in Call, IInv, Write(c)
  PROVE  IInv'
<1> USE DEF IInv
<1>1. list[c] \in Vaults /\ AllUnique(list[c])
  BY DEF TypeOK, CopiesUnique
<1>2. disk' \in {list[c], Torn} /\ settled' = list[c]
  BY DEF Write, Filled
<1>3. stale' \subseteq Call /\ raced' \in BOOLEAN
  BY DEF Write, TypeOK, MadeStale
<1>4. CASE job[c] = NoJob
  <2>1. End(c)
    BY <1>4 DEF Write
  <2>2. TypeOK'
    BY <1>1, <1>2, <1>3, <2>1, EndKeeps DEF TypeOK, Write
  <2>3. CopiesUnique'
    BY <1>1, <1>2, <2>1, EndKeeps DEF CopiesUnique
  <2> QED BY <2>1, <2>2, <2>3, EndKeeps
<1>5. CASE job[c] # NoJob
  <2>1. /\ Goto(c, "next")
        /\ req' = [req EXCEPT ![c] = NoRequest]
        /\ held' = [held EXCEPT ![c] = NoVault]
        /\ list' = [list EXCEPT ![c] = NoVaults]
        /\ UNCHANGED <<job, todo>>
    BY <1>5 DEF Write
  <2>2. TypeOK'
    BY <1>1, <1>2, <1>3, <2>1
       DEF TypeOK, Write, Goto, Pc, NoRequest, NoVaults, Vaults
  <2>3. job[c].kind # "request"
    BY <1>5 DEF CallOK, NoJob, TypeOK
  <2>4. CallOK(c)'
    BY <2>1, <2>3 DEF CallOK, TypeOK, Goto
  <2>5. \A d \in Call : CallOK(d)'
    BY <2>1, <2>4, OthersFit DEF OnlyOf, TypeOK, Goto
  <2>6. CopiesUnique'
    BY <1>1, <1>2, <2>1 DEF CopiesUnique, AllUnique, NoVaults, TypeOK
  <2> QED BY <2>2, <2>5, <2>6
<1> QED BY <1>4, <1>5

LEMMA NextKeepsIInv ==
  ASSUME IInv, [Next]_vars
  PROVE  IInv'
<1>1. CASE UNCHANGED vars
  BY <1>1 DEF vars, IInv, TypeOK, CallOK, CopiesUnique, AllUnique
<1>2. ASSUME NEW c \in Call,
             \/ PolicyEnds(c) \/ Refuse(c) \/ EncryptRefused(c)
             \/ SaveThrows(c) \/ Die(c)
      PROVE  IInv'
  BY <1>2, EndingKeeps DEF PolicyEnds, Refuse, EncryptRefused, SaveThrows,
                           Die, historyVars, IInv, TypeOK
<1>3. ASSUME NEW c \in Call, NEW s \in Service,
             StoreSecrets(c, s) \/ DeleteSecrets(c, s)
      PROVE  IInv'
  BY <1>3, StoreSecretsKeeps, DeleteSecretsKeeps
<1> QED
  BY <1>1, <1>2, <1>3, AskKeeps, CollectKeeps, NextCommandKeeps, LoadKeeps,
     LoadRemoveKeeps, EncryptKeeps, SaveKeeps, OpenKeeps, WriteKeeps
     DEF Next

LEMMA Invariance == Spec => []IInv
<1>1. Init => IInv
  BY InitIInv
<1>2. IInv /\ [Next]_vars => IInv'
  BY NextKeepsIInv
<1> QED BY <1>1, <1>2, PTL DEF Spec

\* Every variable of Vaults always has its type.
THEOREM VaultTypes == Spec => []TypeOK
<1>1. IInv => TypeOK
  BY DEF IInv
<1> QED BY <1>1, Invariance, PTL

\* Whatever calls overlap and whichever copy is written last, a vault that
\* can be read never has two secrets of one name.
THEOREM NamesStayUnique == Spec => []OneSecretPerName
<1>1. IInv => OneSecretPerName
  BY DEF IInv, CopiesUnique, AllUnique, OneSecretPerName
<1> QED BY <1>1, Invariance, PTL

-----------------------------------------------------------------------------
(* The file between writes.                                                *)

LEMMA WholeInit == Init => WholeBetweenWrites
BY DEF Init, WholeBetweenWrites

\* A write that is neither stale nor beside another leaves what it was to
\* write; beside another, the other is now stale and will race.
LEMMA WholeStep ==
  ASSUME TypeOK, WholeBetweenWrites, [Next]_vars
  PROVE  WholeBetweenWrites'
<1> SUFFICES ASSUME ~raced', \A c \in Call : ~Writing(c)'
             PROVE  disk' = settled'
  BY DEF WholeBetweenWrites
<1>1. CASE UNCHANGED vars
  BY <1>1 DEF vars, WholeBetweenWrites, Writing
<1>2. ASSUME NEW c \in Call, Write(c)
      PROVE  disk' = settled'
  <2>1. ASSUME NEW d \in Call \ {c} PROVE ~Writing(d)
    BY <1>2, <2>1 DEF Write, Writing, End, Goto, TypeOK
  <2>2. ~Beside(c)
    BY <2>1 DEF Beside
  <2> QED BY <1>2, <2>2 DEF Write, Filled
<1>3. ASSUME NEW c \in Call, Die(c)
      PROVE  disk' = settled'
  <2>1. ~raced /\ ~Writing(c)
    BY <1>3 DEF Die
  <2>2. \A d \in Call \ {c} : ~Writing(d)
    BY <1>3 DEF Die, End, Goto, TypeOK, Writing
  <2> QED BY <1>3, <2>1, <2>2 DEF Die, WholeBetweenWrites
<1>4. ASSUME NEW c \in Call, Open(c)
      PROVE  FALSE
  BY <1>4 DEF Open, Goto, Writing, TypeOK
<1>5. ASSUME NEW c \in Call, pc[c] # "write", NEW to, Goto(c, to),
             disk' = disk, settled' = settled, raced' = raced
      PROVE  disk' = settled'
  <2>1. \A d \in Call : ~Writing(d)
    BY <1>5 DEF Goto, Writing, TypeOK
  <2> QED BY <1>5, <2>1 DEF WholeBetweenWrites
<1>6. ASSUME NEW c \in Call,
             \/ Ask(c) \/ Collect(c) \/ NextCommand(c) \/ PolicyEnds(c)
             \/ Refuse(c) \/ Load(c) \/ LoadRemove(c) \/ Encrypt(c)
             \/ EncryptRefused(c) \/ Save(c) \/ SaveThrows(c)
      PROVE  /\ pc[c] # "write" /\ \E to : Goto(c, to)
             /\ disk' = disk /\ settled' = settled /\ raced' = raced
  BY <1>6 DEF Ask, Collect, NextCommand, PolicyEnds, Refuse, Load, LoadRemove,
              Encrypt, EncryptRefused, Save, SaveThrows, End, historyVars
<1>7. ASSUME NEW c \in Call, NEW s \in Service,
             StoreSecrets(c, s) \/ DeleteSecrets(c, s)
      PROVE  /\ pc[c] # "write" /\ \E to : Goto(c, to)
             /\ disk' = disk /\ settled' = settled /\ raced' = raced
  BY <1>7 DEF StoreSecrets, DeleteSecrets, historyVars
<1> QED
  BY <1>1, <1>2, <1>3, <1>4, <1>5, <1>6, <1>7 DEF Next

\* Unless a stale copy was written or a write cut short, the file is whole
\* and parses whenever nobody is writing it.
THEOREM FileIsWhole == Spec => []WholeBetweenWrites
<1>1. Init => WholeBetweenWrites
  BY WholeInit
<1>2. TypeOK /\ WholeBetweenWrites /\ [Next]_vars => WholeBetweenWrites'
  BY WholeStep
<1> QED BY <1>1, <1>2, VaultTypes, PTL DEF Spec

-----------------------------------------------------------------------------
(* The store.  A new secret is in no copy but its call's, a new vault in   *)
(* none but its creator's; so while nobody has raced, a copy that is not   *)
(* stale is the settled vaults with the request of its call applied.       *)

\* What is asked of the aggregate once the id of a new secret is minted.
Settles(r) ==
  /\ r.vault \in Vault /\ r.op \in Op
  /\ r.op \in {"delete", "renameSecret"} \cup Generating => r.id \in SecretId
  /\ r.op \in {"renameSecret"} \cup Generating => r.name \in Name
  /\ r.op \in {"create", "rename"} => r.name \in VaultName

Reached(c) == pc[c] \in {"save", "open", "write"}
InHand(c) == pc[c] \in {"encrypt", "save"}
Listed(c) == pc[c] \in {"open", "write"}

Lacks(x, i) == x # NoVault => x.secrets[i] = NoName
NoneHas(vaults, i) == \A v \in Vault : Lacks(vaults[v], i)

\* The secret i is in no copy but those of the calls C.
AbsentBut(i, C) ==
  /\ disk # Torn => NoneHas(disk, i)
  /\ NoneHas(settled, i)
  /\ \A d \in Call \ C : Lacks(held[d], i) /\ NoneHas(list[d], i)

Mints(c) == Reached(c) /\ req[c].op \in Generating

IdsFresh ==
  /\ \A i \in SecretId : owner[i] = NoSecret => AbsentBut(i, {})
  /\ \A c \in Call : \A i \in SecretId : Mints(c) /\ req[c].id = i =>
       owner[i] # NoSecret /\ AbsentBut(i, {c})

Creates(c) == req[c].op = "create"

\* The vault v is in no copy but those of the calls C.
UnusedBut(v, C) ==
  /\ disk # Torn => disk[v] = NoVault
  /\ settled[v] = NoVault
  /\ \A d \in Call \ C :
       /\ list[d][v] = NoVault
       /\ InHand(d) \/ Creates(d) => req[d].vault # v

VaultsFresh ==
  /\ \A v \in Vault \ born : UnusedBut(v, {})
  /\ \A c \in Call : \A v \in Vault : Creates(c) /\ req[c].vault = v =>
       v \in born /\ UnusedBut(v, {c})

\* What r makes of a vault it is applied to.
Outcome(r, old, new) ==
  \/ /\ r.op = "create" /\ old = NoVault
     /\ new = [name |-> r.name, secrets |-> NoSecrets]
  \/ r.op = "remove" /\ old # NoVault /\ new = NoVault
  \/ /\ r.op \in Op \ {"create", "remove"} /\ old # NoVault
     /\ Keeps(r, old) /\ new = Changed(r, old)

CurrentOf(c) ==
  LET r == req[c] IN
  /\ pc[c] = "encrypt" =>
       settled[r.vault] # NoVault /\ held[c] = settled[r.vault]
  /\ pc[c] = "save" =>
       r.op # "remove" /\ Outcome(r, settled[r.vault], held[c])
  /\ Listed(c) =>
       /\ Outcome(r, settled[r.vault], list[c][r.vault])
       /\ list[c] = [settled EXCEPT ![r.vault] = list[c][r.vault]]

Current == ~raced => \A c \in Call \ stale : CurrentOf(c)

SInv ==
  /\ IInv /\ WholeBetweenWrites /\ AllUnique(settled)
  /\ \A c \in Call : Reached(c) => Settles(req[c])
  /\ IdsFresh /\ VaultsFresh /\ Current

\* The steps of one call that touch neither the file nor its history.
Aside(c) ==
  \/ Ask(c) \/ Collect(c) \/ NextCommand(c) \/ PolicyEnds(c) \/ Refuse(c)
  \/ EncryptRefused(c) \/ SaveThrows(c)
  \/ \E s \in Service : StoreSecrets(c, s) \/ DeleteSecrets(c, s)

LEMMA Actions ==
  ASSUME [Next]_vars
  PROVE  \/ UNCHANGED vars
         \/ \E c \in Call : \/ Aside(c) \/ Load(c) \/ LoadRemove(c)
                            \/ Encrypt(c) \/ Save(c) \/ Open(c) \/ Write(c)
                            \/ Die(c)
BY DEF Next, Aside

\* What a call puts aside.
LEMMA AsideDoes ==
  ASSUME IInv, NEW c \in Call, Aside(c)
  PROVE  /\ UNCHANGED <<disk, settled, owner, stale, raced>>
         /\ pc'[c] \in {"idle", "collect", "next", "read"}
         /\ held' = [held EXCEPT ![c] = held'[c]] /\ held'[c] \in {held[c], NoVault}
         /\ list' = [list EXCEPT ![c] = list'[c]] /\ list'[c] \in {list[c], NoVaults}
         /\ \A d \in Call \ {c} : pc'[d] = pc[d] /\ req'[d] = req[d]
         /\ born \subseteq born'
         /\ \/ born' = born /\ (req'[c].op # "create" \/ req'[c] = req[c])
            \/ /\ born' = born \cup {req'[c].vault} /\ req'[c].vault \in Vault
               /\ Creates(c)' => req'[c].vault \notin born
<1> USE DEF IInv, TypeOK
<1>1. CASE PolicyEnds(c) \/ Refuse(c) \/ EncryptRefused(c) \/ SaveThrows(c)
  <2>1. End(c) /\ UNCHANGED <<disk, settled, owner, stale, raced, born>>
    BY <1>1 DEF PolicyEnds, Refuse, EncryptRefused, SaveThrows, historyVars
  <2> QED
    BY <2>1 DEF End, Goto, NoRequest
<1>2. CASE Ask(c)
  <2>1. PICK r \in Request : /\ r.op = "create" => r.vault \notin born
                             /\ req' = [req EXCEPT ![c] = r]
                             /\ born' = born \cup {r.vault}
    BY <1>2 DEF Ask
  <2>2. r.vault \in Vault
    BY DEF Request, Command
  <2> QED
    BY <1>2, <2>1, <2>2 DEF Ask, Goto, Creates
<1>3. CASE NextCommand(c)
  <2>1. req'[c].op \in {"regenerate", "delete"}
    BY <1>3 DEF NextCommand, NoRequest
  <2> QED
    BY <1>3, <2>1 DEF NextCommand, Goto, historyVars
<1>4. CASE Collect(c)
  BY <1>4 DEF Collect, Goto, historyVars
<1>5. ASSUME NEW s \in Service, StoreSecrets(c, s) \/ DeleteSecrets(c, s)
      PROVE  /\ pc' \in {[pc EXCEPT ![c] = "next"], [pc EXCEPT ![c] = "collect"]}
             /\ UNCHANGED <<disk, req, held, list, settled, owner, stale, raced, born>>
  BY <1>5 DEF StoreSecrets, DeleteSecrets, Goto, historyVars
<1> QED
  BY <1>1, <1>2, <1>3, <1>4, <1>5 DEF Aside

\* What a request leaves out of a vault stays out, but for a new secret.
LEMMA ChangedLacks ==
  ASSUME NEW x \in VaultRecord, NEW r, Settles(r), NEW i \in SecretId,
         Lacks(x, i), r.op \notin {"create", "remove"},
         r.op \in Generating => r.id # i, Keeps(r, x)
  PROVE  Lacks(Changed(r, x), i)
<1>1. x # NoVault
  BY VaultsAssumption
<1>2. x.secrets[i] = NoName /\ x.secrets \in [SecretId -> Name \cup {NoName}]
  BY <1>1 DEF Lacks, VaultRecord
<1>3. CASE r.op = "rename"
  BY <1>2, <1>3 DEF Changed, Lacks, VaultRecord
<1>4. CASE r.op = "delete"
  BY <1>2, <1>4 DEF Changed, Lacks, VaultRecord
<1>5. CASE r.op = "renameSecret"
  <2>1. r.id # i
    BY <1>2, <1>5 DEF Keeps
  <2> QED
    BY <1>2, <1>5, <2>1 DEF Changed, Lacks, VaultRecord
<1>6. CASE r.op = "generate"
  BY <1>2, <1>6 DEF Changed, Lacks, VaultRecord, Generating
<1>7. CASE r.op = "regenerate"
  BY <1>2, <1>7 DEF Changed, Lacks, VaultRecord, Generating
<1> QED
  BY <1>3, <1>4, <1>5, <1>6, <1>7 DEF Settles, Op

LEMMA CopiesOfOthers ==
  ASSUME NEW i, NEW C, AbsentBut(i, C), NEW c \in Call, UNCHANGED settled,
         disk' # Torn => NoneHas(disk', i),
         \A d \in Call \ {c} : held'[d] = held[d] /\ list'[d] = list[d],
         c \notin C => Lacks(held'[c], i) /\ NoneHas(list'[c], i)
  PROVE  AbsentBut(i, C)'
BY DEF AbsentBut, NoneHas, Lacks

\* What is read in one piece.
LEMMA ReadWell ==
  ASSUME IInv, NEW c \in Call, pc[c] = "read", ~Refuses(req[c])
  PROVE  LET r == req[c] IN
         /\ disk \in Vaults /\ disk # Torn
         /\ r \in Request /\ r.vault \in Vault /\ r.op \in Op
         /\ r.op \notin Generating => Settles(r)
         /\ r.op # "create" => /\ disk[r.vault] # NoVault
                               /\ disk[r.vault] \in VaultRecord
         /\ r.op \notin {"create", "remove", "generate", "regenerate"} =>
              Keeps(r, disk[r.vault])
<1> DEFINE r == req[c]
<1>1. /\ disk \in Vaults /\ disk # Torn /\ r \in Request
      /\ r.op # "create" => disk[r.vault] # NoVault
      /\ r.op \in {"delete", "renameSecret"} => Keeps(r, disk[r.vault])
  BY DEF IInv, TypeOK, CallOK, Refuses
<1>2. /\ r.vault \in Vault /\ r.op \in Op
      /\ r.op \in {"delete", "renameSecret"} => r.id \in SecretId
      /\ r.op = "renameSecret" => r.name \in Name
      /\ r.op \in {"create", "rename"} => r.name \in VaultName
  BY <1>1 DEF Request, Command, Op
<1>3. r.op # "create" => disk[r.vault] \in VaultRecord
  BY <1>1, <1>2 DEF Vaults
<1>4. r.op = "rename" => Keeps(r, disk[r.vault])
  BY DEF Keeps
<1> HIDE DEF r
<1> QED
  BY <1>1, <1>2, <1>3, <1>4 DEF Settles, Generating, Op, r

\* A secret stays absent but where its id is minted, or a copy that has it is
\* written.
LEMMA AbsentStays ==
  ASSUME SInv, [Next]_vars, NEW i \in SecretId, NEW C, AbsentBut(i, C),
         \A c \in C : ~Write(c),
         \A c \in Call \ C : Encrypt(c) => owner'[i] = owner[i]
  PROVE  AbsentBut(i, C)'
<1> USE DEF SInv
<1>t. TypeOK
  BY DEF IInv
<1>1. \A d : list'[d] = NoVaults => NoneHas(list'[d], i)
  BY DEF NoneHas, NoVaults, Lacks
<1>2. ASSUME NEW c \in Call, Aside(c) \/ Die(c)
      PROVE  AbsentBut(i, C)'
  <2>1. /\ UNCHANGED <<disk, settled>>
        /\ held' = [held EXCEPT ![c] = held'[c]] /\ held'[c] \in {held[c], NoVault}
        /\ list' = [list EXCEPT ![c] = list'[c]] /\ list'[c] \in {list[c], NoVaults}
    BY <1>2, <1>t, AsideDoes DEF Die, End, TypeOK
  <2>2. c \notin C => Lacks(held'[c], i) /\ NoneHas(list'[c], i)
    BY <1>1, <2>1 DEF AbsentBut, Lacks
  <2>3. \A d \in Call \ {c} : held'[d] = held[d] /\ list'[d] = list[d]
    BY <1>t, <2>1 DEF TypeOK
  <2>4. disk' # Torn => NoneHas(disk', i)
    BY <2>1 DEF AbsentBut
  <2> QED
    BY <2>1, <2>2, <2>3, <2>4, CopiesOfOthers
<1>3. ASSUME NEW c \in Call, Load(c)
      PROVE  AbsentBut(i, C)'
  <2> DEFINE r == req[c]
  <2>1. /\ UNCHANGED <<disk, settled, list>> /\ pc[c] = "read" /\ ~Refuses(r)
        /\ r.op # "remove"
        /\ held'[c] = CASE r.op = "create" -> [name |-> r.name, secrets |-> NoSecrets]
                        [] r.op \in Generating -> disk[r.vault]
                        [] OTHER -> Changed(r, disk[r.vault])
        /\ \A d \in Call \ {c} : held'[d] = held[d]
    BY <1>3, <1>t DEF Load, TypeOK, Generating
  <2>2. disk # Torn /\ r.vault \in Vault /\ Lacks(disk[r.vault], i)
    BY <2>1, ReadWell DEF AbsentBut, NoneHas
  <2>3. Lacks(held'[c], i)
    <3>1. CASE r.op = "create"
      <4>1. held'[c] = [name |-> r.name, secrets |-> NoSecrets]
        BY <1>3, <1>t, <3>1 DEF Load, TypeOK
      <4>2. held'[c].secrets = NoSecrets
        BY <4>1
      <4> QED
        BY <4>2 DEF Lacks, NoSecrets
    <3>2. CASE r.op \in Generating
      BY <2>1, <2>2, <3>2 DEF Generating
    <3>3. CASE r.op \notin {"create", "remove"} \cup Generating
      <4>1. /\ Settles(r) /\ disk[r.vault] \in VaultRecord
            /\ Keeps(r, disk[r.vault])
        BY <2>1, <3>3, ReadWell DEF Generating
      <4>2. Lacks(Changed(r, disk[r.vault]), i)
        BY <2>2, <3>3, <4>1, ChangedLacks
      <4> QED
        BY <2>1, <3>3, <4>2
    <3> QED
      BY <2>1, <3>1, <3>2, <3>3
  <2>4. \A d \in Call \ {c} : held'[d] = held[d] /\ list'[d] = list[d]
    BY <2>1
  <2>5. /\ disk' # Torn => NoneHas(disk', i)
        /\ c \notin C => NoneHas(list'[c], i)
    BY <2>1 DEF AbsentBut
  <2> QED
    BY <2>1, <2>3, <2>4, <2>5, CopiesOfOthers
<1>4. ASSUME NEW c \in Call, LoadRemove(c) \/ Save(c)
      PROVE  AbsentBut(i, C)'
  <2>1. /\ UNCHANGED <<disk, settled, held>> /\ disk # Torn /\ disk \in Vaults
        /\ \A d \in Call \ {c} : list'[d] = list[d]
        /\ \E x \in {NoVault, held[c]} :
             list'[c] = [disk EXCEPT ![req[c].vault] = x]
    BY <1>4, <1>t, ReadWell DEF LoadRemove, Save, TypeOK, Refuses
  <2>2. c \notin C => Lacks(held'[c], i) /\ NoneHas(list'[c], i)
    BY <2>1 DEF AbsentBut, NoneHas, Lacks, Vaults
  <2>3. disk' # Torn => NoneHas(disk', i)
    BY <2>1 DEF AbsentBut
  <2> QED
    BY <2>1, <2>2, <2>3, CopiesOfOthers
<1>5. ASSUME NEW c \in Call, Encrypt(c)
      PROVE  AbsentBut(i, C)'
  <2>1. PICK j \in SecretId :
          LET r == [req[c] EXCEPT !.id = j] IN
          /\ owner[j] = NoSecret /\ Keeps(r, held[c])
          /\ held' = [held EXCEPT ![c] = Changed(r, @)]
          /\ owner' = [owner EXCEPT ![j] = job[c].service]
    BY <1>5 DEF Encrypt
  <2> DEFINE r == [req[c] EXCEPT !.id = j]
  <2>2. CASE c \notin C
    <3>1. owner'[j] # NoSecret
      <4>1. job[c].service \in Service \cup {Operator}
        BY <1>t DEF TypeOK
      <4> QED
        BY <1>t, <2>1, <4>1, VaultsAssumption DEF TypeOK
    <3>2. j # i
      BY <1>5, <2>1, <2>2, <3>1
    <3>3. req[c] \in Request /\ req[c].op \in Generating /\ held[c] \in VaultRecord
      BY <1>5 DEF IInv, CallOK, Encrypt
    <3>4. Settles(r) /\ r.op \in Generating /\ r.id = j
      BY <3>3 DEF Request, Command, Settles, Op, Generating
    <3>5. Lacks(held[c], i)
      BY <2>2 DEF AbsentBut
    <3> HIDE DEF r
    <3>6. Lacks(Changed(r, held[c]), i)
      BY <2>1, <3>2, <3>3, <3>4, <3>5, ChangedLacks DEF Generating, r
    <3>7. held'[c] = Changed(r, held[c])
      BY <1>t, <2>1 DEF TypeOK, r
    <3>8. \A d \in Call \ {c} : held'[d] = held[d]
      BY <1>t, <2>1 DEF TypeOK
    <3>9. UNCHANGED <<disk, settled, list>>
      BY <1>5 DEF Encrypt
    <3>10. Lacks(held'[c], i) /\ NoneHas(list'[c], i)
           /\ (disk' # Torn => NoneHas(disk', i))
      BY <2>2, <3>6, <3>7, <3>9 DEF AbsentBut
    <3> QED
      BY <3>8, <3>9, <3>10, CopiesOfOthers
  <2>3. CASE c \in C
    <3>1. /\ UNCHANGED <<disk, settled, list>>
          /\ \A d \in Call \ {c} : held'[d] = held[d]
      BY <1>5, <1>t, <2>1 DEF Encrypt, TypeOK
    <3> QED
      BY <2>3, <3>1, CopiesOfOthers DEF AbsentBut
  <2> QED
    BY <2>2, <2>3
<1>6. ASSUME NEW c \in Call, Open(c)
      PROVE  AbsentBut(i, C)'
  BY <1>6 DEF Open, Truncated, AbsentBut, NoneHas, Lacks, NoVaults, historyVars
<1>7. ASSUME NEW c \in Call, Write(c)
      PROVE  AbsentBut(i, C)'
  <2>1. NoneHas(list[c], i)
    BY <1>7 DEF AbsentBut
  <2>2. /\ settled' = list[c] /\ disk' \in {list[c], Torn}
    BY <1>7 DEF Write, Filled
  <2>3. /\ \A d \in Call \ {c} : held'[d] = held[d] /\ list'[d] = list[d]
        /\ held'[c] = NoVault /\ list'[c] = NoVaults
    BY <1>7, <1>t DEF Write, End, TypeOK
  <2>4. \A d \in Call \ C : Lacks(held'[d], i) /\ NoneHas(list'[d], i)
    BY <1>1, <2>3 DEF AbsentBut, Lacks
  <2>5. NoneHas(settled', i) /\ (disk' # Torn => NoneHas(disk', i))
    BY <2>1, <2>2
  <2> QED
    BY <2>4, <2>5 DEF AbsentBut, NoneHas, Lacks
<1>8. CASE UNCHANGED vars
  BY <1>8 DEF vars, AbsentBut, NoneHas, Lacks
<1> QED
  BY <1>2, <1>3, <1>4, <1>5, <1>6, <1>7, <1>8, Actions

\* How a call comes to have a new secret, or to be creating a vault.
LEMMA MintsAfter ==
  ASSUME SInv, [Next]_vars, NEW c \in Call, Mints(c)'
  PROVE  \/ Mints(c) /\ req'[c] = req[c] /\ ~Write(c)
         \/ /\ Encrypt(c) /\ req'[c].id \in SecretId
            /\ owner[req'[c].id] = NoSecret
<1> USE DEF SInv, IInv
<1>t. TypeOK
  OBVIOUS
<1>w. ~Write(c)
  BY <1>t DEF Write, End, Goto, TypeOK, Mints, Reached
<1>1. ASSUME NEW d \in Call, d # c, pc'[c] = pc[c], req'[c] = req[c]
      PROVE  Mints(c)
  BY <1>1 DEF Mints, Reached
<1>2. ASSUME NEW d \in Call, Aside(d) \/ Die(d)
      PROVE  Mints(c) /\ req'[c] = req[c]
  <2>1. /\ pc'[d] \in {"idle", "collect", "next", "read"}
        /\ \A e \in Call \ {d} : pc'[e] = pc[e] /\ req'[e] = req[e]
    BY <1>2, <1>t, AsideDoes DEF Die, End, Goto, TypeOK
  <2> QED
    BY <1>1, <2>1 DEF Mints, Reached
<1>3. ASSUME NEW d \in Call, Load(d) \/ LoadRemove(d) \/ Save(d) \/ Open(d)
      PROVE  Mints(c) /\ req'[c] = req[c]
  <2>1. UNCHANGED req /\ \A e \in Call \ {d} : pc'[e] = pc[e]
    BY <1>3, <1>t DEF Load, LoadRemove, Save, Open, Goto, TypeOK
  <2>2. /\ Load(d) => /\ req[d].op \in Generating => pc'[d] = "encrypt"
                      /\ pc'[d] \in {"encrypt", "save"}
        /\ LoadRemove(d) => req[d].op \notin Generating
        /\ Save(d) \/ Open(d) => Reached(d)
    BY <1>t DEF Load, LoadRemove, Save, Open, Goto, TypeOK, Reached, Generating
  <2> QED
    BY <1>3, <2>1, <2>2 DEF Mints, Reached
<1>4. ASSUME NEW d \in Call, Encrypt(d)
      PROVE  \/ Mints(c) /\ req'[c] = req[c]
             \/ Encrypt(c) /\ req'[c].id \in SecretId /\ owner[req'[c].id] = NoSecret
  <2>1. CASE d = c
    <3>1. PICK i \in SecretId :
            /\ owner[i] = NoSecret
            /\ req' = [req EXCEPT ![c] = [req[c] EXCEPT !.id = i]]
      BY <1>4, <2>1 DEF Encrypt
    <3>2. req'[c].id = i
      BY <1>t, <3>1 DEF TypeOK
    <3> QED
      BY <1>4, <2>1, <3>1, <3>2
  <2>2. CASE d # c
    BY <1>1, <1>4, <1>t, <2>2 DEF Encrypt, Goto, TypeOK
  <2> QED
    BY <2>1, <2>2
<1>5. ASSUME NEW d \in Call, Write(d)
      PROVE  Mints(c) /\ req'[c] = req[c]
  <2>1. d # c
    BY <1>5, <1>w
  <2> QED
    BY <1>1, <1>5, <1>t, <2>1 DEF Write, End, Goto, TypeOK
<1>6. CASE UNCHANGED vars
  BY <1>6, <1>w DEF vars, Mints, Reached
<1> QED
  BY <1>w, <1>2, <1>3, <1>4, <1>5, <1>6, Actions

\* Ids are minted by Encrypt alone, and once.
LEMMA OwnersStay ==
  ASSUME SInv, [Next]_vars, NEW i \in SecretId, owner'[i] # owner[i]
  PROVE  /\ owner[i] = NoSecret /\ owner'[i] # NoSecret
         /\ \A c \in Call : Encrypt(c) => req'[c].id = i
<1> USE DEF SInv, IInv, TypeOK
<1>1. PICK d \in Call : Encrypt(d)
  BY Actions, AsideDoes DEF Load, LoadRemove, Save, Open, Write, Die,
     historyVars, vars
<1>2. ASSUME NEW c \in Call, Encrypt(c)
      PROVE  /\ owner[i] = NoSecret /\ owner'[i] # NoSecret
             /\ req'[c].id = i
  <2>1. PICK j \in SecretId :
          /\ owner[j] = NoSecret
          /\ req' = [req EXCEPT ![c] = [req[c] EXCEPT !.id = j]]
          /\ owner' = [owner EXCEPT ![j] = job[c].service]
    BY <1>2 DEF Encrypt
  <2>2. i = j /\ req'[c].id = j
    BY <2>1
  <2>3. job[c].service \in Service \cup {Operator}
    OBVIOUS
  <2> QED
    BY <2>1, <2>2, <2>3, VaultsAssumption
<1> QED
  BY <1>1, <1>2

LEMMA IdsStayFresh ==
  ASSUME SInv, [Next]_vars
  PROVE  IdsFresh'
<1> USE DEF SInv
<1>1. ASSUME NEW i \in SecretId, owner'[i] = NoSecret
      PROVE  AbsentBut(i, {})'
  <2>1. owner[i] = NoSecret
    BY <1>1, OwnersStay
  <2> QED
    BY <1>1, <2>1, AbsentStays DEF IdsFresh
<1>2. ASSUME NEW c \in Call, NEW i \in SecretId, Mints(c)', req'[c].id = i
      PROVE  owner'[i] # NoSecret /\ AbsentBut(i, {c})'
  <2>1. CASE Mints(c) /\ req'[c] = req[c] /\ ~Write(c)
    <3>1. owner[i] # NoSecret /\ AbsentBut(i, {c})
      BY <1>2, <2>1 DEF IdsFresh
    <3>2. owner'[i] = owner[i]
      BY <3>1, OwnersStay
    <3>3. AbsentBut(i, {c})'
      BY <2>1, <3>1, <3>2, AbsentStays
    <3> QED
      BY <3>1, <3>2, <3>3
  <2>2. CASE Encrypt(c) /\ owner[i] = NoSecret
    <3>1. AbsentBut(i, {c})
      BY <2>2 DEF IdsFresh, AbsentBut
    <3>2. ~Write(c)
      BY <2>2 DEF Encrypt, Write
    <3>3. \A d \in Call \ {c} : ~Encrypt(d)
      BY <2>2 DEF Encrypt, Goto, IInv, TypeOK
    <3>4. owner'[i] # NoSecret
      <4>1. PICK j \in SecretId :
              /\ req' = [req EXCEPT ![c] = [req[c] EXCEPT !.id = j]]
              /\ owner' = [owner EXCEPT ![j] = job[c].service]
        BY <2>2 DEF Encrypt
      <4>2. j = i /\ job[c].service \in Service \cup {Operator}
        BY <1>2, <4>1 DEF IInv, TypeOK
      <4> QED
        BY <2>2, <4>1, <4>2, VaultsAssumption DEF IInv, TypeOK
    <3>5. AbsentBut(i, {c})'
      BY <3>1, <3>2, <3>3, AbsentStays
    <3> QED
      BY <3>4, <3>5
  <2> QED
    BY <1>2, <2>1, <2>2, MintsAfter
<1> QED
  BY <1>1, <1>2 DEF IdsFresh

LEMMA UnusedOfOthers ==
  ASSUME NEW v, NEW C, UnusedBut(v, C), NEW c \in Call,
         UNCHANGED <<disk, settled>>,
         \A d \in Call \ {c} :
           pc'[d] = pc[d] /\ req'[d] = req[d] /\ list'[d] = list[d],
         c \notin C => /\ list'[c][v] = NoVault
                       /\ InHand(c)' \/ Creates(c)' => req'[c].vault # v
  PROVE  UnusedBut(v, C)'
BY DEF UnusedBut, InHand, Creates

\* A vault stays unused but where it is being created, or a copy that has it
\* is written.
LEMMA UnusedStays ==
  ASSUME SInv, [Next]_vars, NEW v \in Vault, NEW C, UnusedBut(v, C),
         \A c \in C : ~Write(c),
         \A c \in Call \ C : ~(Creates(c)' /\ req'[c].vault = v)
  PROVE  UnusedBut(v, C)'
<1> USE DEF SInv
<1>t. TypeOK
  BY DEF IInv
<1>2. ASSUME NEW c \in Call, Aside(c) \/ Die(c)
      PROVE  UnusedBut(v, C)'
  <2>1. /\ UNCHANGED <<disk, settled>>
        /\ pc'[c] \in {"idle", "collect", "next", "read"}
        /\ list' = [list EXCEPT ![c] = list'[c]] /\ list'[c] \in {list[c], NoVaults}
        /\ \A d \in Call \ {c} : pc'[d] = pc[d] /\ req'[d] = req[d]
    BY <1>2, <1>t, AsideDoes DEF Die, End, Goto, TypeOK
  <2>2. \A d \in Call \ {c} : list'[d] = list[d]
    BY <1>t, <2>1 DEF TypeOK
  <2>3. c \notin C => list'[c][v] = NoVault
    BY <2>1 DEF UnusedBut, NoVaults
  <2>4. ~InHand(c)'
    BY <2>1 DEF InHand
  <2> QED
    BY <2>1, <2>2, <2>3, <2>4, UnusedOfOthers
<1>3. ASSUME NEW c \in Call, Load(c)
      PROVE  UnusedBut(v, C)'
  <2>1. /\ UNCHANGED <<disk, settled, list, req>> /\ pc[c] = "read"
        /\ ~Refuses(req[c])
        /\ \A d \in Call \ {c} : pc'[d] = pc[d]
    BY <1>3, <1>t DEF Load, TypeOK, Goto
  <2>2. req[c].op # "create" => disk # Torn /\ disk[req[c].vault] # NoVault
    BY <2>1, ReadWell
  <2>3. c \notin C => req[c].vault # v /\ list[c][v] = NoVault
    BY <2>2 DEF UnusedBut, Creates
  <2> QED
    BY <2>1, <2>3, UnusedOfOthers
<1>4. ASSUME NEW c \in Call, LoadRemove(c) \/ Save(c)
      PROVE  UnusedBut(v, C)'
  <2>1. /\ UNCHANGED <<disk, settled, req>> /\ disk # Torn /\ disk \in Vaults
        /\ \A d \in Call \ {c} : list'[d] = list[d] /\ pc'[d] = pc[d]
        /\ pc'[c] = "open"
    BY <1>4, <1>t, ReadWell DEF LoadRemove, Save, TypeOK, Refuses, Goto
  <2>2. CASE LoadRemove(c)
    <3>1. list'[c] = [disk EXCEPT ![req[c].vault] = NoVault]
      BY <1>t, <2>2 DEF LoadRemove, TypeOK
    <3>2. list'[c][v] = NoVault
      BY <2>1, <3>1 DEF UnusedBut, Vaults
    <3>3. ~InHand(c)' /\ (Creates(c)' <=> Creates(c))
      BY <2>1 DEF InHand, Creates
    <3> QED
      BY <2>1, <3>2, <3>3, UnusedOfOthers DEF UnusedBut
  <2>3. CASE Save(c)
    <3>1. /\ list'[c] = [disk EXCEPT ![req[c].vault] = held[c]]
          /\ InHand(c)
      BY <1>t, <2>3 DEF Save, TypeOK, InHand
    <3>2. c \notin C => list'[c][v] = NoVault /\ req[c].vault # v
      BY <2>1, <3>1 DEF UnusedBut, Vaults
    <3> QED
      BY <2>1, <3>2, UnusedOfOthers
  <2> QED
    BY <1>4, <2>2, <2>3
<1>5. ASSUME NEW c \in Call, Encrypt(c)
      PROVE  UnusedBut(v, C)'
  <2>1. PICK j \in SecretId : req' = [req EXCEPT ![c] = [req[c] EXCEPT !.id = j]]
    BY <1>5 DEF Encrypt
  <2>2. /\ UNCHANGED <<disk, settled, list>> /\ InHand(c)
        /\ \A d \in Call \ {c} : pc'[d] = pc[d] /\ req'[d] = req[d]
        /\ req'[c].vault = req[c].vault
    BY <1>5, <1>t, <2>1 DEF Encrypt, Goto, TypeOK, InHand
  <2>3. c \notin C => list'[c][v] = NoVault /\ req'[c].vault # v
    BY <2>2 DEF UnusedBut
  <2> QED
    BY <2>2, <2>3, UnusedOfOthers
<1>6. ASSUME NEW c \in Call, Open(c)
      PROVE  UnusedBut(v, C)'
  <2>1. /\ UNCHANGED <<settled, list, req>> /\ disk' \in Truncated
        /\ \A d \in Call \ {c} : pc'[d] = pc[d]
        /\ pc'[c] = "write"
    BY <1>6, <1>t DEF Open, Goto, TypeOK, historyVars
  <2>2. \A d \in Call : InHand(d)' => InHand(d)
    BY <2>1 DEF InHand
  <2>3. disk' # Torn => disk'[v] = NoVault
    BY <2>1 DEF Truncated, NoVaults
  <2> QED
    BY <2>1, <2>2, <2>3 DEF UnusedBut, Creates
<1>7. ASSUME NEW c \in Call, Write(c)
      PROVE  UnusedBut(v, C)'
  <2>1. /\ settled' = list[c] /\ disk' \in {list[c], Torn} /\ c \notin C
    BY <1>7 DEF Write, Filled
  <2>2. /\ \A d \in Call \ {c} :
             pc'[d] = pc[d] /\ req'[d] = req[d] /\ list'[d] = list[d]
        /\ pc'[c] \in {"idle", "next"} /\ req'[c] = NoRequest
        /\ list'[c] = NoVaults
    BY <1>7, <1>t DEF Write, End, Goto, TypeOK
  <2>3. list[c][v] = NoVault /\ list'[c][v] = NoVault
    BY <2>1, <2>2 DEF UnusedBut, NoVaults
  <2>4. ~InHand(c)' /\ ~Creates(c)'
    BY <2>2 DEF InHand, Creates, NoRequest
  <2>5. \A d \in Call \ C :
          /\ list'[d][v] = NoVault
          /\ InHand(d)' \/ Creates(d)' => req'[d].vault # v
    BY <2>2, <2>3, <2>4 DEF UnusedBut, InHand, Creates
  <2>6. settled'[v] = NoVault /\ (disk' # Torn => disk'[v] = NoVault)
    BY <2>1, <2>3
  <2> QED
    BY <2>5, <2>6 DEF UnusedBut
<1>8. CASE UNCHANGED vars
  BY <1>8 DEF vars, UnusedBut, InHand, Creates
<1> QED
  BY <1>2, <1>3, <1>4, <1>5, <1>6, <1>7, <1>8, Actions

\* A call creates what it was asked to, and then no longer; or a request for
\* a vault with a new id has come.
LEMMA CreatesAfter ==
  ASSUME SInv, [Next]_vars, NEW c \in Call, Creates(c)'
  PROVE  /\ ~Write(c)
         /\ \/ Creates(c) /\ req'[c].vault = req[c].vault
            \/ req'[c].vault \in (Vault \cap born') \ born
<1> USE DEF SInv, IInv
<1>t. TypeOK
  OBVIOUS
<1>w. ~Write(c)
  BY <1>t DEF Write, End, TypeOK, Creates, NoRequest
<1>1. ASSUME NEW d \in Call, Aside(d)
      PROVE  \/ Creates(c) /\ req'[c].vault = req[c].vault
             \/ req'[c].vault \in (Vault \cap born') \ born
  BY <1>1, AsideDoes DEF Creates
<1>2. ASSUME NEW d \in Call,
             Load(d) \/ LoadRemove(d) \/ Save(d) \/ Open(d) \/ Encrypt(d)
      PROVE  Creates(c) /\ req'[c].vault = req[c].vault
  <2>1. req' = req \/ \E j : req' = [req EXCEPT ![d] = [req[d] EXCEPT !.id = j]]
    BY <1>2 DEF Load, LoadRemove, Save, Open, Encrypt
  <2> QED
    BY <1>t, <2>1 DEF Creates, TypeOK
<1>3. ASSUME NEW d \in Call, Write(d) \/ Die(d)
      PROVE  Creates(c) /\ req'[c].vault = req[c].vault
  BY <1>3, <1>t DEF Write, Die, End, TypeOK, Creates, NoRequest
<1>4. CASE UNCHANGED vars
  BY <1>4, <1>w DEF vars, Creates
<1> QED
  BY <1>w, <1>1, <1>2, <1>3, <1>4, Actions

\* One call starts at a time.
LEMMA OneAsks ==
  ASSUME SInv, [Next]_vars, NEW c \in Call, NEW d \in Call, c # d,
         req'[c] # req[c]
  PROVE  req'[d] = req[d]
<1> USE DEF SInv, IInv, TypeOK
<1>1. ASSUME NEW e \in Call, Aside(e)
      PROVE  \A f \in Call \ {e} : req'[f] = req[f]
  BY <1>1, AsideDoes
<1>2. ASSUME NEW e \in Call,
             \/ Load(e) \/ LoadRemove(e) \/ Save(e) \/ Open(e) \/ Encrypt(e)
             \/ Write(e) \/ Die(e)
      PROVE  \A f \in Call \ {e} : req'[f] = req[f]
  BY <1>2 DEF Load, LoadRemove, Save, Open, Encrypt, Write, Die, End
<1> QED
  BY <1>1, <1>2, Actions DEF vars

LEMMA BornStay ==
  ASSUME SInv, [Next]_vars
  PROVE  born \subseteq born'
BY Actions, AsideDoes DEF SInv, Load, LoadRemove, Save, Open, Encrypt, Write,
   Die, historyVars, vars

LEMMA VaultsStayFresh ==
  ASSUME SInv, [Next]_vars
  PROVE  VaultsFresh'
<1> USE DEF SInv
<1>1. ASSUME NEW v \in Vault, v \notin born'
      PROVE  UnusedBut(v, {})'
  <2>1. UnusedBut(v, {}) /\ v \notin born
    BY <1>1, BornStay DEF VaultsFresh
  <2>2. \A c \in Call : ~(Creates(c)' /\ req'[c].vault = v)
    BY <1>1, <2>1, CreatesAfter DEF UnusedBut
  <2> QED
    BY <2>1, <2>2, UnusedStays
<1>2. ASSUME NEW c \in Call, NEW v \in Vault, Creates(c)', req'[c].vault = v
      PROVE  v \in born' /\ UnusedBut(v, {c})'
  <2>1. ~Write(c)
    BY <1>2, CreatesAfter
  <2>2. CASE Creates(c) /\ req[c].vault = v
    <3>1. v \in born /\ UnusedBut(v, {c})
      BY <2>2 DEF VaultsFresh
    <3>2. \A d \in Call \ {c} : ~(Creates(d)' /\ req'[d].vault = v)
      BY <3>1, CreatesAfter DEF UnusedBut
    <3> QED
      BY <2>1, <3>1, <3>2, BornStay, UnusedStays
  <2>3. CASE v \in born' \ born
    <3>1. UnusedBut(v, {}) /\ UnusedBut(v, {c})
      BY <2>3 DEF VaultsFresh, UnusedBut
    <3>2. ASSUME NEW d \in Call \ {c}, Creates(d)', req'[d].vault = v
          PROVE  FALSE
      <4>1. ~Creates(c) \/ req[c].vault # v
        BY <3>1 DEF UnusedBut
      <4>2. ~Creates(d) \/ req[d].vault # v
        BY <3>1 DEF UnusedBut
      <4>3. req'[c] # req[c] /\ req'[d] # req[d]
        BY <1>2, <3>2, <4>1, <4>2 DEF Creates
      <4> QED
        BY <4>3, OneAsks
    <3> QED
      BY <2>1, <2>3, <3>1, <3>2, UnusedStays
  <2> QED
    BY <1>2, <2>2, <2>3, CreatesAfter
<1> QED
  BY <1>1, <1>2 DEF VaultsFresh

\* What has reached the file is a request with all it needs.
LEMMA ReachedSettles ==
  ASSUME SInv, [Next]_vars
  PROVE  \A c \in Call : Reached(c)' => Settles(req'[c])
<1> USE DEF SInv, IInv
<1>t. TypeOK
  OBVIOUS
<1> SUFFICES ASSUME NEW c \in Call, Reached(c)'
             PROVE  Settles(req'[c])
  OBVIOUS
<1>0. Reached(c) /\ req'[c] = req[c] => Settles(req'[c])
  OBVIOUS
<1>1. ASSUME NEW d \in Call, Aside(d) \/ Die(d) \/ Write(d)
      PROVE  Reached(c) /\ req'[c] = req[c]
  <2>1. /\ pc'[d] \in {"idle", "collect", "next", "read"}
        /\ \A e \in Call \ {d} : pc'[e] = pc[e] /\ req'[e] = req[e]
    BY <1>1, <1>t, AsideDoes DEF Die, Write, End, Goto, TypeOK
  <2> QED
    BY <2>1 DEF Reached
<1>2. ASSUME NEW d \in Call, Save(d) \/ Open(d)
      PROVE  Reached(c) /\ req'[c] = req[c]
  BY <1>2, <1>t DEF Save, Open, Goto, TypeOK, Reached
<1>3. ASSUME NEW d \in Call, Load(d) \/ LoadRemove(d)
      PROVE  Settles(req'[c])
  <2>1. /\ UNCHANGED req /\ pc[d] = "read" /\ ~Refuses(req[d])
        /\ \A e \in Call \ {d} : pc'[e] = pc[e]
        /\ pc'[d] # "encrypt" => req[d].op \notin Generating
    BY <1>3, <1>t DEF Load, LoadRemove, Goto, TypeOK, Generating
  <2>2. CASE c = d
    <3>1. req[d].op \notin Generating
      BY <2>1, <2>2 DEF Reached
    <3> QED
      BY <2>1, <2>2, <3>1, ReadWell
  <2>3. CASE c # d
    BY <1>0, <2>1, <2>3 DEF Reached
  <2> QED
    BY <2>2, <2>3
<1>4. ASSUME NEW d \in Call, Encrypt(d)
      PROVE  Settles(req'[c])
  <2>1. PICK j \in SecretId : req' = [req EXCEPT ![d] = [req[d] EXCEPT !.id = j]]
    BY <1>4 DEF Encrypt
  <2>2. CASE c = d
    <3>1. req[d] \in Request /\ req[d].op \in Generating
      BY <1>4 DEF CallOK, Encrypt
    <3>2. req'[d] = [req[d] EXCEPT !.id = j]
      BY <1>t, <2>1 DEF TypeOK
    <3> QED
      BY <2>2, <3>1, <3>2 DEF Request, Command, Settles, Op, Generating
  <2>3. CASE c # d
    BY <1>0, <1>4, <1>t, <2>1, <2>3 DEF Reached, Encrypt, Goto, TypeOK
  <2> QED
    BY <2>2, <2>3
<1>5. CASE UNCHANGED vars
  BY <1>5, <1>0 DEF vars, Reached
<1> QED
  BY <1>0, <1>1, <1>2, <1>3, <1>4, <1>5, Actions

LEMMA SettledUnique ==
  ASSUME SInv, [Next]_vars
  PROVE  AllUnique(settled')
<1>1. ASSUME NEW c \in Call, Write(c)
      PROVE  AllUnique(settled')
  BY <1>1 DEF Write, SInv, IInv, CopiesUnique
<1>2. (\A c \in Call : ~Write(c)) => settled' = settled
  BY Actions, AsideDoes DEF SInv, Load, LoadRemove, Save, Open, Encrypt, Die,
     historyVars, vars
<1> QED
  BY <1>1, <1>2 DEF SInv

\* A step of c that settles nothing leaves the copies of the others current.
LEMMA OthersCurrent ==
  ASSUME SInv, NEW c \in Call, UNCHANGED settled, ~raced' => ~raced,
         stale \ {c} \subseteq stale',
         \A d \in Call \ {c} :
           /\ pc'[d] = pc[d] /\ req'[d] = req[d]
           /\ held'[d] = held[d] /\ list'[d] = list[d],
         ~raced' /\ c \notin stale' => CurrentOf(c)'
  PROVE  Current'
<1> SUFFICES ASSUME ~raced', NEW d \in Call, d \notin stale', d # c
             PROVE  CurrentOf(d)'
  BY DEF Current
<1>1. CurrentOf(d)
  BY DEF SInv, Current
<1> QED
  BY <1>1 DEF CurrentOf, Listed

\* What is read when nobody writes is what is settled.
LEMMA ReadsSettled ==
  ASSUME SInv, NEW c \in Call, ~raced, ~Writing(c), ~Beside(c)
  PROVE  disk = settled
BY DEF SInv, WholeBetweenWrites, Beside

LEMMA CurrentStays ==
  ASSUME SInv, [Next]_vars
  PROVE  Current'
<1> USE DEF SInv
<1>t. TypeOK
  BY DEF IInv
<1>1. ASSUME NEW c \in Call, Aside(c) \/ Die(c)
      PROVE  Current'
  <2>1. /\ UNCHANGED settled /\ (~raced' => ~raced) /\ stale \ {c} \subseteq stale'
        /\ pc'[c] \in {"idle", "collect", "next", "read"}
        /\ \A d \in Call \ {c} : pc'[d] = pc[d] /\ req'[d] = req[d]
        /\ held' = [held EXCEPT ![c] = held'[c]]
        /\ list' = [list EXCEPT ![c] = list'[c]]
    BY <1>1, <1>t, AsideDoes DEF Die, End, Goto, TypeOK
  <2>2. \A d \in Call \ {c} : held'[d] = held[d] /\ list'[d] = list[d]
    BY <1>t, <2>1 DEF TypeOK
  <2>3. CurrentOf(c)'
    BY <2>1 DEF CurrentOf, Listed
  <2> QED
    BY <2>1, <2>2, <2>3, OthersCurrent
<1>2. ASSUME NEW c \in Call, Load(c)
      PROVE  Current'
  <2> DEFINE r == req[c]
  <2>1. /\ UNCHANGED <<settled, req, list, raced>> /\ stale \ {c} \subseteq stale'
        /\ pc[c] = "read" /\ ~Refuses(r) /\ r.op # "remove"
        /\ pc'[c] = IF r.op \in Generating THEN "encrypt" ELSE "save"
        /\ held'[c] = CASE r.op = "create" -> [name |-> r.name, secrets |-> NoSecrets]
                        [] r.op \in Generating -> disk[r.vault]
                        [] OTHER -> Changed(r, disk[r.vault])
        /\ \A d \in Call \ {c} :
             /\ pc'[d] = pc[d] /\ req'[d] = req[d]
             /\ held'[d] = held[d] /\ list'[d] = list[d]
        /\ c \notin stale' => ~Beside(c)
    BY <1>2, <1>t DEF Load, Goto, TypeOK, Generating, ReadMark
  <2>2. ASSUME ~raced', c \notin stale'
        PROVE  CurrentOf(c)'
    <3>1. disk = settled
      BY <2>1, <2>2, ReadsSettled DEF Writing
    <3>2. CASE r.op = "create"
      <4>1. held'[c] = [name |-> r.name, secrets |-> NoSecrets]
        BY <1>2, <1>t, <3>2 DEF Load, TypeOK
      <4>2. settled[r.vault] = NoVault
        BY <2>1, <3>2, ReadWell DEF VaultsFresh, Creates, UnusedBut
      <4>3. pc'[c] = "save" /\ req'[c] = r /\ settled' = settled
        BY <2>1, <3>2 DEF Generating
      <4> HIDE DEF r
      <4>4. Outcome(r, settled[r.vault], held'[c])
        BY <3>2, <4>1, <4>2 DEF Outcome
      <4> QED
        BY <3>2, <4>3, <4>4 DEF CurrentOf, Listed
    <3>3. CASE r.op \in Generating
      BY <2>1, <3>1, <3>3, ReadWell DEF CurrentOf, Listed, Generating
    <3>4. CASE r.op \notin {"create"} \cup Generating
      <4>1. /\ settled[r.vault] # NoVault /\ Keeps(r, settled[r.vault])
            /\ r.op \in Op \ {"create", "remove"}
        BY <2>1, <3>1, <3>4, ReadWell DEF Generating
      <4>2. /\ held'[c] = Changed(r, settled[r.vault]) /\ pc'[c] = "save"
            /\ req'[c] = r /\ settled' = settled
        BY <2>1, <3>1, <3>4
      <4> HIDE DEF r
      <4>3. Outcome(r, settled[r.vault], held'[c])
        BY <4>1, <4>2 DEF Outcome
      <4> QED
        BY <4>1, <4>2, <4>3 DEF CurrentOf, Listed
    <3> QED
      BY <3>2, <3>3, <3>4
  <2> QED
    BY <2>1, <2>2, OthersCurrent
<1>3. ASSUME NEW c \in Call, LoadRemove(c)
      PROVE  Current'
  <2> DEFINE r == req[c]
  <2>1. /\ UNCHANGED <<settled, req, held, raced>> /\ stale \ {c} \subseteq stale'
        /\ pc[c] = "read" /\ ~Refuses(r) /\ r.op = "remove" /\ pc'[c] = "open"
        /\ list'[c] = [disk EXCEPT ![r.vault] = NoVault]
        /\ \A d \in Call \ {c} :
             /\ pc'[d] = pc[d] /\ req'[d] = req[d]
             /\ held'[d] = held[d] /\ list'[d] = list[d]
        /\ c \notin stale' => ~Beside(c)
    BY <1>3, <1>t DEF LoadRemove, Goto, TypeOK, ReadMark
  <2>2. ASSUME ~raced', c \notin stale'
        PROVE  CurrentOf(c)'
    <3>1. disk = settled
      BY <2>1, <2>2, ReadsSettled DEF Writing
    <3>2. settled[r.vault] # NoVault /\ r.vault \in DOMAIN settled
      BY <1>t, <2>1, <3>1, ReadWell DEF TypeOK, Vaults
    <3>3. list'[c][r.vault] = NoVault
      BY <2>1, <3>1, <3>2
    <3>4. Outcome(r, settled[r.vault], list'[c][r.vault])
      BY <2>1, <3>2, <3>3 DEF Outcome
    <3> QED
      BY <2>1, <3>1, <3>3, <3>4 DEF CurrentOf, Listed
  <2> QED
    BY <2>1, <2>2, OthersCurrent
<1>4. ASSUME NEW c \in Call, Encrypt(c)
      PROVE  Current'
  <2>1. PICK j \in SecretId :
          LET r == [req[c] EXCEPT !.id = j] IN
          /\ Keeps(r, held[c])
          /\ req' = [req EXCEPT ![c] = r]
          /\ held' = [held EXCEPT ![c] = Changed(r, @)]
    BY <1>4 DEF Encrypt
  <2> DEFINE r == [req[c] EXCEPT !.id = j]
  <2>2. /\ UNCHANGED <<settled, list, raced, stale>> /\ pc[c] = "encrypt"
        /\ pc'[c] = "save" /\ req'[c] = r /\ held'[c] = Changed(r, held[c])
        /\ \A d \in Call \ {c} :
             /\ pc'[d] = pc[d] /\ req'[d] = req[d]
             /\ held'[d] = held[d] /\ list'[d] = list[d]
    BY <1>4, <1>t, <2>1 DEF Encrypt, Goto, TypeOK
  <2>3. ASSUME ~raced', c \notin stale'
        PROVE  CurrentOf(c)'
    <3>1. /\ settled[req[c].vault] # NoVault /\ held[c] = settled[req[c].vault]
      BY <2>2, <2>3 DEF Current, CurrentOf
    <3>2. r.vault = req[c].vault /\ r.op = req[c].op /\ req[c].op \in Generating
      BY <1>t, <2>2 DEF TypeOK, IInv, CallOK
    <3>3. Keeps(r, held[c])
      BY <2>1
    <3> HIDE DEF r
    <3>4. Outcome(r, settled[r.vault], held'[c]) /\ r.op # "remove"
      BY <2>2, <3>1, <3>2, <3>3 DEF Outcome, Op, Generating
    <3> QED
      BY <2>2, <3>4 DEF CurrentOf, Listed
  <2> QED
    BY <2>2, <2>3, OthersCurrent
<1>5. ASSUME NEW c \in Call, Save(c)
      PROVE  Current'
  <2> DEFINE v == req[c].vault
  <2>1. /\ UNCHANGED <<settled, req, held, raced>> /\ stale \ {c} \subseteq stale'
        /\ pc[c] = "save" /\ pc'[c] = "open" /\ v \in Vault
        /\ list'[c] = [disk EXCEPT ![v] = held[c]]
        /\ \A d \in Call \ {c} :
             /\ pc'[d] = pc[d] /\ req'[d] = req[d]
             /\ held'[d] = held[d] /\ list'[d] = list[d]
        /\ c \notin stale' => ~Beside(c) /\ c \notin stale
    BY <1>5, <1>t DEF Save, Goto, TypeOK, IInv, CallOK
  <2>2. ASSUME ~raced', c \notin stale'
        PROVE  CurrentOf(c)'
    <3>1. disk = settled /\ DOMAIN settled = Vault
      BY <1>t, <2>1, <2>2, ReadsSettled DEF Writing, TypeOK, Vaults
    <3>2. Outcome(req[c], settled[v], held[c])
      BY <2>1, <2>2 DEF Current, CurrentOf
    <3>3. list'[c][v] = held[c]
      BY <2>1, <3>1
    <3> QED
      BY <2>1, <3>1, <3>2, <3>3 DEF CurrentOf, Listed
  <2> QED
    BY <2>1, <2>2, OthersCurrent
<1>6. ASSUME NEW c \in Call, Open(c)
      PROVE  Current'
  <2>1. /\ UNCHANGED <<settled, req, held, list, raced, stale>>
        /\ pc[c] = "open" /\ pc'[c] = "write"
        /\ \A d \in Call \ {c} : pc'[d] = pc[d]
    BY <1>6, <1>t DEF Open, Goto, TypeOK, historyVars
  <2>2. ASSUME ~raced', c \notin stale'
        PROVE  CurrentOf(c)'
    BY <2>1, <2>2 DEF Current, CurrentOf, Listed
  <2> QED
    BY <2>1, <2>2, OthersCurrent
<1>7. ASSUME NEW c \in Call, Write(c)
      PROVE  Current'
  <2>1. /\ settled' = list[c] /\ stale' = (stale \cup MadeStale(c)) \ {c}
        /\ ~raced' => ~raced
        /\ pc'[c] \in {"idle", "next"}
        /\ \A d \in Call \ {c} :
             /\ pc'[d] = pc[d] /\ req'[d] = req[d]
             /\ held'[d] = held[d] /\ list'[d] = list[d]
    BY <1>7, <1>t DEF Write, End, Goto, TypeOK
  <2> SUFFICES ASSUME ~raced', NEW d \in Call, d \notin stale'
               PROVE  CurrentOf(d)'
    BY DEF Current
  <2>2. CASE d = c
    BY <2>1, <2>2 DEF CurrentOf, Listed
  <2>3. CASE d # c
    <3>1. d \notin stale /\ d \notin MadeStale(c) /\ CurrentOf(d)
      BY <2>1, <2>3 DEF Current
    <3>2. ~Listed(d)
      BY <2>3, <3>1 DEF MadeStale, Listed
    <3>3. InHand(d) => settled'[req[d].vault] = settled[req[d].vault]
      BY <2>1, <2>3, <3>1 DEF MadeStale, InHand
    <3> QED
      BY <2>1, <2>3, <3>1, <3>2, <3>3 DEF CurrentOf, Listed, InHand
  <2> QED
    BY <2>2, <2>3
<1>8. CASE UNCHANGED vars
  BY <1>8 DEF vars, Current, CurrentOf, Listed
<1> QED
  BY <1>1, <1>2, <1>3, <1>4, <1>5, <1>6, <1>7, <1>8, Actions

LEMMA SInvStays ==
  ASSUME SInv, [Next]_vars
  PROVE  SInv'
<1>1. IInv' /\ WholeBetweenWrites'
  BY NextKeepsIInv, WholeStep DEF SInv, IInv
<1>2. AllUnique(settled)'
  BY SettledUnique DEF AllUnique
<1>3. \A c \in Call : Reached(c)' => Settles(req'[c])
  BY ReachedSettles
<1> QED
  BY <1>1, <1>2, <1>3, IdsStayFresh, VaultsStayFresh, CurrentStays
     DEF SInv, Settles

LEMMA SInvInit == Init => SInv
<1> SUFFICES ASSUME Init PROVE SInv
  OBVIOUS
<1>1. IInv /\ WholeBetweenWrites
  BY InitIInv, WholeInit
<1>2. AllUnique(settled)
  BY DEF Init, AllUnique, NoVaults
<1>3. \A c \in Call : ~Reached(c) /\ ~Creates(c) /\ ~InHand(c) /\ ~Listed(c)
  BY DEF Init, Reached, Creates, NoRequest, InHand, Listed
<1>4. \A i \in SecretId : AbsentBut(i, {})
  BY DEF Init, AbsentBut, NoneHas, Lacks, NoVaults
<1>5. \A v \in Vault : UnusedBut(v, {})
  BY <1>3 DEF Init, UnusedBut, NoVaults
<1>6. Current
  BY <1>3 DEF Current, CurrentOf, InHand
<1> QED
  BY <1>1, <1>2, <1>3, <1>4, <1>5, <1>6
     DEF SInv, IdsFresh, VaultsFresh, Mints

LEMMA NotAName == NoName \notin Name
BY VaultsAssumption DEF NoName, Name

\* In a vault with unique names a name has the secret that has it.
LEMMA AtSome ==
  ASSUME NEW x \in VaultRecord, NamesUnique(x), NEW n \in Name,
         NEW i \in SecretId, x.secrets[i] = n
  PROVE  AtOf(x)[n] = i
<1>1. Named(x, n) = {i}
  BY NotAName DEF Named, NamesUnique
<1>2. \A j : j = (CHOOSE k \in Named(x, n) : TRUE) => j \in Named(x, n)
  BY <1>1
<1>3. x # NoVault
  BY VaultsAssumption
<1> QED
  BY <1>1, <1>2, <1>3 DEF AtOf

LEMMA AtNone ==
  ASSUME NEW x, NEW n \in Name, x = NoVault \/ Named(x, n) = {}
  PROVE  AtOf(x)[n] = NoSecret
BY DEF AtOf

\* A name has a secret, or none.
LEMMA AtEither ==
  ASSUME NEW x \in VaultRecord \cup {NoVault}, x # NoVault => NamesUnique(x),
         NEW n \in Name
  PROVE  \/ AtOf(x)[n] = NoSecret /\ (x = NoVault \/ Named(x, n) = {})
         \/ \E i \in SecretId : /\ x # NoVault /\ x.secrets[i] = n
                                /\ AtOf(x)[n] = i /\ AtOf(x)[n] # NoSecret
<1>1. CASE x = NoVault \/ Named(x, n) = {}
  BY <1>1, AtNone
<1>2. CASE x # NoVault /\ Named(x, n) # {}
  <2>1. PICK i \in SecretId : x.secrets[i] = n
    BY <1>2 DEF Named
  <2>2. AtOf(x)[n] = i
    BY <1>2, <2>1, AtSome
  <2> QED
    BY <1>2, <2>1, <2>2, VaultsAssumption
<1> QED
  BY <1>1, <1>2

LEMMA AtEqual ==
  ASSUME NEW x \in VaultRecord, NamesUnique(x),
         NEW y \in VaultRecord, NamesUnique(y), NEW n \in Name,
         \A i \in SecretId : x.secrets[i] = n <=> y.secrets[i] = n
  PROVE  AtOf(y)[n] = AtOf(x)[n]
<1>1. CASE \E i \in SecretId : x.secrets[i] = n
  BY <1>1, AtSome
<1>2. CASE ~\E i \in SecretId : x.secrets[i] = n
  <2>1. Named(x, n) = {} /\ Named(y, n) = {}
    BY <1>2 DEF Named
  <2> QED
    BY <2>1, AtNone
<1> QED
  BY <1>1, <1>2

\* What each change is to who looks secrets up by name.
LEMMA ChangeMaps ==
  ASSUME NEW x \in VaultRecord, NamesUnique(x), NEW r, Settles(r),
         r.op \in Op \ {"create", "remove"}, Keeps(r, x),
         r.op \in Generating => Lacks(x, r.id),
         NEW y, y = Changed(r, x), y \in VaultRecord, NamesUnique(y)
  PROVE  \/ AtOf(y) = AtOf(x)
         \/ r.op \in Generating /\ AtOf(y) = [AtOf(x) EXCEPT ![r.name] = r.id]
         \/ \E n \in Name : /\ AtOf(x)[n] # NoSecret
                            /\ AtOf(y) = [AtOf(x) EXCEPT ![n] = NoSecret]
         \/ \E n, m \in Name :
              /\ AtOf(x)[n] # NoSecret /\ AtOf(x)[m] = NoSecret
              /\ AtOf(y) = [AtOf(x) EXCEPT ![m] = AtOf(x)[n], ![n] = NoSecret]
<1>0. /\ \A z : AtOf(z) = [n \in Name |-> AtOf(z)[n]]
      /\ x.secrets \in [SecretId -> Name \cup {NoName}]
  BY DEF AtOf, VaultRecord
<1>1. CASE r.op = "rename"
  <2>1. y.secrets = x.secrets
    BY <1>1 DEF Changed, VaultRecord
  <2>2. \A n \in Name : AtOf(y)[n] = AtOf(x)[n]
    BY <2>1, AtEqual
  <2> QED
    BY <1>0, <2>2
<1>2. CASE r.op = "delete"
  <2> DEFINE n == x.secrets[r.id]
  <2>1. /\ r.id \in SecretId /\ n # NoName /\ n \in Name
        /\ y.secrets = [x.secrets EXCEPT ![r.id] = NoName]
    BY <1>0, <1>2 DEF Settles, Keeps, Changed, VaultRecord
  <2>2. AtOf(x)[n] = r.id /\ r.id # NoSecret
    BY <2>1, AtSome, VaultsAssumption
  <2>3. \A i \in SecretId : y.secrets[i] # n
    BY <1>0, <2>1 DEF NamesUnique
  <2>4. Named(y, n) = {}
    BY <2>3 DEF Named
  <2>5. AtOf(y)[n] = NoSecret
    BY <2>1, <2>4, AtNone
  <2>6. ASSUME NEW m \in Name, m # n
        PROVE  AtOf(y)[m] = AtOf(x)[m]
    <3>1. \A i \in SecretId : x.secrets[i] = m <=> y.secrets[i] = m
      BY <1>0, <2>1, <2>6, NotAName
    <3> QED
      BY <3>1, AtEqual
  <2> HIDE DEF n
  <2>7. AtOf(y) = [AtOf(x) EXCEPT ![n] = NoSecret]
    BY <1>0, <2>1, <2>5, <2>6
  <2> QED
    BY <2>1, <2>2, <2>7
<1>3. CASE r.op \in Generating
  <2> DEFINE n == r.name
  <2>1. r.id \in SecretId /\ n \in Name
    BY <1>3 DEF Settles
  <2>2. /\ y.secrets[r.id] = n
        /\ \A m \in Name \ {n} : \A i \in SecretId :
             y.secrets[i] = m <=> x.secrets[i] = m /\ i # r.id
    <3>1. CASE r.op = "generate"
      BY <1>0, <2>1, <3>1 DEF Changed, VaultRecord
    <3>2. CASE r.op = "regenerate"
      BY <1>0, <2>1, <3>2, NotAName DEF Changed, VaultRecord
    <3> QED
      BY <1>3, <3>1, <3>2 DEF Generating
  <2>3. AtOf(y)[n] = r.id
    BY <2>1, <2>2, AtSome
  <2>4. x.secrets[r.id] = NoName
    BY <1>3, VaultsAssumption DEF Lacks
  <2>5. ASSUME NEW m \in Name, m # n
        PROVE  AtOf(y)[m] = AtOf(x)[m]
    <3>1. \A i \in SecretId : x.secrets[i] = m <=> y.secrets[i] = m
      BY <2>2, <2>4, <2>5, NotAName
    <3> QED
      BY <3>1, <2>5, AtEqual
  <2> HIDE DEF n
  <2>6. AtOf(y) = [AtOf(x) EXCEPT ![n] = r.id]
    BY <1>0, <2>1, <2>3, <2>5
  <2> QED
    BY <1>3, <2>6 DEF n
<1>4. CASE r.op = "renameSecret"
  <2> DEFINE n == x.secrets[r.id]
             m == r.name
  <2>1. /\ r.id \in SecretId /\ n # NoName /\ n \in Name /\ m \in Name
        /\ Named(x, m) \subseteq {r.id}
        /\ y.secrets = [x.secrets EXCEPT ![r.id] = m]
    BY <1>0, <1>4 DEF Settles, Keeps, Changed, VaultRecord
  <2>2. AtOf(x)[n] = r.id /\ r.id # NoSecret
    BY <2>1, AtSome, VaultsAssumption
  <2>3. y.secrets[r.id] = m
    BY <1>0, <2>1
  <2>3a. r.id \in SecretId /\ m \in Name
    BY <2>1
  <2>4. AtOf(y)[m] = r.id
    BY <2>3, <2>3a, AtSome
  <2>5. ASSUME NEW l \in Name, l # n, l # m
        PROVE  AtOf(y)[l] = AtOf(x)[l]
    <3>1. \A i \in SecretId : x.secrets[i] = l <=> y.secrets[i] = l
      BY <1>0, <2>1, <2>5
    <3> QED
      BY <3>1, <2>5, AtEqual
  <2>6. CASE n = m
    <3>1. \A l \in Name : AtOf(y)[l] = AtOf(x)[l]
      BY <2>2, <2>4, <2>5, <2>6
    <3> QED
      BY <1>0, <3>1
  <2>7. CASE n # m
    <3>1. Named(x, m) = {}
      BY <2>1, <2>7 DEF Named
    <3>2. AtOf(x)[m] = NoSecret
      BY <2>1, <3>1, AtNone
    <3>3. \A i \in SecretId : y.secrets[i] # n
      BY <1>0, <2>1, <2>7 DEF NamesUnique
    <3>4. Named(y, n) = {}
      BY <3>3 DEF Named
    <3>5. AtOf(y)[n] = NoSecret
      BY <2>1, <3>4, AtNone
    <3> HIDE DEF n, m
    <3>6. AtOf(y) = [AtOf(x) EXCEPT ![m] = AtOf(x)[n], ![n] = NoSecret]
      BY <1>0, <2>1, <2>2, <2>4, <2>5, <2>7, <3>5
    <3> QED
      BY <2>1, <2>2, <3>2, <3>6
  <2> QED
    BY <2>6, <2>7
<1> QED
  BY <1>1, <1>2, <1>3, <1>4 DEF Op, Generating

\* The vaults s have become t as the store carries out r.
CarriedOut(r, s, t) ==
  LET v == r.vault IN
  \/ Opened(t) = Opened(s) /\ ByName(t) = ByName(s)
  \/ /\ v \notin Opened(s) /\ Opened(t) = Opened(s) \cup {v}
     /\ ByName(t) = ByName(s)
  \/ /\ v \in Opened(s) /\ Opened(t) = Opened(s) \ {v}
     /\ ByName(t) = [ByName(s) EXCEPT ![v] = [n \in Name |-> NoSecret]]
  \/ /\ v \in Opened(s) /\ Opened(t) = Opened(s)
     /\ r.id \in SecretId /\ r.name \in Name
     /\ \A w \in Vault, m \in Name : ByName(s)[w][m] # r.id
     /\ ByName(t) = [ByName(s) EXCEPT ![v][r.name] = r.id]
  \/ \E n \in Name :
       /\ v \in Opened(s) /\ Opened(t) = Opened(s)
       /\ ByName(s)[v][n] # NoSecret
       /\ ByName(t) = [ByName(s) EXCEPT ![v][n] = NoSecret]
  \/ \E n, m \in Name :
       /\ v \in Opened(s) /\ Opened(t) = Opened(s)
       /\ ByName(s)[v][n] # NoSecret /\ ByName(s)[v][m] = NoSecret
       /\ ByName(t) = [ByName(s) EXCEPT ![v][m] = ByName(s)[v][n],
                                        ![v][n] = NoSecret]

LEMMA OutcomeMaps ==
  ASSUME NEW s \in Vaults, AllUnique(s), NEW t \in Vaults, AllUnique(t),
         NEW r, Settles(r), Outcome(r, s[r.vault], t[r.vault]),
         t = [s EXCEPT ![r.vault] = t[r.vault]],
         r.op \in Generating => NoneHas(s, r.id)
  PROVE  CarriedOut(r, s, t)
<1> DEFINE v == r.vault
           x == s[v]
           y == t[v]
<1>0. /\ v \in Vault /\ x \in VaultRecord \cup {NoVault}
      /\ y \in VaultRecord \cup {NoVault}
      /\ \A w \in Vault \ {v} : t[w] = s[w]
      /\ \A z \in VaultRecord : z # NoVault
  BY VaultsAssumption DEF Vaults, Settles
<1>1. ByName(s)[v] = AtOf(x) /\ ByName(t) = [ByName(s) EXCEPT ![v] = AtOf(y)]
  BY <1>0 DEF ByName
<1>2. AtOf(y) = AtOf(x) => ByName(t) = ByName(s)
  BY <1>0 DEF ByName
<1>3. CASE /\ r.op = "create" /\ x = NoVault
           /\ y = [name |-> r.name, secrets |-> NoSecrets]
  <2>1. \A n \in Name : Named(y, n) = {}
    BY <1>3, NotAName DEF Named, NoSecrets
  <2>2. \A n \in Name : AtOf(y)[n] = AtOf(x)[n]
    BY <1>3, <2>1, AtNone
  <2>3. AtOf(y) = AtOf(x)
    BY <2>2 DEF AtOf
  <2>4. y # NoVault
    BY <1>0, <1>3, NoSecretsUnique DEF Settles, VaultRecord
  <2> QED
    BY <1>0, <1>2, <1>3, <2>3, <2>4 DEF Opened, CarriedOut
<1>4. CASE r.op = "remove" /\ x # NoVault /\ y = NoVault
  <2>1. AtOf(y) = [n \in Name |-> NoSecret]
    BY <1>4 DEF AtOf
  <2>2. Opened(t) = Opened(s) \ {v} /\ v \in Opened(s)
    BY <1>0, <1>4 DEF Opened
  <2> QED
    BY <1>1, <2>1, <2>2 DEF CarriedOut
<1>5. CASE /\ r.op \in Op \ {"create", "remove"} /\ x # NoVault
           /\ Keeps(r, x) /\ y = Changed(r, x)
  <2>1. NamesUnique(x) /\ x \in VaultRecord
    BY <1>0, <1>5 DEF AllUnique
  <2>2. y \in VaultRecord /\ NamesUnique(y)
    BY <1>5, <2>1, ChangeKeepsUnique DEF Settles
  <2>3. Opened(t) = Opened(s) /\ v \in Opened(s)
    BY <1>0, <1>5, <2>2 DEF Opened
  <2>4. r.op \in Generating => Lacks(x, r.id)
    BY <1>0 DEF NoneHas
  <2> DEFINE A == ByName(s)
  <2>5. \A e, n : AtOf(y) = [AtOf(x) EXCEPT ![n] = e]
                  => ByName(t) = [A EXCEPT ![v][n] = e]
    BY <1>1
  <2>6. CASE AtOf(y) = AtOf(x)
    BY <1>2, <2>3, <2>6 DEF CarriedOut
  <2>7. CASE /\ r.op \in Generating
             /\ AtOf(y) = [AtOf(x) EXCEPT ![r.name] = r.id]
    <3>1. r.id \in SecretId /\ r.name \in Name
      BY <2>7 DEF Settles
    <3>2. ASSUME NEW w \in Vault, NEW m \in Name
          PROVE  A[w][m] # r.id
      <4>1. /\ s[w] \in VaultRecord \cup {NoVault}
            /\ s[w] # NoVault => NamesUnique(s[w])
            /\ A[w] = AtOf(s[w])
        BY DEF AllUnique, Vaults, ByName
      <4>2. s[w] # NoVault => s[w].secrets[r.id] # m
        BY <2>7, NotAName DEF NoneHas, Lacks
      <4> QED
        BY <3>1, <4>1, <4>2, AtEither, VaultsAssumption
    <3>3. ByName(t) = [A EXCEPT ![v][r.name] = r.id]
      BY <2>5, <2>7
    <3> QED
      BY <2>3, <3>1, <3>2, <3>3 DEF CarriedOut
  <2>8. CASE \E n \in Name : /\ AtOf(x)[n] # NoSecret
                            /\ AtOf(y) = [AtOf(x) EXCEPT ![n] = NoSecret]
    <3>1. PICK n \in Name : /\ AtOf(x)[n] # NoSecret
                            /\ AtOf(y) = [AtOf(x) EXCEPT ![n] = NoSecret]
      BY <2>8
    <3>2. /\ ByName(s)[v][n] # NoSecret
          /\ ByName(t) = [ByName(s) EXCEPT ![v][n] = NoSecret]
      BY <1>1, <2>5, <3>1
    <3> QED
      BY <2>3, <3>2 DEF CarriedOut
  <2>9. CASE \E n, m \in Name :
              /\ AtOf(x)[n] # NoSecret /\ AtOf(x)[m] = NoSecret
              /\ AtOf(y) = [AtOf(x) EXCEPT ![m] = AtOf(x)[n], ![n] = NoSecret]
    <3>1. PICK n \in Name, m \in Name :
              /\ AtOf(x)[n] # NoSecret /\ AtOf(x)[m] = NoSecret
              /\ AtOf(y) = [AtOf(x) EXCEPT ![m] = AtOf(x)[n], ![n] = NoSecret]
      BY <2>9
    <3>2. ByName(s)[v][n] # NoSecret /\ ByName(s)[v][m] = NoSecret
      BY <1>1, <3>1
    <3>3. ByName(t) = [ByName(s) EXCEPT ![v][m] = ByName(s)[v][n],
                                      ![v][n] = NoSecret]
      BY <1>0, <1>1, <3>1 DEF ByName
    <3> QED
      BY <2>3, <3>2, <3>3 DEF CarriedOut
  <2>10. \/ AtOf(y) = AtOf(x)
         \/ r.op \in Generating /\ AtOf(y) = [AtOf(x) EXCEPT ![r.name] = r.id]
         \/ \E n \in Name : /\ AtOf(x)[n] # NoSecret
                            /\ AtOf(y) = [AtOf(x) EXCEPT ![n] = NoSecret]
         \/ \E n, m \in Name :
              /\ AtOf(x)[n] # NoSecret /\ AtOf(x)[m] = NoSecret
              /\ AtOf(y) = [AtOf(x) EXCEPT ![m] = AtOf(x)[n], ![n] = NoSecret]
    <3>1. y = Changed(r, x) /\ Keeps(r, x) /\ r.op \in Op \ {"create", "remove"}
      BY <1>5
    <3> HIDE DEF x, y
    <3> QED
      BY <3>1, <2>1, <2>2, <2>4, ChangeMaps
  <2> QED
    BY <2>6, <2>7, <2>8, <2>9, <2>10
<1> QED
  BY <1>3, <1>4, <1>5 DEF Outcome

\* What the outcome of a request on vault v is to the store.
LEMMA RequestMaps ==
  ASSUME NEW r, r.vault \in Vault, raced = FALSE, raced' = FALSE,
         CarriedOut(r, settled, settled')
  PROVE  [Store!Next]_(Store!vars)
<1> DEFINE v == r.vault
<1>0. /\ Opened(settled)' = Opened(settled')
      /\ ByName(settled)' = ByName(settled')
  BY DEF Opened, ByName
<1>1. CASE /\ Opened(settled)' = Opened(settled)
           /\ ByName(settled)' = ByName(settled)
  BY <1>1 DEF Store!vars
<1>2. CASE /\ v \notin Opened(settled)
           /\ Opened(settled)' = Opened(settled) \cup {v}
           /\ ByName(settled)' = ByName(settled)
  <2>1. Store!Create(v)
    BY <1>2 DEF Store!Create
  <2> QED
    BY <2>1 DEF Store!Next, Store!Request
<1>3. CASE /\ v \in Opened(settled)
           /\ Opened(settled)' = Opened(settled) \ {v}
           /\ ByName(settled)' =
                [ByName(settled) EXCEPT ![v] = [n \in Name |-> NoSecret]]
  <2>1. Store!Remove(v)
    BY <1>3 DEF Store!Remove, Store!Nothing
  <2> QED
    BY <2>1 DEF Store!Next, Store!Request
<1>4. CASE /\ v \in Opened(settled)
           /\ Opened(settled)' = Opened(settled)
           /\ r.id \in SecretId /\ r.name \in Name
           /\ \A w \in Vault, m \in Name : ByName(settled)[w][m] # r.id
           /\ ByName(settled)' = [ByName(settled) EXCEPT ![v][r.name] = r.id]
  <2>1. Store!Put(v, r.name, r.id)
    BY <1>4 DEF Store!Put
  <2> QED
    BY <1>4, <2>1 DEF Store!Next, Store!Request
<1>5. ASSUME NEW n \in Name, v \in Opened(settled),
             Opened(settled)' = Opened(settled),
             ByName(settled)[v][n] # NoSecret,
             ByName(settled)' = [ByName(settled) EXCEPT ![v][n] = NoSecret]
      PROVE  Store!Next
  <2>1. Store!Delete(v, n)
    BY <1>5 DEF Store!Delete
  <2> QED
    BY <2>1 DEF Store!Next, Store!Request
<1>6. ASSUME NEW n \in Name, NEW m \in Name, v \in Opened(settled),
             Opened(settled)' = Opened(settled),
             ByName(settled)[v][n] # NoSecret, ByName(settled)[v][m] = NoSecret,
             ByName(settled)' =
               [ByName(settled) EXCEPT ![v][m] = ByName(settled)[v][n],
                                      ![v][n] = NoSecret]
      PROVE  Store!Next
  <2>1. Store!Move(v, n, m)
    BY <1>6 DEF Store!Move
  <2> QED
    BY <2>1 DEF Store!Next, Store!Request
<1> QED
  BY <1>0, <1>1, <1>2, <1>3, <1>4, <1>5, <1>6 DEF CarriedOut

\* The write of a call that has a current copy carries out its request;
\* whatever else happens, no request is, or somebody has raced.
LEMMA StepIsRequest ==
  ASSUME SInv, [Next]_vars
  PROVE  [Store!Next]_(Store!vars)
<1>1. CASE raced'
  BY <1>1, SInvStays DEF Store!Next, SInv, IInv, TypeOK
<1>2. CASE ~raced' /\ UNCHANGED settled
  <2>0. raced' \in BOOLEAN
    BY SInvStays DEF SInv, IInv, TypeOK
  <2>1. ~raced
    <3>1. ASSUME NEW c \in Call, Aside(c) PROVE UNCHANGED raced
      BY <3>1, AsideDoes DEF SInv
    <3> QED
      BY <1>2, <3>1, Actions
         DEF Load, LoadRemove, Encrypt, Save, Open, Write, Die, historyVars, vars
  <2> QED
    BY <1>2, <2>0, <2>1 DEF Store!vars, Opened, ByName, SInv, IInv, TypeOK
<1>3. CASE ~raced' /\ settled' # settled
  <2>0. raced' \in BOOLEAN
    BY SInvStays DEF SInv, IInv, TypeOK
  <2>1. PICK c \in Call : Write(c)
    <3>1. ASSUME NEW c \in Call, Aside(c) PROVE UNCHANGED settled
      BY <3>1, AsideDoes DEF SInv
    <3> QED
      BY <1>3, <3>1, Actions
         DEF Load, LoadRemove, Encrypt, Save, Open, Die, historyVars, vars
  <2> DEFINE r == req[c]
             s == settled
             t == list[c]
             v == r.vault
  <2>2. /\ pc[c] = "write" /\ settled' = t /\ c \notin stale /\ ~raced
        /\ s \in Vaults /\ t \in Vaults /\ AllUnique(s) /\ AllUnique(t)
    BY <1>3, <2>1 DEF Write, CopiesUnique, SInv, IInv, TypeOK
  <2>3. /\ Outcome(r, s[v], t[v]) /\ t = [s EXCEPT ![v] = t[v]]
    BY <2>2 DEF Current, CurrentOf, Listed, SInv
  <2>4. Settles(r)
    BY <2>2 DEF Reached, SInv
  <2>5. r.op \in Generating => NoneHas(s, r.id)
    BY <2>2, <2>4 DEF IdsFresh, Mints, Reached, AbsentBut, Settles, SInv
  <2>6. v \in Vault
    BY <2>4 DEF Settles
  <2> HIDE DEF r, s, t
  <2>7. CarriedOut(r, s, t)
    BY <2>2, <2>3, <2>4, <2>5, OutcomeMaps
  <2> QED
    BY <1>3, <2>0, <2>2, <2>6, <2>7, RequestMaps DEF s, SInv, IInv, TypeOK
<1> QED
  BY <1>1, <1>2, <1>3

\* Until a stale copy is written or a write cut short, every call on the
\* vaults is atomic: it is carried out whole or not at all.
THEOREM StoreIsAtomic == Spec => ImplementsStore
<1>1. Init => Store!Init
  <2> SUFFICES ASSUME Init PROVE Store!Init
    OBVIOUS
  <2>1. settled = [v \in Vault |-> NoVault] /\ raced = FALSE
    BY DEF Init, NoVaults
  <2>2. AtOf(NoVault) = [n \in Name |-> NoSecret]
    BY DEF AtOf
  <2> QED
    BY <2>1, <2>2 DEF Opened, ByName, Store!Init, Store!Nothing
<1>2. SInv /\ [Next]_vars => SInv'
  BY SInvStays
<1>3. SInv /\ [Next]_vars => [Store!Next]_(Store!vars)
  BY StepIsRequest
<1> QED
  BY <1>1, <1>2, <1>3, SInvInit, PTL DEF Spec, ImplementsStore, Store!Spec
=============================================================================
