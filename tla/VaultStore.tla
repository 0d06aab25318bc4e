----------------------------- MODULE VaultStore -----------------------------
(***************************************************************************)
(* What the Vaults port promises the rest of the engine: a vault maps the  *)
(* names of its secrets to the secrets, every request is carried out whole *)
(* or not at all, and nothing else ever changes.  No file, no copies, no   *)
(* steps in between.                                                       *)
(*                                                                         *)
(* The promise ends where the adapter gives none: once a save has written  *)
(* back what another call had changed meanwhile, or a write was cut short, *)
(* raced is TRUE and anything may be in the file.                          *)
(***************************************************************************)
CONSTANTS Vault, SecretId, Name, NoSecret

VARIABLES
  open,    \* the vaults there are
  at,      \* [Vault -> [Name -> SecretId \cup {NoSecret}]]
  raced

vars == <<open, at, raced>>

Nothing == [n \in Name |-> NoSecret]

Init ==
  /\ open = {}
  /\ at = [v \in Vault |-> Nothing]
  /\ raced = FALSE

Create(v) ==
  /\ v \notin open
  /\ open' = open \cup {v}
  /\ UNCHANGED at

Remove(v) ==
  /\ v \in open
  /\ open' = open \ {v}
  /\ at' = [at EXCEPT ![v] = Nothing]

\* A new secret under a name, in place of the one that had the name.
Put(v, n, i) ==
  /\ v \in open
  /\ \A w \in Vault, m \in Name : at[w][m] # i
  /\ at' = [at EXCEPT ![v][n] = i]
  /\ UNCHANGED open

Delete(v, n) ==
  /\ v \in open
  /\ at[v][n] # NoSecret
  /\ at' = [at EXCEPT ![v][n] = NoSecret]
  /\ UNCHANGED open

\* The secret keeps its id: whoever refers to it still finds it.
Move(v, n, m) ==
  /\ v \in open
  /\ at[v][n] # NoSecret
  /\ at[v][m] = NoSecret
  /\ at' = [at EXCEPT ![v][m] = at[v][n], ![v][n] = NoSecret]
  /\ UNCHANGED open

Request ==
  \E v \in Vault :
    \/ Create(v)
    \/ Remove(v)
    \/ \E n \in Name :
         \/ \E i \in SecretId : Put(v, n, i)
         \/ Delete(v, n)
         \/ \E m \in Name : Move(v, n, m)

Next ==
  \/ Request /\ ~raced /\ raced' = FALSE
  \/ raced' = TRUE

Spec == Init /\ [][Next]_vars
=============================================================================
