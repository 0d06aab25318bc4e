------------------------------ MODULE AuthProofs ------------------------------
(***************************************************************************)
(* Proofs about Auth: its types, that every key held is the one the        *)
(* password gives when a home is set up by one call at a time, and that    *)
(* secrets resolve as long as a gate's session has not run out.            *)
(***************************************************************************)
EXTENDS Auth, TLAPS

HomeTypes == /\ salt \in Login \cup {NoSalt}
             /\ sentinel \in Key \cup {NoKey}
             /\ token \in Session \cup {NoToken}
SessionTypes == /\ store \in [Engine -> [Login -> Session \cup {NoSession}]]
                /\ active \in [Engine -> Login \cup {NoSalt}]
LoginTypes ==
  /\ pc \in [Login -> Pc]
  /\ key \in [Login -> Key \cup {NoKey}]
  /\ \A l \in Login : pc[l] \notin {"new", "refused"} => key[l] \in Key
GateTypes == /\ gate \in [Engine -> Ticket \cup {Closed}]
             /\ renewal \in [Engine -> Ticket \cup {NoAnswer}]
SlotTypes ==
  /\ doing \in [Slot -> {"idle", "wrapped", "found"}]
  /\ sealing \in [Slot -> Key \cup {NoKey}]
  /\ \A o \in Slot : doing[o] = "wrapped" <=> sealing[o] # NoKey
OtherTypes == /\ mcp \in Session \cup {NoSession}
              /\ scoped \in BOOLEAN
              /\ sealed \in SUBSET Key
              /\ now \in Nat /\ crashes \in Nat

LEMMA TypesByPart ==
  TypeOK <=> /\ HomeTypes /\ SessionTypes /\ LoginTypes
             /\ GateTypes /\ SlotTypes /\ OtherTypes
BY DEF TypeOK, HomeTypes, SessionTypes, LoginTypes, GateTypes, SlotTypes,
       OtherTypes

-----------------------------------------------------------------------------
(* Sessions.                                                               *)

LEMMA SaveTypes ==
  ASSUME SessionTypes, now \in Nat,
         NEW e \in Engine, NEW s \in Login, NEW k \in Key, Save(e, s, k)
  PROVE  SessionTypes'
<1>1. [key |-> k, until |-> now + TTL] \in Session
  BY AuthAssumption DEF Session
<1> QED
  BY <1>1 DEF SessionTypes, Save

LEMMA DropTypes ==
  ASSUME SessionTypes, NEW e \in Engine, NEW s \in Login, Drop(e, s)
  PROVE  SessionTypes'
BY DEF SessionTypes, Drop

LEMMA RefuseTypes ==
  ASSUME SessionTypes, GateTypes, UNCHANGED renewal,
         NEW e \in Engine, NEW s \in Login, Refuse(e, s)
  PROVE  SessionTypes' /\ GateTypes'
<1>1. SessionTypes'
  BY DropTypes DEF Refuse
<1>2. GateTypes'
  BY DEF GateTypes, Refuse
<1> QED
  BY <1>1, <1>2

LEMMA LiveKey ==
  ASSUME SessionTypes, NEW e \in Engine, NEW s \in Login, Live(e, s)
  PROVE  /\ store[e][s] \in Session
         /\ store[e][s].key \in Key
BY DEF SessionTypes, Live, Session

LEMMA NewTicket ==
  ASSUME now \in Nat, NEW s \in Login
  PROVE  [session |-> s, until |-> now + TTL] \in Ticket
BY AuthAssumption DEF Ticket

LEMMA InitTypes == Init => TypeOK
<1> SUFFICES ASSUME Init
             PROVE  TypeOK
  OBVIOUS
<1>1. HomeTypes /\ SessionTypes /\ GateTypes /\ OtherTypes
  BY DEF Init, HomeTypes, SessionTypes, GateTypes, OtherTypes
<1>2. LoginTypes /\ SlotTypes
  BY DEF Init, LoginTypes, SlotTypes, Pc
<1> QED
  BY <1>1, <1>2, TypesByPart

LEMMA TypesKept ==
  ASSUME TypeOK, [Next]_vars
  PROVE  TypeOK'
<1>t. /\ HomeTypes /\ SessionTypes /\ LoginTypes
      /\ GateTypes /\ SlotTypes /\ OtherTypes
  BY TypesByPart
<1> DEFINE Goal == /\ HomeTypes' /\ SessionTypes' /\ LoginTypes'
                   /\ GateTypes' /\ SlotTypes' /\ OtherTypes'
<1> SUFFICES Goal
  BY DEF TypeOK, HomeTypes, SessionTypes, LoginTypes, GateTypes, SlotTypes,
         OtherTypes
<1> USE AuthAssumption
<1>h. ASSUME UNCHANGED homeVars PROVE HomeTypes'
  BY <1>h, <1>t DEF HomeTypes, homeVars
<1>s. ASSUME UNCHANGED sessionVars PROVE SessionTypes'
  BY <1>s, <1>t DEF SessionTypes, sessionVars
<1>l. ASSUME UNCHANGED loginVars PROVE LoginTypes'
  BY <1>l, <1>t DEF LoginTypes, loginVars
<1>g. ASSUME UNCHANGED gateVars PROVE GateTypes'
  BY <1>g, <1>t DEF GateTypes, gateVars
<1>o. ASSUME UNCHANGED slotVars PROVE SlotTypes'
  BY <1>o, <1>t DEF SlotTypes, slotVars
<1>m. ASSUME UNCHANGED <<mcpVars, sealed, now, crashes>> PROVE OtherTypes'
  BY <1>m, <1>t DEF OtherTypes, mcpVars
<1>1. ASSUME NEW l \in Login, NEW p \in Password, StartConfigure(l, p)
      PROVE  Goal
  <2>1. LoginTypes'
    BY <1>1, <1>t DEF StartConfigure, Settles, LoginTypes, Pc, Key
  <2> QED
    BY <2>1, <1>1, <1>h, <1>s, <1>g, <1>o, <1>m DEF StartConfigure
<1>2. ASSUME NEW l \in Login, NEW p \in Password, StartAuthenticate(l, p)
      PROVE  Goal
  <2>1. LoginTypes'
    BY <1>2, <1>t DEF StartAuthenticate, Settles, Configured, LoginTypes,
                      HomeTypes, Pc, Key
  <2> QED
    BY <2>1, <1>2, <1>h, <1>s, <1>g, <1>o, <1>m DEF StartAuthenticate
<1>3. ASSUME NEW l \in Login, WriteSalt(l)
      PROVE  Goal
  <2>1. LoginTypes' /\ HomeTypes'
    BY <1>3, <1>t DEF WriteSalt, Settles, LoginTypes, HomeTypes, Pc
  <2> QED
    BY <2>1, <1>3, <1>s, <1>g, <1>o, <1>m DEF WriteSalt
<1>4. ASSUME NEW l \in Login, WriteSentinel(l)
      PROVE  Goal
  <2>1. LoginTypes' /\ HomeTypes'
    BY <1>4, <1>t DEF WriteSentinel, Settles, LoginTypes, HomeTypes, Pc
  <2> QED
    BY <2>1, <1>4, <1>s, <1>g, <1>o, <1>m DEF WriteSentinel
<1>5. ASSUME NEW l \in Login, Verify(l)
      PROVE  Goal
  <2>1. LoginTypes'
    BY <1>5, <1>t DEF Verify, Settles, LoginTypes, Pc
  <2> QED
    BY <2>1, <1>5, <1>h, <1>s, <1>g, <1>o, <1>m DEF Verify
<1>6. ASSUME NEW l \in Login, Open(l)
      PROVE  Goal
  <2>1. LoginTypes'
    BY <1>6, <1>t DEF Open, Settles, LoginTypes, Pc
  <2>2. SessionTypes'
    BY <1>6, <1>t, SaveTypes DEF Open, LoginTypes, OtherTypes
  <2>3. GateTypes'
    BY <1>6, <1>t, NewTicket DEF Open, GateTypes, OtherTypes
  <2> QED
    BY <2>1, <2>2, <2>3, <1>6, <1>h, <1>o, <1>m DEF Open
<1>7. ASSUME NEW e \in Engine, Renew(e)
      PROVE  Goal
  <2> DEFINE s == gate[e].session
  <2>1. s \in Login
    BY <1>7, <1>t DEF Renew, Due, GateTypes, Ticket
  <2>2. CASE /\ Live(e, s) /\ Save(e, s, store[e][s].key)
             /\ renewal' =
                  [renewal EXCEPT ![e] = [session |-> s, until |-> now + TTL]]
             /\ UNCHANGED gate
    <3>1. SessionTypes'
      BY <2>1, <2>2, <1>t, LiveKey, SaveTypes DEF OtherTypes
    <3>2. GateTypes'
      BY <2>1, <2>2, <1>t, NewTicket DEF GateTypes, OtherTypes
    <3> QED
      BY <3>1, <3>2, <1>7, <1>h, <1>l, <1>o, <1>m DEF Renew
  <2>3. CASE Refuse(e, s) /\ UNCHANGED renewal
    <3>1. SessionTypes' /\ GateTypes'
      BY <2>1, <2>3, <1>t, RefuseTypes
    <3> QED
      BY <3>1, <1>7, <1>h, <1>l, <1>o, <1>m DEF Renew
  <2> QED
    BY <2>2, <2>3, <1>7 DEF Renew
<1>8. ASSUME NEW e \in Engine, Renewed(e)
      PROVE  Goal
  <2>1. GateTypes'
    BY <1>8, <1>t DEF Renewed, GateTypes
  <2> QED
    BY <2>1, <1>8, <1>h, <1>s, <1>l, <1>o, <1>m DEF Renewed
<1>9. ASSUME NEW e \in Engine, Leave(e)
      PROVE  Goal
  <2>1. GateTypes'
    BY <1>9, <1>t DEF Leave, GateTypes
  <2> QED
    BY <2>1, <1>9, <1>h, <1>s, <1>l, <1>o, <1>m DEF Leave
<1>10. ASSUME NEW l \in Login, Seal(l)
       PROVE  Goal
  <2>0. At[l] \in Engine
    OBVIOUS
  <2>1. CASE /\ Live(At[l], l) /\ sealed' = sealed \cup {store[At[l]][l].key}
             /\ UNCHANGED <<sessionVars, gate>>
    <3>1. OtherTypes'
      BY <2>0, <2>1, <1>10, <1>t, LiveKey DEF Seal, OtherTypes, mcpVars
    <3> QED
      BY <3>1, <2>1, <1>10, <1>h, <1>s, <1>l, <1>g, <1>o DEF Seal, gateVars
  <2>2. CASE Refuse(At[l], l) /\ UNCHANGED sealed
    <3>1. SessionTypes' /\ GateTypes'
      BY <2>0, <2>2, <1>10, <1>t, RefuseTypes DEF Seal
    <3> QED
      BY <3>1, <2>2, <1>10, <1>h, <1>l, <1>o, <1>m DEF Seal
  <2> QED
    BY <2>1, <2>2, <1>10 DEF Seal
<1>11. ASSUME NEW e \in Engine, SealActive(e)
       PROVE  Goal
  <2>0. active[e] \in Login
    BY <1>11, <1>t DEF SealActive, SessionTypes
  <2>1. CASE /\ Live(e, active[e])
             /\ sealed' = sealed \cup {store[e][active[e]].key}
             /\ UNCHANGED sessionVars
    <3>1. OtherTypes'
      BY <2>0, <2>1, <1>11, <1>t, LiveKey DEF SealActive, OtherTypes, mcpVars
    <3> QED
      BY <3>1, <2>1, <1>11, <1>h, <1>s, <1>l, <1>g, <1>o DEF SealActive
  <2>2. CASE Drop(e, active[e]) /\ UNCHANGED sealed
    <3>1. SessionTypes'
      BY <2>0, <2>2, <1>t, DropTypes
    <3> QED
      BY <3>1, <2>2, <1>11, <1>h, <1>l, <1>g, <1>o, <1>m DEF SealActive
  <2> QED
    BY <2>1, <2>2, <1>11 DEF SealActive
<1>12. ASSUME NEW o \in Slot, NEW s \in Login, StartGenerate(o, s)
       PROVE  Goal
  <2>0. At[s] \in Engine
    OBVIOUS
  <2>1. CASE /\ Live(At[s], s) /\ Goes(o, "wrapped")
             /\ sealing' = [sealing EXCEPT ![o] = store[At[s]][s].key]
             /\ UNCHANGED <<sessionVars, gate>>
    <3>1. store[At[s]][s].key \in Key
      BY <2>0, <2>1, <1>t, LiveKey
    <3>2. SlotTypes'
      BY <3>1, <2>1, <1>t DEF Goes, SlotTypes
    <3> QED
      BY <3>2, <2>1, <1>12, <1>h, <1>s, <1>l, <1>g, <1>m
      DEF StartGenerate, gateVars
  <2>2. CASE Refuse(At[s], s) /\ UNCHANGED slotVars
    <3>1. SessionTypes' /\ GateTypes'
      BY <2>0, <2>2, <1>12, <1>t, RefuseTypes DEF StartGenerate
    <3> QED
      BY <3>1, <2>2, <1>12, <1>h, <1>l, <1>o, <1>m DEF StartGenerate
  <2> QED
    BY <2>1, <2>2, <1>12 DEF StartGenerate
<1>13. ASSUME NEW o \in Slot, Mint(o)
       PROVE  Goal
  <2>1. SlotTypes'
    BY <1>13, <1>t DEF Mint, Goes, SlotTypes
  <2>2. HomeTypes'
    BY <1>13, <1>t DEF Mint, SlotTypes, HomeTypes, OtherTypes, Session
  <2> QED
    BY <2>1, <2>2, <1>13, <1>s, <1>l, <1>g, <1>m DEF Mint
<1>14. ASSUME NEW o \in Slot, NEW s \in Login, StartRevoke(o, s)
       PROVE  Goal
  <2>0. At[s] \in Engine
    OBVIOUS
  <2>1. CASE /\ Goes(o, "found") /\ doing[o] = "idle"
             /\ UNCHANGED <<sessionVars, gate, sealing>>
    <3>1. SlotTypes'
      BY <2>1, <1>t DEF Goes, SlotTypes
    <3> QED
      BY <3>1, <2>1, <1>14, <1>h, <1>s, <1>l, <1>g, <1>m
      DEF StartRevoke, gateVars
  <2>2. CASE Refuse(At[s], s) /\ UNCHANGED slotVars
    <3>1. SessionTypes' /\ GateTypes'
      BY <2>0, <2>2, <1>14, <1>t, RefuseTypes DEF StartRevoke
    <3> QED
      BY <3>1, <2>2, <1>14, <1>h, <1>l, <1>o, <1>m DEF StartRevoke
  <2> QED
    BY <2>1, <2>2, <1>14 DEF StartRevoke
<1>15. ASSUME NEW o \in Slot, Remove(o)
       PROVE  Goal
  <2>1. SlotTypes' /\ HomeTypes'
    BY <1>15, <1>t DEF Remove, Goes, SlotTypes, HomeTypes
  <2> QED
    BY <2>1, <1>15, <1>s, <1>l, <1>g, <1>m DEF Remove
<1>16. ASSUME McpNext
       PROVE  Goal
  <2>1. OtherTypes'
    BY <1>16, <1>t DEF McpNext, McpBoot, McpExit, McpSeal, Valid, HomeTypes,
                       OtherTypes, Session
  <2> QED
    BY <2>1, <1>16, <1>h, <1>s, <1>l, <1>g, <1>o
    DEF McpNext, McpBoot, McpExit, McpSeal
<1>17. ASSUME Tick
       PROVE  Goal
  <2>1. OtherTypes'
    BY <1>17, <1>t DEF Tick, OtherTypes, mcpVars
  <2> QED
    BY <2>1, <1>17, <1>h, <1>s, <1>l, <1>g, <1>o DEF Tick
<1>18. ASSUME NEW e \in Engine, Crash(e)
       PROVE  Goal
  <2>1. SessionTypes' /\ GateTypes'
    BY <1>18, <1>t DEF Crash, SessionTypes, GateTypes
  <2>2. LoginTypes'
    BY <1>18, <1>t DEF Crash, LoginTypes, Pc
  <2>3. SlotTypes'
    BY <1>18, <1>t DEF Crash, SlotTypes
  <2>4. OtherTypes'
    BY <1>18, <1>t DEF Crash, OtherTypes, mcpVars
  <2> QED
    BY <2>1, <2>2, <2>3, <2>4, <1>18, <1>h DEF Crash
<1>19. CASE UNCHANGED vars
  BY <1>19, <1>h, <1>s, <1>l, <1>g, <1>o, <1>m
  DEF vars, homeVars, sessionVars, loginVars, gateVars, slotVars, mcpVars
<1> QED
  BY <1>1, <1>2, <1>3, <1>4, <1>5, <1>6, <1>7, <1>8, <1>9, <1>10, <1>11,
     <1>12, <1>13, <1>14, <1>15, <1>16, <1>17, <1>18, <1>19
  DEF Next, EngineNext, LoginNext, SlotNext

-----------------------------------------------------------------------------
(* The keys.                                                               *)

\* Setting up: while a call that found no .salt is on its way nothing else is,
\* and nobody holds a key before .auth is written.
HomeInv ==
  /\ salt = NoSalt => sentinel = NoKey
  /\ sentinel # NoKey => OfHome(sentinel)
  /\ \A l \in Login :
       /\ SettingUp(l) => /\ sentinel = NoKey
                          /\ key[l].salt = l
       /\ pc[l] = "checked" => salt = NoSalt
       /\ pc[l] = "salted" => salt = l
       /\ pc[l] = "proved" => OfHome(key[l])
  /\ \A l, m \in Login : SettingUp(l) /\ SettingUp(m) => l = m

KeysInv == TypeOK /\ HomeInv /\ KeysAgree

\* Before .auth is written nobody holds a key.
Nobody ==
  /\ sealed = {} /\ token = NoToken /\ mcp = NoSession
  /\ \A e \in Engine, s \in Login : store[e][s] = NoSession
  /\ \A o \in Slot : sealing[o] = NoKey
  /\ \A l \in Login : pc[l] # "proved"

LEMMA NobodyBefore ==
  ASSUME KeysInv, sentinel = NoKey
  PROVE  Nobody
<1> USE AuthAssumption
<1>1. \A k \in Key : ~OfHome(k)
  BY DEF OfHome
<1>2. sealed = {} /\ token = NoToken /\ mcp = NoSession
  BY <1>1 DEF KeysInv, TypeOK, KeysAgree, Session
<1>3. \A e \in Engine, s \in Login : store[e][s] = NoSession
  BY <1>1 DEF KeysInv, TypeOK, KeysAgree, Session
<1>4. \A o \in Slot : sealing[o] = NoKey
  BY <1>1 DEF KeysInv, TypeOK, KeysAgree
<1>5. \A l \in Login : pc[l] # "proved"
  BY <1>1 DEF KeysInv, TypeOK, HomeInv
<1> QED
  BY <1>2, <1>3, <1>4, <1>5 DEF Nobody

LEMMA InitKeys == Init => KeysInv
<1> SUFFICES ASSUME Init
             PROVE  KeysInv
  OBVIOUS
<1>1. HomeInv
  BY DEF Init, HomeInv, SettingUp
<1>2. KeysAgree
  BY DEF Init, KeysAgree
<1> QED
  BY <1>1, <1>2, InitTypes DEF KeysInv

\* A step that writes neither .salt nor .auth, and proves no password.
HomeKept == /\ UNCHANGED <<salt, sentinel, key>>
            /\ \A l \in Login : pc'[l] # pc[l] => pc'[l] \in {"opened", "refused"}

LEMMA HomeInvKept ==
  ASSUME HomeInv, HomeKept
  PROVE  HomeInv'
BY DEF HomeInv, HomeKept, OfHome, SettingUp

\* The holders of keys, one part of KeysAgree each.
StoreAgrees == \A e \in Engine, s \in Login :
                 store[e][s] # NoSession => OfHome(store[e][s].key)
SlotsAgree == \A o \in Slot : sealing[o] # NoKey => OfHome(sealing[o])
SealedAgrees == \A k \in sealed : OfHome(k)
TokenAgrees == token # NoToken => OfHome(token.key)
McpAgrees == mcp # NoSession => OfHome(mcp.key)
AllAgree == /\ StoreAgrees /\ SlotsAgree /\ SealedAgrees
            /\ TokenAgrees /\ McpAgrees

LEMMA AgreeByPart == KeysAgree <=> AllAgree
BY DEF KeysAgree, AllAgree, StoreAgrees, SlotsAgree, SealedAgrees,
       TokenAgrees, McpAgrees

LEMMA SaveAgrees ==
  ASSUME SessionTypes, StoreAgrees, UNCHANGED <<salt, sentinel>>,
         NEW e \in Engine, NEW s \in Login, NEW k, OfHome(k), Save(e, s, k)
  PROVE  StoreAgrees'
BY DEF SessionTypes, StoreAgrees, Save, OfHome

LEMMA DropAgrees ==
  ASSUME SessionTypes, StoreAgrees, UNCHANGED <<salt, sentinel>>,
         NEW e \in Engine, NEW s \in Login, Drop(e, s)
  PROVE  StoreAgrees'
BY DEF SessionTypes, StoreAgrees, Drop, OfHome

LEMMA KeysKept ==
  ASSUME OneSetup, KeysInv, [Next]_vars
  PROVE  HomeInv' /\ KeysAgree'
<1>t. /\ HomeTypes /\ SessionTypes /\ LoginTypes
      /\ GateTypes /\ SlotTypes /\ OtherTypes
  BY TypesByPart DEF KeysInv
<1>i. HomeInv /\ AllAgree
  BY AgreeByPart DEF KeysInv
<1> DEFINE Goal == /\ HomeInv' /\ StoreAgrees' /\ SlotsAgree'
                   /\ SealedAgrees' /\ TokenAgrees' /\ McpAgrees'
<1> SUFFICES Goal
  BY DEF KeysAgree, StoreAgrees, SlotsAgree, SealedAgrees, TokenAgrees,
         McpAgrees
<1> USE AuthAssumption
<1> DEFINE Kept == UNCHANGED <<salt, sentinel>>
<1>s. ASSUME Kept, UNCHANGED sessionVars PROVE StoreAgrees'
  BY <1>s, <1>i DEF AllAgree, StoreAgrees, OfHome, sessionVars
<1>o. ASSUME Kept, UNCHANGED slotVars PROVE SlotsAgree'
  BY <1>o, <1>i DEF AllAgree, SlotsAgree, OfHome, slotVars
<1>e. ASSUME Kept, UNCHANGED sealed PROVE SealedAgrees'
  BY <1>e, <1>i DEF AllAgree, SealedAgrees, OfHome
<1>k. ASSUME Kept, UNCHANGED token PROVE TokenAgrees'
  BY <1>k, <1>i DEF AllAgree, TokenAgrees, OfHome
<1>m. ASSUME Kept, UNCHANGED mcp PROVE McpAgrees'
  BY <1>m, <1>i DEF AllAgree, McpAgrees, OfHome
<1>n. ASSUME sentinel = NoKey,
             UNCHANGED <<sessionVars, slotVars, sealed, token, mcp>>
      PROVE  /\ StoreAgrees' /\ SlotsAgree' /\ SealedAgrees'
             /\ TokenAgrees' /\ McpAgrees'
  BY <1>n, NobodyBefore DEF Nobody, sessionVars, slotVars, StoreAgrees,
     SlotsAgree, SealedAgrees, TokenAgrees, McpAgrees
<1>1. ASSUME NEW l \in Login, NEW p \in Password, StartConfigure(l, p)
      PROVE  Goal
  <2>1. \A m \in Login : ~SettingUp(m)
    BY <1>1 DEF StartConfigure
  <2>2. HomeInv'
    BY <1>1, <2>1, <1>i, <1>t DEF StartConfigure, Settles, Configured,
       HomeInv, SettingUp, OfHome, LoginTypes, homeVars
  <2> QED
    BY <2>2, <1>1, <1>s, <1>o, <1>e, <1>k, <1>m
    DEF StartConfigure, homeVars, mcpVars
<1>2. ASSUME NEW l \in Login, NEW p \in Password, StartAuthenticate(l, p)
      PROVE  Goal
  <2>1. HomeInv'
    BY <1>2, <1>i, <1>t DEF StartAuthenticate, Settles, HomeInv, SettingUp,
       OfHome, LoginTypes, homeVars
  <2> QED
    BY <2>1, <1>2, <1>s, <1>o, <1>e, <1>k, <1>m
    DEF StartAuthenticate, homeVars, mcpVars
<1>3. ASSUME NEW l \in Login, WriteSalt(l)
      PROVE  Goal
  <2>1. sentinel = NoKey /\ sentinel' = NoKey /\ SettingUp(l)
    BY <1>3, <1>i DEF WriteSalt, HomeInv, SettingUp
  <2>2. \A m \in Login : pc[m] # "proved"
    BY <2>1, NobodyBefore DEF Nobody
  <2>3. HomeInv'
    BY <1>3, <2>1, <2>2, <1>i, <1>t DEF WriteSalt, Settles, HomeInv,
       SettingUp, OfHome, LoginTypes, HomeTypes
  <2> QED
    BY <2>1, <2>3, <1>3, <1>n DEF WriteSalt, mcpVars
<1>4. ASSUME NEW l \in Login, WriteSentinel(l)
      PROVE  Goal
  <2>1. sentinel = NoKey /\ SettingUp(l)
    BY <1>4, <1>i DEF WriteSentinel, HomeInv, SettingUp
  <2>2. \A m \in Login : pc[m] # "proved"
    BY <2>1, NobodyBefore DEF Nobody
  <2>3. salt = l /\ salt' = l /\ key[l] \in Key /\ key[l].salt = l
    BY <1>4, <2>1, <1>i, <1>t DEF WriteSentinel, HomeInv, LoginTypes
  <2>4. HomeInv'
    BY <1>4, <2>1, <2>2, <2>3, <1>i, <1>t DEF WriteSentinel, Settles,
       HomeInv, SettingUp, OfHome, LoginTypes
  <2> QED
    BY <2>1, <2>4, <1>4, <1>n DEF WriteSentinel, mcpVars
<1>5. ASSUME NEW l \in Login, Verify(l)
      PROVE  Goal
  <2>1. key[l] \in Key
    BY <1>5, <1>t DEF Verify, LoginTypes
  <2>2. HomeInv'
    BY <1>5, <2>1, <1>i, <1>t DEF Verify, Settles, Opens, HomeInv, SettingUp,
       OfHome, LoginTypes, homeVars
  <2> QED
    BY <2>2, <1>5, <1>s, <1>o, <1>e, <1>k, <1>m DEF Verify, homeVars, mcpVars
<1>6. ASSUME NEW l \in Login, Open(l)
      PROVE  Goal
  <2>1. OfHome(key[l])
    BY <1>6, <1>i DEF Open, HomeInv
  <2>2. StoreAgrees'
    BY <1>6, <2>1, <1>i, <1>t, SaveAgrees DEF Open, AllAgree, homeVars
  <2>3. HomeInv'
    BY <1>6, <1>i, <1>t, HomeInvKept
    DEF Open, Settles, HomeKept, LoginTypes, homeVars
  <2> QED
    BY <2>2, <2>3, <1>6, <1>o, <1>e, <1>k, <1>m DEF Open, homeVars, mcpVars
<1>7. ASSUME NEW e \in Engine, Renew(e)
      PROVE  Goal
  <2> DEFINE s == gate[e].session
  <2>1. s \in Login
    BY <1>7, <1>t DEF Renew, Due, GateTypes, Ticket
  <2>2. HomeInv'
    BY <1>7, <1>i, HomeInvKept DEF Renew, HomeKept, homeVars, loginVars
  <2>3. Kept
    BY <1>7 DEF Renew, homeVars
  <2>4. CASE Live(e, s) /\ Save(e, s, store[e][s].key)
    <3>1. OfHome(store[e][s].key)
      BY <2>1, <2>4, <1>i DEF Live, AllAgree, StoreAgrees
    <3> QED
      BY <3>1, <2>1, <2>3, <2>4, <1>i, <1>t, <2>2, <1>7, SaveAgrees, <1>o,
         <1>e, <1>k, <1>m
      DEF Renew, homeVars, mcpVars, AllAgree
  <2>5. CASE Refuse(e, s)
    <3>1. StoreAgrees'
      BY <2>1, <2>3, <2>5, <1>i, <1>t, DropAgrees DEF Refuse, AllAgree
    <3> QED
      BY <3>1, <2>2, <1>7, <1>o, <1>e, <1>k, <1>m DEF Renew, homeVars, mcpVars
  <2> QED
    BY <2>4, <2>5, <1>7 DEF Renew
<1>8. ASSUME NEW e \in Engine, Renewed(e) \/ Leave(e)
      PROVE  Goal
  <2>1. HomeInv'
    BY <1>8, <1>i, HomeInvKept
    DEF Renewed, Leave, HomeKept, homeVars, loginVars
  <2> QED
    BY <2>1, <1>8, <1>s, <1>o, <1>e, <1>k, <1>m
    DEF Renewed, Leave, homeVars, mcpVars
<1>10. ASSUME NEW l \in Login, Seal(l)
       PROVE  Goal
  <2>0. At[l] \in Engine
    OBVIOUS
  <2>1. HomeInv'
    BY <1>10, <1>i, HomeInvKept DEF Seal, HomeKept, homeVars, loginVars
  <2>2. CASE /\ Live(At[l], l) /\ sealed' = sealed \cup {store[At[l]][l].key}
             /\ UNCHANGED sessionVars
    <3>1. OfHome(store[At[l]][l].key)
      BY <2>0, <2>2, <1>i DEF Live, AllAgree, StoreAgrees
    <3>2. SealedAgrees'
      BY <3>1, <2>2, <1>10, <1>i DEF Seal, AllAgree, SealedAgrees, OfHome,
         homeVars
    <3> QED
      BY <3>2, <2>1, <2>2, <1>10, <1>s, <1>o, <1>k, <1>m
      DEF Seal, homeVars, mcpVars
  <2>3. CASE Refuse(At[l], l) /\ UNCHANGED sealed
    <3>1. StoreAgrees'
      BY <2>0, <2>3, <1>10, <1>i, <1>t, DropAgrees
      DEF Seal, Refuse, AllAgree, homeVars
    <3> QED
      BY <3>1, <2>1, <2>3, <1>10, <1>o, <1>e, <1>k, <1>m
      DEF Seal, homeVars, mcpVars
  <2> QED
    BY <2>2, <2>3, <1>10 DEF Seal
<1>11. ASSUME NEW e \in Engine, SealActive(e)
       PROVE  Goal
  <2> DEFINE s == active[e]
  <2>0. s \in Login
    BY <1>11, <1>t DEF SealActive, SessionTypes
  <2>1. HomeInv'
    BY <1>11, <1>i, HomeInvKept DEF SealActive, HomeKept, homeVars, loginVars
  <2>2. CASE /\ Live(e, s) /\ sealed' = sealed \cup {store[e][s].key}
             /\ UNCHANGED sessionVars
    <3>1. OfHome(store[e][s].key)
      BY <2>0, <2>2, <1>i DEF Live, AllAgree, StoreAgrees
    <3>2. SealedAgrees'
      BY <3>1, <2>2, <1>11, <1>i DEF SealActive, AllAgree, SealedAgrees,
         OfHome, homeVars
    <3> QED
      BY <3>2, <2>1, <2>2, <1>11, <1>s, <1>o, <1>k, <1>m
      DEF SealActive, homeVars, mcpVars
  <2>3. CASE Drop(e, s) /\ UNCHANGED sealed
    <3>1. StoreAgrees'
      BY <2>0, <2>3, <1>11, <1>i, <1>t, DropAgrees
      DEF SealActive, AllAgree, homeVars
    <3> QED
      BY <3>1, <2>1, <2>3, <1>11, <1>o, <1>e, <1>k, <1>m
      DEF SealActive, homeVars, mcpVars
  <2> QED
    BY <2>2, <2>3, <1>11 DEF SealActive
<1>12. ASSUME NEW o \in Slot, NEW s \in Login, StartGenerate(o, s)
       PROVE  Goal
  <2>0. At[s] \in Engine
    OBVIOUS
  <2>1. HomeInv'
    BY <1>12, <1>i, HomeInvKept
    DEF StartGenerate, HomeKept, homeVars, loginVars
  <2>2. CASE /\ Live(At[s], s)
             /\ sealing' = [sealing EXCEPT ![o] = store[At[s]][s].key]
             /\ UNCHANGED sessionVars
    <3>1. OfHome(store[At[s]][s].key)
      BY <2>0, <2>2, <1>i DEF Live, AllAgree, StoreAgrees
    <3>2. SlotsAgree'
      BY <3>1, <2>2, <1>12, <1>i, <1>t DEF StartGenerate, AllAgree, SlotsAgree,
         SlotTypes, OfHome, homeVars
    <3> QED
      BY <3>2, <2>1, <2>2, <1>12, <1>s, <1>e, <1>k, <1>m
      DEF StartGenerate, homeVars, mcpVars
  <2>3. CASE Refuse(At[s], s) /\ UNCHANGED slotVars
    <3>1. StoreAgrees'
      BY <2>0, <2>3, <1>12, <1>i, <1>t, DropAgrees
      DEF StartGenerate, Refuse, AllAgree, homeVars
    <3> QED
      BY <3>1, <2>1, <2>3, <1>12, <1>o, <1>e, <1>k, <1>m
      DEF StartGenerate, homeVars, mcpVars
  <2> QED
    BY <2>2, <2>3, <1>12 DEF StartGenerate
<1>13. ASSUME NEW o \in Slot, Mint(o)
       PROVE  Goal
  <2>1. HomeInv'
    BY <1>13, <1>i, HomeInvKept DEF Mint, HomeKept, loginVars
  <2>2. OfHome(sealing[o])
    BY <1>13, <1>i, <1>t DEF Mint, SlotTypes, AllAgree, SlotsAgree
  <2>3. TokenAgrees'
    BY <2>2, <1>13 DEF Mint, TokenAgrees, OfHome
  <2>4. SlotsAgree'
    BY <1>13, <1>i, <1>t DEF Mint, AllAgree, SlotsAgree, SlotTypes, OfHome
  <2> QED
    BY <2>1, <2>3, <2>4, <1>13, <1>s, <1>e, <1>m DEF Mint, mcpVars
<1>14. ASSUME NEW o \in Slot, NEW s \in Login, StartRevoke(o, s)
       PROVE  Goal
  <2>0. At[s] \in Engine
    OBVIOUS
  <2>1. HomeInv'
    BY <1>14, <1>i, HomeInvKept DEF StartRevoke, HomeKept, homeVars, loginVars
  <2>2. SlotsAgree'
    BY <1>14, <1>i DEF StartRevoke, slotVars, AllAgree, SlotsAgree, OfHome,
       homeVars
  <2>3. StoreAgrees'
    BY <2>0, <1>14, <1>s, <1>i, <1>t, DropAgrees
    DEF StartRevoke, Refuse, AllAgree, homeVars
  <2> QED
    BY <2>1, <2>2, <2>3, <1>14, <1>e, <1>k, <1>m
    DEF StartRevoke, homeVars, mcpVars
<1>15. ASSUME NEW o \in Slot, Remove(o)
       PROVE  Goal
  <2>1. HomeInv'
    BY <1>15, <1>i, HomeInvKept DEF Remove, HomeKept, loginVars
  <2>2. TokenAgrees' /\ SlotsAgree'
    BY <1>15, <1>i DEF Remove, TokenAgrees, AllAgree, SlotsAgree, OfHome
  <2> QED
    BY <2>1, <2>2, <1>15, <1>s, <1>e, <1>m DEF Remove, mcpVars
<1>16. ASSUME McpNext
       PROVE  Goal
  <2>1. HomeInv'
    BY <1>16, <1>i, HomeInvKept DEF McpNext, McpBoot, McpExit, McpSeal,
       HomeKept, homeVars, loginVars
  <2>2. McpAgrees' /\ SealedAgrees'
    BY <1>16, <1>i DEF McpNext, McpBoot, McpExit, McpSeal, Valid, AllAgree,
       McpAgrees, TokenAgrees, SealedAgrees, OfHome, homeVars
  <2> QED
    BY <2>1, <2>2, <1>16, <1>s, <1>o, <1>k
    DEF McpNext, McpBoot, McpExit, McpSeal, homeVars
<1>17. ASSUME Tick
       PROVE  Goal
  <2>1. HomeInv'
    BY <1>17, <1>i, HomeInvKept DEF Tick, HomeKept, homeVars, loginVars
  <2> QED
    BY <2>1, <1>17, <1>s, <1>o, <1>e, <1>k, <1>m DEF Tick, homeVars, mcpVars
<1>18. ASSUME NEW e \in Engine, Crash(e)
       PROVE  Goal
  <2>1. HomeInv'
    BY <1>18, <1>i, HomeInvKept DEF Crash, HomeKept, homeVars
  <2>2. StoreAgrees'
    BY <1>18, <1>i, <1>t DEF Crash, StoreAgrees, AllAgree, SessionTypes,
       OfHome, homeVars
  <2>3. SlotsAgree'
    BY <1>18, <1>i DEF Crash, SlotsAgree, AllAgree, OfHome, homeVars
  <2> QED
    BY <2>1, <2>2, <2>3, <1>18, <1>e, <1>k, <1>m DEF Crash, homeVars, mcpVars
<1>19. CASE UNCHANGED vars
  <2>1. HomeInv'
    BY <1>19, <1>i, HomeInvKept DEF vars, HomeKept
  <2> QED
    BY <2>1, <1>19, <1>s, <1>o, <1>e, <1>k, <1>m
    DEF vars, sessionVars, slotVars
<1> QED
  BY <1>1, <1>2, <1>3, <1>4, <1>5, <1>6, <1>7, <1>8, <1>10, <1>11,
     <1>12, <1>13, <1>14, <1>15, <1>16, <1>17, <1>18, <1>19
  DEF Next, EngineNext, LoginNext, SlotNext

-----------------------------------------------------------------------------
(* The session saved last.                                                 *)

\* A ticket never promises more than the store holds.
Backed(e, t) ==
  now <= t.until => /\ store[e][t.session] # NoSession
                    /\ t.until <= store[e][t.session].until

Until(e, s) == store[e][s].until

\* In an engine no session outlives the active one, and none outlives TTL.
EngineInv(e) ==
  /\ \A s \in Login : store[e][s] # NoSession => Until(e, s) <= now + TTL
  /\ \A s \in Login :
       Live(e, s) => /\ active[e] # NoSalt
                     /\ store[e][active[e]] # NoSession
                     /\ Until(e, s) <= Until(e, active[e])
  /\ gate[e] # Closed => Backed(e, gate[e])
  /\ renewal[e] # NoAnswer => Backed(e, renewal[e])

SessionsInv == TypeOK /\ \A e \in Engine : EngineInv(e)

LEMMA EngineKept ==
  ASSUME NEW e \in Engine, EngineInv(e), now' = now,
         store'[e] = store[e], active'[e] = active[e],
         gate'[e] \in {gate[e], Closed}, renewal'[e] = renewal[e]
  PROVE  EngineInv(e)'
BY DEF EngineInv, Backed, Until, Live

LEMMA SaveInv ==
  ASSUME TypeOK, NEW e \in Engine, EngineInv(e), now' = now,
         NEW s \in Login, NEW k \in Key, Save(e, s, k),
         gate'[e] \in {gate[e], [session |-> s, until |-> now + TTL]},
         renewal'[e] \in {renewal[e], [session |-> s, until |-> now + TTL]}
  PROVE  EngineInv(e)'
<1> USE AuthAssumption
<1>1. /\ store'[e] = [store[e] EXCEPT ![s] = [key |-> k, until |-> now + TTL]]
      /\ active'[e] = s
      /\ store[e] \in [Login -> Session \cup {NoSession}]
      /\ now \in Nat
  BY DEF Save, TypeOK
<1>2. /\ store'[e][s] = [key |-> k, until |-> now + TTL]
      /\ store'[e][s] # NoSession
      /\ store'[e][s].until = now + TTL
      /\ \A t \in Login \ {s} : store'[e][t] = store[e][t]
  BY <1>1 DEF Session
<1>3. \A t \in Login : store[e][t] # NoSession =>
        store[e][t].until \in Nat /\ store[e][t].until <= now + TTL
  BY <1>1 DEF EngineInv, Until, Session
<1>4. \A t \in Login : store'[e][t] # NoSession =>
        store'[e][t].until <= now + TTL
  BY <1>1, <1>2, <1>3
<1>5. \A t \in Ticket : Backed(e, t) => Backed(e, t)'
  BY <1>1, <1>2, <1>3 DEF Backed, Ticket
<1>6. ASSUME NEW t, t = [session |-> s, until |-> now + TTL]
      PROVE  Backed(e, t)'
  BY <1>1, <1>2, <1>6 DEF Backed
<1>7. gate[e] \in Ticket \cup {Closed} /\ renewal[e] \in Ticket \cup {NoAnswer}
  BY DEF TypeOK
<1>8. gate'[e] # Closed => Backed(e, gate[e])'
  BY <1>5, <1>6, <1>7, <1>1 DEF EngineInv, Backed
<1>9. renewal'[e] # NoAnswer => Backed(e, renewal[e])'
  BY <1>5, <1>6, <1>7, <1>1 DEF EngineInv, Backed
<1>10. \A t \in Login : Live(e, t)' =>
         /\ active'[e] # NoSalt
         /\ store'[e][active'[e]] # NoSession
         /\ store'[e][t].until <= store'[e][active'[e]].until
  BY <1>1, <1>2, <1>4 DEF Live
<1> QED
  BY <1>1, <1>4, <1>8, <1>9, <1>10 DEF EngineInv, Until

LEMMA DropInv ==
  ASSUME TypeOK, NEW e \in Engine, EngineInv(e), now' = now,
         NEW s \in Login, ~Live(e, s), Drop(e, s),
         gate'[e] \in {gate[e], Closed}, renewal'[e] = renewal[e]
  PROVE  EngineInv(e)'
<1> USE AuthAssumption
<1>1. /\ store'[e] = [store[e] EXCEPT ![s] = NoSession]
      /\ active'[e] = active[e]
      /\ store[e] \in [Login -> Session \cup {NoSession}]
      /\ now \in Nat
  BY DEF Drop, TypeOK
<1>2. /\ store'[e][s] = NoSession
      /\ \A t \in Login \ {s} : store'[e][t] = store[e][t]
  BY <1>1
<1>3. \A t \in Login : store[e][t] # NoSession => store[e][t].until \in Nat
  BY <1>1 DEF Session
<1>4. \A t \in Login : Live(e, t)' =>
         /\ active'[e] # NoSalt
         /\ store'[e][active'[e]] # NoSession
         /\ store'[e][t].until <= store'[e][active'[e]].until
  <2> SUFFICES ASSUME NEW t \in Login, Live(e, t)'
               PROVE  /\ active'[e] # NoSalt
                      /\ store'[e][active'[e]] # NoSession
                      /\ store'[e][t].until <= store'[e][active'[e]].until
    OBVIOUS
  <2>1. t # s /\ Live(e, t)
    BY <1>1, <1>2 DEF Live
  <2>2. /\ active[e] \in Login
        /\ store[e][active[e]] # NoSession
        /\ store[e][t].until <= store[e][active[e]].until
    BY <2>1 DEF EngineInv, Until, TypeOK
  <2>3. active[e] # s
    BY <2>1, <2>2, <1>1, <1>3 DEF Live
  <2> QED
    BY <2>1, <2>2, <2>3, <1>1, <1>2
<1>5. ASSUME NEW t \in Ticket, Backed(e, t)
      PROVE  Backed(e, t)'
  <2> SUFFICES ASSUME now <= t.until
               PROVE  /\ store'[e][t.session] # NoSession
                      /\ t.until <= store'[e][t.session].until
    BY <1>1 DEF Backed
  <2>1. /\ t.session \in Login /\ t.until \in Nat
        /\ store[e][t.session] # NoSession
        /\ t.until <= store[e][t.session].until
    BY <1>5 DEF Backed, Ticket
  <2>2. t.session # s
    BY <2>1, <1>1, <1>3 DEF Live
  <2> QED
    BY <2>1, <2>2, <1>2
<1>6. gate[e] \in Ticket \cup {Closed} /\ renewal[e] \in Ticket \cup {NoAnswer}
  BY DEF TypeOK
<1>7. gate'[e] # Closed => Backed(e, gate[e])'
  BY <1>5, <1>6 DEF EngineInv, Backed
<1>8. renewal'[e] # NoAnswer => Backed(e, renewal[e])'
  BY <1>5, <1>6 DEF EngineInv, Backed
<1>9. \A t \in Login : store'[e][t] # NoSession =>
        store'[e][t].until <= now + TTL
  BY <1>2 DEF EngineInv, Until
<1> QED
  BY <1>1, <1>4, <1>7, <1>8, <1>9 DEF EngineInv, Until

LEMMA SessionsKept ==
  ASSUME SessionsInv, [Next]_vars
  PROVE  \A e \in Engine : EngineInv(e)'
<1> USE AuthAssumption
<1> SUFFICES ASSUME NEW e \in Engine
             PROVE  EngineInv(e)'
  OBVIOUS
<1>t. TypeOK /\ EngineInv(e)
  BY DEF SessionsInv
<1>u. ASSUME UNCHANGED <<now, sessionVars, gateVars>>
      PROVE  EngineInv(e)'
  BY <1>u, <1>t, EngineKept DEF sessionVars, gateVars
\* What another engine does, or this one's login, renewal or request.
<1>v. ASSUME NEW d \in Engine, NEW s \in Login, NEW k \in Key, now' = now,
             Save(d, s, k), UNCHANGED renewal,
             \/ gate' = [gate EXCEPT ![d] = [session |-> s, until |-> now + TTL]]
             \/ UNCHANGED gate
      PROVE  EngineInv(e)'
  <2>1. CASE d = e
    BY <2>1, <1>v, <1>t, SaveInv DEF TypeOK
  <2>2. CASE d # e
    BY <2>2, <1>v, <1>t, EngineKept DEF Save, TypeOK
  <2> QED
    BY <2>1, <2>2
<1>r. ASSUME NEW d \in Engine, NEW s \in Login, NEW k \in Key, now' = now,
             Save(d, s, k), UNCHANGED gate,
             renewal' =
               [renewal EXCEPT ![d] = [session |-> s, until |-> now + TTL]]
      PROVE  EngineInv(e)'
  <2>1. CASE d = e
    BY <2>1, <1>r, <1>t, SaveInv DEF TypeOK
  <2>2. CASE d # e
    BY <2>2, <1>r, <1>t, EngineKept DEF Save, TypeOK
  <2> QED
    BY <2>1, <2>2
<1>d. ASSUME NEW d \in Engine, NEW s \in Login, now' = now, ~Live(d, s),
             Drop(d, s), UNCHANGED renewal,
             \/ gate' = [gate EXCEPT ![d] = Closed]
             \/ UNCHANGED gate
      PROVE  EngineInv(e)'
  <2>1. CASE d = e
    BY <2>1, <1>d, <1>t, DropInv DEF TypeOK
  <2>2. CASE d # e
    BY <2>2, <1>d, <1>t, EngineKept DEF Drop, TypeOK
  <2> QED
    BY <2>1, <2>2
<1>1. ASSUME NEW l \in Login, NEW p \in Password,
             StartConfigure(l, p) \/ StartAuthenticate(l, p)
      PROVE  EngineInv(e)'
  BY <1>1, <1>u DEF StartConfigure, StartAuthenticate
<1>2. ASSUME NEW l \in Login, WriteSalt(l) \/ WriteSentinel(l) \/ Verify(l)
      PROVE  EngineInv(e)'
  BY <1>2, <1>u DEF WriteSalt, WriteSentinel, Verify
<1>3. ASSUME NEW l \in Login, Open(l)
      PROVE  EngineInv(e)'
  <2>1. key[l] \in Key
    BY <1>3, <1>t DEF Open, TypeOK
  <2> QED
    BY <2>1, <1>3, <1>v DEF Open
<1>4. ASSUME NEW d \in Engine, Renew(d)
      PROVE  EngineInv(e)'
  <2> DEFINE s == gate[d].session
  <2>1. s \in Login
    BY <1>4, <1>t DEF Renew, Due, TypeOK, Ticket
  <2>2. CASE Live(d, s) /\ Save(d, s, store[d][s].key)
             /\ renewal' =
                  [renewal EXCEPT ![d] = [session |-> s, until |-> now + TTL]]
             /\ UNCHANGED gate
    <3>1. store[d][s].key \in Key
      BY <2>1, <2>2, <1>t DEF Live, TypeOK, Session
    <3> QED
      BY <3>1, <2>1, <2>2, <1>4, <1>r DEF Renew
  <2>3. CASE Refuse(d, s) /\ UNCHANGED renewal
    BY <2>1, <2>3, <1>4, <1>d DEF Renew, Refuse
  <2> QED
    BY <2>2, <2>3, <1>4 DEF Renew
<1>5. ASSUME NEW d \in Engine, Renewed(d)
      PROVE  EngineInv(e)'
  <2>1. CASE d = e
    BY <2>1, <1>5, <1>t
    DEF Renewed, EngineInv, Backed, Until, Live, sessionVars, TypeOK
  <2>2. CASE d # e
    BY <2>2, <1>5, <1>t, EngineKept DEF Renewed, sessionVars, TypeOK
  <2> QED
    BY <2>1, <2>2
<1>6. ASSUME NEW d \in Engine, Leave(d)
      PROVE  EngineInv(e)'
  BY <1>6, <1>t, EngineKept DEF Leave, sessionVars, TypeOK
<1>7. ASSUME NEW l \in Login, Seal(l)
      PROVE  EngineInv(e)'
  <2>1. CASE UNCHANGED <<sessionVars, gate>>
    BY <2>1, <1>7, <1>u DEF Seal, gateVars
  <2>2. CASE Refuse(At[l], l)
    BY <2>2, <1>7, <1>d DEF Seal, Refuse
  <2> QED
    BY <2>1, <2>2, <1>7 DEF Seal
<1>8. ASSUME NEW d \in Engine, SealActive(d)
      PROVE  EngineInv(e)'
  <2>1. active[d] \in Login
    BY <1>8, <1>t DEF SealActive, TypeOK
  <2>2. CASE UNCHANGED sessionVars
    BY <2>2, <1>8, <1>u DEF SealActive
  <2>3. CASE ~Live(d, active[d]) /\ Drop(d, active[d])
    BY <2>1, <2>3, <1>8, <1>d DEF SealActive, gateVars
  <2> QED
    BY <2>2, <2>3, <1>8 DEF SealActive
<1>9. ASSUME NEW o \in Slot, NEW s \in Login,
             StartGenerate(o, s) \/ StartRevoke(o, s)
      PROVE  EngineInv(e)'
  <2>1. CASE UNCHANGED <<sessionVars, gate>>
    BY <2>1, <1>9, <1>u DEF StartGenerate, StartRevoke, gateVars
  <2>2. CASE Refuse(At[s], s)
    BY <2>2, <1>9, <1>d DEF StartGenerate, StartRevoke, Refuse
  <2> QED
    BY <2>1, <2>2, <1>9 DEF StartGenerate, StartRevoke
<1>10. ASSUME NEW o \in Slot, Mint(o) \/ Remove(o)
       PROVE  EngineInv(e)'
  BY <1>10, <1>u DEF Mint, Remove
<1>11. ASSUME McpNext
       PROVE  EngineInv(e)'
  BY <1>11, <1>u DEF McpNext, McpBoot, McpExit, McpSeal
<1>12. ASSUME Tick
       PROVE  EngineInv(e)'
  <2>1. /\ now \in Nat /\ now' = now + 1
        /\ UNCHANGED <<store, active, gate, renewal>>
    BY <1>12, <1>t DEF Tick, TypeOK, sessionVars, gateVars
  <2>2. \A s \in Login : store[e][s] # NoSession => store[e][s].until \in Nat
    BY <1>t DEF TypeOK, Session
  <2>3. \A s \in Login : Live(e, s)' => Live(e, s)
    BY <2>1, <2>2 DEF Live
  <2>4. \A t \in Ticket : Backed(e, t) => Backed(e, t)'
    BY <2>1 DEF Backed, Ticket
  <2>5. gate[e] \in Ticket \cup {Closed} /\ renewal[e] \in Ticket \cup {NoAnswer}
    BY <1>t DEF TypeOK
  <2>6. /\ gate'[e] # Closed => Backed(e, gate[e])'
        /\ renewal'[e] # NoAnswer => Backed(e, renewal[e])'
    BY <2>1, <2>4, <2>5, <1>t DEF EngineInv, Backed
  <2>7. \A s \in Login : store'[e][s] # NoSession =>
          store'[e][s].until <= now' + TTL
    BY <2>1, <2>2, <1>t DEF EngineInv, Until
  <2> QED
    BY <2>1, <2>3, <2>6, <2>7, <1>t DEF EngineInv, Until
<1>13. ASSUME NEW d \in Engine, Crash(d)
       PROVE  EngineInv(e)'
  <2>1. CASE d = e
    BY <2>1, <1>13, <1>t DEF Crash, EngineInv, Backed, Until, Live, TypeOK
  <2>2. CASE d # e
    BY <2>2, <1>13, <1>t, EngineKept DEF Crash, TypeOK
  <2> QED
    BY <2>1, <2>2
<1>14. CASE UNCHANGED vars
  BY <1>14, <1>u DEF vars, sessionVars, gateVars
<1> QED
  BY <1>1, <1>2, <1>3, <1>4, <1>5, <1>6, <1>7, <1>8, <1>9, <1>10, <1>11,
     <1>12, <1>13, <1>14
  DEF Next, EngineNext, LoginNext, SlotNext

-----------------------------------------------------------------------------
(* The theorems.                                                           *)

\* The variables have their types in every reachable state.
THEOREM AuthTypes == Spec => []TypeOK
BY InitTypes, TypesKept, PTL DEF Spec

\* When a home is set up by one call at a time, every key that encrypts a
\* secret or that anyone holds is the one the right password gives, whatever
\* crashes, logins, renewals and tokens there are (configure-handler.ts:19-25).
THEOREM OneKey ==
  ASSUME OneSetup
  PROVE  Spec => []KeysAgree
<1>1. Init => KeysInv
  BY InitKeys
<1>2. KeysInv /\ [Next]_vars => KeysInv'
  <2> SUFFICES ASSUME KeysInv, [Next]_vars
               PROVE  KeysInv'
    OBVIOUS
  <2>1. TypeOK'
    BY TypesKept DEF KeysInv
  <2>2. HomeInv' /\ KeysAgree'
    BY KeysKept
  <2> QED
    BY <2>1, <2>2 DEF KeysInv
<1>3. KeysInv => KeysAgree
  BY DEF KeysInv
<1> QED
  BY <1>1, <1>2, <1>3, PTL DEF Spec

\* While a gate's session has not run out, secrets resolve in its engine
\* (sessions-adapter.ts:18-43).
THEOREM GatesResolve == Spec => []OpenGateResolves
<1>1. Init => SessionsInv
  <2>1. ASSUME Init, NEW e \in Engine
        PROVE  EngineInv(e)
    <3>1. /\ \A s \in Login : store[e][s] = NoSession
          /\ gate[e] = Closed /\ renewal[e] = NoAnswer
      BY <2>1 DEF Init
    <3> QED
      BY <3>1 DEF EngineInv, Live
  <2> QED
    BY <2>1, InitTypes DEF SessionsInv
<1>2. SessionsInv /\ [Next]_vars => SessionsInv'
  <2> SUFFICES ASSUME SessionsInv, [Next]_vars
               PROVE  SessionsInv'
    OBVIOUS
  <2>1. TypeOK'
    BY TypesKept DEF SessionsInv
  <2>2. \A e \in Engine : EngineInv(e)'
    BY SessionsKept
  <2> QED
    BY <2>1, <2>2 DEF SessionsInv
<1>3. SessionsInv => OpenGateResolves
  <2> SUFFICES ASSUME SessionsInv, NEW e \in Engine,
                      gate[e] # Closed, now <= gate[e].until
               PROVE  active[e] # NoSalt /\ Live(e, active[e])
    BY DEF OpenGateResolves
  <2> DEFINE s == gate[e].session
  <2>1. /\ s \in Login /\ gate[e].until \in Nat /\ now \in Nat
        /\ store[e] \in [Login -> Session \cup {NoSession}]
        /\ active[e] \in Login \cup {NoSalt}
    BY DEF SessionsInv, TypeOK, Ticket
  <2>2. store[e][s] # NoSession /\ gate[e].until <= store[e][s].until
    BY DEF SessionsInv, EngineInv, Backed
  <2>3. Live(e, s)
    BY <2>1, <2>2 DEF Live, Session
  <2>4. /\ active[e] # NoSalt
        /\ store[e][active[e]] # NoSession
        /\ store[e][s].until <= store[e][active[e]].until
    BY <2>1, <2>3 DEF SessionsInv, EngineInv, Until
  <2> QED
    BY <2>1, <2>2, <2>4 DEF Live, Session
<1> QED
  BY <1>1, <1>2, <1>3, PTL DEF Spec

=============================================================================
