--------------------------------- MODULE Auth ---------------------------------
(***************************************************************************)
(* The master password, the sessions, the access token, and who holds the  *)
(* vault key because of them.                                              *)
(*                                                                         *)
(* The home directory keeps .salt, .auth (a text sealed under the key, to  *)
(* tell a right password from a wrong one) and mcp/token.json.  An engine  *)
(* keeps its sessions in memory; it answers requests concurrently, so the  *)
(* awaits between reading, deriving and writing may interleave.  The gate  *)
(* of the TUI renews its session at half its life.  The MCP server reads   *)
(* the token once, when it boots.                                          *)
(***************************************************************************)
EXTENDS Naturals

CONSTANTS
  Engine,     \* RPC servers over one home directory, each with its TUI
  Login,      \* attempts to log in: each mints one salt or session at most
  Password,
  Slot,       \* calls that mint or revoke the token
  At, From,   \* [Login -> Engine], [Slot -> Engine]  who serves them
  TTL,        \* SESSION_TTL, in ticks
  TokenTTL,   \* the life of a token, in ticks
  MaxTime, MaxCrashes, \* bounds
  OneSetup,   \* whether a home is set up by one call at a time
  NoSalt, NoKey, NoSession, NoToken, NoAnswer, Closed \* null values

Key == [salt: Login, password: Password]
Session == [key: Key, until: Nat]
\* What the TUI knows of its session: its id and when it expires.
Ticket == [session: Login, until: Nat]

ASSUME AuthAssumption ==
  /\ TTL \in Nat /\ TokenTTL \in Nat /\ MaxTime \in Nat /\ MaxCrashes \in Nat
  /\ OneSetup \in BOOLEAN
  /\ At \in [Login -> Engine] /\ From \in [Slot -> Engine]
  /\ NoSalt \notin Login
  /\ NoKey \notin Key
  /\ NoSession \notin Session /\ NoToken \notin Session
  /\ NoAnswer \notin Ticket /\ Closed \notin Ticket

VARIABLES
  salt,      \* .salt: minted by a login, or NoSalt
  sentinel,  \* .auth: the key it is sealed under, or NoKey
  token,     \* mcp/token.json: the key in it and its expiry, or NoToken
  now,
  store,     \* [Engine -> [Login -> Session or NoSession]]
  active,    \* [Engine -> the session saved last, or NoSalt]
  pc,        \* [Login -> Pc]
  key,       \* [Login -> the key it derives, or NoKey]
  gate,      \* [Engine -> Ticket or Closed]  AuthGate
  renewal,   \* [Engine -> Ticket or NoAnswer]  an answer on its way
  doing,     \* [Slot -> its step]
  sealing,   \* [Slot -> the key it wraps, or NoKey]
  mcp,       \* the MCP server's standing session, or NoSession
  scoped,    \* whether the MCP server serves its token's scopes
  \* history
  sealed,    \* the keys that secrets are encrypted under
  crashes

homeVars == <<salt, sentinel, token>>
sessionVars == <<store, active>>
loginVars == <<pc, key>>
gateVars == <<gate, renewal>>
slotVars == <<doing, sealing>>
mcpVars == <<mcp, scoped>>
vars == <<salt, sentinel, token, now, store, active, pc, key, gate,
          renewal, doing, sealing, mcp, scoped, sealed, crashes>>

-----------------------------------------------------------------------------
(* Sessions.                                                               *)

Live(e, s) == /\ store[e][s] # NoSession
              /\ now <= store[e][s].until

\* Mutant: saving a session does not make it the active one, if there is one.
SaveBehind(e, s, k) ==
  /\ store' = [store EXCEPT ![e] =
                [@ EXCEPT ![s] = [key |-> k, until |-> now + TTL]]]
  /\ active' = [active EXCEPT ![e] = IF @ = NoSalt THEN s ELSE @]

Save(e, s, k) ==
  /\ store' = [store EXCEPT ![e] =
                [@ EXCEPT ![s] = [key |-> k, until |-> now + TTL]]]
  /\ active' = [active EXCEPT ![e] = s]

\* get of a session that has run out drops it and throws.
Drop(e, s) ==
  /\ store' = [store EXCEPT ![e] = [@ EXCEPT ![s] = NoSession]]
  /\ UNCHANGED active

\* A request comes with a session that its engine answered some time.
Issued(s) == pc[s] = "opened"

\* Unauthenticated: the interceptor of the client tells the gate.
Refuse(e, s) ==
  /\ ~Live(e, s)
  /\ Drop(e, s)
  /\ gate' = [gate EXCEPT ![e] = Closed]

-----------------------------------------------------------------------------
(* The master password.                                                    *)

Settles(l, to) == pc' = [pc EXCEPT ![l] = to]

\* Mutant: a home is set up again although it is configured.
ConfiguredUnchecked == FALSE

Configured == salt # NoSalt

SettingUp(l) == pc[l] \in {"checked", "salted"}

StartConfigure(l, p) ==
  /\ pc[l] = "new"
  /\ OneSetup => \A m \in Login : ~SettingUp(m)
  /\ Settles(l, IF Configured THEN "refused" ELSE "checked")
  /\ key' = [key EXCEPT ![l] = [salt |-> l, password |-> p]]
  /\ UNCHANGED <<homeVars, now, sessionVars, gateVars, slotVars, mcpVars,
                 sealed, crashes>>

WriteSalt(l) ==
  /\ pc[l] = "checked"
  /\ salt' = l
  /\ Settles(l, "salted")
  /\ UNCHANGED <<sentinel, token, now, sessionVars, key, gateVars,
                 slotVars, mcpVars, sealed, crashes>>

WriteSentinel(l) ==
  /\ pc[l] = "salted"
  /\ sentinel' = key[l]
  /\ Settles(l, "proved")
  /\ UNCHANGED <<salt, token, now, sessionVars, key, gateVars, slotVars,
                 mcpVars, sealed, crashes>>

StartAuthenticate(l, p) ==
  /\ pc[l] = "new"
  /\ \/ /\ ~Configured
        /\ Settles(l, "refused")
        /\ UNCHANGED key
     \/ /\ Configured
        /\ Settles(l, "derived")
        /\ key' = [key EXCEPT ![l] = [salt |-> salt, password |-> p]]
  /\ UNCHANGED <<homeVars, now, sessionVars, gateVars, slotVars, mcpVars,
                 sealed, crashes>>

Opens(k) == sentinel = k

Verify(l) ==
  /\ pc[l] = "derived"
  /\ Settles(l, IF Opens(key[l]) THEN "proved" ELSE "refused")
  /\ UNCHANGED <<homeVars, now, sessionVars, key, gateVars, slotVars,
                 mcpVars, sealed, crashes>>

\* The handler opens a session; the form, if it is still there, the gate.
Open(l) ==
  /\ pc[l] = "proved"
  /\ Save(At[l], l, key[l])
  /\ Settles(l, "opened")
  /\ \/ gate' = [gate EXCEPT ![At[l]] = [session |-> l, until |-> now + TTL]]
     \/ UNCHANGED gate
  /\ UNCHANGED <<homeVars, now, key, renewal, slotVars, mcpVars, sealed,
                 crashes>>

-----------------------------------------------------------------------------
(* AuthGate.                                                               *)

HalfLife == TTL \div 2

Due(e) == /\ gate[e] # Closed
          /\ renewal[e] = NoAnswer
          /\ now + HalfLife >= gate[e].until

Renew(e) ==
  /\ Due(e)
  /\ LET s == gate[e].session IN
     \/ /\ Live(e, s)
        /\ Save(e, s, store[e][s].key)
        /\ renewal' =
             [renewal EXCEPT ![e] = [session |-> s, until |-> now + TTL]]
        /\ UNCHANGED gate
     \/ /\ Refuse(e, s)
        /\ UNCHANGED renewal
  /\ UNCHANGED <<homeVars, now, loginVars, slotVars, mcpVars, sealed, crashes>>

\* The answer finds the gate open, perhaps with another session, or closed.
Renewed(e) ==
  /\ renewal[e] # NoAnswer
  /\ gate' = [gate EXCEPT ![e] = IF @ = Closed THEN Closed ELSE renewal[e]]
  /\ renewal' = [renewal EXCEPT ![e] = NoAnswer]
  /\ UNCHANGED <<homeVars, now, sessionVars, loginVars, slotVars, mcpVars,
                 sealed, crashes>>

\* The user leaves the screen: its timer is cleared, its session is not ended.
Leave(e) ==
  /\ gate[e] # Closed
  /\ gate' = [gate EXCEPT ![e] = Closed]
  /\ UNCHANGED <<homeVars, now, sessionVars, loginVars, renewal, slotVars,
                 mcpVars, sealed, crashes>>

-----------------------------------------------------------------------------
(* Secrets.                                                                *)

\* A protected request stores a secret under the key of its session.
Seal(s) ==
  /\ Issued(s)
  /\ \/ /\ Live(At[s], s)
        /\ sealed' = sealed \cup {store[At[s]][s].key}
        /\ UNCHANGED <<sessionVars, gate>>
     \/ /\ Refuse(At[s], s)
        /\ UNCHANGED sealed
  /\ UNCHANGED <<homeVars, now, loginVars, renewal, slotVars, mcpVars,
                 crashes>>

\* A policy or a provisioning run has no session of its own.
SealActive(e) ==
  /\ active[e] # NoSalt
  /\ \/ /\ Live(e, active[e])
        /\ sealed' = sealed \cup {store[e][active[e]].key}
        /\ UNCHANGED sessionVars
     \/ /\ ~Live(e, active[e])
        /\ Drop(e, active[e])
        /\ UNCHANGED sealed
  /\ UNCHANGED <<homeVars, now, loginVars, gateVars, slotVars, mcpVars,
                 crashes>>

-----------------------------------------------------------------------------
(* The access token.                                                       *)

Goes(o, to) == doing' = [doing EXCEPT ![o] = to]

\* GenerateAccessTokenHandler reads the session, then wraps over an await.
StartGenerate(o, s) ==
  /\ doing[o] = "idle"
  /\ Issued(s) /\ At[s] = From[o]
  /\ \/ /\ Live(At[s], s)
        /\ Goes(o, "wrapped")
        /\ sealing' = [sealing EXCEPT ![o] = store[At[s]][s].key]
        /\ UNCHANGED <<sessionVars, gate>>
     \/ /\ Refuse(At[s], s)
        /\ UNCHANGED slotVars
  /\ UNCHANGED <<homeVars, now, loginVars, renewal, mcpVars, sealed, crashes>>

\* Mutant: the wrapped key outlives the call.
MintAndHold(o) ==
  /\ doing[o] = "wrapped"
  /\ token' = [key |-> sealing[o], until |-> now + TokenTTL]
  /\ Goes(o, "idle")
  /\ UNCHANGED <<salt, sentinel, now, sessionVars, loginVars, gateVars, sealing,
                 mcpVars, sealed, crashes>>

Mint(o) ==
  /\ doing[o] = "wrapped"
  /\ token' = [key |-> sealing[o], until |-> now + TokenTTL]
  /\ Goes(o, "idle")
  /\ sealing' = [sealing EXCEPT ![o] = NoKey]
  /\ UNCHANGED <<salt, sentinel, now, sessionVars, loginVars, gateVars, mcpVars,
                 sealed, crashes>>

StartRevoke(o, s) ==
  /\ doing[o] = "idle"
  /\ Issued(s) /\ At[s] = From[o]
  /\ \/ /\ Live(At[s], s)
        /\ token # NoToken
        /\ Goes(o, "found")
        /\ UNCHANGED <<sessionVars, gate, sealing>>
     \/ /\ Refuse(At[s], s)
        /\ UNCHANGED slotVars
  /\ UNCHANGED <<homeVars, now, loginVars, renewal, mcpVars, sealed, crashes>>

\* Deno.remove; it throws when another call was first.
Remove(o) ==
  /\ doing[o] = "found"
  /\ token' = NoToken
  /\ Goes(o, "idle")
  /\ UNCHANGED <<salt, sentinel, now, sessionVars, loginVars, gateVars, sealing,
                 mcpVars, sealed, crashes>>

-----------------------------------------------------------------------------
(* The MCP server: it stands as long as its host leaves it running.        *)

Valid == token # NoToken /\ now <= token.until

McpBoot ==
  /\ Valid
  /\ mcp' = token
  /\ scoped' = TRUE
  /\ UNCHANGED <<homeVars, now, sessionVars, loginVars, gateVars, slotVars,
                 sealed, crashes>>

McpExit ==
  /\ scoped
  /\ mcp' = NoSession
  /\ scoped' = FALSE
  /\ UNCHANGED <<homeVars, now, sessionVars, loginVars, gateVars, slotVars,
                 sealed, crashes>>

\* SecretResolver in the MCP server: the standing session, until it expires.
McpSeal ==
  /\ scoped
  /\ mcp # NoSession
  /\ \/ /\ now <= mcp.until
        /\ sealed' = sealed \cup {mcp.key}
        /\ UNCHANGED mcp
     \/ /\ now > mcp.until
        /\ mcp' = NoSession
        /\ UNCHANGED sealed
  /\ UNCHANGED <<homeVars, now, sessionVars, loginVars, gateVars, slotVars,
                 scoped, crashes>>

-----------------------------------------------------------------------------

Tick ==
  /\ now < MaxTime
  /\ now' = now + 1
  /\ UNCHANGED <<homeVars, sessionVars, loginVars, gateVars, slotVars,
                 mcpVars, sealed, crashes>>

\* The TUI and its engine end; another pair takes their place.
Crash(e) ==
  /\ crashes < MaxCrashes
  /\ crashes' = crashes + 1
  /\ store' = [store EXCEPT ![e] = [s \in Login |-> NoSession]]
  /\ active' = [active EXCEPT ![e] = NoSalt]
  /\ gate' = [gate EXCEPT ![e] = Closed]
  /\ renewal' = [renewal EXCEPT ![e] = NoAnswer]
  /\ pc' = [l \in Login |->
       IF At[l] = e /\ pc[l] # "new" THEN "refused" ELSE pc[l]]
  /\ doing' = [o \in Slot |-> IF From[o] = e THEN "idle" ELSE doing[o]]
  /\ sealing' = [o \in Slot |-> IF From[o] = e THEN NoKey ELSE sealing[o]]
  /\ UNCHANGED <<homeVars, now, key, mcpVars, sealed>>

Init ==
  /\ salt = NoSalt
  /\ sentinel = NoKey
  /\ token = NoToken
  /\ now = 0
  /\ store = [e \in Engine |-> [s \in Login |-> NoSession]]
  /\ active = [e \in Engine |-> NoSalt]
  /\ pc = [l \in Login |-> "new"]
  /\ key = [l \in Login |-> NoKey]
  /\ gate = [e \in Engine |-> Closed]
  /\ renewal = [e \in Engine |-> NoAnswer]
  /\ doing = [o \in Slot |-> "idle"]
  /\ sealing = [o \in Slot |-> NoKey]
  /\ mcp = NoSession
  /\ scoped = FALSE
  /\ sealed = {}
  /\ crashes = 0

EngineNext(e) == Renew(e) \/ Renewed(e) \/ Leave(e) \/ SealActive(e) \/ Crash(e)

LoginNext(l) ==
  \/ \E p \in Password : StartConfigure(l, p) \/ StartAuthenticate(l, p)
  \/ WriteSalt(l) \/ WriteSentinel(l) \/ Verify(l) \/ Open(l)
  \/ Seal(l)

SlotNext(o) ==
  \/ \E s \in Login : StartGenerate(o, s) \/ StartRevoke(o, s)
  \/ Mint(o) \/ Remove(o)

McpNext == McpBoot \/ McpExit \/ McpSeal

Next == \/ \E e \in Engine : EngineNext(e)
        \/ \E l \in Login : LoginNext(l)
        \/ \E o \in Slot : SlotNext(o)
        \/ McpNext \/ Tick

Spec == Init /\ [][Next]_vars

-----------------------------------------------------------------------------
(* Properties.                                                             *)

Pc == {"new", "checked", "salted", "derived", "proved", "opened", "refused"}

\* The variables have their types, a call that has a key to work with has one
\* derived from a password, and only a call that wraps a key holds one
\* (argon2-adapter.ts:24-45, generate-access-token-handler.ts:22-33).
TypeOK ==
  /\ salt \in Login \cup {NoSalt}
  /\ sentinel \in Key \cup {NoKey}
  /\ token \in Session \cup {NoToken}
  /\ now \in Nat /\ crashes \in Nat
  /\ store \in [Engine -> [Login -> Session \cup {NoSession}]]
  /\ active \in [Engine -> Login \cup {NoSalt}]
  /\ pc \in [Login -> Pc]
  /\ key \in [Login -> Key \cup {NoKey}]
  /\ \A l \in Login : pc[l] \notin {"new", "refused"} => key[l] \in Key
  /\ gate \in [Engine -> Ticket \cup {Closed}]
  /\ renewal \in [Engine -> Ticket \cup {NoAnswer}]
  /\ doing \in [Slot -> {"idle", "wrapped", "found"}]
  /\ sealing \in [Slot -> Key \cup {NoKey}]
  /\ \A o \in Slot : doing[o] = "wrapped" <=> sealing[o] # NoKey
  /\ mcp \in Session \cup {NoSession}
  /\ scoped \in BOOLEAN
  /\ sealed \in SUBSET Key

\* The right password gives the home this key.
OfHome(k) == sentinel = k /\ salt = k.salt

\* Every key that encrypts a secret or that a session, the token, a call that
\* mints one or the MCP server holds is the key that the right password gives:
\* nothing is ever stranded under another.  Setting up mints a salt over an
\* await after its check (configure-handler.ts:19-25, whose comment gives
\* this reason for the check).
KeysAgree ==
  /\ \A k \in sealed : OfHome(k)
  /\ \A e \in Engine, s \in Login :
       store[e][s] # NoSession => OfHome(store[e][s].key)
  /\ token # NoToken => OfHome(token.key)
  /\ \A o \in Slot : sealing[o] # NoKey => OfHome(sealing[o])
  /\ mcp # NoSession => OfHome(mcp.key)

\* While what the gate knows of its session has not run out, secrets resolve
\* in its engine for work that has no session of its own, whichever sessions
\* other screens opened, renewed and left behind: the session saved last is
\* the last to expire (sessions-adapter.ts:18-43, auth-gate.tsx:55-75).
OpenGateResolves ==
  \A e \in Engine :
    gate[e] # Closed /\ now <= gate[e].until
      => active[e] # NoSalt /\ Live(e, active[e])

\* "After revocation the MCP port falls back to its read-only surface"
\* (revoke-access-token-handler.ts:5-6): no MCP server serves the scopes of a
\* token that is gone.
\* Not kept by the code (README, Disagreements).
RevokedIsReadOnly == scoped => token # NoToken

=============================================================================
