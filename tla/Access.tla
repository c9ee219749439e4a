-------------------------------- MODULE Access --------------------------------
(***************************************************************************)
(* What a request may do and the scoped tokens it may show: the chain of   *)
(* SessionMiddleware, AuthMiddleware and RequireAuthPaths with the checks  *)
(* of the handlers behind it, the older check it replaces (internal/auth,  *)
(* auth.go), and /api/tokens, which changes the tokens in memory and then  *)
(* writes them to the configuration (internal/server/server.go).  Nothing  *)
(* is locked from the change to the write.                                 *)
(*                                                                         *)
(* Which session, user or key a credential belongs to is the matter of     *)
(* Logins and Accounts: a request has a valid one or does not.             *)
(* Names that Accounts has too are told apart, as AuthProofs has both.     *)
(***************************************************************************)
EXTENDS Naturals, FiniteSets

CONSTANTS Tokens, TokenNames, Paths, Clients,
          TokenNameOf,     \* the name of each token
          Scope,      \* the paths under the scopes of each token
          Public,     \* the paths that need no identity
          LevelOf,    \* what the handler of each path asks for
          NoToken, Master, \* no ?token=, and the one of the configuration
          CutOff, \* a configuration cut off in the middle
          MaxRestarts

ASSUME AccessAssumption ==
  /\ TokenNameOf \in [Tokens -> TokenNames] /\ Scope \in [Tokens -> SUBSET Paths]
  /\ Public \subseteq Paths
  /\ LevelOf \in [Paths -> {"open", "user", "owner", "admin"}]
  /\ MaxRestarts \in Nat

VARIABLES
  setting,     \* how this deployment recognises users
  serving, tokens, config, \* the process, its tokens, those of the configuration
  req,      \* the requests to /api/tokens
  given,   \* tokens generated so far
  settled,  \* history: the change of each token that nothing overlapped
  restarts

accessVars == <<setting, serving, tokens, config, req, given, settled, restarts>>

NoRequest == [pc |-> "idle", kind |-> "added", token |-> NoToken, snap |-> {},
              alone |-> "no"]

AccessTypeOK ==
  /\ setting \in {"manager", "telegram", "token", "none", "test"}
  /\ serving \in BOOLEAN
  /\ tokens \subseteq Tokens /\ given \subseteq Tokens
  /\ config \in (SUBSET Tokens) \cup {CutOff}
  /\ req \in [Clients -> [pc : {"idle", "read", "snapshot", "write"},
                           kind : {"added", "removed"}, token : Tokens \cup {NoToken},
                           snap : SUBSET Tokens, alone : {"yes", "no"}]]
  /\ settled \in [Tokens -> {"no", "added", "removed"}]
  /\ restarts \in Nat

AccessInit ==
  /\ setting \in {"manager", "telegram", "token", "none", "test"}
  /\ serving = TRUE /\ tokens = {} /\ config = {}
  /\ req = [r \in Clients |-> NoRequest]
  /\ given = {}
  /\ settled = [t \in Tokens |-> "no"]
  /\ restarts = 0

-----------------------------------------------------------------------------
(* Who a request is.  It shows a set of valid credentials, perhaps a ?token=    *)
(* and belongs to a user or key of some role.                                   *)

\* SessionMiddleware, then AuthMiddleware with AuthManager.Authenticate: the
\* session, else the providers in the order of their registration.
Identity(q) ==
  IF "session" \in q.creds THEN "session"
  ELSE IF "telegram" \in q.creds THEN "telegram"
  ELSE IF "key" \in q.creds THEN "api_key" ELSE "nobody"

CheckScopedToken(t, path) == t \in tokens /\ path \in Scope[t]

\* auth.Check: the first that applies.
Check(q) ==
  IF setting = "test" THEN "test"
  ELSE IF setting = "none" THEN "default"
  ELSE IF "cookie" \in q.creds THEN "cookie"
  ELSE IF setting = "token" /\ "bearer" \in q.creds THEN "master"
  ELSE IF q.query = Master THEN "master"
  ELSE IF q.query \in Tokens /\ CheckScopedToken(q.query, q.path) THEN "scoped"
  ELSE IF "telegram" \in q.creds THEN "telegram" ELSE "nobody"

\* RequireAuthPaths, part of the chain only when there is an AuthManager.
Passes(q) == setting = "manager" => q.path \in Public \/ Identity(q) # "nobody"

CheckAuth(q) ==
  IF setting = "manager" THEN Identity(q) # "nobody" ELSE Check(q) # "nobody"

\* Faulty variant: keys are let through like users.
CheckAuthNotScopedKeys(q) ==
  IF setting = "manager" THEN Identity(q) # "nobody"
                      ELSE Check(q) \notin {"nobody", "scoped"}

CheckAuthNotScoped(q) ==
  IF setting = "manager" THEN Identity(q) \notin {"nobody", "api_key"}
                      ELSE Check(q) \notin {"nobody", "scoped"}

\* The administration of users and keys needs the AuthManager and its role.
CheckAdmin(q) == setting = "manager" /\ Identity(q) # "nobody" /\ q.role = "admin"

Granted(q) ==
  /\ serving
  /\ Passes(q)
  /\ LevelOf[q.path] = "user" => CheckAuth(q)
  /\ LevelOf[q.path] = "owner" => CheckAuthNotScoped(q)
  /\ LevelOf[q.path] = "admin" => CheckAdmin(q)

-----------------------------------------------------------------------------
(* /api/tokens *)

Active == {r \in Clients : req[r].pc # "idle"}

\* A change begins: whoever else is under way overlaps it.
Begins(r, kind, t) ==
  /\ req' = [s \in Clients |->
               IF s = r THEN [pc |-> "read", kind |-> kind, token |-> t, snap |-> {},
                              alone |-> IF Active = {} THEN "yes" ELSE "no"]
                        ELSE [req[s] EXCEPT !.alone = "no"]]
  /\ settled' = [settled EXCEPT ![t] = "no"]

\* A name in use is refused; the token is random and new.
AddScopedToken(r, t) ==
  /\ serving /\ req[r].pc = "idle"
  /\ t \notin given /\ given' = given \cup {t}
  /\ \A u \in tokens : TokenNameOf[u] # TokenNameOf[t]
  /\ tokens' = tokens \cup {t}
  /\ Begins(r, "added", t)
  /\ UNCHANGED <<setting, serving, config, restarts>>

RemoveScopedToken(r, t) ==
  /\ serving /\ req[r].pc = "idle" /\ t \in tokens
  /\ tokens' = tokens \ {t}
  /\ Begins(r, "removed", t)
  /\ UNCHANGED <<setting, serving, config, given, restarts>>

\* writeScopedTokensToConfig: read the configuration, ...
ReadConfig(r) ==
  /\ req[r].pc = "read" /\ config # CutOff
  /\ req' = [req EXCEPT ![r].pc = "snapshot"]
  /\ UNCHANGED <<setting, serving, tokens, config, given, settled, restarts>>

\* ... take the tokens (GetScopedTokensFull) ...
TakeTokens(r) ==
  /\ req[r].pc = "snapshot"
  /\ req' = [req EXCEPT ![r].pc = "write", ![r].snap = tokens]
  /\ UNCHANGED <<setting, serving, tokens, config, given, settled, restarts>>

Settles(r) == IF req[r].alone = "yes"
                THEN settled' = [settled EXCEPT ![req[r].token] = req[r].kind]
                ELSE UNCHANGED settled

\* Faulty variant: with no token left the configuration keeps those it has.
WriteConfigUnlessEmpty(r) ==
  /\ req[r].pc = "write"
  /\ config' = IF req[r].snap = {} THEN config ELSE req[r].snap
  /\ Settles(r)
  /\ req' = [req EXCEPT ![r] = NoRequest]
  /\ UNCHANGED <<setting, serving, tokens, given, restarts>>

\* ... and write it back; two writes at once may leave a mixture.
WriteConfig(r) ==
  /\ req[r].pc = "write"
  /\ \/ config' = req[r].snap
     \/ config' = CutOff /\ \E s \in Clients \ {r} : req[s].pc = "write"
  /\ Settles(r)
  /\ req' = [req EXCEPT ![r] = NoRequest]
  /\ UNCHANGED <<setting, serving, tokens, given, restarts>>

\* A failure is logged and the request answered all the same.
PersistFails(r) ==
  /\ req[r].pc \in {"read", "write"}
  /\ config' \in IF req[r].pc = "write" THEN {config, CutOff} ELSE {config}
  /\ req' = [req EXCEPT ![r] = NoRequest]
  /\ UNCHANGED <<setting, serving, tokens, given, settled, restarts>>

-----------------------------------------------------------------------------
\* The process ends; a write under way may be cut off.
Stop ==
  /\ serving /\ serving' = FALSE
  /\ config' \in {config} \cup
                 (IF \E r \in Clients : req[r].pc = "write" THEN {CutOff} ELSE {})
  /\ tokens' = {}
  /\ req' = [r \in Clients |-> NoRequest]
  /\ UNCHANGED <<setting, given, settled, restarts>>

\* runStart with InitScopedTokens: no start from a configuration that does not parse.
Start ==
  /\ ~serving /\ restarts < MaxRestarts /\ config # CutOff
  /\ restarts' = restarts + 1
  /\ serving' = TRUE /\ tokens' = config
  /\ UNCHANGED <<setting, config, req, given, settled>>

TokenRequest(r) == \/ \E t \in Tokens : AddScopedToken(r, t) \/ RemoveScopedToken(r, t)
                   \/ ReadConfig(r) \/ TakeTokens(r) \/ WriteConfig(r) \/ PersistFails(r)

AccessNext == (\E r \in Clients : TokenRequest(r)) \/ Stop \/ Start

AccessSpec == AccessInit /\ [][AccessNext]_accessVars

-----------------------------------------------------------------------------
(* Properties *)

Queries == [creds : SUBSET {"session", "telegram", "key", "cookie", "bearer"},
            query : Tokens \cup {NoToken, Master}, path : Paths, role : {"admin", "user"}]

\* With a key, a scoped token, the role of an administrator and whatever this
\* deployment does not look at, but without a user's own credential, no request gets
\* to what is kept from keys and scoped tokens, the tokens themselves among it.
KeysAreNotOwners ==
  setting \notin {"none", "test"} =>
    \A q \in {q \in Queries :
               /\ LevelOf[q.path] = "owner"
               /\ IF setting = "manager"
                    THEN q.creds \cap {"session", "telegram"} = {}
                    ELSE q.creds \cap {"telegram", "cookie", "bearer"} = {} /\ q.query # Master} :
      ~Granted(q)

\* A change of a token that was written and that no other request overlapped holds,
\* across later changes, failed writes and restarts, until the token changes again.
SettledHolds ==
  serving => \A t \in Tokens : /\ settled[t] = "added" => t \in tokens
                               /\ settled[t] = "removed" => t \notin tokens
=============================================================================
