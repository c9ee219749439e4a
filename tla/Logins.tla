-------------------------------- MODULE Logins --------------------------------
(***************************************************************************)
(* Logging in, being recognised and logging out: magic links and sessions  *)
(* (internal/auth/magiclink.go, session_store.go, manager.go), the         *)
(* handlers and middleware that use them (internal/server), and the hourly *)
(* cleanup.  Links and sessions are records in one key-value database      *)
(* whose transactions are atomic and durable; each handler runs several,   *)
(* any of which may fail.                                                  *)
(*                                                                         *)
(* Tokens, link ids and session ids are random and never come twice: a     *)
(* link stands for its id and token, a login for the session it creates.   *)
(* A link's user and expiry do not change once it is stored, so only its   *)
(* presence and its used flag are state of the database.                   *)
(***************************************************************************)
EXTENDS Naturals, FiniteSets

CONSTANTS Users,
          Links,      \* requests to create a magic link
          Logins,     \* requests to log in, by link or with Telegram data
          Visits,     \* clients that send pages and logouts, with a session cookie
          None,       \* no user, no link, no session
          Limit,      \* links per user and Hour, 5 in the code
          Hour, LinkAge, MaxAge, \* spans of time
          MaxTime,    \* clock readings explored
          MaxRestarts

ASSUME LoginsAssumption ==
  /\ None \notin Users \cup Links \cup Logins
  /\ IsFiniteSet(Links)
  /\ Limit \in Nat /\ Hour \in Nat /\ LinkAge \in Nat /\ MaxAge \in Nat
  /\ MaxTime \in Nat \ {0} /\ MaxRestarts \in Nat

VARIABLES
  now,        \* the clock; 0 is before it started
  linkDB,     \* the magic_links bucket
  sessionDB,  \* the sessions bucket: when each session expires, 0 for none
  rateTrack,  \* the creations remembered for each user
  linkPc, owner, expires, \* each link: its creation, its user, its expiry
  born,       \* when this process allowed each link, 0 if it did not
  loginPc, link, \* each login: where it is, and its link while it uses one
  visitPc, visit, cookie, \* what each client has under way
  cleaner,    \* where the cleanup loop is
  spent,      \* history: links some login has marked used
  restarts

linkVars == <<rateTrack, linkPc, owner, born, expires>>
loginVars == <<loginPc, link>>
visitVars == <<visitPc, visit, cookie>>
vars == <<now, linkDB, sessionDB, linkVars, loginVars, visitVars, cleaner,
          spent, restarts>>

TypeOK ==
  /\ now \in 1..MaxTime
  /\ linkDB \in [Links -> {"absent", "unused", "used"}]
  /\ sessionDB \in [Logins -> 0..(MaxTime + MaxAge)]
  /\ rateTrack \in [Users -> SUBSET Links]
  /\ linkPc \in [Links -> {"new", "allowed", "created", "failed"}]
  /\ owner \in [Links -> Users \cup {None}]
  /\ expires \in [Links -> 0..(MaxTime + LinkAge)]
  /\ born \in [Links -> 0..MaxTime]
  /\ loginPc \in [Logins -> {"new", "found", "marked", "identified", "in", "failed"}]
  /\ link \in [Logins -> Links \cup {None}]
  /\ visitPc \in [Visits -> {"idle", "first", "second", "purge", "repurge",
                             "delete"}]
  /\ visit \in [Visits -> {"page", "logout"}]
  /\ cookie \in [Visits -> Logins \cup {None}]
  /\ cleaner \in {"waiting", "sessions", "links"}
  /\ spent \subseteq Links
  /\ restarts \in 0..MaxRestarts

Init ==
  /\ now = 1
  /\ linkDB = [k \in Links |-> "absent"]
  /\ sessionDB = [l \in Logins |-> 0]
  /\ rateTrack = [u \in Users |-> {}]
  /\ linkPc = [k \in Links |-> "new"]
  /\ owner = [k \in Links |-> None]
  /\ expires = [k \in Links |-> 0]
  /\ born = [k \in Links |-> 0]
  /\ loginPc = [l \in Logins |-> "new"]
  /\ link = [l \in Logins |-> None]
  /\ visitPc = [v \in Visits |-> "idle"]
  /\ visit = [v \in Visits |-> "page"]
  /\ cookie = [v \in Visits |-> None]
  /\ cleaner = "waiting"
  /\ spent = {}
  /\ restarts = 0

-----------------------------------------------------------------------------
Tick ==
  /\ now < MaxTime
  /\ now' = now + 1
  /\ UNCHANGED <<linkDB, sessionDB, linkVars, loginVars, visitVars, cleaner,
                 spent, restarts>>

-----------------------------------------------------------------------------
(* MagicLinkStore.Create, called by /api/auth/magic-link and, by e-mail,        *)
(* /api/auth/magic-link/request, both for a user they have looked up.           *)

InLastHour(S) == {k \in S : born[k] + Hour > now}

\* Faulty variant: one creation too many passes.
AllowCreationOffByOne(k, u) ==
  /\ linkPc[k] = "new"
  /\ Cardinality(InLastHour(rateTrack[u])) <= Limit
  /\ rateTrack' = [rateTrack EXCEPT ![u] = InLastHour(@) \cup {k}]
  /\ linkPc' = [linkPc EXCEPT ![k] = "allowed"]
  /\ owner' = [owner EXCEPT ![k] = u]
  /\ born' = [born EXCEPT ![k] = now]
  /\ UNCHANGED <<now, linkDB, sessionDB, expires, loginVars, visitVars,
                 cleaner, spent, restarts>>

\* allowCreation, under its mutex: creations of the last hour are counted, the
\* older ones forgotten.
AllowCreation(k, u) ==
  /\ linkPc[k] = "new"
  /\ LET valid == InLastHour(rateTrack[u])
     IN \/ /\ Cardinality(valid) < Limit
           /\ rateTrack' = [rateTrack EXCEPT ![u] = valid \cup {k}]
           /\ linkPc' = [linkPc EXCEPT ![k] = "allowed"]
           /\ owner' = [owner EXCEPT ![k] = u]
           /\ born' = [born EXCEPT ![k] = now]
        \/ /\ Cardinality(valid) >= Limit
           /\ rateTrack' = [rateTrack EXCEPT ![u] = valid]
           /\ linkPc' = [linkPc EXCEPT ![k] = "failed"]
           /\ UNCHANGED <<owner, born>>
  /\ UNCHANGED <<now, linkDB, sessionDB, expires, loginVars, visitVars,
                 cleaner, spent, restarts>>

StoreLink(k) ==
  /\ linkPc[k] = "allowed"
  /\ linkPc' = [linkPc EXCEPT ![k] = "created"]
  /\ expires' = [expires EXCEPT ![k] = now + LinkAge]
  /\ linkDB' = [linkDB EXCEPT ![k] = "unused"]
  /\ UNCHANGED <<now, sessionDB, rateTrack, owner, born, loginVars, visitVars,
                 cleaner, spent, restarts>>

StoreLinkFails(k) ==
  /\ linkPc[k] = "allowed"
  /\ linkPc' = [linkPc EXCEPT ![k] = "failed"]
  /\ UNCHANGED <<now, linkDB, sessionDB, rateTrack, owner, born, expires,
                 loginVars, visitVars, cleaner, spent, restarts>>

-----------------------------------------------------------------------------
(* /auth/magic: MagicLinkProvider.Authenticate, then CreateSession *)

LoginGoes(l, to) == loginPc' = [loginPc EXCEPT ![l] = to]

\* The read transaction of Validate and the checks of what it found.
FindLink(l, k) ==
  /\ loginPc[l] = "new"
  /\ linkPc[k] = "created"
  /\ IF linkDB[k] = "unused" /\ now <= expires[k]
       THEN LoginGoes(l, "found") /\ link' = [link EXCEPT ![l] = k]
       ELSE LoginGoes(l, "failed") /\ UNCHANGED link
  /\ UNCHANGED <<now, linkDB, sessionDB, linkVars, visitVars, cleaner, spent,
                 restarts>>

\* Faulty variant: the record is encoded before its flag is set.
MarkUsedEncodedEarly(l) ==
  /\ loginPc[l] = "found"
  /\ LoginGoes(l, "marked")
  /\ linkDB' = [linkDB EXCEPT ![link[l]] = "unused"]
  /\ spent' = spent \cup {link[l]}
  /\ UNCHANGED <<now, sessionDB, linkVars, link, visitVars, cleaner, restarts>>

\* The write transaction of Validate puts back the record it read, marked used,
\* whatever has become of the link since.
MarkUsed(l) ==
  /\ loginPc[l] = "found"
  /\ LoginGoes(l, "marked")
  /\ linkDB' = [linkDB EXCEPT ![link[l]] = "used"]
  /\ spent' = spent \cup {link[l]}
  /\ UNCHANGED <<now, sessionDB, linkVars, link, visitVars, cleaner, restarts>>

\* The link's user is looked up again: the users file may have lost it since.
LookUpUser(l) ==
  /\ loginPc[l] = "marked"
  /\ \/ LoginGoes(l, "identified") /\ UNCHANGED link
     \/ LoginGoes(l, "failed") /\ link' = [link EXCEPT ![l] = None]
  /\ UNCHANGED <<now, linkDB, sessionDB, linkVars, visitVars, cleaner, spent,
                 restarts>>

\* A login with the data Telegram signs, at /api/auth or with any request that
\* has no valid session (AuthMiddleware).
TelegramLogin(l) ==
  /\ loginPc[l] = "new"
  /\ LoginGoes(l, "identified")
  /\ UNCHANGED <<now, linkDB, sessionDB, linkVars, link, visitVars, cleaner,
                 spent, restarts>>

CreateSession(l) ==
  /\ loginPc[l] = "identified"
  /\ LoginGoes(l, "in")
  /\ sessionDB' = [sessionDB EXCEPT ![l] = now + MaxAge]
  /\ UNCHANGED <<now, linkDB, linkVars, link, visitVars, cleaner, spent,
                 restarts>>

\* A write transaction of a login fails.
LoginFails(l) ==
  /\ loginPc[l] \in {"found", "identified"}
  /\ LoginGoes(l, "failed")
  /\ link' = [link EXCEPT ![l] = None]
  /\ UNCHANGED <<now, linkDB, sessionDB, linkVars, visitVars, cleaner, spent,
                 restarts>>

-----------------------------------------------------------------------------
(* Requests with a session cookie *)

Expired(l) == sessionDB[l] # 0 /\ now > sessionDB[l]
Live(l) == sessionDB[l] # 0 /\ now <= sessionDB[l]

\* A page is one passage through the middleware, a logout the handler behind it.
BeginVisit(v, l, kind) ==
  /\ visitPc[v] = "idle"
  /\ loginPc[l] = "in"
  /\ visitPc' = [visitPc EXCEPT ![v] = "first"]
  /\ visit' = [visit EXCEPT ![v] = kind]
  /\ cookie' = [cookie EXCEPT ![v] = l]
  /\ UNCHANGED <<now, linkDB, sessionDB, linkVars, loginVars, cleaner, spent,
                 restarts>>

VisitGoes(v, to) ==
  /\ visitPc' = [visitPc EXCEPT ![v] = to]
  /\ IF to = "idle"
       THEN /\ visit' = [visit EXCEPT ![v] = "page"]
            /\ cookie' = [cookie EXCEPT ![v] = None]
       ELSE UNCHANGED <<visit, cookie>>

\* After a read in vain a page is read once more: SessionMiddleware's read is
\* followed by that of Authenticate in AuthMiddleware.
AfterMiss(v) ==
  IF visit[v] = "page" /\ visitPc[v] \in {"first", "purge"} THEN "second" ELSE "idle"

\* The read transaction of BoltSessionStore.Get and the check of the expiry.
ReadSession(v) ==
  /\ visitPc[v] \in {"first", "second"}
  /\ \/ Live(cookie[v]) /\ VisitGoes(v, IF visit[v] = "page" THEN "idle" ELSE "delete")
     \/ /\ Expired(cookie[v])
        /\ VisitGoes(v, IF visitPc[v] = "first" THEN "purge" ELSE "repurge")
     \/ sessionDB[cookie[v]] = 0 /\ VisitGoes(v, AfterMiss(v))
  /\ UNCHANGED <<now, linkDB, sessionDB, linkVars, loginVars, cleaner, spent,
                 restarts>>

\* The delete transaction, whose error no caller looks at.
Delete(l) == sessionDB' \in {sessionDB, [sessionDB EXCEPT ![l] = 0]}

\* Faulty variant: a session found expired is renewed.
PurgeSessionRenewing(v) ==
  /\ visitPc[v] \in {"purge", "repurge"}
  /\ VisitGoes(v, AfterMiss(v))
  /\ sessionDB' = [sessionDB EXCEPT ![cookie[v]] = now + MaxAge]
  /\ UNCHANGED <<now, linkDB, linkVars, loginVars, cleaner, spent, restarts>>

\* Get deletes a session it found expired, in a transaction of its own.
PurgeSession(v) ==
  /\ visitPc[v] \in {"purge", "repurge"}
  /\ VisitGoes(v, AfterMiss(v))
  /\ Delete(cookie[v])
  /\ UNCHANGED <<now, linkDB, linkVars, loginVars, cleaner, spent, restarts>>

\* The logout handler's DestroySession.
DestroySession(v) ==
  /\ visitPc[v] = "delete"
  /\ VisitGoes(v, "idle")
  /\ Delete(cookie[v])
  /\ UNCHANGED <<now, linkDB, linkVars, loginVars, cleaner, spent, restarts>>

-----------------------------------------------------------------------------
(* AuthManager.Cleanup, once an hour: two transactions, the second only after   *)
(* the first succeeded.                                                         *)

StartCleanup ==
  /\ cleaner = "waiting"
  /\ cleaner' = "sessions"
  /\ UNCHANGED <<now, linkDB, sessionDB, linkVars, loginVars, visitVars, spent,
                 restarts>>

\* Faulty variant: a session in its last moment is removed.
CleanSessionsEarly ==
  /\ cleaner = "sessions"
  /\ cleaner' = "links"
  /\ sessionDB' = [l \in Logins |-> IF now >= sessionDB[l] THEN 0 ELSE sessionDB[l]]
  /\ UNCHANGED <<now, linkDB, linkVars, loginVars, visitVars, spent, restarts>>

CleanSessions ==
  /\ cleaner = "sessions"
  /\ cleaner' = "links"
  /\ sessionDB' = [l \in Logins |-> IF Expired(l) THEN 0 ELSE sessionDB[l]]
  /\ UNCHANGED <<now, linkDB, linkVars, loginVars, visitVars, spent, restarts>>

\* Faulty variant: only expired links are removed, so that those used while the
\* clock is before their expiry stay.
CleanLinksExpiredOnly ==
  /\ cleaner = "links"
  /\ cleaner' = "waiting"
  /\ linkDB' = [k \in Links |-> IF linkDB[k] = "unused" /\ now > expires[k]
                                  THEN "absent" ELSE linkDB[k]]
  /\ UNCHANGED <<now, sessionDB, linkVars, loginVars, visitVars, spent,
                 restarts>>

CleanLinks ==
  /\ cleaner = "links"
  /\ cleaner' = "waiting"
  /\ linkDB' = [k \in Links |-> IF linkDB[k] = "used" \/ now > expires[k]
                                  THEN "absent" ELSE linkDB[k]]
  /\ UNCHANGED <<now, sessionDB, linkVars, loginVars, visitVars, spent,
                 restarts>>

CleanupFails ==
  /\ cleaner # "waiting"
  /\ cleaner' = "waiting"
  /\ UNCHANGED <<now, linkDB, sessionDB, linkVars, loginVars, visitVars, spent,
                 restarts>>

-----------------------------------------------------------------------------
\* The database survives; what was remembered of creations and every open
\* request do not.
Restart ==
  /\ restarts < MaxRestarts
  /\ restarts' = restarts + 1
  /\ rateTrack' = [u \in Users |-> {}]
  /\ born' = [k \in Links |-> 0]
  /\ linkPc' = [k \in Links |-> IF linkPc[k] = "allowed" THEN "failed" ELSE linkPc[k]]
  /\ loginPc' = [l \in Logins |-> IF loginPc[l] \in {"found", "marked", "identified"}
                                    THEN "failed" ELSE loginPc[l]]
  /\ link' = [l \in Logins |-> IF loginPc[l] = "in" THEN link[l] ELSE None]
  /\ visitPc' = [v \in Visits |-> "idle"]
  /\ visit' = [v \in Visits |-> "page"] /\ cookie' = [v \in Visits |-> None]
  /\ cleaner' = "waiting"
  /\ UNCHANGED <<now, linkDB, sessionDB, owner, expires, spent>>

-----------------------------------------------------------------------------
Login(l) == \/ \E k \in Links : FindLink(l, k)
            \/ TelegramLogin(l)
            \/ MarkUsed(l) \/ LookUpUser(l) \/ CreateSession(l) \/ LoginFails(l)

Visiting(v) == \/ \E l \in Logins, kind \in {"page", "logout"} : BeginVisit(v, l, kind)
               \/ ReadSession(v) \/ PurgeSession(v) \/ DestroySession(v)

Cleanup == StartCleanup \/ CleanSessions \/ CleanLinks \/ CleanupFails

Next ==
  \/ \E k \in Links : \/ \E u \in Users : AllowCreation(k, u)
                      \/ StoreLink(k) \/ StoreLinkFails(k)
  \/ \E l \in Logins : Login(l)
  \/ \E v \in Visits : Visiting(v)
  \/ Cleanup \/ Tick \/ Restart

\* The hourly ticker keeps ticking, and the database can be written again and
\* again: a transaction that is tried for ever does not always fail.
Fairness == WF_vars(StartCleanup) /\ SF_vars(CleanSessions) /\ SF_vars(CleanLinks)

SafeSpec == Init /\ [][Next]_vars
Spec == SafeSpec /\ Fairness

-----------------------------------------------------------------------------
(* Properties *)

\* A login that begins after some login has marked a link used is refused, though
\* cleanups, late writes of other logins and restarts come in between.
UsedLinkIsRefused ==
  [][\A l \in Logins :
       loginPc[l] = "new" /\ loginPc'[l] = "found" => link'[l] \notin spent]_loginVars

\* A session lasts until its time is up or a logout destroys it, and not longer: no
\* cleanup and no visit ends it early, none brings it back.
SessionLifetime ==
  [][\A l \in Logins :
       loginPc[l] = "in" =>
         /\ ~Live(l) => ~Live(l)'
         /\ Live(l) => \/ Live(l)' \/ now' > sessionDB[l]
                       \/ \E v \in Visits : /\ visit[v] = "logout" /\ cookie[v] = l
                                            /\ visitPc[v] = "delete"
    ]_<<now, sessionDB>>

\* Within an hour, one process creates no more than Limit links for a user.
RateHolds ==
  \A u \in Users :
    Cardinality({k \in Links : /\ owner[k] = u /\ born[k] > 0
                               /\ born[k] + Hour > now}) <= Limit

\* Used links and expired records do not stay in the database.
DeadRecordsGo ==
  /\ \A k \in Links : linkDB[k] # "absent" /\ (linkDB[k] = "used" \/ now > expires[k])
                        ~> linkDB[k] = "absent"
  /\ \A l \in Logins : Expired(l) ~> sessionDB[l] = 0

=============================================================================
