----------------------------- MODULE LoginsProofs -----------------------------
(* Proofs about Logins: types, used links, the life of a session, and the rate   *)
(* limit, for any number of links, logins, clients and restarts.                 *)
EXTENDS Logins, FiniteSetTheorems, TLAPS

-----------------------------------------------------------------------------
(* The inductive invariants *)

\* A link that some login has marked used was created and is not back to unused;
\* a login with a link has one that was created.
LinkInv ==
  /\ \A k \in Links : k \in spent => linkDB[k] # "unused" /\ linkPc[k] = "created"
  /\ \A l \in Logins :
       loginPc[l] \in {"found", "marked"} => /\ link[l] \in Links
                                             /\ linkPc[link[l]] = "created"

\* What a client is about to delete is a session that is over, or its own session
\* that it logs out of.
VisitInv ==
  \A v \in Visits :
    /\ visitPc[v] # "idle" => cookie[v] \in Logins /\ loginPc[cookie[v]] = "in"
    /\ visitPc[v] \in {"purge", "repurge"} => ~Live(cookie[v])
    /\ visitPc[v] = "delete" => visit[v] = "logout"

\* The links of the last hour are among those remembered, of which the last hour
\* holds at most Limit.
Recent(u) == InLastHour(rateTrack[u])

RateInv ==
  /\ \A k \in Links, u \in Users : k \in rateTrack[u] => linkPc[k] # "new"
  /\ \A k \in Links, u \in Users :
       owner[k] = u /\ born[k] > 0 /\ born[k] + Hour > now => k \in rateTrack[u]
  /\ \A u \in Users : Cardinality(Recent(u)) <= Limit

-----------------------------------------------------------------------------
(* Types *)

LEMMA Bounds ==
  ASSUME now \in 1..MaxTime, restarts \in 0..MaxRestarts
  PROVE  /\ now \in 0..MaxTime /\ 0 \in 0..MaxTime /\ 0 \in 0..(MaxTime + MaxAge)
         /\ now + LinkAge \in 0..(MaxTime + LinkAge)
         /\ now + MaxAge \in 0..(MaxTime + MaxAge)
         /\ now < MaxTime => now + 1 \in 1..MaxTime
         /\ restarts < MaxRestarts => restarts + 1 \in 0..MaxRestarts
<1>1. MaxTime \in Nat /\ MaxAge \in Nat /\ LinkAge \in Nat /\ MaxRestarts \in Nat
  BY LoginsAssumption
<1>2. QED
  BY <1>1

LEMMA LinkTypes ==
  ASSUME TypeOK, NEW k \in Links,
         \/ \E u \in Users : AllowCreation(k, u)
         \/ StoreLink(k) \/ StoreLinkFails(k)
  PROVE  TypeOK'
<1> USE DEF TypeOK, loginVars, visitVars
<1>1. CASE StoreLinkFails(k)
  BY <1>1 DEF StoreLinkFails
<1>2. CASE StoreLink(k)
  <2>1. now + LinkAge \in 0..(MaxTime + LinkAge)
    BY LoginsAssumption
  <2>2. QED
    BY <1>2, <2>1 DEF StoreLink
<1>3. ASSUME NEW u \in Users, AllowCreation(k, u) PROVE TypeOK'
  <2>1. InLastHour(rateTrack[u]) \subseteq Links
    BY DEF InLastHour
  <2>2. now \in 0..MaxTime
    BY LoginsAssumption
  <2>3. /\ rateTrack' \in [Users -> SUBSET Links]
        /\ linkPc' \in [Links -> {"new", "allowed", "created", "failed"}]
        /\ owner' \in [Links -> Users \cup {None}]
        /\ born' \in [Links -> 0..MaxTime]
    BY <1>3, <2>1, <2>2 DEF AllowCreation
  <2>4. QED
    BY <1>3, <2>3 DEF AllowCreation
<1>4. QED
  BY <1>1, <1>2, <1>3

LEMMA LoginTypes ==
  ASSUME TypeOK, NEW l \in Logins, Login(l), LinkInv
  PROVE  TypeOK'
<1> USE DEF TypeOK, linkVars, visitVars, LoginGoes
<1>1. ASSUME NEW k \in Links, FindLink(l, k) PROVE TypeOK'
  BY <1>1 DEF FindLink
<1>2. CASE TelegramLogin(l)
  BY <1>2 DEF TelegramLogin
<1>3. CASE MarkUsed(l)
  BY <1>3 DEF MarkUsed, LinkInv
<1>4. CASE LookUpUser(l)
  BY <1>4 DEF LookUpUser
<1>5. CASE CreateSession(l)
  <2>1. now + MaxAge \in 0..(MaxTime + MaxAge)
    BY LoginsAssumption
  <2>2. QED
    BY <1>5, <2>1 DEF CreateSession
<1>6. CASE LoginFails(l)
  BY <1>6 DEF LoginFails
<1>7. QED
  BY <1>1, <1>2, <1>3, <1>4, <1>5, <1>6 DEF Login

LEMMA VisitTypes ==
  ASSUME TypeOK, NEW v \in Visits, Visiting(v)
  PROVE  TypeOK'
<1> USE DEF TypeOK, linkVars, loginVars
<1>1. ASSUME NEW l \in Logins, NEW kind \in {"page", "logout"}, BeginVisit(v, l, kind)
      PROVE  TypeOK'
  BY <1>1 DEF BeginVisit
<1>2. ASSUME NEW to \in {"idle", "second", "purge", "repurge", "delete"},
             VisitGoes(v, to)
      PROVE  /\ visitPc' \in [Visits -> {"idle", "first", "second", "purge",
                                         "repurge", "delete"}]
             /\ visit' \in [Visits -> {"page", "logout"}]
             /\ cookie' \in [Visits -> Logins \cup {None}]
  BY <1>2 DEF VisitGoes
<1>3. ASSUME NEW l, Delete(l) PROVE sessionDB' \in [Logins -> 0..(MaxTime + MaxAge)]
  <2>1. 0 \in 0..(MaxTime + MaxAge)
    BY LoginsAssumption
  <2>2. QED
    BY <1>3, <2>1 DEF Delete
<1>4. AfterMiss(v) \in {"idle", "second"}
  BY DEF AfterMiss
<1>5. CASE ReadSession(v)
  BY <1>2, <1>4, <1>5 DEF ReadSession
<1>6. CASE PurgeSession(v)
  BY <1>2, <1>3, <1>4, <1>6 DEF PurgeSession
<1>7. CASE DestroySession(v)
  BY <1>2, <1>3, <1>7 DEF DestroySession
<1>8. QED
  BY <1>1, <1>5, <1>6, <1>7 DEF Visiting

LEMMA OtherTypes ==
  ASSUME TypeOK, Cleanup \/ Tick \/ Restart \/ UNCHANGED vars
  PROVE  TypeOK'
<1> USE DEF TypeOK, linkVars, loginVars, visitVars
<1>1. CASE Cleanup
  <2>1. CASE CleanSessions
    <3>1. 0 \in 0..(MaxTime + MaxAge)
      BY LoginsAssumption
    <3>2. QED
      BY <2>1, <3>1 DEF CleanSessions
  <2>2. QED
    BY <1>1, <2>1 DEF Cleanup, StartCleanup, CleanLinks, CleanupFails
<1>2. CASE Tick
  <2>1. now + 1 \in 1..MaxTime
    BY <1>2, LoginsAssumption DEF Tick
  <2>2. QED
    BY <1>2, <2>1 DEF Tick
<1>3. CASE Restart
  <2>1. restarts + 1 \in 0..MaxRestarts /\ 0 \in 0..MaxTime
    BY <1>3, LoginsAssumption DEF Restart
  <2>2. QED
    BY <1>3, <2>1 DEF Restart
<1>4. CASE UNCHANGED vars
  BY <1>4 DEF vars
<1>5. QED
  BY <1>1, <1>2, <1>3, <1>4

LEMMA TypesInductive == TypeOK /\ LinkInv /\ [Next]_vars => TypeOK'
<1> SUFFICES ASSUME TypeOK, LinkInv, [Next]_vars PROVE TypeOK'
  OBVIOUS
<1>1. QED
  BY LinkTypes, LoginTypes, VisitTypes, OtherTypes DEF Next

-----------------------------------------------------------------------------
\* Used links: StoreLink is the only step that makes a link unused, and it runs
\* before any login can have found it.
LEMMA LinkInductive == TypeOK /\ LinkInv /\ [Next]_vars => LinkInv'
<1> SUFFICES ASSUME TypeOK, LinkInv, [Next]_vars PROVE LinkInv'
  OBVIOUS
<1> USE DEF LinkInv, TypeOK
<1>1. ASSUME NEW k \in Links,
             (\E u \in Users : AllowCreation(k, u)) \/ StoreLink(k) \/ StoreLinkFails(k)
      PROVE  LinkInv'
  BY <1>1 DEF AllowCreation, StoreLink, StoreLinkFails, loginVars
<1>2. ASSUME NEW l \in Logins, Login(l) PROVE LinkInv'
  <2> USE DEF LoginGoes, linkVars
  <2>1. ASSUME NEW k \in Links, FindLink(l, k) PROVE LinkInv'
    BY <2>1 DEF FindLink
  <2>2. CASE MarkUsed(l)
    BY <2>2 DEF MarkUsed
  <2>3. CASE TelegramLogin(l) \/ LookUpUser(l) \/ CreateSession(l) \/ LoginFails(l)
    BY <2>3 DEF TelegramLogin, LookUpUser, CreateSession, LoginFails
  <2>4. QED
    BY <1>2, <2>1, <2>2, <2>3 DEF Login
<1>3. ASSUME NEW v \in Visits, Visiting(v) PROVE LinkInv'
  BY <1>3 DEF Visiting, BeginVisit, ReadSession, PurgeSession, DestroySession,
              linkVars, loginVars
<1>4. CASE Cleanup
  BY <1>4 DEF Cleanup, StartCleanup, CleanSessions, CleanLinks, CleanupFails,
              linkVars, loginVars
<1>5. CASE Restart
  BY <1>5 DEF Restart
<1>6. CASE Tick \/ UNCHANGED vars
  BY <1>6 DEF Tick, vars, linkVars, loginVars
<1>7. QED
  BY <1>1, <1>2, <1>3, <1>4, <1>5, <1>6 DEF Next

LEMMA InitTypes == Init => TypeOK /\ LinkInv
  BY LoginsAssumption DEF Init, TypeOK, LinkInv

\* Type correctness of links, sessions and the requests that use them.
THEOREM TypeCorrect == SafeSpec => []TypeOK
<1>1. SafeSpec => [](TypeOK /\ LinkInv)
  BY InitTypes, TypesInductive, LinkInductive, PTL DEF SafeSpec
<1>2. QED
  BY <1>1, PTL

\* However many logins, cleanups and restarts there are, a login that begins after
\* a link was marked used is refused.
THEOREM UsedLinksStayUsed == SafeSpec => UsedLinkIsRefused
<1>1. TypeOK /\ LinkInv /\ [Next]_vars
        => [\A l \in Logins : loginPc[l] = "new" /\ loginPc'[l] = "found"
                                => link'[l] \notin spent]_loginVars
  <2> SUFFICES ASSUME TypeOK, LinkInv, [Next]_vars, NEW l \in Logins,
                      loginPc[l] = "new", loginPc'[l] = "found"
               PROVE  link'[l] \notin spent
    BY DEF loginVars
  <2>1. PICK k \in Links : FindLink(l, k)
    <3> USE DEF TypeOK, LoginGoes
    <3>1. ASSUME NEW m \in Logins, Login(m) PROVE \E k \in Links : FindLink(l, k)
      BY <3>1 DEF Login, FindLink, TelegramLogin, MarkUsed, LookUpUser, CreateSession,
                  LoginFails
    <3>2. ASSUME NEW k \in Links,
                 \/ \E u \in Users : AllowCreation(k, u)
                 \/ StoreLink(k) \/ StoreLinkFails(k)
          PROVE  FALSE
      BY <3>2 DEF AllowCreation, StoreLink, StoreLinkFails, loginVars
    <3>3. ASSUME NEW v \in Visits, Visiting(v) PROVE FALSE
      BY <3>3 DEF Visiting, BeginVisit, ReadSession, PurgeSession, DestroySession,
                  loginVars
    <3>4. Cleanup \/ Tick \/ UNCHANGED vars => FALSE
      BY DEF Cleanup, StartCleanup, CleanSessions, CleanLinks, CleanupFails, Tick,
             vars, loginVars
    <3>5. Restart => FALSE
      BY DEF Restart
    <3>6. QED
      BY <3>1, <3>2, <3>3, <3>4, <3>5 DEF Next
  <2>2. QED
    BY <2>1 DEF FindLink, LinkInv, TypeOK, LoginGoes
<1>2. SafeSpec => [](TypeOK /\ LinkInv)
  BY InitTypes, TypesInductive, LinkInductive, PTL DEF SafeSpec
<1>3. QED
  BY <1>1, <1>2, PTL DEF SafeSpec, UsedLinkIsRefused

-----------------------------------------------------------------------------
\* The middleware and the logout handler delete only what is over or what the
\* client asked to be rid of: a visit keeps its cookie while its login stays in,
\* a session that is over stays over.
LEMMA VisitInductive == TypeOK /\ VisitInv /\ [Next]_vars => VisitInv'
<1> SUFFICES ASSUME TypeOK, VisitInv, [Next]_vars PROVE VisitInv'
  OBVIOUS
<1> USE DEF VisitInv
<1>1. ASSUME NEW k \in Links,
             (\E u \in Users : AllowCreation(k, u)) \/ StoreLink(k) \/ StoreLinkFails(k)
      PROVE  VisitInv'
  BY <1>1 DEF AllowCreation, StoreLink, StoreLinkFails, loginVars, visitVars, Live
<1>2. ASSUME NEW l \in Logins, Login(l) PROVE VisitInv'
  <2> USE DEF LoginGoes, linkVars, visitVars, Live, TypeOK
  <2>1. ASSUME NEW k \in Links, FindLink(l, k) PROVE VisitInv'
    BY <2>1 DEF FindLink
  <2>2. CASE CreateSession(l)
    BY <2>2 DEF CreateSession
  <2>3. CASE TelegramLogin(l) \/ MarkUsed(l) \/ LookUpUser(l) \/ LoginFails(l)
    BY <2>3 DEF TelegramLogin, MarkUsed, LookUpUser, LoginFails
  <2>4. QED
    BY <1>2, <2>1, <2>2, <2>3 DEF Login
<1>3. ASSUME NEW v \in Visits, Visiting(v) PROVE VisitInv'
  <2> USE DEF TypeOK, linkVars, loginVars, VisitGoes, AfterMiss
  <2>1. ASSUME NEW l \in Logins, NEW kind \in {"page", "logout"}, BeginVisit(v, l, kind)
        PROVE  VisitInv'
    BY <2>1 DEF BeginVisit, Live
  <2>2. CASE ReadSession(v)
    <3>1. Expired(cookie[v]) => ~Live(cookie[v])
      BY <2>2, LoginsAssumption DEF ReadSession, Expired, Live
    <3>2. \A l \in Logins : Live(l)' = Live(l)
      BY <2>2 DEF ReadSession, Live
    <3>3. UNCHANGED <<sessionDB, loginPc>>
      BY <2>2 DEF ReadSession
    <3>4. PICK to \in {"idle", "second", "purge", "repurge", "delete"} :
            /\ VisitGoes(v, to)
            /\ to \in {"purge", "repurge"} => ~Live(cookie[v])
            /\ to = "delete" => visit[v] = "logout"
      BY <2>2, <3>1 DEF ReadSession
    <3>5. visitPc[v] # "idle"
      BY <2>2 DEF ReadSession
    <3>6. ASSUME NEW w \in Visits, w # v
          PROVE  visitPc'[w] = visitPc[w] /\ visit'[w] = visit[w] /\ cookie'[w] = cookie[w]
      BY <3>4, <3>6
    <3>7. visitPc'[v] = to /\ (to # "idle" => visit'[v] = visit[v] /\ cookie'[v] = cookie[v])
      BY <3>4
    <3>8. QED
      BY <3>2, <3>3, <3>4, <3>5, <3>6, <3>7
  <2>3. CASE PurgeSession(v) \/ DestroySession(v)
    <3>1. \A l \in Logins : ~Live(l) => ~Live(l)'
      BY <2>3 DEF PurgeSession, DestroySession, Delete, Live
    <3>2. QED
      BY <2>3, <3>1 DEF PurgeSession, DestroySession
  <2>4. QED
    BY <1>3, <2>1, <2>2, <2>3 DEF Visiting
<1>4. CASE Cleanup
  <2>1. \A l \in Logins : ~Live(l) => ~Live(l)'
    BY <1>4 DEF Cleanup, StartCleanup, CleanSessions, CleanLinks, CleanupFails, Live,
                TypeOK
  <2>2. QED
    BY <1>4, <2>1 DEF Cleanup, StartCleanup, CleanSessions, CleanLinks, CleanupFails,
                      loginVars, visitVars
<1>5. CASE Restart
  BY <1>5 DEF Restart
<1>6. CASE Tick
  <2>1. \A l \in Logins : ~Live(l) => ~Live(l)'
    BY <1>6, LoginsAssumption DEF Tick, Live, TypeOK
  <2>2. QED
    BY <1>6, <2>1 DEF Tick, loginVars, visitVars
<1>7. CASE UNCHANGED vars
  BY <1>7 DEF vars, loginVars, visitVars, Live
<1>8. QED
  BY <1>1, <1>2, <1>3, <1>4, <1>5, <1>6, <1>7 DEF Next

\* A session lasts until its time is up or a logout destroys it, and not longer.
THEOREM SessionsLiveOut == SafeSpec => SessionLifetime
<1> DEFINE Lasts(l) ==
      loginPc[l] = "in" =>
        /\ ~Live(l) => ~Live(l)'
        /\ Live(l) => \/ Live(l)' \/ now' > sessionDB[l]
                      \/ \E v \in Visits : /\ visit[v] = "logout" /\ cookie[v] = l
                                           /\ visitPc[v] = "delete"
<1>1. ASSUME TypeOK, VisitInv, [Next]_vars, NEW l \in Logins PROVE Lasts(l)
  <2> USE DEF Live
  <2>1. CASE sessionDB'[l] = sessionDB[l] /\ (now' = now \/ now' = now + 1)
    BY <1>1, <2>1, LoginsAssumption DEF TypeOK
  <2>2. ASSUME NEW k \in Links,
               (\E u \in Users : AllowCreation(k, u)) \/ StoreLink(k) \/ StoreLinkFails(k)
        PROVE  Lasts(l)
    BY <2>1, <2>2 DEF AllowCreation, StoreLink, StoreLinkFails
  <2>3. ASSUME NEW m \in Logins, Login(m) PROVE Lasts(l)
    <3>1. CASE CreateSession(m)
      BY <1>1, <2>1, <3>1 DEF CreateSession, TypeOK
    <3>2. CASE ~CreateSession(m)
      BY <2>1, <2>3, <3>2 DEF Login, FindLink, TelegramLogin, MarkUsed, LookUpUser,
                              LoginFails
    <3>3. QED
      BY <3>1, <3>2
  <2>4. ASSUME NEW v \in Visits, Visiting(v) PROVE Lasts(l)
    <3>1. CASE (\E m \in Logins, kind \in {"page", "logout"} : BeginVisit(v, m, kind))
               \/ ReadSession(v)
      BY <2>1, <3>1 DEF BeginVisit, ReadSession
    <3>2. CASE PurgeSession(v)
      BY <1>1, <2>1, <3>2 DEF PurgeSession, Delete, VisitInv, TypeOK
    <3>3. CASE DestroySession(v)
      BY <1>1, <2>1, <3>3 DEF DestroySession, Delete, VisitInv, TypeOK
    <3>4. QED
      BY <2>4, <3>1, <3>2, <3>3 DEF Visiting
  <2>5. CASE Cleanup
    <3>1. CASE CleanSessions
      BY <1>1, <2>1, <3>1 DEF CleanSessions, Expired, TypeOK
    <3>2. CASE StartCleanup \/ CleanLinks \/ CleanupFails
      BY <2>1, <3>2 DEF StartCleanup, CleanLinks, CleanupFails
    <3>3. QED
      BY <2>5, <3>1, <3>2 DEF Cleanup
  <2>6. CASE Tick \/ Restart \/ UNCHANGED vars
    BY <2>1, <2>6 DEF Tick, Restart, vars
  <2>7. QED
    BY <1>1, <2>2, <2>3, <2>4, <2>5, <2>6 DEF Next
<1>2. TypeOK /\ VisitInv /\ [Next]_vars => [\A l \in Logins : Lasts(l)]_<<now, sessionDB>>
  BY <1>1
<1>3. Init => VisitInv
  BY DEF Init, VisitInv
<1>4. SafeSpec => []VisitInv
  BY <1>3, TypeCorrect, VisitInductive, PTL DEF SafeSpec
<1>5. QED
  BY <1>2, <1>4, TypeCorrect, PTL DEF SafeSpec, SessionLifetime

-----------------------------------------------------------------------------
\* The links of a user's last hour are remembered, and what is remembered of the
\* last hour stays within the limit, as the clock only takes links out of it.
LEMMA RateInductive == TypeOK /\ RateInv /\ [Next]_vars => RateInv'
<1> SUFFICES ASSUME TypeOK, RateInv, [Next]_vars PROVE RateInv'
  OBVIOUS
<1> USE DEF RateInv, Recent, InLastHour
<1>1. ASSUME NEW k \in Links, NEW u \in Users, AllowCreation(k, u) PROVE RateInv'
  <2> DEFINE valid == InLastHour(rateTrack[u])
  <2> USE DEF TypeOK
  <2>1. IsFiniteSet(valid) /\ k \notin valid
    BY <1>1, LoginsAssumption, FS_Subset DEF AllowCreation
  <2>2. CASE Cardinality(valid) < Limit
    <3>1. /\ rateTrack' = [rateTrack EXCEPT ![u] = valid \cup {k}]
          /\ linkPc' = [linkPc EXCEPT ![k] = "allowed"]
          /\ owner' = [owner EXCEPT ![k] = u]
          /\ born' = [born EXCEPT ![k] = now]
          /\ now' = now /\ linkPc[k] = "new"
      BY <1>1, <2>1, <2>2, FS_CardinalityType, LoginsAssumption DEF AllowCreation
    <3>2. Recent(u)' \subseteq valid \cup {k}
      BY <3>1
    <3>3. Cardinality(Recent(u)') <= Limit
      <4>1. Cardinality(valid \cup {k}) = Cardinality(valid) + 1
        BY <2>1, FS_AddElement
      <4>2. IsFiniteSet(valid \cup {k})
        BY <2>1, FS_AddElement
      <4>3. IsFiniteSet(Recent(u)') /\ Cardinality(Recent(u)') <= Cardinality(valid \cup {k})
        BY <3>2, <4>2, FS_Subset
      <4>4. Cardinality(valid) \in Nat /\ Cardinality(Recent(u)') \in Nat
        BY <2>1, <4>3, FS_CardinalityType
      <4>5. QED
        BY <2>2, <4>1, <4>3, <4>4, LoginsAssumption
    <3>4. ASSUME NEW w \in Users, w # u PROVE Recent(w)' = Recent(w)
      BY <3>1, <3>4
    <3>5. \A w \in Users : Cardinality(Recent(w)') <= Limit
      BY <3>3, <3>4
    <3>6. QED
      BY <3>1, <3>5
  <2>3. CASE ~(Cardinality(valid) < Limit)
    <3>1. /\ rateTrack' = [rateTrack EXCEPT ![u] = valid]
          /\ linkPc' = [linkPc EXCEPT ![k] = "failed"]
          /\ owner' = owner /\ born' = born /\ now' = now
      BY <1>1, <2>3 DEF AllowCreation
    <3>2. \A w \in Users : Recent(w)' = Recent(w)
      BY <3>1
    <3>3. QED
      BY <3>1, <3>2
  <2>4. QED
    BY <2>2, <2>3
<1>2. CASE /\ UNCHANGED <<now, rateTrack, owner, born>>
           /\ \A k \in Links : linkPc[k] # "new" => linkPc'[k] # "new"
  <2>1. \A u \in Users : Recent(u)' = Recent(u)
    BY <1>2
  <2>2. QED
    BY <1>2, <2>1
<1>3. ASSUME NEW k \in Links, StoreLink(k) \/ StoreLinkFails(k) PROVE RateInv'
  BY <1>2, <1>3 DEF StoreLink, StoreLinkFails, TypeOK
<1>4. ASSUME NEW l \in Logins, Login(l) PROVE RateInv'
  BY <1>2, <1>4 DEF Login, FindLink, TelegramLogin, MarkUsed, LookUpUser, CreateSession,
                    LoginFails, linkVars
<1>5. ASSUME NEW v \in Visits, Visiting(v) PROVE RateInv'
  BY <1>2, <1>5 DEF Visiting, BeginVisit, ReadSession, PurgeSession, DestroySession,
                    linkVars
<1>6. CASE Cleanup
  BY <1>2, <1>6 DEF Cleanup, StartCleanup, CleanSessions, CleanLinks, CleanupFails,
                    linkVars
<1>7. CASE Tick
  <2>1. \A k \in Links : born[k] + Hour > now' => born[k] + Hour > now
    BY <1>7, LoginsAssumption DEF Tick, TypeOK
  <2>2. UNCHANGED <<rateTrack, linkPc, owner, born>>
    BY <1>7 DEF Tick, linkVars
  <2>3. ASSUME NEW u \in Users PROVE Cardinality(Recent(u)') <= Limit
    <3>1. Recent(u)' \subseteq Recent(u)
      BY <2>1, <2>2 DEF TypeOK
    <3>2. IsFiniteSet(Recent(u))
      BY LoginsAssumption, FS_Subset DEF TypeOK
    <3>3. IsFiniteSet(Recent(u)') /\ Cardinality(Recent(u)') <= Cardinality(Recent(u))
      BY <3>1, <3>2, FS_Subset
    <3>4. Cardinality(Recent(u)) \in Nat /\ Cardinality(Recent(u)') \in Nat
      BY <3>2, <3>3, FS_CardinalityType
    <3>5. QED
      BY <3>3, <3>4, LoginsAssumption
  <2>4. QED
    BY <2>1, <2>2, <2>3
<1>8. CASE Restart
  <2>1. rateTrack' = [u \in Users |-> {}] /\ born' = [k \in Links |-> 0]
    BY <1>8 DEF Restart
  <2>2. \A u \in Users : Recent(u)' = {}
    BY <2>1
  <2>3. QED
    BY <2>1, <2>2, FS_EmptySet, LoginsAssumption
<1>9. CASE UNCHANGED vars
  BY <1>2, <1>9 DEF vars, linkVars
<1>10. QED
  BY <1>1, <1>3, <1>4, <1>5, <1>6, <1>7, <1>8, <1>9 DEF Next

\* Within an hour one process creates no more than Limit links for a user.
THEOREM RateKept == SafeSpec => []RateHolds
<1>1. TypeOK /\ RateInv => RateHolds
  <2> SUFFICES ASSUME TypeOK, RateInv, NEW u \in Users
               PROVE  Cardinality({k \in Links : /\ owner[k] = u /\ born[k] > 0
                                                 /\ born[k] + Hour > now}) <= Limit
    BY DEF RateHolds
  <2> DEFINE made == {k \in Links : owner[k] = u /\ born[k] > 0 /\ born[k] + Hour > now}
  <2>1. made \subseteq Recent(u)
    BY DEF RateInv, Recent, InLastHour
  <2>2. IsFiniteSet(Recent(u))
    BY LoginsAssumption, FS_Subset DEF TypeOK, Recent, InLastHour
  <2>3. IsFiniteSet(made) /\ Cardinality(made) <= Cardinality(Recent(u))
    BY <2>1, <2>2, FS_Subset
  <2>4. Cardinality(made) \in Nat /\ Cardinality(Recent(u)) \in Nat
    BY <2>2, <2>3, FS_CardinalityType
  <2>5. QED
    BY <2>3, <2>4, LoginsAssumption DEF RateInv
<1>2. Init => RateInv
  <2>1. ASSUME Init PROVE \A u \in Users : Recent(u) = {}
    BY <2>1 DEF Init, Recent, InLastHour
  <2>2. Cardinality({}) <= Limit
    BY FS_EmptySet, LoginsAssumption
  <2>3. ASSUME Init PROVE \A u \in Users : Cardinality(Recent(u)) <= Limit
    BY <2>1, <2>2, <2>3
  <2>4. Init => \A k \in Links, u \in Users : owner[k] # u /\ k \notin rateTrack[u]
    BY LoginsAssumption DEF Init
  <2>5. QED
    BY <2>3, <2>4 DEF RateInv
<1>3. SafeSpec => []RateInv
  BY <1>2, TypeCorrect, RateInductive, PTL DEF SafeSpec
<1>4. QED
  BY <1>1, <1>3, TypeCorrect, PTL
=============================================================================
