--------------------------- MODULE DiagnosticsProofs ---------------------------
(***************************************************************************)
(* Proofs about what the server says of itself: the gateway's status       *)
(* (StatusCache), its health (Health), and its logs of requests and errors *)
(* (Journal).  The three share no state and no argument; each part of the  *)
(* module is about one of them.                                            *)
(***************************************************************************)
EXTENDS StatusCache, Health, Journal, FiniteSetTheorems, SequenceTheorems,
        WellFoundedInduction, TLAPS

-----------------------------------------------------------------------------
(* The status of the gateway: fetches never overlap, for any number of connections, *)
(* so no connection sees it go back. *)

\* Versions are ordered: what a connection was given, then the cache, then what
\* a running fetch has read, then the gateway.
Ordered ==
  /\ statusCache <= gateway
  /\ \A c \in Conns : shown[c] <= statusCache
  /\ \A f \in Fetchers :
       fetch[f] = "reported" => statusCache <= read[f] /\ read[f] <= gateway

IInv == TypeOK /\ SingleFlight /\ Ordered

-----------------------------------------------------------------------------
LEMMA InitInv == Init => IInv
<1> SUFFICES ASSUME Init PROVE IInv
  OBVIOUS
<1>1. 1 \in 1..MaxStatus /\ 0 \in 0..MaxStatus
  BY StatusAssumption
<1>2. /\ fetch \in [Fetchers -> {"idle", "started", "reported"}]
      /\ read \in [Fetchers -> 0..MaxStatus]
      /\ shown \in [Conns -> 0..MaxStatus]
  BY <1>1 DEF Init
<1>3. TypeOK
  BY <1>1, <1>2 DEF Init, TypeOK
<1>4. SingleFlight
  BY DEF Init, SingleFlight
<1>5. Ordered
  BY DEF Init, Ordered
<1>6. QED
  BY <1>3, <1>4, <1>5 DEF IInv

\* Starting a fetch when none runs keeps them single.
LEMMA StartFetchInv ==
  ASSUME IInv, NEW f \in Fetchers, ~statusRunning, StartFetch(f)
  PROVE  /\ statusRunning' \in BOOLEAN
         /\ fetch' \in [Fetchers -> {"idle", "started", "reported"}]
         /\ SingleFlight'
         /\ \A g \in Fetchers : fetch'[g] # "reported"
  BY DEF IInv, TypeOK, SingleFlight, StartFetch

\* IInv is inductive.
LEMMA NextInv == IInv /\ [Next]_vars => IInv'
<1> SUFFICES ASSUME IInv, [Next]_vars PROVE IInv'
  OBVIOUS
<1> USE StatusAssumption DEF cacheVars
<1>1. CASE GatewayChanges
  BY <1>1 DEF GatewayChanges, IInv, TypeOK, SingleFlight, Ordered
<1>2. CASE StatusExpires
  BY <1>2 DEF StatusExpires, IInv, TypeOK, SingleFlight, Ordered
<1>3. CASE GetSystemStatus
  <2>1. CASE Usable \/ statusRunning
    BY <1>3, <2>1 DEF GetSystemStatus, IInv, TypeOK, SingleFlight, Ordered
  <2>2. CASE ~(Usable \/ statusRunning)
    <3>1. StartFetch(Warmer) /\ warmer' = "fetching"
      BY <1>3, <2>2 DEF GetSystemStatus
    <3>2. UNCHANGED <<gateway, statusCache, statusFresh, read, shown>>
      BY <1>3 DEF GetSystemStatus
    <3>3. QED
      BY <2>2, <3>1, <3>2, StartFetchInv DEF IInv, TypeOK, Ordered, Fetchers
  <2>3. QED
    BY <2>1, <2>2
<1>4. ASSUME NEW c \in Conns, GetSystemStatusCached(c) PROVE IInv'
  <2>1. /\ UNCHANGED <<gateway, statusCache, statusFresh, warmer, read>>
        /\ shown' = [shown EXCEPT ![c] = statusCache]
    BY <1>4 DEF GetSystemStatusCached
  <2>2. CASE Usable \/ statusRunning
    BY <1>4, <2>1, <2>2
       DEF GetSystemStatusCached, IInv, TypeOK, SingleFlight, Ordered
  <2>3. CASE ~(Usable \/ statusRunning)
    <3>1. StartFetch(c)
      BY <1>4, <2>3 DEF GetSystemStatusCached
    <3>2. QED
      BY <2>1, <2>3, <3>1, StartFetchInv DEF IInv, TypeOK, Ordered, Fetchers
  <2>4. QED
    BY <2>2, <2>3
<1>5. ASSUME NEW f \in Fetchers, CLIReports(f) PROVE IInv'
  BY <1>5 DEF CLIReports, IInv, TypeOK, SingleFlight, Ordered
<1>6. ASSUME NEW f \in Fetchers, StoreStatus(f) PROVE IInv'
  <2>1. \A g \in Fetchers : g # f => fetch[g] = "idle"
    BY <1>6 DEF StoreStatus, IInv, SingleFlight
  <2>2. /\ read[f] \in 0..MaxStatus
        /\ statusCache <= read[f] /\ read[f] <= gateway
    BY <1>6 DEF StoreStatus, IInv, TypeOK, Ordered
  <2>3. TypeOK'
    <3>1. /\ fetch' \in [Fetchers -> {"idle", "started", "reported"}]
          /\ read' \in [Fetchers -> 0..MaxStatus]
          /\ warmer' \in {"new", "fetching", "returned"}
      BY <1>6 DEF StoreStatus, IInv, TypeOK
    <3>2. /\ statusCache' \in 0..MaxStatus
          /\ statusFresh' \in BOOLEAN
          /\ statusRunning' \in BOOLEAN
          /\ UNCHANGED <<gateway, shown>>
      BY <1>6, <2>2 DEF StoreStatus
    <3>3. QED
      BY <3>1, <3>2 DEF IInv, TypeOK
  <2>4. SingleFlight'
    BY <1>6, <2>1 DEF StoreStatus, IInv, TypeOK, SingleFlight
  <2>5. Ordered'
    BY <1>6, <2>1, <2>2 DEF StoreStatus, IInv, TypeOK, Ordered
  <2>6. QED
    BY <2>3, <2>4, <2>5 DEF IInv
<1>7. CASE UNCHANGED vars
  BY <1>7 DEF vars, IInv, TypeOK, SingleFlight, Ordered
<1>8. QED
  BY <1>1, <1>2, <1>3, <1>4, <1>5, <1>6, <1>7 DEF Next, Fetch

LEMMA Inductive == SafeSpec => []IInv
  BY InitInv, NextInv, PTL DEF SafeSpec

\* The variables keep their types.
THEOREM TypeCorrect == SafeSpec => []TypeOK
<1>1. IInv => TypeOK
  BY DEF IInv
<1>2. QED
  BY <1>1, Inductive, PTL

\* However many connections find the cache expired at once, one CLI runs.
THEOREM FetchesNeverOverlap == SafeSpec => []SingleFlight
<1>1. IInv => SingleFlight
  BY DEF IInv
<1>2. QED
  BY <1>1, Inductive, PTL

\* No connection sees the status go back in time.
THEOREM StatusOnlyAdvances == SafeSpec => StatusNeverRegresses
<1>1. IInv /\ [Next]_vars => [\A c \in Conns : shown[c] <= shown'[c]]_shown
  <2> SUFFICES ASSUME IInv, [Next]_vars, NEW c \in Conns
               PROVE  shown[c] <= shown'[c] \/ shown' = shown
    OBVIOUS
  <2>1. shown[c] <= statusCache /\ shown[c] \in Nat /\ statusCache \in Nat
    BY DEF IInv, TypeOK, Ordered
  <2>2. shown' = shown \/ \E d \in Conns : shown' = [shown EXCEPT ![d] = statusCache]
    BY DEF Next, GatewayChanges, StatusExpires, GetSystemStatus, Fetch,
           GetSystemStatusCached, CLIReports, StoreStatus, vars
  <2>3. QED
    BY <2>1, <2>2 DEF IInv, TypeOK
<1>2. QED
  BY <1>1, Inductive, PTL DEF SafeSpec, StatusNeverRegresses

-----------------------------------------------------------------------------
(* Health: a verdict that is served is that of the site at some moment of the      *)
(* request, and calls within calls come to an end. *)

\* What each call is doing: only debug calls check, only others wait; who fetches has
\* asked the debug server and, if it fills the cache, holds the lock; the two run
\* on the same clock until the check asks in its turn.
CallInv ==
  \A c \in Calls :
    /\ call[c].pc \in {"check", "inner"} => call[c].kind = "debug"
    /\ call[c].pc = "wait" => call[c].kind \in {"health", "cli"} /\ call[c].timer = 0
    /\ call[c].kind = "cli" => c[2] = 1
    /\ call[c].pc = "fetch" =>
         /\ c[2] < Levels /\ call[c].kind \in {"health", "cli"} /\ call[c].found # {}
         /\ call[c].kind = "health" => lock = c
         /\ call[Child(c)].kind = "debug" /\ call[Child(c)].pc \in {"check", "inner", "answered"}
         /\ call[Child(c)].pc = "check" => call[Child(c)].timer = call[c].timer

\* What a report says that is right for the world as it is.
Right(report) ==
  /\ Status(RunStaticChecks(world)) = "fail" => Status(report) = "fail"
  /\ Status(RunStaticChecks(world) \cup RuntimeChecks(world)) = "ok" => Status(report) = "ok"

\* Whatever was found since the world last changed is what the checks find now.
FoundInv ==
  /\ \A c \in Calls :
       call[c].pc = "fetch" /\ call[c].timer < held =>
         /\ call[c].found = RunStaticChecks(world)
         /\ call[Child(c)].pc = "answered" => call[Child(c)].found = RuntimeChecks(world)
  /\ cache # {} /\ cacheAge < TTL /\ cacheAge + Timeout < held => Right(cache)

\* A report has just been kept and nobody is making one.
JustKept == lock = None /\ cache # {} /\ cacheAge = 0

\* Above a call that was made by the checks of a run there is a run that holds the
\* lock, or its report has just been kept: the call will be answered with that.
DepthInv ==
  \A c \in Calls :
    /\ c[2] >= 6 => call[c].pc = "idle"
    /\ c[2] >= 4 => call[c].pc # "fetch"
    /\ c[2] >= 5 => call[c].pc \notin {"check", "inner"}
    /\ c[2] >= 2 /\ c[2] + 1 <= Levels /\ call[Child(c)].pc = "check" =>
         \/ call[c].pc = "fetch"
         \/ call[Child(c)].timer = Timeout /\ JustKept
    /\ c[2] >= 2 /\ c[2] + 2 <= Levels /\ call[Child(Child(c))].pc = "wait" =>
         \/ lock = c /\ call[c].pc = "fetch"
         \/ JustKept

-----------------------------------------------------------------------------
CallType == [kind : {"none", "health", "cli", "debug"},
             pc : {"idle", "wait", "fetch", "check", "inner", "answered"},
             found : Reports, timer : 0..Timeout]

\* The levels of the calls, as far as the proofs need them.
LEMMA Family ==
  /\ \A c \in Calls : /\ c[2] \in Nat /\ 1 <= c[2] /\ c[2] <= Levels
                      /\ Child(c) # c /\ Child(c)[2] = c[2] + 1
                      /\ Child(c) \in Calls <=> c[2] < Levels
                      /\ Child(c)[1] = c[1]
                      /\ <<Child(c)[1], Child(c)[2] - 1>> = c
                      /\ c[2] > 1 => /\ <<c[1], c[2] - 1>> \in Calls
                                     /\ Child(<<c[1], c[2] - 1>>) = c
  /\ \A c, d \in Calls : Child(c) = Child(d) => c = d
  /\ \A s \in Slots, l \in 1..Levels : /\ <<s, l>> \in Calls /\ <<s, l>>[2] = l
                                       /\ Child(<<s, l>>) = <<s, l + 1>>
  BY HealthAssumption DEF Calls, Child

LEMMA Times ==
  /\ Timeout \in Nat /\ TTL \in Nat /\ 0 < Timeout /\ Timeout < TTL /\ Window = TTL + Timeout
  /\ Levels \in Nat /\ 0 < Levels /\ None \notin Calls
  BY HealthAssumption DEF Window, Calls

LEMMA Level == \A c \in Calls : c[2] \in Nat /\ 1 <= c[2] /\ c[2] <= Levels
  BY Family

\* Who is not at the last level has a child, and a grandchild above the last but one.
LEMMA Below ==
  ASSUME NEW c \in Calls, c[2] + 1 <= Levels
  PROVE  c[2] < Levels /\ Child(c) \in Calls /\ Child(c)[2] = c[2] + 1
<1>1. c[2] < Levels
  BY Level, Times
<1> QED
  BY <1>1, Family

LEMMA FarBelow ==
  ASSUME NEW c \in Calls, c[2] + 2 <= Levels
  PROVE  /\ Child(c) \in Calls /\ Child(c)[2] = c[2] + 1 /\ c[2] < Levels
         /\ Child(Child(c)) \in Calls /\ Child(Child(c))[2] = c[2] + 2
<1>1. c[2] + 1 <= Levels /\ c[2] \in Nat
  BY Level, Times
<1>2. Child(c) \in Calls /\ Child(c)[2] = c[2] + 1 /\ c[2] < Levels
  BY <1>1, Below
<1>3. Child(c)[2] + 1 <= Levels
  BY <1>1, <1>2, Times
<1>4. Child(Child(c)) \in Calls /\ Child(Child(c))[2] = Child(c)[2] + 1
  BY <1>2, <1>3, Below
<1> QED
  BY <1>1, <1>2, <1>4

\* What the checks find is a report.
LEMMA Finds ==
  ASSUME NEW w \in Worlds
  PROVE  /\ RunStaticChecks(w) \in Reports /\ RuntimeChecks(w) \in Reports /\ Skipped \in Reports
         /\ \A r, q \in Reports : r \cup q \in Reports
         /\ RunStaticChecks(w) # {}
<1>1. checkConfig(w) # {}
  BY DEF checkConfig, Result
<1>2. RunStaticChecks(w) # {}
  BY <1>1 DEF RunStaticChecks
<1> QED
  BY <1>2 DEF Reports

LEMMA CalledType ==
  ASSUME NEW kind \in {"health", "cli", "debug"}
  PROVE  /\ Called(kind) \in CallType
         /\ Called(kind).kind = kind /\ Called(kind).timer = 0
         /\ Called(kind).pc = IF kind = "debug" THEN "check" ELSE "wait"
<1>1. {} \in Reports /\ 0 \in 0..Timeout
  BY Times DEF Reports
<1>2. QED
  BY <1>1 DEF Called, Idle, CallType

\* An answer is kept for whoever waits for it, and dropped when nobody does.
LEMMA AnsweredType ==
  ASSUME HealthTypeOK, NEW c \in Calls, NEW report \in Reports
  PROVE  /\ Answered(c, report) \in CallType
         /\ \/ /\ Answered(c, report).pc = "answered"
               /\ Answered(c, report).kind = call[c].kind
               /\ Answered(c, report).found = report
            \/ /\ Answered(c, report) = Idle /\ c[2] > 1
               /\ call[<<c[1], c[2] - 1>>].pc \notin {"fetch", "inner"}
<1>1. {} \in Reports /\ 0 \in 0..Timeout
  BY Times DEF Reports
<1>2. call[c] \in CallType
  BY DEF HealthTypeOK, CallType
<1>3. [call[c] EXCEPT !.pc = "answered", !.found = report, !.timer = 0] \in CallType
  BY <1>1, <1>2 DEF CallType
<1>4. QED
  BY <1>1, <1>2, <1>3 DEF Answered, CallType, Idle

-----------------------------------------------------------------------------
(* Types, and who does what *)

BaseInv == HealthTypeOK /\ CallInv

LEMMA InitBase == HealthInit => BaseInv
<1> SUFFICES ASSUME HealthInit PROVE BaseInv
  OBVIOUS
<1>1. {} \in Reports /\ Idle \in CallType
  BY Times DEF Reports, Idle, CallType
<1>2. call \in [Calls -> CallType] /\ \A c \in Calls : call[c].pc = "idle" /\ call[c].kind = "none"
  BY <1>1 DEF HealthInit, Idle
<1>3. /\ world \in Worlds /\ held = 0 /\ changes = 0 /\ lock = None /\ cache = {} /\ cacheAge = TTL
  BY DEF HealthInit
<1>4. held \in 0..Window + 1 /\ changes \in 0..MaxChanges /\ cacheAge \in 0..TTL
  BY <1>3, Times, HealthAssumption
<1>5. HealthTypeOK
  BY <1>1, <1>2, <1>3, <1>4 DEF HealthTypeOK, CallType
<1>6. CallInv
  BY <1>2 DEF CallInv
<1>7. QED
  BY <1>5, <1>6 DEF BaseInv

\* What CallInv says of one call.
CallOK(c) ==
  /\ call[c].pc \in {"check", "inner"} => call[c].kind = "debug"
  /\ call[c].pc = "wait" => call[c].kind \in {"health", "cli"} /\ call[c].timer = 0
  /\ call[c].kind = "cli" => c[2] = 1

FetchOK(c) ==
  call[c].pc = "fetch" =>
    /\ c[2] < Levels /\ call[c].kind \in {"health", "cli"} /\ call[c].found # {}
    /\ call[c].kind = "health" => lock = c
    /\ call[Child(c)].kind = "debug" /\ call[Child(c)].pc \in {"check", "inner", "answered"}
    /\ call[Child(c)].pc = "check" => call[Child(c)].timer = call[c].timer

LEMMA CallInvIs == CallInv <=> \A c \in Calls : CallOK(c) /\ FetchOK(c)
  BY DEF CallInv, CallOK, FetchOK

\* A fetch that goes on is as it was when neither it, nor its child, nor the lock has changed.
LEMMA FetchGoesOn ==
  ASSUME NEW c \in Calls, FetchOK(c), call'[c] = call[c], call'[Child(c)] = call[Child(c)],
         lock' = lock \/ call[c].kind # "health"
  PROVE  FetchOK(c)'
  BY DEF FetchOK

\* A step of one call, which may give its child another request or none: CallInv is kept.
LEMMA StepCallInv ==
  ASSUME BaseInv, NEW c \in Calls,
         \A d \in Calls \ {c} :
            \/ call'[d] = call[d]
            \/ d = Child(c) /\ CallOK(d)' /\ call'[d].pc # "fetch",
         lock' = lock \/ lock \in {None, c},
         CallOK(c)', FetchOK(c)',
         \A p \in Calls : Child(p) = c /\ call[p].pc = "fetch" =>
                            call'[c].kind = "debug" /\ call'[c].pc \in {"inner", "answered"}
  PROVE  CallInv'
<1>1. ASSUME NEW d \in Calls PROVE CallOK(d)' /\ FetchOK(d)'
  <2>1. CASE d = c
    BY <2>1
  <2>2. CASE d # c /\ call'[d] # call[d]
    BY <2>2 DEF FetchOK
  <2>3. CASE d # c /\ call'[d] = call[d]
    <3>1. CallOK(d) /\ FetchOK(d)
      BY CallInvIs DEF BaseInv
    <3>2. CallOK(d)'
      BY <2>3, <3>1 DEF CallOK
    <3>3. CASE call[d].pc # "fetch"
      BY <2>3, <3>2, <3>3 DEF FetchOK
    <3>4. CASE call[d].pc = "fetch"
      <4>1. d[2] < Levels /\ Child(d) \in Calls /\ Child(d) # Child(c)
        BY <2>3, <3>1, <3>4, Family DEF FetchOK
      <4>2. call[d].kind = "health" => lock' = lock
        BY <2>3, <3>1, <3>4, Times DEF FetchOK
      <4>3. CASE Child(d) = c
        BY <2>3, <3>1, <3>2, <3>4, <4>1, <4>2, <4>3 DEF FetchOK
      <4>4. CASE Child(d) # c
        BY <2>3, <3>1, <3>2, <3>4, <4>1, <4>2, <4>4, FetchGoesOn
      <4> QED
        BY <4>3, <4>4
    <3> QED
      BY <3>3, <3>4
  <2> QED
    BY <2>1, <2>2, <2>3
<1> QED
  BY <1>1 DEF CallInv, CallOK, FetchOK

\* An answer does not end what CallInv says of the call, nor does it leave a fetch.
LEMMA AnsweredOK ==
  ASSUME BaseInv, NEW c \in Calls, NEW report \in Reports, call'[c] = Answered(c, report)
  PROVE  /\ CallOK(c)' /\ FetchOK(c)' /\ call'[c] \in CallType
         /\ \A p \in Calls : Child(p) = c /\ call[p].pc = "fetch" =>
                               call'[c].kind = "debug" /\ call'[c].pc = "answered"
<1>1. CallOK(c)
  BY CallInvIs DEF BaseInv
<1>2. Idle.pc = "idle" /\ Idle.kind = "none"
  BY DEF Idle
<1>3. CallOK(c)' /\ FetchOK(c)' /\ call'[c] \in CallType
  BY <1>1, <1>2, AnsweredType DEF CallOK, FetchOK, BaseInv
<1>4. ASSUME NEW p \in Calls, Child(p) = c, call[p].pc = "fetch"
      PROVE  call'[c].kind = "debug" /\ call'[c].pc = "answered"
  <2>1. FetchOK(p) /\ <<c[1], c[2] - 1>> = p
    BY <1>4, CallInvIs, Family DEF BaseInv
  <2>2. call[c].kind = "debug"
    BY <1>4, <2>1 DEF FetchOK
  <2> QED
    BY <1>4, <2>1, <2>2, AnsweredType DEF BaseInv
<1> QED
  BY <1>3, <1>4

LEMMA RequestBase ==
  ASSUME BaseInv, NEW s \in Slots, Request(s) PROVE BaseInv'
<1> DEFINE d == <<s, 1>>
<1>1. PICK kind \in KindsOf[s] : call' = [call EXCEPT ![d] = Called(kind)]
  BY DEF Request
<1>2. kind \in {"health", "cli", "debug"}
  BY <1>1, HealthAssumption
<1>3. UNCHANGED <<world, held, changes, lock, cache, cacheAge>>
  BY DEF Request
<1>4. call \in [Calls -> CallType] /\ d \in Calls /\ d[2] = 1
  BY Family, Times DEF BaseInv, HealthTypeOK, CallType
<1>5. call' \in [Calls -> CallType] /\ HealthTypeOK'
  BY <1>1, <1>2, <1>3, <1>4, CalledType DEF BaseInv, HealthTypeOK, CallType
<1>6. \A c \in Calls \ {d} : call'[c] = call[c]
  BY <1>1, <1>4
<1>7. call'[d] = Called(kind)
  BY <1>1, <1>4
<1>8. CallOK(d)' /\ FetchOK(d)'
  BY <1>2, <1>4, <1>7, CalledType DEF CallOK, FetchOK
<1>9. ASSUME NEW p \in Calls PROVE Child(p) # d
  <2>1. p[2] \in Nat /\ 1 <= p[2] /\ Child(p)[2] = p[2] + 1
    BY Family
  <2> QED
    BY <1>4, <2>1
<1>10. CallInv'
  BY <1>3, <1>4, <1>6, <1>8, <1>9, StepCallInv
<1> QED
  BY <1>5, <1>10 DEF BaseInv

LEMMA GetCachedBase ==
  ASSUME BaseInv, NEW c \in Calls, GetCached(c) PROVE BaseInv'
<1>1. call \in [Calls -> CallType] /\ cache \in Reports
  BY DEF BaseInv, HealthTypeOK, CallType
<1>2. call'[c] = Answered(c, cache) /\ \A d \in Calls \ {c} : call'[d] = call[d]
  BY <1>1 DEF GetCached
<1>3. UNCHANGED <<world, held, changes, lock, cache, cacheAge>>
  BY DEF GetCached
<1>4. /\ CallOK(c)' /\ FetchOK(c)' /\ call'[c] \in CallType
      /\ \A p \in Calls : Child(p) = c /\ call[p].pc = "fetch" =>
                            call'[c].kind = "debug" /\ call'[c].pc = "answered"
  BY <1>1, <1>2, AnsweredOK
<1>5. call' \in [Calls -> CallType]
  BY <1>1, <1>4 DEF GetCached
<1>6. HealthTypeOK'
  BY <1>3, <1>5 DEF BaseInv, HealthTypeOK, CallType
<1>7. CallInv'
  BY <1>2, <1>3, <1>4, StepCallInv
<1> QED
  BY <1>6, <1>7 DEF BaseInv

\* The fetch begins.
LEMMA FetchingBase ==
  ASSUME BaseInv, NEW c \in Calls, call[c].pc = "wait", call[c].kind \in {"health", "cli"},
         CanFetch(c), call' = Fetching(c),
         call[c].kind = "health" => lock = None /\ lock' = c,
         call[c].kind = "cli" => lock' = lock,
         UNCHANGED <<world, held, changes, cache, cacheAge>>
  PROVE  BaseInv'
<1>1. call \in [Calls -> CallType] /\ world \in Worlds
  BY DEF BaseInv, HealthTypeOK, CallType
<1>2. c[2] < Levels /\ Child(c) \in Calls /\ Child(c) # c
  BY Family DEF CanFetch
<1>3. /\ call'[c] = [call[c] EXCEPT !.pc = "fetch", !.found = RunStaticChecks(world)]
      /\ call'[Child(c)] = Called("debug")
      /\ \A d \in Calls \ {c, Child(c)} : call'[d] = call[d]
      /\ DOMAIN call' = Calls /\ call' = [d \in Calls |-> call'[d]]
  BY <1>1, <1>2 DEF Fetching
<1>4. call'[c] \in CallType /\ call'[Child(c)] \in CallType
  BY <1>1, <1>3, Finds, CalledType DEF CallType
<1>5. call' \in [Calls -> CallType]
  BY <1>1, <1>3, <1>4
<1>6. lock' \in Calls \cup {None}
  BY DEF BaseInv, HealthTypeOK
<1>7. HealthTypeOK'
  BY <1>5, <1>6 DEF BaseInv, HealthTypeOK, CallType
<1>8. CallOK(c)
  BY CallInvIs DEF BaseInv
<1>9. call[c].timer = 0 /\ call'[c].pc = "fetch" /\ call'[c].kind = call[c].kind /\ call'[c].timer = 0
  BY <1>1, <1>3, <1>8 DEF CallOK, CallType
<1>10. CallOK(c)' /\ FetchOK(c)'
  <2>1. call'[c].found # {}
    BY <1>1, <1>3, Finds DEF CallType
  <2> QED
    BY <1>2, <1>3, <1>8, <1>9, <2>1, CalledType DEF CallOK, FetchOK
<1>11. CallOK(Child(c))' /\ call'[Child(c)].pc # "fetch"
  BY <1>3, CalledType DEF CallOK
<1>12. \A p \in Calls : ~(Child(p) = c /\ call[p].pc = "fetch")
  BY CallInvIs DEF BaseInv, FetchOK
<1>13. CallInv'
  BY <1>3, <1>10, <1>11, <1>12, StepCallInv
<1> QED
  BY <1>7, <1>13 DEF BaseInv

\* A run without a debug server to ask ends at once.
LEMMA GetRunsBase ==
  ASSUME BaseInv, NEW c \in Calls, GetRuns(c) PROVE BaseInv'
<1>1. CASE CanFetch(c)
  BY <1>1, FetchingBase DEF GetRuns
<1>2. CASE ~CanFetch(c)
  <2>1. /\ call \in [Calls -> CallType] /\ world \in Worlds
        /\ cache' = RunStaticChecks(world) \cup Skipped /\ cacheAge' = 0
        /\ call' = [call EXCEPT ![c] = Answered(c, cache')]
        /\ UNCHANGED <<world, held, changes, lock>>
    BY <1>2 DEF GetRuns, BaseInv, HealthTypeOK, CallType
  <2>2. cache' \in Reports
    BY <2>1, Finds
  <2>3. call'[c] = Answered(c, cache') /\ \A d \in Calls \ {c} : call'[d] = call[d]
    BY <2>1
  <2>4. /\ CallOK(c)' /\ FetchOK(c)' /\ call'[c] \in CallType
        /\ \A p \in Calls : Child(p) = c /\ call[p].pc = "fetch" =>
                              call'[c].kind = "debug" /\ call'[c].pc = "answered"
    BY <2>2, <2>3, AnsweredOK
  <2>5. call' \in [Calls -> CallType] /\ cacheAge' \in 0..TTL
    BY <2>1, <2>4, Times
  <2>6. HealthTypeOK'
    BY <2>1, <2>2, <2>5 DEF BaseInv, HealthTypeOK, CallType
  <2>7. CallInv'
    BY <2>1, <2>3, <2>4, StepCallInv
  <2> QED
    BY <2>6, <2>7 DEF BaseInv
<1> QED
  BY <1>1, <1>2

LEMMA CliRunsBase ==
  ASSUME BaseInv, NEW c \in Calls, CliRuns(c) PROVE BaseInv'
<1>1. CASE CanFetch(c)
  BY <1>1, FetchingBase DEF CliRuns
<1>2. CASE ~CanFetch(c)
  <2> DEFINE report == RunStaticChecks(world) \cup Skipped
  <2>1. /\ call \in [Calls -> CallType] /\ world \in Worlds
        /\ call' = [call EXCEPT ![c] = Answered(c, report)]
        /\ UNCHANGED <<world, held, changes, lock, cache, cacheAge>>
    BY <1>2 DEF CliRuns, BaseInv, HealthTypeOK, CallType
  <2>2. report \in Reports
    BY <2>1, Finds
  <2>3. call'[c] = Answered(c, report) /\ \A d \in Calls \ {c} : call'[d] = call[d]
    BY <2>1
  <2> HIDE DEF report
  <2>4. /\ CallOK(c)' /\ FetchOK(c)' /\ call'[c] \in CallType
        /\ \A p \in Calls : Child(p) = c /\ call[p].pc = "fetch" =>
                              call'[c].kind = "debug" /\ call'[c].pc = "answered"
    BY <2>2, <2>3, AnsweredOK
  <2>5. call' \in [Calls -> CallType]
    BY <2>1, <2>4
  <2>6. HealthTypeOK'
    BY <2>1, <2>5 DEF BaseInv, HealthTypeOK, CallType
  <2>7. CallInv'
    BY <2>1, <2>3, <2>4, StepCallInv
  <2> QED
    BY <2>6, <2>7 DEF BaseInv
<1> QED
  BY <1>1, <1>2

\* The step ends a fetch.
LEMMA FinishType ==
  ASSUME BaseInv, NEW c \in Calls, NEW runtime \in Reports, call[c].pc = "fetch",
         Finish(c, runtime)
  PROVE  /\ lock' \in Calls \cup {None} /\ cache' \in Reports /\ cacheAge' \in 0..TTL
         /\ lock' = lock \/ lock \in {None, c}
         /\ call[c].found \cup runtime \in Reports
<1>1. call[c].found \in Reports /\ cache \in Reports /\ cacheAge \in 0..TTL /\ lock \in Calls \cup {None}
  BY DEF BaseInv, HealthTypeOK
<1>2. call[c].found \cup runtime \in Reports
  BY <1>1, Finds DEF Reports
<1>3. call[c].kind = "health" => lock = c
  BY CallInvIs DEF BaseInv, FetchOK
<1>4. 0 \in 0..TTL
  BY Times
<1> QED
  BY <1>1, <1>2, <1>3, <1>4 DEF Finish

LEMMA FetchAnsweredBase ==
  ASSUME BaseInv, NEW c \in Calls, FetchAnswered(c) PROVE BaseInv'
<1> DEFINE report == call[c].found \cup call[Child(c)].found
<1>1. FetchOK(c) /\ call \in [Calls -> CallType] /\ call[c].pc = "fetch" /\ Finish(c, call[Child(c)].found)
  BY CallInvIs DEF BaseInv, HealthTypeOK, CallType, FetchAnswered
<1>2. Child(c) \in Calls /\ Child(c) # c
  BY <1>1, Family DEF FetchOK
<1>3. call[Child(c)].found \in Reports
  BY <1>1, <1>2 DEF CallType
<1>4. /\ lock' \in Calls \cup {None} /\ cache' \in Reports /\ cacheAge' \in 0..TTL
      /\ lock' = lock \/ lock \in {None, c}
      /\ report \in Reports
  BY <1>1, <1>3, FinishType
<1>5. /\ call'[c] = Answered(c, report) /\ call'[Child(c)] = Idle
      /\ \A d \in Calls \ {c, Child(c)} : call'[d] = call[d]
      /\ call' = [d \in Calls |-> call'[d]]
      /\ UNCHANGED <<world, held, changes>>
  BY <1>1, <1>2 DEF FetchAnswered
<1> HIDE DEF report
<1>6. /\ CallOK(c)' /\ FetchOK(c)' /\ call'[c] \in CallType
      /\ \A p \in Calls : Child(p) = c /\ call[p].pc = "fetch" =>
                            call'[c].kind = "debug" /\ call'[c].pc = "answered"
  BY <1>4, <1>5, AnsweredOK
<1>7. Idle \in CallType /\ Idle.pc = "idle" /\ Idle.kind = "none"
  BY Times DEF Idle, CallType, Reports
<1>8. call' \in [Calls -> CallType]
  BY <1>1, <1>5, <1>6, <1>7
<1>9. HealthTypeOK'
  BY <1>4, <1>5, <1>8 DEF BaseInv, HealthTypeOK, CallType
<1>10. CallOK(Child(c))' /\ call'[Child(c)].pc # "fetch"
  BY <1>5, <1>7 DEF CallOK
<1>11. CallInv'
  BY <1>4, <1>5, <1>6, <1>10, StepCallInv
<1> QED
  BY <1>9, <1>11 DEF BaseInv

LEMMA FetchTimesOutBase ==
  ASSUME BaseInv, NEW c \in Calls, FetchTimesOut(c) PROVE BaseInv'
<1> DEFINE report == call[c].found \cup Skipped
<1>1. FetchOK(c) /\ call \in [Calls -> CallType] /\ call[c].pc = "fetch" /\ Finish(c, Skipped)
  BY CallInvIs DEF BaseInv, HealthTypeOK, CallType, FetchTimesOut
<1>2. Child(c) \in Calls /\ Child(c) # c
  BY <1>1, Family DEF FetchOK
<1>3. Skipped \in Reports
  BY DEF Reports
<1>4. /\ lock' \in Calls \cup {None} /\ cache' \in Reports /\ cacheAge' \in 0..TTL
      /\ lock' = lock \/ lock \in {None, c}
      /\ report \in Reports
  BY <1>1, <1>3, FinishType
<1>5. /\ call'[c] = Answered(c, report)
      /\ call'[Child(c)] = IF call[Child(c)].pc = "answered" THEN Idle ELSE call[Child(c)]
      /\ \A d \in Calls \ {c, Child(c)} : call'[d] = call[d]
      /\ call' = [d \in Calls |-> call'[d]]
      /\ UNCHANGED <<world, held, changes>>
  BY <1>1, <1>2 DEF FetchTimesOut
<1> HIDE DEF report
<1>6. /\ CallOK(c)' /\ FetchOK(c)' /\ call'[c] \in CallType
      /\ \A p \in Calls : Child(p) = c /\ call[p].pc = "fetch" =>
                            call'[c].kind = "debug" /\ call'[c].pc = "answered"
  BY <1>4, <1>5, AnsweredOK
<1>7. Idle \in CallType /\ Idle.pc = "idle" /\ Idle.kind = "none"
  BY Times DEF Idle, CallType, Reports
<1>8. call' \in [Calls -> CallType]
  BY <1>1, <1>5, <1>6, <1>7
<1>9. HealthTypeOK'
  BY <1>4, <1>5, <1>8 DEF BaseInv, HealthTypeOK, CallType
<1>10. call'[Child(c)] # call[Child(c)] => CallOK(Child(c))' /\ call'[Child(c)].pc # "fetch"
  BY <1>5, <1>7 DEF CallOK
<1>11. CallInv'
  BY <1>4, <1>5, <1>6, <1>10, StepCallInv
<1> QED
  BY <1>9, <1>11 DEF BaseInv

LEMMA DebugAsksBase ==
  ASSUME BaseInv, NEW c \in Calls, DebugAsks(c) PROVE BaseInv'
<1>1. CallOK(c) /\ call \in [Calls -> CallType] /\ call[c].pc = "check"
  BY CallInvIs DEF BaseInv, HealthTypeOK, CallType, DebugAsks
<1>2. Child(c) \in Calls /\ Child(c) # c
  BY Family DEF DebugAsks
<1>3. /\ call'[c] = [call[c] EXCEPT !.pc = "inner"] /\ call'[Child(c)] = Called("health")
      /\ \A d \in Calls \ {c, Child(c)} : call'[d] = call[d]
      /\ call' = [d \in Calls |-> call'[d]]
      /\ UNCHANGED <<world, held, changes, lock, cache, cacheAge>>
  BY <1>1, <1>2 DEF DebugAsks
<1>4. call'[c] \in CallType /\ call'[c].pc = "inner" /\ call'[c].kind = "debug"
  BY <1>1, <1>3 DEF CallType, CallOK
<1>5. call' \in [Calls -> CallType]
  BY <1>1, <1>3, <1>4, CalledType
<1>6. HealthTypeOK'
  BY <1>3, <1>5 DEF BaseInv, HealthTypeOK, CallType
<1>7. CallOK(c)' /\ FetchOK(c)'
  BY <1>4 DEF CallOK, FetchOK
<1>8. CallOK(Child(c))' /\ call'[Child(c)].pc # "fetch"
  BY <1>3, CalledType DEF CallOK
<1>9. CallInv'
  BY <1>3, <1>4, <1>7, <1>8, StepCallInv
<1> QED
  BY <1>6, <1>9 DEF BaseInv

LEMMA DebugAnswersBase ==
  ASSUME BaseInv, NEW c \in Calls, DebugAnswers(c) PROVE BaseInv'
<1> DEFINE report == RuntimeChecks(world)
<1>1. call \in [Calls -> CallType] /\ world \in Worlds
  BY DEF BaseInv, HealthTypeOK, CallType
<1>2. report \in Reports
  BY <1>1, Finds
<1>3. /\ call'[c] = Answered(c, report)
      /\ Child(c) \in Calls => call'[Child(c)] = Idle
      /\ \A d \in Calls \ {c, Child(c)} : call'[d] = call[d]
      /\ call' = [d \in Calls |-> call'[d]]
      /\ UNCHANGED <<world, held, changes, lock, cache, cacheAge>>
  BY <1>1, Family DEF DebugAnswers
<1> HIDE DEF report
<1>6. /\ CallOK(c)' /\ FetchOK(c)' /\ call'[c] \in CallType
      /\ \A p \in Calls : Child(p) = c /\ call[p].pc = "fetch" =>
                            call'[c].kind = "debug" /\ call'[c].pc = "answered"
  BY <1>2, <1>3, AnsweredOK
<1>7. Idle \in CallType /\ Idle.pc = "idle" /\ Idle.kind = "none"
  BY Times DEF Idle, CallType, Reports
<1>8. call' \in [Calls -> CallType]
  BY <1>1, <1>3, <1>6, <1>7
<1>9. HealthTypeOK'
  BY <1>3, <1>8 DEF BaseInv, HealthTypeOK, CallType
<1>10. Child(c) \in Calls => CallOK(Child(c))' /\ call'[Child(c)].pc # "fetch"
  BY <1>3, <1>7 DEF CallOK
<1>11. CallInv'
  BY <1>3, <1>6, <1>10, StepCallInv
<1> QED
  BY <1>9, <1>11 DEF BaseInv

LEMMA LeaveBase ==
  ASSUME BaseInv, NEW c \in Calls, Leave(c) PROVE BaseInv'
<1>1. call \in [Calls -> CallType] /\ c[2] = 1
  BY DEF BaseInv, HealthTypeOK, CallType, Leave
<1>2. /\ call'[c] = Idle /\ \A d \in Calls \ {c} : call'[d] = call[d]
      /\ call' = [d \in Calls |-> call'[d]]
      /\ UNCHANGED <<world, held, changes, lock, cache, cacheAge>>
  BY <1>1 DEF Leave
<1>3. Idle \in CallType /\ Idle.pc = "idle" /\ Idle.kind = "none"
  BY Times DEF Idle, CallType, Reports
<1>4. HealthTypeOK'
  BY <1>1, <1>2, <1>3 DEF BaseInv, HealthTypeOK, CallType
<1>5. CallOK(c)' /\ FetchOK(c)'
  BY <1>2, <1>3 DEF CallOK, FetchOK
<1>6. ASSUME NEW p \in Calls PROVE Child(p) # c
  <2>1. p[2] \in Nat /\ 1 <= p[2] /\ Child(p)[2] = p[2] + 1
    BY Family
  <2> QED
    BY <1>1, <2>1
<1>7. CallInv'
  BY <1>2, <1>5, <1>6, StepCallInv
<1> QED
  BY <1>4, <1>7 DEF BaseInv

LEMMA WorldChangesBase ==
  ASSUME BaseInv, WorldChanges PROVE BaseInv'
<1>1. /\ UNCHANGED <<lock, cache, cacheAge, call>> /\ world' \in Worlds /\ held' = 0
      /\ changes' = changes + 1 /\ changes < MaxChanges
  BY DEF WorldChanges
<1>2. held' \in 0..Window + 1 /\ changes' \in 0..MaxChanges
  BY <1>1, Times, HealthAssumption DEF BaseInv, HealthTypeOK
<1>3. HealthTypeOK'
  BY <1>1, <1>2 DEF BaseInv, HealthTypeOK
<1>4. CallInv'
  BY <1>1 DEF BaseInv, CallInv
<1> QED
  BY <1>3, <1>4 DEF BaseInv

\* What a tick does to a call.
Ticked(d) == IF d.pc \in {"fetch", "check"} THEN [d EXCEPT !.timer = @ + 1] ELSE d

LEMMA TickCalls ==
  ASSUME BaseInv, Tick, NEW c \in Calls
  PROVE  /\ call'[c].kind = call[c].kind /\ call'[c].pc = call[c].pc /\ call'[c].found = call[c].found
         /\ call'[c].timer = IF call[c].pc \in {"fetch", "check"} THEN call[c].timer + 1 ELSE call[c].timer
         /\ call'[c] \in CallType
<1>1. call[c] \in CallType /\ call'[c] = Ticked(call[c])
  BY DEF BaseInv, HealthTypeOK, CallType, Tick, Ticked
<1>2. call[c].pc \in {"fetch", "check"} => call[c].timer < Timeout
  BY DEF Tick
<1> QED
  BY <1>1, <1>2, Times DEF CallType, Ticked

LEMMA TickBase ==
  ASSUME BaseInv, Tick PROVE BaseInv'
<1>1. /\ UNCHANGED <<world, changes, lock, cache>>
      /\ held' = IF held > Window THEN held ELSE held + 1
      /\ cacheAge' = IF cacheAge = TTL THEN TTL ELSE cacheAge + 1
      /\ call' = [c \in Calls |-> call'[c]]
  BY DEF Tick
<1>2. held' \in 0..Window + 1 /\ cacheAge' \in 0..TTL
  BY <1>1, Times DEF BaseInv, HealthTypeOK
<1>3. call' \in [Calls -> CallType]
  BY <1>1, TickCalls
<1>4. HealthTypeOK'
  BY <1>1, <1>2, <1>3 DEF BaseInv, HealthTypeOK, CallType
<1>5. ASSUME NEW c \in Calls PROVE CallOK(c)' /\ FetchOK(c)'
  <2>1. CallOK(c) /\ FetchOK(c)
    BY CallInvIs DEF BaseInv
  <2>2. CallOK(c)'
    BY <2>1, TickCalls DEF CallOK
  <2>3. CASE call[c].pc = "fetch"
    <3>1. Child(c) \in Calls
      BY <2>1, <2>3, Family DEF FetchOK
    <3>2. /\ call'[c].kind = call[c].kind /\ call'[c].pc = call[c].pc /\ call'[c].found = call[c].found
          /\ call'[c].timer = call[c].timer + 1 /\ lock' = lock
      BY <1>1, <2>3, TickCalls
    <3>3. LET d == Child(c)
          IN  /\ call'[d].kind = call[d].kind /\ call'[d].pc = call[d].pc
              /\ call[d].pc = "check" => call'[d].timer = call[d].timer + 1
      BY <3>1, TickCalls
    <3> QED
      BY <2>1, <2>2, <2>3, <3>2, <3>3 DEF FetchOK
  <2>4. CASE call[c].pc # "fetch"
    <3>1. call'[c].pc = call[c].pc
      BY TickCalls
    <3> QED
      BY <2>2, <2>4, <3>1 DEF FetchOK
  <2> QED
    BY <2>2, <2>3, <2>4
<1>6. CallInv'
  BY <1>5 DEF CallInv, CallOK, FetchOK
<1> QED
  BY <1>4, <1>6 DEF BaseInv

LEMMA StepBase == BaseInv /\ [HealthNext]_healthVars => BaseInv'
<1> SUFFICES ASSUME BaseInv, [HealthNext]_healthVars PROVE BaseInv'
  OBVIOUS
<1>1. ASSUME NEW s \in Slots, Request(s) PROVE BaseInv'
  BY <1>1, RequestBase
<1>2. ASSUME NEW c \in Calls, Step(c) PROVE BaseInv'
  BY <1>2, GetCachedBase, GetRunsBase, CliRunsBase, FetchAnsweredBase, FetchTimesOutBase,
     DebugAsksBase, DebugAnswersBase, LeaveBase DEF Step
<1>3. CASE UNCHANGED healthVars
  BY <1>3 DEF healthVars, BaseInv, HealthTypeOK, CallInv
<1> QED
  BY <1>1, <1>2, <1>3, WorldChangesBase, TickBase DEF HealthNext

\* Types of the health machine: for every set of worlds, checks and requests.
THEOREM HealthTypeCorrect == HealthSpec => []HealthTypeOK
<1>1. BaseInv => HealthTypeOK
  BY DEF BaseInv
<1> QED
  BY <1>1, InitBase, StepBase, PTL DEF HealthSpec, HealthSafeSpec

-----------------------------------------------------------------------------
(* What is found *)

\* A run that found its static checks in this world is right, with or without the others.
LEMMA RunIsRight == /\ Right(RunStaticChecks(world) \cup RuntimeChecks(world))
                    /\ Right(RunStaticChecks(world) \cup Skipped)
<1>1. \A r \in Skipped : r[3] # "fail"
  BY DEF Skipped
<1> DEFINE fixed == RunStaticChecks(world)
           more == RuntimeChecks(world)
<1>2. \A r \in fixed : r \in fixed \cup more /\ r \in fixed \cup Skipped
  OBVIOUS
<1>3. \A r \in fixed \cup Skipped : r[3] = "fail" => r \in fixed \cup more
  BY <1>1
<1> HIDE DEF fixed, more
<1>4. /\ Status(fixed) = "fail" => Status(fixed \cup more) = "fail" /\ Status(fixed \cup Skipped) = "fail"
      /\ Status(fixed \cup more) = "ok" => Status(fixed \cup Skipped) = "ok"
  BY <1>2, <1>3, Zenon DEF Status
<1> QED
  BY <1>4 DEF Right, fixed, more

LEMMA AnsweredFound ==
  ASSUME HealthTypeOK, NEW c \in Calls, NEW report
  PROVE  /\ Answered(c, report).pc \in {"idle", "answered"}
         /\ Answered(c, report).pc = "answered" => Answered(c, report).found = report
  BY DEF Answered, Idle, HealthTypeOK

FoundOK(c) ==
  call[c].pc = "fetch" /\ call[c].timer < held =>
    /\ call[c].found = RunStaticChecks(world)
    /\ call[Child(c)].pc = "answered" => call[Child(c)].found = RuntimeChecks(world)

CacheOK == cache # {} /\ cacheAge < TTL /\ cacheAge + Timeout < held => Right(cache)

\* What VerdictFollowsWorld says of one call in one step.
Verdict(c) ==
  /\ call[c].kind = "health" /\ call[c].pc # "answered" /\ call'[c].pc = "answered"
  /\ held > Window
  => Right(call'[c].found)

LEMMA StepFound ==
  ASSUME BaseInv, FoundInv, NEW c \in Calls, UNCHANGED <<world, held>>,
         \A d \in Calls \ {c} :
            \/ call'[d] = call[d]
            \/ d = Child(c) /\ call'[d].pc \notin {"fetch", "answered"},
         FoundOK(c)', CacheOK', Verdict(c),
         call'[c].pc = "answered" /\ call[c].kind = "debug" => call'[c].found = RuntimeChecks(world)
  PROVE  FoundInv' /\ \A d \in Calls : Verdict(d)
<1>1. ASSUME NEW d \in Calls PROVE FoundOK(d)' /\ Verdict(d)
  <2>1. CASE d = c
    BY <2>1
  <2>2. CASE d # c /\ call'[d] # call[d]
    BY <2>2 DEF FoundOK, Verdict
  <2>3. CASE d # c /\ call'[d] = call[d]
    <3>1. FetchOK(d) /\ FoundOK(d)
      BY CallInvIs DEF BaseInv, FoundInv, FoundOK
    <3>2. Verdict(d)
      BY <2>3 DEF Verdict
    <3>3. CASE call[d].pc # "fetch"
      BY <2>3, <3>2, <3>3 DEF FoundOK
    <3>4. CASE call[d].pc = "fetch"
      <4>1. Child(d) \in Calls /\ Child(d) # Child(c) /\ call[Child(d)].kind = "debug"
        BY <2>3, <3>1, <3>4, Family DEF FetchOK
      <4>2. CASE Child(d) = c
        BY <2>3, <3>1, <3>2, <3>4, <4>1, <4>2 DEF FoundOK
      <4>3. CASE Child(d) # c
        <5>1. call'[Child(d)] = call[Child(d)]
          BY <4>1, <4>3
        <5> QED
          BY <2>3, <3>1, <3>2, <3>4, <5>1 DEF FoundOK
      <4> QED
        BY <4>2, <4>3
    <3> QED
      BY <3>3, <3>4
  <2> QED
    BY <2>1, <2>2, <2>3
<1> QED
  BY <1>1 DEF FoundInv, FoundOK, CacheOK

LEMMA RequestFound ==
  ASSUME BaseInv, FoundInv, NEW s \in Slots, Request(s)
  PROVE  FoundInv' /\ \A d \in Calls : Verdict(d)
<1> DEFINE d == <<s, 1>>
<1>1. PICK kind \in KindsOf[s] : call' = [call EXCEPT ![d] = Called(kind)]
  BY DEF Request
<1>2. /\ d \in Calls /\ kind \in {"health", "cli", "debug"} /\ call \in [Calls -> CallType]
      /\ UNCHANGED <<world, held, cache, cacheAge>> 
  BY <1>1, HealthAssumption, Times, Family DEF Request, BaseInv, HealthTypeOK, CallType
<1>3. (\A e \in Calls \ {d} : call'[e] = call[e]) /\ call'[d] = Called(kind)
  BY <1>1, <1>2
<1>4. call'[d].pc \notin {"fetch", "answered"}
  BY <1>2, <1>3, CalledType
<1>5. FoundOK(d)' /\ Verdict(d)
  BY <1>4 DEF FoundOK, Verdict
<1>6. CacheOK'
  BY <1>2 DEF FoundInv, CacheOK, Right
<1> QED
  BY <1>2, <1>3, <1>4, <1>5, <1>6, StepFound

LEMMA GetCachedFound ==
  ASSUME BaseInv, FoundInv, NEW c \in Calls, GetCached(c)
  PROVE  FoundInv' /\ \A d \in Calls : Verdict(d)
<1>1. /\ call \in [Calls -> CallType] /\ cache \in Reports /\ held \in Nat /\ cacheAge \in Nat
      /\ UNCHANGED <<world, held, cache, cacheAge>> /\ call[c].kind = "health"
      /\ cache # {} /\ cacheAge < TTL
  BY DEF GetCached, BaseInv, HealthTypeOK, CallType
<1>2. call'[c] = Answered(c, cache) /\ \A d \in Calls \ {c} : call'[d] = call[d]
  BY <1>1 DEF GetCached
<1>3. call'[c].pc # "fetch" /\ (call'[c].pc = "answered" => call'[c].found = cache)
  BY <1>1, <1>2, AnsweredFound DEF BaseInv
<1>4. held > Window => Right(cache)
  BY <1>1, Times DEF FoundInv
<1>5. FoundOK(c)' /\ Verdict(c) /\ CacheOK'
  BY <1>1, <1>3, <1>4 DEF FoundOK, Verdict, FoundInv, CacheOK, Right
<1> QED
  BY <1>1, <1>2, <1>5, StepFound

LEMMA FetchingFound ==
  ASSUME BaseInv, FoundInv, NEW c \in Calls, call[c].kind \in {"health", "cli"},
         CanFetch(c), call' = Fetching(c), UNCHANGED <<world, held, cache, cacheAge>>
  PROVE  FoundInv' /\ \A d \in Calls : Verdict(d)
<1>1. call \in [Calls -> CallType] /\ Child(c) \in Calls /\ Child(c) # c
  BY Family DEF BaseInv, HealthTypeOK, CallType, CanFetch
<1>2. /\ call'[c] = [call[c] EXCEPT !.pc = "fetch", !.found = RunStaticChecks(world)]
      /\ call'[Child(c)] = Called("debug")
      /\ \A d \in Calls \ {c, Child(c)} : call'[d] = call[d]
  BY <1>1 DEF Fetching
<1>3. call'[Child(c)].pc = "check"
  BY <1>2, CalledType
<1>4. call'[c].pc = "fetch" /\ call'[c].found = RunStaticChecks(world)
  BY <1>1, <1>2 DEF CallType
<1>5. FoundOK(c)' /\ Verdict(c) /\ CacheOK'
  BY <1>3, <1>4 DEF FoundOK, Verdict, FoundInv, CacheOK, Right
<1> QED
  BY <1>2, <1>3, <1>4, <1>5, StepFound

LEMMA GetRunsFound ==
  ASSUME BaseInv, FoundInv, NEW c \in Calls, GetRuns(c)
  PROVE  FoundInv' /\ \A d \in Calls : Verdict(d)
<1>1. CASE CanFetch(c)
  BY <1>1, FetchingFound DEF GetRuns
<1>2. CASE ~CanFetch(c)
  <2>1. /\ call \in [Calls -> CallType] /\ world \in Worlds /\ call[c].kind = "health"
        /\ cache' = RunStaticChecks(world) \cup Skipped
        /\ call' = [call EXCEPT ![c] = Answered(c, cache')]
        /\ UNCHANGED <<world, held>>
    BY <1>2 DEF GetRuns, BaseInv, HealthTypeOK, CallType
  <2>2. cache' \in Reports
    BY <2>1, Finds
  <2>3. call'[c] = Answered(c, cache') /\ \A d \in Calls \ {c} : call'[d] = call[d]
    BY <2>1
  <2>4. call'[c].pc # "fetch" /\ (call'[c].pc = "answered" => call'[c].found = cache')
    BY <2>2, <2>3, AnsweredFound DEF BaseInv
  <2>5. FoundOK(c)' /\ Verdict(c) /\ CacheOK'
    BY <2>1, <2>4, RunIsRight DEF FoundOK, Verdict, CacheOK, Right
  <2> QED
    BY <2>1, <2>3, <2>5, StepFound
<1> QED
  BY <1>1, <1>2

LEMMA CliRunsFound ==
  ASSUME BaseInv, FoundInv, NEW c \in Calls, CliRuns(c)
  PROVE  FoundInv' /\ \A d \in Calls : Verdict(d)
<1>1. CASE CanFetch(c)
  BY <1>1, FetchingFound DEF CliRuns
<1>2. CASE ~CanFetch(c)
  <2> DEFINE report == RunStaticChecks(world) \cup Skipped
  <2>1. /\ call \in [Calls -> CallType] /\ world \in Worlds /\ call[c].kind = "cli"
        /\ call' = [call EXCEPT ![c] = Answered(c, report)]
        /\ UNCHANGED <<world, held, cache, cacheAge>>
    BY <1>2 DEF CliRuns, BaseInv, HealthTypeOK, CallType
  <2>2. report \in Reports
    BY <2>1, Finds
  <2>3. call'[c] = Answered(c, report) /\ \A d \in Calls \ {c} : call'[d] = call[d]
    BY <2>1
  <2> HIDE DEF report
  <2>4. call'[c].pc # "fetch"
    BY <2>2, <2>3, AnsweredFound DEF BaseInv
  <2>5. FoundOK(c)' /\ Verdict(c) /\ CacheOK'
    BY <2>1, <2>4 DEF FoundOK, Verdict, FoundInv, CacheOK, Right
  <2> QED
    BY <2>1, <2>3, <2>5, StepFound
<1> QED
  BY <1>1, <1>2

\* A fetch that ends, with an answer or without one: what it found is right.
LEMMA FinishFound ==
  ASSUME BaseInv, FoundInv, NEW c \in Calls, call[c].pc = "fetch", UNCHANGED <<world, held>>,
         NEW runtime \in Reports, Finish(c, runtime),
         \/ call[Child(c)].pc = "answered" /\ runtime = call[Child(c)].found
         \/ runtime = Skipped,
         call'[c] = Answered(c, call[c].found \cup runtime),
         \A d \in Calls \ {c} : \/ call'[d] = call[d]
                                \/ d = Child(c) /\ call'[d].pc \notin {"fetch", "answered"}
  PROVE  FoundInv' /\ \A d \in Calls : Verdict(d)
<1>1. /\ call[c].timer \in 0..Timeout /\ held \in Nat /\ call[c].found \cup runtime \in Reports
      /\ FetchOK(c)
  BY CallInvIs, FinishType DEF BaseInv, HealthTypeOK
<1>2. held > Timeout => Right(call[c].found \cup runtime)
  <2> SUFFICES ASSUME held > Timeout PROVE Right(call[c].found \cup runtime)
    OBVIOUS
  <2>1. call[c].timer < held
    BY <1>1, Times
  <2>2. /\ call[c].found = RunStaticChecks(world)
        /\ runtime = Skipped \/ runtime = RuntimeChecks(world)
    BY <2>1 DEF FoundInv
  <2> QED
    BY <2>2, RunIsRight
<1>3. /\ call'[c].pc # "fetch" /\ call[c].kind # "debug"
      /\ call'[c].pc = "answered" => call'[c].found = call[c].found \cup runtime
  BY <1>1, AnsweredFound DEF BaseInv, FetchOK
<1>4. Verdict(c) /\ FoundOK(c)'
  <2>1. held > Window => held > Timeout
    BY <1>1, Times
  <2> QED
    BY <1>2, <1>3, <2>1 DEF Verdict, FoundOK
<1>5. CacheOK'
  <2>1. CASE call[c].kind = "health"
    <3>1. cache' = call[c].found \cup runtime /\ cacheAge' = 0
      BY <2>1 DEF Finish
    <3>2. (0 + Timeout < held) = (held > Timeout)
      BY <1>1, Times
    <3> QED
      BY <1>2, <3>1, <3>2 DEF CacheOK, Right
  <2>2. CASE call[c].kind # "health"
    BY <2>2 DEF Finish, FoundInv, CacheOK, Right
  <2> QED
    BY <2>1, <2>2
<1> QED
  BY <1>3, <1>4, <1>5, StepFound

LEMMA FetchAnsweredFound ==
  ASSUME BaseInv, FoundInv, NEW c \in Calls, FetchAnswered(c)
  PROVE  FoundInv' /\ \A d \in Calls : Verdict(d)
<1>1. FetchOK(c) /\ call \in [Calls -> CallType] /\ call[c].pc = "fetch"
  BY CallInvIs DEF BaseInv, HealthTypeOK, CallType, FetchAnswered
<1>2. Child(c) \in Calls /\ Child(c) # c
  BY <1>1, Family DEF FetchOK
<1>3. call[Child(c)].found \in Reports /\ call[Child(c)].pc = "answered"
  BY <1>1, <1>2 DEF CallType, FetchAnswered
<1>4. /\ call'[c] = Answered(c, call[c].found \cup call[Child(c)].found)
      /\ call'[Child(c)] = Idle
      /\ \A d \in Calls \ {c, Child(c)} : call'[d] = call[d]
      /\ UNCHANGED <<world, held>> /\ Finish(c, call[Child(c)].found)
  BY <1>1, <1>2 DEF FetchAnswered
<1>5. Idle.pc = "idle"
  BY DEF Idle
<1> QED
  BY <1>1, <1>3, <1>4, <1>5, FinishFound

LEMMA FetchTimesOutFound ==
  ASSUME BaseInv, FoundInv, NEW c \in Calls, FetchTimesOut(c)
  PROVE  FoundInv' /\ \A d \in Calls : Verdict(d)
<1>1. FetchOK(c) /\ call \in [Calls -> CallType] /\ call[c].pc = "fetch"
  BY CallInvIs DEF BaseInv, HealthTypeOK, CallType, FetchTimesOut
<1>2. Child(c) \in Calls /\ Child(c) # c /\ Skipped \in Reports
  BY <1>1, Family DEF FetchOK, Reports
<1>3. /\ call'[c] = Answered(c, call[c].found \cup Skipped)
      /\ call'[Child(c)] = IF call[Child(c)].pc = "answered" THEN Idle ELSE call[Child(c)]
      /\ \A d \in Calls \ {c, Child(c)} : call'[d] = call[d]
      /\ UNCHANGED <<world, held>> /\ Finish(c, Skipped)
  BY <1>1, <1>2 DEF FetchTimesOut
<1>4. Idle.pc = "idle"
  BY DEF Idle
<1> QED
  BY <1>1, <1>2, <1>3, <1>4, FinishFound

LEMMA DebugAsksFound ==
  ASSUME BaseInv, FoundInv, NEW c \in Calls, DebugAsks(c)
  PROVE  FoundInv' /\ \A d \in Calls : Verdict(d)
<1>1. call \in [Calls -> CallType] /\ Child(c) \in Calls /\ Child(c) # c
  BY Family DEF BaseInv, HealthTypeOK, CallType, DebugAsks
<1>2. /\ call'[c] = [call[c] EXCEPT !.pc = "inner"] /\ call'[Child(c)] = Called("health")
      /\ \A d \in Calls \ {c, Child(c)} : call'[d] = call[d]
      /\ UNCHANGED <<world, held, cache, cacheAge>>
  BY <1>1 DEF DebugAsks
<1>3. call'[c].pc = "inner" /\ call'[Child(c)].pc = "wait"
  BY <1>1, <1>2, CalledType DEF CallType
<1>4. FoundOK(c)' /\ Verdict(c) /\ CacheOK'
  BY <1>2, <1>3 DEF FoundOK, Verdict, FoundInv, CacheOK, Right
<1> QED
  BY <1>2, <1>3, <1>4, StepFound

LEMMA DebugAnswersFound ==
  ASSUME BaseInv, FoundInv, NEW c \in Calls, DebugAnswers(c)
  PROVE  FoundInv' /\ \A d \in Calls : Verdict(d)
<1>1. CallOK(c) /\ call \in [Calls -> CallType] /\ world \in Worlds /\ RuntimeChecks(world) \in Reports
  BY CallInvIs, Finds DEF BaseInv, HealthTypeOK, CallType
<1>2. /\ call'[c] = Answered(c, RuntimeChecks(world))
      /\ Child(c) \in Calls => call'[Child(c)] = Idle
      /\ \A d \in Calls \ {c, Child(c)} : call'[d] = call[d]
      /\ UNCHANGED <<world, held, cache, cacheAge>>
  BY <1>1, Family DEF DebugAnswers
<1>3. call[c].kind = "debug" /\ Idle.pc = "idle"
  BY <1>1 DEF DebugAnswers, CallOK, Idle
<1>4. call'[c].pc # "fetch" /\ (call'[c].pc = "answered" => call'[c].found = RuntimeChecks(world))
  BY <1>1, <1>2, AnsweredFound DEF BaseInv
<1>5. FoundOK(c)' /\ Verdict(c) /\ CacheOK'
  BY <1>2, <1>3, <1>4 DEF FoundOK, Verdict, FoundInv, CacheOK, Right
<1> QED
  BY <1>2, <1>3, <1>4, <1>5, StepFound

LEMMA LeaveFound ==
  ASSUME BaseInv, FoundInv, NEW c \in Calls, Leave(c)
  PROVE  FoundInv' /\ \A d \in Calls : Verdict(d)
<1>1. call \in [Calls -> CallType] /\ Idle.pc = "idle"
  BY DEF BaseInv, HealthTypeOK, CallType, Idle
<1>2. /\ call'[c] = Idle /\ \A d \in Calls \ {c} : call'[d] = call[d]
      /\ UNCHANGED <<world, held, cache, cacheAge>>
  BY <1>1 DEF Leave
<1>3. FoundOK(c)' /\ Verdict(c) /\ CacheOK'
  BY <1>1, <1>2 DEF FoundOK, Verdict, FoundInv, CacheOK, Right
<1> QED
  BY <1>1, <1>2, <1>3, StepFound

\* A world that has just changed has not been so for any time.
LEMMA WorldChangesFound ==
  ASSUME BaseInv, FoundInv, WorldChanges
  PROVE  FoundInv' /\ \A d \in Calls : Verdict(d)
<1>1. /\ UNCHANGED <<cache, cacheAge, call>> /\ held' = 0 /\ cacheAge \in Nat
      /\ \A c \in Calls : call[c].timer \in Nat
  BY DEF WorldChanges, BaseInv, HealthTypeOK
<1>2. \A c \in Calls : FoundOK(c)' /\ Verdict(c)
  BY <1>1 DEF FoundOK, Verdict
<1>3. CacheOK'
  BY <1>1, Times DEF CacheOK
<1> QED
  BY <1>2, <1>3 DEF FoundInv, FoundOK, CacheOK

LEMMA TickFound ==
  ASSUME BaseInv, FoundInv, Tick
  PROVE  FoundInv' /\ \A d \in Calls : Verdict(d)
<1>1. /\ UNCHANGED <<world, cache>> /\ held \in Nat /\ cacheAge \in 0..TTL
      /\ held' = held \/ held' = held + 1
      /\ cacheAge' = IF cacheAge = TTL THEN TTL ELSE cacheAge + 1
      /\ \A c \in Calls : call[c].timer \in Nat
  BY DEF Tick, BaseInv, HealthTypeOK
<1>2. ASSUME NEW c \in Calls PROVE FoundOK(c)' /\ Verdict(c)
  <2>1. FetchOK(c) /\ FoundOK(c)
    BY CallInvIs DEF BaseInv, FoundInv, FoundOK
  <2>2. Verdict(c)
    BY TickCalls DEF Verdict
  <2>3. CASE call[c].pc = "fetch"
    <3>1. Child(c) \in Calls
      BY <2>1, <2>3, Family DEF FetchOK
    <3>2. /\ call'[c].pc = call[c].pc /\ call'[c].found = call[c].found
          /\ call'[c].timer = call[c].timer + 1
      BY <2>3, TickCalls
    <3>3. call'[Child(c)].pc = call[Child(c)].pc /\ call'[Child(c)].found = call[Child(c)].found
      BY <3>1, TickCalls
    <3>4. call[c].timer + 1 < held' => call[c].timer < held
      BY <1>1
    <3> QED
      BY <1>1, <2>1, <2>2, <2>3, <3>2, <3>3, <3>4 DEF FoundOK
  <2>4. CASE call[c].pc # "fetch"
    <3>1. call'[c].pc = call[c].pc
      BY TickCalls
    <3> QED
      BY <2>2, <2>4, <3>1 DEF FoundOK
  <2> QED
    BY <2>3, <2>4
<1>3. cacheAge' < TTL /\ cacheAge' + Timeout < held' => cacheAge < TTL /\ cacheAge + Timeout < held
  BY <1>1, Times
<1>4. CacheOK'
  BY <1>1, <1>3 DEF FoundInv, CacheOK, Right
<1> QED
  BY <1>2, <1>4 DEF FoundInv, FoundOK, CacheOK

LEMMA InitFound == HealthInit => FoundInv
  BY DEF HealthInit, FoundInv, Idle

LEMMA NextFound ==
  BaseInv /\ FoundInv /\ [HealthNext]_healthVars => FoundInv' /\ \A c \in Calls : Verdict(c)
<1> SUFFICES ASSUME BaseInv, FoundInv, [HealthNext]_healthVars
             PROVE  FoundInv' /\ \A c \in Calls : Verdict(c)
  OBVIOUS
<1>1. ASSUME NEW s \in Slots, Request(s) PROVE FoundInv' /\ \A d \in Calls : Verdict(d)
  BY <1>1, RequestFound
<1>2. ASSUME NEW c \in Calls, Step(c) PROVE FoundInv' /\ \A d \in Calls : Verdict(d)
  BY <1>2, GetCachedFound, GetRunsFound, CliRunsFound, FetchAnsweredFound, FetchTimesOutFound,
     DebugAsksFound, DebugAnswersFound, LeaveFound DEF Step
<1>3. CASE UNCHANGED healthVars
  BY <1>3 DEF healthVars, FoundInv, Verdict, Right
<1> QED
  BY <1>1, <1>2, <1>3, WorldChangesFound, TickFound DEF HealthNext

\* Whatever a report is made of was found since the world last changed, once the world
\* has been as it is for as long as a report is kept and made: what a caller of
\* /api/health is answered follows the world within that time.
THEOREM VerdictsFollowTheWorld == HealthSpec => VerdictFollowsWorld
<1>1. BaseInv /\ FoundInv /\ [HealthNext]_healthVars =>
        [\A c \in Calls :
           /\ call[c].kind = "health" /\ call[c].pc # "answered" /\ call'[c].pc = "answered"
           /\ held > Window
           => /\ Status(RunStaticChecks(world)) = "fail" => Status(call'[c].found) = "fail"
              /\ Status(RunStaticChecks(world) \cup RuntimeChecks(world)) = "ok"
                   => Status(call'[c].found) = "ok"]_healthVars
  BY NextFound DEF Verdict, Right
<1> QED
  BY <1>1, InitBase, StepBase, InitFound, NextFound, PTL
     DEF HealthSpec, HealthSafeSpec, VerdictFollowsWorld

-----------------------------------------------------------------------------
(* How deep the calls go *)

\* A call that has not asked anybody yet has nobody below it.
Fresh ==
  \A c, d \in Calls :
    c[1] = d[1] /\ c[2] < d[2] /\ call[c].pc \in {"wait", "check"} => call[d].pc = "idle"

\* The guard of a run that fills the cache.
MayRun == lock = None /\ (cache = {} \/ cacheAge = TTL)

\* What becomes of a call in one step.
Moved(d) ==
  \/ call'[d] = call[d]
  \/ call'[d].pc = "idle"
  \/ call'[d].pc = "answered" /\ call[d].pc # "idle"
  \/ call'[d].pc = "fetch" /\ call[d].pc = "wait" /\ (d[2] = 1 \/ MayRun)
  \/ call'[d].pc = "inner" /\ call[d].pc = "check"
  \/ call'[d].pc = "check" /\ \E p \in Calls : /\ Child(p) = d /\ (p[2] = 1 \/ MayRun)
                                               /\ call[p].pc = "wait" /\ call'[p].pc = "fetch"
  \/ call'[d].pc = "wait" /\ \E p \in Calls : /\ Child(p) = d
                                              /\ call[p].pc = "check" /\ call'[p].pc = "inner"

\* A fetch keeps the lock it has; when it ends, its check has answered or both have
\* timed out, and its report has just been kept.
FetchMoved(d) ==
  call[d].pc = "fetch" =>
    \/ call'[d].pc = "fetch" /\ (lock = d => lock' = d)
    \/ /\ \/ call[Child(d)].pc = "answered" /\ call'[Child(d)].pc = "idle"
          \/ call[d].timer = Timeout
       /\ call[d].kind = "health" => JustKept'

Moves == (\A d \in Calls : Moved(d) /\ FetchMoved(d)) /\ (JustKept => JustKept')

\* The step of one call that asks nobody.
LEMMA EndMoves ==
  ASSUME BaseInv, Fresh, NEW c \in Calls, call[c].pc \notin {"idle", "fetch"},
         call'[c].pc \in {"idle", "answered"},
         \A d \in Calls \ {c} :
            \/ call'[d] = call[d]
            \/ d = Child(c) /\ call[d].pc # "fetch" /\ call'[d].pc = "idle",
         lock' = lock, JustKept => JustKept'
  PROVE  Moves
<1>1. ASSUME NEW d \in Calls PROVE Moved(d) /\ FetchMoved(d)
  <2>1. CASE d = c
    BY <2>1 DEF Moved, FetchMoved
  <2>2. CASE d # c
    BY <2>2 DEF Moved, FetchMoved
  <2> QED
    BY <2>1, <2>2
<1> QED
  BY <1>1 DEF Moves

LEMMA GetCachedMoves ==
  ASSUME BaseInv, Fresh, NEW c \in Calls, GetCached(c) PROVE Moves
<1>1. /\ call \in [Calls -> CallType] /\ cache \in Reports /\ call[c].pc = "wait"
      /\ UNCHANGED <<lock, cache, cacheAge>>
  BY DEF GetCached, BaseInv, HealthTypeOK, CallType
<1>2. call'[c] = Answered(c, cache) /\ \A d \in Calls \ {c} : call'[d] = call[d]
  BY <1>1 DEF GetCached
<1>3. call'[c].pc \in {"idle", "answered"}
  BY <1>1, <1>2, AnsweredFound DEF BaseInv
<1>4. JustKept => JustKept'
  BY <1>1 DEF JustKept
<1> QED
  BY <1>1, <1>2, <1>3, <1>4, EndMoves

LEMMA FetchingMoves ==
  ASSUME BaseInv, Fresh, NEW c \in Calls, call[c].pc = "wait", CanFetch(c), call' = Fetching(c),
         (c[2] = 1 /\ lock' = lock) \/ (MayRun /\ lock' = c),
         UNCHANGED <<cache, cacheAge>>
  PROVE  Moves
<1>1. call \in [Calls -> CallType] /\ Child(c) \in Calls /\ Child(c) # c /\ Child(c)[2] = c[2] + 1
      /\ Child(c)[1] = c[1] /\ c[2] \in Nat
  BY Family DEF BaseInv, HealthTypeOK, CallType, CanFetch
<1>2. /\ call'[c].pc = "fetch" /\ call'[Child(c)] = Called("debug")
      /\ \A d \in Calls \ {c, Child(c)} : call'[d] = call[d]
  BY <1>1 DEF Fetching, CallType
<1>3. call'[Child(c)].pc = "check"
  BY <1>2, CalledType
<1>4. call[Child(c)].pc = "idle"
  BY <1>1 DEF Fresh
<1>5. ASSUME NEW d \in Calls PROVE Moved(d) /\ FetchMoved(d)
  <2>1. CASE d = c
    BY <1>2, <2>1 DEF Moved, FetchMoved
  <2>2. CASE d = Child(c)
    BY <1>2, <1>3, <1>4, <2>2 DEF Moved, FetchMoved
  <2>3. CASE d \notin {c, Child(c)}
    BY <1>2, <2>3, Times DEF Moved, FetchMoved, MayRun
  <2> QED
    BY <2>1, <2>2, <2>3
<1>6. JustKept => JustKept'
  BY Times DEF JustKept, MayRun
<1> QED
  BY <1>5, <1>6 DEF Moves

LEMMA GetRunsMoves ==
  ASSUME BaseInv, Fresh, NEW c \in Calls, GetRuns(c) PROVE Moves
<1>1. CASE CanFetch(c)
  BY <1>1, FetchingMoves DEF GetRuns, MayRun
<1>2. CASE ~CanFetch(c)
  <2>1. /\ call \in [Calls -> CallType] /\ world \in Worlds /\ call[c].pc = "wait"
        /\ cache' = RunStaticChecks(world) \cup Skipped /\ cacheAge' = 0
        /\ call' = [call EXCEPT ![c] = Answered(c, cache')]
        /\ lock = None /\ lock' = lock
    BY <1>2 DEF GetRuns, BaseInv, HealthTypeOK, CallType
  <2>2. cache' \in Reports
    BY <2>1, Finds
  <2>3. call'[c] = Answered(c, cache') /\ \A d \in Calls \ {c} : call'[d] = call[d]
    BY <2>1
  <2>4. call'[c].pc \in {"idle", "answered"}
    BY <2>2, <2>3, AnsweredFound DEF BaseInv
  <2>5. JustKept'
    BY <2>1 DEF JustKept, Skipped
  <2> QED
    BY <2>1, <2>3, <2>4, <2>5, EndMoves
<1> QED
  BY <1>1, <1>2

LEMMA CliRunsMoves ==
  ASSUME BaseInv, Fresh, NEW c \in Calls, CliRuns(c) PROVE Moves
<1>1. CASE CanFetch(c)
  <2>1. c[2] = 1
    BY CallInvIs DEF BaseInv, CallOK, CliRuns
  <2> QED
    BY <1>1, <2>1, FetchingMoves DEF CliRuns
<1>2. CASE ~CanFetch(c)
  <2> DEFINE report == RunStaticChecks(world) \cup Skipped
  <2>1. /\ call \in [Calls -> CallType] /\ world \in Worlds /\ call[c].pc = "wait"
        /\ call' = [call EXCEPT ![c] = Answered(c, report)]
        /\ UNCHANGED <<lock, cache, cacheAge>>
    BY <1>2 DEF CliRuns, BaseInv, HealthTypeOK, CallType
  <2>2. report \in Reports
    BY <2>1, Finds
  <2>3. call'[c] = Answered(c, report) /\ \A d \in Calls \ {c} : call'[d] = call[d]
    BY <2>1
  <2> HIDE DEF report
  <2>4. call'[c].pc \in {"idle", "answered"}
    BY <2>2, <2>3, AnsweredFound DEF BaseInv
  <2>5. JustKept => JustKept'
    BY <2>1 DEF JustKept
  <2> QED
    BY <2>1, <2>3, <2>4, <2>5, EndMoves
<1> QED
  BY <1>1, <1>2

\* A fetch ends.
LEMMA FinishMoves ==
  ASSUME BaseInv, NEW c \in Calls, call[c].pc = "fetch",
         NEW runtime \in Reports, Finish(c, runtime),
         call'[c] = Answered(c, call[c].found \cup runtime),
         \/ call[Child(c)].pc = "answered" /\ call'[Child(c)].pc = "idle"
         \/ call[c].timer = Timeout,
         \A d \in Calls \ {c} :
            \/ call'[d] = call[d]
            \/ d = Child(c) /\ call[d].pc # "fetch" /\ call'[d].pc = "idle"
  PROVE  Moves
<1>1. FetchOK(c) /\ call[c].found \cup runtime \in Reports
  BY CallInvIs, FinishType DEF BaseInv
<1>2. call'[c].pc \in {"idle", "answered"}
  BY AnsweredFound DEF BaseInv
<1>3. call[c].kind = "health" => JustKept'
  BY <1>1 DEF Finish, JustKept, FetchOK
<1>4. call[c].kind # "health" => UNCHANGED <<lock, cache, cacheAge>>
  BY DEF Finish
<1>5. JustKept => JustKept'
  BY <1>3, <1>4 DEF JustKept
<1>6. ASSUME NEW d \in Calls PROVE Moved(d) /\ FetchMoved(d)
  <2>1. CASE d = c
    BY <1>2, <1>3, <2>1 DEF Moved, FetchMoved
  <2>2. CASE d # c
    <3>1. lock = d => lock' = d
      BY <1>1, <1>4, <2>2 DEF FetchOK
    <3> QED
      BY <2>2, <3>1 DEF Moved, FetchMoved
  <2> QED
    BY <2>1, <2>2
<1> QED
  BY <1>5, <1>6 DEF Moves

LEMMA DebugAsksMoves ==
  ASSUME BaseInv, Fresh, NEW c \in Calls, DebugAsks(c) PROVE Moves
<1>1. /\ call \in [Calls -> CallType] /\ Child(c) \in Calls /\ Child(c) # c /\ call[c].pc = "check"
      /\ Child(c)[1] = c[1] /\ Child(c)[2] = c[2] + 1 /\ c[2] \in Nat
  BY Family DEF BaseInv, HealthTypeOK, CallType, DebugAsks
<1>2. /\ call'[c] = [call[c] EXCEPT !.pc = "inner"] /\ call'[Child(c)] = Called("health")
      /\ \A d \in Calls \ {c, Child(c)} : call'[d] = call[d]
      /\ UNCHANGED <<lock, cache, cacheAge>>
  BY <1>1 DEF DebugAsks
<1>3. call'[c].pc = "inner" /\ call'[Child(c)].pc = "wait"
  BY <1>1, <1>2, CalledType DEF CallType
<1>4. call[Child(c)].pc = "idle"
  BY <1>1 DEF Fresh
<1>5. ASSUME NEW d \in Calls PROVE Moved(d) /\ FetchMoved(d)
  <2>1. CASE d = c
    BY <1>1, <1>3, <2>1 DEF Moved, FetchMoved
  <2>2. CASE d = Child(c)
    BY <1>1, <1>3, <1>4, <2>2 DEF Moved, FetchMoved
  <2>3. CASE d \notin {c, Child(c)}
    BY <1>2, <2>3 DEF Moved, FetchMoved
  <2> QED
    BY <2>1, <2>2, <2>3
<1>6. JustKept => JustKept'
  BY <1>2 DEF JustKept
<1> QED
  BY <1>5, <1>6 DEF Moves

LEMMA FetchAnsweredMoves ==
  ASSUME BaseInv, NEW c \in Calls, FetchAnswered(c) PROVE Moves
<1>1. FetchOK(c) /\ call \in [Calls -> CallType] /\ call[c].pc = "fetch"
  BY CallInvIs DEF BaseInv, HealthTypeOK, CallType, FetchAnswered
<1>2. Child(c) \in Calls /\ Child(c) # c
  BY <1>1, Family DEF FetchOK
<1>3. call[Child(c)].found \in Reports /\ call[Child(c)].pc = "answered"
  BY <1>1, <1>2 DEF CallType, FetchAnswered
<1>4. /\ call'[c] = Answered(c, call[c].found \cup call[Child(c)].found)
      /\ call'[Child(c)] = Idle
      /\ \A d \in Calls \ {c, Child(c)} : call'[d] = call[d]
      /\ Finish(c, call[Child(c)].found)
  BY <1>1, <1>2 DEF FetchAnswered
<1>5. Idle.pc = "idle"
  BY DEF Idle
<1> QED
  BY <1>1, <1>3, <1>4, <1>5, FinishMoves

LEMMA FetchTimesOutMoves ==
  ASSUME BaseInv, NEW c \in Calls, FetchTimesOut(c) PROVE Moves
<1>1. FetchOK(c) /\ call \in [Calls -> CallType] /\ call[c].pc = "fetch" /\ call[c].timer = Timeout
  BY CallInvIs DEF BaseInv, HealthTypeOK, CallType, FetchTimesOut
<1>2. Child(c) \in Calls /\ Child(c) # c /\ Skipped \in Reports
  BY <1>1, Family DEF FetchOK, Reports
<1>3. /\ call'[c] = Answered(c, call[c].found \cup Skipped)
      /\ call'[Child(c)] = IF call[Child(c)].pc = "answered" THEN Idle ELSE call[Child(c)]
      /\ \A d \in Calls \ {c, Child(c)} : call'[d] = call[d]
      /\ Finish(c, Skipped)
  BY <1>1, <1>2 DEF FetchTimesOut
<1>4. Idle.pc = "idle"
  BY DEF Idle
<1> QED
  BY <1>1, <1>2, <1>3, <1>4, FinishMoves

LEMMA DebugAnswersMoves ==
  ASSUME BaseInv, Fresh, NEW c \in Calls, DebugAnswers(c) PROVE Moves
<1>1. /\ call \in [Calls -> CallType] /\ RuntimeChecks(world) \in Reports
      /\ call[c].pc \in {"check", "inner"}
  BY Finds DEF BaseInv, HealthTypeOK, CallType, DebugAnswers
<1>2. /\ call'[c] = Answered(c, RuntimeChecks(world))
      /\ Child(c) \in Calls => call'[Child(c)] = Idle
      /\ \A d \in Calls \ {c, Child(c)} : call'[d] = call[d]
      /\ UNCHANGED <<lock, cache, cacheAge>>
  BY <1>1, Family DEF DebugAnswers
<1>3. Child(c) \in Calls => call[Child(c)].pc # "fetch"
  <2>1. CASE call[c].pc = "check"
    <3>0. Child(c)[1] = c[1] /\ Child(c)[2] = c[2] + 1 /\ c[2] \in Nat
      BY Family
    <3>1. Child(c)[1] = c[1] /\ c[2] < Child(c)[2]
      BY <3>0
    <3> QED
      BY <2>1, <3>1 DEF Fresh
  <2>2. CASE call[c].pc = "inner"
    BY <2>2 DEF DebugAnswers
  <2> QED
    BY <1>1, <2>1, <2>2
<1>4. Idle.pc = "idle" /\ call'[c].pc \in {"idle", "answered"}
  BY <1>2, AnsweredFound DEF BaseInv, Idle
<1>5. JustKept => JustKept'
  BY <1>2 DEF JustKept
<1> QED
  BY <1>1, <1>2, <1>3, <1>4, <1>5, EndMoves

LEMMA LeaveMoves ==
  ASSUME BaseInv, Fresh, NEW c \in Calls, Leave(c) PROVE Moves
<1>1. /\ call \in [Calls -> CallType] /\ Idle.pc = "idle" /\ call[c].pc = "answered"
      /\ UNCHANGED <<lock, cache, cacheAge>>
  BY DEF BaseInv, HealthTypeOK, CallType, Idle, Leave
<1>2. call'[c] = Idle /\ \A d \in Calls \ {c} : call'[d] = call[d]
  BY <1>1 DEF Leave
<1>3. JustKept => JustKept'
  BY <1>1 DEF JustKept
<1> QED
  BY <1>1, <1>2, <1>3, EndMoves

LEMMA StepMoves ==
  ASSUME BaseInv, Fresh, NEW c \in Calls, Step(c) PROVE Moves
  BY GetCachedMoves, GetRunsMoves, CliRunsMoves, FetchAnsweredMoves, FetchTimesOutMoves,
     DebugAsksMoves, DebugAnswersMoves, LeaveMoves DEF Step

LEMMA MovesFresh == ASSUME Fresh, Moves PROVE Fresh'
<1> SUFFICES ASSUME NEW c \in Calls, NEW d \in Calls, c[1] = d[1], c[2] < d[2],
                    call'[c].pc \in {"wait", "check"}
             PROVE  call'[d].pc = "idle"
  BY DEF Fresh
<1>1. Moved(c) /\ Moved(d)
  BY DEF Moves
<1>2. \A p \in Calls : Child(p) = d => c[1] = p[1] /\ (p = c \/ c[2] < p[2])
  <2> SUFFICES ASSUME NEW p \in Calls, Child(p) = d PROVE c[1] = p[1] /\ (p = c \/ c[2] < p[2])
    OBVIOUS
  <2>1. d[1] = p[1] /\ d[2] = p[2] + 1 /\ p[2] \in Nat /\ c[2] \in Nat
    BY Family
  <2>2. c[2] < p[2] \/ c[2] = p[2]
    BY <2>1
  <2>3. c = <<c[1], c[2]>> /\ p = <<p[1], p[2]>>
    BY DEF Calls
  <2> QED
    BY <2>1, <2>2, <2>3
\* Whoever is idle and has no parent that asks stays so.
<1>3. ASSUME call[d].pc = "idle",
             \A p \in Calls : Child(p) = d => ~(call[p].pc \in {"wait", "check"} /\ call'[p].pc \in {"fetch", "inner"})
      PROVE  call'[d].pc = "idle"
  BY <1>1, <1>3 DEF Moved
<1>4. CASE call'[c] = call[c]
  <2>1. \A e \in Calls : c[1] = e[1] /\ c[2] < e[2] => call[e].pc = "idle"
    BY <1>4 DEF Fresh
  <2> QED
    BY <1>2, <1>3, <1>4, <2>1
<1>5. CASE \E q \in Calls : Child(q) = c /\ call[q].pc \in {"wait", "check"}
  <2>1. PICK q \in Calls : Child(q) = c /\ call[q].pc \in {"wait", "check"}
    BY <1>5
  <2>2. q[1] = c[1] /\ c[2] = q[2] + 1 /\ q[2] \in Nat /\ c[2] \in Nat /\ d[2] \in Nat
    BY <2>1, Family
  <2>3. \A e \in Calls : c[1] = e[1] /\ (e = c \/ c[2] < e[2]) => call[e].pc = "idle"
    <3> SUFFICES ASSUME NEW e \in Calls, c[1] = e[1], e = c \/ c[2] < e[2] PROVE call[e].pc = "idle"
      OBVIOUS
    <3>1. e[2] \in Nat
      BY Level
    <3>2. q[2] < e[2]
      BY <2>2, <3>1
    <3> QED
      BY <2>1, <2>2, <3>2 DEF Fresh
  <2> QED
    BY <1>2, <1>3, <2>3
<1> QED
  BY <1>1, <1>4, <1>5 DEF Moved

\* A call that deep waits for a run that is being made or has just been made.
LEMMA NoRun ==
  ASSUME BaseInv, DepthInv, NEW c \in Calls, c[2] >= 4, call[c].pc = "wait" PROVE ~MayRun
<1> DEFINE p == <<c[1], c[2] - 1>>
           g == <<c[1], c[2] - 2>>
<1>1. c[2] \in Nat /\ c[2] <= Levels
  BY Family
<1>2. p \in Calls /\ Child(p) = c /\ p[2] = c[2] - 1 /\ p[1] = c[1]
  BY <1>1, Family
<1>3. g = <<p[1], p[2] - 1>> /\ p[2] > 1
  BY <1>1, <1>2
<1>4. g \in Calls /\ Child(g) = p /\ g[2] = c[2] - 2
  BY <1>1, <1>2, <1>3, Family
<1> HIDE DEF p, g
<1>5. g[2] >= 2 /\ g[2] + 2 <= Levels
  BY <1>1, <1>4
<1>6. lock = g \/ JustKept
  BY <1>2, <1>4, <1>5 DEF DepthInv
<1> QED
  BY <1>4, <1>6, Times DEF MayRun, JustKept

DepthOK(c) ==
  /\ c[2] >= 6 => call[c].pc = "idle"
  /\ c[2] >= 4 => call[c].pc # "fetch"
  /\ c[2] >= 5 => call[c].pc \notin {"check", "inner"}

CheckOK(c) ==
  c[2] >= 2 /\ c[2] + 1 <= Levels /\ call[Child(c)].pc = "check" =>
    \/ call[c].pc = "fetch"
    \/ call[Child(c)].timer = Timeout /\ JustKept

WaitOK(c) ==
  c[2] >= 2 /\ c[2] + 2 <= Levels /\ call[Child(Child(c))].pc = "wait" =>
    \/ lock = c /\ call[c].pc = "fetch"
    \/ JustKept

LEMMA DepthInvIs == DepthInv <=> \A c \in Calls : DepthOK(c) /\ CheckOK(c) /\ WaitOK(c)
  BY DEF DepthInv, DepthOK, CheckOK, WaitOK

\* A call below the first that fetches keeps its report.
LEMMA DeepFetch ==
  ASSUME BaseInv, NEW c \in Calls, c[2] >= 2, call[c].pc = "fetch"
  PROVE  call[c].kind = "health" /\ lock = c
  BY CallInvIs, Family DEF BaseInv, CallOK, FetchOK

LEMMA MovesDepthOK ==
  ASSUME BaseInv, DepthInv, Moves, NEW c \in Calls PROVE DepthOK(c)'
<1>1. DepthOK(c) /\ Moved(c)
  BY DepthInvIs DEF Moves
<1>2. c[2] \in Nat /\ c[2] <= Levels
  BY Family
<1>3. \A p \in Calls : Child(p) = c => DepthOK(p) /\ c[2] = p[2] + 1 /\ p[2] \in Nat
  BY Family, DepthInvIs
<1>4. \A d \in Calls : d[2] >= 4 /\ call[d].pc = "wait" => ~MayRun
  BY NoRun
<1>5. CASE call'[c] = call[c] \/ call'[c].pc = "idle"
  BY <1>1, <1>5 DEF DepthOK
<1>6. CASE call'[c].pc = "answered" /\ call[c].pc # "idle"
  BY <1>1, <1>6 DEF DepthOK
<1>7. CASE call'[c].pc = "fetch" /\ call[c].pc = "wait" /\ (c[2] = 1 \/ MayRun)
  <2>1. ~(c[2] >= 4)
    BY <1>2, <1>4, <1>7
  <2> QED
    BY <1>2, <1>7, <2>1 DEF DepthOK
<1>8. CASE call'[c].pc = "inner" /\ call[c].pc = "check"
  BY <1>1, <1>8 DEF DepthOK
<1>9. CASE call'[c].pc = "check" /\ \E p \in Calls : /\ Child(p) = c /\ (p[2] = 1 \/ MayRun)
                                                      /\ call[p].pc = "wait" /\ call'[p].pc = "fetch"
  <2>1. PICK p \in Calls : Child(p) = c /\ (p[2] = 1 \/ MayRun) /\ call[p].pc = "wait"
    BY <1>9
  <2>2. ~(p[2] >= 4)
    BY <1>3, <1>4, <2>1
  <2>3. ~(c[2] >= 5)
    BY <1>2, <1>3, <2>1, <2>2
  <2> QED
    BY <1>2, <1>9, <2>3 DEF DepthOK
<1>10. CASE call'[c].pc = "wait" /\ \E p \in Calls : /\ Child(p) = c
                                                      /\ call[p].pc = "check" /\ call'[p].pc = "inner"
  <2>1. PICK p \in Calls : Child(p) = c /\ call[p].pc = "check"
    BY <1>10
  <2>2. ~(p[2] >= 5)
    BY <1>3, <2>1 DEF DepthOK
  <2>3. ~(c[2] >= 6)
    BY <1>2, <1>3, <2>1, <2>2
  <2> QED
    BY <1>2, <1>10, <2>3 DEF DepthOK
<1> QED
  BY <1>1, <1>5, <1>6, <1>7, <1>8, <1>9, <1>10 DEF Moved

LEMMA MovesCheckOK ==
  ASSUME BaseInv, DepthInv, Moves, NEW c \in Calls PROVE CheckOK(c)'
<1> SUFFICES ASSUME c[2] >= 2, c[2] + 1 <= Levels, call'[Child(c)].pc = "check"
             PROVE  \/ call'[c].pc = "fetch"
                    \/ call'[Child(c)].timer = Timeout /\ JustKept'
  BY DEF CheckOK
<1>1. c[2] \in Nat /\ c[2] < Levels
  BY Level, Below
<1>2. Child(c) \in Calls /\ \A p \in Calls : Child(p) = Child(c) => p = c
  BY <1>1, Family
<1>3. Moved(Child(c)) /\ FetchMoved(c) /\ (JustKept => JustKept') /\ CheckOK(c) /\ FetchOK(c)
  BY <1>2, DepthInvIs, CallInvIs DEF Moves, BaseInv
<1>4. CASE call'[Child(c)] = call[Child(c)]
  <2>1. CASE call[c].pc = "fetch"
    <3>1. call[c].kind = "health" /\ call[Child(c)].timer = call[c].timer
      BY <1>3, <1>4, <2>1, DeepFetch DEF FetchOK
    <3> QED
      BY <1>3, <1>4, <2>1, <3>1 DEF FetchMoved
  <2>2. CASE call[Child(c)].timer = Timeout /\ JustKept
    BY <1>3, <1>4, <2>2
  <2> QED
    BY <1>3, <1>4, <2>1, <2>2 DEF CheckOK
<1>5. CASE \E p \in Calls : Child(p) = Child(c) /\ call'[p].pc = "fetch"
  BY <1>2, <1>5
<1> QED
  BY <1>3, <1>4, <1>5 DEF Moved

LEMMA MovesWaitOK ==
  ASSUME BaseInv, DepthInv, Moves, NEW c \in Calls PROVE WaitOK(c)'
<1> SUFFICES ASSUME c[2] >= 2, c[2] + 2 <= Levels, call'[Child(Child(c))].pc = "wait"
             PROVE  \/ lock' = c /\ call'[c].pc = "fetch"
                    \/ JustKept'
  BY DEF WaitOK
<1>1. c[2] \in Nat /\ c[2] < Levels /\ c[2] + 1 <= Levels
  BY Level, FarBelow, Times
<1>2. Child(c) \in Calls /\ Child(c)[2] = c[2] + 1 /\ Child(Child(c)) \in Calls
  BY FarBelow
<1>3. \A p \in Calls : Child(p) = Child(Child(c)) => p = Child(c)
  BY <1>2, Family
<1>4. /\ Moved(Child(Child(c))) /\ FetchMoved(c) /\ (JustKept => JustKept')
      /\ CheckOK(c) /\ WaitOK(c)
  BY <1>2, DepthInvIs DEF Moves
<1>5. CASE call[c].pc = "fetch"
  <2>1. call[c].kind = "health" /\ lock = c
    BY <1>5, DeepFetch
  <2> QED
    BY <1>4, <1>5, <2>1 DEF FetchMoved
<1>6. CASE JustKept
  BY <1>4, <1>6
<1>7. CASE call[Child(Child(c))].pc = "wait"
  BY <1>4, <1>5, <1>6, <1>7 DEF WaitOK
<1>8. CASE \E p \in Calls : Child(p) = Child(Child(c)) /\ call[p].pc = "check"
  <2>1. call[Child(c)].pc = "check" /\ c[2] + 1 <= Levels
    BY <1>1, <1>3, <1>8
  <2> QED
    BY <1>4, <1>5, <1>6, <2>1 DEF CheckOK
<1> QED
  BY <1>4, <1>7, <1>8 DEF Moved

LEMMA StepDepth ==
  ASSUME BaseInv, DepthInv, Fresh, NEW c \in Calls, Step(c) PROVE DepthInv' /\ Fresh'
<1>1. Moves
  BY StepMoves
<1>2. \A d \in Calls : DepthOK(d)' /\ CheckOK(d)' /\ WaitOK(d)'
  BY <1>1, MovesDepthOK, MovesCheckOK, MovesWaitOK
<1> QED
  BY <1>1, <1>2, MovesFresh DEF DepthInv, DepthOK, CheckOK, WaitOK

\* A request finds nobody at work in its slot.
LEMMA RequestDepth ==
  ASSUME BaseInv, DepthInv, Fresh, NEW s \in Slots, Request(s) PROVE DepthInv' /\ Fresh'
<1> DEFINE r == <<s, 1>>
<1>1. PICK kind \in KindsOf[s] : call' = [call EXCEPT ![r] = Called(kind)]
  BY DEF Request
<1>2. /\ r \in Calls /\ r[2] = 1 /\ r[1] = s /\ call \in [Calls -> CallType]
      /\ kind \in {"health", "cli", "debug"}
      /\ UNCHANGED <<lock, cache, cacheAge>>
  BY <1>1, HealthAssumption, Times, Family DEF Request, BaseInv, HealthTypeOK, CallType
<1>3. (\A e \in Calls \ {r} : call'[e] = call[e]) /\ call'[r] = Called(kind)
  BY <1>1, <1>2
<1>4. call'[r].pc \in {"wait", "check"} /\ (JustKept <=> JustKept')
  BY <1>2, <1>3, CalledType DEF JustKept
<1>5. \A e \in Calls : e[1] = s => call[e].pc = "idle"
  <2>1. \A e \in Calls : e = <<e[1], e[2]>> /\ e[2] \in 1..Levels
    BY DEF Calls
  <2> QED
    BY <2>1 DEF Request
<1> HIDE DEF r
<1>6. \A e \in Calls : e[2] \in Nat /\ 1 <= e[2]
  BY Family
<1>7. ASSUME NEW c \in Calls PROVE DepthOK(c)' /\ CheckOK(c)' /\ WaitOK(c)'
  <2>1. DepthOK(c) /\ CheckOK(c) /\ WaitOK(c) /\ c[2] \in Nat /\ 1 <= c[2]
    BY <1>6, DepthInvIs
  <2>2. CASE c = r
    BY <1>2, <2>2 DEF DepthOK, CheckOK, WaitOK
  <2>3. CASE c # r
    <3>1. call'[c] = call[c]
      BY <1>3, <2>3
    <3>2. DepthOK(c)'
      BY <2>1, <3>1 DEF DepthOK
    <3>3. ASSUME c[2] + 1 <= Levels
          PROVE  Child(c) \in Calls \ {r} /\ Child(c)[2] = c[2] + 1 /\ call'[Child(c)] = call[Child(c)]
      <4>1. Child(c) \in Calls /\ Child(c)[2] = c[2] + 1
        BY <3>3, Below
      <4>2. Child(c) # r
        BY <1>2, <2>1, <4>1
      <4> QED
        BY <1>3, <4>1, <4>2
    <3>4. ASSUME c[2] + 2 <= Levels
          PROVE  call'[Child(Child(c))] = call[Child(Child(c))]
      <4>2. Child(Child(c)) \in Calls /\ Child(Child(c))[2] = c[2] + 2
        BY <3>4, FarBelow
      <4>3. Child(Child(c)) # r
        BY <1>2, <2>1, <4>2
      <4> QED
        BY <1>3, <4>2, <4>3
    <3>5. CheckOK(c)'
      BY <1>4, <2>1, <3>1, <3>3 DEF CheckOK
    <3>6. WaitOK(c)'
      BY <1>2, <1>4, <2>1, <3>1, <3>4 DEF WaitOK
    <3> QED
      BY <3>2, <3>5, <3>6
  <2> QED
    BY <2>2, <2>3
<1>8. Fresh'
  <2> SUFFICES ASSUME NEW c \in Calls, NEW d \in Calls, c[1] = d[1], c[2] < d[2],
                      call'[c].pc \in {"wait", "check"}
               PROVE  call'[d].pc = "idle"
    BY DEF Fresh
  <2>1. d # r
    BY <1>2, <1>6
  <2>2. CASE c = r
    BY <1>2, <1>3, <1>5, <2>1, <2>2
  <2>3. CASE c # r
    BY <1>3, <2>1, <2>3 DEF Fresh
  <2> QED
    BY <2>2, <2>3
<1> QED
  BY <1>7, <1>8 DEF DepthInv, DepthOK, CheckOK, WaitOK

LEMMA TickDepth ==
  ASSUME BaseInv, DepthInv, Fresh, Tick PROVE DepthInv' /\ Fresh'
<1>1. \A c \in Calls : call'[c].pc = call[c].pc
  BY TickCalls
<1>2. Fresh'
  BY <1>1 DEF Fresh
<1>3. UNCHANGED <<lock, cache>>
  BY DEF Tick
<1>4. ASSUME NEW c \in Calls PROVE DepthOK(c)' /\ CheckOK(c)' /\ WaitOK(c)'
  <2>1. DepthOK(c) /\ CheckOK(c) /\ WaitOK(c) /\ c[2] \in Nat
    BY Family, DepthInvIs
  <2>2. DepthOK(c)'
    BY <1>1, <2>1 DEF DepthOK
  <2>3. CheckOK(c)'
    <3> SUFFICES ASSUME c[2] >= 2, c[2] + 1 <= Levels, call'[Child(c)].pc = "check"
                 PROVE  call'[c].pc = "fetch"
      BY DEF CheckOK
    <3>1. Child(c) \in Calls
      BY Below
    <3>2. call[Child(c)].pc = "check" /\ call[Child(c)].timer < Timeout
      BY <1>1, <3>1 DEF Tick
    <3>3. ~(call[Child(c)].timer = Timeout)
      BY <3>2, Times
    <3> QED
      BY <1>1, <2>1, <3>2, <3>3 DEF CheckOK
  <2>4. WaitOK(c)'
    <3> SUFFICES ASSUME c[2] >= 2, c[2] + 2 <= Levels, call'[Child(Child(c))].pc = "wait"
                 PROVE  lock' = c /\ call'[c].pc = "fetch"
      BY DEF WaitOK
    <3>2. Child(Child(c)) \in Calls
      BY FarBelow
    <3>3. call[Child(Child(c))].pc = "wait"
      BY <1>1, <3>2
    <3>4. ~JustKept
      BY <3>2, <3>3 DEF Tick, JustKept
    <3> QED
      BY <1>1, <1>3, <2>1, <3>3, <3>4 DEF WaitOK
  <2> QED
    BY <2>2, <2>3, <2>4
<1> QED
  BY <1>2, <1>4 DEF DepthInv, DepthOK, CheckOK, WaitOK

LEMMA InitDepth == HealthInit => DepthInv /\ Fresh
<1> SUFFICES ASSUME HealthInit PROVE DepthInv /\ Fresh
  OBVIOUS
<1>1. \A c \in Calls : call[c].pc = "idle"
  BY DEF HealthInit, Idle
<1>2. Fresh
  BY <1>1 DEF Fresh
<1>3. ASSUME NEW c \in Calls PROVE DepthOK(c) /\ CheckOK(c) /\ WaitOK(c)
  <2>1. c[2] \in Nat /\ DepthOK(c)
    BY <1>1, Family DEF DepthOK
  <2>2. ASSUME c[2] + 1 <= Levels PROVE Child(c) \in Calls /\ Child(c)[2] = c[2] + 1
    BY <2>2, Below
  <2>3. CheckOK(c)
    BY <1>1, <2>1, <2>2 DEF CheckOK
  <2>4. ASSUME c[2] + 2 <= Levels PROVE Child(Child(c)) \in Calls
    BY <2>4, FarBelow
  <2>5. WaitOK(c)
    BY <1>1, <2>4 DEF WaitOK
  <2> QED
    BY <2>1, <2>3, <2>5
<1> QED
  BY <1>2, <1>3, DepthInvIs

LEMMA NextDepth ==
  BaseInv /\ DepthInv /\ Fresh /\ [HealthNext]_healthVars => DepthInv' /\ Fresh'
<1> SUFFICES ASSUME BaseInv, DepthInv, Fresh, [HealthNext]_healthVars PROVE DepthInv' /\ Fresh'
  OBVIOUS
<1>1. ASSUME NEW s \in Slots, Request(s) PROVE DepthInv' /\ Fresh'
  BY <1>1, RequestDepth
<1>2. ASSUME NEW c \in Calls, Step(c) PROVE DepthInv' /\ Fresh'
  BY <1>2, StepDepth
<1>3. CASE UNCHANGED <<lock, cache, cacheAge, call>>
  BY <1>3 DEF DepthInv, Fresh, JustKept
<1>4. CASE WorldChanges
  BY <1>3, <1>4 DEF WorldChanges
<1>5. CASE UNCHANGED healthVars
  BY <1>3, <1>5 DEF healthVars
<1> QED
  BY <1>1, <1>2, <1>4, <1>5, TickDepth DEF HealthNext

\* The checks of a run that ask for the report it makes are answered with it when the run
\* gives up waiting for them: no call that deep ever runs the checks, so that a
\* request makes at most five calls, however many levels there were.
THEOREM SelfChecksEnd == ASSUME Levels >= 6 PROVE HealthSpec => []SelfCheckEnds
<1>1. BaseInv /\ DepthInv => SelfCheckEnds
  <2> SUFFICES ASSUME DepthInv, NEW s \in Slots PROVE call[<<s, Levels>>].pc = "idle"
    BY DEF SelfCheckEnds
  <2>1. <<s, Levels>> \in Calls /\ <<s, Levels>>[2] >= 6
    BY Times, Family
  <2> QED
    BY <2>1 DEF DepthInv
<1> QED
  BY <1>1, InitBase, StepBase, InitDepth, NextDepth, PTL DEF HealthSpec, HealthSafeSpec

-----------------------------------------------------------------------------
(* Journal: the ring shows the history, and errors survive a restart. *)

LEMMA JournalConstants ==
  /\ Capacity \in Nat /\ 0 < Capacity /\ MaxEntries \in Nat /\ 0 < MaxEntries
  /\ MaxRequests \in Nat /\ MaxErrors \in Nat /\ MaxRestarts \in Nat
  BY JournalAssumption

RequestType == [pc : {"idle", "handler", "finish", "log", "newline"},
                id : Ids, nr : 0..MaxRequests,
                status : Statuses, then : {"idle", "finish"}]

LEMMA NoRequestType == NoRequest \in RequestType /\ NoEntry \in Entries
  BY JournalConstants DEF NoRequest, NoEntry, RequestType, Entries, Ids, Statuses

\* The ring after a call of Add.
LEMMA AddType ==
  ASSUME JournalTypeOK, NEW entry \in Entries, Add(entry)
  PROVE  /\ entries' \in [0..Capacity - 1 -> Entries] /\ done' \in Seq(Entries)
         /\ head' \in 0..Capacity - 1 /\ count' \in 0..Capacity
<1>1. /\ entries \in [0..Capacity - 1 -> Entries] /\ done \in Seq(Entries)
      /\ head \in 0..Capacity - 1 /\ count \in 0..Capacity
  BY DEF JournalTypeOK
<1>2. (head + 1) % Capacity \in 0..Capacity - 1
  BY <1>1, JournalConstants
<1> QED
  BY <1>1, <1>2, JournalConstants DEF Add

LEMMA RequestsType ==
  ASSUME JournalTypeOK, NEW r \in Requests,
         Begin(r) \/ Handle(r) \/ Panics(r) \/ LogRequest(r)
  PROVE  JournalTypeOK'
<1>1. /\ req \in [Requests -> RequestType] /\ begun \in 0..MaxRequests
      /\ UNCHANGED <<phase, log, before, restarts>>
  BY DEF JournalTypeOK, RequestType, Begin, Handle, Panics, LogRequest
<1>2. CASE Begin(r)
  <2>0. begun < MaxRequests /\ begun' = begun + 1 /\ UNCHANGED ring
    BY <1>2 DEF Begin
  <2>1. begun' \in 0..MaxRequests /\ UNCHANGED ring
    BY <1>1, <2>0, JournalConstants
  <2>2. PICK id \in GivenIds \cup {begun'} :
          req' = [req EXCEPT ![r] = [NoRequest EXCEPT !.pc = "handler", !.id = id, !.nr = begun']]
    BY <1>2 DEF Begin
  <2>3. [NoRequest EXCEPT !.pc = "handler", !.id = id, !.nr = begun'] \in RequestType
    BY <2>1, <2>2, NoRequestType DEF RequestType, Ids
  <2>4. req' \in [Requests -> RequestType]
    BY <1>1, <2>2, <2>3
  <2> QED
    BY <1>1, <2>1, <2>4 DEF JournalTypeOK, RequestType, ring, log
<1>3. CASE Handle(r)
  <2>1. PICK status \in {200, 404, 500}, pc \in {"finish", "log"} :
          /\ pc = "log" => status >= 400
          /\ req' = [req EXCEPT ![r].pc = pc, ![r].status = status, ![r].then = "finish"]
    BY <1>3 DEF Handle
  <2>2. req' \in [Requests -> RequestType] /\ UNCHANGED <<begun, ring>>
    BY <1>1, <1>3, <2>1 DEF RequestType, Statuses, Handle
  <2> QED
    BY <1>1, <2>2 DEF JournalTypeOK, RequestType, ring, log
<1>4. CASE Panics(r)
  <2>1. req' \in [Requests -> RequestType] /\ UNCHANGED <<begun, ring>>
    BY <1>1, <1>4, NoRequestType DEF Panics
  <2> QED
    BY <1>1, <2>1 DEF JournalTypeOK, RequestType, ring, log
<1>5. CASE LogRequest(r)
  <2>1. /\ Add([id |-> req[r].id, status |-> req[r].status, nr |-> req[r].nr])
        /\ UNCHANGED begun
    BY <1>5 DEF LogRequest
  <2>2. [id |-> req[r].id, status |-> req[r].status, nr |-> req[r].nr] \in Entries
    BY <1>1 DEF RequestType, Entries
  <2>3. [req[r] EXCEPT !.pc = "log", !.then = "idle"] \in RequestType
    BY <1>1 DEF RequestType
  <2>4. req' \in [Requests -> RequestType]
    BY <1>1, <1>5, <2>3, NoRequestType DEF LogRequest
  <2> QED
    BY <1>1, <2>1, <2>2, <2>4, AddType DEF JournalTypeOK, RequestType, log
<1> QED
  BY <1>2, <1>3, <1>4, <1>5

LEMMA GoesType ==
  ASSUME JournalTypeOK, NEW r \in Requests, Goes(r) PROVE req' \in [Requests -> RequestType]
<1>1. req \in [Requests -> RequestType]
  BY DEF JournalTypeOK, RequestType
<1>2. [req[r] EXCEPT !.pc = "finish"] \in RequestType
  BY <1>1 DEF RequestType
<1> QED
  BY <1>1, <1>2, NoRequestType DEF Goes

LEMMA LinesAre ==
  /\ Errors \subseteq Nat \ {0} /\ Bad \notin Errors /\ Long \notin Errors
  /\ Lines \subseteq Nat /\ Errors \subseteq Lines /\ Bad \in Lines /\ Long \in Lines
  /\ \A e \in Lines : e \in Errors \/ e = Bad \/ e = Long
  BY JournalConstants DEF Errors, Bad, Long, Lines

LEMMA ToSetOf == ASSUME NEW S, NEW s \in Seq(S)
                 PROVE  ToSet(s) \subseteq S /\ ToSet(s) = {s[i] : i \in 1..Len(s)}
  BY DEF ToSet

LEMMA WritesType ==
  ASSUME JournalTypeOK, NEW r \in Requests,
         WriteEntry(r) \/ WriteNewline(r) \/ WriteFails(r)
  PROVE  JournalTypeOK'
<1>1. /\ req \in [Requests -> RequestType] /\ lines \in Seq(Lines) /\ tail \in Seq(Lines)
      /\ Len(tail) <= 1 /\ logged \in 0..MaxErrors /\ errors \in Seq(Errors)
      /\ mu \subseteq Requests /\ lost \subseteq Errors
      /\ UNCHANGED <<phase, begun, ring, before, restarts>>
  BY DEF JournalTypeOK, RequestType, Lines, WriteEntry, WriteNewline, WriteFails
<1>2. CASE WriteEntry(r)
  <2>1. logged' \in Errors /\ logged' \in 0..MaxErrors
    BY <1>1, <1>2, JournalConstants DEF WriteEntry, Errors
  <2>2. errors' \in Seq(Errors)
    BY <1>1, <1>2, <2>1 DEF WriteEntry
  <2>3. tail' \in {tail, <<Bad>>, <<Long>>, <<logged'>>}
    BY <1>2 DEF WriteEntry
  <2>4. tail' \in Seq(Lines) /\ Len(tail') <= 1
    <3>1. \A e \in Lines : <<e>> \in Seq(Lines) /\ Len(<<e>>) <= 1
      OBVIOUS
    <3>2. \/ tail' = tail
          \/ \E e \in Lines : tail' = <<e>>
      BY <2>1, <2>3, LinesAre
    <3> QED
      BY <1>1, <3>1, <3>2
  <2>5. lost' \subseteq Errors
    BY <1>1, <1>2, <2>1 DEF WriteEntry, EntriesIn
  <2>6. [req[r] EXCEPT !.pc = "newline"] \in RequestType
    BY <1>1 DEF RequestType
  <2>7. req' \in [Requests -> RequestType] /\ mu' \subseteq Requests /\ lines' = lines
    BY <1>1, <1>2, <2>6 DEF WriteEntry
  <2> QED
    BY <1>1, <2>1, <2>2, <2>4, <2>5, <2>7 DEF JournalTypeOK, RequestType, ring, Lines
<1>3. CASE WriteNewline(r)
  <2>1. /\ mu' = {} /\ Goes(r) /\ UNCHANGED <<errors, logged, lost>>
        /\ (lines' = lines \o tail /\ tail' = <<>>) \/ UNCHANGED <<lines, tail>>
    BY <1>3 DEF WriteNewline, file
  <2>2. req' \in [Requests -> RequestType]
    BY <2>1, GoesType
  <2>3. lines' \in Seq(Lines) /\ tail' \in Seq(Lines) /\ Len(tail') <= 1
    <3>1. lines \o tail \in Seq(Lines) /\ <<>> \in Seq(Lines) /\ Len(<<>>) <= 1
      BY <1>1, ConcatProperties
    <3>2. CASE lines' = lines \o tail /\ tail' = <<>>
      BY <3>1, <3>2
    <3>3. CASE UNCHANGED <<lines, tail>>
      BY <1>1, <3>3
    <3> QED
      BY <2>1, <3>2, <3>3
  <2> QED
    BY <1>1, <2>1, <2>2, <2>3 DEF JournalTypeOK, RequestType, ring
<1>4. CASE WriteFails(r)
  <2>1. logged' \in Errors /\ logged' \in 0..MaxErrors
    BY <1>1, <1>4, JournalConstants DEF WriteFails, Errors
  <2>2. errors' \in Seq(Errors) /\ lost' \subseteq Errors /\ UNCHANGED <<file, mu>>
    BY <1>1, <1>4, <2>1 DEF WriteFails
  <2>3. req' \in [Requests -> RequestType]
    BY <1>4, GoesType DEF WriteFails
  <2> QED
    BY <1>1, <2>1, <2>2, <2>3 DEF JournalTypeOK, RequestType, ring, Lines, file
<1> QED
  BY <1>2, <1>3, <1>4

\* The end of a sequence.
LEMMA LastOfType ==
  ASSUME NEW S, NEW s \in Seq(S), NEW n \in Nat
  PROVE  /\ LastOf(s, n) \in Seq(S)
         /\ Len(LastOf(s, n)) = IF Len(s) > n THEN n ELSE Len(s)
         /\ \A i \in 1..Len(LastOf(s, n)) : /\ i + (Len(s) - Len(LastOf(s, n))) \in 1..Len(s)
                                            /\ LastOf(s, n)[i] = s[i + (Len(s) - Len(LastOf(s, n)))]
<1>1. CASE Len(s) > n
  <2>1. /\ SubSeq(s, Len(s) - n + 1, Len(s)) \in Seq(S)
        /\ Len(SubSeq(s, Len(s) - n + 1, Len(s))) = n
        /\ \A i \in 1..n : SubSeq(s, Len(s) - n + 1, Len(s))[i] = s[i + (Len(s) - n)]
    <3>1. Len(s) \in Nat
      OBVIOUS
    <3>2. \A i \in Len(s) - n + 1..Len(s) : s[i] \in S
      BY <1>1, <3>1
    <3> QED
      BY <1>1, <3>1, <3>2, SubSeqProperties
  <2>2. LastOf(s, n) = SubSeq(s, Len(s) - n + 1, Len(s))
    BY <1>1 DEF LastOf
  <2> QED
    BY <1>1, <2>1, <2>2
<1>2. CASE ~(Len(s) > n)
  BY <1>2 DEF LastOf
<1> QED
  BY <1>1, <1>2
\* A set of natural numbers has a least element.
LEMMA Minimum ==
  ASSUME NEW S \in SUBSET Nat, S # {} PROVE \E n \in S : \A m \in S : n <= m
<1>1. PICK n \in S : \A m \in S : ~(<<m, n>> \in OpToRel(<, Nat))
  BY NatLessThanWellFounded, WFMin
<1>2. \A m \in S : ~(m < n)
  BY <1>1 DEF OpToRel
<1> QED
  BY <1>2

\* The equation of the function that Parsed(n) is defined by.
Filters(f, s, n) ==
  f = [i \in 0..n |-> IF i = 0 THEN <<>>
                      ELSE IF s[i] = Bad THEN f[i - 1] ELSE Append(f[i - 1], s[i])]

LEMMA FilterExists ==
  ASSUME NEW s \in Seq(Lines), NEW m \in 0..Len(s) PROVE \E f : Filters(f, s, m)
<1> DEFINE Upto(k) == \E f : f = [n \in 0..k |->
                                   IF n = 0 THEN <<>>
                                   ELSE IF s[n] = Bad THEN f[n - 1] ELSE Append(f[n - 1], s[n])]
           missing == {k \in 0..Len(s) : ~Upto(k)}
<1>1. Len(s) \in Nat
  OBVIOUS
<1>2. ASSUME missing # {} PROVE FALSE
  <2>1. PICK k \in missing : \A i \in missing : k <= i
    <3>1. missing \in SUBSET Nat
      BY <1>1
    <3> HIDE DEF missing
    <3> QED
      BY <1>2, <3>1, Minimum
  <2>2. k \in 0..Len(s) /\ ~Upto(k)
    BY <2>1
  <2>3. CASE k = 0
    <3>1. Upto(0)
      <4> WITNESS [n \in 0..0 |-> <<>>]
      <4> QED
        OBVIOUS
    <3> QED
      BY <2>2, <2>3, <3>1
  <2>4. CASE k # 0
    <3>1. k - 1 \in 0..Len(s) /\ k \in Nat /\ ~(k <= k - 1)
      BY <1>1, <2>2, <2>4
    <3>2. Upto(k - 1)
      BY <2>1, <3>1
    <3>3. PICK f : f = [n \in 0..k - 1 |->
                         IF n = 0 THEN <<>>
                         ELSE IF s[n] = Bad THEN f[n - 1] ELSE Append(f[n - 1], s[n])]
      BY <3>2
    <3> DEFINE g == [n \in 0..k |->
                      IF n < k THEN f[n]
                      ELSE IF s[n] = Bad THEN f[n - 1] ELSE Append(f[n - 1], s[n])]
    <3>4. \A n \in 0..k : n # 0 => g[n - 1] = f[n - 1]
      BY <3>1
    <3>5. \A n \in 0..k : g[n] = IF n = 0 THEN <<>>
                                 ELSE IF s[n] = Bad THEN g[n - 1] ELSE Append(g[n - 1], s[n])
      <4> SUFFICES ASSUME NEW n \in 0..k
                   PROVE  g[n] = IF n = 0 THEN <<>>
                                 ELSE IF s[n] = Bad THEN g[n - 1] ELSE Append(g[n - 1], s[n])
        OBVIOUS
      <4>1. CASE n < k
        <5>1. n \in 0..k - 1 /\ g[n] = f[n]
          BY <3>1, <4>1
        <5>2. f[n] = IF n = 0 THEN <<>>
                     ELSE IF s[n] = Bad THEN f[n - 1] ELSE Append(f[n - 1], s[n])
          BY <3>3, <5>1
        <5> HIDE DEF g
        <5> QED
          BY <3>4, <5>1, <5>2
      <4>2. CASE ~(n < k)
        <5>1. n # 0 /\ g[n] = IF s[n] = Bad THEN f[n - 1] ELSE Append(f[n - 1], s[n])
          BY <3>1, <4>2, <2>4
        <5> HIDE DEF g
        <5> QED
          BY <3>4, <5>1
      <4> QED
        BY <4>1, <4>2
    <3>6. g = [n \in 0..k |-> g[n]]
      OBVIOUS
    <3> HIDE DEF g
    <3>7. g = [n \in 0..k |-> IF n = 0 THEN <<>>
                              ELSE IF s[n] = Bad THEN g[n - 1] ELSE Append(g[n - 1], s[n])]
      BY <3>5, <3>6
    <3>8. Upto(k)
      BY <3>7
    <3> QED
      BY <2>2, <3>8
  <2> QED
    BY <2>3, <2>4
<1>3. Upto(m)
  <2> HIDE DEF Upto
  <2>1. m \notin missing
    BY <1>2
  <2> QED
    BY <2>1
<1> QED
  BY <1>3 DEF Filters

LEMMA ParsedFilters ==
  ASSUME AllLines \in Seq(Lines), NEW n \in 0..Len(AllLines)
  PROVE  \E f : Filters(f, AllLines, n) /\ Parsed(n) = f[n]
<1> DEFINE f == CHOOSE f : Filters(f, AllLines, n)
<1>1. Filters(f, AllLines, n)
  BY FilterExists
<1>2. Parsed(n) = f[n]
  BY DEF Parsed, Filters
<1> HIDE DEF f
<1> QED
  BY <1>1, <1>2

Rising(s) == \A i, j \in 1..Len(s) : i < j /\ s[i] \in Errors /\ s[j] \in Errors => s[i] < s[j]

\* What is kept of the first n lines: those that parse, in their order.
LEMMA FilterKeeps ==
  ASSUME NEW s \in Seq(Lines), Rising(s), NEW m \in 0..Len(s), NEW f, Filters(f, s, m),
         \A i \in 1..m : s[i] # Long
  PROVE  /\ f[m] \in Seq(Errors) /\ Rising(f[m])
         /\ ToSet(f[m]) = {s[i] : i \in 1..m} \ {Bad}
<1> DEFINE Kept(n) == /\ f[n] \in Seq(Errors)
                      /\ \A j \in 1..Len(f[n]) : \E i \in 1..n : f[n][j] = s[i]
                      /\ \A i \in 1..n : s[i] # Bad => \E j \in 1..Len(f[n]) : f[n][j] = s[i]
                      /\ \A i, j \in 1..Len(f[n]) : i < j => f[n][i] < f[n][j]
           wrong == {n \in 0..m : ~Kept(n)}
<1>1. /\ m \in Nat /\ Errors \subseteq Nat \ {0} /\ Bad \notin Errors
      /\ \A i \in 1..m : i \in 1..Len(s) /\ s[i] \in Lines /\ (s[i] # Bad => s[i] \in Errors)
  <2>1. m \in Nat /\ \A i \in 1..m : i \in 1..Len(s)
    OBVIOUS
  <2>2. \A i \in 1..m : s[i] \in Lines
    BY <2>1
  <2> QED
    BY <2>1, <2>2, LinesAre
<1>2. \A n \in 0..m : f[n] = IF n = 0 THEN <<>>
                                  ELSE IF s[n] = Bad THEN f[n - 1] ELSE Append(f[n - 1], s[n])
  BY DEF Filters
<1>3. ASSUME wrong # {} PROVE FALSE
  <2>1. PICK n \in wrong : \A i \in wrong : n <= i
    <3>1. wrong \in SUBSET Nat
      BY <1>1
    <3> HIDE DEF wrong
    <3> QED
      BY <1>3, <3>1, Minimum
  <2>2. n \in 0..m /\ ~Kept(n)
    BY <2>1
  <2>3. CASE n = 0
    <3>1. f[n] = <<>>
      BY <1>2, <2>2, <2>3
    <3> QED
      BY <2>2, <2>3, <3>1
  <2>4. CASE n # 0
    <3>1. n \in 1..m /\ n - 1 \in 0..m /\ n \in Nat /\ ~(n <= n - 1)
      BY <1>1, <2>2, <2>4
    <3>2. Kept(n - 1)
      BY <2>1, <3>1
    <3>3. f[n] = IF s[n] = Bad THEN f[n - 1] ELSE Append(f[n - 1], s[n])
      BY <1>2, <2>4, <3>1
    <3> DEFINE g == f[n - 1]
    <3>4. /\ g \in Seq(Errors) /\ Len(g) \in Nat
          /\ \A j \in 1..Len(g) : \E i \in 1..n - 1 : g[j] = s[i]
          /\ \A i \in 1..n - 1 : s[i] # Bad => \E j \in 1..Len(g) : g[j] = s[i]
          /\ \A i, j \in 1..Len(g) : i < j => g[i] < g[j]
      BY <3>2
    <3>5. f[n] = IF s[n] = Bad THEN g ELSE Append(g, s[n])
      BY <3>3
    <3> HIDE DEF g
    <3>6. CASE s[n] = Bad
      <4>1. /\ f[n] = g
            /\ \A i \in 1..n : s[i] # Bad => i \in 1..n - 1
            /\ \A i \in 1..n - 1 : i \in 1..n
        BY <3>1, <3>5, <3>6
      <4> QED
        BY <2>2, <3>4, <4>1
    <3>7. CASE s[n] # Bad
      <4>1. s[n] \in Errors
        BY <1>1, <3>1, <3>7
      <4>2. /\ f[n] = Append(g, s[n]) /\ f[n] \in Seq(Errors) /\ Len(f[n]) = Len(g) + 1
            /\ \A j \in 1..Len(g) : f[n][j] = g[j] /\ j \in 1..Len(f[n])
            /\ f[n][Len(g) + 1] = s[n] /\ Len(g) + 1 \in 1..Len(f[n])
            /\ \A j \in 1..Len(f[n]) : j \in 1..Len(g) \/ j = Len(g) + 1
        BY <3>4, <3>5, <3>7, <4>1
      <4>3. \A j \in 1..Len(g) : g[j] < s[n]
        <5> SUFFICES ASSUME NEW j \in 1..Len(g) PROVE g[j] < s[n]
          OBVIOUS
        <5>1. PICK i \in 1..n - 1 : g[j] = s[i]
          BY <3>4
        <5>2. i \in 1..Len(s) /\ n \in 1..Len(s) /\ i < n
          BY <1>1, <3>1, <5>1
        <5>3. s[i] \in Errors
          BY <3>4, <5>1
        <5> QED
          BY <4>1, <5>1, <5>2, <5>3 DEF Rising
      <4>4. \A j \in 1..Len(f[n]) : \E i \in 1..n : f[n][j] = s[i]
        <5>1. n \in 1..n /\ \A i \in 1..n - 1 : i \in 1..n
          BY <3>1
        <5> QED
          BY <3>4, <4>2, <5>1
      <4>5. \A i \in 1..n : s[i] # Bad => \E j \in 1..Len(f[n]) : f[n][j] = s[i]
        <5>1. \A i \in 1..n : i \in 1..n - 1 \/ i = n
          BY <3>1
        <5> QED
          BY <3>4, <4>2, <5>1
      <4>6. \A i, j \in 1..Len(f[n]) : i < j => f[n][i] < f[n][j]
        <5> SUFFICES ASSUME NEW i \in 1..Len(f[n]), NEW j \in 1..Len(f[n]), i < j
                     PROVE  f[n][i] < f[n][j]
          OBVIOUS
        <5>1. i \in 1..Len(g)
          BY <3>4, <4>2
        <5> QED
          BY <3>4, <4>2, <4>3, <5>1
      <4> QED
        BY <2>2, <4>2, <4>4, <4>5, <4>6
    <3> QED
      BY <3>6, <3>7
  <2> QED
    BY <2>3, <2>4
<1>4. Kept(m)
  <2>1. m \in 0..m
    BY <1>1
  <2> HIDE DEF Kept
  <2>2. m \notin wrong
    BY <1>3
  <2> QED
    BY <2>1, <2>2
<1> DEFINE g == f[m]
<1>5. /\ g \in Seq(Errors)
      /\ \A j \in 1..Len(g) : \E i \in 1..m : g[j] = s[i]
      /\ \A i \in 1..m : s[i] # Bad => \E j \in 1..Len(g) : g[j] = s[i]
      /\ \A i, j \in 1..Len(g) : i < j => g[i] < g[j]
  BY <1>4
<1> HIDE DEF g
<1>6. ToSet(g) = {g[j] : j \in 1..Len(g)}
  BY <1>5 DEF ToSet
<1>7. \A j \in 1..Len(g) : g[j] # Bad
  BY <1>1, <1>5
<1> DEFINE taken == {s[i] : i \in 1..m}
<1>8. ToSet(g) = taken \ {Bad}
  <2>1. ASSUME NEW e \in ToSet(g) PROVE e \in taken \ {Bad}
    <3>1. PICK j \in 1..Len(g) : e = g[j]
      BY <1>6, <2>1
    <3>2. PICK i \in 1..m : e = s[i]
      BY <1>5, <3>1
    <3> QED
      BY <1>6, <1>7, <3>1, <3>2
  <2>2. ASSUME NEW e \in taken \ {Bad} PROVE e \in ToSet(g)
    <3>1. PICK i \in 1..m : e = s[i]
      BY <1>6, <2>2
    <3>2. PICK j \in 1..Len(g) : e = g[j]
      BY <1>5, <2>2, <3>1
    <3> QED
      BY <1>6, <3>2
  <2> QED
    BY <2>1, <2>2
<1> QED
  BY <1>5, <1>8 DEF Rising, g

-----------------------------------------------------------------------------
LEMMA FileType ==
  ASSUME JournalTypeOK
  PROVE  /\ lines \in Seq(Lines) /\ tail \in Seq(Lines) /\ errors \in Seq(Errors)
         /\ AllLines \in Seq(Lines)
  BY DEF JournalTypeOK, AllLines

\* What is read at a start are the lines that parse.
LEMMA ParsedKeeps ==
  ASSUME JournalTypeOK, Rising(AllLines), NEW n \in 0..Len(AllLines),
         \A i \in 1..n : AllLines[i] # Long
  PROVE  /\ Parsed(n) \in Seq(Errors) /\ Rising(Parsed(n))
         /\ ToSet(Parsed(n)) = {AllLines[i] : i \in 1..n} \ {Bad}
<1>1. AllLines \in Seq(Lines)
  BY FileType
<1>2. PICK f : Filters(f, AllLines, n) /\ Parsed(n) = f[n]
  BY <1>1, ParsedFilters
<1> QED
  BY <1>1, <1>2, FilterKeeps

\* The first entries of the memory, and perhaps the next, make a file.
LEMMA WrittenType ==
  ASSUME JournalTypeOK, Written
  PROVE  /\ lines' \in Seq(Lines) /\ tail' \in Seq(Lines) /\ Len(tail') <= 1
         /\ lost' \subseteq Errors
<1>1. PICK k \in 0..Len(errors) :
        /\ lines' = SubSeq(errors, 1, k)
        /\ tail' \in IF k = Len(errors) THEN {<<>>} ELSE {<<>>, <<Bad>>, <<errors[k + 1]>>}
  BY DEF Written
<1>2. errors \in Seq(Errors)
  BY FileType
<1>3. lines' \in Seq(Lines)
  <2>1. lines' \in Seq(Errors)
    BY <1>1, <1>2
  <2> QED
    BY <2>1, SeqMonotonic, LinesAre
<1>4. tail' \in Seq(Lines) /\ Len(tail') <= 1
  <2>1. /\ \A e \in Lines : <<e>> \in Seq(Lines) /\ Len(<<e>>) <= 1
        /\ <<>> \in Seq(Lines) /\ Len(<<>>) <= 1
    OBVIOUS
  <2>2. k # Len(errors) => errors[k + 1] \in Errors
    BY <1>2
  <2>3. \/ tail' = <<>>
        \/ \E e \in Lines : tail' = <<e>>
    BY <1>1, <2>2, LinesAre
  <2> QED
    BY <2>1, <2>3
<1>5. lost' \subseteq Errors
  BY DEF Written, JournalTypeOK, EntriesIn
<1> QED
  BY <1>3, <1>4, <1>5

LEMMA StopType == ASSUME JournalTypeOK, Stop PROVE JournalTypeOK'
<1>1. /\ phase' = "down" /\ before' = ToSet(errors) /\ errors' = <<>> /\ mu' = {}
      /\ UNCHANGED <<begun, logged, restarts>>
  BY DEF Stop
<1>2. req' \in [Requests -> RequestType]
  BY NoRequestType DEF Stop
<1>3. /\ entries' \in [0..Capacity - 1 -> Entries] /\ done' \in Seq(Entries)
      /\ head' \in 0..Capacity - 1 /\ count' \in 0..Capacity
  <2>1. 0 \in 0..Capacity - 1 /\ 0 \in 0..Capacity
    BY JournalConstants
  <2> QED
    BY <2>1, NoRequestType DEF Stop
<1>4. lines' \in Seq(Lines) /\ tail' \in Seq(Lines) /\ Len(tail') <= 1 /\ lost' \subseteq Errors
  <2>1. CASE UNCHANGED <<file, lost>>
    BY <2>1 DEF file, JournalTypeOK
  <2> QED
    BY <2>1, WrittenType DEF Stop
<1>5. ToSet(errors) \subseteq Errors
  BY FileType, ToSetOf
<1> QED
  BY <1>1, <1>2, <1>3, <1>4, <1>5 DEF JournalTypeOK, RequestType

LEMMA StartType ==
  ASSUME JournalTypeOK, Rising(AllLines), Start PROVE JournalTypeOK'
<1>1. PICK n \in 0..Len(AllLines) :
        /\ \A i \in 1..n : AllLines[i] # Long
        /\ errors' = LastOf(Parsed(n), MaxEntries)
        /\ phase' = IF Len(errors') = MaxEntries THEN "rewriting" ELSE "serving"
        /\ lost' = lost \cup EntriesIn(SubSeq(AllLines, n + 1, Len(AllLines)))
  BY DEF Start
<1>2. errors' \in Seq(Errors)
  BY <1>1, ParsedKeeps, LastOfType, JournalConstants
<1>3. lost' \subseteq Errors /\ phase' \in {"down", "rewriting", "serving"}
  BY <1>1 DEF EntriesIn, JournalTypeOK
<1>4. restarts' \in 0..MaxRestarts
  BY JournalConstants DEF Start, JournalTypeOK
<1> QED
  BY <1>2, <1>3, <1>4 DEF Start, JournalTypeOK, ring, file

LEMMA RewriteType == ASSUME JournalTypeOK, RewriteFile PROVE JournalTypeOK'
<1>1. lines' \in Seq(Lines) /\ tail' \in Seq(Lines) /\ Len(tail') <= 1 /\ lost' \subseteq Errors
  <2>1. CASE UNCHANGED <<file, lost>>
    BY <2>1 DEF file, JournalTypeOK
  <2> QED
    BY <2>1, WrittenType DEF RewriteFile
<1> QED
  BY <1>1 DEF RewriteFile, JournalTypeOK, ring

-----------------------------------------------------------------------------
(* The ring holds the end of the history. *)

RingInv ==
  /\ count = IF Len(done) < Capacity THEN Len(done) ELSE Capacity
  /\ \A i \in 0..count - 1 : At(i) = done[Len(done) - i]

LEMMA AddRing ==
  ASSUME JournalTypeOK, RingInv, NEW entry \in Entries, Add(entry) PROVE RingInv'
<1>1. /\ entries \in [0..Capacity - 1 -> Entries] /\ done \in Seq(Entries) /\ Len(done) \in Nat
      /\ head \in 0..Capacity - 1 /\ count \in 0..Capacity /\ Capacity \in Nat /\ 0 < Capacity
  BY JournalConstants DEF JournalTypeOK
<1>2. /\ entries' = [entries EXCEPT ![head] = entry] /\ head' = (head + 1) % Capacity
      /\ count' = (IF count < Capacity THEN count + 1 ELSE count) /\ done' = Append(done, entry)
  BY DEF Add
<1>3. /\ Len(done') = Len(done) + 1 /\ done'[Len(done) + 1] = entry
      /\ \A k \in 1..Len(done) : done'[k] = done[k]
  BY <1>1, <1>2
<1>4. count' = IF Len(done') < Capacity THEN Len(done') ELSE Capacity
  BY <1>1, <1>2, <1>3 DEF RingInv
<1>5. (head' = head + 1 /\ head + 1 < Capacity) \/ (head' = 0 /\ head = Capacity - 1)
  <2>1. CASE head + 1 < Capacity
    <3>1. (head + 1) % Capacity = head + 1
      BY <1>1, <2>1
    <3> QED
      BY <1>2, <2>1, <3>1
  <2>2. CASE ~(head + 1 < Capacity)
    <3>1. head = Capacity - 1 /\ head + 1 = Capacity
      BY <1>1, <2>2
    <3>2. Capacity % Capacity = 0
      BY <1>1
    <3> QED
      BY <1>2, <3>1, <3>2
  <2> QED
    BY <2>1, <2>2
<1>6. ASSUME NEW i \in 0..count' - 1 PROVE At(i)' = done'[Len(done') - i]
  <2>1. i \in Nat /\ i < count' /\ i < Capacity
    BY <1>1, <1>2
  <2>2. At(i)' = entries'[(head' + Capacity - 1 - i) % Capacity]
    BY DEF At
  <2>3. CASE i = 0
    <3>1. (head' + Capacity - 1 - i) % Capacity = head
      <4>1. CASE head' = head + 1 /\ head + 1 < Capacity
        <5>1. head' + Capacity - 1 - i = Capacity + head
          BY <1>1, <2>3, <4>1
        <5>2. (Capacity + head) % Capacity = head
          BY <1>1
        <5> QED
          BY <5>1, <5>2
      <4>2. CASE head' = 0 /\ head = Capacity - 1
        <5>1. head' + Capacity - 1 - i = head
          BY <1>1, <2>3, <4>2
        <5>2. head % Capacity = head
          BY <1>1
        <5> QED
          BY <5>1, <5>2
      <4> QED
        BY <1>5, <4>1, <4>2
    <3> QED
      BY <1>1, <1>2, <1>3, <2>2, <2>3, <3>1
  <2>4. CASE i # 0
    <3>1. i - 1 \in 0..count - 1
      BY <1>1, <1>2, <2>1, <2>4
    <3>2. /\ (head' + Capacity - 1 - i) % Capacity = (head + Capacity - 1 - (i - 1)) % Capacity
          /\ (head' + Capacity - 1 - i) % Capacity \in 0..Capacity - 1
          /\ (head' + Capacity - 1 - i) % Capacity # head
      <4>1. CASE head' = head + 1
        <5>1. /\ head' + Capacity - 1 - i = head + Capacity - i
              /\ head + Capacity - 1 - (i - 1) = head + Capacity - i
              /\ head + Capacity - i \in Nat
          BY <1>1, <2>1, <4>1
        <5>2. CASE head + Capacity - i < Capacity
          <6>1. (head + Capacity - i) % Capacity = head + Capacity - i
            BY <1>1, <5>1, <5>2
          <6> QED
            BY <1>1, <2>1, <5>1, <5>2, <6>1
        <5>3. CASE ~(head + Capacity - i < Capacity)
          <6>1. (head + Capacity - i) % Capacity = head - i
            BY <1>1, <2>1, <5>1, <5>3
          <6>2. head - i \in 0..Capacity - 1 /\ head - i # head
            BY <1>1, <2>1, <2>4, <5>3
          <6> QED
            BY <5>1, <6>1, <6>2
        <5> QED
          BY <5>2, <5>3
      <4>2. CASE head' = 0 /\ head = Capacity - 1
        <5>1. /\ head' + Capacity - 1 - i = Capacity - 1 - i
              /\ head + Capacity - 1 - (i - 1) = Capacity + (Capacity - 1 - i)
              /\ Capacity - 1 - i \in 0..Capacity - 1 /\ Capacity - 1 - i # head
          BY <1>1, <2>1, <2>4, <4>2
        <5>2. /\ (Capacity - 1 - i) % Capacity = Capacity - 1 - i
              /\ (Capacity + (Capacity - 1 - i)) % Capacity = Capacity - 1 - i
          BY <1>1, <5>1
        <5> QED
          BY <5>1, <5>2
      <4> QED
        BY <1>5, <4>1, <4>2
    <3>3. At(i)' = At(i - 1)
      BY <1>1, <1>2, <2>2, <3>2 DEF At
    <3>4. At(i - 1) = done[Len(done) - (i - 1)]
      BY <3>1 DEF RingInv
    <3>5. Len(done) - (i - 1) \in 1..Len(done) /\ Len(done) - (i - 1) = Len(done') - i
      <4>1. count <= Len(done) /\ i <= count
        BY <1>1, <3>1, <2>1 DEF RingInv
      <4> QED
        BY <1>1, <1>3, <2>1, <2>4, <4>1
    <3> QED
      BY <1>3, <3>3, <3>4, <3>5
  <2> QED
    BY <2>3, <2>4
<1> QED
  BY <1>4, <1>6 DEF RingInv

\* What the ring shows is the end of the history, backwards.
LEMMA RingShows ==
  ASSUME JournalTypeOK, RingInv PROVE NewestFirst = Reverse(LastOf(done, Capacity))
<1> DEFINE kept == LastOf(done, Capacity)
<1>1. done \in Seq(Entries) /\ Len(done) \in Nat /\ count \in 0..Capacity /\ Capacity \in Nat
  BY JournalConstants DEF JournalTypeOK
<1>2. /\ kept \in Seq(Entries) /\ Len(kept) = IF Len(done) > Capacity THEN Capacity ELSE Len(done)
      /\ \A i \in 1..Len(kept) : kept[i] = done[i + (Len(done) - Len(kept))]
  BY <1>1, LastOfType
<1> HIDE DEF kept
<1>3. Len(kept) = count
  BY <1>1, <1>2 DEF RingInv
<1>4. ASSUME NEW i \in 1..count PROVE At(i - 1) = kept[(Len(kept) - i) + 1]
  <2>1. i - 1 \in 0..count - 1 /\ (Len(kept) - i) + 1 \in 1..Len(kept)
    BY <1>1, <1>3
  <2>2. ((Len(kept) - i) + 1) + (Len(done) - Len(kept)) = Len(done) - (i - 1)
    BY <1>1, <1>3
  <2> QED
    BY <1>2, <2>1, <2>2 DEF RingInv
<1>5. NewestFirst = Reverse(kept)
  BY <1>3, <1>4 DEF NewestFirst, Reverse
<1> QED
  BY <1>5 DEF kept

LEMMA RingIsHistory == ASSUME JournalTypeOK, RingInv PROVE RecentIsHistory
<1> DEFINE newest == Reverse(LastOf(done, Capacity))
<1>1. NewestFirst = newest
  BY RingShows
<1>2. DOMAIN newest = 1..count /\ count \in Nat
  BY <1>1, JournalConstants DEF NewestFirst, JournalTypeOK
<1> HIDE DEF newest
<1>3. \A n \in 1..MaxRequests : /\ Recent(n) = FirstOf(newest, n)
                                /\ RecentErrors(n) = FirstOf(ErrorsOf(newest), n)
  BY <1>1 DEF Recent, RecentErrors
<1>4. ASSUME NEW i \in DOMAIN newest,
             ~\E j \in 1..i - 1 : newest[j].id = newest[i].id
      PROVE  Get(newest[i].id).nr = newest[i].nr
  <2> DEFINE found == {k \in 1..count : NewestFirst[k].id = newest[i].id}
  <2>1. i \in found
    BY <1>1, <1>2
  <2>2. \A k \in found : k \in Nat /\ i \in Nat /\ i <= k
    <3>1. \A k \in 1..count : k < i => k \in 1..i - 1
      BY <1>2, <1>4
    <3> QED
      BY <1>1, <1>2, <1>4, <3>1
  <2>3. Min(found) = i
    <3> HIDE DEF found
    <3>1. \A k \in found : (\A y \in found : k =< y) => k = i
      BY <2>1, <2>2
    <3>2. \A y \in found : i =< y
      BY <2>2
    <3> QED
      BY <2>1, <3>1, <3>2 DEF Min
  <2>4. Get(newest[i].id) = NewestFirst[Min(found)]
    BY <2>1 DEF Get
  <2> QED
    BY <1>1, <2>3, <2>4
<1>5. \A s : Stats(s) = Cardinality({j \in DOMAIN newest : newest[j].status = s})
  BY <1>1, <1>2 DEF Stats
<1> QED
  BY <1>3, <1>4, <1>5 DEF RecentIsHistory, newest

-----------------------------------------------------------------------------
(* The error log *)

LEMMA ConcatSet ==
  ASSUME NEW S, NEW s \in Seq(S), NEW t \in Seq(S)
  PROVE  s \o t \in Seq(S) /\ ToSet(s \o t) = ToSet(s) \cup ToSet(t)
<1>1. /\ s \o t \in Seq(S) /\ Len(s \o t) = Len(s) + Len(t) /\ Len(s) \in Nat /\ Len(t) \in Nat
      /\ \A i \in 1..Len(s) + Len(t) : (s \o t)[i] = IF i <= Len(s) THEN s[i] ELSE t[i - Len(s)]
  BY ConcatProperties, LenProperties
<1>2. /\ ToSet(s) = {s[i] : i \in 1..Len(s)} /\ ToSet(t) = {t[i] : i \in 1..Len(t)}
      /\ ToSet(s \o t) = {(s \o t)[i] : i \in 1..Len(s) + Len(t)}
  <2>1. ToSet(s \o t) = {(s \o t)[i] : i \in 1..Len(s \o t)}
    BY <1>1, ToSetOf
  <2> QED
    BY <1>1, <2>1, ToSetOf
<1>3. ASSUME NEW e \in ToSet(s \o t) PROVE e \in ToSet(s) \cup ToSet(t)
  <2>1. PICK i \in 1..Len(s) + Len(t) : e = (s \o t)[i]
    BY <1>2, <1>3
  <2>2. i <= Len(s) => i \in 1..Len(s)
    BY <1>1
  <2>3. ~(i <= Len(s)) => i - Len(s) \in 1..Len(t)
    BY <1>1
  <2> QED
    BY <1>1, <1>2, <2>1, <2>2, <2>3
<1>4. ASSUME NEW e \in ToSet(s) PROVE e \in ToSet(s \o t)
  <2>1. PICK i \in 1..Len(s) : e = s[i]
    BY <1>2, <1>4
  <2>2. i \in 1..Len(s) + Len(t) /\ i <= Len(s)
    BY <1>1
  <2> QED
    BY <1>1, <1>2, <2>1, <2>2
<1>5. ASSUME NEW e \in ToSet(t) PROVE e \in ToSet(s \o t)
  <2>1. PICK i \in 1..Len(t) : e = t[i]
    BY <1>2, <1>5
  <2>2. i + Len(s) \in 1..Len(s) + Len(t) /\ ~(i + Len(s) <= Len(s)) /\ i + Len(s) - Len(s) = i
    BY <1>1
  <2> QED
    BY <1>1, <1>2, <2>1, <2>2
<1> QED
  BY <1>1, <1>3, <1>4, <1>5

\* A line behind others that are older.
LEMMA RisingMore ==
  ASSUME NEW s \in Seq(Lines), NEW t \in Seq(Lines), Rising(s), Len(t) <= 1,
         \A e \in EntriesIn(t) : \A d \in EntriesIn(s) : d < e
  PROVE  Rising(s \o t)
<1>1. /\ Len(s \o t) = Len(s) + Len(t) /\ Len(s) \in Nat /\ Len(t) \in Nat
      /\ \A i \in 1..Len(s) + Len(t) : (s \o t)[i] = IF i <= Len(s) THEN s[i] ELSE t[i - Len(s)]
  BY ConcatProperties, LenProperties
<1> SUFFICES ASSUME NEW i \in 1..Len(s \o t), NEW j \in 1..Len(s \o t), i < j,
                    (s \o t)[i] \in Errors, (s \o t)[j] \in Errors
             PROVE  (s \o t)[i] < (s \o t)[j]
  BY DEF Rising
<1>2. i \in 1..Len(s) /\ (s \o t)[i] = s[i]
  BY <1>1
<1>3. CASE j <= Len(s)
  <2>1. j \in 1..Len(s) /\ (s \o t)[j] = s[j]
    BY <1>1, <1>3
  <2> QED
    BY <1>2, <2>1 DEF Rising
<1>4. CASE ~(j <= Len(s))
  <2>1. j - Len(s) \in 1..Len(t) /\ (s \o t)[j] = t[j - Len(s)]
    BY <1>1, <1>4
  <2>2. t[j - Len(s)] \in EntriesIn(t) /\ s[i] \in EntriesIn(s)
    BY <1>2, <2>1, ToSetOf DEF EntriesIn
  <2> QED
    BY <1>2, <2>1, <2>2
<1> QED
  BY <1>3, <1>4

LEMMA RisingFirst ==
  ASSUME NEW s \in Seq(Lines), NEW t \in Seq(Lines), Rising(s \o t) PROVE Rising(s)
<1>1. /\ Len(s \o t) = Len(s) + Len(t) /\ Len(s) \in Nat /\ Len(t) \in Nat
      /\ \A i \in 1..Len(s) + Len(t) : (s \o t)[i] = IF i <= Len(s) THEN s[i] ELSE t[i - Len(s)]
  BY ConcatProperties, LenProperties
<1>2. \A i \in 1..Len(s) : i \in 1..Len(s \o t) /\ (s \o t)[i] = s[i]
  BY <1>1
<1> QED
  BY <1>2 DEF Rising

\* A rising sequence of entries has as many as it is long.
LEMMA RisingCount ==
  ASSUME NEW s \in Seq(Errors), Rising(s)
  PROVE  IsFiniteSet(ToSet(s)) /\ Cardinality(ToSet(s)) = Len(s)
<1>1. Len(s) \in Nat /\ s \in [1..Len(s) -> Errors] /\ ToSet(s) = {s[i] : i \in 1..Len(s)}
  BY ToSetOf, LenProperties
<1>2. \A i, j \in 1..Len(s) : s[i] = s[j] => i = j
  <2> SUFFICES ASSUME NEW i \in 1..Len(s), NEW j \in 1..Len(s), s[i] = s[j], i < j PROVE FALSE
    BY <1>1
  <2>1. s[i] \in Nat /\ s[i] \in Errors /\ s[j] \in Errors
    BY <1>1, LinesAre
  <2>2. s[i] < s[j]
    BY <2>1 DEF Rising
  <2> QED
    BY <2>1, <2>2
<1>3. s \in Bijection(1..Len(s), ToSet(s))
  <2>1. s \in [1..Len(s) -> ToSet(s)]
    BY <1>1
  <2>2. s \in Injection(1..Len(s), ToSet(s))
    BY <1>2, <2>1 DEF Injection, IsInjective
  <2>3. s \in Surjection(1..Len(s), ToSet(s))
    BY <1>1, <2>1 DEF Surjection
  <2> QED
    BY <2>2, <2>3 DEF Bijection
<1>4. ExistsBijection(1..Len(s), ToSet(s))
  BY <1>3 DEF ExistsBijection
<1>5. IsFiniteSet(1..Len(s)) /\ Cardinality(1..Len(s)) = Len(s)
  BY <1>1, FS_Interval
<1> QED
  BY <1>4, <1>5, FS_Bijection

LEMMA EntriesFinite ==
  ASSUME NEW T \in SUBSET Errors PROVE IsFiniteSet(T) /\ Cardinality(T) \in Nat
<1>1. IsFiniteSet(Errors)
  BY JournalConstants, FS_Interval DEF Errors
<1> QED
  BY <1>1, FS_Subset, FS_CardinalityType

InFile == EntriesIn(lines) \cup EntriesIn(tail)

\* The entries that a start has to find: those in memory, or at the last stop.
Owed == IF phase = "down" THEN before ELSE ToSet(errors)

\* Memory and file are in the order of logging, and the file has every entry of the
\* memory that nothing befell.
LogInv ==
  /\ phase = "serving" \/ \A r \in Requests : req[r].pc = "idle"
  /\ Rising(errors) /\ Rising(AllLines)
  /\ \A e \in ToSet(errors) \cup InFile : e <= logged
  /\ Owed \ lost \subseteq InFile
  /\ ErrorsKept

\* More entries in memory do not take back what ErrorsKept promises.
LEMMA KeptGrows ==
  ASSUME JournalTypeOK, JournalTypeOK', ErrorsKept, phase # "down",
         ToSet(errors) \subseteq ToSet(errors'), lost \subseteq lost', before' = before
  PROVE  ErrorsKept'
<1>1. ToSet(errors) \subseteq Errors /\ ToSet(errors') \subseteq Errors
  BY ToSetOf DEF JournalTypeOK
<1> SUFFICES ASSUME NEW e \in before' \ lost', e \notin ToSet(errors')
             PROVE  Cardinality({f \in ToSet(errors') : f > e}) >= MaxEntries
  BY DEF ErrorsKept
<1> DEFINE old == {f \in ToSet(errors) : f > e}
           new == {f \in ToSet(errors') : f > e}
<1>2. Cardinality(old) >= MaxEntries
  BY DEF ErrorsKept
<1>3. /\ old \subseteq new /\ IsFiniteSet(new)
      /\ Cardinality(new) \in Nat /\ Cardinality(old) \in Nat
  <2>1. old \subseteq new /\ new \in SUBSET Errors /\ old \in SUBSET Errors
    BY <1>1
  <2> HIDE DEF old, new
  <2> QED
    BY <2>1, EntriesFinite
<1> HIDE DEF old
<1>4. Cardinality(new) >= MaxEntries
  <2> HIDE DEF new
  <2> QED
    BY <1>2, <1>3, FS_Subset, JournalConstants
<1> QED
  BY <1>4

\* The next number, behind entries that are older.
LEMMA Newest ==
  ASSUME JournalTypeOK, LogInv, logged < MaxErrors
  PROVE  /\ logged + 1 \in Errors
         /\ Append(errors, logged + 1) \in Seq(Errors)
         /\ Rising(Append(errors, logged + 1))
         /\ ToSet(Append(errors, logged + 1)) = ToSet(errors) \cup {logged + 1}
         /\ \A e \in ToSet(errors) \cup InFile : e \in Nat /\ e < logged + 1
<1>1. /\ logged \in Nat /\ logged + 1 \in Errors /\ errors \in Seq(Errors) /\ errors \in Seq(Lines)
      /\ ToSet(errors) \subseteq Errors /\ Errors \subseteq Nat /\ Errors \subseteq Lines
  <2>1. logged \in Nat /\ logged + 1 \in Errors
    BY JournalConstants DEF JournalTypeOK, Errors
  <2>2. errors \in Seq(Lines)
    BY FileType, SeqMonotonic, LinesAre
  <2> QED
    BY <2>1, <2>2, FileType, ToSetOf, LinesAre
<1>2. \A e \in ToSet(errors) \cup InFile : e \in Nat /\ e < logged + 1
  <2>1. ToSet(errors) \cup InFile \subseteq Nat
    BY <1>1 DEF InFile, EntriesIn
  <2> QED
    BY <1>1, <2>1 DEF LogInv
<1> DEFINE one == <<logged + 1>>
<1>3. /\ Append(errors, logged + 1) = errors \o one /\ Append(errors, logged + 1) \in Seq(Errors)
      /\ one \in Seq(Lines) /\ Len(one) = 1 /\ ToSet(one) = {logged + 1}
  <2>1. one \in Seq(Lines) /\ Len(one) = 1 /\ one[1] = logged + 1
    BY <1>1
  <2>2. ToSet(one) = {one[i] : i \in 1..1}
    BY <2>1, ToSetOf
  <2>3. ToSet(one) = {logged + 1}
    <3> HIDE DEF one
    <3> QED
      BY <2>1, <2>2
  <2>4. Append(errors, logged + 1) = errors \o one
    BY <1>1, AppendIsConcat
  <2>5. Append(errors, logged + 1) \in Seq(Errors)
    BY <1>1, AppendProperties
  <2> QED
    BY <2>1, <2>3, <2>4, <2>5
<1>4. Rising(errors \o one)
  <2>1. \A e \in EntriesIn(one) : \A d \in EntriesIn(errors) : d < e
    BY <1>2, <1>3 DEF EntriesIn
  <2> HIDE DEF one
  <2> QED
    BY <1>1, <1>3, <2>1, RisingMore DEF LogInv
<1>5. ToSet(errors \o one) = ToSet(errors) \cup {logged + 1}
  <2> HIDE DEF one
  <2> QED
    BY <1>1, <1>3, ConcatSet
<1> QED
  BY <1>1, <1>2, <1>3, <1>4, <1>5

LEMMA ErrorsOwed ==
  ASSUME LogInv, NEW r \in Requests, req[r].pc # "idle"
  PROVE  ToSet(errors) \ lost \subseteq EntriesIn(lines) \cup EntriesIn(tail)
  BY DEF LogInv, Owed, InFile

\* WriteEntry and WriteFails append to the memory.
LEMMA AppendsError ==
  ASSUME JournalTypeOK, JournalTypeOK', LogInv, NEW r \in Requests, req[r].pc = "log",
         logged < MaxErrors, logged' = logged + 1, errors' = Append(errors, logged'),
         lost \subseteq lost', UNCHANGED <<phase, before>>,
         Rising(AllLines'), InFile' \subseteq InFile \cup {logged'},
         ToSet(errors') \ lost' \subseteq InFile'
  PROVE  LogInv'
<1>1. phase = "serving" /\ phase' = "serving"
  BY DEF LogInv
<1>2. /\ Rising(errors') /\ ToSet(errors') = ToSet(errors) \cup {logged'}
      /\ \A e \in ToSet(errors) \cup InFile : e \in Nat /\ e < logged'
      /\ logged' \in Nat
  <2>1. errors' = Append(errors, logged + 1) /\ logged \in Nat
    BY DEF JournalTypeOK
  <2> QED
    BY <2>1, Newest
<1>3. \A e \in ToSet(errors') \cup InFile' : e <= logged'
  BY <1>2
<1>4. Owed' = ToSet(errors')
  BY <1>1 DEF Owed
<1>5. ErrorsKept'
  BY <1>1, <1>2, KeptGrows DEF LogInv
<1> QED
  BY <1>1, <1>2, <1>3, <1>4, <1>5 DEF LogInv

LEMMA WriteEntryLog ==
  ASSUME JournalTypeOK, JournalTypeOK', LogInv, NEW r \in Requests, WriteEntry(r) PROVE LogInv'
<1>1. /\ req[r].pc = "log" /\ logged < MaxErrors /\ logged' = logged + 1
      /\ errors' = Append(errors, logged') /\ UNCHANGED <<phase, before, lines>>
      /\ tail' \in {tail, <<Bad>>, <<Long>>, <<logged'>>}
      /\ lost' = lost \cup ((EntriesIn(tail) \cup {logged'}) \ EntriesIn(tail'))
  BY DEF WriteEntry
<1>2. /\ lines \in Seq(Lines) /\ tail \in Seq(Lines) /\ tail' \in Seq(Lines) /\ Len(tail') <= 1
      /\ AllLines' = lines \o tail'
  BY <1>1, FileType DEF JournalTypeOK, AllLines
<1>3. /\ logged' \in Errors
      /\ ToSet(errors') = ToSet(errors) \cup {logged'}
      /\ \A e \in ToSet(errors) \cup InFile : e \in Nat /\ e < logged'
  <2>1. errors' = Append(errors, logged + 1) /\ logged \in Nat
    BY <1>1 DEF JournalTypeOK
  <2> QED
    BY <1>1, <2>1, Newest
<1>4. CASE tail' = tail
  <2>1. AllLines' = AllLines /\ InFile' = InFile
    BY <1>1, <1>4 DEF AllLines, InFile
  <2> QED
    <3>1. Rising(AllLines') /\ InFile' \subseteq InFile \cup {logged'} /\ lost \subseteq lost'
      BY <1>1, <2>1 DEF LogInv
    <3>2. ToSet(errors') \ lost' \subseteq InFile'
      BY <1>1, <1>3, <1>4, <2>1, ErrorsOwed DEF InFile, EntriesIn
    <3> QED
      BY <1>1, <3>1, <3>2, AppendsError
<1>5. ASSUME NEW e \in {Bad, Long, logged'}, tail' = <<e>> PROVE LogInv'
  <2>1. ToSet(tail') = {e} /\ EntriesIn(tail') \subseteq {logged'}
    <3>1. Len(tail') = 1 /\ tail'[1] = e
      BY <1>5
    <3>2. ToSet(tail') = {tail'[i] : i \in 1..Len(tail')}
      BY <1>2, ToSetOf
    <3>3. ToSet(tail') = {e}
      BY <3>1, <3>2
    <3> QED
      BY <3>3, LinesAre DEF EntriesIn
  <2>2. Rising(AllLines')
    <3>1. Rising(lines)
      BY <1>2, RisingFirst DEF LogInv, AllLines
    <3>2. \A f \in EntriesIn(tail') : \A d \in EntriesIn(lines) : d < f
      BY <1>3, <2>1 DEF InFile
    <3>3. \A t \in Seq(Lines) : /\ Len(t) <= 1
                                /\ \A f \in EntriesIn(t) : \A d \in EntriesIn(lines) : d < f
                                => Rising(lines \o t)
      BY <1>2, <3>1, RisingMore
    <3> QED
      BY <1>2, <3>2, <3>3
  <2>3. InFile' \subseteq InFile \cup {logged'} /\ lost \subseteq lost'
    BY <1>1, <2>1 DEF InFile
  <2>4. ToSet(errors') \ lost' \subseteq InFile'
    BY <1>1, <1>3, ErrorsOwed DEF InFile
  <2> QED
    BY <1>1, <2>2, <2>3, <2>4, AppendsError
<1> QED
  BY <1>1, <1>4, <1>5

LEMMA WriteFailsLog ==
  ASSUME JournalTypeOK, JournalTypeOK', LogInv, NEW r \in Requests, WriteFails(r) PROVE LogInv'
<1>1. /\ req[r].pc = "log" /\ logged < MaxErrors /\ logged' = logged + 1
      /\ errors' = Append(errors, logged') /\ UNCHANGED <<phase, before, lines, tail>>
      /\ lost' = lost \cup {logged'}
  BY DEF WriteFails, file
<1>2. ToSet(errors') = ToSet(errors) \cup {logged'}
  BY <1>1, Newest
<1>3. Rising(AllLines') /\ InFile' = InFile
  BY <1>1 DEF LogInv, InFile, AllLines
<1>4. ToSet(errors') \ lost' \subseteq InFile'
  BY <1>1, <1>2, <1>3, ErrorsOwed DEF InFile
<1> QED
  BY <1>1, <1>3, <1>4, AppendsError

LEMMA QuietLog ==
  ASSUME JournalTypeOK, LogInv, NEW r \in Requests,
         UNCHANGED <<phase, errors, logged, before, lost>>,
         AllLines' = AllLines, InFile' = InFile,
         phase = "serving"
  PROVE  LogInv'
<1>1. Owed' = Owed /\ ErrorsKept'
  BY DEF LogInv, Owed, ErrorsKept
<1> QED
  BY <1>1 DEF LogInv

LEMMA RequestsLog ==
  ASSUME JournalTypeOK, LogInv, NEW r \in Requests,
         Begin(r) \/ Handle(r) \/ Panics(r) \/ LogRequest(r)
  PROVE  LogInv'
<1>1. UNCHANGED <<phase, errors, logged, before, lost, lines, tail>>
  BY DEF Begin, Handle, Panics, LogRequest, log
<1>2. phase = "serving"
  BY DEF Begin, Handle, Panics, LogRequest, LogInv
<1>3. AllLines' = AllLines /\ InFile' = InFile
  BY <1>1 DEF InFile, AllLines
<1> QED
  BY <1>1, <1>2, <1>3, QuietLog

LEMMA WriteNewlineLog ==
  ASSUME JournalTypeOK, LogInv, NEW r \in Requests, WriteNewline(r) PROVE LogInv'
<1>1. /\ UNCHANGED <<phase, errors, logged, before, lost>> /\ req[r].pc = "newline"
      /\ (lines' = lines \o tail /\ tail' = <<>>) \/ UNCHANGED <<lines, tail>>
  BY DEF WriteNewline, file
<1>2. phase = "serving"
  BY <1>1 DEF LogInv
<1>3. AllLines' = AllLines /\ InFile' = InFile
  <2>1. CASE lines' = lines \o tail /\ tail' = <<>>
    <3>1. ToSet(tail') = {}
      BY <2>1 DEF ToSet
    <3>2. ToSet(lines') = ToSet(lines) \cup ToSet(tail)
      BY <2>1, FileType, ConcatSet
    <3>3. AllLines' = AllLines
      BY <2>1, FileType, ConcatEmptySeq DEF AllLines
    <3> QED
      BY <3>1, <3>2, <3>3 DEF InFile, EntriesIn
  <2>2. CASE UNCHANGED <<lines, tail>>
    BY <2>2 DEF AllLines, InFile
  <2> QED
    BY <1>1, <2>1, <2>2
<1> QED
  BY <1>1, <1>2, <1>3, QuietLog

\* The first entries of the memory, and perhaps the next.
LEMMA RisingPrefix ==
  ASSUME NEW s \in Seq(Errors), Rising(s), NEW k \in 0..Len(s), NEW rest \in Seq(Lines),
         rest \in IF k = Len(s) THEN {<<>>} ELSE {<<>>, <<Bad>>, <<s[k + 1]>>}
  PROVE  /\ Rising(SubSeq(s, 1, k) \o rest)
         /\ EntriesIn(SubSeq(s, 1, k)) \subseteq ToSet(s) /\ EntriesIn(rest) \subseteq ToSet(s)
<1> DEFINE first == SubSeq(s, 1, k)
<1>1. /\ first \in Seq(Errors) /\ Len(first) = k /\ \A i \in 1..k : first[i] = s[i]
      /\ Len(s) \in Nat /\ k \in Nat
  <2>1. \A i \in 1..k : s[i] \in Errors
    OBVIOUS
  <2> QED
    BY <2>1, SubSeqProperties
<1> HIDE DEF first
<1>2. first \in Seq(Lines)
  BY <1>1, SeqMonotonic, LinesAre
<1>3. Rising(first)
  <2>1. \A i \in 1..k : i \in 1..Len(s)
    BY <1>1
  <2> QED
    BY <1>1, <2>1 DEF Rising
<1>4. /\ ToSet(first) = {first[i] : i \in 1..k} /\ ToSet(s) = {s[i] : i \in 1..Len(s)}
      /\ ToSet(rest) = {rest[i] : i \in 1..Len(rest)}
  BY <1>1, ToSetOf
<1>5. ToSet(first) \subseteq ToSet(s)
  <2>1. \A i \in 1..k : i \in 1..Len(s)
    BY <1>1
  <2> QED
    BY <1>1, <1>4, <2>1
<1>6. \A e \in EntriesIn(rest) : k + 1 \in 1..Len(s) /\ e = s[k + 1]
  <2>1. CASE rest = <<>>
    BY <1>4, <2>1 DEF EntriesIn
  <2>2. CASE k # Len(s) /\ rest \in {<<Bad>>, <<s[k + 1]>>}
    <3>1. Len(rest) = 1 /\ rest[1] \in {Bad, s[k + 1]}
      BY <2>2
    <3>2. ToSet(rest) \subseteq {Bad, s[k + 1]}
      BY <1>4, <3>1
    <3> QED
      BY <1>1, <2>2, <3>2, LinesAre DEF EntriesIn
  <2> QED
    BY <2>1, <2>2
<1>7. EntriesIn(rest) \subseteq ToSet(s)
  BY <1>4, <1>6
<1>8. \A e \in EntriesIn(rest) : \A d \in EntriesIn(first) : d < e
  <2> SUFFICES ASSUME NEW e \in EntriesIn(rest), NEW i \in 1..k PROVE first[i] < e
    BY <1>4 DEF EntriesIn
  <2>1. e = s[k + 1] /\ k + 1 \in 1..Len(s) /\ i \in 1..Len(s) /\ i < k + 1
    BY <1>1, <1>6
  <2>2. s[i] \in Errors /\ s[k + 1] \in Errors
    BY <2>1
  <2> QED
    BY <1>1, <2>1, <2>2 DEF Rising
<1>9. Len(rest) <= 1
  <2>1. rest = <<>> \/ rest = <<Bad>> \/ rest = <<s[k + 1]>>
    OBVIOUS
  <2>2. /\ Len(<<>>) <= 1 /\ Len(<<Bad>>) <= 1 /\ Len(<<s[k + 1]>>) <= 1
    OBVIOUS
  <2> QED
    BY <2>1, <2>2
<1>10. Rising(first \o rest)
  BY <1>2, <1>3, <1>8, <1>9, RisingMore
<1> QED
  BY <1>5, <1>7, <1>10 DEF first, EntriesIn

\* A file made by a rewrite, whole or not.
LEMMA WrittenLog ==
  ASSUME JournalTypeOK, LogInv, Written
  PROVE  /\ Rising(AllLines') /\ InFile' \subseteq ToSet(errors)
         /\ ToSet(errors) \ lost' \subseteq InFile' /\ lost \subseteq lost'
<1>1. PICK k \in 0..Len(errors) :
        /\ lines' = SubSeq(errors, 1, k)
        /\ tail' \in IF k = Len(errors) THEN {<<>>} ELSE {<<>>, <<Bad>>, <<errors[k + 1]>>}
        /\ lost' = lost \cup (EntriesIn(errors) \ (EntriesIn(lines') \cup EntriesIn(tail')))
  BY DEF Written
<1>2. errors \in Seq(Errors) /\ tail' \in Seq(Lines) /\ ToSet(errors) \subseteq Errors
  BY FileType, WrittenType, ToSetOf
<1>3. /\ Rising(lines' \o tail')
      /\ EntriesIn(lines') \subseteq ToSet(errors) /\ EntriesIn(tail') \subseteq ToSet(errors)
  <2> DEFINE rest == tail'
             first == SubSeq(errors, 1, k)
  <2>1. rest \in Seq(Lines) /\ Rising(errors)
    BY <1>2 DEF LogInv
  <2>2. rest \in IF k = Len(errors) THEN {<<>>} ELSE {<<>>, <<Bad>>, <<errors[k + 1]>>}
    BY <1>1
  <2> HIDE DEF rest
  <2>3. /\ Rising(first \o rest)
        /\ EntriesIn(first) \subseteq ToSet(errors) /\ EntriesIn(rest) \subseteq ToSet(errors)
    BY <1>2, <2>1, <2>2, RisingPrefix
  <2>4. lines' = first /\ tail' = rest
    BY <1>1 DEF rest
  <2> HIDE DEF first
  <2> QED
    BY <2>3, <2>4
<1> QED
  BY <1>1, <1>2, <1>3 DEF AllLines, InFile, EntriesIn

LEMMA StopLog == ASSUME JournalTypeOK, LogInv, Stop PROVE LogInv'
<1>1. /\ phase # "down" /\ phase' = "down" /\ errors' = <<>> /\ before' = ToSet(errors)
      /\ logged' = logged /\ \A r \in Requests : req'[r].pc = "idle"
  BY DEF Stop, NoRequest
<1>2. ToSet(errors') = {} /\ Rising(errors')
  BY <1>1 DEF ToSet, Rising
<1>3. Owed = ToSet(errors) /\ Owed' = ToSet(errors)
  BY <1>1 DEF Owed
<1>4. /\ Rising(AllLines') /\ InFile' \subseteq ToSet(errors) \cup InFile
      /\ ToSet(errors) \ lost' \subseteq InFile'
  <2>1. CASE UNCHANGED <<file, lost>>
    BY <1>3, <2>1 DEF file, LogInv, InFile, AllLines
  <2> QED
    BY <2>1, WrittenLog DEF Stop
<1>5. \A e \in ToSet(errors') \cup InFile' : e <= logged'
  BY <1>1, <1>2, <1>4 DEF LogInv
<1>6. ErrorsKept'
  BY <1>1 DEF ErrorsKept
<1> QED
  BY <1>1, <1>2, <1>3, <1>4, <1>5, <1>6 DEF LogInv

\* The end of a rising sequence: what is left out is older than all of it.
LEMMA LastOfRising ==
  ASSUME NEW s \in Seq(Errors), Rising(s), NEW n \in Nat
  PROVE  /\ LastOf(s, n) \in Seq(Errors) /\ Rising(LastOf(s, n))
         /\ ToSet(LastOf(s, n)) \subseteq ToSet(s)
         /\ \A e \in ToSet(s) : e \notin ToSet(LastOf(s, n)) =>
              Len(LastOf(s, n)) = n /\ \A f \in ToSet(LastOf(s, n)) : f > e
<1> DEFINE t == LastOf(s, n)
           cut == Len(s) - Len(t)
<1>1. /\ t \in Seq(Errors) /\ Len(t) = IF Len(s) > n THEN n ELSE Len(s)
      /\ \A i \in 1..Len(t) : i + cut \in 1..Len(s) /\ t[i] = s[i + cut]
      /\ Len(s) \in Nat /\ Len(t) \in Nat /\ cut \in Nat /\ cut + Len(t) = Len(s)
  <2>1. /\ t \in Seq(Errors) /\ Len(t) = IF Len(s) > n THEN n ELSE Len(s)
        /\ \A i \in 1..Len(t) : i + cut \in 1..Len(s) /\ t[i] = s[i + cut]
    BY LastOfType
  <2>2. Len(s) \in Nat /\ Len(t) \in Nat
    BY <2>1, LenProperties
  <2> HIDE DEF t
  <2>3. cut \in Nat /\ cut + Len(t) = Len(s)
    BY <2>1, <2>2
  <2> HIDE DEF cut
  <2> QED
    BY <2>1, <2>2, <2>3
<1>2. ToSet(t) = {t[i] : i \in 1..Len(t)} /\ ToSet(s) = {s[i] : i \in 1..Len(s)}
  BY <1>1, ToSetOf
<1> HIDE DEF t, cut
<1>3. Rising(t)
  <2> SUFFICES ASSUME NEW i \in 1..Len(t), NEW j \in 1..Len(t), i < j, t[i] \in Errors, t[j] \in Errors
               PROVE  t[i] < t[j]
    BY DEF Rising
  <2>1. i + cut < j + cut
    BY <1>1
  <2> QED
    BY <1>1, <2>1 DEF Rising
<1>4. ToSet(t) \subseteq ToSet(s)
  BY <1>1, <1>2
<1>5. ASSUME NEW e \in ToSet(s), e \notin ToSet(t)
      PROVE  Len(t) = n /\ \A f \in ToSet(t) : f > e
  <2>1. PICK i \in 1..Len(s) : e = s[i]
    BY <1>2
  <2>2. i <= cut
    <3> SUFFICES ASSUME ~(i <= cut) PROVE FALSE
      BY <2>1
    <3>1. i - cut \in 1..Len(t) /\ (i - cut) + cut = i
      BY <1>1
    <3>2. t[i - cut] = e
      BY <1>1, <2>1, <3>1
    <3> QED
      BY <1>2, <1>5, <3>1, <3>2
  <2>3. Len(t) = n
    BY <1>1, <2>2
  <2>4. ASSUME NEW j \in 1..Len(t) PROVE t[j] > e
    <3>1. i < j + cut /\ j + cut \in 1..Len(s) /\ t[j] = s[j + cut]
      BY <1>1, <2>2
    <3>2. s[i] \in Errors /\ s[j + cut] \in Errors /\ Errors \subseteq Nat
      BY <3>1, LinesAre
    <3>3. s[i] < s[j + cut]
      BY <3>1, <3>2 DEF Rising
    <3> QED
      BY <2>1, <3>1, <3>2, <3>3
  <2> QED
    BY <1>2, <2>3, <2>4
<1> QED
  BY <1>1, <1>3, <1>4, <1>5 DEF t

\* What is not among the first lines is among the rest.
LEMMA SplitSet ==
  ASSUME NEW S, NEW s \in Seq(S), NEW n \in 0..Len(s)
  PROVE  ToSet(s) = {s[i] : i \in 1..n} \cup ToSet(SubSeq(s, n + 1, Len(s)))
<1> DEFINE rest == SubSeq(s, n + 1, Len(s))
<1>1. /\ Len(s) \in Nat /\ n \in Nat /\ rest \in Seq(S) /\ Len(rest) = Len(s) - n
      /\ \A i \in 1..Len(s) - n : rest[i] = s[n + i]
  <2>1. Len(s) \in Nat /\ \A i \in n + 1..Len(s) : s[i] \in S
    OBVIOUS
  <2>2. /\ rest \in Seq(S) /\ Len(rest) = Len(s) - n
        /\ \A i \in 1..Len(s) - n : rest[i] = s[n + i]
    OBVIOUS
  <2> QED
    BY <2>1, <2>2
<1> HIDE DEF rest
<1>2. ToSet(rest) = {rest[i] : i \in 1..Len(rest)} /\ ToSet(s) = {s[i] : i \in 1..Len(s)}
  BY <1>1, ToSetOf
<1>3. \A i \in 1..Len(s) : i \in 1..n \/ (i - n \in 1..Len(rest) /\ rest[i - n] = s[i])
  BY <1>1
<1>4. /\ \A i \in 1..n : i \in 1..Len(s)
      /\ \A i \in 1..Len(rest) : n + i \in 1..Len(s) /\ rest[i] = s[n + i]
  BY <1>1
<1>5. ToSet(s) = {s[i] : i \in 1..n} \cup ToSet(rest)
  BY <1>2, <1>3, <1>4
<1> QED
  BY <1>5 DEF rest

LEMMA StartLog ==
  ASSUME JournalTypeOK, JournalTypeOK', LogInv, Start PROVE LogInv'
<1>1. PICK n \in 0..Len(AllLines) :
        /\ \A i \in 1..n : AllLines[i] # Long
        /\ errors' = LastOf(Parsed(n), MaxEntries)
        /\ phase' = IF Len(errors') = MaxEntries THEN "rewriting" ELSE "serving"
        /\ lost' = lost \cup EntriesIn(SubSeq(AllLines, n + 1, Len(AllLines)))
  BY DEF Start
<1>2. /\ phase = "down" /\ phase' # "down" /\ UNCHANGED <<req, logged, lines, tail, before>>
      /\ MaxEntries \in Nat /\ 0 < MaxEntries
  BY <1>1, JournalConstants DEF Start, file
<1>3. /\ Parsed(n) \in Seq(Errors) /\ Rising(Parsed(n))
      /\ ToSet(Parsed(n)) = {AllLines[i] : i \in 1..n} \ {Bad}
      /\ ToSet(Parsed(n)) \subseteq Errors
  <2>1. /\ Parsed(n) \in Seq(Errors) /\ Rising(Parsed(n))
        /\ ToSet(Parsed(n)) = {AllLines[i] : i \in 1..n} \ {Bad}
    BY <1>1, ParsedKeeps DEF LogInv
  <2> QED
    BY <2>1, ToSetOf
<1>4. /\ ToSet(Parsed(n)) \subseteq InFile /\ InFile' = InFile /\ AllLines' = AllLines
      /\ InFile \ lost' \subseteq ToSet(Parsed(n))
  <2>1. ToSet(AllLines) = ToSet(lines) \cup ToSet(tail)
    BY FileType, ConcatSet DEF AllLines
  <2>2. ToSet(AllLines) = {AllLines[i] : i \in 1..n}
                            \cup ToSet(SubSeq(AllLines, n + 1, Len(AllLines)))
    BY FileType, SplitSet
  <2>3. InFile = ToSet(AllLines) \cap Errors
    BY <2>1 DEF InFile, EntriesIn
  <2>4. InFile' = InFile /\ AllLines' = AllLines
    BY <1>2 DEF InFile, AllLines
  <2> QED
    BY <1>1, <1>3, <2>2, <2>3, <2>4, LinesAre DEF EntriesIn
<1>5. /\ errors' \in Seq(Errors) /\ Rising(errors') /\ ToSet(errors') \subseteq ToSet(Parsed(n))
      /\ \A e \in ToSet(Parsed(n)) : e \notin ToSet(errors') =>
           Len(errors') = MaxEntries /\ \A f \in ToSet(errors') : f > e
  BY <1>1, <1>2, <1>3, LastOfRising
<1>6. \A r \in Requests : req'[r].pc = "idle"
  BY <1>2 DEF LogInv
<1>7. Owed = before /\ Owed' = ToSet(errors')
  BY <1>2 DEF Owed
<1>8. ErrorsKept'
  <2> SUFFICES ASSUME NEW e \in before' \ lost', e \notin ToSet(errors')
               PROVE  Cardinality({f \in ToSet(errors') : f > e}) >= MaxEntries
    BY DEF ErrorsKept
  <2>1. e \in ToSet(Parsed(n))
    BY <1>1, <1>2, <1>4, <1>7 DEF LogInv
  <2>2. Len(errors') = MaxEntries /\ {f \in ToSet(errors') : f > e} = ToSet(errors')
    BY <1>5, <2>1
  <2>3. Cardinality(ToSet(errors')) = Len(errors')
    BY <1>5, RisingCount
  <2> DEFINE newer == {f \in ToSet(errors') : f > e}
  <2>4. newer = ToSet(errors')
    BY <2>2
  <2> HIDE DEF newer
  <2>5. Cardinality(newer) >= MaxEntries
    BY <1>2, <2>2, <2>3, <2>4
  <2> QED
    BY <2>5 DEF newer
<1>9. /\ Rising(AllLines') /\ \A e \in ToSet(errors') \cup InFile' : e <= logged'
      /\ Owed' \ lost' \subseteq InFile'
  BY <1>2, <1>4, <1>5, <1>7 DEF LogInv
<1> QED
  BY <1>5, <1>6, <1>8, <1>9 DEF LogInv

LEMMA RewriteLog == ASSUME JournalTypeOK, LogInv, RewriteFile PROVE LogInv'
<1>1. /\ phase = "rewriting" /\ phase' = "serving" /\ UNCHANGED <<req, errors, logged, before>>
  BY DEF RewriteFile
<1>2. Owed = ToSet(errors) /\ Owed' = ToSet(errors)
  BY <1>1 DEF Owed
<1>3. /\ Rising(AllLines') /\ InFile' \subseteq ToSet(errors) \cup InFile
      /\ ToSet(errors) \ lost' \subseteq InFile' /\ lost \subseteq lost'
  <2>1. CASE UNCHANGED <<file, lost>>
    BY <1>2, <2>1 DEF file, LogInv, InFile, AllLines
  <2> QED
    BY <2>1, WrittenLog DEF RewriteFile
<1>4. ErrorsKept'
  BY <1>1, <1>3 DEF LogInv, ErrorsKept
<1> QED
  BY <1>1, <1>2, <1>3, <1>4 DEF LogInv

\* The invariant of the journal.
JInv == JournalTypeOK /\ RingInv /\ LogInv

LEMMA JInitInv == JournalInit => JInv
<1> SUFFICES ASSUME JournalInit PROVE JInv
  OBVIOUS
<1>1. JournalTypeOK
  <2>1. req \in [Requests -> RequestType] /\ entries \in [0..Capacity - 1 -> Entries]
    BY NoRequestType DEF JournalInit
  <2>2. done \in Seq(Entries) /\ errors \in Seq(Errors) /\ lines \in Seq(Lines) /\ tail \in Seq(Lines)
    BY DEF JournalInit
  <2>3. /\ head \in 0..Capacity - 1 /\ count \in 0..Capacity /\ begun \in 0..MaxRequests
        /\ logged \in 0..MaxErrors /\ restarts \in 0..MaxRestarts /\ Len(tail) <= 1
    BY JournalConstants DEF JournalInit
  <2> QED
    BY <2>1, <2>2, <2>3 DEF JournalInit, JournalTypeOK, RequestType
<1>2. RingInv
  <2>1. count = 0 /\ Len(done) = 0 /\ \A i \in 0..count - 1 : FALSE
    BY DEF JournalInit
  <2> QED
    BY <2>1, JournalConstants DEF RingInv
<1>3. LogInv
  <2>1. /\ ToSet(errors) = {} /\ ToSet(lines) = {} /\ ToSet(tail) = {} /\ Len(errors) = 0
        /\ \A i \in 1..Len(errors) : FALSE
    BY DEF JournalInit, ToSet
  <2>2. AllLines = errors
    BY DEF JournalInit, AllLines
  <2>3. Rising(errors) /\ Rising(AllLines)
    BY <2>1, <2>2 DEF Rising
  <2>4. ErrorsKept
    BY DEF JournalInit, ErrorsKept
  <2> QED
    BY <2>1, <2>3, <2>4 DEF LogInv, JournalInit, InFile, Owed, EntriesIn
<1> QED
  BY <1>1, <1>2, <1>3 DEF JInv

LEMMA RingKept == ASSUME RingInv, UNCHANGED ring PROVE RingInv'
  BY DEF RingInv, At, ring

LEMMA JNextInv == JInv /\ [JournalNext]_journalVars => JInv'
<1> SUFFICES ASSUME JInv, [JournalNext]_journalVars PROVE JInv'
  OBVIOUS
<1>0. JournalTypeOK /\ RingInv /\ LogInv
  BY DEF JInv
<1>1. ASSUME NEW r \in Requests, Begin(r) \/ Handle(r) \/ Panics(r) \/ LogRequest(r)
      PROVE  JInv'
  <2>1. JournalTypeOK' /\ LogInv'
    BY <1>0, <1>1, RequestsType, RequestsLog
  <2>2. RingInv'
    <3>1. CASE LogRequest(r)
      <4>1. [id |-> req[r].id, status |-> req[r].status, nr |-> req[r].nr] \in Entries
        BY <1>0 DEF JournalTypeOK, Entries
      <4> QED
        BY <1>0, <3>1, <4>1, AddRing DEF LogRequest
    <3>2. CASE ~LogRequest(r)
      BY <1>0, <1>1, <3>2, RingKept DEF Begin, Handle, Panics
    <3> QED
      BY <3>1, <3>2
  <2> QED
    BY <2>1, <2>2 DEF JInv
<1>2. ASSUME NEW r \in Requests, WriteEntry(r) \/ WriteNewline(r) \/ WriteFails(r) PROVE JInv'
  <2>1. JournalTypeOK'
    BY <1>0, <1>2, WritesType
  <2>2. LogInv'
    BY <1>0, <1>2, <2>1, WriteEntryLog, WriteNewlineLog, WriteFailsLog
  <2>3. RingInv'
    BY <1>0, <1>2, RingKept DEF WriteEntry, WriteNewline, WriteFails
  <2> QED
    BY <2>1, <2>2, <2>3 DEF JInv
<1>3. CASE Stop
  <2>1. JournalTypeOK' /\ LogInv'
    BY <1>0, <1>3, StopType, StopLog
  <2>2. RingInv'
    <3>1. count' = 0 /\ Len(done') = 0 /\ \A i \in 0..count' - 1 : FALSE
      BY <1>3 DEF Stop
    <3> QED
      BY <3>1, JournalConstants DEF RingInv
  <2> QED
    BY <2>1, <2>2 DEF JInv
<1>4. CASE Start
  <2>1. JournalTypeOK'
    BY <1>0, <1>4, StartType DEF LogInv
  <2>2. LogInv' /\ RingInv'
    BY <1>0, <1>4, <2>1, StartLog, RingKept DEF Start
  <2> QED
    BY <2>1, <2>2 DEF JInv
<1>5. CASE RewriteFile
  <2>1. JournalTypeOK' /\ LogInv'
    BY <1>0, <1>5, RewriteType, RewriteLog
  <2>2. RingInv'
    BY <1>0, <1>5, RingKept DEF RewriteFile
  <2> QED
    BY <2>1, <2>2 DEF JInv
<1>6. CASE UNCHANGED journalVars
  <2>1. UNCHANGED <<phase, req, begun, ring, entries, head, count, done, errors, logged, lines,
                    tail, mu, lost, before, restarts>>
    BY <1>6 DEF journalVars, ring, log
  <2>2. JournalTypeOK' /\ RingInv'
    BY <1>0, <2>1, RingKept DEF JournalTypeOK
  <2>3. LogInv'
    BY <1>0, <2>1 DEF LogInv, InFile, Owed, ErrorsKept, AllLines
  <2> QED
    BY <2>2, <2>3 DEF JInv
<1> QED
  BY <1>1, <1>2, <1>3, <1>4, <1>5, <1>6 DEF JournalNext

\* The strengthening that the theorems about the logs rest on (buffer.go, errorlog.go).
THEOREM JournalInductive == JournalSpec => []JInv
  BY JInitInv, JNextInv, PTL DEF JournalSpec

\* Type correctness of the debug ring, the request chain and the error log.
THEOREM JournalTypeCorrect == JournalSpec => []JournalTypeOK
<1>1. JInv => JournalTypeOK
  BY DEF JInv
<1> QED
  BY <1>1, JournalInductive, PTL

\* What /debug shows is the history of requests, for every size of the ring: GetRecent,
\* GetRecentErrors, Get and the counts of GetStats (buffer.go).
THEOREM DebugShowsHistory == JournalSpec => []RecentIsHistory
<1>1. JInv => RecentIsHistory
  BY RingIsHistory DEF JInv
<1> QED
  BY <1>1, JournalInductive, PTL

\* An error that was shown before a stop is shown after the next start, unless
\* MaxEntries newer ones are or it was lost: at its own write, by an append to its line,
\* in a rewrite, or where the reading of the file ended (errorlog.go).
THEOREM ErrorsSurviveRestarts == JournalSpec => []ErrorsKept
<1>1. JInv => ErrorsKept
  BY DEF JInv, LogInv
<1> QED
  BY <1>1, JournalInductive, PTL
=============================================================================
