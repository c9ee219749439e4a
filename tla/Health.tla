-------------------------------- MODULE Health --------------------------------
(***************************************************************************)
(* The health of a site: the static checks (internal/verify), the runtime  *)
(* checks that only the server's debug endpoint can make                   *)
(* (internal/debug, verify_handler.go), `vel verify`, which asks for both, *)
(* and /api/health, which caches what they find and holds its lock while   *)
(* it asks (internal/server, healthCacher).                                *)
(*                                                                         *)
(* An app's verify.json may name any path, /api/health too: the checks     *)
(* then wait for the answer they are part of.  A call is a pair <<slot,    *)
(* level>>: the call at level 1 came from outside, each of the others was  *)
(* made by the call above it.                                              *)
(***************************************************************************)
EXTENDS Naturals, FiniteSets

CONSTANTS Slots, KindsOf,             \* and the kinds of request each is for
          Panels, Sources, Producers, \* producers: the sources with a script
          Registered,                 \* checks that apps registered
          Apps, AppChecks, AppOf,     \* those of their verify.json
          FileChecks, AuthChecks, FieldChecks, SelfChecks, \* what they ask for
          Worlds,                     \* a world is the set of facts that hold in it
          None,
          Levels,                     \* bound on the calls within calls
          MaxChanges,                 \* bound on the changes of the world
          TTL, Timeout                \* in ticks

ASSUME HealthAssumption ==
  /\ KindsOf \in [Slots -> SUBSET {"health", "cli", "debug"}]
  /\ Producers \subseteq Sources
  /\ AppOf \in [AppChecks -> Apps]
  /\ FileChecks \cup AuthChecks \cup FieldChecks \cup SelfChecks \subseteq AppChecks
  /\ FileChecks \cap (AuthChecks \cup FieldChecks \cup SelfChecks) = {}
  /\ None \notin Slots \X (1..Levels)
  /\ {Levels, MaxChanges, Timeout, TTL} \subseteq Nat /\ 0 < Levels /\ 0 < Timeout /\ Timeout < TTL

VARIABLES
  world, held,       \* what the checks would find, and for how long it has been so
  changes,           \* changes of the world so far
  lock,              \* the call that holds the cache's mutex
  cache, cacheAge,   \* the report kept, and the time since it was
  call

healthVars == <<world, held, changes, lock, cache, cacheAge, call>>

Calls == Slots \X (1..Levels)
Child(c) == <<c[1], c[2] + 1>>

\* The report of a run is at most this old when it has been served.
Window == TTL + Timeout

Idle == [kind |-> "none", pc |-> "idle", found |-> {}, timer |-> 0]

HealthInit ==
  /\ world \in Worlds /\ held = 0 /\ changes = 0
  /\ lock = None /\ cache = {} /\ cacheAge = TTL
  /\ call = [c \in Calls |-> Idle]

-----------------------------------------------------------------------------
(* The checks, each a set of results. *)

Is(w, fact) == <<fact, None>> \in w
Result(check, of, holds) == {<<check, of, IF holds THEN "ok" ELSE "fail">>}

checkConfig(w) ==
  Result("config", None, /\ Is(w, "config") /\ Is(w, "siteUrl")
                         /\ Is(w, "users") \/ Is(w, "allowedUsers"))

checkAuth(w) ==
  Result("auth", None, \/ Is(w, "botToken")
                       \/ Is(w, "config") /\ (Is(w, "token") \/ Is(w, "modeNone")))

checkOpenclawCLI(w) == Result("openclaw-cli", None, Is(w, "openclaw"))

\* What cannot be verified is in order.
checkTelegramDomain(w) ==
  Result("telegram_domain", None,
         {<<f, None>> : f \in {"botToken", "config", "siteUrl", "online"}} \subseteq w
           => Is(w, "domainAccepted"))

\* Every panel in the registry was entered with its manifest.
checkPanels == IF Panels = {} THEN Result("panels", None, TRUE)
               ELSE UNION {Result("panel", p, TRUE) : p \in Panels}

checkPanelData(w) ==
  UNION {Result("data", s, <<"file", s>> \in w) : s \in Sources}
    \cup {<<"producer", s, IF <<"script", s>> \notin w THEN "fail"
                           ELSE IF Is(w, "crontab") /\ <<"cron", s>> \notin w THEN "warn"
                           ELSE "ok">> : s \in Producers}

\* An app need not have a verify.json; one that is there has to parse.
BadVerifyFiles(w) ==
  UNION {Result("verify.json", a, FALSE) : a \in {a \in Apps : <<"invalid", a>> \in w}}

ReadChecks(w) == {k \in AppChecks : <<"valid", AppOf[k]>> \in w}

checkAppVerifyFileExists(w) ==
  BadVerifyFiles(w)
    \cup UNION {Result("file", k, <<"file", k>> \in w) : k \in ReadChecks(w) \cap FileChecks}

RunStaticChecks(w) ==
  checkConfig(w) \cup checkAuth(w) \cup checkOpenclawCLI(w) \cup checkTelegramDomain(w)
    \cup checkPanels \cup checkPanelData(w)
    \cup UNION {Result("registered", n, <<"pass", n>> \in w) : n \in Registered}
    \cup checkAppVerifyFileExists(w)

checkEndpoints(w) ==
  Result("/dashboard", None, Is(w, "dashboard") /\ Is(w, "html"))
    \cup Result("/api/sources", None, Is(w, "sources"))

checkAuthEnforcement(w) ==
  IF Is(w, "modeNone") THEN {}
  ELSE Result("enforced /dashboard", None, Is(w, "rejectsDashboard"))
         \cup Result("enforced /api/sources", None, Is(w, "rejectsSources"))

\* The path is requested past the authorisation; a check that expects a refusal
\* asks for it once more behind it, unless there is none.
checkAppVerifyHTTPGet(w) ==
  BadVerifyFiles(w)
    \cup UNION {Result("get", k,
                       IF k \in AuthChecks /\ ~Is(w, "modeNone") THEN <<"refused", k>> \in w
                       ELSE /\ <<"status", k>> \in w
                            /\ k \in FieldChecks \ AuthChecks => <<"field", k>> \in w) :
                k \in ReadChecks(w) \ FileChecks}

checkDeployScript(w) ==
  IF ~Is(w, "deploy.sh") THEN Result("deploy script", None, FALSE)
  ELSE Result("deploy script", None, TRUE)
         \cup IF ~Is(w, "bash") THEN Result("deploy syntax", None, FALSE)
              ELSE Result("deploy syntax", None, TRUE)
                     \cup Result("vel dir", None, Is(w, "velDir"))
                     \cup Result("service", None, Is(w, "service"))

checkGitRepo(w) == Result("git", None, Is(w, ".git") /\ Is(w, "branch"))

checkDeployDryRun(w) ==
  Result("go", None, Is(w, "go")) \cup Result("go.mod", None, Is(w, "go.mod"))

checkDataFreshness(w) ==
  {<<"fresh", s, IF <<"file", s>> \notin w THEN "fail"
                 ELSE IF <<"fresh", s>> \notin w THEN "warn" ELSE "ok">> : s \in Sources}

checkSessionsDataQuality(w) ==
  IF ~Is(w, "summary") THEN {}
  ELSE IF ~Is(w, "summaryValid") THEN Result("sessions valid", None, FALSE)
  ELSE IF ~Is(w, "summaryNoError") THEN Result("sessions no error", None, FALSE)
  ELSE IF ~Is(w, "noBak") THEN Result("sessions no bak", None, FALSE)
  ELSE Result("sessions no bak", None, TRUE)
         \cup Result("sessions data", None, Is(w, "sessions"))

RuntimeChecks(w) ==
  checkEndpoints(w) \cup checkAuthEnforcement(w) \cup checkAppVerifyHTTPGet(w)
    \cup checkDeployScript(w) \cup checkGitRepo(w) \cup checkDeployDryRun(w)
    \cup checkDataFreshness(w) \cup checkSessionsDataQuality(w)

Skipped == {<<"runtime", None, "skipped">>}

\* Warnings and skipped checks do not count.
Status(report) == IF \E r \in report : r[3] = "fail" THEN "fail" ELSE "ok"

Reports == SUBSET (Skipped \cup UNION {RunStaticChecks(w) \cup RuntimeChecks(w) : w \in Worlds})

HealthTypeOK ==
  /\ world \in Worlds /\ held \in 0..Window + 1 /\ changes \in 0..MaxChanges
  /\ lock \in Calls \cup {None}
  /\ cache \in Reports /\ cacheAge \in 0..TTL
  /\ call \in [Calls -> [kind : {"none", "health", "cli", "debug"},
                        pc : {"idle", "wait", "fetch", "check", "inner", "answered"},
                        found : Reports, timer : 0..Timeout]]

-----------------------------------------------------------------------------
(* The calls *)

Called(kind) == [Idle EXCEPT !.kind = kind, !.pc = IF kind = "debug" THEN "check" ELSE "wait"]

\* A request from outside to /api/health or /debug/verify, or a run of `vel verify`.
Request(s) ==
  /\ \A l \in 1..Levels : call[<<s, l>>].pc = "idle"
  /\ \E kind \in KindsOf[s] :
       /\ kind = "debug" => Is(world, "debugServer")
       /\ call' = [call EXCEPT ![<<s, 1>>] = Called(kind)]
  /\ UNCHANGED <<world, held, changes, lock, cache, cacheAge>>

\* An answer that nobody waits for any longer is dropped.
Answered(c, report) ==
  IF c[2] > 1 /\ call[<<c[1], c[2] - 1>>].pc \notin {"fetch", "inner"} THEN Idle
  ELSE [call[c] EXCEPT !.pc = "answered", !.found = report, !.timer = 0]

\* FetchRuntimeChecks asks the debug server, if there is one, with a client of its
\* own timeout; without an answer the runtime checks are marked as skipped.
Fetching(c) == [call EXCEPT ![c].pc = "fetch", ![c].found = RunStaticChecks(world),
                            ![Child(c)] = Called("debug")]

CanFetch(c) == Is(world, "debugServer") /\ c[2] < Levels

\* Faulty variant: a report once kept is served for ever.
GetCachedForEver(c) ==
  /\ call[c].kind = "health" /\ call[c].pc = "wait" /\ lock = None
  /\ cache # {}
  /\ call' = [call EXCEPT ![c] = Answered(c, cache)]
  /\ UNCHANGED <<world, held, changes, lock, cache, cacheAge>>

\* healthCacher.get: with the lock held, a report younger than TTL is the answer, ...
GetCached(c) ==
  /\ call[c].kind = "health" /\ call[c].pc = "wait" /\ lock = None
  /\ cache # {} /\ cacheAge < TTL
  /\ call' = [call EXCEPT ![c] = Answered(c, cache)]
  /\ UNCHANGED <<world, held, changes, lock, cache, cacheAge>>

\* ... else it runs all checks and does not let go of the lock meanwhile.
GetRuns(c) ==
  /\ call[c].kind = "health" /\ call[c].pc = "wait" /\ lock = None
  /\ cache = {} \/ cacheAge = TTL
  /\ IF CanFetch(c)
       THEN /\ lock' = c /\ call' = Fetching(c)
            /\ UNCHANGED <<cache, cacheAge>>
       ELSE /\ cache' = RunStaticChecks(world) \cup Skipped /\ cacheAge' = 0
            /\ call' = [call EXCEPT ![c] = Answered(c, cache')]
            /\ UNCHANGED lock
  /\ UNCHANGED <<world, held, changes>>

\* `vel verify` makes the same run without lock or cache.
CliRuns(c) ==
  /\ call[c].kind = "cli" /\ call[c].pc = "wait"
  /\ call' = IF CanFetch(c) THEN Fetching(c)
             ELSE [call EXCEPT ![c] = Answered(c, RunStaticChecks(world) \cup Skipped)]
  /\ UNCHANGED <<world, held, changes, lock, cache, cacheAge>>

\* Faulty variant: what was found is not kept.
FinishUnkept(c, runtime) ==
  /\ lock' = IF call[c].kind = "health" THEN None ELSE lock
  /\ UNCHANGED <<cache, cacheAge>>

\* RunVerify ends with these runtime checks; get keeps what it found.
Finish(c, runtime) ==
  IF call[c].kind = "health"
    THEN lock' = None /\ cache' = call[c].found \cup runtime /\ cacheAge' = 0
    ELSE UNCHANGED <<lock, cache, cacheAge>>

FetchAnswered(c) ==
  /\ call[c].pc = "fetch" /\ call[Child(c)].pc = "answered"
  /\ Finish(c, call[Child(c)].found)
  /\ call' = [call EXCEPT ![c] = Answered(c, call[c].found \cup call[Child(c)].found),
                          ![Child(c)] = Idle]
  /\ UNCHANGED <<world, held, changes>>

\* Faulty variant: a client without a timeout.
FetchNeverTimesOut(c) ==
  /\ call[c].pc = "fetch" /\ call[c].timer = Timeout
  /\ UNCHANGED healthVars

\* The call it made goes on for nobody; an answer that comes later is lost.
FetchTimesOut(c) ==
  /\ call[c].pc = "fetch" /\ call[c].timer = Timeout
  /\ Finish(c, Skipped)
  /\ call' = [call EXCEPT ![c] = Answered(c, call[c].found \cup Skipped),
                          ![Child(c)] = IF @.pc = "answered" THEN Idle ELSE @]
  /\ UNCHANGED <<world, held, changes>>

\* handleVerify: of its requests only one to /api/health can be kept waiting.
DebugAsks(c) ==
  /\ call[c].pc = "check" /\ SelfChecks \cap ReadChecks(world) # {} /\ c[2] < Levels
  /\ call' = [call EXCEPT ![c].pc = "inner", ![Child(c)] = Called("health")]
  /\ UNCHANGED <<world, held, changes, lock, cache, cacheAge>>

DebugAnswers(c) ==
  /\ \/ call[c].pc = "check" /\ (SelfChecks \cap ReadChecks(world) = {} \/ c[2] = Levels)
     \/ call[c].pc = "inner" /\ call[Child(c)].pc = "answered"
  /\ call' = [d \in Calls |-> IF d = c THEN Answered(c, RuntimeChecks(world))
                              ELSE IF d = Child(c) THEN Idle ELSE call[d]]
  /\ UNCHANGED <<world, held, changes, lock, cache, cacheAge>>

\* The answer reaches its client.
Leave(c) ==
  /\ call[c].pc = "answered" /\ c[2] = 1
  /\ call' = [call EXCEPT ![c] = Idle]
  /\ UNCHANGED <<world, held, changes, lock, cache, cacheAge>>

Step(c) == GetCached(c) \/ GetRuns(c) \/ CliRuns(c) \/ FetchAnswered(c) \/ FetchTimesOut(c)
             \/ DebugAsks(c) \/ DebugAnswers(c) \/ Leave(c)

-----------------------------------------------------------------------------
\* Files come and go, settings change, the debug server may not be there.
WorldChanges ==
  /\ changes < MaxChanges /\ changes' = changes + 1
  /\ world' \in Worlds \ {world} /\ held' = 0
  /\ UNCHANGED <<lock, cache, cacheAge, call>>

\* Timers are prompt, a mutex let go is taken in less than a tick, and the runtime
\* checks need less than Timeout until they ask for /api/health.
Tick ==
  /\ \A c \in Calls : call[c].pc \in {"fetch", "check"} => call[c].timer < Timeout
  /\ lock # None \/ \A c \in Calls : call[c].pc # "wait"
  /\ held' = IF held > Window THEN held ELSE held + 1
  /\ cacheAge' = IF cacheAge = TTL THEN TTL ELSE cacheAge + 1
  /\ call' = [c \in Calls |-> IF call[c].pc \in {"fetch", "check"}
                                THEN [call[c] EXCEPT !.timer = @ + 1] ELSE call[c]]
  /\ UNCHANGED <<world, changes, lock, cache>>

HealthNext == WorldChanges \/ Tick \/ (\E s \in Slots : Request(s)) \/ (\E c \in Calls : Step(c))

HealthSafeSpec == HealthInit /\ [][HealthNext]_healthVars
HealthFairness == WF_healthVars(Tick) /\ \A c \in Calls : WF_healthVars(Step(c))
HealthSpec == HealthSafeSpec /\ HealthFairness

-----------------------------------------------------------------------------
(* Properties *)

\* A site that has been in order for longer than a report is kept and made is
\* answered "ok", one with a static check failing for that long "fail"; also where
\* the checks ask for /api/health themselves.
VerdictFollowsWorld ==
  [][\A c \in Calls :
       /\ call[c].kind = "health" /\ call[c].pc # "answered" /\ call'[c].pc = "answered"
       /\ held > Window
       => /\ Status(RunStaticChecks(world)) = "fail" => Status(call'[c].found) = "fail"
          /\ Status(RunStaticChecks(world) \cup RuntimeChecks(world)) = "ok"
               => Status(call'[c].found) = "ok"]_healthVars

\* The checks that ask for the answer they are part of do not make calls for ever:
\* none is the last that the bound admits.
SelfCheckEnds == \A s \in Slots : call[<<s, Levels>>].pc = "idle"

\* Every request to /api/health or /debug/verify and every `vel verify` gets its answer,
\* though the checks may be waiting for the lock that the request holds.
HealthAnswered ==
  \A s \in Slots : call[<<s, 1>>].pc # "idle" ~> call[<<s, 1>>].pc = "answered"
=============================================================================
