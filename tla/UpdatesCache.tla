----------------------------- MODULE UpdatesCache -----------------------------
(***************************************************************************)
(* The cached update report (internal/data/updates.go) and its users: the  *)
(* broadcasts of the WebSocket connections and the /api/updates handlers   *)
(* (internal/server/server.go).  Unlike the gateway status, a check runs   *)
(* its git commands while it holds the mutex.                              *)
(*                                                                         *)
(* The repositories are at a commit that only moves forward; a report is   *)
(* the commit a check saw, 0 the nil cache.  The 10 min time to live is a  *)
(* flag that may drop at any moment.                                       *)
(***************************************************************************)
EXTENDS Integers

CONSTANTS Conns,         \* broadcasting goroutines
          CheckRequests, \* requests to /api/updates/check
          Resolves,      \* requests to /api/updates/resolve
          Deploys,       \* requests to /api/updates/apply
          NoOne,         \* updatesMu is free
          Refresh,       \* updatesMu is held by a background refresh
          MaxHead,       \* commits explored
          MaxRefreshers  \* background refreshes counted while they wait

Requests == CheckRequests \cup Resolves \cup Deploys

ASSUME UpdatesAssumption ==
  /\ CheckRequests \cap (Resolves \cup Deploys) = {}
  /\ Resolves \cap Deploys = {}
  /\ {NoOne, Refresh} \cap Requests = {} /\ NoOne # Refresh
  /\ MaxHead \in Nat \ {0} /\ MaxRefreshers \in Nat \ {0}

VARIABLES
  head,         \* the commit the repositories are at
  updatesCache,
  updatesFresh, \* updatesCacheAt is less than 10 min ago
  updatesMu,    \* who holds the mutex from one step to the next
  seen,         \* the commit the holder's check has seen, 0 before it looks
  refreshers,   \* background refreshes waiting for the mutex
  rpc,          \* where each request is
  script,       \* where the deploy script of each apply request is
  asked,        \* the commit the repositories were at when a check was asked
  answer,       \* the report each check request was answered with
  bpc,          \* where each connection is
  acked,        \* the commit the last acknowledged resolve left behind
  given         \* history: the last report that any client was given, 0 before

cacheVars == <<updatesCache, updatesFresh>>
requestVars == <<rpc, script, asked, answer, acked>>
vars == <<head, cacheVars, updatesMu, seen, refreshers, requestVars, bpc, given>>

TypeOK ==
  /\ head \in 1..MaxHead
  /\ updatesCache \in 0..MaxHead
  /\ updatesFresh \in BOOLEAN
  /\ updatesMu \in {NoOne, Refresh} \cup CheckRequests
  /\ seen \in 0..MaxHead
  /\ refreshers \in 0..MaxRefreshers
  /\ rpc \in [Requests -> {"new", "pulled", "invalidate", "check", "done",
                           "failed"}]
  /\ script \in [Deploys -> {"none", "running", "restarting", "over"}]
  /\ asked \in [CheckRequests -> 0..MaxHead]
  /\ answer \in [CheckRequests -> 0..MaxHead]
  /\ bpc \in [Conns -> {"away", "calling"}]
  /\ acked \in 0..MaxHead
  /\ given \in 0..MaxHead

Init ==
  /\ head = 1
  /\ updatesCache = 0
  /\ updatesFresh = FALSE
  /\ updatesMu = NoOne
  /\ seen = 0
  /\ refreshers = 0
  /\ rpc = [r \in Requests |-> "new"]
  /\ script = [r \in Deploys |-> "none"]
  /\ asked = [r \in CheckRequests |-> 0]
  /\ answer = [r \in CheckRequests |-> 0]
  /\ bpc = [c \in Conns |-> "away"]
  /\ acked = 0
  /\ given = 0

Advance(r, to) == rpc' = [rpc EXCEPT ![r] = to]

-----------------------------------------------------------------------------
(* GetUpdatesStatus: the mutex is held from before the check until the report *)
(* is stored.                                                                  *)

RefreshLocks ==
  /\ refreshers > 0
  /\ updatesMu = NoOne
  /\ updatesMu' = Refresh
  /\ refreshers' = refreshers - 1
  /\ UNCHANGED <<head, cacheVars, seen, requestVars, bpc, given>>

CheckLocks(r) ==
  /\ rpc[r] = "check"
  /\ updatesMu = NoOne
  /\ updatesMu' = r
  /\ UNCHANGED <<head, cacheVars, seen, refreshers, requestVars, bpc, given>>

\* Faulty variant: git shows what some earlier fetch left.
CheckLooksBehind ==
  /\ updatesMu # NoOne
  /\ seen = 0
  /\ seen' \in 1..head
  /\ UNCHANGED <<head, cacheVars, updatesMu, refreshers, requestVars, bpc, given>>

\* CheckUpdates looks at the repositories with git.
CheckLooks ==
  /\ updatesMu # NoOne
  /\ seen = 0
  /\ seen' = head
  /\ UNCHANGED <<head, cacheVars, updatesMu, refreshers, requestVars, bpc, given>>

\* Faulty variant: the answer is taken from the cache before the report is stored.
StoreReportAnswersOld ==
  /\ updatesMu # NoOne
  /\ seen # 0
  /\ updatesCache' = seen
  /\ updatesFresh' = TRUE
  /\ seen' = 0
  /\ updatesMu' = NoOne
  /\ \/ updatesMu = Refresh /\ UNCHANGED <<rpc, answer, given>>
     \/ /\ updatesMu \in CheckRequests
        /\ Advance(updatesMu, "done")
        /\ answer' = [answer EXCEPT ![updatesMu] = updatesCache]
        /\ given' = updatesCache
  /\ UNCHANGED <<head, refreshers, script, asked, acked, bpc>>

\* Faulty variant: one of the two ways out forgets to unlock.
StoreReportKeepsLock ==
  /\ updatesMu # NoOne
  /\ seen # 0
  /\ updatesCache' = seen
  /\ updatesFresh' = TRUE
  /\ seen' = 0
  /\ \/ updatesMu = Refresh /\ UNCHANGED <<rpc, answer, updatesMu, given>>
     \/ /\ updatesMu \in CheckRequests
        /\ updatesMu' = NoOne
        /\ Advance(updatesMu, "done")
        /\ answer' = [answer EXCEPT ![updatesMu] = seen]
        /\ given' = seen
  /\ UNCHANGED <<head, refreshers, script, asked, acked, bpc>>

StoreReport ==
  /\ updatesMu # NoOne
  /\ seen # 0
  /\ updatesCache' = seen
  /\ updatesFresh' = TRUE
  /\ seen' = 0
  /\ updatesMu' = NoOne
  /\ \/ updatesMu = Refresh /\ UNCHANGED <<rpc, answer, given>>
     \/ /\ updatesMu \in CheckRequests
        /\ Advance(updatesMu, "done")
        /\ answer' = [answer EXCEPT ![updatesMu] = seen]
        /\ given' = seen
  /\ UNCHANGED <<head, refreshers, script, asked, acked, bpc>>

ReportExpires ==
  /\ updatesFresh
  /\ updatesFresh' = FALSE
  /\ UNCHANGED <<head, updatesCache, updatesMu, seen, refreshers, requestVars,
                 bpc, given>>

-----------------------------------------------------------------------------
(* The handlers, once past their method and authorisation checks *)

CheckRequested(r) ==
  /\ rpc[r] = "new"
  /\ Advance(r, "invalidate")
  /\ asked' = [asked EXCEPT ![r] = head]
  /\ UNCHANGED <<head, cacheVars, updatesMu, seen, refreshers, script, answer,
                 acked, bpc, given>>

\* The pull moves the repository with no mutex held.  When it or the stash pop
\* after it fails, the handler answers with an error and invalidates nothing.
ResolvePulls(r) ==
  /\ rpc[r] = "new"
  /\ \/ head < MaxHead /\ head' = head + 1
     \/ UNCHANGED head
  /\ \/ Advance(r, "pulled")
     \/ Advance(r, "failed")
  /\ UNCHANGED <<cacheVars, updatesMu, seen, refreshers, script, asked, answer, acked,
                 bpc, given>>

\* The handler goes on as soon as the deploy script is started.
StartDeploy(r) ==
  /\ rpc[r] = "new"
  /\ Advance(r, "invalidate")
  /\ script' = [script EXCEPT ![r] = "running"]
  /\ UNCHANGED <<head, cacheVars, updatesMu, seen, refreshers, asked, answer,
                 acked, bpc, given>>

\* The script pulls the repositories and rebuilds, or fails on the way.
DeployPulls(r) ==
  /\ script[r] = "running"
  /\ \/ head < MaxHead /\ head' = head + 1
     \/ UNCHANGED head
  /\ \E next \in {"restarting", "over"} : script' = [script EXCEPT ![r] = next]
  /\ UNCHANGED <<cacheVars, updatesMu, seen, refreshers, rpc, asked, answer,
                 acked, bpc, given>>

\* The script restarts the service: what was in memory is gone, and open requests
\* and connections are reset.
Restart(r) ==
  /\ script[r] = "restarting"
  /\ script' = [script EXCEPT ![r] = "over"]
  /\ updatesCache' = 0 /\ updatesFresh' = FALSE
  /\ updatesMu' = NoOne /\ seen' = 0 /\ refreshers' = 0
  /\ rpc' = [q \in Requests |-> IF rpc[q] \in {"new", "done"} THEN rpc[q]
                                ELSE "failed"]
  /\ bpc' = [c \in Conns |-> "away"]
  /\ UNCHANGED <<head, asked, answer, acked, given>>

\* Faulty variant: the deadline is dropped without the mutex.
InvalidateUnlocked(r) ==
  /\ rpc[r] \in {"invalidate", "pulled"}
  /\ updatesFresh' = FALSE
  /\ Advance(r, IF r \in CheckRequests THEN "check" ELSE "done")
  /\ acked' = IF r \in Resolves THEN head ELSE acked
  /\ UNCHANGED <<head, updatesCache, updatesMu, seen, refreshers, script, asked, answer,
                 bpc, given>>

\* InvalidateUpdatesCache waits for a running check to end.
Invalidate(r) ==
  /\ rpc[r] \in {"invalidate", "pulled"}
  /\ updatesMu = NoOne
  /\ updatesFresh' = FALSE
  /\ Advance(r, IF r \in CheckRequests THEN "check" ELSE "done")
  /\ acked' = IF r \in Resolves THEN head ELSE acked
  /\ UNCHANGED <<head, updatesCache, updatesMu, seen, refreshers, script, asked, answer,
                 bpc, given>>

-----------------------------------------------------------------------------
(* The "updates" panel of a broadcast: GetUpdatesCached *)

CallCached(c) ==
  /\ bpc[c] = "away"
  /\ bpc' = [bpc EXCEPT ![c] = "calling"]
  /\ UNCHANGED <<head, cacheVars, updatesMu, seen, refreshers, requestVars, given>>

\* With the mutex: the report, or nothing and one more background refresh.
ReturnCached(c) ==
  /\ bpc[c] = "calling"
  /\ updatesMu = NoOne
  /\ \/ /\ updatesFresh /\ updatesCache # 0
        /\ given' = updatesCache
        /\ UNCHANGED refreshers
     \/ /\ ~updatesFresh \/ updatesCache = 0
        /\ refreshers' = IF refreshers < MaxRefreshers THEN refreshers + 1
                                                       ELSE refreshers
        /\ UNCHANGED given
  /\ bpc' = [bpc EXCEPT ![c] = "away"]
  /\ UNCHANGED <<head, cacheVars, updatesMu, seen, requestVars>>

-----------------------------------------------------------------------------
Next ==
  \/ RefreshLocks \/ CheckLooks \/ StoreReport \/ ReportExpires
  \/ \E r \in CheckRequests : CheckRequested(r) \/ CheckLocks(r)
  \/ \E r \in Resolves : ResolvePulls(r)
  \/ \E r \in Deploys : StartDeploy(r) \/ DeployPulls(r) \/ Restart(r)
  \/ \E r \in Requests : Invalidate(r)
  \/ \E c \in Conns : CallCached(c) \/ ReturnCached(c)

\* Goroutines run, a started check ends, since its git commands exit, and Go's
\* mutex lets no waiter starve.
Fairness ==
  /\ WF_vars(CheckLooks) /\ WF_vars(StoreReport) /\ SF_vars(RefreshLocks)
  /\ \A r \in CheckRequests : SF_vars(CheckLocks(r))
  /\ \A r \in Requests : SF_vars(Invalidate(r))
  /\ \A c \in Conns : SF_vars(ReturnCached(c))

SafeSpec == Init /\ [][Next]_vars
Spec == SafeSpec /\ Fairness

-----------------------------------------------------------------------------
(* Properties *)

\* Whatever check was under way, a report that may be served covers every resolve
\* that was acknowledged: nobody is told to pull what was just pulled.
ReportCoversResolves == updatesFresh /\ updatesCache # 0 => acked <= updatesCache

\* The reports that clients are given, whichever the client, by a broadcast or as the
\* answer to a check, never go back to an older one, though the report expired in
\* between, others had it checked, or the process was restarted with an empty cache.
ReportsNeverRegress == [][given <= given']_given

\* A check is answered with a look at the repositories made after it was asked,
\* though other checks may store their reports between its two calls.
CheckIsLive ==
  \A r \in CheckRequests : rpc[r] = "done" => asked[r] <= answer[r]

\* Every broadcast and every request that waits for the mutex goes on: none is
\* left waiting for a lock that is never released, nor overtaken for ever.
CallersReturn ==
  /\ \A c \in Conns : bpc[c] = "calling" ~> bpc[c] = "away"
  /\ \A r \in Requests :
       rpc[r] \in {"invalidate", "pulled"} ~> rpc[r] \in {"done", "failed"}

=============================================================================
