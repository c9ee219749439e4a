----------------------------- MODULE StatusCache -----------------------------
(***************************************************************************)
(* The gateway status every broadcast shows (internal/data/status.go).     *)
(* Fetching it runs a CLI that may take seconds, so it happens outside the *)
(* mutex, in one goroutine at a time, while callers get what is cached.    *)
(*                                                                         *)
(* A status is a version that grows; 0 is the nil cache.  The 30 s time to *)
(* live is a flag that may drop at any moment.                             *)
(***************************************************************************)
EXTENDS Integers

CONSTANTS Conns,     \* broadcasting goroutines, callers of the cached function
          Warmer,    \* the goroutine that pre-warms the cache at startup
          MaxStatus  \* changes of the gateway explored

Fetchers == Conns \cup {Warmer}

ASSUME StatusAssumption == Warmer \notin Conns /\ MaxStatus \in Nat \ {0}

VARIABLES
  gateway,       \* what the CLI would report now
  statusCache,
  statusFresh,   \* statusCacheAt is less than 30 s ago
  statusRunning,
  warmer,        \* where the pre-warming goroutine is
  fetch,         \* what each fetching goroutine is doing
  read,          \* what its CLI reported
  shown          \* what each connection was last given

cacheVars == <<statusCache, statusFresh, statusRunning>>
vars == <<gateway, cacheVars, warmer, fetch, read, shown>>

TypeOK ==
  /\ gateway \in 1..MaxStatus
  /\ statusCache \in 0..MaxStatus
  /\ statusFresh \in BOOLEAN
  /\ statusRunning \in BOOLEAN
  /\ warmer \in {"new", "fetching", "returned"}
  /\ fetch \in [Fetchers -> {"idle", "started", "reported"}]
  /\ read \in [Fetchers -> 0..MaxStatus]
  /\ shown \in [Conns -> 0..MaxStatus]

Init ==
  /\ gateway = 1
  /\ statusCache = 0
  /\ statusFresh = FALSE
  /\ statusRunning = FALSE
  /\ warmer = "new"
  /\ fetch = [f \in Fetchers |-> "idle"]
  /\ read = [f \in Fetchers |-> 0]
  /\ shown = [c \in Conns |-> 0]

-----------------------------------------------------------------------------
GatewayChanges ==
  /\ gateway < MaxStatus
  /\ gateway' = gateway + 1
  /\ UNCHANGED <<cacheVars, warmer, fetch, read, shown>>

StatusExpires ==
  /\ statusFresh
  /\ statusFresh' = FALSE
  /\ UNCHANGED <<gateway, statusCache, statusRunning, warmer, fetch, read, shown>>

Usable == statusFresh /\ statusCache # 0

\* Whoever finds the cache unusable and no fetch running starts one.
StartFetch(f) ==
  /\ statusRunning' = TRUE
  /\ fetch' = [fetch EXCEPT ![f] = "started"]

\* Faulty variant: GetSystemStatus does not look at statusRunning.
GetSystemStatusEager ==
  /\ warmer = "new"
  /\ IF Usable
       THEN warmer' = "returned" /\ UNCHANGED <<statusRunning, fetch>>
       ELSE warmer' = "fetching" /\ StartFetch(Warmer)
  /\ UNCHANGED <<gateway, statusCache, statusFresh, read, shown>>

\* GetSystemStatus fetches itself, and returns when it has.
GetSystemStatus ==
  /\ warmer = "new"
  /\ IF Usable \/ statusRunning
       THEN warmer' = "returned" /\ UNCHANGED <<statusRunning, fetch>>
       ELSE warmer' = "fetching" /\ StartFetch(Warmer)
  /\ UNCHANGED <<gateway, statusCache, statusFresh, read, shown>>

\* GetSystemStatusCached returns what there is, stale or nil, and leaves the
\* fetch to a goroutine of its own.
GetSystemStatusCached(c) ==
  /\ IF Usable \/ statusRunning
       THEN UNCHANGED <<statusRunning, fetch>>
       ELSE StartFetch(c)
  /\ shown' = [shown EXCEPT ![c] = statusCache]
  /\ UNCHANGED <<gateway, statusCache, statusFresh, warmer, read>>

\* fetchStatus: the CLI reports at some moment while no lock is held.  One that
\* fails is reported as a gateway that is offline, a status like any other.
CLIReports(f) ==
  /\ fetch[f] = "started"
  /\ fetch' = [fetch EXCEPT ![f] = "reported"]
  /\ read' = [read EXCEPT ![f] = gateway]
  /\ UNCHANGED <<gateway, cacheVars, warmer, shown>>

\* Faulty variant: the running flag stays set.
StoreStatusStillRunning(f) ==
  /\ fetch[f] = "reported"
  /\ statusCache' = read[f]
  /\ statusFresh' = TRUE
  /\ fetch' = [fetch EXCEPT ![f] = "idle"]
  /\ read' = [read EXCEPT ![f] = 0]
  /\ warmer' = IF f = Warmer THEN "returned" ELSE warmer
  /\ UNCHANGED <<gateway, statusRunning, shown>>

StoreStatus(f) ==
  /\ fetch[f] = "reported"
  /\ statusCache' = read[f]
  /\ statusFresh' = TRUE
  /\ statusRunning' = FALSE
  /\ fetch' = [fetch EXCEPT ![f] = "idle"]
  /\ read' = [read EXCEPT ![f] = 0]
  /\ warmer' = IF f = Warmer THEN "returned" ELSE warmer
  /\ UNCHANGED <<gateway, shown>>

-----------------------------------------------------------------------------
Fetch(f) == CLIReports(f) \/ StoreStatus(f)

Next ==
  \/ GatewayChanges \/ StatusExpires \/ GetSystemStatus
  \/ \E c \in Conns : GetSystemStatusCached(c)
  \/ \E f \in Fetchers : Fetch(f)

\* A connection asks every 2 s, the time to live ends, and the CLI exits.
Fairness ==
  /\ WF_vars(StatusExpires)
  /\ \A c \in Conns : WF_vars(GetSystemStatusCached(c))
  /\ \A f \in Fetchers : WF_vars(Fetch(f))

SafeSpec == Init /\ [][Next]_vars
Spec == SafeSpec /\ Fairness

-----------------------------------------------------------------------------
(* Properties *)

\* At most one CLI runs, whoever started it, and the running flag is set exactly
\* while one does: it cannot be left set, which would freeze the cache for good.
SingleFlight ==
  /\ \A f, g \in Fetchers : fetch[f] # "idle" /\ fetch[g] # "idle" => f = g
  /\ statusRunning <=> \E f \in Fetchers : fetch[f] # "idle"

\* No connection is given an older status than the one it was given before: a
\* slow fetch cannot store its report over that of a later one, and an expired
\* cache is served rather than nothing.
StatusNeverRegresses == [][\A c \in Conns : shown[c] <= shown'[c]]_shown

\* Once the gateway settles, every connection ends up with its last status.
StatusConverges ==
  \A c \in Conns, v \in 1..MaxStatus : <>[](gateway = v) => <>[](shown[c] = v)
=============================================================================
