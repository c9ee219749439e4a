# A formal model of vel

vel is a Go server that shows a dashboard of panels for a set of apps, delegates
tasks to an external agent gateway (OpenClaw), keeps the repositories it runs
from up to date, builds the apps into itself, and deploys itself.  This directory
holds TLA+ modules that model the parts of it that keep state, run at the same
time as each other or fail half-way, TLC configurations that check them on small
instances, and TLAPS proofs of the main safety properties for every value of the
constants.  Source paths below are relative to the repository's root.

* [1 Inventory of the system](#1-inventory-of-the-system)
* [2 The modules and the code](#2-the-modules-and-the-code)
* [3 What the runs check](#3-what-the-runs-check)
* [4 Fairness](#4-fairness)
* [5 What is proved](#5-what-is-proved)
* [6 Where the code and its documentation disagree](#6-where-the-code-and-its-documentation-disagree)
* [7 Limits, and what is not modelled](#7-limits-and-what-is-not-modelled)
* [8 Plan](#8-plan)

To check a module: `tlc -config AgentTask.cfg AgentTask`; where there is an `MC`
module of the same name (`MCPanelBroadcast`, `MCAccounts`, `MCAccess`, `MCHealth`,
`MCJournal`, `MCSite`), it is the one to check with that configuration.  To check
proofs: `tlapm AgentTaskProofs.tla`.

## 1 Inventory of the system

vel is one process.  HTTP handlers run in a goroutine per request; beside them
run one polling goroutine per data source, two goroutines per WebSocket
connection, short-lived background refreshes of caches, cleanup loops, and the
goroutines that proxy and build apps.  They share package-level caches and
registries, each under its own mutex; nothing takes two of those at once except
where the table says so.  On disk are a session database, a users file, an
error log, the configuration, and the git repositories themselves.

| Component | State | Operations | Interacts with |
|---|---|---|---|
| Agent task delegation (`internal/agent/openclaw`, `pkg/agent/callback.go`) | registry id → channel of size 1, in memory | `RunTask`; callback handler; register, unregister | gateway over HTTP both ways; a restart empties the registry |
| Data sources (`internal/datasource`) | per source: data, ok, error, last good time, stale since | register, start, stop, poll with retries; readers | files other programs write; read by the REST API and the broadcast |
| WebSocket broadcast (`internal/server/websocket.go`) | per connection: authenticated flag, done channel | handshake; a message every 2 s; reader | data sources, status, updates and metrics caches, panel registry |
| Gateway status cache (`internal/data/status.go`) | status, its time, running flag | blocking and cached read; background fetch | a CLI of the gateway; broadcast; start-up warmer |
| Update report cache (`internal/data/updates.go`, handlers in `internal/server/server.go`) | report, its time | check, cached read, invalidate; `/api/updates*` | git; resolve; deploy, which restarts the process |
| Repository pulls (`internal/data/updates.go`, `sdk/vel/deploy.sh`) | the repository and its stash | stash-pull, stash-drop-pull, safe_git_pull | git; people and agents editing the same tree |
| Metrics and sessions caches (`internal/data/metrics.go`, `sessions.go`) | value, its time | read | broadcast |
| Sessions and magic links (`internal/auth`) | records in a key-value file, with expiry | create (rate limited for links), read, validate, delete, cleanup | middleware, handlers, hourly cleanup; a restart keeps the file and forgets the rate |
| Users and API keys (`internal/auth/users.go`) | users and keys in memory and in `users.json`, the time of the file loaded last | add, remove, look up by pointer, watch the file, save, migrate | authentication, admin handlers; whoever edits the file |
| Request authorisation (`authmiddleware.go`, `auth.go`, `scopes.go`) | none of its own | the decision for one request, in five modes | sessions, users, tokens |
| Rate limiter and token handlers (`internal/server/server.go`) | hits per address; scoped tokens in memory and in the configuration file | allow; create and revoke tokens | configuration file |
| Health and verification (`server.go`, `internal/verify`, `internal/debug/verify_handler.go`) | cached report, its time | static checks; runtime checks, some of which call the server back | the server itself, apps, the debug server |
| Debug buffer and request log (`internal/debug`) | ring of requests | add, query | middleware |
| Error log (`pkg/vel/errorlog.go`) | list in memory, JSON lines on disk | log, read, load, trim and rewrite | handlers, middleware; a stop between any two writes |
| Hook engine and app registry (`internal/hooks`, `pkg/vel/app.go`) | lists of functions | add, emit | apps, at start-up |
| App discovery, panel registry (`internal/apps`, `panels`) | none between starts | discover, choose by precedence, order | the directories of apps |
| Build (`internal/build`) | the shared directory `_build`, `bin/vel` | discover, scan, copy, generate, compile, clean | directories of apps, Go tool chain, other builds |
| Process start, CLI (`main.go`) | none | order of start-up, background loops | everything |

**What is hard about it.**  A callback may come before the request that caused
it is answered, twice, or after everybody has given up.  Files are read while
they are written.  One message is put together from reads at different moments.
Caches are refreshed by whoever notices first, while others invalidate them.
git commands of several requests and of people interleave on one working tree,
and each may fail.  Users, tokens and errors live in memory and in a file, and a
write may fail or be cut off.  The health check asks the server that is waiting for
its answer.  Build and start read directories that change, by rules of their own.
A deploy restarts the process in the middle of everything.
Section "hazards" of `PROJECT.json` lists each such place by its line together
with the properties that answer for it.

**What makes each part correct.**

* Agent tasks: no registry entry outlives its task; an early callback is found;
  the first result wins and goes to its own task; every call returns.
* Data sources: readers see one coherent state; an outage keeps the last good
  data and its onset; the source converges to its file.
* Broadcast: a message does not contradict itself; a panel does not go back to
  older data; clients end up with what the sources settle on; the goroutine
  ends when the client does.
* Status and update caches: one fetch at a time; nobody is shown older data
  than before; an acknowledged pull is covered by every report served after it;
  a forced check really looks; no caller waits for ever.
* Pulls: local edits survive every interleaving and failure; success means
  pulled.
* Logins: a link that was used is refused from then on; a session ends when its
  time is up or at logout, neither earlier nor later; creation of links keeps its
  rate; dead records go.
* Users and keys: memory and file do not stay different unnoticed, and agree in the
  end; a request acts with the record of its own key.
* Authorisation: keys and scoped tokens do not reach what is kept for users; a
  written change of the tokens holds across failures and restarts.
* Health: every request is answered, also when the checks ask for the answer they
  are part of, and the answer is that of the site.
* Request and error log: queries of the wrapped ring show the history; a stop between
  writes loses at most what was being written.
* Build, discovery, panels: a binary holds only code that was vetted; code is given its
  own directory; the order of a Go map decides nothing the site relies on.

## 2 The modules and the code

| Module | Models | Lines it stands for |
|---|---|---|
| `AgentRendezvous` | abstract: a task opens, the first offer is kept, it closes once | – |
| `AgentTask` | `RunTask`, registry, callback handler, restart | `openclaw.go`, `callback.go` |
| `SourceFeed` | abstract: versions are published, the reader's state moves to a newer one or goes stale | – |
| `DataSource` | manager, polling goroutine, read with retries | `datasource.go` |
| `PanelBroadcast`, `MCPanelBroadcast` | `broadcastMetrics` composed with `SourceFeed` | `websocket.go`, `paneldata.go` |
| `StatusCache` | both reads of the status and its fetch | `status.go` |
| `UpdatesCache` | checks, cached reads, invalidation, update handlers, deploy with restart | `updates.go`, `server.go`, `deploy.sh` |
| `RepoResolve` | the three ways to pull, command by command | `updates.go`, `deploy.sh` |
| `Logins` | magic links, sessions, the two session reads of a request, logout, cleanup, restart | `magiclink.go`, `session_store.go`, `manager.go`, `authmiddleware.go`, `server.go` |
| `Accounts`, `MCAccounts` | `users.json`, its copy, watcher, changes, migration, lookups by pointer, crashes | `users.go`, `provider_apikey.go`, `migration.go`, `server.go`, `main.go` |
| `Access`, `MCAccess` | the decision for a request; scoped tokens in memory and configuration | `auth.go`, `manager.go`, `authmiddleware.go`, `server.go`, `main.go` |
| `Health`, `MCHealth` | static and runtime checks, the calls that make them, the health cache | `verify.go`, `verify_handler.go`, `server.go`, `main.go` |
| `Journal`, `MCJournal` | the middleware chain, the ring, the error log and its file | `buffer.go`, `requestid.go`, `logger.go`, `recovery.go`, `errorlog.go`, `response.go` |
| `Site`, `MCSite` | build, discovery of apps and panels, the panel list | `build.go`, `wrapper.go`, `apps.go`, `registry.go`, `main.go`, `server.go` |
| `AgentTaskProofs`, `DataSourceProofs`, `PanelBroadcastProofs`, `RepoResolveProofs`, `LoginsProofs` | theorems about the module of that name | – |
| `DiagnosticsProofs` | theorems about `StatusCache`, `Health` and `Journal`: what the server says of itself | – |
| `DeploymentProofs` | theorems about `UpdatesCache` and `Site`: what the site is made of | – |
| `AuthProofs` | theorems about `Accounts` and `Access`: who may do what | – |

`DataSource` implements `SourceFeed`, and `PanelBroadcast` is built on
`SourceFeed`: whatever is shown of the broadcast for any feed holds with the
polled files behind it.  `map` in `PROJECT.json` gives each definition its lines.

Definitions called "Faulty variant" are plausible bugs (a dropped guard, a
missing reset).  They are not part of any specification; each is what one of the
properties is shown to detect when it takes the place of the real definition.

### AgentTask

`pc[t]` is the place of one `RunTask` call: `idle`, `posting` (registered, hook
request under way), `waiting` (in the `select`), `leaving` (the outcome is
decided, the deferred unregistration has not run), `returned`, or `killed` by a
restart.  `pending` is the registry's key set, `chan[t]` the channel's single
cell.  A request to the callback handler goes through `parsed`, `holding` (the
channel has been looked up and the lock released) and `done`: the gap between
lookup and send is where the timer and the deferred call may interleave.  The
gateway is external: it may accept a task (`GatewayAccepts`) even though vel's
client has given up, and an accepted agent may post any number of callbacks.

### DataSource

A file is a condition (missing, torn, unreadable, valid) and the version last
written; the producer may write in place or rename.  One action per
`os.ReadFile`, one for the pause between attempts, one for each store under the
mutex, one per `select` case.  `st[s]` holds all fields the mutex guards, since
every reader copies them in one critical section.  The clock gives `lastGood`
and `staleSince` values, 0 being Go's zero time.

### PanelBroadcast

A pass reads the sources three times: `CollectSource` (`GetAllData`, one source
per step, in any order), `FillEnvelope` (`GetSourceState` for enveloped panels)
and `ReadStatus` (`GetStatus`).  `BuildPanels` chooses a source for each key,
once per message, as the iteration over Go's map does when two sources have the
same short name.  `WriteMessage` may fail only when the client has gone; the
error ends that message and not the goroutine, as in the code.  The panels the
status and update caches supply are data functions here; their freshness is the
subject of the next two modules.

### StatusCache and UpdatesCache

The two caches look alike and behave differently.  The status is fetched with no
lock held, by one goroutine at a time, and an expired value is served meanwhile.
The update report is checked with the mutex held across all git commands, and
an expired report is not served.  A status or a report is the version (of the
gateway, of the repositories) that the fetch saw; the time to live is a flag
that may drop at any moment, which includes every real timing.  The handlers of
`/api/updates/check`, `/resolve` and `/apply` are sequences of the steps
between which the mutex is free; `Restart` is the end of the deploy script.  `given`
is a history variable: the last report that any client was given.  Nothing resets it,
neither an expired report nor a restart, so that when no step lowers it, each report is
at least as new as all those given before.

### RepoResolve

One action per git command.  git itself is external: the stash is a stack, `push`
with a clean tree succeeds and makes no entry, `pop` applies the newest entry
and drops it only if it applied, a conflicting `pop` leaves unmerged files and
its entry, and no command but a hand merge works on unmerged files.  Every
command may fail.  Each request is of any of the three kinds, chosen when it
begins, so that every mix of kinds overlaps.

### Logins

Links and sessions are records of one bolt database, whose transactions are
atomic and durable: `linkDB` and `sessionDB` are its two buckets, one action is
one transaction, and a handler that runs several has a place between them.
`Validate` is `FindLink` (the read and the checks) and `MarkUsed` (the update, which
puts back the record it read without looking again); `BoltSessionStore.Get` is
`ReadSession` and, when the session is over, `PurgeSession`.  A page reads its
session twice if the first read finds none: once in `SessionMiddleware`, once in
`AuthMiddleware` through `AuthManager.Authenticate`.  A logout is such a page
followed by the handler's own read and delete.  Any write may fail; a failing
delete is ignored, as in the code.  `rateTrack` holds the creations themselves, whose
times are in `born`.  Random ids and tokens are represented by the link and the
login they belong to, so a session id is never drawn twice.  `spent` is a history
variable.  A restart keeps the database and loses `rateTrack` and every open request.

### Accounts

`file` and `mtime` are `users.json` and its time, `mem` and `lastMod` the
`UserStore`.  `UserStore.load` is three steps, `LoadStat`, `LoadRead` and `LoadStore`,
with no lock over them: the administrators' changes, edits by hand and saves come in
between.  A change is made in memory and saved under the lock; `SaveUsers` may be
done, be refused before it touches the file, or leave a file that does not parse.
`FindAPIKey` returns a pointer into the array of keys, and `Authenticate` reads
through it after the lock is released.  `lookup[r].slot` is where that pointer points,
`sees` the record now there, and `attached` says whether the array is still the one in
use: a removal shifts records under the pointer, an append either writes in place
beyond the end or moves to a new array, a load replaces the array.  Start-up is the
migration and the same load; without a store the server falls back to the older
authentication (`legacy`).

### Access

A request is a set of valid credentials, perhaps a `?token=`, a path and a role.
`Identity` is what the middlewares and the `AuthManager` find, `Check` the older
decision, `Granted` the whole way to the handler.  `setting` is how the deployment
recognises users: through the manager, or the older check by Telegram, by a token, not
at all, or in tests.  A change of the scoped tokens is one step in memory and three to
persist: `ReadConfig`, `TakeTokens`, `WriteConfig`; two such writes at once may mix,
a failing one is only logged.  Signatures, cookies and hashes are "valid or not",
and which session or key a credential belongs to is the matter of `Logins` and
`Accounts`.

### Health

A world is the set of facts the checks look at (`<<"file", s>>`: the data file of
source `s` is there), and each check an operator from a world to its results.  An app
without a `verify.json` has no checks; one that does not parse is a failure.  A call
is a slot and a level: level 1 came from outside, each other was made by the call
above it.  `GetRuns` takes the mutex of the health cache and keeps it while the runtime
checks are fetched from the debug server; `DebugAsks` is a check of an app that requests
`/api/health`, which waits for that mutex.  Time passes in ticks while somebody waits.

### Journal

A request goes through identifier, handler and logger; `LogRequest` adds it to the ring,
`Add` being `RingBuffer.Add` with its head and count.  Errors are logged by
`vel.Error` in the handler and by the logger for answers of 500 and more.  The file
is `lines` and a `tail` without newline, because an entry and its newline are two
writes; `Stop` may come between them or cut a rewrite off anywhere.  Each of them may
also fail on its own while the server goes on, and so may opening and rewriting the
file, since the code looks at none of these errors.  A line is an entry, `Bad` (it does not
parse and is skipped) or `Long` (64 KiB or more, where `bufio.Scanner` ends): `Start`
reads `n` lines, none of them `Long`, and what is behind them is lost.  `done`,
`before` and `lost` are history variables; `lost` holds the entries that one of these
events befell, and `ErrorsKept` is about all others.

### Site

A directory holds what its `app.json`, Go files and panels say, as one of `Contents`.
`vel build` is the sequence `Begin`, `Scan`, `Prepare`, `CopyApp` for each app,
`Generate` three times, `Compile`, `Clean`; it reads the directories at `Begin`, `Scan`
and `CopyApp`, and `Abort` may end it anywhere.  `tree` is the `_build` that all builds
share: `Prepare` removes what another build left there, and an app that is copied onto
one that is there already (`Onto`) keeps those of its files that the copy has no file of the
same name for.  Without a `go.mod` of its own there, the module of the framework decides what
an import means (`Package`).  `Start` discovers by the rules of `apps.Discover`, which
are not those of the build, and computes panel list and landing page for any order in
which Go may walk its map of apps.  The panels are sorted by place, position and ID; those
that agree in all three come as the map of panels was walked (`tie`).

## 3 What the runs check

All runs finish without an error; bounds are constants of the modules.

| Run | Instance | Shows |
|---|---|---|
| `agent_task` | 2 tasks, 2 callbacks, 1 restart | `RegisteredWhileRunning`, `UnknownOnlyAfterReturn`, `ResultFromOwnCallback`; refinement of `AgentRendezvous`; `RunTaskReturns` |
| `data_source` | 1 file, 2 versions, 3 clock readings | `Coherent`, `OutageKeepsRecord`; refinement of `SourceFeed`; `Converges` |
| `panel_broadcast` | 1 connection, 2 sources, 4 panels | `MessageConsistent`, `ViewNeverRegresses`; `ClientConverges`, `BroadcastEnds` |
| `status_cache` | 2 connections and the warmer, 3 statuses | `SingleFlight`, `StatusNeverRegresses`; `StatusConverges` |
| `updates_cache` | 2 connections, 1 check, 1 resolve, 1 deploy, 1 waiting refresher | `ReportCoversResolves`, `CheckIsLive`, `ReportsNeverRegress`; `CallersReturn` |
| `repo_resolve` | 2 requests of any kind, 2 edits, 2 commits | `NoEditLost`, `AllBack`, `OkMeansPulled` |
| `logins` | 1 user, 2 links, 2 logins, 1 client, 2 clock readings, 1 restart | `RateHolds`, `UsedLinkIsRefused`, `SessionLifetime`; `DeadRecordsGo` |
| `accounts` | 2 users, 2 keys of one name, 1 request, 3 writes of the file, 1 crash | `DivergenceIsNoticed`, `IdentityIsOwn`; `MemoryFollowsFile` |
| `access` | 3 tokens of 2 names, 4 kinds of path, 5 modes, 2 requests to `/api/tokens`, 1 restart | `KeysAreNotOwners`, `SettledHolds` |
| `health` | 2 requests, calls within calls up to 6, 5 worlds, 1 change of the world | `VerdictFollowsWorld`, `SelfCheckEnds`; `HealthAnswered` |
| `journal` | a ring and a log of 2, 2 requests at a time, 3 requests, 3 errors, 2 restarts | `RecentIsHistory`, `ErrorsKept` |
| `site` | 2 directories, 5 contents, 2 builds, 1 edit, 2 configured orders | `OnlyVettedCode`, `CodeKeepsItsDirectory`; `StartsShowTheSame` |

Why these bounds are enough to meet the interesting cases:

* *agent_task.*  Two callbacks for one task give duplicates, rivals and late
  results; two tasks let results be mixed up; one restart leaves agents alive
  with ids nobody knows.  A third task or callback is a copy of these.
* *data_source.*  Sources share nothing but `stopped`, so one is enough.  Two
  versions tell an old state from a new one.  Three clock readings are an
  onset, a moment before and a moment after.  The retries keep their real
  number, three.
* *panel_broadcast.*  Connections share nothing but the feed.  The four panels
  are the four ways a panel is wired: short name, full name with and without an
  envelope, and a registered data function.  One version per source already lets a
  source go unread → good → stale → good between any two reads of a message;
  versions beyond that are covered by the proofs, which bound nothing.
* *status_cache.*  Two fetchers that race need three versions for one to be
  overtaken by the other.
* *updates_cache.*  One of each kind of request meets each other in every order.  Two
  connections are two clients, so that a report given to one is compared with what the
  other was given.  One refresher may wait while another holds the mutex.
* *repo_resolve.*  Two requests and two edits are the least in which one pops
  what the other stashed; the commits let a pull succeed, fail and be overtaken.
* *logins.*  Two logins race for one link or use one each; two links and a limit of 1
  meet the limit.  A link or session lives one clock reading (its expiry is the
  time of its creation, at which it is still good) and is dead at the next; an hour
  is one reading, so the second link may be created again once the first has left
  the window.  The restart may come anywhere.
* *accounts.*  Two keys of one name are the least in which a removal takes the key
  before another and in which a name finds the wrong one.  Three writes are a
  migration or an edit, a save, and another edit or save while the load of the first
  is under way; each is torn in some behaviour.  The name of a key is its ID, by which
  it is removed.  One request meets every step of the others; pointers of two requests
  do not meet.
* *access.*  Two tokens of one name meet the refusal of a name in use and its reuse
  after a removal, the third has another name and a wider scope.  Two requests
  overlap in every order; the restart reads what they left.  Requests for a decision
  are not bounded: all are tried in every state.
* *health.*  With the time to live at 2 and the client timeout at 1 tick, a report
  goes stale during a run and not.  A self-calling check makes `health` call
  `debug` call `health`; the inner one waits, and its caller's timeout frees the
  mutex.  Six levels are more than this ever needs, which `SelfCheckEnds` checks.
  The worlds are a sound site, one with each kind of fault that changes the calls or the
  verdict, and one whose app has no `verify.json`, which is no fault but makes no calls.
* *journal.*  A ring of two with three requests wraps; an error between others is
  further back than the last n.  Two log entries make the file full, so a start
  rewrites it; two restarts are a first that rewrites, well or badly, and a second that
  reads what is left.  Of three errors one may be too long and have another on either side.
* *site.*  Two directories of one name give precedence something to decide, and of
  two names give the map an order.  The contents need `vel.yaml`, import what is
  refused, are refused by `Discover` but not by the build, hold no code, share
  a panel, or have one whose ID is that of a core panel in another folder.  Two builds and an edit are the least that overlap and fall between scan and
  copy.

`CHECK_DEADLOCK FALSE` is set where the modelled system may stop: when all tasks
have returned and the agents are done, when polling has stopped, when
connections have ended, when the bounds on requests, writes, restarts or builds are
used up.  `StatusCache`, `Logins` (whose cleanup never ends) and `Health` run for ever
and are checked for deadlock.

## 4 Fairness

The specifications assume only what the Go runtime, timers and process exits give.

* `AgentTask`: the hook request has a client timeout of 10 s, the timer fires,
  deferred calls run, and the handler's goroutine is scheduled (weak fairness of
  each).  Neither gateway, agent nor caller owes anything.
* `DataSource`: goroutines, sleeps and tickers (weak); a `select` with both
  ticker and stop channel ready chooses at random, so it takes the stop case in
  the end (strong fairness of `ObserveStop`).  The producer owes nothing.
* `PanelBroadcast`: the broadcasting goroutine runs and its writes end (weak);
  the `select` sees the closed `done` channel in the end (strong).
* `StatusCache`: the CLI exits, the time to live ends and each connection asks
  every 2 s (weak).
* `UpdatesCache`: git commands exit (weak) and `sync.Mutex` starves no waiter,
  which its starvation mode guarantees (strong fairness of taking the lock).
  That no git command hangs is an assumption: the code gives them no timeout.
* `Logins`: the hourly ticker ticks (weak), and a cleanup transaction that is
  tried for ever does not fail for ever (strong).  Clients owe nothing.
* `Accounts`: the watcher ticks every 30 s and its goroutine runs (weak fairness of
  `Watch` and `LoadStore`); a file that is there and parses is read in the end, however
  often it was being changed when the watcher looked (strong, `LoadStat` and `LoadRead`).
  Nothing is owed by administrators, and a save may fail every time.
* `Health`: time passes and each call's goroutine runs (weak).  Neither the apps nor the
  host owe anything.
* `RepoResolve`, `Access`, `Journal` and `Site` have no fairness: their properties are
  safety properties.

## 5 What is proved

Every theorem is of the form `SafeSpec => []P`, `Spec => []P`,
`Spec => [][A]_v` or a step simulation, for every value of the constants that
satisfies the module's `ASSUME`.  Each rests on an inductive invariant, proved
with one step per action.

* **AgentTaskProofs.**  `IInv` adds to `TypeOK` the exact meaning of the
  registry (`pending` = running tasks), where a callback may be at each place
  (a handler that holds a channel found a task that had been registered), and
  that a channel only ever holds a callback aimed at its task.  The second part is
  needed because the handler acts on what it looked up before the lock was
  released.  `RefinesRendezvous` maps each step to `Open`, `Offer`, `Close`,
  `Abandon` or a stutter.
* **DataSourceProofs.**  `IInv` = `TypeOK`, `Coherent`, what a goroutine may
  have in its hands at each place (`ReadInv`: what it is about to store was
  valid and no newer than the file), and that recorded times are in the past
  (`ClockInv`).  `ImplementsFeed`'s specification has no fairness, so
  `RefinesFeed` is the whole refinement.
* **PanelBroadcastProofs.**  `PanelInv` follows one message through its pass:
  the feed is coherent; what has been collected is no newer than the feed; a
  panel built from a source shows data that is no newer than that source's
  now; a status read after the panel was built is not that of an unread source
  if the panel has data.  `ViewBehind` adds that the message under construction
  is at least as new as the last one its client received, which makes
  `ViewNeverRegresses` inductive.
* **RepoResolveProofs.**  `EditInv`: every edit is in the tree or the stash, and
  an unmerged tree has an entry to merge; `PulledFar`: a request that has pulled
  is at or beyond the commit it found.  `AllBack` says nothing of what is in the stash
  on the way, so `PopInv` does: while only stash-pulls have begun and none has failed,
  the tree is not unmerged and the stash has no more entries than there are pops to come,
  whoever pushed them.  When no pop is left the stash is empty, and `EditInv` puts every
  edit in the tree.
* **DiagnosticsProofs.**  Three arguments.
  * `StatusCache`: the fetch under way read a status no older than the cache, and the
    cache is no older than what any connection was shown.
  * `Health`: `CallInv` says who waits for whom.  `FoundInv` says that what a run has found,
    or the cache keeps, since the site last changed is what the checks would find now: a
    report is served while it is younger than the time to live and was made within the
    timeout, hence `VerdictFollowsWorld`.  `DepthInv` follows the calls within calls: below a
    call that the checks of a run made there is the run that holds the mutex, or its
    report has just been kept and answers the call; so nobody runs checks at level 5 and
    nobody calls at level 6.  `SelfChecksEnd` has `Levels >= 6` as its hypothesis: with
    fewer, the bound of the model would end the calls and not the code.
  * `Journal`: `RingInv` places each of the last requests at its index of the ring, from
    which all three queries are compared with the history.  `LogInv`: the entries in memory
    and those among the lines of the file are in the order of logging, nothing in them is
    newer than the last entry logged, and what memory holds, or held when the process
    stopped, is in the file or lost.  What a start reads from the file is a recursive
    function of its lines; its facts are proved by assuming a least line at which they
    fail.
* **DeploymentProofs.**  Two arguments.
  * `UpdatesCache`: the case that matters is a check that looked before a pull and stores
    after it: the invalidation cannot run before the check ends, so a pull that is
    acknowledged is never covered by an older, fresh report.  The invariant relates
    `seen`, `head`, `acked` and the cache.  `GivenInv` adds that neither the report in the
    cache nor the look of the check under way is older than the last report given, hence
    `ReportsNeverRegress`.
  * `Site`: builds share one tree, in which those that failed leave things.  `LoneInv` says
    what a run that nobody has met may rely on at each place: the directories are as it
    found them, its imports were vetted if it is strict, the tree holds exactly what it has
    copied so far, and the links and the `go.mod` are its own when it compiles.  Without the
    last two `OnlyVettedCode` is not inductive.  `OriginInv`: a binary made so is that of
    the disk until the next edit, also the one that runs; with what `ByName` picks for
    build and for server, `CodeKeepsItsDirectory` follows.  For `StartsShowTheSame`, what is
    registered is stated without a walk (`Registered`), the order that several apps would
    have to concatenate is that of the one app that has any (`FlattenOne`), and ties change
    nothing when IDs differ.
* **LoginsProofs.**  `LinkInv`: a link that was marked used is created and not
  unused again: only `StoreLink` writes an unused record, before any login can
  have found the link, and a late `MarkUsed` writes a used one.  `VisitInv`: what a
  request is about to purge is over already, and stays over since nothing extends
  a session; hence `SessionLifetime`.  `RateInv`: the links of the last hour are
  among those remembered, of which the last hour holds at most `Limit`.
* **AuthProofs.**  Three arguments; the first two about `Accounts`.  `TimeInv`: no time the server remembers is later
  than that of the file, and contents read under the time the file still has are those of
  the file; this is why `load` must take its time before it reads, and it makes
  `DivergenceIsNoticed` inductive.  `PointerInv`: a pointer that no removal has passed
  is within the array and still at its key.  Lemmas about `Without` (removing one
  element of a sequence) carry the steps of `RemoveAPIKey`.  The third is about `Access`,
  which the module extends too: `AloneInv` says what a change that nobody has overlapped may rely on
  (nobody else is under way, and memory and snapshot are as it left them), and
  `HoldInv` that every settled change is in memory, in each snapshot that may still be
  written and in the configuration; the snapshots are what makes `SettledHolds`
  inductive.  `KeysAreNotOwners` needs no invariant: it follows from the decision for
  any tokens, paths and scopes.

Every safety invariant and every action property that a run checks is a theorem, and so
is the type invariant of every module that a run checks, which is therefore not among
the properties of the runs.  The assumptions are those of each module's `ASSUME`, and
`Levels >= 6` for `SelfChecksEnd`.

## 6 Where the code and its documentation disagree

Met while modelling.  The models do what the code does, so each of these is a behaviour
of the model; the properties state what holds all the same.

*Agent tasks, sources and caches*

* A callback is answered 200 though its result can no longer be returned: the timer,
  the context or a failed hook request has decided already (`callback.go:72-91`;
  `dev-docs/AGENT-SDK.md:120-121` says that `RunTask` returns the delivered result).
* Two apps that give their sources the same key may see each other's data under the
  short name, depending on the order of a map iteration (`websocket.go:208-213`;
  `dev-docs/BUILDING-APPS.md:243`).
* `GetUpdatesCached` "returns cached data without blocking" (`updates.go:157`), but
  waits for the mutex that a running check holds during its git commands.
* The stash entry that stash-drop-pull keeps "for recovery if needed" (`updates.go:223`)
  is popped by a stash-pull with nothing of its own to stash.

*Logins, users and tokens*

* A magic link is "Single-use (deleted after first use)" (`dev-docs/AUTH.md:237`), but
  two requests that both read it before either marks it used both open a session, and
  the link stays, marked, until the cleanup.
* `GetData` returns a "copy-safe" snapshot (`users.go:156`) that is the live pointer.
  `FindAPIKey` returns a pointer too, used after the lock is released, while
  `RemoveAPIKey` shifts the array in place: a request may act with the record of the
  key behind the one removed (`disturbed` in `Accounts`).
* Of two changes of the scoped tokens that overlap, the older snapshot may be the one that
  is written last: both requests are answered as done, and the next start undoes one of
  them (`writeScopedTokensToConfig` runs with no lock over read, snapshot and write).  `SettledHolds`
  is about a change that nothing overlapped.
* A watcher load that read before a change and stores after it undoes the acknowledged
  change in memory until the next poll; a change made in that window saves it undone.
* A change that could not be saved is answered with an error and stays in memory.
* A crash in the middle of a save leaves a `users.json` that does not parse, and the next
  start falls back to the older authentication until somebody repairs the file.
* A mixed or cut off write of the configuration keeps the server from starting, and in a
  running one makes every later change of the tokens unpersisted; the request is
  answered as if it had been.
* A session of a user who was deleted keeps its identity until it expires.
* `CheckScope`, `RequireScope`, `RequireAdmin` and `RequireAuth` have no callers outside
  tests, so the scopes of an API key limit nothing beyond what `checkAuthNotScoped`
  refuses (`AUTH.md`, "Scoped Access": "No match = denied").

*Health, logs*

* The comment at `verify_handler.go:48-51` has calls within calls excluded; an app whose
  `verify.json` names `/api/health` makes one.  The runtime checks of that run end with
  the timeout and count as skipped, and the status may be "ok" all the same.
* A request that panics reaches neither the ring nor the error log
  (`dev-docs/TESTING.md:283` on).  The identity in the ring is always empty
  (`dev-docs/AI-DEBUGGING.md:39`).
* An answer of 500 given through `vel.Error` is logged twice.
* `InitErrorLog` "Loads existing entries and trims to the last 1000" (`errorlog.go:34`),
  but its scanner ends at the first line of 64 KiB or more, and nothing looks at
  `scanner.Err()`: that entry and all later ones are gone from memory.  When 1000 or more
  entries come before it, `rewriteFile` deletes them from the file, too.
* An entry whose newline was not written, by a stop or a failing write, is joined by the
  next one, and both are gone after the next restart.  No failure to open, write or rewrite
  the file is noticed: a rewrite that fails half-way leaves a shorter file behind, and
  what it no longer holds is gone at the next start.  In memory, the log grows without
  bound until a restart.

*Build and start*

* Build and `Discover` accept different directories: when the last directory of a name
  has an `app.json` that `Discover` refuses, or no code, the code built from one directory is
  given another, or none.
* With no Go apps the base build writes to the `bin` beside the framework's directory,
  which in the layout without `vel/` is not the `bin/vel` of the site.
* Overlapping builds share `_build`.  While it has no `go.mod`, a compile takes the module
  of the framework: apps as they stand in `rootDir/apps`, not rewritten, or no apps.
* A file that is edited between the scan and the copy is compiled without a scan, and so
  may be what an overlapping build copies.  `OnlyVettedCode` is about a strict build that
  met neither (`vetted`).
* A panel folder or landing page that two apps give, and the order when several apps give
  one, depend on Go's map order and so on the start.
* `ScanDependencyImports`, `findDepInCache` and `ParseDepCapabilities` have no callers.

## 7 Limits, and what is not modelled

Only model-checked, not proved, is liveness (`RunTaskReturns`, `Converges`,
`ClientConverges`, `BroadcastEnds`, `StatusConverges`, `CallersReturn`, `DeadRecordsGo`,
`MemoryFollowsFile`, `HealthAnswered`) and the fairness part of `ImplementsRendezvous`:
the proof system does not reason about fairness and `ENABLED`.

Assumptions of the models, beside their bounds:

* `Accounts`: two writes of `users.json` have different times, in their order.
* `Access`: the settings that choose the mode do not change while the server runs.
* `Journal`: the directory of the log can be made at the start; if not, nothing is logged.
* `Health`: the runtime checks other than a request to `/api/health` take less than the
  client timeout; a mutex let go is taken within a tick; the static checks are one step, and
  the runtime checks see the world of one moment.
* `Site`: build and server see the same `VEL_APPS`; the discovery of one start sees one
  moment; no build runs while the server starts; an app's directory has its name.

Three properties speak of less than the code does, since it promises nothing for the
rest, which the models contain (section 6): `SettledHolds` of token changes that nothing
overlapped, `OnlyVettedCode` of builds that neither an edit nor another build met, and
`ErrorsKept` of entries that no failed write, joined line or ended reading befell.

Left out of modelled components: wording and layout of messages and prompts,
JSON parsing beyond "valid or not", what the CLI and git print, HTTP method
checks, corrupt database records (skipped by reads, removed by cleanup), session
statistics, cookies, the text of generated wrappers, and `ResetFile`, which has
no caller.  `GetSystemMetrics` always returns a nil error, so the early return
of a broadcast pass on its error is unreachable and not an action.

Not modelled:

* the WebSocket handshake before the broadcast: its hazards, a flag read by a timer
  with no synchronisation and two writers on one connection, are decided inside the
  WebSocket library;
* the metrics and sessions caches: two values kept for seconds on which nothing is decided;
* the rate limiter: one counter per address, with a lock around each use;
* the hook engine and the app registry: lists filled at start-up, before anything is served;
* the agent SDK's configuration, the SDK's small helpers, the readers of gateway
  files, proxy, e-mail and error pages: they keep no state of their own that others depend on;
* the browser code: a user interface on the far side of what is modelled;
* the command line (`main.go` outside start-up and `vel verify`): flags, printing, service files.

## 8 Plan

The modules were written in the order of what can go wrong with the most effect: the
tasks and data that a panel shows, the updates of the site, who may log in; then users
and tokens, health, logs, and the way from directories to panels.  What is left:

1. The handshake, once the promises of the WebSocket library are written down.
2. Liveness beyond the instances, with a prover that reasons about fairness.
