---------------------------- MODULE DeploymentProofs ----------------------------
(***************************************************************************)
(* Proofs about what a site is made of: the updates of its apps that are   *)
(* reported and pulled (UpdatesCache), for any number of connections,      *)
(* requests and commits, and the binary and the panels that its apps give  *)
(* it (Site), for any directories and any number of builds.  The two share *)
(* no state; each part of the module is about one of them.                 *)
(***************************************************************************)
EXTENDS UpdatesCache, Site, FiniteSetTheorems, SequenceTheorems, WellFoundedInduction,
        TLAPS

-----------------------------------------------------------------------------
(* The updates.  Only the holder of the mutex has a report in hand, and reports in *)
(* hand are newer than those in the cache. *)

\* Only the holder of the mutex has looked; what it saw is no older than the cache
\* and than what was acknowledged, for nobody acknowledges meanwhile.  A check request
\* that holds it has not been answered yet.
LockInv ==
  /\ seen # 0 => updatesMu # NoOne /\ updatesCache <= seen /\ acked <= seen
  /\ seen <= head
  /\ updatesCache <= head
  /\ acked <= head
  /\ \A r \in CheckRequests : updatesMu = r => rpc[r] = "check"

\* What a client was given last is no newer than what the next one can be given: the
\* cache, unless it is empty, or what a check has in hand or is going to see.
GivenInv ==
  /\ given <= head
  /\ seen # 0 => given <= seen
  /\ updatesCache # 0 => given <= updatesCache

\* Once a check was asked, and once it has looked.
AskedInv ==
  \A r \in CheckRequests :
    /\ asked[r] <= head
    /\ updatesMu = r /\ seen # 0 => asked[r] <= seen

IInv == /\ TypeOK
        /\ LockInv
        /\ GivenInv
        /\ AskedInv
        /\ ReportCoversResolves
        /\ CheckIsLive

-----------------------------------------------------------------------------
LEMMA InitInv == Init => IInv
<1> SUFFICES ASSUME Init PROVE IInv
  OBVIOUS
<1>1. 1 \in 1..MaxHead /\ 0 \in 0..MaxHead /\ 0 \in 0..MaxRefreshers
  BY UpdatesAssumption
<1>2. /\ rpc \in [Requests -> {"new", "pulled", "invalidate", "check", "done",
                               "failed"}]
      /\ script \in [Deploys -> {"none", "running", "restarting", "over"}]
      /\ asked \in [CheckRequests -> 0..MaxHead]
      /\ answer \in [CheckRequests -> 0..MaxHead]
      /\ bpc \in [Conns -> {"away", "calling"}]
  BY <1>1 DEF Init
<1>3. TypeOK
  BY <1>1, <1>2 DEF Init, TypeOK
<1>4. LockInv /\ GivenInv /\ AskedInv
  BY UpdatesAssumption DEF Init, LockInv, GivenInv, AskedInv, Requests
<1>5. ReportCoversResolves /\ CheckIsLive
  BY DEF Init, ReportCoversResolves, CheckIsLive, Requests
<1>6. QED
  BY <1>3, <1>4, <1>5 DEF IInv

\* IInv is inductive: one step per action.
LEMMA NextInv == IInv /\ [Next]_vars => IInv'
<1> SUFFICES ASSUME IInv, [Next]_vars PROVE IInv'
  OBVIOUS
<1> USE UpdatesAssumption
        DEF IInv, TypeOK, LockInv, GivenInv, AskedInv, ReportCoversResolves,
            CheckIsLive, cacheVars, requestVars, Requests, Advance
<1>1. CASE RefreshLocks
  BY <1>1 DEF RefreshLocks
<1>2. ASSUME NEW r \in CheckRequests, CheckLocks(r) PROVE IInv'
  BY <1>2 DEF CheckLocks
<1>3. CASE CheckLooks
  BY <1>3 DEF CheckLooks
<1>4. CASE StoreReport
  <2>1. /\ updatesCache' = seen /\ seen \in 1..MaxHead /\ seen' = 0
        /\ updatesMu' = NoOne
        /\ UNCHANGED <<head, refreshers, script, asked, acked, bpc>>
    BY <1>4 DEF StoreReport
  <2>2. \/ UNCHANGED <<rpc, answer, given>>
        \/ /\ updatesMu \in CheckRequests
           /\ given' = seen
           /\ rpc' = [rpc EXCEPT ![updatesMu] = "done"]
           /\ answer' = [answer EXCEPT ![updatesMu] = seen]
    BY <1>4 DEF StoreReport
  <2>3. updatesFresh' \in BOOLEAN
    BY <1>4 DEF StoreReport
  <2>4. TypeOK'
    BY <2>1, <2>2, <2>3
  <2>5. LockInv' /\ GivenInv' /\ AskedInv'
    BY <2>1, <2>2
  <2>6. acked <= seen
    BY <1>4, <2>1
  <2>7. ReportCoversResolves' /\ CheckIsLive'
    BY <2>1, <2>2, <2>6
  <2>8. QED
    BY <2>4, <2>5, <2>7
<1>5. CASE ReportExpires
  BY <1>5 DEF ReportExpires
<1>6. ASSUME NEW r \in CheckRequests, CheckRequested(r) PROVE IInv'
  BY <1>6 DEF CheckRequested
<1>7. ASSUME NEW r \in Resolves, ResolvePulls(r) PROVE IInv'
  BY <1>7 DEF ResolvePulls
<1>8. ASSUME NEW r \in Deploys, StartDeploy(r) PROVE IInv'
  BY <1>8 DEF StartDeploy
<1>9. ASSUME NEW r \in Deploys, DeployPulls(r) PROVE IInv'
  BY <1>9 DEF DeployPulls
<1>10. ASSUME NEW r \in Deploys, Restart(r) PROVE IInv'
  <2>1. /\ rpc' \in [Requests -> {"new", "pulled", "invalidate", "check", "done",
                                 "failed"}]
        /\ \A q \in Requests : rpc'[q] = "done" => rpc[q] = "done"
    BY <1>10 DEF Restart
  <2>2. /\ script' \in [Deploys -> {"none", "running", "restarting", "over"}]
        /\ bpc' \in [Conns -> {"away", "calling"}]
    BY <1>10 DEF Restart
  <2>3. /\ updatesCache' = 0 /\ seen' = 0 /\ refreshers' = 0 /\ updatesMu' = NoOne
        /\ UNCHANGED <<head, asked, answer, acked, given>>
    BY <1>10 DEF Restart
  <2>4. updatesFresh' \in BOOLEAN
    BY <1>10 DEF Restart
  <2>5. TypeOK'
    BY <2>1, <2>2, <2>3, <2>4
  <2>6. LockInv' /\ GivenInv' /\ AskedInv'
    BY <2>2, <2>3
  <2>7. ReportCoversResolves' /\ CheckIsLive'
    BY <2>1, <2>3
  <2>8. QED
    BY <2>5, <2>6, <2>7
<1>11. ASSUME NEW r \in Requests, Invalidate(r) PROVE IInv'
  <2>1. /\ updatesMu = NoOne /\ seen = 0 /\ rpc[r] # "check"
        /\ rpc' = [rpc EXCEPT ![r] = IF r \in CheckRequests THEN "check" ELSE "done"]
        /\ UNCHANGED <<head, updatesCache, updatesMu, seen, refreshers, script,
                       asked, answer, bpc, given>>
    BY <1>11 DEF Invalidate
  <2>2. acked' \in {acked, head} /\ ~updatesFresh' /\ updatesFresh' \in BOOLEAN
    BY <1>11 DEF Invalidate
  <2>3. TypeOK'
    BY <2>1, <2>2
  <2>4. LockInv' /\ GivenInv' /\ AskedInv'
    BY <2>1, <2>2
  <2>5. ReportCoversResolves' /\ CheckIsLive'
    BY <2>1, <2>2
  <2>6. QED
    BY <2>3, <2>4, <2>5
<1>12. ASSUME NEW c \in Conns, CallCached(c) PROVE IInv'
  BY <1>12 DEF CallCached
<1>13. ASSUME NEW c \in Conns, ReturnCached(c) PROVE IInv'
  BY <1>13 DEF ReturnCached
<1>14. CASE UNCHANGED vars
  BY <1>14 DEF vars
<1>15. QED
  BY <1>1, <1>2, <1>3, <1>4, <1>5, <1>6, <1>7, <1>8, <1>9, <1>10, <1>11,
     <1>12, <1>13, <1>14
     DEF Next

LEMMA Inductive == SafeSpec => []IInv
  BY InitInv, NextInv, PTL DEF SafeSpec

\* The variables keep their types.
THEOREM TypeCorrect == SafeSpec => []TypeOK
<1>1. IInv => TypeOK
  BY DEF IInv
<1>2. QED
  BY <1>1, Inductive, PTL

\* No report that may be served predates an acknowledged resolve.
THEOREM ReportsCoverResolves == SafeSpec => []ReportCoversResolves
<1>1. IInv => ReportCoversResolves
  BY DEF IInv
<1>2. QED
  BY <1>1, Inductive, PTL

\* A forced check answers with a look made after it was asked.
THEOREM ChecksAreLive == SafeSpec => []CheckIsLive
<1>1. IInv => CheckIsLive
  BY DEF IInv
<1>2. QED
  BY <1>1, Inductive, PTL

\* Whichever client is given a report, it is no older than the one given before it,
\* and so than all that were given before.
THEOREM ReportsOnlyAdvance == SafeSpec => ReportsNeverRegress
<1>1. IInv /\ [Next]_vars => [given <= given']_given
  <2> SUFFICES ASSUME IInv, [Next]_vars, given' # given PROVE given <= given'
    OBVIOUS
  <2>1. \/ given' = seen /\ seen # 0
        \/ given' = updatesCache /\ updatesCache # 0
    BY DEF Next, RefreshLocks, CheckLocks, CheckLooks, StoreReport, ReportExpires,
           CheckRequested, ResolvePulls, StartDeploy, DeployPulls, Restart,
           Invalidate, CallCached, ReturnCached, vars
  <2>2. QED
    BY <2>1 DEF IInv, GivenInv
<1>2. QED
  BY <1>1, Inductive, PTL DEF SafeSpec, ReportsNeverRegress

-----------------------------------------------------------------------------
(* The site.  A build that is alone has the tree to itself, and what it compiles was *)
(* read from directories that have not changed since it vetted them. *)

\* A set of natural numbers has a least element, a set of directories a last one.
LEMMA Least == ASSUME NEW S \in SUBSET Nat, S # {} PROVE \E n \in S : \A m \in S : n <= m
<1>1. PICK n \in S : \A m \in S : ~(<<m, n>> \in OpToRel(<, Nat))
  BY NatLessThanWellFounded, WFMin
<1>2. \A m \in S : ~(m < n)
  BY <1>1 DEF OpToRel
<1> QED
  BY <1>2

LEMMA Directories == Cardinality(Dirs) \in Nat /\ Dirs = 1..Cardinality(Dirs) /\ Dirs \subseteq Nat
<1>1. Cardinality(Dirs) \in Nat
  BY SiteAssumption, FS_CardinalityType
<1>2. Dirs = 1..Cardinality(Dirs)
  BY SiteAssumption
<1> QED
  BY <1>1, <1>2

LEMMA LastDirectory ==
  ASSUME NEW S \in SUBSET Dirs, S # {}
  PROVE  /\ Max(S) \in S /\ Max(S) \in Nat /\ \A d \in S : d <= Max(S)
         /\ \A d \in S : (\A e \in S : e <= d) => d = Max(S)
<1> DEFINE N == Cardinality(Dirs)
           T == {N - d : d \in S}
<1>1. N \in Nat /\ S \subseteq Nat /\ \A d \in S : N - d \in Nat
  BY Directories
<1> HIDE DEF N
<1>2. PICK t \in T : \A u \in T : t <= u
  <2>1. T \in SUBSET Nat /\ T # {}
    BY <1>1
  <2> HIDE DEF T
  <2> QED
    BY <2>1, Least
<1>3. PICK m \in S : t = N - m
  BY <1>2
<1>4. \A d \in S : d <= m
  BY <1>1, <1>2, <1>3
<1> DEFINE last == Max(S)
<1>5. last \in S /\ \A d \in S : last >= d
  BY <1>1, <1>3, <1>4 DEF Max
<1> HIDE DEF last
<1>6. last \in Nat /\ \A d \in S : d <= last
  BY <1>1, <1>5
<1>7. \A d \in S : (\A e \in S : e <= d) => d = last
  BY <1>1, <1>5, <1>6
<1> QED
  BY <1>5, <1>6, <1>7 DEF last

-----------------------------------------------------------------------------
(* The apps that a walk of the directories finds *)

LEMMA FoundType ==
  ASSUME disk \in [Dirs -> Contents], NEW d \in Dirs
  PROVE  Found(d) \in Manifests /\ disk[d].name \in Names /\ disk[d].imports \subseteq Imports
<1>1. disk[d] \in Contents
  OBVIOUS
<1>2. disk[d].landing \in BOOLEAN
  BY <1>1, SiteAssumption
<1> QED
  BY <1>1, <1>2 DEF Found, Manifests, Names, Imports

LEMMA ByNameIs ==
  ASSUME disk \in [Dirs -> Contents], NEW dirs \in SUBSET Dirs
  PROVE  /\ ByName(dirs) \in ByNames(Manifests) /\ DOMAIN ByName(dirs) = {disk[d].name : d \in dirs}
         /\ \A n \in DOMAIN ByName(dirs) :
              LET of == {d \in dirs : disk[d].name = n}
              IN  ByName(dirs)[n] = Found(Max(of)) /\ Max(of) \in of /\ \A d \in of : d <= Max(of)
<1> DEFINE names == {disk[d].name : d \in dirs}
           of(n) == {d \in dirs : disk[d].name = n}
<1>1. ASSUME NEW n \in names PROVE Max(of(n)) \in of(n) /\ \A d \in of(n) : d <= Max(of(n))
  <2>1. of(n) \in SUBSET Dirs /\ of(n) # {}
    OBVIOUS
  <2> HIDE DEF of
  <2> QED
    BY <2>1, LastDirectory
<1>2. ByName(dirs) = [n \in names |-> Found(Max(of(n)))]
  BY DEF ByName
<1>3. \A n \in names : Found(Max(of(n))) \in Manifests
  BY <1>1, FoundType
<1>4. names \in SUBSET Names
  BY FoundType
<1>5. ByName(dirs) \in [names -> Manifests]
  <2> HIDE DEF names, of
  <2> QED
    BY <1>2, <1>3
<1>6. ByName(dirs) \in ByNames(Manifests)
  <2> HIDE DEF names, of
  <2> QED
    BY <1>4, <1>5 DEF ByNames
<1> QED
  BY <1>1, <1>2, <1>6

LEMMA AppsAre ==
  ASSUME disk \in [Dirs -> Contents]
  PROVE  /\ BuildApps \in ByNames(Manifests) /\ ServerApps \in ByNames(Manifests)
         /\ \A n \in DOMAIN BuildApps : n \in Names /\ BuildApps[n].dir \in Dirs
<1>1. BuildApps \in ByNames(Manifests) /\ ServerApps \in ByNames(Manifests)
  BY ByNameIs DEF BuildApps, ServerApps
<1>2. PICK names \in SUBSET Names : BuildApps \in [names -> Manifests]
  BY <1>1 DEF ByNames
<1> QED
  BY <1>1, <1>2 DEF Manifests

LEMMA NamedType ==
  ASSUME NEW S, NEW f \in ByNames(S)
  PROVE  DOMAIN f \subseteq Names /\ f \in [DOMAIN f -> S] /\ \A n \in DOMAIN f : f[n] \in S
  BY DEF ByNames

LEMMA Named ==
  ASSUME NEW S, NEW names \in SUBSET Names, NEW f \in [names -> S] PROVE f \in ByNames(S)
  BY DEF ByNames

-----------------------------------------------------------------------------
(* Types *)

Runs == [pc : {"idle", "scan", "prepare", "copy", "main", "links", "module", "compile", "clean"},
         mode : {"strict", "bypass"}, apps : ByNames(Manifests), std : SUBSET Std,
         todo : SUBSET Names, alone : BOOLEAN]
Trees == [exists : BOOLEAN, wrappers : SUBSET Std, apps : ByNames(Packages), main : BOOLEAN,
          links : SUBSET Names, module : BOOLEAN]

LEMMA BoundsType == MaxEdits \in Nat /\ MaxBuilds \in Nat
  BY SiteAssumption

LEMMA NothingType ==
  /\ Done \in Runs /\ Gone \in Trees /\ NoBinary \in Binaries
  /\ <<>> \in ByNames(Manifests) /\ <<>> \in ByNames(Packages)
<1>1. \A S : <<>> \in ByNames(S)
  <2> SUFFICES ASSUME NEW S PROVE <<>> \in ByNames(S)
    OBVIOUS
  <2>1. <<>> \in [{} -> S]
    OBVIOUS
  <2> QED
    BY <2>1, Named
<1> QED
  BY <1>1, BoundsType DEF Done, Gone, NoBinary, Runs, Trees, Binaries

LEMMA SiteInitType == SiteInit => SiteTypeOK
<1> SUFFICES ASSUME SiteInit PROVE SiteTypeOK
  OBVIOUS
<1>1. build \in [Builders -> Runs] /\ tree \in Trees /\ bin \in Binaries
  BY NothingType DEF SiteInit
<1>2. /\ server.bin \in Binaries /\ server.apps \in ByNames(Manifests) /\ server.order = <<>>
      /\ server.landing = 0 /\ server.at = 0
  BY NothingType DEF SiteInit, Down
<1> QED
  BY <1>1, <1>2, BoundsType DEF SiteInit, SiteTypeOK, Runs, Trees

\* A step of a run of `vel build` that changes nothing else than the tree.
LEMMA RunType ==
  ASSUME SiteTypeOK, build' \in [Builders -> Runs], tree' \in Trees, bin' \in Binaries,
         UNCHANGED <<disk, edits, server>>, builds' \in 0..MaxBuilds
  PROVE  SiteTypeOK'
  BY DEF SiteTypeOK, Runs, Trees

LEMMA PackageType ==
  ASSUME SiteTypeOK, NEW n \in Names PROVE Package(n) \subseteq Packages
<1>1. /\ disk \in [Dirs -> Contents] /\ tree.apps \in ByNames(Packages)
  BY DEF SiteTypeOK
<1>2. \A m \in DOMAIN tree.apps : tree.apps[m] \in Packages
  BY <1>1, NamedType
<1>3. ASSUME NEW d \in Dirs
      PROVE  [dir |-> d, caps |-> disk[d].caps, raw |-> disk[d].imports, wrapped |-> {}] \in Packages
  BY <1>1, FoundType DEF Packages
<1> QED
  BY <1>2, <1>3 DEF Package

LEMMA CopyType ==
  ASSUME SiteTypeOK, NEW b \in Builders, NEW n \in DOMAIN build[b].apps
  PROVE  n \in Names /\ Copy(b, n) \in Packages
<1>1. /\ disk \in [Dirs -> Contents] /\ build[b].apps \in ByNames(Manifests)
      /\ build[b].std \subseteq Std
  BY DEF SiteTypeOK
<1>2. n \in Names /\ build[b].apps[n] \in Manifests
  BY <1>1, NamedType
<1>3. build[b].apps[n].dir \in Dirs /\ build[b].apps[n].caps \in {c.caps : c \in Contents}
  BY <1>2 DEF Manifests
<1>4. disk[build[b].apps[n].dir].imports \subseteq Imports
  BY <1>1, <1>3, FoundType
<1> QED
  BY <1>1, <1>2, <1>3, <1>4 DEF Copy, Packages

LEMMA BeginType == ASSUME SiteTypeOK, NEW b \in Builders, Begin(b) PROVE SiteTypeOK'
<1>1. /\ build \in [Builders -> Runs] /\ disk \in [Dirs -> Contents] /\ builds \in 0..MaxBuilds
      /\ tree \in Trees /\ bin \in Binaries
  BY DEF SiteTypeOK, Runs, Trees
<1>2. PICK mode \in {"strict", "bypass"} :
        build' = [c \in Builders |->
                    IF c = b
                    THEN [Done EXCEPT !.pc = "scan", !.mode = mode, !.apps = BuildApps,
                                      !.todo = DOMAIN BuildApps, !.alone = Others(b) = {}]
                    ELSE [build[c] EXCEPT !.alone = @ /\ ~Active(c)]]
  BY DEF Begin
<1>3. BuildApps \in ByNames(Manifests) /\ DOMAIN BuildApps \subseteq Names
  BY <1>1, AppsAre
<1>4. [Done EXCEPT !.pc = "scan", !.mode = mode, !.apps = BuildApps,
                   !.todo = DOMAIN BuildApps, !.alone = Others(b) = {}] \in Runs
  BY <1>3 DEF Done, Runs
<1>5. \A c \in Builders : [build[c] EXCEPT !.alone = @ /\ ~Active(c)] \in Runs
  BY <1>1 DEF Runs
<1>6. build' \in [Builders -> Runs]
  BY <1>2, <1>4, <1>5
<1>7. builds' \in 0..MaxBuilds /\ UNCHANGED <<disk, edits, tree, bin, server>>
  <2>1. builds < MaxBuilds /\ builds' = builds + 1
    BY DEF Begin
  <2>2. UNCHANGED <<disk, edits, tree, bin, server>>
    BY DEF Begin
  <2> QED
    BY <1>1, <2>1, <2>2, BoundsType
<1> QED
  BY <1>1, <1>6, <1>7, RunType

LEMMA StepsType ==
  ASSUME SiteTypeOK, NEW b \in Builders, Scan(b) \/ Prepare(b) \/ Generate(b)
  PROVE  SiteTypeOK'
<1>1. /\ build \in [Builders -> Runs] /\ tree \in Trees /\ bin \in Binaries
      /\ builds \in 0..MaxBuilds /\ UNCHANGED <<builds, disk, edits, bin, server>>
  BY DEF SiteTypeOK, Runs, Trees, Scan, Prepare, Generate
<1>2. build' \in [Builders -> Runs]
  BY <1>1 DEF Runs, Scan, Prepare, Generate
<1>3. tree' \in Trees
  <2>1. CASE Scan(b)
    BY <1>1, <2>1 DEF Scan
  <2>2. CASE Prepare(b)
    BY <1>1, <2>2, NothingType DEF Prepare, Runs, Trees
  <2>3. CASE Generate(b)
    <3>1. DOMAIN build[b].apps \subseteq Names
      BY <1>1, NamedType DEF Runs
    <3>2. \/ tree' = [tree EXCEPT !.main = TRUE]
          \/ tree' = [tree EXCEPT !.links = DOMAIN build[b].apps]
          \/ tree' = [tree EXCEPT !.module = TRUE]
      BY <2>3 DEF Generate
    <3> QED
      BY <1>1, <3>1, <3>2 DEF Trees
  <2> QED
    BY <2>1, <2>2, <2>3
<1> QED
  BY <1>1, <1>2, <1>3, RunType

LEMMA OntoType ==
  ASSUME NEW old \in Packages, NEW new \in Packages PROVE Onto(old, new) \subseteq Packages
  BY DEF Onto, Packages

LEMMA CopyAppType ==
  ASSUME SiteTypeOK, NEW b \in Builders, NEW n \in Names, n \in DOMAIN build[b].apps, CopyApp(b, n)
  PROVE  SiteTypeOK'
<1>1. /\ build \in [Builders -> Runs] /\ tree \in Trees /\ bin \in Binaries
      /\ builds \in 0..MaxBuilds /\ UNCHANGED <<builds, disk, edits, bin, server>>
  BY DEF SiteTypeOK, Runs, Trees, CopyApp
<1>2. build' \in [Builders -> Runs]
  <2>1. build' = [build EXCEPT ![b].todo = @ \ {n},
                               ![b].pc = IF build[b].todo = {n} THEN "main" ELSE "copy"]
    BY DEF CopyApp
  <2>2. [build[b] EXCEPT !.todo = @ \ {n},
                         !.pc = IF build[b].todo = {n} THEN "main" ELSE "copy"] \in Runs
    BY <1>1 DEF Runs
  <2> QED
    BY <1>1, <2>1, <2>2
<1>6. PICK p \in IF n \in DOMAIN tree.apps THEN Onto(tree.apps[n], Copy(b, n)) ELSE {Copy(b, n)} :
        tree' = [tree EXCEPT
          !.exists = TRUE,
          !.apps = [m \in {n} \cup DOMAIN @ |-> IF m = n THEN p ELSE @[m]]]
  BY DEF CopyApp
<1> DEFINE copied == [m \in {n} \cup DOMAIN tree.apps |-> IF m = n THEN p ELSE tree.apps[m]]
<1>3. copied \in ByNames(Packages)
  <2>1. Copy(b, n) \in Packages /\ \A m \in DOMAIN tree.apps : m \in Names /\ tree.apps[m] \in Packages
    BY <1>1, CopyType, NamedType DEF Trees
  <2>4. p \in Packages
    <3>1. CASE n \in DOMAIN tree.apps
      BY <1>6, <2>1, <3>1, OntoType
    <3>2. CASE n \notin DOMAIN tree.apps
      BY <1>6, <2>1, <3>2
    <3> QED
      BY <3>1, <3>2
  <2>2. {n} \cup DOMAIN tree.apps \in SUBSET Names
    BY <2>1
  <2>3. copied \in [{n} \cup DOMAIN tree.apps -> Packages]
    BY <2>1, <2>4
  <2> QED
    BY <2>2, <2>3, Named
<1>4. tree' = [tree EXCEPT !.exists = TRUE, !.apps = copied]
  BY <1>6
<1>5. tree' \in Trees
  <2> HIDE DEF copied
  <2> QED
    BY <1>1, <1>3, <1>4 DEF Trees
<1> QED
  BY <1>1, <1>2, <1>5, RunType

\* What is compiled: a package of each linked app.
LEMMA Compiled ==
  ASSUME SiteTypeOK, NEW b \in Builders, Compile(b)
  PROVE  /\ bin'.apps \in ByNames(Packages) /\ DOMAIN bin'.apps = tree.links
         /\ \A n \in tree.links : bin'.apps[n] \in Package(n)
         /\ bin' \in Binaries
<1> DEFINE chosen == [n \in tree.links |-> CHOOSE p \in Package(n) : TRUE]
<1>1. bin' = [apps |-> chosen, vetted |-> build[b].mode = "strict" /\ build[b].alone, at |-> edits]
  BY DEF Compile, Binary
<1>2. tree.links \in SUBSET Names /\ edits \in 0..MaxEdits /\ build[b].alone \in BOOLEAN
  BY DEF SiteTypeOK
<1>3. \A n \in tree.links : chosen[n] \in Package(n)
  <2>1. \A n \in tree.links : \E p \in Package(n) : TRUE
    BY DEF Compile
  <2> QED
    BY <2>1
<1>4. chosen \in [tree.links -> Packages]
  <2>1. \A n \in tree.links : chosen[n] \in Packages
    <3> HIDE DEF chosen
    <3> QED
      BY <1>2, <1>3, PackageType
  <2> QED
    BY <2>1
<1>5. chosen \in ByNames(Packages) /\ DOMAIN chosen = tree.links
  <2>1. DOMAIN chosen = tree.links
    OBVIOUS
  <2> HIDE DEF chosen
  <2> QED
    BY <1>2, <1>4, <2>1, Named
<1> HIDE DEF chosen
<1> QED
  BY <1>1, <1>2, <1>3, <1>5 DEF Binaries

LEMMA EndsType ==
  ASSUME SiteTypeOK, NEW b \in Builders,
         Compile(b) \/ Clean(b) \/ Abort(b) \/ BuildBase(b)
  PROVE  SiteTypeOK'
<1>1. /\ build \in [Builders -> Runs] /\ tree \in Trees /\ bin \in Binaries
      /\ builds \in 0..MaxBuilds /\ edits \in 0..MaxEdits
      /\ UNCHANGED <<disk, edits, server>>
  BY DEF SiteTypeOK, Runs, Trees, Compile, Clean, Abort, BuildBase
<1>2. build' \in [Builders -> Runs]
  BY <1>1, NothingType DEF Compile, Clean, Abort, BuildBase, Runs
<1>3. tree' \in Trees
  BY <1>1, NothingType DEF Compile, Clean, Abort, BuildBase
<1>4. bin' \in Binaries
  <2>1. [NoBinary EXCEPT !.at = edits] \in Binaries
    BY <1>1, NothingType DEF NoBinary, Binaries
  <2> QED
    BY <1>1, <2>1, Compiled DEF Clean, Abort, BuildBase
<1>5. builds' \in 0..MaxBuilds
  BY <1>1, BoundsType DEF Compile, Clean, Abort, BuildBase
<1> QED
  BY <1>1, <1>2, <1>3, <1>4, <1>5, RunType

LEMMA EditType == ASSUME SiteTypeOK, NEW d \in Dirs, Edit(d) PROVE SiteTypeOK'
<1>1. build \in [Builders -> Runs] /\ disk \in [Dirs -> Contents] /\ edits \in 0..MaxEdits
  BY DEF SiteTypeOK, Runs
<1>2. build' \in [Builders -> Runs]
  <2>1. build' = [b \in Builders |-> [build[b] EXCEPT !.alone = @ /\ ~Active(b)]]
    BY DEF Edit
  <2>2. \A b \in Builders : [build[b] EXCEPT !.alone = @ /\ ~Active(b)] \in Runs
    BY <1>1 DEF Runs
  <2> QED
    BY <2>1, <2>2
<1>3. disk' \in [Dirs -> Contents] /\ edits' \in 0..MaxEdits
  BY <1>1, BoundsType DEF Edit
<1> QED
  BY <1>2, <1>3 DEF Edit, SiteTypeOK, Runs

-----------------------------------------------------------------------------
(* A build that nobody disturbs *)

\* A run that no other run and no edit has met so far.
Lone(b) == Active(b) /\ build[b].alone

\* What a lone run knows: the disk is as it was read, the imports were vetted, and the
\* tree holds what it has copied itself and nothing else.
Undisturbed(b) ==
  LET here == build[b] IN
  /\ Others(b) = {} /\ CanDiscover /\ here.apps = BuildApps
  /\ IF here.pc \in {"scan", "prepare"} THEN here.todo = DOMAIN here.apps
     ELSE here.pc # "copy" => here.todo = {}
  /\ here.pc # "scan" =>
       /\ here.std = Std \cap UNION {disk[here.apps[n].dir].imports : n \in DOMAIN here.apps}
       /\ here.mode = "strict" => Violations(b) = {}
  /\ here.pc \in {"copy", "main", "links", "module", "compile"} =>
       tree.apps = [n \in DOMAIN here.apps \ here.todo |-> Copy(b, n)]
  /\ here.pc \in {"module", "compile"} => tree.links = DOMAIN here.apps
  /\ here.pc = "compile" => tree.module

\* The tree is shared, and outlives the builds that fail: a run in strict mode vouches
\* for what it compiles only by this.
LoneInv == \A b \in Builders : Lone(b) => Undisturbed(b)

\* Each step of a run leaves what the directories held, and the others, alone.
LEMMA StepKeeps ==
  ASSUME SiteTypeOK, NEW b \in Builders, disk' = disk,
         \A c \in Builders \ {b} : build'[c] = build[c]
  PROVE  /\ BuildApps' = BuildApps /\ (CanDiscover' <=> CanDiscover) /\ Others(b)' = Others(b)
         /\ build'[b].std = build[b].std /\ build'[b].apps = build[b].apps
              => \A n : Copy(b, n)' = Copy(b, n)
         /\ build'[b].mode = build[b].mode /\ build'[b].apps = build[b].apps
              => Violations(b)' = Violations(b)
<1>1. BuildApps' = BuildApps /\ (CanDiscover' <=> CanDiscover)
  BY DEF BuildApps, CanDiscover, ByName, Found
<1>2. Others(b)' = Others(b)
  BY DEF Others, Active
<1>3. ASSUME build'[b].std = build[b].std, build'[b].apps = build[b].apps, NEW n
      PROVE  Copy(b, n)' = Copy(b, n)
  BY <1>3 DEF Copy
<1>4. ASSUME build'[b].mode = build[b].mode, build'[b].apps = build[b].apps
      PROVE  Violations(b)' = Violations(b)
  BY <1>4 DEF Violations
<1> QED
  BY <1>1, <1>2, <1>3, <1>4

\* A run that steps is alone afterwards only if it was before, and no other is.
LEMMA LoneAfter ==
  ASSUME SiteTypeOK, LoneInv, NEW b \in Builders, Active(b),
         \A c \in Builders \ {b} : build'[c] = build[c],
         Lone(b)' => Lone(b) /\ Undisturbed(b)'
  PROVE  LoneInv'
<1> SUFFICES ASSUME NEW c \in Builders, Lone(c)' PROVE Undisturbed(c)'
  BY DEF LoneInv
<1>1. CASE c = b
  BY <1>1
<1>2. CASE c # b
  <2>1. Lone(c) /\ b \in Others(c)
    BY <1>2 DEF Lone, Active, Others
  <2> QED
    BY <2>1 DEF LoneInv, Undisturbed
<1> QED
  BY <1>1, <1>2

\* A run copies only apps that it found.
Planned == \A b \in Builders : build[b].todo \subseteq DOMAIN build[b].apps

LEMMA PlannedKept ==
  ASSUME SiteTypeOK, Planned, [SiteNext]_siteVars PROVE Planned'
<1>1. build \in [Builders -> Runs]
  BY DEF SiteTypeOK, Runs
<1>2. ASSUME NEW b \in Builders, Begin(b) PROVE Planned'
  <2>1. PICK mode \in {"strict", "bypass"} :
          build' = [c \in Builders |->
                      IF c = b
                      THEN [Done EXCEPT !.pc = "scan", !.mode = mode, !.apps = BuildApps,
                                        !.todo = DOMAIN BuildApps, !.alone = Others(b) = {}]
                      ELSE [build[c] EXCEPT !.alone = @ /\ ~Active(c)]]
    BY <1>2 DEF Begin
  <2>2. build'[b].todo = DOMAIN BuildApps /\ build'[b].apps = BuildApps
    BY <2>1 DEF Done
  <2>3. \A c \in Builders \ {b} : build'[c].todo = build[c].todo /\ build'[c].apps = build[c].apps
    BY <1>1, <2>1 DEF Runs
  <2> QED
    BY <2>2, <2>3 DEF Planned
<1>3. ASSUME NEW b \in Builders, Scan(b) \/ Prepare(b) \/ Generate(b) \/ Compile(b) PROVE Planned'
  <2>1. \A c \in Builders : build'[c].todo = build[c].todo /\ build'[c].apps = build[c].apps
    BY <1>1, <1>3 DEF Runs, Scan, Prepare, Generate, Compile
  <2> QED
    BY <2>1 DEF Planned
<1>4. ASSUME NEW b \in Builders, Clean(b) \/ Abort(b) PROVE Planned'
  BY <1>1, <1>4 DEF Clean, Abort, Planned, Done
<1>5. ASSUME NEW b \in Builders, NEW n \in Names, CopyApp(b, n) PROVE Planned'
  <2>1. \A c \in Builders : build'[c].todo \subseteq build[c].todo /\ build'[c].apps = build[c].apps
    <3>1. build' = [build EXCEPT ![b].todo = @ \ {n},
                                 ![b].pc = IF build[b].todo = {n} THEN "main" ELSE "copy"]
      BY <1>5 DEF CopyApp
    <3> QED
      BY <1>1, <3>1 DEF Runs
  <2> QED
    BY <2>1 DEF Planned
<1>6. ASSUME NEW d \in Dirs, Edit(d) PROVE Planned'
  <2>1. \A c \in Builders : build'[c].todo = build[c].todo /\ build'[c].apps = build[c].apps
    BY <1>1, <1>6 DEF Edit, Runs
  <2> QED
    BY <2>1 DEF Planned
<1>7. CASE UNCHANGED build
  BY <1>7 DEF Planned
<1> QED
  BY <1>2, <1>3, <1>4, <1>5, <1>6, <1>7 DEF SiteNext, siteVars, BuildBase, Start

LEMMA StepsLone ==
  ASSUME SiteTypeOK, LoneInv, NEW b \in Builders, Scan(b) \/ Prepare(b) \/ Generate(b) \/ Compile(b)
  PROVE  LoneInv'
<1>1. build \in [Builders -> Runs] /\ tree \in Trees
  BY DEF SiteTypeOK, Runs, Trees
<1>2. /\ Active(b) /\ disk' = disk /\ \A c \in Builders \ {b} : build'[c] = build[c]
      /\ build'[b].apps = build[b].apps /\ build'[b].mode = build[b].mode
      /\ build'[b].todo = build[b].todo /\ build'[b].alone = build[b].alone
  BY <1>1 DEF Active, Scan, Prepare, Generate, Compile, Runs
<1>3. SUFFICES ASSUME Lone(b)' PROVE Lone(b) /\ Undisturbed(b)'
  BY <1>2, LoneAfter
<1>4. Lone(b) /\ Undisturbed(b)
  BY <1>2, <1>3 DEF Lone, LoneInv
<1>5. /\ Others(b)' = {} /\ CanDiscover' /\ build'[b].apps = BuildApps'
      /\ Violations(b)' = Violations(b)
      /\ build'[b].std = build[b].std => \A n : Copy(b, n)' = Copy(b, n)
  BY <1>2, <1>4, StepKeeps DEF Undisturbed
<1> DEFINE found == Std \cap UNION {disk[build[b].apps[n].dir].imports : n \in DOMAIN build[b].apps}
<1>6. found' = found
  BY <1>2
<1>7. CASE Scan(b)
  <2>1. /\ build'[b].pc = "prepare" /\ build[b].pc = "scan" /\ build'[b].std = found
        /\ build[b].mode = "strict" => Violations(b) = {}
    BY <1>1, <1>7 DEF Scan, Runs
  <2> QED
    BY <1>2, <1>4, <1>5, <1>6, <2>1 DEF Undisturbed
<1>8. CASE Prepare(b)
  <2>1. /\ build'[b].pc = "copy" /\ build[b].pc = "prepare" /\ build'[b].std = build[b].std
        /\ tree'.apps = <<>>
    BY <1>1, <1>8 DEF Prepare, Runs, Gone
  <2>2. build[b].todo = DOMAIN build[b].apps /\ build[b].std = found
        /\ (build[b].mode = "strict" => Violations(b) = {})
    BY <1>4, <2>1 DEF Undisturbed
  <2>3. tree'.apps = [n \in DOMAIN build'[b].apps \ build'[b].todo |-> Copy(b, n)']
    <3>1. DOMAIN build'[b].apps \ build'[b].todo = {}
      BY <1>2, <2>2
    <3>2. <<>> = [n \in {} |-> Copy(b, n)']
      OBVIOUS
    <3> QED
      BY <2>1, <3>1, <3>2
  <2> QED
    BY <1>2, <1>4, <1>5, <1>6, <2>1, <2>2, <2>3 DEF Undisturbed
<1>9. CASE Generate(b)
  <2>1. /\ build'[b].std = build[b].std /\ tree'.apps = tree.apps
        /\ \/ build[b].pc = "main" /\ build'[b].pc = "links"
           \/ build[b].pc = "links" /\ build'[b].pc = "module" /\ tree'.links = DOMAIN build[b].apps
           \/ build[b].pc = "module" /\ build'[b].pc = "compile" /\ tree'.links = tree.links
                /\ tree'.module
    BY <1>1, <1>9 DEF Generate, Runs, Trees
  <2>2. /\ build[b].todo = {} /\ build[b].std = found
        /\ build[b].mode = "strict" => Violations(b) = {}
        /\ tree.apps = [n \in DOMAIN build[b].apps \ build[b].todo |-> Copy(b, n)]
        /\ build[b].pc = "module" => tree.links = DOMAIN build[b].apps
    BY <1>4, <2>1 DEF Undisturbed
  <2>3. tree'.apps = [n \in DOMAIN build'[b].apps \ build'[b].todo |-> Copy(b, n)']
    BY <1>2, <1>5, <2>1, <2>2
  <2> QED
    BY <1>2, <1>4, <1>5, <1>6, <2>1, <2>2, <2>3 DEF Undisturbed
<1>10. CASE Compile(b)
  <2>1. build'[b].pc = "clean" /\ build[b].pc = "compile" /\ build'[b].std = build[b].std
    BY <1>1, <1>10 DEF Compile, Runs
  <2>2. /\ build[b].todo = {} /\ build[b].std = found
        /\ build[b].mode = "strict" => Violations(b) = {}
    BY <1>4, <2>1 DEF Undisturbed
  <2> QED
    BY <1>2, <1>4, <1>5, <1>6, <2>1, <2>2 DEF Undisturbed
<1> QED
  BY <1>7, <1>8, <1>9, <1>10

LEMMA CopyAppLone ==
  ASSUME SiteTypeOK, LoneInv, Planned, NEW b \in Builders, NEW n \in Names, CopyApp(b, n)
  PROVE  LoneInv'
<1>1. build \in [Builders -> Runs] /\ tree \in Trees
  BY DEF SiteTypeOK, Runs, Trees
<1>2. /\ n \in build[b].todo /\ build[b].pc = "copy" /\ Active(b) /\ disk' = disk
      /\ build' = [build EXCEPT ![b].todo = @ \ {n},
                                ![b].pc = IF build[b].todo = {n} THEN "main" ELSE "copy"]
      /\ \E p \in IF n \in DOMAIN tree.apps THEN Onto(tree.apps[n], Copy(b, n)) ELSE {Copy(b, n)} :
           tree'.apps = [m \in {n} \cup DOMAIN tree.apps |-> IF m = n THEN p ELSE tree.apps[m]]
  BY <1>1 DEF CopyApp, Active, Trees
<1>3. /\ \A c \in Builders \ {b} : build'[c] = build[c]
      /\ build'[b].apps = build[b].apps /\ build'[b].mode = build[b].mode
      /\ build'[b].std = build[b].std /\ build'[b].alone = build[b].alone
      /\ build'[b].todo = build[b].todo \ {n}
      /\ build'[b].pc = IF build[b].todo = {n} THEN "main" ELSE "copy"
  BY <1>1, <1>2 DEF Runs
<1>4. SUFFICES ASSUME Lone(b)' PROVE Lone(b) /\ Undisturbed(b)'
  BY <1>2, <1>3, LoneAfter
<1>5. Lone(b) /\ Undisturbed(b)
  BY <1>2, <1>3, <1>4 DEF Lone, LoneInv
<1>6. /\ Others(b)' = {} /\ CanDiscover' /\ build'[b].apps = BuildApps'
      /\ Violations(b)' = Violations(b) /\ \A m : Copy(b, m)' = Copy(b, m)
  BY <1>2, <1>3, <1>5, StepKeeps DEF Undisturbed
<1> DEFINE found == Std \cap UNION {disk[build[b].apps[m].dir].imports : m \in DOMAIN build[b].apps}
<1>7. found' = found /\ build[b].std = found /\ (build[b].mode = "strict" => Violations(b) = {})
  BY <1>2, <1>3, <1>5 DEF Undisturbed
<1>8. tree.apps = [m \in DOMAIN build[b].apps \ build[b].todo |-> Copy(b, m)]
  BY <1>2, <1>5 DEF Undisturbed
<1>9. tree'.apps = [m \in DOMAIN build'[b].apps \ build'[b].todo |-> Copy(b, m)']
  <2>1. {n} \cup DOMAIN tree.apps = DOMAIN build'[b].apps \ build'[b].todo
    <3>1. DOMAIN tree.apps = DOMAIN build[b].apps \ build[b].todo
      BY <1>8
    <3>2. build[b].todo \subseteq DOMAIN build[b].apps
      BY DEF Planned
    <3> QED
      BY <1>2, <1>3, <3>1, <3>2
  <2>2. \A m \in DOMAIN tree.apps : tree.apps[m] = Copy(b, m)
    BY <1>8
  <2>4. tree'.apps = [m \in {n} \cup DOMAIN tree.apps |-> IF m = n THEN Copy(b, n) ELSE tree.apps[m]]
    BY <1>2, <1>8
  <2>3. tree'.apps = [m \in {n} \cup DOMAIN tree.apps |-> Copy(b, m)']
    BY <1>6, <2>2, <2>4
  <2> QED
    BY <2>1, <2>3
<1> QED
  BY <1>3, <1>5, <1>6, <1>7, <1>9 DEF Undisturbed

LEMMA BeginLone ==
  ASSUME SiteTypeOK, LoneInv, NEW b \in Builders, Begin(b) PROVE LoneInv'
<1>1. build \in [Builders -> Runs]
  BY DEF SiteTypeOK, Runs
<1>2. PICK mode \in {"strict", "bypass"} :
        build' = [c \in Builders |->
                    IF c = b
                    THEN [Done EXCEPT !.pc = "scan", !.mode = mode, !.apps = BuildApps,
                                      !.todo = DOMAIN BuildApps, !.alone = Others(b) = {}]
                    ELSE [build[c] EXCEPT !.alone = @ /\ ~Active(c)]]
  BY DEF Begin
<1>3. CanDiscover /\ UNCHANGED <<disk, tree>>
  BY DEF Begin
<1>4. /\ build'[b].pc = "scan" /\ build'[b].apps = BuildApps /\ build'[b].todo = DOMAIN BuildApps
      /\ build'[b].alone = (Others(b) = {})
  BY <1>2 DEF Done
<1>5. \A c \in Builders \ {b} : build'[c].pc = build[c].pc /\ build'[c].alone = (build[c].alone /\ ~Active(c))
  BY <1>1, <1>2 DEF Runs
<1>6. \A c \in Builders \ {b} : ~Lone(c)'
  BY <1>5 DEF Lone, Active
<1>7. Lone(b)' => Undisturbed(b)'
  <2>1. Others(b)' = Others(b)
    BY <1>5 DEF Others, Active
  <2>2. BuildApps' = BuildApps /\ CanDiscover'
    BY <1>3 DEF BuildApps, CanDiscover, ByName, Found
  <2> QED
    BY <1>4, <2>1, <2>2 DEF Lone, Undisturbed
<1> QED
  BY <1>6, <1>7 DEF LoneInv

LEMMA OthersLone ==
  ASSUME SiteTypeOK, LoneInv,
         \/ \E b \in Builders : Clean(b) \/ Abort(b) \/ BuildBase(b)
         \/ \E d \in Dirs : Edit(d)
         \/ Start
         \/ UNCHANGED siteVars
  PROVE  LoneInv'
<1>1. build \in [Builders -> Runs]
  BY DEF SiteTypeOK, Runs
<1>2. ASSUME NEW b \in Builders, Clean(b) \/ Abort(b) PROVE LoneInv'
  <2>1. Active(b) /\ build' = [build EXCEPT ![b] = Done]
    BY <1>2 DEF Clean, Abort, Active
  <2>2. ~Lone(b)' /\ \A c \in Builders \ {b} : build'[c] = build[c]
    BY <1>1, <2>1 DEF Lone, Active, Done
  <2> QED
    BY <2>1, <2>2, LoneAfter
<1>3. ASSUME NEW d \in Dirs, Edit(d) PROVE LoneInv'
  <2>1. \A c \in Builders : build'[c].pc = build[c].pc /\ build'[c].alone = (build[c].alone /\ ~Active(c))
    BY <1>1, <1>3 DEF Edit, Runs
  <2> QED
    BY <2>1 DEF LoneInv, Lone, Active
<1>4. CASE UNCHANGED <<disk, build, tree>>
  <2> SUFFICES ASSUME NEW b \in Builders, Lone(b)' PROVE Undisturbed(b)'
    BY DEF LoneInv
  <2>1. Lone(b) /\ Undisturbed(b)
    BY <1>4 DEF LoneInv, Lone, Active
  <2>2. BuildApps' = BuildApps /\ CanDiscover' = CanDiscover
    BY <1>4 DEF BuildApps, CanDiscover, ByName, Found
  <2> QED
    BY <1>4, <2>1, <2>2 DEF Undisturbed, Others, Active, Violations, Copy
<1> QED
  BY <1>2, <1>3, <1>4 DEF BuildBase, Start, siteVars

LEMMA LoneKept ==
  ASSUME SiteTypeOK, LoneInv, Planned, [SiteNext]_siteVars PROVE LoneInv'
  BY StepsLone, CopyAppLone, BeginLone, OthersLone DEF SiteNext

LEMMA CopyIs ==
  ASSUME NEW b, NEW n
  PROVE  /\ Copy(b, n).dir = build[b].apps[n].dir /\ Copy(b, n).caps = build[b].apps[n].caps
         /\ Copy(b, n).raw = disk[build[b].apps[n].dir].imports \ build[b].std
         /\ Copy(b, n).wrapped = disk[build[b].apps[n].dir].imports \cap build[b].std
  BY DEF Copy

\* What a lone strict run compiles has passed its scan.
LEMMA CompilesVetted ==
  ASSUME SiteTypeOK, LoneInv, NEW b \in Builders, Compile(b), build[b].mode = "strict", build[b].alone
  PROVE  /\ DOMAIN bin'.apps = DOMAIN BuildApps /\ CanDiscover
         /\ \A n \in DOMAIN bin'.apps : bin'.apps[n].dir = BuildApps[n].dir
         /\ OnlyVettedCode'
<1>1. Lone(b) /\ Undisturbed(b) /\ build[b].pc = "compile"
  BY DEF Compile, Lone, Active, LoneInv
<1> DEFINE found == build[b].apps
<1>2. /\ found = BuildApps /\ CanDiscover /\ Violations(b) = {}
      /\ build[b].std = Std \cap UNION {disk[found[n].dir].imports : n \in DOMAIN found}
      /\ tree.apps = [n \in DOMAIN found |-> Copy(b, n)]
      /\ tree.links = DOMAIN found /\ tree.module
  <2>1. DOMAIN found \ {} = DOMAIN found
    OBVIOUS
  <2> QED
    BY <1>1, <2>1 DEF Undisturbed
<1>3. DOMAIN bin'.apps = DOMAIN found /\ \A n \in DOMAIN found : bin'.apps[n] \in Package(n)
  BY <1>2, Compiled
<1>4. ASSUME NEW n \in DOMAIN found PROVE bin'.apps[n] = Copy(b, n)
  <2>1. Package(n) = {Copy(b, n)}
    BY <1>2 DEF Package
  <2> QED
    BY <1>3, <2>1
<1>5. ASSUME NEW n \in DOMAIN found
      PROVE  LET a == bin'.apps[n] IN
             /\ (a.raw \cup a.wrapped) \cap Blacklisted = {}
             /\ a.raw \cup a.wrapped \subseteq Free \cup a.caps \cup (Std \cap SiteAllows[n])
             /\ a.raw \cap Std = {}
  <2> DEFINE imports == disk[found[n].dir].imports
  <2>1. /\ bin'.apps[n].raw = imports \ build[b].std /\ bin'.apps[n].caps = found[n].caps
        /\ bin'.apps[n].wrapped = imports \cap build[b].std
    BY <1>4, CopyIs
  <2>2. \A i \in imports :
          /\ i \notin Blacklisted
          /\ i \notin Free \cup found[n].caps => i \in Std /\ i \in SiteAllows[n]
    BY <1>2 DEF Violations
  <2>3. imports \cap Std \subseteq build[b].std
    BY <1>2
  <2> HIDE DEF imports
  <2> QED
    BY <2>1, <2>2, <2>3
<1>6. \A n \in DOMAIN found : bin'.apps[n].dir = found[n].dir
  BY <1>4, CopyIs
<1> QED
  BY <1>2, <1>3, <1>5, <1>6 DEF OnlyVettedCode

-----------------------------------------------------------------------------
(* Where the code of a binary comes from *)

\* The code is that of the apps which a build finds now.
Current(runs) ==
  /\ CanDiscover
  /\ \A n \in DOMAIN runs.apps : n \in DOMAIN BuildApps /\ runs.apps[n].dir = BuildApps[n].dir

\* A vetted binary, running or not, is that of the disk as long as nothing is edited.
OriginInv ==
  /\ {bin.at, server.at, server.bin.at} \subseteq 0..edits
  /\ bin.vetted /\ bin.at = edits => Current(bin)
  /\ server.bin.vetted /\ server.bin.at = edits /\ server.at = edits =>
       Current(server.bin) /\ server.apps = ServerApps

\* The disk stays as it is while there is no edit.
LEMMA DiskStays ==
  ASSUME disk' = disk
  PROVE  BuildApps' = BuildApps /\ ServerApps' = ServerApps /\ (CanDiscover' <=> CanDiscover)
  BY DEF BuildApps, ServerApps, CanDiscover, ByName, Found

LEMMA OriginKept ==
  ASSUME SiteTypeOK, LoneInv, OriginInv, OnlyVettedCode, [SiteNext]_siteVars
  PROVE  OriginInv' /\ OnlyVettedCode'
<1>1. edits \in Nat
  BY BoundsType DEF SiteTypeOK
<1>2. CASE UNCHANGED <<disk, edits, bin, server>>
  BY <1>2, DiskStays DEF OriginInv, Current, OnlyVettedCode
<1>3. ASSUME NEW b \in Builders, Compile(b) PROVE OriginInv' /\ OnlyVettedCode'
  <2>1. /\ UNCHANGED <<disk, edits, server>> /\ bin'.at = edits
        /\ bin'.vetted <=> build[b].mode = "strict" /\ build[b].alone
    BY <1>3 DEF Compile, Binary
  <2>2. bin'.vetted => OnlyVettedCode' /\ Current(bin)'
    <3> SUFFICES ASSUME bin'.vetted PROVE OnlyVettedCode' /\ Current(bin)'
      OBVIOUS
    <3>1. /\ DOMAIN bin'.apps = DOMAIN BuildApps /\ CanDiscover /\ OnlyVettedCode'
          /\ \A n \in DOMAIN bin'.apps : bin'.apps[n].dir = BuildApps[n].dir
      BY <1>3, <2>1, CompilesVetted
    <3> QED
      BY <2>1, <3>1, DiskStays DEF Current
  <2>3. OriginInv'
    BY <1>1, <2>1, <2>2, DiskStays DEF OriginInv, Current
  <2> QED
    BY <2>2, <2>3 DEF OnlyVettedCode
<1>4. ASSUME NEW b \in Builders, BuildBase(b) PROVE OriginInv' /\ OnlyVettedCode'
  <2>1. /\ UNCHANGED <<disk, edits, server>>
        /\ bin' = bin \/ (bin'.at = edits /\ ~bin'.vetted)
    BY <1>4 DEF BuildBase, NoBinary
  <2> QED
    BY <1>1, <1>2, <2>1, DiskStays DEF OriginInv, Current, OnlyVettedCode
<1>5. ASSUME NEW d \in Dirs, Edit(d) PROVE OriginInv' /\ OnlyVettedCode'
  <2>1. edits' = edits + 1 /\ UNCHANGED <<bin, server>>
    BY <1>5 DEF Edit
  <2>2. ~(bin.at = edits') /\ ~(server.at = edits')
    BY <1>1, <2>1 DEF OriginInv
  <2>3. {bin.at, server.at, server.bin.at} \subseteq 0..edits'
    BY <1>1, <2>1 DEF OriginInv
  <2> QED
    BY <2>1, <2>2, <2>3 DEF OriginInv, OnlyVettedCode
<1>6. CASE Start
  <2>1. /\ UNCHANGED <<disk, edits, bin>> /\ server'.bin = bin /\ server'.at = edits
        /\ server'.apps = ServerApps
    BY <1>6 DEF Start
  <2> QED
    BY <1>1, <2>1, DiskStays DEF OriginInv, Current, OnlyVettedCode
<1> QED
  BY <1>2, <1>3, <1>4, <1>5, <1>6
  DEF SiteNext, siteVars, Begin, Scan, Prepare, Generate, Clean, Abort, CopyApp

\* Build and start find the same directory, if the last one of the name suits both.
LEMMA SameDirectory ==
  ASSUME SiteTypeOK, OriginInv PROVE CodeKeepsItsDirectory
<1> DEFINE runs == server.bin
<1> SUFFICES ASSUME runs.vetted, runs.at = edits, server.at = edits, NEW n \in DOMAIN runs.apps,
                    LET last == Max({d \in Dirs : disk[d].json = "good" /\ disk[d].name = n})
                    IN  disk[last].code /\ disk[last].sound
             PROVE  GivenDir(n) = runs.apps[n].dir
  BY DEF CodeKeepsItsDirectory
<1>1. /\ CanDiscover /\ n \in DOMAIN BuildApps /\ runs.apps[n].dir = BuildApps[n].dir
      /\ server.apps = ServerApps
  BY DEF OriginInv, Current
<1>2. disk \in [Dirs -> Contents]
  BY DEF SiteTypeOK
<1> DEFINE built == {d \in {e \in Dirs : disk[e].code} : disk[d].name = n}
           served == {d \in {e \in Dirs : disk[e].json = "good" /\ disk[e].sound} : disk[d].name = n}
           readable == {d \in Dirs : disk[d].json = "good" /\ disk[d].name = n}
           last == Max(readable)
<1>3. /\ DOMAIN BuildApps = {disk[d].name : d \in {e \in Dirs : disk[e].code}}
      /\ BuildApps[n] = Found(Max(built)) /\ Max(built) \in built
  BY <1>1, <1>2, ByNameIs DEF BuildApps
<1>4. built \subseteq readable
  BY <1>1 DEF CanDiscover
<1>5. last \in readable /\ \A d \in readable : d <= last
  <2>1. readable \in SUBSET Dirs /\ readable # {}
    BY <1>3, <1>4
  <2> HIDE DEF readable
  <2> QED
    BY <2>1, LastDirectory
<1>6. last \in built /\ last \in served
  BY <1>5
<1>7. Max(built) = last
  <2>1. built \in SUBSET Dirs /\ built # {} /\ \A d \in built : d <= last
    BY <1>4, <1>5, <1>6
  <2> HIDE DEF built, last
  <2> QED
    BY <1>6, <2>1, LastDirectory
<1>8. Max(served) = last
  <2>1. served \in SUBSET Dirs /\ served # {} /\ \A d \in served : d <= last
    BY <1>5, <1>6
  <2> HIDE DEF served, last
  <2> QED
    BY <1>6, <2>1, LastDirectory
<1>9. n \in DOMAIN ServerApps
  <2>1. DOMAIN ServerApps = {disk[d].name : d \in {e \in Dirs : disk[e].json = "good" /\ disk[e].sound}}
    BY <1>2, ByNameIs DEF ServerApps
  <2> HIDE DEF last
  <2> QED
    BY <1>6, <2>1
<1>10. ServerApps[n] = Found(Max(served))
  <2> DEFINE dirs == {e \in Dirs : disk[e].json = "good" /\ disk[e].sound}
  <2>1. ServerApps = ByName(dirs) /\ dirs \in SUBSET Dirs
    BY DEF ServerApps
  <2>2. served = {d \in dirs : disk[d].name = n}
    OBVIOUS
  <2> HIDE DEF dirs, served
  <2> QED
    BY <1>2, <1>9, <2>1, <2>2, ByNameIs
<1> QED
  BY <1>1, <1>3, <1>7, <1>8, <1>9, <1>10 DEF GivenDir, Found

-----------------------------------------------------------------------------
(* What a start makes of the apps, in whichever order it walks them *)

LEMMA FirstOfSome ==
  ASSUME NEW S \in SUBSET Nat, S # {} PROVE Min(S) \in S /\ \A i \in S : Min(S) <= i
<1>1. \E n \in S : \A m \in S : n <= m
  BY Least
<1> QED
  BY <1>1 DEF Min

LEMMA AppsFinite ==
  ASSUME disk \in [Dirs -> Contents] PROVE IsFiniteSet(DOMAIN ServerApps)
<1> DEFINE dirs == {e \in Dirs : disk[e].json = "good" /\ disk[e].sound}
           names == {disk[d].name : d \in dirs}
           f == [d \in dirs |-> disk[d].name]
<1>1. IsFiniteSet(dirs)
  BY SiteAssumption, FS_Subset
<1>2. f \in Surjection(dirs, names)
  BY DEF Surjection
<1>3. IsFiniteSet(names)
  <2> HIDE DEF dirs, names, f
  <2> QED
    BY <1>1, <1>2, FS_Surjection
<1>4. DOMAIN ServerApps = names
  BY ByNameIs DEF ServerApps
<1> QED
  BY <1>3, <1>4

\* A walk meets each app once.
LEMMA WalkIs ==
  ASSUME NEW apps, IsFiniteSet(DOMAIN apps), NEW walk \in Walks(apps)
  PROVE  /\ Cardinality(DOMAIN apps) \in Nat /\ DOMAIN walk = 1..Cardinality(DOMAIN apps)
         /\ \A i \in DOMAIN walk : walk[i] \in DOMAIN apps
         /\ \A i, j \in DOMAIN walk : walk[i] = walk[j] => i = j
         /\ \A n \in DOMAIN apps : \E i \in DOMAIN walk : walk[i] = n
         /\ walk \in Seq(DOMAIN apps) /\ Len(walk) = Cardinality(DOMAIN apps)
<1> DEFINE S == DOMAIN apps
           D == 1..Cardinality(S)
<1>1. Cardinality(S) \in Nat
  BY FS_CardinalityType
<1>2. walk \in [D -> S] /\ \A i, j \in D : i # j => walk[i] # walk[j]
  BY DEF Walks, SetToSeqs
<1>3. IsFiniteSet(D) /\ Cardinality(D) = Cardinality(S)
  BY <1>1, FS_Interval
<1>4. walk \in Injection(D, S)
  BY <1>2 DEF Injection, IsInjective
<1>5. walk \in Surjection(D, S)
  <2> HIDE DEF D, S
  <2> QED
    BY <1>3, <1>4, FS_Injection DEF S
<1> QED
  BY <1>1, <1>2, <1>5 DEF Surjection

LEMMA LandingType ==
  ASSUME NEW apps \in ByNames(Manifests), IsFiniteSet(DOMAIN apps), NEW walk \in Walks(apps)
  PROVE  LandingOf(apps, walk) \in Dirs \cup {0}
<1> DEFINE own == {i \in DOMAIN walk : apps[walk[i]].landing}
<1>1. CASE own = {}
  BY <1>1 DEF LandingOf
<1>2. CASE own # {}
  <2>1. Min(own) \in own
    <3>1. own \in SUBSET Nat
      BY WalkIs
    <3> HIDE DEF own
    <3> QED
      BY <1>2, <3>1, FirstOfSome
  <2>2. walk[Min(own)] \in DOMAIN apps
    BY <2>1, WalkIs
  <2>3. apps[walk[Min(own)]].dir \in Dirs
    <3> HIDE DEF own
    <3>1. apps[walk[Min(own)]] \in Manifests
      BY <2>2, NamedType
    <3> QED
      BY <3>1 DEF Manifests
  <2> QED
    BY <1>2, <2>3 DEF LandingOf
<1> QED
  BY <1>1, <1>2

LEMMA StartType == ASSUME SiteTypeOK, Start PROVE SiteTypeOK'
<1>1. disk \in [Dirs -> Contents] /\ bin \in Binaries /\ edits \in 0..MaxEdits
  BY DEF SiteTypeOK
<1>2. PICK config \in Orders, walk \in Walks(ServerApps), tie \in BOOLEAN :
        server' = [bin |-> bin, at |-> edits, apps |-> ServerApps, order |-> config,
                   list |-> ListOf(config, ServerApps, walk, tie),
                   landing |-> LandingOf(ServerApps, walk)]
  BY DEF Start
<1>3. ServerApps \in ByNames(Manifests) /\ LandingOf(ServerApps, walk) \in Dirs \cup {0}
  BY <1>1, AppsAre, AppsFinite, LandingType
<1>4. /\ server'.bin \in Binaries /\ server'.apps \in ByNames(Manifests)
      /\ server'.order \in Orders /\ server'.landing \in Dirs \cup {0} /\ server'.at \in 0..MaxEdits
  BY <1>1, <1>2, <1>3
<1> QED
  BY <1>4 DEF Start, SiteTypeOK

SiteInv == SiteTypeOK /\ Planned /\ LoneInv /\ OriginInv /\ OnlyVettedCode

LEMMA SiteInitInv == SiteInit => SiteInv
<1> SUFFICES ASSUME SiteInit PROVE SiteInv
  OBVIOUS
<1>1. SiteTypeOK
  BY SiteInitType
<1>2. \A b \in Builders : build[b].pc = "idle" /\ build[b].todo = {}
  BY DEF SiteInit, Done
<1>3. /\ edits = 0 /\ bin.at = 0 /\ ~bin.vetted
      /\ server.at = 0 /\ server.bin.at = 0 /\ ~server.bin.vetted
  BY DEF SiteInit, NoBinary, Down
<1> QED
  BY <1>1, <1>2, <1>3 DEF SiteInv, Planned, LoneInv, Lone, Active, OriginInv, OnlyVettedCode

LEMMA SiteNextInv == SiteInv /\ [SiteNext]_siteVars => SiteInv'
<1> SUFFICES ASSUME SiteInv, [SiteNext]_siteVars PROVE SiteInv'
  OBVIOUS
<1>1. SiteTypeOK /\ Planned /\ LoneInv /\ OriginInv /\ OnlyVettedCode
  BY DEF SiteInv
<1>2. SiteTypeOK'
  <2>1. ASSUME NEW b \in Builders, NEW n \in Names, CopyApp(b, n) PROVE SiteTypeOK'
    <3>1. n \in DOMAIN build[b].apps
      BY <1>1, <2>1 DEF CopyApp, Planned
    <3> QED
      BY <1>1, <2>1, <3>1, CopyAppType
  <2>2. CASE UNCHANGED siteVars
    BY <1>1, <2>2 DEF siteVars, SiteTypeOK
  <2> QED
    BY <1>1, <2>1, <2>2, BeginType, StepsType, EndsType, EditType, StartType DEF SiteNext
<1>3. Planned' /\ LoneInv' /\ OriginInv' /\ OnlyVettedCode'
  BY <1>1, PlannedKept, LoneKept, OriginKept
<1> QED
  BY <1>2, <1>3 DEF SiteInv

\* The strengthening that the theorems about the site rest on (build.go, main.go).
THEOREM SiteInductive == SiteSpec => []SiteInv
  BY SiteInitInv, SiteNextInv, PTL DEF SiteSpec

\* Types of the directories, builds, binary and server.
THEOREM SiteTypeCorrect == SiteSpec => []SiteTypeOK
<1>1. SiteInv => SiteTypeOK
  BY DEF SiteInv
<1> QED
  BY <1>1, SiteInductive, PTL

\* A binary that a strict build made undisturbed holds only code that was vetted,
\* whatever builds before it left behind (build.go, Run).
THEOREM BinariesAreVetted == SiteSpec => []OnlyVettedCode
<1>1. SiteInv => OnlyVettedCode
  BY DEF SiteInv
<1> QED
  BY <1>1, SiteInductive, PTL

\* Code is given the directory it was built from, if the last directory of its name
\* suits build and start (build.go, discoverApps; apps.go, Discover).
THEOREM CodeIsGivenItsDirectory == SiteSpec => []CodeKeepsItsDirectory
<1>1. SiteInv => CodeKeepsItsDirectory
  BY SameDirectory DEF SiteInv
<1> QED
  BY <1>1, SiteInductive, PTL

-----------------------------------------------------------------------------
(* No walk of the apps shows in what a start serves. *)

\* The equation of the function that FlattenSeq is defined by.
Flattens(f, seqs) ==
  f = [i \in 1..Len(seqs) |-> IF i = 1 THEN seqs[i] ELSE f[i - 1] \o seqs[i]]

\* Of sequences that are empty but for one, that one is left.
LEMMA FlattenOne ==
  ASSUME NEW seqs \in Seq(Seq(Nat)), NEW k \in 0..Len(seqs),
         \A i \in 1..Len(seqs) : i # k => seqs[i] = <<>>
  PROVE  FlattenSeq(seqs) = IF k = 0 THEN <<>> ELSE seqs[k]
<1> DEFINE L == Len(seqs)
           g == [i \in 1..L |-> IF k = 0 \/ i < k THEN <<>> ELSE seqs[k]]
<1>1. L \in Nat /\ k \in 0..L /\ \A i \in 1..L : seqs[i] \in Seq(Nat)
  BY LenProperties
<1>2. k # 0 => seqs[k] \in Seq(Nat) /\ <<>> \o seqs[k] = seqs[k] /\ seqs[k] \o <<>> = seqs[k]
  <2> SUFFICES ASSUME k # 0 PROVE seqs[k] \in Seq(Nat) /\ <<>> \o seqs[k] = seqs[k] /\ seqs[k] \o <<>> = seqs[k]
    OBVIOUS
  <2>1. seqs[k] \in Seq(Nat)
    BY <1>1
  <2> QED
    BY <2>1, ConcatEmptySeq
<1>3. <<>> \o <<>> = <<>>
  OBVIOUS
<1>4. ASSUME L = 0 PROVE FlattenSeq(seqs) = IF k = 0 THEN <<>> ELSE seqs[k]
  <2>1. seqs = <<>> /\ k = 0
    BY <1>1, <1>4, EmptySeq
  <2> QED
    BY <1>4, <2>1 DEF FlattenSeq
<1>5. ASSUME NEW i \in 1..L
      PROVE  g[i] = IF i = 1 THEN seqs[i] ELSE g[i - 1] \o seqs[i]
  <2>1. g[i] = IF k = 0 \/ i < k THEN <<>> ELSE seqs[k]
    OBVIOUS
  <2>2. i # 1 => g[i - 1] = IF k = 0 \/ i - 1 < k THEN <<>> ELSE seqs[k]
    BY <1>1
  <2> HIDE DEF g
  <2>3. CASE i = k
    <3>1. k # 0 /\ ~(i < k) /\ (i # 1 => i - 1 < k)
      BY <1>1, <2>3
    <3>2. g[i] = seqs[i] /\ (i # 1 => g[i - 1] = <<>>)
      BY <2>1, <2>2, <2>3, <3>1
    <3> QED
      BY <1>2, <2>3, <3>1, <3>2
  <2>4. CASE i # k
    <3>1. seqs[i] = <<>>
      BY <2>4
    <3>2. i # 1 => (k = 0 \/ i - 1 < k <=> k = 0 \/ i < k)
      BY <1>1, <2>4
    <3>3. i = 1 => k = 0 \/ i < k
      BY <1>1, <2>4
    <3> QED
      BY <1>2, <1>3, <2>1, <2>2, <3>1, <3>2, <3>3
  <2> QED
    BY <2>3, <2>4
<1>6. Flattens(g, seqs)
  <2>1. g = [i \in 1..L |-> g[i]]
    OBVIOUS
  <2> HIDE DEF g
  <2> QED
    BY <1>5, <2>1 DEF Flattens
<1> DEFINE f == CHOOSE f : Flattens(f, seqs)
<1>7. Flattens(f, seqs)
  <2> HIDE DEF g
  <2> QED
    BY <1>6
<1>8. ASSUME L # 0 PROVE FlattenSeq(seqs) = f[L]
  BY <1>8 DEF FlattenSeq, Flattens
<1> HIDE DEF f
<1> DEFINE other == {i \in 1..L : f[i] # g[i]}
<1>9. ASSUME other # {} PROVE FALSE
  <2>1. PICK i \in other : \A j \in other : i <= j
    <3>1. other \in SUBSET Nat
      BY <1>1
    <3> HIDE DEF other
    <3> QED
      BY <1>9, <3>1, Least
  <2>2. i \in 1..L /\ f[i] # g[i] /\ i \in Nat
    BY <2>1
  <2>3. i # 1 => f[i - 1] = g[i - 1]
    <3>1. i # 1 => i - 1 \in 1..L /\ ~(i <= i - 1)
      BY <1>1, <2>2
    <3> HIDE DEF g
    <3> QED
      BY <2>1, <3>1
  <2>4. f[i] = IF i = 1 THEN seqs[i] ELSE f[i - 1] \o seqs[i]
    BY <1>7, <2>2 DEF Flattens
  <2> HIDE DEF g
  <2> QED
    BY <1>5, <2>2, <2>3, <2>4
<1>10. ASSUME L # 0 PROVE f[L] = IF k = 0 THEN <<>> ELSE seqs[k]
  <2>1. L \in 1..L
    BY <1>1, <1>10
  <2>2. f[L] = g[L]
    <3> HIDE DEF g
    <3>1. L \notin other
      BY <1>9
    <3> QED
      BY <2>1, <3>1
  <2>3. g[L] = IF k = 0 THEN <<>> ELSE seqs[k]
    BY <1>1, <2>1
  <2> QED
    BY <2>2, <2>3
<1> QED
  BY <1>4, <1>8, <1>10

LEMMA SameLanding ==
  ASSUME NEW apps, IsFiniteSet(DOMAIN apps), NEW config, ~Contested(config, apps),
         NEW v \in Walks(apps), NEW w \in Walks(apps)
  PROVE  LandingOf(apps, v) = LandingOf(apps, w)
<1> DEFINE own(x) == {i \in DOMAIN x : apps[x[i]].landing}
<1>1. \A m, n \in DOMAIN apps : apps[m].landing /\ apps[n].landing => m = n
  BY DEF Contested
<1>2. ASSUME NEW x \in Walks(apps), NEW n \in DOMAIN apps, apps[n].landing
      PROVE  LandingOf(apps, x) = apps[n].dir
  <2>1. PICK i \in DOMAIN x : x[i] = n
    BY WalkIs
  <2>2. i \in own(x) /\ own(x) \subseteq Nat
    <3>1. i \in own(x)
      BY <1>2, <2>1
    <3>2. Cardinality(DOMAIN apps) \in Nat /\ DOMAIN x = 1..Cardinality(DOMAIN apps)
      BY WalkIs
    <3>3. DOMAIN x \subseteq Nat
      BY <3>2
    <3> QED
      BY <3>1, <3>3
  <2>3. Min(own(x)) \in own(x)
    <3> HIDE DEF own
    <3> QED
      BY <2>2, FirstOfSome
  <2>4. x[Min(own(x))] = n
    BY <1>1, <1>2, <2>3, WalkIs
  <2> QED
    BY <2>2, <2>4 DEF LandingOf
<1>3. ASSUME NEW x \in Walks(apps), \A n \in DOMAIN apps : ~apps[n].landing
      PROVE  LandingOf(apps, x) = 0
  <2>1. own(x) = {}
    BY <1>3, WalkIs
  <2> QED
    BY <2>1 DEF LandingOf
<1>4. CASE \E n \in DOMAIN apps : apps[n].landing
  BY <1>2, <1>4
<1>5. CASE \A n \in DOMAIN apps : ~apps[n].landing
  BY <1>3, <1>5
<1> QED
  BY <1>4, <1>5

LEMMA SameOrder ==
  ASSUME NEW apps \in ByNames(Manifests), IsFiniteSet(DOMAIN apps), NEW config,
         ~Contested(config, apps), NEW v \in Walks(apps), NEW w \in Walks(apps)
  PROVE  PanelOrder(config, apps, v) = PanelOrder(config, apps, w)
<1>1. CASE config # <<>>
  BY <1>1 DEF PanelOrder
<1>2. CASE config = <<>>
  <2> DEFINE orders(x) == [i \in DOMAIN x |-> apps[x[i]].order]
  <2>1. \A m, n \in DOMAIN apps : apps[m].order # <<>> /\ apps[n].order # <<>> => m = n
    BY <1>2 DEF Contested
  <2>2. \A n \in DOMAIN apps : apps[n].order \in Seq(Nat)
    <3>1. \A n \in DOMAIN apps : apps[n] \in Manifests
      BY NamedType
    <3> QED
      BY <3>1, SiteAssumption DEF Manifests
  <2>3. ASSUME NEW x \in Walks(apps)
        PROVE  /\ orders(x) \in Seq(Seq(Nat)) /\ DOMAIN x = 1..Len(orders(x))
               /\ \A i \in 1..Len(orders(x)) : orders(x)[i] = apps[x[i]].order
    <3>1. /\ DOMAIN x = 1..Cardinality(DOMAIN apps) /\ Cardinality(DOMAIN apps) \in Nat
          /\ \A i \in DOMAIN x : x[i] \in DOMAIN apps
      BY WalkIs
    <3>2. orders(x) \in [1..Cardinality(DOMAIN apps) -> Seq(Nat)]
      BY <2>2, <3>1
    <3>3. orders(x) \in Seq(Seq(Nat)) /\ Len(orders(x)) = Cardinality(DOMAIN apps)
      <4> HIDE DEF orders
      <4> QED
        BY <3>1, <3>2
    <3> QED
      BY <3>1, <3>3
  <2>4. ASSUME NEW x \in Walks(apps), NEW n \in DOMAIN apps, apps[n].order # <<>>
        PROVE  FlattenSeq(orders(x)) = apps[n].order
    <3>1. PICK k \in DOMAIN x : x[k] = n
      BY WalkIs
    <3>2. ASSUME NEW i \in DOMAIN x, i # k PROVE apps[x[i]].order = <<>>
      <4>1. x[i] \in DOMAIN apps /\ x[i] # n
        BY <3>1, <3>2, WalkIs
      <4> QED
        BY <2>1, <2>4, <4>1
    <3>3. k \in 1..Len(orders(x)) /\ k \in 0..Len(orders(x)) /\ k # 0
      BY <2>3
    <3> HIDE DEF orders
    <3>4. \A i \in 1..Len(orders(x)) : i # k => orders(x)[i] = <<>>
      BY <2>3, <3>2
    <3>5. orders(x)[k] = apps[n].order
      BY <2>3, <3>1, <3>3
    <3> QED
      BY <2>3, <3>3, <3>4, <3>5, FlattenOne
  <2>5. ASSUME NEW x \in Walks(apps), \A n \in DOMAIN apps : apps[n].order = <<>>
        PROVE  FlattenSeq(orders(x)) = <<>>
    <3>1. \A i \in DOMAIN x : apps[x[i]].order = <<>>
      BY <2>5, WalkIs
    <3> HIDE DEF orders
    <3>2. \A i \in 1..Len(orders(x)) : i # 0 => orders(x)[i] = <<>>
      BY <2>3, <3>1
    <3>3. 0 \in 0..Len(orders(x))
      BY <2>3, LenProperties
    <3> QED
      BY <2>3, <3>2, <3>3, FlattenOne
  <2>6. FlattenSeq(orders(v)) = FlattenSeq(orders(w))
    <3> HIDE DEF orders
    <3>1. CASE \E n \in DOMAIN apps : apps[n].order # <<>>
      BY <2>4, <3>1
    <3>2. CASE \A n \in DOMAIN apps : apps[n].order = <<>>
      BY <2>5, <3>2
    <3> QED
      BY <3>1, <3>2
  <2> QED
    BY <1>2, <2>6 DEF PanelOrder
<1> QED
  BY <1>1, <1>2

\* Where the panels of a start come from: core, custom, and the app of each step of
\* the walk.
LEMMA SourcesAre ==
  ASSUME NEW apps, IsFiniteSet(DOMAIN apps), NEW x \in Walks(apps)
  PROVE  /\ Cardinality(DOMAIN apps) \in Nat
         /\ DOMAIN Sources(apps, x) = 1..(Cardinality(DOMAIN apps) + 2)
         /\ Sources(apps, x)[1] = CorePanels /\ Sources(apps, x)[2] = CustomPanels
         /\ \A i \in DOMAIN x : /\ i + 2 \in DOMAIN Sources(apps, x)
                                /\ Sources(apps, x)[i + 2] = apps[x[i]].panels
         /\ \A j \in DOMAIN Sources(apps, x) : j \notin {1, 2} => j - 2 \in DOMAIN x
<1> DEFINE N == Cardinality(DOMAIN apps)
           T == {CorePanels, CustomPanels} \cup {apps[n].panels : n \in DOMAIN apps}
           first == <<CorePanels, CustomPanels>>
           rest == [i \in DOMAIN x |-> apps[x[i]].panels]
<1>1. /\ N \in Nat /\ DOMAIN x = 1..N /\ \A i \in DOMAIN x : x[i] \in DOMAIN apps
  BY WalkIs
<1>2. first \in Seq(T) /\ Len(first) = 2 /\ first[1] = CorePanels /\ first[2] = CustomPanels
  OBVIOUS
<1>3. rest \in [1..N -> T] /\ \A i \in DOMAIN x : rest[i] = apps[x[i]].panels
  BY <1>1
<1> HIDE DEF first, rest, T, N
<1>4. rest \in Seq(T) /\ Len(rest) = N
  BY <1>1, <1>3
<1>5. /\ first \o rest \in Seq(T) /\ Len(first \o rest) = 2 + N
      /\ \A i \in 1..(2 + N) : (first \o rest)[i] = IF i <= 2 THEN first[i] ELSE rest[i - 2]
  <2>1. /\ first \o rest \in Seq(T) /\ Len(first \o rest) = Len(first) + Len(rest)
        /\ \A i \in 1..(Len(first) + Len(rest)) :
             (first \o rest)[i] = IF i <= Len(first) THEN first[i] ELSE rest[i - Len(first)]
    BY <1>2, <1>4, ConcatProperties
  <2> QED
    BY <1>2, <1>4, <2>1
<1>6. DOMAIN (first \o rest) = 1..(N + 2)
  BY <1>1, <1>5
<1>7. (first \o rest)[1] = CorePanels /\ (first \o rest)[2] = CustomPanels
  BY <1>1, <1>2, <1>5
<1>8. ASSUME NEW i \in DOMAIN x
      PROVE  i + 2 \in 1..(N + 2) /\ (first \o rest)[i + 2] = apps[x[i]].panels
  <2>1. i \in Nat /\ i + 2 \in 1..(2 + N) /\ ~(i + 2 <= 2) /\ (i + 2) - 2 = i
    BY <1>1
  <2> QED
    BY <1>1, <1>3, <1>5, <2>1
<1>9. \A j \in 1..(N + 2) : j \notin {1, 2} => j - 2 \in DOMAIN x
  BY <1>1
<1>10. Sources(apps, x) = first \o rest
  BY DEF Sources, first, rest
<1> QED
  BY <1>1, <1>6, <1>7, <1>8, <1>9, <1>10 DEF N

\* What is registered when no two apps have a folder in common: the panels of the apps,
\* the custom ones that none of them overrides, the core ones that neither overrides.
Overrides(panels, p) == \E q \in panels : q.folder = p.folder /\ Loads(q)

Registered(apps, p) ==
  /\ Loads(p)
  /\ \/ \E n \in DOMAIN apps : p \in apps[n].panels
     \/ p \in CustomPanels /\ \A n \in DOMAIN apps : ~Overrides(apps[n].panels, p)
     \/ /\ p \in CorePanels /\ ~Overrides(CustomPanels, p)
        /\ \A n \in DOMAIN apps : ~Overrides(apps[n].panels, p)

LEMMA RegistryIs ==
  ASSUME NEW apps, IsFiniteSet(DOMAIN apps), NEW config, ~Contested(config, apps),
         NEW x \in Walks(apps), NEW p
  PROVE  p \in Registry(Sources(apps, x)) <=> Registered(apps, p)
<1> DEFINE s == Sources(apps, x)
           Kept(i) == /\ p \in s[i] /\ Loads(p)
                      /\ \A j \in DOMAIN s : j > i => ~Overrides(s[j], p)
           free == \A n \in DOMAIN apps : ~Overrides(apps[n].panels, p)
<1>1. p \in Registry(s) <=> \E i \in DOMAIN s : Kept(i)
  BY DEF Registry, Overrides
<1>2. /\ Cardinality(DOMAIN apps) \in Nat /\ DOMAIN s = 1..(Cardinality(DOMAIN apps) + 2)
      /\ s[1] = CorePanels /\ s[2] = CustomPanels
      /\ \A i \in DOMAIN x : i + 2 \in DOMAIN s /\ s[i + 2] = apps[x[i]].panels
      /\ \A j \in DOMAIN s : j \notin {1, 2} => j - 2 \in DOMAIN x
  BY SourcesAre
<1> HIDE DEF s
<1>3. 1 \in DOMAIN s /\ 2 \in DOMAIN s /\ DOMAIN s \subseteq Nat
  BY <1>2
<1>4. /\ DOMAIN x \subseteq Nat /\ \A i \in DOMAIN x : x[i] \in DOMAIN apps /\ i >= 1
      /\ \A i, j \in DOMAIN x : x[i] = x[j] => i = j
      /\ \A n \in DOMAIN apps : \E i \in DOMAIN x : x[i] = n
  <2>1. Cardinality(DOMAIN apps) \in Nat /\ DOMAIN x = 1..Cardinality(DOMAIN apps)
    BY WalkIs
  <2>2. DOMAIN x \subseteq Nat /\ \A i \in DOMAIN x : i >= 1
    BY <2>1
  <2> QED
    BY <2>2, WalkIs
<1>5. ASSUME NEW j \in DOMAIN s, j > 2
      PROVE  j - 2 \in DOMAIN x /\ s[j] = apps[x[j - 2]].panels
  <2>1. j \in Nat /\ j \notin {1, 2} /\ (j - 2) + 2 = j
    BY <1>3, <1>5
  <2>2. j - 2 \in DOMAIN x
    BY <1>2, <2>1
  <2> QED
    BY <1>2, <2>1, <2>2
<1>6. (\A j \in DOMAIN s : j > 2 => ~Overrides(s[j], p)) <=> free
  <2>1. ASSUME free, NEW j \in DOMAIN s, j > 2 PROVE ~Overrides(s[j], p)
    BY <1>4, <1>5, <2>1
  <2>2. ASSUME \A j \in DOMAIN s : j > 2 => ~Overrides(s[j], p), NEW n \in DOMAIN apps
        PROVE  ~Overrides(apps[n].panels, p)
    <3>1. PICK i \in DOMAIN x : x[i] = n
      BY <1>4
    <3>2. i + 2 \in DOMAIN s /\ i + 2 > 2 /\ s[i + 2] = apps[n].panels
      BY <1>2, <1>4, <3>1
    <3> QED
      BY <2>2, <3>2
  <2> QED
    BY <2>1, <2>2
<1>7. ASSUME NEW i \in DOMAIN x
      PROVE  Kept(i + 2) <=> p \in apps[x[i]].panels /\ Loads(p)
  <2>1. i + 2 \in DOMAIN s /\ s[i + 2] = apps[x[i]].panels /\ i + 2 > 2
    BY <1>2, <1>4
  <2>2. ASSUME p \in apps[x[i]].panels, NEW j \in DOMAIN s, j > i + 2
        PROVE  ~Overrides(s[j], p)
    <3>1. j \in Nat /\ i \in Nat /\ j > 2 /\ j - 2 # i
      BY <1>3, <1>4, <2>2
    <3>2. j - 2 \in DOMAIN x /\ s[j] = apps[x[j - 2]].panels
      BY <1>5, <3>1
    <3>3. x[j - 2] # x[i] /\ x[j - 2] \in DOMAIN apps /\ x[i] \in DOMAIN apps
      BY <1>4, <3>1, <3>2
    <3>4. \A q \in apps[x[j - 2]].panels : q.folder # p.folder
      BY <2>2, <3>3 DEF Contested
    <3> QED
      BY <3>2, <3>4 DEF Overrides
  <2> QED
    BY <2>1, <2>2
<1>8. Kept(2) <=> p \in CustomPanels /\ Loads(p) /\ free
  BY <1>2, <1>6
<1>9. Kept(1) <=> p \in CorePanels /\ Loads(p) /\ free /\ ~Overrides(CustomPanels, p)
  <2>1. \A j \in DOMAIN s : j > 1 <=> j = 2 \/ j > 2
    BY <1>3
  <2> QED
    BY <1>2, <1>3, <1>6, <2>1
<1>10. (\E i \in DOMAIN s : Kept(i)) <=> Kept(1) \/ Kept(2) \/ \E i \in DOMAIN x : Kept(i + 2)
  <2> HIDE DEF Kept
  <2>1. ASSUME NEW j \in DOMAIN s, Kept(j), j # 1, j # 2
        PROVE  \E i \in DOMAIN x : Kept(i + 2)
    <3>1. j - 2 \in DOMAIN x /\ (j - 2) + 2 = j
      BY <1>2, <1>3, <2>1
    <3> QED
      BY <2>1, <3>1
  <2> QED
    BY <1>2, <1>3, <2>1
<1>11. (\E i \in DOMAIN x : p \in apps[x[i]].panels) <=> \E n \in DOMAIN apps : p \in apps[n].panels
  BY <1>4
<1> HIDE DEF Kept
<1> QED
  BY <1>1, <1>7, <1>8, <1>9, <1>10, <1>11 DEF Registered, s

LEMMA SameRegistry ==
  ASSUME NEW apps, IsFiniteSet(DOMAIN apps), NEW config, ~Contested(config, apps),
         NEW v \in Walks(apps), NEW w \in Walks(apps)
  PROVE  Registry(Sources(apps, v)) = Registry(Sources(apps, w))
  BY RegistryIs

\* Panels that have IDs of their own stand in one order.
LEMMA SameRanks ==
  ASSUME NEW visible, NEW order, \A p, q \in visible : p.id = q.id => p = q,
         NEW t \in BOOLEAN, NEW u \in BOOLEAN
  PROVE  Ranks(visible, order, t) = Ranks(visible, order, u)
<1>1. ASSUME NEW p \in visible, NEW q \in visible
      PROVE  Before(q, p, order, t) <=> Before(q, p, order, u)
  <2>1. CASE q.id = p.id
    BY <2>1 DEF Before
  <2>2. CASE q.id # p.id
    BY <2>2 DEF Before
  <2> QED
    BY <2>1, <2>2
<1>2. ASSUME NEW p \in visible
      PROVE  {q \in visible : Before(q, p, order, t)} = {q \in visible : Before(q, p, order, u)}
  BY <1>1
<1> QED
  BY <1>2 DEF Ranks

LEMMA SameList ==
  ASSUME NEW apps \in ByNames(Manifests), IsFiniteSet(DOMAIN apps), NEW config,
         ~Contested(config, apps), NEW v \in Walks(apps), NEW w \in Walks(apps),
         NEW t \in BOOLEAN, NEW u \in BOOLEAN
  PROVE  ListOf(config, apps, v, t) = ListOf(config, apps, w, u)
<1> DEFINE visible == Shown(Registry(Sources(apps, v)))
           order == PanelOrder(config, apps, v)
<1>1. visible = Shown(Registry(Sources(apps, w))) /\ order = PanelOrder(config, apps, w)
  BY SameRegistry, SameOrder
<1>2. \A p, q \in visible : p.id = q.id => p = q
  BY DEF Contested, Shown
<1> HIDE DEF visible, order
<1>3. Ranks(visible, order, t) = Ranks(visible, order, u)
  BY <1>2, SameRanks
<1> QED
  BY <1>1, <1>3 DEF ListOf, visible, order

LEMMA StartShows ==
  ASSUME SiteTypeOK, Start, ~Contested(server'.order, server'.apps),
         NEW walk \in Walks(server'.apps), NEW tie \in BOOLEAN
  PROVE  /\ ListOf(server'.order, server'.apps, walk, tie) = server'.list
         /\ LandingOf(server'.apps, walk) = server'.landing
<1>1. PICK config \in Orders, w \in Walks(ServerApps), t \in BOOLEAN :
        server' = [bin |-> bin, at |-> edits, apps |-> ServerApps, order |-> config,
                   list |-> ListOf(config, ServerApps, w, t),
                   landing |-> LandingOf(ServerApps, w)]
  BY DEF Start
<1>2. /\ server'.apps = ServerApps /\ server'.order = config
      /\ server'.list = ListOf(config, ServerApps, w, t)
      /\ server'.landing = LandingOf(ServerApps, w)
  BY <1>1
<1>3. ServerApps \in ByNames(Manifests) /\ IsFiniteSet(DOMAIN ServerApps)
  BY AppsAre, AppsFinite DEF SiteTypeOK
<1>4. ~Contested(config, ServerApps) /\ walk \in Walks(ServerApps)
  BY <1>2
<1> HIDE DEF Start
<1> QED
  BY <1>2, <1>3, <1>4, SameList, SameLanding

\* However Go walks the apps, a start shows the same panels in the same order and the
\* same landing page, unless the apps' manifests contend (main.go, registry.go).
THEOREM WalksDoNotShow == SiteSpec => StartsShowTheSame
<1> DEFINE Shows == server' # server /\ ~Contested(server'.order, server'.apps) =>
                      \A walk \in Walks(server'.apps), tie \in BOOLEAN :
                        /\ ListOf(server'.order, server'.apps, walk, tie) = server'.list
                        /\ LandingOf(server'.apps, walk) = server'.landing
<1>1. ASSUME SiteTypeOK, SiteNext, server' # server PROVE Start
  BY <1>1 DEF SiteNext, Begin, Scan, Prepare, Generate, Compile, Clean, Abort, BuildBase,
              CopyApp, Edit
<1>2. SiteInv /\ [SiteNext]_siteVars => [Shows]_siteVars
  <2> SUFFICES ASSUME SiteInv, SiteNext, server' # server,
                      ~Contested(server'.order, server'.apps)
               PROVE  \A walk \in Walks(server'.apps), tie \in BOOLEAN :
                        /\ ListOf(server'.order, server'.apps, walk, tie) = server'.list
                        /\ LandingOf(server'.apps, walk) = server'.landing
    OBVIOUS
  <2>1. SiteTypeOK /\ Start
    BY <1>1 DEF SiteInv
  <2> QED
    BY <2>1, StartShows
<1> QED
  BY <1>2, SiteInductive, PTL DEF SiteSpec, StartsShowTheSame
=============================================================================
