---------------------------------- MODULE Site ----------------------------------
(***************************************************************************)
(* From the directories of a site's apps to what its server shows: the     *)
(* build that vets the apps' code and links it into bin/vel                *)
(* (internal/build), the discovery of the apps and of their panels when    *)
(* the server starts (internal/apps, internal/panels, main.go), and the    *)
(* panel list it serves.  The build and the start each walk the            *)
(* directories on their own; directories change at any moment, builds      *)
(* overlap in the one _build they share, and fail wherever they are.       *)
(*                                                                         *)
(* The directories are numbered in the order they are walked: rootDir/apps *)
(* (1..Internal), then VEL_APPS.  A panel's folder and ID are numbers in   *)
(* the order of their names, 0 for an ID that is missing.                  *)
(***************************************************************************)
EXTENDS Naturals, FiniteSets, FiniteSetsExt, SequencesExt

CONSTANTS
  Nested,                   \* the framework is in rootDir/vel, not in rootDir itself
  Builders,                 \* runs of `vel build` that may overlap
  Dirs, Internal,           \* the directories of apps; those of rootDir/apps
  Contents,                 \* what a directory may hold
  Free, Blacklisted, Std,   \* imports: tier 1, blacklisted, the rest of the library
  SiteAllows,               \* of vel.yaml: the imports it allows each app
  CorePanels, CustomPanels, \* the folders of core/panels and custom/panels
  Orders,                   \* what config.panels.order may be
  Disabled, Hidden,         \* config.panels.disabled; IDs that begin with "_"
  MaxEdits, MaxBuilds       \* bounds on the changes of directories and on the builds

ASSUME SiteAssumption ==
  /\ IsFiniteSet(Dirs) /\ Dirs = 1..Cardinality(Dirs)
  /\ {Internal, MaxEdits, MaxBuilds} \subseteq Nat /\ Nested \in BOOLEAN
  /\ Free \cap Blacklisted = {} /\ Std \cap (Free \cup Blacklisted) = {}
  /\ Orders \cup {c.order : c \in Contents} \subseteq Seq(Nat)
  /\ {c.landing : c \in Contents} \subseteq BOOLEAN

Names == {c.name : c \in Contents}

VARIABLES
  disk, edits,  \* what each directory holds, and the changes so far
  builds,       \* the builds so far
  build,        \* each run of `vel build`
  tree,         \* the shared _build
  bin,          \* bin/vel
  server        \* what the server read when it last started

siteVars == <<disk, edits, builds, build, tree, bin, server>>

Done == [pc |-> "idle", mode |-> "strict", apps |-> <<>>, std |-> {}, todo |-> {}, alone |-> TRUE]
Gone == [exists |-> FALSE, wrappers |-> {}, apps |-> <<>>, main |-> FALSE, links |-> {}, module |-> FALSE]
NoBinary == [apps |-> <<>>, vetted |-> FALSE, at |-> 0]
Down == [bin |-> NoBinary, apps |-> <<>>, order |-> <<>>, list |-> <<>>, landing |-> 0, at |-> 0]

Manifests == [dir : Dirs, caps : {c.caps : c \in Contents}, panels : {c.panels : c \in Contents},
              order : {c.order : c \in Contents}, landing : BOOLEAN]
Imports == UNION {c.imports : c \in Contents}
Packages == [dir : Dirs, caps : {c.caps : c \in Contents},
             raw : SUBSET Imports, wrapped : SUBSET Std] \* imports, and those rewritten
ByNames(S) == UNION {[names -> S] : names \in SUBSET Names}
Binaries == [apps : ByNames(Packages), vetted : BOOLEAN, at : 0..MaxEdits]

SiteTypeOK ==
  /\ disk \in [Dirs -> Contents] /\ edits \in 0..MaxEdits /\ builds \in 0..MaxBuilds
  /\ build \in [Builders ->
                 [pc : {"idle", "scan", "prepare", "copy", "main", "links", "module",
                        "compile", "clean"},
                  mode : {"strict", "bypass"}, apps : ByNames(Manifests), std : SUBSET Std,
                  todo : SUBSET Names, alone : BOOLEAN]]
  /\ tree \in [exists : BOOLEAN, wrappers : SUBSET Std, apps : ByNames(Packages), main : BOOLEAN,
               links : SUBSET Names, module : BOOLEAN]
  /\ bin \in Binaries /\ server.bin \in Binaries /\ server.apps \in ByNames(Manifests)
  /\ server.order \in Orders \cup {<<>>} /\ server.landing \in Dirs \cup {0}
  /\ server.at \in 0..MaxEdits

SiteInit ==
  /\ disk \in [Dirs -> Contents] /\ edits = 0 /\ builds = 0
  /\ build = [b \in Builders |-> Done]
  /\ tree = Gone /\ bin = NoBinary /\ server = Down

-----------------------------------------------------------------------------
\* Discovery

\* The apps of these directories: of those of one name, the last one walked.
Found(d) == [dir |-> d, caps |-> disk[d].caps, panels |-> disk[d].panels,
             order |-> disk[d].order, landing |-> disk[d].landing]

ByName(dirs) == [n \in {disk[d].name : d \in dirs} |->
                   Found(Max({d \in dirs : disk[d].name = n}))]

\* Faulty variant: the build keeps the first app of a name, as if rootDir/apps came last.
BuildAppsFirst ==
  LET dirs == {d \in Dirs : disk[d].code}
  IN  [n \in {disk[d].name : d \in dirs} |-> Found(Min({d \in dirs : disk[d].name = n}))]

\* build.go, discoverApps: directories without Go code are passed over, the
\* fields of the others are not looked at.
BuildApps == ByName({d \in Dirs : disk[d].code})
CanDiscover == \A d \in Dirs : disk[d].code => disk[d].json = "good"

\* apps.go, Discover: a directory whose app.json is missing, not JSON, or
\* refused for one of its fields is not an app.
ServerApps == ByName({d \in Dirs : disk[d].json = "good" /\ disk[d].sound})

-----------------------------------------------------------------------------
\* vel build

Active(b) == build[b].pc # "idle"
Others(b) == {c \in Builders \ {b} : Active(c)}

\* LoadSiteConfig and discoverApps.
Begin(b) ==
  /\ ~Active(b) /\ CanDiscover /\ DOMAIN BuildApps # {}
  /\ builds < MaxBuilds /\ builds' = builds + 1
  /\ \E mode \in {"strict", "bypass"} :
       build' = [c \in Builders |->
                   IF c = b
                   THEN [Done EXCEPT !.pc = "scan", !.mode = mode, !.apps = BuildApps,
                                     !.todo = DOMAIN BuildApps, !.alone = Others(b) = {}]
                   ELSE [build[c] EXCEPT !.alone = @ /\ ~Active(c)]]
  /\ UNCHANGED <<disk, edits, tree, bin, server>>

\* An import that the manifest read before, or vel.yaml, does not cover.
Violations(b) ==
  UNION {{i \in disk[build[b].apps[n].dir].imports :
            \/ i \in Blacklisted
            \/ /\ build[b].mode = "strict"
               /\ i \notin Free \cup build[b].apps[n].caps
               /\ i \in Std => i \notin SiteAllows[n]} : n \in DOMAIN build[b].apps}

\* scanAppImports: the files are read, against the manifests read before.
Scan(b) ==
  /\ build[b].pc = "scan"
  /\ \A n \in DOMAIN build[b].apps : disk[build[b].apps[n].dir].code
  /\ build[b].mode = "strict" => Violations(b) = {}
  /\ build' = [build EXCEPT
       ![b].pc = "prepare",
       ![b].std = Std \cap UNION {disk[build[b].apps[n].dir].imports : n \in DOMAIN build[b].apps}]
  /\ UNCHANGED <<builds, disk, edits, tree, bin, server>>

\* Faulty variant: what is there of the tree of another build is kept.
PrepareInPlace(b) ==
  /\ build[b].pc = "prepare"
  /\ tree' = [tree EXCEPT !.exists = TRUE, !.wrappers = @ \cup build[b].std]
  /\ build' = [build EXCEPT ![b].pc = "copy"]
  /\ UNCHANGED <<builds, disk, edits, bin, server>>

\* The tree of any build before is removed; GenerateWrappers.
Prepare(b) ==
  /\ build[b].pc = "prepare"
  /\ tree' = [Gone EXCEPT !.exists = TRUE, !.wrappers = build[b].std]
  /\ build' = [build EXCEPT ![b].pc = "copy"]
  /\ UNCHANGED <<builds, disk, edits, bin, server>>

\* The files of an app as they are read once more, their imports rewritten to the
\* wrappers.
Copy(b, n) ==
  LET a == build[b].apps[n]
      imports == disk[a.dir].imports
  IN  [dir |-> a.dir, caps |-> a.caps,
       raw |-> imports \ build[b].std, wrapped |-> imports \cap build[b].std]

\* What is in the directory of the app already stays, but for files of the same name.
Onto(old, new) ==
  {new, [new EXCEPT !.raw = @ \cup old.raw, !.wrapped = @ \cup old.wrapped]}

CopyApp(b, n) ==
  /\ build[b].pc = "copy" /\ n \in build[b].todo /\ disk[build[b].apps[n].dir].code
  /\ \E p \in IF n \in DOMAIN tree.apps THEN Onto(tree.apps[n], Copy(b, n)) ELSE {Copy(b, n)} :
       tree' = [tree EXCEPT
         !.exists = TRUE,
         !.apps = [m \in {n} \cup DOMAIN @ |-> IF m = n THEN p ELSE @[m]]]
  /\ build' = [build EXCEPT ![b].todo = @ \ {n},
                            ![b].pc = IF build[b].todo = {n} THEN "main" ELSE "copy"]
  /\ UNCHANGED <<builds, disk, edits, bin, server>>

\* main.go, then appimports.go, then go.mod and the links to internal and pkg,
\* which must not be there yet.
Generate(b) ==
  /\ build[b].pc \in {"main", "links", "module"} /\ tree.exists
  /\ CASE build[b].pc = "main" ->
            /\ tree' = [tree EXCEPT !.main = TRUE]
            /\ build' = [build EXCEPT ![b].pc = "links"]
       [] build[b].pc = "links" ->
            /\ tree' = [tree EXCEPT !.links = DOMAIN build[b].apps]
            /\ build' = [build EXCEPT ![b].pc = "module"]
       [] OTHER ->
            /\ ~tree.module
            /\ tree' = [tree EXCEPT !.module = TRUE]
            /\ build' = [build EXCEPT ![b].pc = "compile"]
  /\ UNCHANGED <<builds, disk, edits, bin, server>>

\* The package of an app: without a go.mod in _build, the one in the framework's
\* own directory decides, and the app is compiled where it stands.
Package(n) ==
  IF tree.module
  THEN {tree.apps[m] : m \in {n} \cap DOMAIN tree.apps}
  ELSE {[dir |-> d, caps |-> disk[d].caps, raw |-> disk[d].imports, wrapped |-> {}] :
          d \in {e \in Dirs : ~Nested /\ e <= Internal /\ disk[e].code /\ disk[e].name = n}}

Binary(apps, b) == [apps |-> apps, vetted |-> build[b].mode = "strict" /\ build[b].alone, at |-> edits]

\* go build.
Compile(b) ==
  /\ build[b].pc = "compile" /\ tree.main
  /\ \A n \in tree.links : \E p \in Package(n) : p.wrapped \subseteq tree.wrappers
  /\ bin' = Binary([n \in tree.links |-> CHOOSE p \in Package(n) : TRUE], b)
  /\ build' = [build EXCEPT ![b].pc = "clean"]
  /\ UNCHANGED <<builds, disk, edits, tree, server>>

\* _build is removed, unless it was asked to keep it.
Clean(b) ==
  /\ build[b].pc = "clean"
  /\ tree' \in {Gone, tree}
  /\ build' = [build EXCEPT ![b] = Done]
  /\ UNCHANGED <<builds, disk, edits, bin, server>>

\* A step fails, or the process is stopped: what it has written stays.
Abort(b) ==
  /\ Active(b)
  /\ build' = [build EXCEPT ![b] = Done]
  /\ UNCHANGED <<builds, disk, edits, tree, bin, server>>

\* No app has Go code: the framework alone is compiled, to the bin beside its
\* directory, which is bin/vel of the site only when that is rootDir/vel.
BuildBase(b) ==
  /\ ~Active(b) /\ CanDiscover /\ DOMAIN BuildApps = {}
  /\ builds < MaxBuilds /\ builds' = builds + 1
  /\ bin' = IF Nested THEN [NoBinary EXCEPT !.at = edits] ELSE bin
  /\ UNCHANGED <<disk, edits, build, tree, server>>

\* A directory of apps is edited.
Edit(d) ==
  /\ edits < MaxEdits
  /\ \E c \in Contents \ {disk[d]} : disk' = [disk EXCEPT ![d] = c]
  /\ edits' = edits + 1
  /\ build' = [b \in Builders |-> [build[b] EXCEPT !.alone = @ /\ ~Active(b)]]
  /\ UNCHANGED <<builds, tree, bin, server>>

-----------------------------------------------------------------------------
\* The panels of a start

\* validateManifestSchema and the checks of loadManifest: a panel with a contract
\* must meet all of them, one without is loaded as it is.
Loads(p) == p.json /\ (p.contract => p.sound /\ p.id = p.folder)

\* DiscoverPanels: of the panels of one folder that load, those of the last source.
Registry(sources) ==
  UNION {{p \in sources[i] :
            /\ Loads(p)
            /\ \A j \in DOMAIN sources : \A q \in sources[j] :
                 j > i /\ q.folder = p.folder => ~Loads(q)} : i \in DOMAIN sources}

\* Faulty variant: the orders of the apps are added to the one of the configuration.
PanelOrderAdded(config, apps, walk) ==
  config \o FlattenSeq([i \in DOMAIN walk |-> apps[walk[i]].order])

\* The order of the configuration, else those of the apps one after another.
PanelOrder(config, apps, walk) ==
  IF config # <<>> THEN config ELSE FlattenSeq([i \in DOMAIN walk |-> apps[walk[i]].order])

\* BuildPanelList: the place of an ID is the last one in the order, or after all.
Shown(registry) == {p \in registry : p.id \notin Disabled \cup Hidden}

Place(id, order) ==
  LET at == {i \in DOMAIN order : order[i] = id} IN IF at = {} THEN 99999 ELSE Max(at)

\* By place, position and ID.  Panels of one ID come in any order: in that of their
\* folders or against it.
Before(p, q, order, tie) ==
  LET a == Place(p.id, order)
      b == Place(q.id, order)
  IN \/ a < b
     \/ a = b /\ p.position < q.position
     \/ a = b /\ p.position = q.position /\ p.id < q.id
     \/ p.id = q.id /\ p.position = q.position
          /\ IF tie THEN p.folder < q.folder ELSE q.folder < p.folder

Ranks(shown, order, tie) ==
  [p \in shown |-> Cardinality({q \in shown : Before(q, p, order, tie)})]

PanelList(ranks) ==
  [i \in 1..Cardinality(DOMAIN ranks) |-> CHOOSE p \in DOMAIN ranks : ranks[p] = i - 1]

\* The panels as the sources are walked: core, custom, then the apps.
Sources(apps, walk) == <<CorePanels, CustomPanels>> \o [i \in DOMAIN walk |-> apps[walk[i]].panels]

ListOf(config, apps, walk, tie) ==
  PanelList(Ranks(Shown(Registry(Sources(apps, walk))), PanelOrder(config, apps, walk), tie))

\* The landing page is that of the first app that has one, or the framework's.
LandingOf(apps, walk) ==
  LET own == {i \in DOMAIN walk : apps[walk[i]].landing}
  IN IF own = {} THEN 0 ELSE apps[walk[Min(own)]].dir

\* Go walks a map of apps in any order, a new one each time.
Walks(apps) == SetToSeqs(DOMAIN apps)

\* The server starts, or starts again: it runs bin/vel on the apps it finds.  A
\* start while a build runs finds what it finds when that build is aborted
\* instead, so the starts between builds are all there is to see.
Start ==
  /\ \A b \in Builders : ~Active(b)
  /\ \E config \in Orders, walk \in Walks(ServerApps), tie \in BOOLEAN :
       server' = [bin |-> bin, at |-> edits, apps |-> ServerApps, order |-> config,
                  list |-> ListOf(config, ServerApps, walk, tie),
                  landing |-> LandingOf(ServerApps, walk)]
  /\ UNCHANGED <<builds, disk, edits, build, tree, bin>>

\* The directory that the code registered under this name is given.
GivenDir(n) == IF n \in DOMAIN server.apps THEN server.apps[n].dir ELSE 0

-----------------------------------------------------------------------------
SiteNext ==
  \/ \E b \in Builders : \/ Begin(b) \/ Scan(b) \/ Prepare(b) \/ Generate(b)
                         \/ Compile(b) \/ Clean(b) \/ Abort(b) \/ BuildBase(b)
                         \/ \E n \in Names : CopyApp(b, n)
  \/ \E d \in Dirs : Edit(d)
  \/ Start

SiteSpec == SiteInit /\ [][SiteNext]_siteVars

-----------------------------------------------------------------------------
\* Properties

\* In a binary that one strict build made alone, while nothing was edited, no
\* app imports a blacklisted package; its imports are free, covered by its own
\* manifest or allowed to it by vel.yaml; and those of the library go through
\* the wrappers.  The files are read twice, against a manifest read once, in a
\* tree that failed builds leave behind (build.go, Run).
OnlyVettedCode ==
  bin.vetted => \A n \in DOMAIN bin.apps :
    LET a == bin.apps[n]
        imports == a.raw \cup a.wrapped
    IN /\ imports \cap Blacklisted = {}
       /\ imports \subseteq Free \cup a.caps \cup (Std \cap SiteAllows[n])
       /\ a.raw \cap Std = {}

\* Code that was built from a directory is given that directory when the server
\* starts on the same disk (build.go, discoverApps; apps.go, Discover;
\* server.go, NewServer), provided that the last directory of its name whose
\* app.json can be read also holds code and is accepted by Discover.
CodeKeepsItsDirectory ==
  LET runs == server.bin IN
  runs.vetted /\ runs.at = server.at /\ server.at = edits =>
    \A n \in DOMAIN runs.apps :
      LET last == Max({d \in Dirs : disk[d].json = "good" /\ disk[d].name = n}) IN
      disk[last].code /\ disk[last].sound => GivenDir(n) = runs.apps[n].dir

\* What the walk decides: the apps' common folders, landing pages and orders, and the
\* panels of one ID.
Contested(config, apps) ==
  \/ \E m, n \in DOMAIN apps : m # n /\
       \/ \E p \in apps[m].panels, q \in apps[n].panels : p.folder = q.folder
       \/ apps[m].landing /\ apps[n].landing
       \/ config = <<>> /\ apps[m].order # <<>> /\ apps[n].order # <<>>
  \/ \E walk \in Walks(apps) :
       \E p, q \in Registry(Sources(apps, walk)) : p # q /\ p.id = q.id

\* However Go walks the apps, a start shows the same panels in the same order
\* and the same landing page (main.go, registry.go), unless two apps give the
\* same folder or the landing page, two panels have one ID, or the order is
\* put together from those of several apps.
StartsShowTheSame ==
  [][server' # server /\ ~Contested(server'.order, server'.apps) =>
       \A walk \in Walks(server'.apps), tie \in BOOLEAN :
         /\ ListOf(server'.order, server'.apps, walk, tie) = server'.list
         /\ LandingOf(server'.apps, walk) = server'.landing]_siteVars
=============================================================================
