------------------------------- MODULE Accounts -------------------------------
(***************************************************************************)
(* Users and API keys (internal/auth/users.go): the file users.json, its   *)
(* copy in memory, the watcher that loads the file again when its time     *)
(* has changed, the administrators' changes, the migration at start-up and *)
(* the lookup of a key (provider_apikey.go) that goes on reading the       *)
(* record it was handed after the lock is released.                        *)
(*                                                                         *)
(* Every write gives the file a later time than it had: the resolution of  *)
(* file times is finer than the distance between two writes, and nobody    *)
(* puts an old file back with its old time.                                *)
(***************************************************************************)
EXTENDS Naturals, Sequences

CONSTANTS Users, Keys, Names, Requests,
          NameOf,     \* the name of each key, which is its ID too
          Legacy,     \* the users of the old configuration
          Unreadable, \* a users.json that does not parse
          Missing, None,
          MaxTime,    \* writes explored
          MaxCrashes

ASSUME AccountsAssumption ==
  /\ NameOf \in [Keys -> Names]
  /\ Legacy \subseteq Users
  /\ None \notin Keys
  /\ MaxTime \in Nat /\ MaxCrashes \in Nat

\* What UsersFile says: users with their IDs, keys in the order of the file.
Accounts == [users : SUBSET Users, keys : Seq(Keys)]
Loads == [pc : {"idle", "stat", "read", "store"}, seen : Nat, got : Accounts]
Pointers == [asked : Keys \cup {None}, slot : Nat, sees : Keys \cup {None}]
NoAccounts == [users |-> {}, keys |-> <<>>]
NoKey == [asked |-> None, slot |-> 0, sees |-> None]

VARIABLES
  file, mtime,   \* users.json and its time
  mode,          \* the server: stopped, starting, with a store, without
  mem, lastMod,  \* UserStore.data, lastMod
  lastSave,      \* history: did the last save touch the file
  load,          \* where a load is, and what it has seen
  lookup,        \* the record each request holds a pointer to
  attached,      \* the requests whose pointer is into the array in use
  disturbed,     \* history: those whose record a removal has changed
  issued,        \* keys generated so far
  crashes

disk == <<file, mtime>>
store == <<mem, lastMod, lastSave>>
pointers == <<lookup, attached, disturbed>>
vars == <<disk, mode, store, load, pointers, issued, crashes>>

TypeOK ==
  /\ file \in Accounts \cup {Unreadable, Missing}
  /\ mtime \in Nat /\ lastMod \in Nat /\ crashes \in Nat
  /\ mode \in {"stopped", "starting", "manager", "legacy"}
  /\ mem \in Accounts
  /\ lastSave \in {"done", "refused"}
  /\ load \in Loads
  /\ lookup \in [Requests -> Pointers]
  /\ attached \subseteq Requests /\ disturbed \subseteq Requests
  /\ issued \subseteq Keys

Idle == [pc |-> "idle", seen |-> 0, got |-> NoAccounts]
Forgotten == [r \in Requests |-> NoKey]

Init ==
  /\ file = Missing /\ mtime = 0
  /\ mode = "stopped"
  /\ mem = NoAccounts /\ lastMod = 0 /\ lastSave = "done"
  /\ load = Idle
  /\ lookup = Forgotten /\ attached = {} /\ disturbed = {}
  /\ issued = {}
  /\ crashes = 0

-----------------------------------------------------------------------------
\* SaveUsers(path, c): done, refused before the file is touched, or broken off.
SaveUsers(c) ==
  \/ /\ mtime < MaxTime /\ mtime' = mtime + 1
     /\ file' \in {c, Unreadable}
     /\ lastSave' = "done"
  \/ UNCHANGED disk /\ lastSave' = "refused"

\* Start-up: the migration, whose failure is only a warning, then the question
\* whether there is a file.
MigrateIfNeeded ==
  /\ mode = "stopped"
  /\ IF file = Missing /\ Legacy # {}
       THEN SaveUsers([users |-> Legacy, keys |-> <<>>])
       ELSE UNCHANGED <<disk, lastSave>>
  /\ mode' = IF file' = Missing THEN "legacy" ELSE "starting"
  /\ load' = IF file' = Missing THEN load ELSE [load EXCEPT !.pc = "stat"]
  /\ UNCHANGED <<mem, lastMod, pointers, issued, crashes>>

-----------------------------------------------------------------------------
(* UserStore.load, at start-up and by the watcher *)

\* The watcher's tick: a file that is newer than the one loaded is loaded again.
Watch ==
  /\ mode = "manager" /\ load.pc = "idle"
  /\ file # Missing /\ mtime > lastMod
  /\ load' = [load EXCEPT !.pc = "stat"]
  /\ UNCHANGED <<disk, mode, store, pointers, issued, crashes>>

LoadStat ==
  /\ load.pc = "stat" /\ file # Missing
  /\ load' = [load EXCEPT !.pc = "read", !.seen = mtime]
  /\ UNCHANGED <<disk, mode, store, pointers, issued, crashes>>

LoadRead ==
  /\ load.pc = "read" /\ file \in Accounts
  /\ load' = [load EXCEPT !.pc = "store", !.got = file]
  /\ UNCHANGED <<disk, mode, store, pointers, issued, crashes>>

\* Faulty variant: the watcher ends with the first load that fails.
LoadFailsForEver ==
  /\ load.pc \in {"stat", "read"}
  /\ load' = [load EXCEPT !.pc = "ended"]
  /\ mode' = IF mode = "starting" THEN "legacy" ELSE mode
  /\ UNCHANGED <<disk, store, pointers, issued, crashes>>

\* The file is gone, does not parse or cannot be read: the watcher keeps what it
\* has, a starting server does without a store.
LoadFails ==
  /\ load.pc \in {"stat", "read"}
  /\ load' = Idle
  /\ mode' = IF mode = "starting" THEN "legacy" ELSE mode
  /\ UNCHANGED <<disk, store, pointers, issued, crashes>>

\* Faulty variant: the time is read again once the contents are stored.
LoadStoreTimedLate ==
  /\ load.pc = "store"
  /\ mem' = load.got /\ lastMod' = mtime /\ lastSave' = "done"
  /\ load' = Idle
  /\ mode' \in IF mode = "starting" THEN {"manager", "legacy"} ELSE {mode}
  /\ attached' = {}
  /\ UNCHANGED <<disk, lookup, disturbed, issued, crashes>>

\* The new data replace the old, which requests under way may still point to. A
\* starting server also needs its session database.
LoadStore ==
  /\ load.pc = "store"
  /\ mem' = load.got /\ lastMod' = load.seen /\ lastSave' = "done"
  /\ load' = Idle
  /\ mode' \in IF mode = "starting" THEN {"manager", "legacy"} ELSE {mode}
  /\ attached' = {}
  /\ UNCHANGED <<disk, lookup, disturbed, issued, crashes>>

-----------------------------------------------------------------------------
(* The administrators' changes: each is made in memory and saved under the      *)
(* lock, and stays in memory when the save fails.                               *)

Change(c) ==
  /\ mode = "manager"
  /\ mem' = c
  /\ SaveUsers(c)
  /\ UNCHANGED <<mode, lastMod, load, crashes>>

AddUser(u) ==
  /\ u \notin mem.users
  /\ Change([mem EXCEPT !.users = @ \cup {u}])
  /\ UNCHANGED <<pointers, issued>>

RemoveUser(u) ==
  /\ u \in mem.users
  /\ Change([mem EXCEPT !.users = @ \ {u}])
  /\ UNCHANGED <<pointers, issued>>

\* Appending happens in place, where a pointer that removals have left beyond the end
\* sees the new key, or moves the keys to a new array, while requests keep the old.
AddAPIKey(k) ==
  /\ k \notin issued /\ issued' = issued \cup {k}
  /\ Change([mem EXCEPT !.keys = Append(@, k)])
  /\ \/ /\ lookup' = [r \in Requests |->
                        IF r \in attached /\ lookup[r].slot = Len(mem.keys) + 1
                          THEN [lookup[r] EXCEPT !.sees = k] ELSE lookup[r]]
        /\ UNCHANGED attached
     \/ attached' = {} /\ UNCHANGED lookup
  /\ UNCHANGED disturbed

Without(s, i) == [j \in 1..(Len(s) - 1) |-> IF j < i THEN s[j] ELSE s[j+1]]

\* Only the first key of that ID goes; those behind it move down in place, under the
\* pointers to them.
RemoveAPIKey(n) ==
  /\ \E i \in DOMAIN mem.keys :
       /\ NameOf[mem.keys[i]] = n
       /\ \A j \in 1..(i-1) : NameOf[mem.keys[j]] # n
       /\ Change([mem EXCEPT !.keys = Without(@, i)])
       /\ LET moved == {r \in attached : lookup[r].slot >= i}
          IN /\ disturbed' = disturbed \cup moved
             /\ lookup' = [r \in Requests |->
                             IF r \in moved /\ lookup[r].slot < Len(mem.keys)
                               THEN [lookup[r] EXCEPT !.sees = mem.keys[lookup[r].slot + 1]]
                               ELSE lookup[r]]
  /\ UNCHANGED <<attached, issued>>

-----------------------------------------------------------------------------
\* Faulty variant: the key is looked up by its name.
FindAPIKeyByName(r, k) ==
  /\ mode = "manager" /\ lookup[r] = NoKey
  /\ \E i \in DOMAIN mem.keys :
       /\ NameOf[mem.keys[i]] = NameOf[k]
       /\ \A j \in 1..(i-1) : NameOf[mem.keys[j]] # NameOf[k]
       /\ lookup' = [lookup EXCEPT ![r] = [asked |-> k, slot |-> i, sees |-> mem.keys[i]]]
  /\ attached' = attached \cup {r}
  /\ UNCHANGED <<disk, mode, store, load, disturbed, issued, crashes>>

\* FindAPIKey returns a pointer into the array of keys; a key it does not find
\* ends the request.
FindAPIKey(r, k) ==
  /\ mode = "manager" /\ lookup[r] = NoKey
  /\ \E i \in DOMAIN mem.keys :
       /\ mem.keys[i] = k
       /\ lookup' = [lookup EXCEPT ![r] = [asked |-> k, slot |-> i, sees |-> k]]
  /\ attached' = attached \cup {r}
  /\ UNCHANGED <<disk, mode, store, load, disturbed, issued, crashes>>

\* Authenticate builds the identity from the record under the pointer.
Authenticate(r) ==
  /\ lookup[r] # NoKey
  /\ lookup' = [lookup EXCEPT ![r] = NoKey]
  /\ attached' = attached \ {r} /\ disturbed' = disturbed \ {r}
  /\ UNCHANGED <<disk, mode, store, load, issued, crashes>>

-----------------------------------------------------------------------------
\* Somebody edits the file, puts an unreadable one right, or removes it.
Edit ==
  /\ mtime < MaxTime /\ mtime' = mtime + 1
  /\ \/ \E U \in SUBSET Users :
          file' = [users |-> U, keys |-> IF file \in Accounts THEN file.keys ELSE <<>>]
     \/ file' = Missing
  /\ file' # file
  /\ lastSave' = "done"
  /\ UNCHANGED <<mode, mem, lastMod, load, pointers, issued, crashes>>

\* The server stops, perhaps in the middle of a save.
Crash ==
  /\ mode # "stopped" /\ crashes < MaxCrashes
  /\ crashes' = crashes + 1
  /\ \/ UNCHANGED disk
     \/ /\ mode = "manager" /\ mtime < MaxTime
        /\ file' = Unreadable /\ mtime' = mtime + 1
  /\ mode' = "stopped"
  /\ mem' = NoAccounts /\ lastMod' = 0 /\ lastSave' = "done"
  /\ load' = Idle /\ lookup' = Forgotten /\ attached' = {} /\ disturbed' = {}
  /\ UNCHANGED issued

Administer == \/ \E u \in Users : AddUser(u) \/ RemoveUser(u)
              \/ \E k \in Keys : AddAPIKey(k)
              \/ \E n \in Names : RemoveAPIKey(n)

Request(r) == (\E k \in Keys : FindAPIKey(r, k)) \/ Authenticate(r)

Next == \/ MigrateIfNeeded \/ Watch \/ LoadStat \/ LoadRead \/ LoadFails \/ LoadStore
        \/ Administer \/ (\E r \in Requests : Request(r)) \/ Edit \/ Crash

\* The watcher goes on polling, and a readable file is not misread for ever.
Fairness == WF_vars(Watch) /\ SF_vars(LoadStat) /\ SF_vars(LoadRead) /\ WF_vars(LoadStore)

Spec == Init /\ [][Next]_vars /\ Fairness

-----------------------------------------------------------------------------
(* Properties *)

\* When memory and file differ, and not because a save could not touch the file,
\* the watcher will see a newer file: no order of loads, saves and edits leaves
\* them different with equal times.
DivergenceIsNoticed == mode = "manager" /\ mem # file /\ lastSave = "done" => lastMod < mtime

\* Again and again the memory of a running server is what a readable file says, or
\* the last save could not touch the file.
MemoryFollowsFile ==
  []<>(mode = "manager" /\ file \in Accounts => mem = file \/ lastSave = "refused")

\* The record a request reads is that of its key, unless a key before it or that key
\* was removed from the same array in between.
IdentityIsOwn ==
  \A r \in Requests : lookup[r].sees # lookup[r].asked => r \in disturbed
=============================================================================
