----------------------------- MODULE AuthProofs -----------------------------
(***************************************************************************)
(* Proofs about Accounts, for any number of users, keys and requests, and  *)
(* about Access, for any number of tokens and clients.                     *)
(*                                                                         *)
(* The first argument is about times: no time the server remembers is      *)
(* later than that of the file, and what was read under the time the file  *)
(* still has is what the file says.  The second is about pointers: one     *)
(* that no removal has passed still points at its key.  The third is about *)
(* the changes of tokens: one that nothing overlapped is in every snapshot *)
(* that may still be written.                                              *)
(***************************************************************************)
EXTENDS Accounts, Access, SequenceTheorems, TLAPS

TimeInv ==
  /\ lastMod <= mtime
  /\ load.seen <= mtime
  /\ load.pc = "store" /\ load.seen = mtime => load.got = file

PointerInv ==
  \A r \in Requests :
    r \in attached /\ r \notin disturbed => lookup[r].slot \in 1..Len(mem.keys)

DiskInv == TypeOK /\ TimeInv /\ DivergenceIsNoticed
LookupInv == PointerInv /\ IdentityIsOwn

-----------------------------------------------------------------------------
\* Removing one key leaves a sequence of keys that is one shorter.
LEMMA WithoutType ==
  ASSUME NEW s \in Seq(Keys), NEW i \in 1..Len(s)
  PROVE  Without(s, i) \in Seq(Keys) /\ Len(Without(s, i)) = Len(s) - 1
<1>1. Len(s) \in Nat /\ Len(s) - 1 \in Nat /\ DOMAIN s = 1..Len(s)
  OBVIOUS
<1>2. \A j \in 1..(Len(s) - 1) : (IF j < i THEN s[j] ELSE s[j+1]) \in Keys
  BY <1>1
<1>3. Without(s, i) \in [1..(Len(s) - 1) -> Keys]
  BY <1>2 DEF Without
<1>4. Without(s, i) \in Seq(Keys)
  <2>1. [1..(Len(s) - 1) -> Keys] \in {[1..n -> Keys] : n \in Nat}
    BY <1>1
  <2>2. QED
    BY <1>3, <2>1, SeqDef
<1>5. Len(Without(s, i)) = Len(s) - 1
  BY <1>1 DEF Without
<1>6. QED
  BY <1>4, <1>5

LEMMA InitInv == Init => DiskInv /\ LookupInv
<1> SUFFICES ASSUME Init PROVE DiskInv /\ LookupInv
  OBVIOUS
<1> USE AccountsAssumption DEF Init, Idle, NoAccounts, Forgotten, NoKey
<1>1. NoAccounts \in Accounts
  BY DEF Accounts
<1>2. TypeOK
  BY <1>1 DEF TypeOK, Loads, Pointers
<1>3. QED
  BY <1>2 DEF DiskInv, TimeInv, DivergenceIsNoticed, LookupInv, PointerInv,
              IdentityIsOwn

\* What a save does to the disk, whatever was to be saved.
LEMMA SaveType ==
  ASSUME mtime \in Nat, file \in Accounts \cup {Unreadable, Missing},
         NEW c \in Accounts, SaveUsers(c)
  PROVE  /\ file' \in Accounts \cup {Unreadable, Missing}
         /\ mtime' \in Nat /\ lastSave' \in {"done", "refused"}
         /\ \/ mtime' = mtime + 1 /\ lastSave' = "done"
            \/ file' = file /\ mtime' = mtime /\ lastSave' = "refused"
<1>1. CASE UNCHANGED disk /\ lastSave' = "refused"
  BY <1>1 DEF disk
<1>2. CASE mtime' = mtime + 1 /\ file' \in {c, Unreadable} /\ lastSave' = "done"
  BY <1>2
<1>3. QED
  BY <1>1, <1>2 DEF SaveUsers

\* A change in memory and its save: the file is newer than what any load saw, or the
\* save has not touched it.
LEMMA ChangeInv ==
  ASSUME DiskInv, NEW c \in Accounts, Change(c), issued' \subseteq Keys,
         lookup' \in [Requests -> Pointers],
         attached' \subseteq Requests, disturbed' \subseteq Requests
  PROVE  DiskInv'
<1>1. SaveUsers(c) /\ mem' = c /\ UNCHANGED <<mode, lastMod, load, crashes>>
  BY DEF Change
<1>2. /\ file' \in Accounts \cup {Unreadable, Missing}
      /\ mtime' \in Nat /\ lastSave' \in {"done", "refused"}
      /\ \/ mtime' = mtime + 1 /\ lastSave' = "done"
         \/ file' = file /\ mtime' = mtime /\ lastSave' = "refused"
  BY <1>1, SaveType DEF DiskInv, TypeOK
<1>3. TypeOK'
  BY <1>1, <1>2 DEF DiskInv, TypeOK
<1>4. mtime \in Nat /\ lastMod \in Nat /\ load.seen \in Nat
  BY DEF DiskInv, TypeOK, Loads
<1>5. TimeInv' /\ DivergenceIsNoticed'
  BY <1>1, <1>2, <1>4 DEF DiskInv, TimeInv, DivergenceIsNoticed
<1>6. QED
  BY <1>3, <1>5 DEF DiskInv

LEMMA NextDisk == DiskInv /\ [Next]_vars => DiskInv'
<1> SUFFICES ASSUME DiskInv, [Next]_vars PROVE DiskInv'
  OBVIOUS
<1> USE AccountsAssumption
<1>0. TypeOK /\ TimeInv /\ DivergenceIsNoticed
  BY DEF DiskInv
<1>a. mtime \in Nat /\ lastMod \in Nat /\ load.seen \in Nat /\ mem.keys \in Seq(Keys)
  BY <1>0 DEF TypeOK, Loads, Accounts
<1>b. Idle \in Loads /\ NoAccounts \in Accounts /\ Forgotten \in [Requests -> Pointers]
  BY DEF Idle, NoAccounts, Accounts, Loads, Forgotten, NoKey, Pointers
<1>1. CASE MigrateIfNeeded
  <2>1. [users |-> Legacy, keys |-> <<>>] \in Accounts
    BY DEF Accounts
  <2>2. /\ file' \in Accounts \cup {Unreadable, Missing}
        /\ mtime' \in Nat /\ lastSave' \in {"done", "refused"}
        /\ mtime' = mtime + 1 \/ (file' = file /\ mtime' = mtime)
    <3>1. CASE UNCHANGED <<disk, lastSave>>
      BY <1>0, <3>1 DEF TypeOK, disk
    <3>2. CASE SaveUsers([users |-> Legacy, keys |-> <<>>])
      BY <1>0, <2>1, <3>2, SaveType DEF TypeOK
    <3>3. QED
      BY <1>1, <3>1, <3>2 DEF MigrateIfNeeded
  <2>3. /\ mode' \in {"legacy", "starting"}
        /\ load' = load \/ load' = [load EXCEPT !.pc = "stat"]
        /\ UNCHANGED <<mem, lastMod, pointers, issued, crashes>>
    BY <1>1 DEF MigrateIfNeeded
  <2>4. TypeOK'
    BY <1>0, <2>2, <2>3 DEF TypeOK, Loads, pointers
  <2>5. TimeInv'
    BY <1>0, <1>a, <2>2, <2>3 DEF TimeInv, TypeOK, Loads
  <2>6. DivergenceIsNoticed'
    BY <2>3 DEF DivergenceIsNoticed
  <2>7. QED
    BY <2>4, <2>5, <2>6 DEF DiskInv
<1>2. CASE Watch \/ LoadStat \/ LoadRead
  <2>1. UNCHANGED <<file, mtime, mode, mem, lastMod, lastSave, pointers, issued, crashes>>
    BY <1>2 DEF Watch, LoadStat, LoadRead, disk, store
  <2>2. load' \in Loads
    BY <1>0, <1>2 DEF Watch, LoadStat, LoadRead, TypeOK, Loads
  <2>3. TypeOK'
    BY <1>0, <2>1, <2>2 DEF TypeOK, pointers
  <2>4. DivergenceIsNoticed'
    BY <1>0, <2>1 DEF DivergenceIsNoticed
  <2>5. TimeInv' => DiskInv'
    BY <2>3, <2>4 DEF DiskInv
  <2>6. TimeInv'
    <3>1. CASE Watch
      BY <1>0, <2>1, <3>1 DEF Watch, TimeInv, TypeOK, Loads
    <3>2. CASE LoadStat
      BY <1>0, <1>a, <2>1, <3>2 DEF LoadStat, TimeInv, TypeOK, Loads
    <3>3. CASE LoadRead
      BY <1>0, <2>1, <3>3 DEF LoadRead, TimeInv, TypeOK, Loads
    <3>4. QED
      BY <1>2, <3>1, <3>2, <3>3
  <2>7. QED
    BY <2>5, <2>6
<1>3. CASE LoadFails
  <2>1. /\ UNCHANGED <<file, mtime, mem, lastMod, lastSave, pointers, issued, crashes>>
        /\ load' = Idle /\ mode' \in {"legacy", mode}
    BY <1>3 DEF LoadFails, disk, store
  <2>2. TypeOK'
    BY <1>0, <1>b, <2>1 DEF TypeOK, pointers
  <2>3. TimeInv' /\ DivergenceIsNoticed'
    BY <1>0, <1>a, <2>1 DEF TimeInv, DivergenceIsNoticed, Idle
  <2>4. QED
    BY <2>2, <2>3 DEF DiskInv
<1>4. CASE LoadStore
  <2>1. /\ mem' = load.got /\ lastMod' = load.seen /\ load' = Idle
        /\ lastSave' = "done" /\ attached' = {} /\ load.pc = "store"
        /\ mode' \in {"manager", "legacy"} \cup {mode}
        /\ UNCHANGED <<file, mtime, lookup, disturbed, issued, crashes>>
    BY <1>4 DEF LoadStore, disk
  <2>2. TypeOK'
    BY <1>0, <1>b, <2>1 DEF TypeOK, Loads
  <2>3. TimeInv' /\ DivergenceIsNoticed'
    BY <1>0, <1>a, <2>1 DEF TimeInv, DivergenceIsNoticed, Idle
  <2>4. QED
    BY <2>2, <2>3 DEF DiskInv
<1>5. ASSUME NEW u \in Users, AddUser(u) \/ RemoveUser(u) PROVE DiskInv'
  <2>1. PICK c \in {[mem EXCEPT !.users = @ \cup {u}], [mem EXCEPT !.users = @ \ {u}]} :
          Change(c) /\ UNCHANGED <<pointers, issued>>
    BY <1>5 DEF AddUser, RemoveUser
  <2>2. c \in Accounts
    BY <1>0 DEF TypeOK, Accounts
  <2>3. /\ issued' \subseteq Keys /\ lookup' \in [Requests -> Pointers]
        /\ attached' \subseteq Requests /\ disturbed' \subseteq Requests
    BY <1>0, <2>1 DEF TypeOK, pointers
  <2>4. QED
    BY <2>1, <2>2, <2>3, ChangeInv
<1>6. ASSUME NEW k \in Keys, AddAPIKey(k) PROVE DiskInv'
  <2>1. [mem EXCEPT !.keys = Append(@, k)] \in Accounts
    <3>1. Append(mem.keys, k) \in Seq(Keys)
      BY <1>a
    <3>2. QED
      BY <1>0, <3>1 DEF TypeOK, Accounts
  <2>2. lookup' \in [Requests -> Pointers]
    <3>1. \A r \in Requests : [lookup[r] EXCEPT !.sees = k] \in Pointers
      BY <1>0 DEF TypeOK, Pointers
    <3>2. \/ lookup' = lookup
          \/ lookup' = [r \in Requests |->
                          IF r \in attached /\ lookup[r].slot = Len(mem.keys) + 1
                            THEN [lookup[r] EXCEPT !.sees = k] ELSE lookup[r]]
      BY <1>6 DEF AddAPIKey
    <3>3. QED
      BY <1>0, <3>1, <3>2 DEF TypeOK
  <2>3. /\ Change([mem EXCEPT !.keys = Append(@, k)]) /\ issued' \subseteq Keys
        /\ attached' \subseteq Requests /\ disturbed' \subseteq Requests
    BY <1>0, <1>6 DEF AddAPIKey, TypeOK
  <2>4. QED
    BY <2>1, <2>2, <2>3, ChangeInv
<1>7. ASSUME NEW n \in Names, RemoveAPIKey(n) PROVE DiskInv'
  <2> DEFINE Moved(i) == {r \in attached : lookup[r].slot >= i}
  <2>1. PICK i \in DOMAIN mem.keys :
          /\ Change([mem EXCEPT !.keys = Without(@, i)])
          /\ disturbed' = disturbed \cup Moved(i)
          /\ lookup' = [r \in Requests |->
                          IF r \in Moved(i) /\ lookup[r].slot < Len(mem.keys)
                            THEN [lookup[r] EXCEPT !.sees = mem.keys[lookup[r].slot + 1]]
                            ELSE lookup[r]]
    BY <1>7 DEF RemoveAPIKey
  <2>2. i \in 1..Len(mem.keys) /\ UNCHANGED <<attached, issued>>
    BY <1>a, <1>7 DEF RemoveAPIKey
  <2>3. [mem EXCEPT !.keys = Without(@, i)] \in Accounts
    BY <1>0, <1>a, <2>2, WithoutType DEF TypeOK, Accounts
  <2>4. \A r \in Requests :
          r \in Moved(i) /\ lookup[r].slot < Len(mem.keys)
            => mem.keys[lookup[r].slot + 1] \in Keys
    <3> SUFFICES ASSUME NEW r \in Requests, lookup[r].slot >= i,
                        lookup[r].slot < Len(mem.keys)
                 PROVE  mem.keys[lookup[r].slot + 1] \in Keys
      OBVIOUS
    <3>1. lookup[r].slot + 1 \in 1..Len(mem.keys)
      BY <1>0, <1>a, <2>2 DEF TypeOK, Pointers
    <3>2. QED
      BY <1>a, <3>1, ElementOfSeq
  <2>5. lookup' \in [Requests -> Pointers]
    BY <1>0, <2>1, <2>4 DEF TypeOK, Pointers
  <2>6. /\ issued' \subseteq Keys
        /\ attached' \subseteq Requests /\ disturbed' \subseteq Requests
    BY <1>0, <2>1, <2>2 DEF TypeOK
  <2>7. QED
    BY <2>1, <2>3, <2>5, <2>6, ChangeInv
<1>8. ASSUME NEW r \in Requests, Request(r) PROVE DiskInv'
  <2>1. UNCHANGED <<file, mtime, mode, mem, lastMod, lastSave, load, issued, crashes>>
    BY <1>8 DEF Request, FindAPIKey, Authenticate, disk, store
  <2>3. /\ lookup' \in [Requests -> Pointers]
        /\ attached' \subseteq Requests /\ disturbed' \subseteq Requests
    <3>1. CASE Authenticate(r)
      BY <1>0, <3>1 DEF Authenticate, TypeOK, NoKey, Pointers
    <3>2. ASSUME NEW k \in Keys, FindAPIKey(r, k)
          PROVE  /\ lookup' \in [Requests -> Pointers]
                 /\ attached' \subseteq Requests /\ disturbed' \subseteq Requests
      <4>1. PICK i \in DOMAIN mem.keys :
              lookup' = [lookup EXCEPT ![r] = [asked |-> k, slot |-> i, sees |-> k]]
        BY <3>2 DEF FindAPIKey
      <4>2. i \in Nat
        BY <1>a
      <4>3. QED
        BY <1>0, <3>2, <4>1, <4>2 DEF FindAPIKey, TypeOK, Pointers
    <3>3. QED
      BY <1>8, <3>1, <3>2 DEF Request
  <2>4. TypeOK'
    BY <1>0, <2>1, <2>3 DEF TypeOK
  <2>5. TimeInv' /\ DivergenceIsNoticed'
    BY <1>0, <2>1 DEF TimeInv, DivergenceIsNoticed
  <2>6. QED
    BY <2>4, <2>5 DEF DiskInv
<1>9. CASE Edit
  <2>1. /\ mtime' = mtime + 1 /\ lastSave' = "done"
        /\ UNCHANGED <<mode, mem, lastMod, load, pointers, issued, crashes>>
    BY <1>9 DEF Edit
  <2>2. file' \in Accounts \cup {Missing}
    <3>1. (IF file \in Accounts THEN file.keys ELSE <<>>) \in Seq(Keys)
      BY DEF Accounts
    <3>2. \A U \in SUBSET Users :
            [users |-> U, keys |-> IF file \in Accounts THEN file.keys ELSE <<>>]
              \in Accounts
      BY <3>1 DEF Accounts
    <3>3. QED
      BY <1>9, <3>2 DEF Edit
  <2>3. TypeOK'
    BY <1>0, <2>1, <2>2 DEF TypeOK, pointers
  <2>4. TimeInv' /\ DivergenceIsNoticed'
    BY <1>0, <1>a, <2>1 DEF TimeInv, DivergenceIsNoticed
  <2>5. QED
    BY <2>3, <2>4 DEF DiskInv
<1>10. CASE Crash
  <2>1. /\ file' \in {file, Unreadable} /\ mtime' \in {mtime, mtime + 1}
        /\ mode' = "stopped" /\ mem' = NoAccounts /\ lastMod' = 0 /\ lastSave' = "done"
        /\ load' = Idle /\ lookup' = Forgotten /\ attached' = {} /\ disturbed' = {}
        /\ issued' = issued /\ crashes' = crashes + 1
    BY <1>10 DEF Crash, disk
  <2>2. TypeOK'
    BY <1>0, <1>b, <2>1 DEF TypeOK
  <2>3. TimeInv' /\ DivergenceIsNoticed'
    BY <1>a, <2>1 DEF TimeInv, DivergenceIsNoticed, Idle
  <2>4. QED
    BY <2>2, <2>3 DEF DiskInv
<1>11. CASE UNCHANGED vars
  BY <1>0, <1>11 DEF vars, DiskInv, TypeOK, TimeInv, DivergenceIsNoticed, disk, store,
                     pointers
<1>12. QED
  BY <1>1, <1>2, <1>3, <1>4, <1>5, <1>6, <1>7, <1>8, <1>9, <1>10, <1>11
     DEF Next, Administer

-----------------------------------------------------------------------------
LEMMA NextLookup == DiskInv /\ LookupInv /\ [Next]_vars => LookupInv'
<1> SUFFICES ASSUME DiskInv, LookupInv, [Next]_vars PROVE LookupInv'
  OBVIOUS
<1>0. TypeOK /\ PointerInv /\ IdentityIsOwn
  BY DEF DiskInv, LookupInv
<1>a. mem.keys \in Seq(Keys) /\ Len(mem.keys) \in Nat /\ DOMAIN mem.keys = 1..Len(mem.keys)
  BY <1>0 DEF TypeOK, Accounts
<1>b. \A r \in Requests : lookup[r] \in Pointers
  BY <1>0 DEF TypeOK
<1>1. ASSUME UNCHANGED pointers, mem'.keys = mem.keys PROVE LookupInv'
  BY <1>0, <1>1 DEF LookupInv, PointerInv, IdentityIsOwn, pointers
<1>2. ASSUME NEW u \in Users, AddUser(u) \/ RemoveUser(u) PROVE LookupInv'
  <2>1. mem'.keys = mem.keys /\ UNCHANGED pointers
    BY <1>0, <1>2 DEF AddUser, RemoveUser, Change, TypeOK, Accounts
  <2>2. QED
    BY <2>1, <1>1
<1>3. CASE LoadStore
  BY <1>0, <1>3 DEF LoadStore, LookupInv, PointerInv, IdentityIsOwn
<1>4. ASSUME NEW k \in Keys, AddAPIKey(k) PROVE LookupInv'
  <2>1. mem'.keys = Append(mem.keys, k)
    BY <1>0, <1>4 DEF AddAPIKey, Change, TypeOK, Accounts
  <2>2. Len(mem'.keys) = Len(mem.keys) + 1
    BY <1>a, <2>1
  <2>3. disturbed' = disturbed
    BY <1>4 DEF AddAPIKey
  <2>4. CASE attached' = {} /\ UNCHANGED lookup
    BY <1>0, <2>3, <2>4 DEF LookupInv, PointerInv, IdentityIsOwn
  <2>5. CASE /\ lookup' = [r \in Requests |->
                             IF r \in attached /\ lookup[r].slot = Len(mem.keys) + 1
                               THEN [lookup[r] EXCEPT !.sees = k] ELSE lookup[r]]
             /\ UNCHANGED attached
    <3> SUFFICES ASSUME NEW r \in Requests
                 PROVE  /\ r \in attached' /\ r \notin disturbed'
                             => lookup'[r].slot \in 1..Len(mem'.keys)
                        /\ lookup'[r].sees # lookup'[r].asked => r \in disturbed'
      BY DEF LookupInv, PointerInv, IdentityIsOwn
    <3>1. CASE r \in attached /\ lookup[r].slot = Len(mem.keys) + 1
      <4>1. r \in disturbed
        BY <1>0, <1>a, <3>1 DEF PointerInv
      <4>2. QED
        BY <2>3, <4>1
    <3>2. CASE ~(r \in attached /\ lookup[r].slot = Len(mem.keys) + 1)
      BY <1>0, <1>a, <2>2, <2>3, <2>5, <3>2 DEF PointerInv, IdentityIsOwn
    <3>3. QED
      BY <3>1, <3>2
  <2>6. QED
    BY <1>4, <2>4, <2>5 DEF AddAPIKey
<1>5. ASSUME NEW n \in Names, RemoveAPIKey(n) PROVE LookupInv'
  <2> DEFINE Moved(i) == {r \in attached : lookup[r].slot >= i}
  <2>1. PICK i \in DOMAIN mem.keys :
          /\ Change([mem EXCEPT !.keys = Without(@, i)])
          /\ disturbed' = disturbed \cup Moved(i)
          /\ lookup' = [r \in Requests |->
                          IF r \in Moved(i) /\ lookup[r].slot < Len(mem.keys)
                            THEN [lookup[r] EXCEPT !.sees = mem.keys[lookup[r].slot + 1]]
                            ELSE lookup[r]]
    BY <1>5 DEF RemoveAPIKey
  <2>2. mem'.keys = Without(mem.keys, i) /\ UNCHANGED attached
    BY <1>0, <1>5, <2>1 DEF Change, TypeOK, Accounts, RemoveAPIKey
  <2>3. Len(mem'.keys) = Len(mem.keys) - 1
    BY <1>a, <2>2, WithoutType
  <2> SUFFICES ASSUME NEW r \in Requests
               PROVE  /\ r \in attached' /\ r \notin disturbed'
                           => lookup'[r].slot \in 1..Len(mem'.keys)
                      /\ lookup'[r].sees # lookup'[r].asked => r \in disturbed'
    BY DEF LookupInv, PointerInv, IdentityIsOwn
  <2>4. CASE r \in Moved(i)
    BY <2>1, <2>4
  <2>5. CASE r \notin Moved(i)
    <3>1. lookup'[r] = lookup[r]
      BY <2>1, <2>5
    <3>2. r \in attached => lookup[r].slot < i
      BY <1>a, <1>b, <2>5 DEF Pointers
    <3>3. QED
      BY <1>0, <1>a, <2>1, <2>2, <2>3, <3>1, <3>2 DEF PointerInv, IdentityIsOwn
  <2>6. QED
    BY <2>4, <2>5
<1>6. ASSUME NEW r \in Requests, NEW k \in Keys, FindAPIKey(r, k) PROVE LookupInv'
  <2>1. PICK i \in DOMAIN mem.keys :
          lookup' = [lookup EXCEPT ![r] = [asked |-> k, slot |-> i, sees |-> k]]
    BY <1>6 DEF FindAPIKey
  <2>2. attached' = attached \cup {r} /\ UNCHANGED <<disturbed, mem>>
    BY <1>6 DEF FindAPIKey, store
  <2>3. i \in 1..Len(mem.keys)
    BY <1>a
  <2>4. QED
    BY <1>0, <2>1, <2>2, <2>3 DEF LookupInv, PointerInv, IdentityIsOwn, TypeOK
<1>7. ASSUME NEW r \in Requests, Authenticate(r) PROVE LookupInv'
  BY <1>0, <1>7 DEF Authenticate, NoKey, LookupInv, PointerInv, IdentityIsOwn, TypeOK, store
<1>8. CASE Crash
  BY <1>8 DEF Crash, Forgotten, NoKey, LookupInv, PointerInv, IdentityIsOwn
<1>9. CASE MigrateIfNeeded \/ Watch \/ LoadStat \/ LoadRead \/ LoadFails \/ Edit
           \/ UNCHANGED vars
  <2>1. UNCHANGED <<pointers, mem>>
    BY <1>9 DEF MigrateIfNeeded, Watch, LoadStat, LoadRead, LoadFails, Edit, vars, store
  <2>2. QED
    BY <1>1, <2>1
<1>10. QED
  BY <1>2, <1>3, <1>4, <1>5, <1>6, <1>7, <1>8, <1>9 DEF Next, Administer, Request

-----------------------------------------------------------------------------
\* Type correctness of users.json, its copy in memory and the lookups.
THEOREM TypeCorrect == Spec => []TypeOK
<1>1. DiskInv => TypeOK
  BY DEF DiskInv
<1>2. QED
  BY <1>1, InitInv, NextDisk, PTL DEF Spec

\* However loads, saves and edits interleave, memory that differs from a file which
\* the last save has touched is older than it, so that the watcher loads it again.
THEOREM DivergenceNoticed == Spec => []DivergenceIsNoticed
<1>1. DiskInv => DivergenceIsNoticed
  BY DEF DiskInv
<1>2. QED
  BY <1>1, InitInv, NextDisk, PTL DEF Spec

\* A request reads the record of its own key unless a removal in the same array has
\* passed its pointer.
THEOREM IdentitiesAreOwn == Spec => []IdentityIsOwn
<1>1. LookupInv => IdentityIsOwn
  BY DEF LookupInv
<1>2. QED
  BY <1>1, InitInv, NextDisk, NextLookup, PTL DEF Spec
-----------------------------------------------------------------------------
(* Access, whose clients share nothing with the requests of Accounts. *)

\* Where a request to /api/tokens is.
Handling == [pc : {"idle", "read", "snapshot", "write"},
             kind : {"added", "removed"}, token : Tokens \cup {NoToken},
             snap : SUBSET Tokens, alone : {"yes", "no"}]

\* Only a process that serves has requests under way.
Shape ==
  /\ req \in [Clients -> Handling]
  /\ settled \in [Tokens -> {"no", "added", "removed"}]
  /\ tokens \subseteq Tokens /\ (config = CutOff \/ config \subseteq Tokens)
  /\ \A r \in Clients : req[r].pc # "idle" => serving

\* A change that nothing has overlapped: nobody else is under way, and memory and
\* snapshot are as the change left them.
AloneInv ==
  \A r \in Clients : req[r].alone = "yes" =>
    /\ req[r].pc # "idle"
    /\ \A s \in Clients \ {r} : req[s].pc = "idle"
    /\ (req[r].kind = "added") <=> (req[r].token \in tokens)
    /\ req[r].pc = "write" => req[r].snap = tokens

\* S has the tokens that h says were added, and none that it says were removed.
Respects(h, S) == \A t \in Tokens : /\ h[t] = "added" => t \in S
                                    /\ h[t] = "removed" => t \notin S

\* The settled changes are in memory, in what is about to be written, and in the
\* configuration.
HoldInv ==
  /\ serving => Respects(settled, tokens)
  /\ \A r \in Clients : req[r].pc = "write" => Respects(settled, req[r].snap)
  /\ config # CutOff => Respects(settled, config)

TokenInv == Shape /\ AloneInv /\ HoldInv

LEMMA InitToken == AccessInit => TokenInv
  BY DEF AccessInit, NoRequest, TokenInv, Shape, Handling, AloneInv, HoldInv, Respects

\* A change that begins unsettles its own token and no other, and takes the claim to
\* be alone from whoever it overlaps.
LEMMA BeginInv ==
  ASSUME TokenInv, serving, NEW r \in Clients, NEW kind \in {"added", "removed"}, NEW t \in Tokens,
         req[r].pc = "idle", Begins(r, kind, t), UNCHANGED <<serving, config>>,
         tokens' = IF kind = "added" THEN tokens \cup {t} ELSE tokens \ {t}
  PROVE  TokenInv'
<1>0. Shape /\ HoldInv
  BY DEF TokenInv
<1>a. /\ req \in [Clients -> Handling]
      /\ settled \in [Tokens -> {"no", "added", "removed"}]
  BY <1>0 DEF Shape
<1>1. /\ settled' = [settled EXCEPT ![t] = "no"]
      /\ \A s \in Clients \ {r} : req'[s] = [req[s] EXCEPT !.alone = "no"]
      /\ req'[r] = [pc |-> "read", kind |-> kind, token |-> t, snap |-> {},
                    alone |-> IF Active = {} THEN "yes" ELSE "no"]
  BY DEF Begins
<1>2. Shape'
  BY <1>0 DEF Shape, Handling, Begins
<1>b. \A s \in Clients \ {r} : /\ req'[s].pc = req[s].pc /\ req'[s].snap = req[s].snap
                               /\ req'[s].alone = "no"
  <2> TAKE s \in Clients \ {r}
  <2>1. req[s] \in Handling /\ req'[s] = [req[s] EXCEPT !.alone = "no"]
    BY <1>a, <1>1
  <2>2. QED
    BY <2>1 DEF Handling
<1>3. AloneInv'
  <2> SUFFICES ASSUME NEW s \in Clients, req'[s].alone = "yes"
               PROVE  /\ req'[s].pc # "idle"
                      /\ \A u \in Clients \ {s} : req'[u].pc = "idle"
                      /\ (req'[s].kind = "added") <=> (req'[s].token \in tokens')
                      /\ req'[s].pc = "write" => req'[s].snap = tokens'
    BY DEF AloneInv
  <2>1. s = r
    BY <1>b
  <2>2. Active = {} /\ req'[r].pc = "read" /\ req'[r].kind = kind /\ req'[r].token = t
    BY <1>1, <2>1
  <2>3. \A u \in Clients \ {r} : req'[u].pc = "idle"
    BY <1>b, <2>2 DEF Active
  <2>4. QED
    BY <2>1, <2>2, <2>3
<1>4. ASSUME NEW S, Respects(settled, S)
      PROVE  Respects(settled', S) /\ Respects(settled', S \cup {t}) /\ Respects(settled', S \ {t})
  BY <1>a, <1>1, <1>4 DEF Respects
<1>5. \A s \in Clients : req'[s].pc = "write" => req[s].pc = "write" /\ req'[s].snap = req[s].snap
  BY <1>b, <1>1
<1>6. HoldInv'
  BY <1>0, <1>4, <1>5 DEF HoldInv
<1>7. QED
  BY <1>2, <1>3, <1>6 DEF TokenInv

LEMMA NextToken == TokenInv /\ [AccessNext]_accessVars => TokenInv'
<1> SUFFICES ASSUME TokenInv, [AccessNext]_accessVars PROVE TokenInv'
  OBVIOUS
<1>0. Shape /\ AloneInv /\ HoldInv
  BY DEF TokenInv
<1>a. req \in [Clients -> Handling] /\ (\A r \in Clients : req[r].pc # "idle" => serving)
  BY <1>0 DEF Shape
<1>b. NoRequest \in Handling /\ NoRequest.pc = "idle" /\ NoRequest.alone = "no"
  BY DEF NoRequest, Handling
<1>1. ASSUME NEW r \in Clients, NEW t \in Tokens, AddScopedToken(r, t) PROVE TokenInv'
  BY <1>1, BeginInv DEF AddScopedToken
<1>2. ASSUME NEW r \in Clients, NEW t \in Tokens, RemoveScopedToken(r, t) PROVE TokenInv'
  BY <1>2, BeginInv DEF RemoveScopedToken
<1>3. ASSUME NEW r \in Clients, ReadConfig(r) PROVE TokenInv'
  <2>1. /\ UNCHANGED <<serving, tokens, config, settled>>
        /\ req' = [req EXCEPT ![r].pc = "snapshot"] /\ req[r].pc = "read"
    BY <1>3 DEF ReadConfig
  <2>2. \A s \in Clients : /\ req'[s].pc = IF s = r THEN "snapshot" ELSE req[s].pc
                           /\ req'[s].kind = req[s].kind /\ req'[s].token = req[s].token
                           /\ req'[s].snap = req[s].snap /\ req'[s].alone = req[s].alone
    <3> TAKE s \in Clients
    <3>1. req[s] \in Handling
      BY <1>a
    <3>2. req'[s] = IF s = r THEN [req[s] EXCEPT !.pc = "snapshot"] ELSE req[s]
      BY <1>a, <2>1
    <3>3. QED
      BY <3>1, <3>2 DEF Handling
  <2>3. req' \in [Clients -> Handling]
    BY <1>a, <2>1 DEF Handling
  <2>4. Shape'
    BY <1>0, <2>1, <2>2, <2>3 DEF Shape
  <2>5. AloneInv'
    BY <1>0, <2>1, <2>2 DEF AloneInv
  <2>6. HoldInv'
    BY <1>0, <2>1, <2>2 DEF HoldInv
  <2>7. QED
    BY <2>4, <2>5, <2>6 DEF TokenInv
<1>4. ASSUME NEW r \in Clients, TakeTokens(r) PROVE TokenInv'
  <2>1. /\ UNCHANGED <<serving, tokens, config, settled>>
        /\ req' = [req EXCEPT ![r].pc = "write", ![r].snap = tokens]
        /\ req[r].pc = "snapshot"
    BY <1>4 DEF TakeTokens
  <2>2. \A s \in Clients : /\ req'[s].pc = IF s = r THEN "write" ELSE req[s].pc
                           /\ req'[s].snap = IF s = r THEN tokens ELSE req[s].snap
                           /\ req'[s].kind = req[s].kind /\ req'[s].token = req[s].token
                           /\ req'[s].alone = req[s].alone
    <3> TAKE s \in Clients
    <3>1. req[s] \in Handling
      BY <1>a
    <3>2. req'[s] = IF s = r THEN [req[s] EXCEPT !.pc = "write", !.snap = tokens] ELSE req[s]
      BY <1>a, <2>1
    <3>3. QED
      BY <3>1, <3>2 DEF Handling
  <2>3. req' \in [Clients -> Handling]
    <3>1. tokens \in SUBSET Tokens
      BY <1>0 DEF Shape
    <3>2. [req[r] EXCEPT !.pc = "write", !.snap = tokens] \in Handling
      BY <1>a, <1>4, <3>1 DEF Handling
    <3>3. QED
      BY <1>a, <2>1, <3>2
  <2>4. Shape'
    BY <1>0, <1>a, <1>4, <2>1, <2>2, <2>3 DEF Shape
  <2>5. AloneInv'
    BY <1>0, <1>a, <1>4, <2>1, <2>2 DEF AloneInv
  <2>6. HoldInv'
    BY <1>0, <1>a, <1>4, <2>1, <2>2 DEF HoldInv
  <2>7. QED
    BY <2>4, <2>5, <2>6 DEF TokenInv
<1>5. ASSUME NEW r \in Clients, req' = [req EXCEPT ![r] = NoRequest]
      PROVE  /\ req' \in [Clients -> Handling] /\ req'[r] = NoRequest
             /\ \A s \in Clients \ {r} : req'[s] = req[s]
  BY <1>a, <1>b, <1>5
<1>6. ASSUME NEW r \in Clients, WriteConfig(r) PROVE TokenInv'
  <2>1. /\ UNCHANGED <<serving, tokens>>
        /\ req' = [req EXCEPT ![r] = NoRequest]
        /\ req[r].pc = "write" /\ Settles(r)
        /\ \/ config' = req[r].snap
           \/ config' = CutOff /\ \E s \in Clients \ {r} : req[s].pc = "write"
    BY <1>6 DEF WriteConfig
  <2>2. config' = CutOff \/ config' \subseteq Tokens
    BY <1>a, <1>6, <2>1 DEF Handling
  <2>3. CASE req[r].alone = "no"
    <3>1. settled' = settled
      BY <2>1, <2>3 DEF Settles
    <3>2. Shape'
      BY <1>0, <1>b, <1>5, <1>6, <2>1, <2>2, <3>1 DEF Shape
    <3>3. AloneInv'
      BY <1>0, <1>b, <1>5, <1>6, <2>1 DEF AloneInv
    <3>4. HoldInv'
      BY <1>0, <1>b, <1>5, <1>6, <2>1, <3>1 DEF HoldInv
    <3>5. QED
      BY <3>2, <3>3, <3>4 DEF TokenInv
  <2>4. CASE req[r].alone = "yes"
    <3>1. settled' = [settled EXCEPT ![req[r].token] = req[r].kind]
      BY <2>1, <2>4 DEF Settles
    <3>2. /\ \A s \in Clients \ {r} : req[s].pc = "idle" /\ req[s].alone # "yes"
          /\ (req[r].kind = "added") <=> (req[r].token \in tokens)
          /\ req[r].snap = tokens
      BY <1>0, <1>6, <2>1, <2>4 DEF AloneInv
    <3>3. \A s \in Clients : req'[s].pc = "idle" /\ req'[s].alone # "yes"
      BY <1>b, <1>5, <1>6, <2>1, <3>2
    <3>4. config' = tokens
      BY <2>1, <3>2
    <3>5. req[r].kind \in {"added", "removed"}
      BY <1>a, <1>6 DEF Handling
    <3>6. settled' \in [Tokens -> {"no", "added", "removed"}]
      BY <1>0, <3>1, <3>5 DEF Shape
    <3>7. Respects(settled', tokens)
      <4>1. Respects(settled, tokens) /\ settled \in [Tokens -> {"no", "added", "removed"}]
        BY <1>0, <1>a, <1>6, <2>1 DEF HoldInv, Shape
      <4>2. QED
        BY <3>1, <3>2, <3>5, <4>1 DEF Respects
    <3>8. Shape'
      BY <1>0, <1>5, <1>6, <2>1, <2>2, <3>3, <3>6 DEF Shape
    <3>9. AloneInv' /\ HoldInv'
      BY <2>1, <3>3, <3>4, <3>7 DEF AloneInv, HoldInv
    <3>10. QED
      BY <3>8, <3>9 DEF TokenInv
  <2>5. QED
    BY <1>a, <1>6, <2>3, <2>4 DEF Handling
<1>7. ASSUME NEW r \in Clients, PersistFails(r) PROVE TokenInv'
  <2>1. /\ UNCHANGED <<serving, tokens, settled>> /\ config' \in {config, CutOff}
        /\ req' = [req EXCEPT ![r] = NoRequest]
    BY <1>7 DEF PersistFails
  <2>2. Shape'
    BY <1>0, <1>b, <1>5, <1>7, <2>1 DEF Shape
  <2>3. AloneInv'
    BY <1>0, <1>b, <1>5, <1>7, <2>1 DEF AloneInv
  <2>4. HoldInv'
    BY <1>0, <1>b, <1>5, <1>7, <2>1 DEF HoldInv
  <2>5. QED
    BY <2>2, <2>3, <2>4 DEF TokenInv
<1>8. CASE Stop
  <2>1. /\ UNCHANGED settled /\ config' \in {config, CutOff} /\ tokens' = {}
        /\ serving' = FALSE /\ req' = [r \in Clients |-> NoRequest]
    BY <1>8 DEF Stop
  <2>2. \A r \in Clients : req'[r].pc = "idle" /\ req'[r].alone = "no"
    BY <1>b, <2>1
  <2>3. Shape'
    BY <1>0, <1>b, <2>1, <2>2 DEF Shape
  <2>4. AloneInv' /\ HoldInv'
    BY <1>0, <2>1, <2>2 DEF AloneInv, HoldInv
  <2>5. QED
    BY <2>3, <2>4 DEF TokenInv
<1>9. CASE Start
  <2>1. /\ UNCHANGED <<settled, config, req>> /\ config # CutOff /\ tokens' = config
        /\ ~serving /\ serving' = TRUE
    BY <1>9 DEF Start
  <2>2. \A r \in Clients : req[r].pc = "idle" /\ req[r].alone # "yes"
    BY <1>0, <1>a, <2>1 DEF AloneInv
  <2>3. Shape'
    BY <1>0, <2>1 DEF Shape
  <2>4. AloneInv' /\ HoldInv'
    BY <1>0, <2>1, <2>2 DEF AloneInv, HoldInv
  <2>5. QED
    BY <2>3, <2>4 DEF TokenInv
<1>10. CASE UNCHANGED accessVars
  BY <1>0, <1>10 DEF accessVars, TokenInv, Shape, AloneInv, HoldInv
<1>11. QED
  BY <1>1, <1>2, <1>3, <1>4, <1>6, <1>7, <1>8, <1>9, <1>10
  DEF accessVars, AccessNext, TokenRequest

\* The rest of the state, which no settled change depends on.
RestInv ==
  /\ setting \in {"manager", "telegram", "token", "none", "test"}
  /\ serving \in BOOLEAN /\ given \subseteq Tokens /\ restarts \in Nat

LEMMA InitRest == AccessInit => RestInv
  BY DEF AccessInit, RestInv

LEMMA NextRest == RestInv /\ [AccessNext]_accessVars => RestInv'
<1> SUFFICES ASSUME RestInv, [AccessNext]_accessVars PROVE RestInv'
  OBVIOUS
<1>1. ASSUME NEW r \in Clients, TokenRequest(r) PROVE RestInv'
  BY <1>1 DEF TokenRequest, AddScopedToken, RemoveScopedToken,
              ReadConfig, TakeTokens, WriteConfig,
              PersistFails, RestInv
<1>2. CASE Start
  <2>1. restarts' = restarts + 1 /\ serving' = TRUE /\ UNCHANGED <<setting, given>>
    BY <1>2 DEF Start
  <2>2. restarts' \in Nat
    BY <2>1 DEF RestInv
  <2>3. QED
    BY <2>1, <2>2 DEF RestInv
<1>3. CASE Stop \/ UNCHANGED accessVars
  BY <1>3 DEF Stop, accessVars, RestInv
<1>4. QED
  BY <1>1, <1>2, <1>3 DEF AccessNext, accessVars

-----------------------------------------------------------------------------
\* Type correctness of requests, tokens and configuration.
THEOREM AccessTypeCorrect == AccessSpec => []AccessTypeOK
<1>1. ASSUME TokenInv, RestInv PROVE AccessTypeOK
  <2>1. Shape
    BY <1>1 DEF TokenInv
  <2>2. /\ req \in [Clients -> Handling]
        /\ tokens \subseteq Tokens /\ (config = CutOff \/ config \subseteq Tokens)
        /\ settled \in [Tokens -> {"no", "added", "removed"}]
    BY <2>1 DEF Shape
  <2>3. config \in (SUBSET Tokens) \cup {CutOff}
    BY <2>2
  <2>4. QED
    BY <1>1, <2>2, <2>3 DEF Handling, RestInv, AccessTypeOK
<1>2. QED
  BY <1>1, InitToken, NextToken, InitRest, NextRest, PTL DEF AccessSpec

\* A written change of a token that nothing overlapped holds in memory until the token
\* changes again, whatever fails and however often the process restarts.
THEOREM ChangesHold == AccessSpec => []SettledHolds
<1>1. TokenInv => SettledHolds
  BY DEF TokenInv, HoldInv, Respects, SettledHolds
<1>2. QED
  BY <1>1, InitToken, NextToken, PTL DEF AccessSpec

\* The decision alone keeps them out, whatever the tokens are.
LEMMA NoOwner == KeysAreNotOwners
<1> SUFFICES ASSUME setting \notin {"none", "test"},
                    NEW q \in Queries, LevelOf[q.path] = "owner",
                    IF setting = "manager"
                      THEN q.creds \cap {"session", "telegram"} = {}
                      ELSE q.creds \cap {"telegram", "cookie", "bearer"} = {} /\ q.query # Master
             PROVE  ~Granted(q)
  BY DEF KeysAreNotOwners
<1>1. CASE setting = "manager"
  BY <1>1 DEF Granted, CheckAuthNotScoped, Identity
<1>2. CASE setting # "manager"
  BY <1>2 DEF Granted, CheckAuthNotScoped, Check
<1>3. QED
  BY <1>1, <1>2

\* Keys and scoped tokens do not get to what is kept from them, in no mode.
THEOREM KeysStayOut == AccessSpec => []KeysAreNotOwners
  BY NoOwner, PTL
=============================================================================
