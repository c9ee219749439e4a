-------------------------- MODULE RepoResolveProofs --------------------------
(***************************************************************************)
(* Proofs about RepoResolve, for any number of requests and edits.         *)
(***************************************************************************)
EXTENDS RepoResolve, FiniteSetTheorems, SequenceTheorems, TLAPS

LEMMA EntryOf ==
  ASSUME NEW S \in SUBSET Edits, S # {}, NEW r \in Requests
  PROVE  [edits |-> S, by |-> r] \in Entry
  BY DEF Entry

LEMMA PushKeepsEdits ==
  ASSUME NEW s \in Seq(Entry), NEW e \in Entry
  PROVE  /\ <<e>> \o s \in Seq(Entry)
         /\ e.edits \cup EditsOf(s) \subseteq EditsOf(<<e>> \o s)
<1> DEFINE t == <<e>> \o s
<1>1. t \in Seq(Entry) /\ Len(t) = Len(s) + 1 /\ t[1] = e
  OBVIOUS
<1>2. \A i \in 1..Len(s) : t[i + 1] = s[i]
  OBVIOUS
<1>3. 1 \in DOMAIN t
  BY <1>1
<1>4. \A i \in DOMAIN s : i + 1 \in DOMAIN t
  BY <1>1
<1>5. e.edits \subseteq EditsOf(t)
  BY <1>1, <1>3 DEF EditsOf
<1>6. EditsOf(s) \subseteq EditsOf(t)
  <2> SUFFICES ASSUME NEW i \in DOMAIN s
               PROVE  s[i].edits \subseteq EditsOf(t)
    BY DEF EditsOf
  <2>1. i \in 1..Len(s)
    OBVIOUS
  <2>2. t[i + 1] = s[i]
    BY <1>2, <2>1
  <2> QED BY <1>4, <2>2 DEF EditsOf
<1> QED BY <1>1, <1>5, <1>6

LEMMA PopKeepsEdits ==
  ASSUME NEW s \in Seq(Entry), s # <<>>
  PROVE  /\ Tail(s) \in Seq(Entry)
         /\ Head(s) \in Entry
         /\ EditsOf(s) \subseteq Head(s).edits \cup EditsOf(Tail(s))
<1>1. Len(s) > 0 /\ Tail(s) \in Seq(Entry) /\ Len(Tail(s)) = Len(s) - 1
  OBVIOUS
<1>2. Head(s) = s[1] /\ 1 \in DOMAIN s /\ Head(s) \in Entry
  BY <1>1
<1>3. \A i \in 1..Len(Tail(s)) : Tail(s)[i] = s[i + 1]
  OBVIOUS
<1>4. ASSUME NEW i \in DOMAIN s, i # 1
      PROVE  s[i].edits \subseteq EditsOf(Tail(s))
  <2>1. i \in Nat /\ i >= 2 /\ i - 1 \in 1..Len(Tail(s)) /\ (i - 1) + 1 = i
    BY <1>1, <1>4
  <2>2. Tail(s)[i - 1] = s[i]
    BY <1>3, <2>1
  <2>3. i - 1 \in DOMAIN Tail(s)
    BY <1>1, <2>1
  <2> QED BY <2>2, <2>3 DEF EditsOf
<1>5. \A i \in DOMAIN s : s[i].edits \subseteq Head(s).edits \cup EditsOf(Tail(s))
  BY <1>2, <1>4
<1> QED BY <1>1, <1>2, <1>5 DEF EditsOf

LEMMA CommitsAreNumbers ==
  ASSUME TypeOK
  PROVE  /\ local \in Nat /\ remote \in Nat
         /\ \A r \in Requests : found[r] \in Nat
<1>1. local \in 0..MaxRemote /\ remote \in 0..MaxRemote
  BY Zenon DEF TypeOK
<1>2. found \in [Requests -> 0..MaxRemote]
  BY Zenon DEF TypeOK
<1> QED BY <1>1, <1>2, ResolveAssumption

LEMMA NextCommit ==
  ASSUME NEW n \in 0..MaxRemote, n < MaxRemote
  PROVE  n + 1 \in 0..MaxRemote
  BY ResolveAssumption

-----------------------------------------------------------------------------
(* No edit is lost *)

\* Someone merging by hand must find the entry whose pop conflicted.
ConflictHasEntry == conflicted => stash # <<>>

EditInv == TypeOK /\ ConflictHasEntry /\ NoEditLost

LEMMA EditInvInit == Init => EditInv
<1> SUFFICES ASSUME Init PROVE EditInv
  OBVIOUS
<1>1. stash = <<>> /\ <<>> \in Seq(Entry)
  BY DEF Init
<1>2. TypeOK
  <2>1. local \in 0..MaxRemote /\ remote \in 0..MaxRemote
        /\ found \in [Requests -> 0..MaxRemote]
    BY ResolveAssumption DEF Init
  <2>2. kind \in [Requests -> Kinds] /\ entry \in [Requests -> SUBSET Edits]
    BY DEF Init, Kinds
  <2>3. /\ pc \in [Requests -> {"new", "push", "pull", "pop", "done"}]
        /\ outcome \in [Requests -> {"none", "ok", "stash failed", "pull failed",
                                     "pop failed"}]
    BY DEF Init
  <2>4. /\ made \subseteq Edits /\ dirty \subseteq Edits
        /\ stashed \subseteq Requests /\ pulled \subseteq Requests
        /\ conflicted \in BOOLEAN
    BY DEF Init
  <2> QED BY <1>1, <2>1, <2>2, <2>3, <2>4 DEF TypeOK
<1>3. ConflictHasEntry /\ NoEditLost
  BY DEF Init, ConflictHasEntry, NoEditLost
<1> QED BY <1>2, <1>3 DEF EditInv

LEMMA EditInvStep == EditInv /\ [Next]_vars => EditInv'
<1> SUFFICES ASSUME EditInv, [Next]_vars
             PROVE  EditInv'
  OBVIOUS
<1> USE ResolveAssumption DEF EditInv, ConflictHasEntry, NoEditLost
<1>1. ASSUME NEW e \in Edits, Edit(e) PROVE EditInv'
  BY <1>1 DEF Edit, TypeOK, requestVars
<1>2. CASE RemoteAdvances
  <2>1. remote \in 0..MaxRemote
    BY DEF TypeOK
  <2>2. remote' \in 0..MaxRemote
    BY <1>2, <2>1, NextCommit DEF RemoteAdvances
  <2> QED BY <1>2, <2>2 DEF RemoteAdvances, TypeOK, requestVars
<1>3. CASE ResolveConflict
  <2>1. Head(stash).edits \subseteq Edits
    BY <1>3, PopKeepsEdits DEF ResolveConflict, TypeOK, Entry
  <2> QED BY <1>3, <2>1, PopKeepsEdits DEF ResolveConflict, TypeOK, requestVars
<1>4. ASSUME NEW r \in Requests, Step(r) PROVE EditInv'
  <2>1. CASE Begin(r)
    BY <2>1 DEF Begin, TypeOK, repoVars
  <2>2. CASE StashPush(r)
    <3>1. CASE dirty = {}
      BY <2>2, <3>1 DEF StashPush, TypeOK
    <3>2. CASE dirty # {}
      <4> DEFINE e == [edits |-> dirty, by |-> r]
      <4> dirty \in SUBSET Edits
        BY DEF TypeOK
      <4>1. e \in Entry /\ e.edits = dirty
        BY <3>2, EntryOf
      <4>2. stash' = <<e>> \o stash /\ conflicted' = FALSE /\ dirty' = {} /\ made' = made
        BY <2>2, <3>2 DEF StashPush, TypeOK
      <4>3. stash' \in Seq(Entry) /\ dirty \cup EditsOf(stash) \subseteq EditsOf(stash')
        BY <4>1, <4>2, PushKeepsEdits DEF TypeOK
      <4>4. TypeOK'
        BY <2>2, <4>3 DEF StashPush, TypeOK
      <4> QED BY <4>2, <4>3, <4>4
    <3> QED BY <3>1, <3>2
  <2>3. CASE StashPushFails(r)
    BY <2>3 DEF StashPushFails, Return, TypeOK, repoVars
  <2>4. CASE Pull(r)
    <3>1. TypeOK'
      BY <2>4 DEF Pull, Return, TypeOK
    <3> QED BY <2>4, <3>1 DEF Pull
  <2>5. CASE StashPop(r)
    <3>1. stash \in Seq(Entry) /\ stash # <<>>
      BY <2>5 DEF StashPop, TypeOK
    <3>2. Head(stash).edits \subseteq Edits
      BY <3>1, PopKeepsEdits DEF Entry
    <3>3. AfterPop(r, TRUE) \in {"ok", "pull failed", "pop failed"}
      BY DEF AfterPop
    <3>4. TypeOK'
      BY <2>5, <3>1, <3>2, <3>3, PopKeepsEdits DEF StashPop, Return, TypeOK
    <3> QED BY <2>5, <3>1, <3>4, PopKeepsEdits DEF StashPop
  <2>6. CASE StashPopFails(r)
    <3>1. AfterPop(r, FALSE) \in {"ok", "pull failed", "pop failed"}
      BY DEF AfterPop
    <3>2. TypeOK'
      BY <2>6, <3>1 DEF StashPopFails, Return, TypeOK
    <3> QED BY <2>6, <3>2 DEF StashPopFails
  <2> QED BY <1>4, <2>1, <2>2, <2>3, <2>4, <2>5, <2>6 DEF Step
<1>5. CASE UNCHANGED vars
  BY <1>5 DEF vars, repoVars, requestVars, TypeOK
<1> QED BY <1>1, <1>2, <1>3, <1>4, <1>5 DEF Next

LEMMA EditInvHolds == Spec => []EditInv
  BY EditInvInit, EditInvStep, PTL DEF Spec

\* Every reachable state is well typed, the stash and its entries included.
THEOREM TypeCorrect == Spec => []TypeOK
<1>1. EditInv => TypeOK
  BY DEF EditInv
<1> QED BY <1>1, EditInvHolds, PTL

\* However requests interleave and whichever of their commands fail, no edit is
\* lost: every one is in the working tree or in the stash.
THEOREM EditsSurvive == Spec => []NoEditLost
<1>1. EditInv => NoEditLost
  BY DEF EditInv
<1> QED BY <1>1, EditInvHolds, PTL

-----------------------------------------------------------------------------
(* What "ok" means *)

\* The checked-out commit never gets ahead of the origin, and a request that has
\* pulled left it at or after the commit the origin had when it began.
PulledFar ==
  /\ local <= remote
  /\ \A r \in Requests : found[r] <= remote
  /\ \A r \in pulled : found[r] <= local
  /\ \A r \in Requests : pc[r] = "new" => r \notin pulled
  /\ \A r \in Requests : outcome[r] = "ok" => r \in pulled

LEMMA PulledFarInit == Init => PulledFar
  BY DEF Init, PulledFar

LEMMA PulledFarStep == TypeOK /\ TypeOK' /\ PulledFar /\ [Next]_vars => PulledFar'
<1> SUFFICES ASSUME TypeOK, TypeOK', PulledFar, [Next]_vars
             PROVE  PulledFar'
  OBVIOUS
<1> USE ResolveAssumption DEF PulledFar
<1>1. ASSUME NEW e \in Edits, Edit(e) PROVE PulledFar'
  BY <1>1 DEF Edit, requestVars
<1> /\ local \in Nat /\ remote \in Nat
    /\ \A r \in Requests : found[r] \in Nat
    /\ pulled \subseteq Requests
  BY CommitsAreNumbers DEF TypeOK
<1>2. CASE RemoteAdvances
  BY <1>2 DEF RemoteAdvances, requestVars
<1>3. CASE ResolveConflict
  BY <1>3 DEF ResolveConflict, requestVars
<1>4. ASSUME NEW r \in Requests, Step(r) PROVE PulledFar'
  <2>1. CASE Begin(r)
    <3>1. found' = [found EXCEPT ![r] = remote] /\ pc[r] = "new"
          /\ UNCHANGED <<local, remote, pulled, outcome>>
      BY <2>1 DEF Begin, repoVars
    <3>2. \A q \in Requests : found'[q] \in {found[q], remote}
      BY <3>1 DEF TypeOK
    <3>3. \A q \in pulled : found'[q] = found[q]
      BY <3>1 DEF TypeOK
    <3>4. \A q \in Requests : pc'[q] = "new" => pc[q] = "new"
      BY <2>1 DEF Begin, TypeOK
    <3> QED BY <3>1, <3>2, <3>3, <3>4
  <2>2. CASE StashPush(r)
    BY <2>2 DEF StashPush, TypeOK
  <2>3. CASE StashPushFails(r)
    BY <2>3 DEF StashPushFails, Return, TypeOK, repoVars
  <2>4. CASE Pull(r)
    <3>1. PICK ok \in BOOLEAN :
            /\ local' = IF ok THEN remote ELSE local
            /\ pulled' = IF ok THEN pulled \cup {r} ELSE pulled
            /\ IF PopsAfter(r, ok)
                 THEN pc' = [pc EXCEPT ![r] = "pop"] /\ UNCHANGED outcome
                 ELSE Return(r, IF ok THEN "ok" ELSE "pull failed")
      BY <2>4 DEF Pull
    <3>2. remote' = remote /\ found' = found
      BY <2>4 DEF Pull
    <3>3. \A q \in Requests : pc'[q] = "new" => pc[q] = "new" /\ q # r
      BY <3>1 DEF Return, TypeOK
    <3>4. \A q \in Requests : outcome'[q] = "ok" => outcome[q] = "ok" \/ (q = r /\ ok)
      BY <3>1 DEF Return, TypeOK
    <3>5. local' = remote \/ (local' = local /\ pulled' = pulled)
      BY <3>1, Zenon
    <3>6. local' <= remote' /\ \A q \in Requests : found'[q] <= remote'
      BY <3>2, <3>5
    <3>7. pulled' \subseteq Requests
      BY <3>1
    <3>8. \A q \in pulled' : found'[q] <= local'
      BY <3>2, <3>5, <3>7
    <3>9. \A q \in Requests : q \in pulled' => q \in pulled \/ q = r
      BY <3>1, Zenon
    <3>10. pulled \subseteq pulled' /\ (ok => r \in pulled')
      BY <3>1, Zenon
    <3> QED BY <3>3, <3>4, <3>6, <3>8, <3>9, <3>10
  <2>5. CASE StashPop(r)
    <3>1. AfterPop(r, TRUE) = "ok" => r \in pulled
      BY DEF AfterPop
    <3> QED BY <2>5, <3>1 DEF StashPop, Return, TypeOK
  <2>6. CASE StashPopFails(r)
    <3>1. AfterPop(r, FALSE) = "ok" => r \in pulled
      BY DEF AfterPop
    <3> QED BY <2>6, <3>1 DEF StashPopFails, Return, TypeOK
  <2> QED BY <1>4, <2>1, <2>2, <2>3, <2>4, <2>5, <2>6 DEF Step
<1>5. CASE UNCHANGED vars
  BY <1>5 DEF vars, repoVars, requestVars
<1> QED BY <1>1, <1>2, <1>3, <1>4, <1>5 DEF Next

\* A request that answers "ok" has the repository at the origin's commit of the
\* moment it began, or a later one: a failed pull is never reported as success.
THEOREM SuccessHasPulled == Spec => []OkMeansPulled
<1>1. TypeOK /\ PulledFar => OkMeansPulled
  BY DEF PulledFar, OkMeansPulled
<1> QED BY <1>1, TypeCorrect, PulledFarInit, PulledFarStep, PTL DEF Spec

-----------------------------------------------------------------------------
(* What is in the stash when all has gone well *)

\* The requests that still have a pop to make, if they are stash-pulls.
Pending == {r \in Requests : pc[r] \in {"pull", "pop"}}

\* Nothing but stash-pulls has begun, and none has failed so far.
Smooth ==
  \A r \in Requests : \/ pc[r] = "new"
                      \/ kind[r] = "stash-pull" /\ outcome[r] \in {"none", "ok"}

\* Only edits that were made are anywhere; only what is done has an outcome; and
\* while all goes well there are at least as many pops to come as entries.
PopInv ==
  /\ dirty \cup EditsOf(stash) \subseteq made
  /\ \A r \in Requests : outcome[r] = "none" <=> pc[r] # "done"
  /\ IsFiniteSet(Pending)
  /\ Smooth => ~conflicted /\ Len(stash) <= Cardinality(Pending)

LEMMA PushAddsNoOthers ==
  ASSUME NEW s \in Seq(Entry), NEW e \in Entry
  PROVE  /\ EditsOf(<<e>> \o s) \subseteq e.edits \cup EditsOf(s)
         /\ Len(<<e>> \o s) = Len(s) + 1
<1> DEFINE t == <<e>> \o s
<1>1. Len(t) = Len(s) + 1 /\ Len(s) \in Nat /\ DOMAIN t = 1..(Len(s) + 1)
  OBVIOUS
<1>2. \A i \in DOMAIN t : t[i] = IF i = 1 THEN e ELSE s[i - 1]
  OBVIOUS
<1>3. \A i \in DOMAIN t : i # 1 => i - 1 \in DOMAIN s
  BY <1>1
<1>4. \A i \in DOMAIN t : t[i].edits \subseteq e.edits \cup EditsOf(s)
  <2> SUFFICES ASSUME NEW i \in DOMAIN t
               PROVE  t[i].edits \subseteq e.edits \cup EditsOf(s)
    OBVIOUS
  <2>1. CASE i = 1
    BY <2>1, <1>2
  <2>2. CASE i # 1
    <3>1. t[i] = s[i - 1] /\ i - 1 \in DOMAIN s
      BY <2>2, <1>2, <1>3
    <3> QED BY <3>1 DEF EditsOf
  <2> QED BY <2>1, <2>2
<1> QED BY <1>1, <1>4 DEF EditsOf

LEMMA PopTakesNoOthers ==
  ASSUME NEW s \in Seq(Entry), s # <<>>
  PROVE  /\ Head(s).edits \cup EditsOf(Tail(s)) \subseteq EditsOf(s)
         /\ Len(Tail(s)) = Len(s) - 1 /\ Len(s) \in Nat
<1>1. Len(s) > 0 /\ Len(Tail(s)) = Len(s) - 1 /\ Head(s) = s[1] /\ 1 \in DOMAIN s
  OBVIOUS
<1>2. \A i \in 1..Len(Tail(s)) : Tail(s)[i] = s[i + 1] /\ i + 1 \in DOMAIN s
  BY <1>1
<1>3. DOMAIN Tail(s) = 1..Len(Tail(s))
  BY <1>1
<1>4. Head(s).edits \subseteq EditsOf(s)
  BY <1>1 DEF EditsOf
<1>5. ASSUME NEW i \in DOMAIN Tail(s) PROVE Tail(s)[i].edits \subseteq EditsOf(s)
  <2>1. Tail(s)[i] = s[i + 1] /\ i + 1 \in DOMAIN s
    BY <1>2, <1>3
  <2> QED BY <2>1 DEF EditsOf
<1> QED BY <1>1, <1>4, <1>5 DEF EditsOf

LEMMA PopInvInit == Init => PopInv
<1> SUFFICES ASSUME Init PROVE PopInv
  OBVIOUS
<1>1. stash = <<>> /\ EditsOf(stash) = {} /\ Len(stash) = 0
  BY DEF Init, EditsOf
<1>2. Pending = {}
  BY DEF Init, Pending
<1>3. /\ dirty = {} /\ made = {} /\ conflicted = FALSE
      /\ \A r \in Requests : outcome[r] = "none" /\ pc[r] = "new"
  BY DEF Init
<1> QED BY <1>1, <1>2, <1>3, FS_EmptySet DEF PopInv

\* How a step of one request moves it in and out of Pending.
LEMMA PendingMoves ==
  ASSUME TypeOK, NEW r \in Requests, NEW p, pc' = [pc EXCEPT ![r] = p], IsFiniteSet(Pending)
  PROVE  /\ IsFiniteSet(Pending')
         /\ Cardinality(Pending) \in Nat /\ Cardinality(Pending') \in Nat
         /\ p \in {"pull", "pop"} /\ r \notin Pending
              => Cardinality(Pending') = Cardinality(Pending) + 1
         /\ p \in {"pull", "pop"} /\ r \in Pending => Cardinality(Pending') = Cardinality(Pending)
         /\ p = "done" /\ r \in Pending => Cardinality(Pending') = Cardinality(Pending) - 1
<1>1. pc \in [Requests -> {"new", "push", "pull", "pop", "done"}]
  BY DEF TypeOK
<1>2. /\ IsFiniteSet(Pending \cup {r})
      /\ Cardinality(Pending \cup {r})
           = IF r \in Pending THEN Cardinality(Pending) ELSE Cardinality(Pending) + 1
  BY FS_AddElement
<1>3. /\ IsFiniteSet(Pending \ {r})
      /\ Cardinality(Pending \ {r})
           = IF r \in Pending THEN Cardinality(Pending) - 1 ELSE Cardinality(Pending)
  BY FS_RemoveElement
<1>4. Pending' = IF p \in {"pull", "pop"} THEN Pending \cup {r} ELSE Pending \ {r}
  BY <1>1 DEF Pending
<1>5. IsFiniteSet(Pending')
  BY <1>2, <1>3, <1>4
<1>6. Cardinality(Pending) \in Nat /\ Cardinality(Pending') \in Nat
  BY <1>5, FS_CardinalityType
<1> QED BY <1>2, <1>3, <1>4, <1>5, <1>6

\* A request that is not new stays what it is, and one that is not done has no outcome.
LEMMA SmoothBefore ==
  ASSUME TypeOK, PopInv, NEW r \in Requests, pc[r] # "done", Smooth',
         \A q \in Requests \ {r} : UNCHANGED <<pc[q], kind[q], outcome[q]>>,
         pc[r] # "new" => pc'[r] # "new" /\ kind'[r] = kind[r]
  PROVE  Smooth
<1>1. \A q \in Requests \ {r} : \/ pc[q] = "new"
                                \/ kind[q] = "stash-pull" /\ outcome[q] \in {"none", "ok"}
  BY DEF Smooth
<1>2. pc[r] # "new" => kind[r] = "stash-pull" /\ outcome[r] = "none"
  BY DEF Smooth, PopInv
<1> QED BY <1>1, <1>2 DEF Smooth

LEMMA PopInvStep == EditInv /\ PopInv /\ [Next]_vars => PopInv'
<1> SUFFICES ASSUME EditInv, PopInv, [Next]_vars PROVE PopInv'
  OBVIOUS
<1>a. /\ TypeOK /\ stash \in Seq(Entry) /\ Len(stash) \in Nat
      /\ IsFiniteSet(Pending) /\ dirty \cup EditsOf(stash) \subseteq made
  BY Zenon, LenProperties DEF EditInv, TypeOK, PopInv
<1>0. /\ TypeOK /\ stash \in Seq(Entry) /\ Len(stash) \in Nat
      /\ IsFiniteSet(Pending) /\ Cardinality(Pending) \in Nat
      /\ dirty \cup EditsOf(stash) \subseteq made
  BY <1>a, FS_CardinalityType
<1>1. ASSUME NEW e \in Edits, Edit(e) PROVE PopInv'
  <2>1. /\ UNCHANGED <<stash, conflicted, requestVars, Pending, Smooth>>
        /\ EditsOf(stash)' = EditsOf(stash)
    BY <1>1 DEF Edit, requestVars, Pending, Smooth, EditsOf
  <2>2. dirty' \cup EditsOf(stash)' \subseteq made'
    BY <1>0, <1>1, <2>1 DEF Edit
  <2> QED BY <2>1, <2>2 DEF PopInv, requestVars
<1>2. CASE RemoteAdvances
  BY <1>2 DEF RemoteAdvances, requestVars, PopInv, Pending, Smooth
<1>3. CASE ResolveConflict
  <2>1. stash # <<>> /\ conflicted
    BY <1>3 DEF ResolveConflict, EditInv, ConflictHasEntry
  <2>2. ~Smooth /\ UNCHANGED requestVars
    BY <1>3, <2>1 DEF PopInv, ResolveConflict
  <2>3. UNCHANGED <<Pending, Smooth>>
    BY <2>2 DEF requestVars, Pending, Smooth
  <2>4. dirty' \cup EditsOf(stash') \subseteq made'
    BY <1>0, <1>3, <2>1, PopTakesNoOthers DEF ResolveConflict
  <2> QED BY <1>0, <2>2, <2>3, <2>4 DEF PopInv, requestVars, EditsOf
<1>4. ASSUME NEW r \in Requests, Step(r) PROVE PopInv'
  <2>0. /\ pc \in [Requests -> {"new", "push", "pull", "pop", "done"}]
        /\ kind \in [Requests -> Kinds] /\ stash \in Seq(Entry) /\ dirty \in SUBSET Edits
        /\ outcome \in [Requests -> {"none", "ok", "stash failed", "pull failed", "pop failed"}]
    BY <1>0 DEF TypeOK
  <2>a. /\ \A q \in Requests : outcome[q] = "none" <=> pc[q] # "done"
        /\ Smooth => ~conflicted /\ Len(stash) <= Cardinality(Pending)
    BY DEF PopInv
  <2>1. CASE Begin(r)
    <3>1. PICK k \in Kinds :
            /\ kind' = [kind EXCEPT ![r] = k]
            /\ pc' = [pc EXCEPT ![r] = IF k = "deploy" /\ dirty = {} /\ ~conflicted
                                         THEN "pull" ELSE "push"]
      BY <2>1 DEF Begin
    <3>2. pc[r] = "new" /\ UNCHANGED <<made, dirty, stash, conflicted, outcome>>
      BY <2>1 DEF Begin, repoVars
    <3>3. \A q \in Requests \ {r} : UNCHANGED <<pc[q], kind[q], outcome[q]>>
      BY <2>0, <3>1, <3>2
    <3>4. pc'[r] \in {"pull", "push"} /\ outcome'[r] = "none"
      BY <2>0, <2>a, <3>1, <3>2
    <3>5. IsFiniteSet(Pending') /\ Cardinality(Pending') >= Cardinality(Pending)
      <4>1. r \notin Pending
        BY <3>2 DEF Pending
      <4>2. CASE k = "deploy" /\ dirty = {} /\ ~conflicted
        <5>1. pc' = [pc EXCEPT ![r] = "pull"]
          BY <3>1, <4>2
        <5>2. IsFiniteSet(Pending') /\ Cardinality(Pending') = Cardinality(Pending) + 1
          BY <1>0, <4>1, <5>1, PendingMoves
        <5> QED BY <1>0, <5>2
      <4>3. CASE ~(k = "deploy" /\ dirty = {} /\ ~conflicted)
        <5>1. pc' = [pc EXCEPT ![r] = "push"]
          BY <3>1, <4>3
        <5>2. Pending' = Pending
          BY <2>0, <4>1, <5>1 DEF Pending
        <5> QED BY <1>0, <5>2
      <4> QED BY <4>2, <4>3
    <3>6. Smooth' => Smooth
      BY <1>0, <3>2, <3>3, SmoothBefore
    <3>7. Cardinality(Pending') \in Nat
      BY <3>5, FS_CardinalityType
    <3>8. EditsOf(stash)' = EditsOf(stash)
      BY <3>2 DEF EditsOf
    <3>9. \A q \in Requests : outcome'[q] = "none" <=> pc'[q] # "done"
      BY <2>a, <3>3, <3>4
    <3> QED BY <1>0, <2>a, <3>2, <3>5, <3>6, <3>7, <3>8, <3>9 DEF PopInv
  <2>2. CASE StashPush(r)
    <3>1. /\ pc[r] = "push" /\ ~conflicted /\ pc' = [pc EXCEPT ![r] = "pull"]
          /\ dirty' = {} /\ UNCHANGED <<made, conflicted, kind, outcome>>
          /\ stash' = IF dirty = {} THEN stash ELSE <<[edits |-> dirty, by |-> r]>> \o stash
      BY <2>2 DEF StashPush
    <3>2. EditsOf(stash') \subseteq made' /\ Len(stash') <= Len(stash) + 1 /\ Len(stash') \in Nat
      <4>1. CASE dirty = {}
        BY <1>0, <3>1, <4>1
      <4>2. CASE dirty # {}
        <5>1. [edits |-> dirty, by |-> r] \in Entry
          BY <2>0, <4>2, EntryOf
        <5> QED BY <1>0, <3>1, <4>2, <5>1, PushAddsNoOthers
      <4> QED BY <4>1, <4>2
    <3>3. r \notin Pending
      BY <3>1 DEF Pending
    <3>4. IsFiniteSet(Pending') /\ Cardinality(Pending') = Cardinality(Pending) + 1
      BY <1>0, <3>1, <3>3, PendingMoves
    <3>5. \A q \in Requests \ {r} : UNCHANGED <<pc[q], kind[q], outcome[q]>>
      BY <2>0, <3>1
    <3>6. Smooth' => Smooth
      BY <1>0, <2>0, <3>1, <3>5, SmoothBefore
    <3>7. \A q \in Requests : outcome'[q] = "none" <=> pc'[q] # "done"
      BY <2>0, <2>a, <3>1
    <3> QED BY <1>0, <2>a, <3>1, <3>2, <3>4, <3>6, <3>7 DEF PopInv, EditsOf
  <2>3. CASE StashPushFails(r)
    <3>1. /\ pc[r] = "push" /\ pc' = [pc EXCEPT ![r] = "done"]
          /\ outcome' = [outcome EXCEPT ![r] = "stash failed"]
          /\ UNCHANGED <<made, dirty, stash, conflicted, kind>>
      BY <2>3 DEF StashPushFails, Return, repoVars
    <3>2. pc'[r] = "done" /\ outcome'[r] = "stash failed"
      BY <2>0, <3>1
    <3>3. ~Smooth'
      BY <3>2 DEF Smooth
    <3>4. IsFiniteSet(Pending')
      BY <1>0, <3>1, PendingMoves
    <3>5. \A q \in Requests : outcome'[q] = "none" <=> pc'[q] # "done"
      BY <2>0, <2>a, <3>1
    <3> QED BY <1>0, <3>1, <3>3, <3>4, <3>5 DEF PopInv, EditsOf
  <2>4. CASE Pull(r)
    <3>1. PICK ok \in BOOLEAN :
            IF PopsAfter(r, ok)
              THEN pc' = [pc EXCEPT ![r] = "pop"] /\ UNCHANGED outcome
              ELSE Return(r, IF ok THEN "ok" ELSE "pull failed")
      BY <2>4 DEF Pull
    <3>2. pc[r] = "pull" /\ UNCHANGED <<made, dirty, stash, conflicted, kind>>
      BY <2>4 DEF Pull
    <3>3. r \in Pending
      BY <3>2 DEF Pending
    <3>4. CASE PopsAfter(r, ok)
      <4>1. pc' = [pc EXCEPT ![r] = "pop"] /\ UNCHANGED outcome
        BY <3>1, <3>4
      <4>2. IsFiniteSet(Pending') /\ Cardinality(Pending') = Cardinality(Pending)
        BY <1>0, <3>3, <4>1, PendingMoves
      <4>3. \A q \in Requests \ {r} : UNCHANGED <<pc[q], kind[q], outcome[q]>>
        BY <2>0, <3>2, <4>1
      <4>4. Smooth' => Smooth
        BY <1>0, <2>0, <3>2, <4>1, <4>3, SmoothBefore
      <4>5. \A q \in Requests : outcome'[q] = "none" <=> pc'[q] # "done"
        BY <2>0, <2>a, <3>2, <4>1
      <4> QED BY <1>0, <2>a, <3>2, <4>2, <4>4, <4>5 DEF PopInv, EditsOf
    <3>5. CASE ~PopsAfter(r, ok)
      <4>1. /\ pc' = [pc EXCEPT ![r] = "done"]
            /\ outcome' = [outcome EXCEPT ![r] = IF ok THEN "ok" ELSE "pull failed"]
        BY <3>1, <3>5 DEF Return
      <4>2. kind'[r] # "stash-pull" /\ pc'[r] = "done"
        BY <2>0, <3>2, <3>5, <4>1 DEF PopsAfter
      <4>3. ~Smooth'
        BY <4>2 DEF Smooth
      <4>4. IsFiniteSet(Pending')
        BY <1>0, <4>1, PendingMoves
      <4>5. \A q \in Requests : outcome'[q] = "none" <=> pc'[q] # "done"
        BY <2>0, <2>a, <4>1
      <4> QED BY <1>0, <3>2, <4>3, <4>4, <4>5 DEF PopInv, EditsOf
    <3> QED BY <3>4, <3>5
  <2>5. CASE StashPop(r)
    <3>1. /\ pc[r] = "pop" /\ stash # <<>> /\ ~conflicted
          /\ stash' = Tail(stash) /\ dirty' = dirty \cup Head(stash).edits
          /\ pc' = [pc EXCEPT ![r] = "done"]
          /\ outcome' = [outcome EXCEPT ![r] = AfterPop(r, TRUE)]
          /\ UNCHANGED <<made, conflicted, kind>>
      BY <2>5 DEF StashPop, Return
    <3>2. dirty' \cup EditsOf(stash') \subseteq made' /\ Len(stash') = Len(stash) - 1
      BY <1>0, <3>1, PopTakesNoOthers
    <3>3. r \in Pending
      BY <3>1 DEF Pending
    <3>4. IsFiniteSet(Pending') /\ Cardinality(Pending') = Cardinality(Pending) - 1
      BY <1>0, <3>1, <3>3, PendingMoves
    <3>5. \A q \in Requests \ {r} : UNCHANGED <<pc[q], kind[q], outcome[q]>>
      BY <2>0, <3>1
    <3>6. Smooth' => Smooth
      BY <1>0, <2>0, <3>1, <3>5, SmoothBefore
    <3>7. \A q \in Requests : outcome'[q] = "none" <=> pc'[q] # "done"
      BY <2>0, <2>a, <3>1 DEF AfterPop
    <3>8. Smooth' => Len(stash') <= Cardinality(Pending')
      BY <1>0, <2>a, <3>2, <3>4, <3>6
    <3> QED BY <3>1, <3>2, <3>4, <3>7, <3>8 DEF PopInv, EditsOf
  <2>6. CASE StashPopFails(r)
    <3>1. /\ pc[r] = "pop" /\ pc' = [pc EXCEPT ![r] = "done"]
          /\ outcome' = [outcome EXCEPT ![r] = AfterPop(r, FALSE)]
          /\ UNCHANGED <<made, dirty, stash, kind>>
      BY <2>6 DEF StashPopFails, Return
    <3>2. ~Smooth'
      <4>1. pc'[r] = "done" /\ outcome'[r] = AfterPop(r, FALSE) /\ kind'[r] = kind[r]
        BY <2>0, <3>1
      <4>2. kind[r] = "stash-pull" => AfterPop(r, FALSE) \in {"pull failed", "pop failed"}
        BY DEF AfterPop
      <4> QED BY <4>1, <4>2 DEF Smooth
    <3>3. IsFiniteSet(Pending')
      BY <1>0, <3>1, PendingMoves
    <3>4. \A q \in Requests : outcome'[q] = "none" <=> pc'[q] # "done"
      BY <2>0, <2>a, <3>1 DEF AfterPop
    <3> QED BY <1>0, <3>1, <3>2, <3>3, <3>4 DEF PopInv, EditsOf
  <2> QED BY <1>4, <2>1, <2>2, <2>3, <2>4, <2>5, <2>6 DEF Step
<1>5. CASE UNCHANGED vars
  BY <1>5 DEF vars, repoVars, requestVars, PopInv, Pending, Smooth, EditsOf
<1> QED BY <1>1, <1>2, <1>3, <1>4, <1>5 DEF Next

\* When every request that began was a stash-pull and succeeded, every edit is back
\* in the working tree, for any number of requests that popped each other's entries.
THEOREM EverythingIsBack == Spec => []AllBack
<1>1. EditInv /\ PopInv => AllBack
  <2> SUFFICES ASSUME EditInv, PopInv,
                      \A r \in Requests : \/ pc[r] = "new"
                                          \/ outcome[r] = "ok" /\ kind[r] = "stash-pull"
               PROVE  dirty = made
    BY DEF AllBack
  <2>1. Smooth
    BY DEF Smooth
  <2>2. Pending = {}
    BY DEF Pending, PopInv
  <2>3. stash \in Seq(Entry) /\ Len(stash) <= 0
    BY <2>1, <2>2, FS_EmptySet DEF PopInv, EditInv, TypeOK
  <2>4. EditsOf(stash) = {}
    BY <2>3 DEF EditsOf
  <2> QED BY <2>4 DEF EditInv, NoEditLost, PopInv
<1> QED BY <1>1, EditInvHolds, PopInvInit, PopInvStep, PTL DEF Spec
=============================================================================
