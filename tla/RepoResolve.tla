----------------------------- MODULE RepoResolve -----------------------------
(***************************************************************************)
(* Pulling a repository that has local changes: the "stash-pull" and       *)
(* "stash-drop-pull" actions of /api/updates/resolve                       *)
(* (internal/data/updates.go) and safe_git_pull of the deploy script       *)
(* (sdk/vel/deploy.sh).  Each runs several git commands, one after the     *)
(* other, on a repository that others may be working on.                   *)
(*                                                                         *)
(* A local change is an edit; the stash is a sequence of entries, newest   *)
(* first.  What the git commands do is modelled from git.                  *)
(***************************************************************************)
EXTENDS Naturals, Sequences

CONSTANTS Edits,     \* local changes somebody makes to tracked files
          Requests,  \* resolve requests and runs of the deploy script
          MaxRemote  \* commits that appear at the origin

Kinds == {"stash-pull", "stash-drop-pull", "deploy"}

ASSUME ResolveAssumption == MaxRemote \in Nat

VARIABLES
  made,       \* edits made so far
  dirty,      \* edits in the working tree
  stash,      \* git stash list
  conflicted, \* the working tree has unmerged files
  local,      \* the commit checked out
  remote,     \* the commit at the origin
  pc,         \* where each request is
  kind,       \* what each request is: one of Kinds, chosen as it begins
  entry,      \* the edits each request's stash push moved to the stash
  stashed,    \* requests whose stash push succeeded
  found,      \* the commit at the origin when the request began
  pulled,     \* requests whose pull succeeded
  outcome

repoVars == <<made, dirty, stash, conflicted, local, remote>>
requestVars == <<pc, kind, entry, stashed, found, pulled, outcome>>
vars == <<repoVars, requestVars>>

Entry == [edits : (SUBSET Edits) \ {{}}, by : Requests]
EditsOf(s) == UNION {s[i].edits : i \in DOMAIN s}

TypeOK ==
  /\ made \subseteq Edits
  /\ dirty \subseteq Edits
  /\ stash \in Seq(Entry)
  /\ conflicted \in BOOLEAN
  /\ local \in 0..MaxRemote
  /\ remote \in 0..MaxRemote
  /\ pc \in [Requests -> {"new", "push", "pull", "pop", "done"}]
  /\ kind \in [Requests -> Kinds]
  /\ entry \in [Requests -> SUBSET Edits]
  /\ stashed \subseteq Requests
  /\ found \in [Requests -> 0..MaxRemote]
  /\ pulled \subseteq Requests
  /\ outcome \in [Requests -> {"none", "ok", "stash failed", "pull failed",
                               "pop failed"}]

Init ==
  /\ made = {} /\ dirty = {} /\ stash = <<>> /\ conflicted = FALSE
  /\ local = 0 /\ remote = 0
  /\ pc = [r \in Requests |-> "new"]
  /\ kind = [r \in Requests |-> "stash-pull"]
  /\ entry = [r \in Requests |-> {}]
  /\ stashed = {}
  /\ found = [r \in Requests |-> 0]
  /\ pulled = {}
  /\ outcome = [r \in Requests |-> "none"]

-----------------------------------------------------------------------------
(* The people and agents who work on the repository, and its origin *)

Edit(e) ==
  /\ e \notin made
  /\ made' = made \cup {e}
  /\ dirty' = dirty \cup {e}
  /\ UNCHANGED <<stash, conflicted, local, remote, requestVars>>

RemoteAdvances ==
  /\ remote < MaxRemote
  /\ remote' = remote + 1
  /\ UNCHANGED <<made, dirty, stash, conflicted, local, requestVars>>

\* Somebody merges by hand what a pop could not, and drops its entry.
ResolveConflict ==
  /\ conflicted
  /\ conflicted' = FALSE
  /\ dirty' = dirty \cup Head(stash).edits
  /\ stash' = Tail(stash)
  /\ UNCHANGED <<made, local, remote, requestVars>>

-----------------------------------------------------------------------------
(* A request *)

Return(r, what) ==
  /\ pc' = [pc EXCEPT ![r] = "done"]
  /\ outcome' = [outcome EXCEPT ![r] = what]

\* The deploy script looks for local changes first, and skips the stash without.
Begin(r) ==
  /\ pc[r] = "new"
  /\ \E k \in Kinds :
       /\ kind' = [kind EXCEPT ![r] = k]
       /\ pc' = [pc EXCEPT ![r] = IF k = "deploy" /\ dirty = {} /\ ~conflicted
                                    THEN "pull" ELSE "push"]
  /\ found' = [found EXCEPT ![r] = remote]
  /\ UNCHANGED <<repoVars, entry, stashed, pulled, outcome>>

\* git stash push: with nothing to stash it succeeds and makes no entry.
StashPush(r) ==
  /\ pc[r] = "push"
  /\ ~conflicted
  /\ pc' = [pc EXCEPT ![r] = "pull"]
  /\ entry' = [entry EXCEPT ![r] = dirty]
  /\ stashed' = stashed \cup {r}
  /\ stash' = IF dirty = {} THEN stash
              ELSE <<[edits |-> dirty, by |-> r]>> \o stash
  /\ dirty' = {}
  /\ UNCHANGED <<made, conflicted, local, remote, kind, found, pulled, outcome>>

StashPushFails(r) ==
  /\ pc[r] = "push"
  /\ Return(r, "stash failed")
  /\ UNCHANGED <<repoVars, kind, entry, stashed, found, pulled>>

\* Faulty variant: stash-pull leaves the stash alone when the tree has changes.
PopsAfterIfClean(r, ok) ==
  \/ kind[r] = "stash-pull" /\ dirty = {}
  \/ kind[r] = "stash-drop-pull" /\ ~ok
  \/ kind[r] = "deploy" /\ r \in stashed

\* Does the request run git stash pop after this pull?
PopsAfter(r, ok) ==
  \/ kind[r] = "stash-pull"
  \/ kind[r] = "stash-drop-pull" /\ ~ok
  \/ kind[r] = "deploy" /\ r \in stashed

\* Faulty variant: the output of the pull is shown, its exit status ignored.
PullIgnoringStatus(r) ==
  /\ pc[r] = "pull"
  /\ local' \in {local, remote}
  /\ pulled' = pulled \cup {r}
  /\ IF PopsAfter(r, TRUE)
       THEN pc' = [pc EXCEPT ![r] = "pop"] /\ UNCHANGED outcome
       ELSE Return(r, "ok")
  /\ UNCHANGED <<made, dirty, stash, conflicted, remote, kind, entry, stashed, found>>

\* git pull --ff-only, which may fail: no network, diverged histories, or edits
\* in the way.
Pull(r) ==
  /\ pc[r] = "pull"
  /\ \E ok \in BOOLEAN :
       /\ ok => ~conflicted
       /\ local' = IF ok THEN remote ELSE local
       /\ pulled' = IF ok THEN pulled \cup {r} ELSE pulled
       /\ IF PopsAfter(r, ok)
            THEN pc' = [pc EXCEPT ![r] = "pop"] /\ UNCHANGED outcome
            ELSE Return(r, IF ok THEN "ok" ELSE "pull failed")
  /\ UNCHANGED <<made, dirty, stash, conflicted, remote, kind, entry, stashed, found>>

\* What a request answers after its pop: a failed pull is reported first, and the
\* deploy script only warns of a failed pop.
AfterPop(r, ok) ==
  IF r \notin pulled THEN "pull failed"
  ELSE IF ok \/ kind[r] = "deploy" THEN "ok" ELSE "pop failed"

\* Faulty variant: the entry is dropped though it could not be applied.
StashPopDropping(r) ==
  /\ pc[r] = "pop"
  /\ stash # <<>> /\ ~conflicted
  /\ stash' = Tail(stash)
  /\ \E ok \in BOOLEAN :
       /\ dirty' = IF ok THEN dirty \cup Head(stash).edits ELSE dirty
       /\ Return(r, AfterPop(r, ok))
  /\ UNCHANGED <<made, conflicted, local, remote, kind, entry, stashed, found, pulled>>

\* git stash pop takes the newest entry, whoever made it.
StashPop(r) ==
  /\ pc[r] = "pop"
  /\ stash # <<>> /\ ~conflicted
  /\ stash' = Tail(stash)
  /\ dirty' = dirty \cup Head(stash).edits
  /\ Return(r, AfterPop(r, TRUE))
  /\ UNCHANGED <<made, conflicted, local, remote, kind, entry, stashed, found, pulled>>

\* Nothing to pop, or edits in the way, or a conflict: the entry stays.
StashPopFails(r) ==
  /\ pc[r] = "pop"
  /\ \E c \in BOOLEAN : /\ c => stash # <<>>
                        /\ conflicted' = (conflicted \/ c)
  /\ Return(r, AfterPop(r, FALSE))
  /\ UNCHANGED <<made, dirty, stash, local, remote, kind, entry, stashed, found, pulled>>

-----------------------------------------------------------------------------
Step(r) == \/ Begin(r) \/ StashPush(r) \/ StashPushFails(r) \/ Pull(r)
           \/ StashPop(r) \/ StashPopFails(r)

Next ==
  \/ \E r \in Requests : Step(r)
  \/ \E e \in Edits : Edit(e)
  \/ RemoteAdvances \/ ResolveConflict

Spec == Init /\ [][Next]_vars

-----------------------------------------------------------------------------
(* Properties *)

\* No edit is ever lost, however the commands of several requests interleave and
\* whichever of them fail: it is in the working tree or in the stash.
NoEditLost == made \subseteq dirty \cup EditsOf(stash)

\* When every request that began was a stash-pull and succeeded, every edit is
\* back in the working tree, even if they popped each other's entries.
AllBack ==
  (\A r \in Requests : \/ pc[r] = "new"
                       \/ outcome[r] = "ok" /\ kind[r] = "stash-pull")
    => dirty = made

\* A request that reports success has the repository at the commit that was at
\* the origin when it began, or a later one.
OkMeansPulled ==
  \A r \in Requests : outcome[r] = "ok" => found[r] <= local

=============================================================================
