------------------------------ MODULE DataSource ------------------------------
(***************************************************************************)
(* The file-backed data sources of internal/datasource/datasource.go: one  *)
(* polling goroutine per source, re-reading a JSON file some other program *)
(* writes, and the state the readers (REST API, WebSocket broadcast) see.  *)
(*                                                                         *)
(* A file is its condition and the version last written to it; versions    *)
(* stand for contents.  The fields guarded by a source's mutex form one    *)
(* record, since every reader copies them under that mutex.                *)
(***************************************************************************)
EXTENDS Naturals

CONSTANTS Sources,     \* registered sources, each with its own file
          MaxVersion,  \* writes explored per file
          MaxTime      \* clock readings explored

ASSUME BoundsAssumption == MaxVersion \in Nat /\ MaxTime \in Nat \ {0}

VARIABLES
  file,     \* condition of each file
  version,  \* the version last written, or being written
  now,      \* the clock; 0 is Go's zero time
  pc,       \* where each polling goroutine is
  attempt,  \* the attempts of readFile already spent
  got,      \* what the last os.ReadFile returned
  st,       \* the fields of each FileSource guarded by its mutex
  stopped   \* Manager.Stop has closed the stop channels

fileVars == <<file, version>>
pollVars == <<pc, attempt, got, st>>
vars == <<fileVars, now, pollVars, stopped>>

FileConditions == {"missing", "torn", "unreadable", "valid"}
NotRead == [kind |-> "none", v |-> 0]
Errors == {"", "invalid JSON", "file not found", "read error"}

\* data = 0: nothing read yet; good and since are the times lastGood, staleSince.
SourceState == [data : 0..MaxVersion, ok : BOOLEAN, err : Errors,
                good : 0..MaxTime, stale : BOOLEAN, since : 0..MaxTime]

NeverRead == [data |-> 0, ok |-> FALSE, err |-> "", good |-> 0,
              stale |-> FALSE, since |-> 0]

TypeOK ==
  /\ file \in [Sources -> FileConditions]
  /\ version \in [Sources -> 0..MaxVersion]
  /\ now \in 1..MaxTime
  /\ pc \in [Sources -> {"new", "read", "sleep", "store", "fail", "select", "exited"}]
  /\ attempt \in [Sources -> 0..2]
  /\ got \in [Sources -> [kind : FileConditions \cup {"none"}, v : 0..MaxVersion]]
  /\ st \in [Sources -> SourceState]
  /\ stopped \in BOOLEAN

Init ==
  /\ file = [s \in Sources |-> "missing"]
  /\ version = [s \in Sources |-> 0]
  /\ now = 1
  /\ pc = [s \in Sources |-> "new"]
  /\ attempt = [s \in Sources |-> 0]
  /\ got = [s \in Sources |-> NotRead]
  /\ st = [s \in Sources |-> NeverRead]
  /\ stopped = FALSE

-----------------------------------------------------------------------------
(* The program that writes the file, and time.                                *)

SetFile(s, cond) ==
  /\ file' = [file EXCEPT ![s] = cond]
  /\ UNCHANGED <<now, pollVars, stopped>>

\* A write in place: until it finishes, readers find truncated JSON.
BeginWrite(s) ==
  /\ version[s] < MaxVersion
  /\ version' = [version EXCEPT ![s] = @ + 1]
  /\ SetFile(s, "torn")

FinishWrite(s) == file[s] = "torn" /\ SetFile(s, "valid") /\ UNCHANGED version

\* A write to a temporary file that is renamed over the old one.
ReplaceFile(s) ==
  /\ version[s] < MaxVersion
  /\ version' = [version EXCEPT ![s] = @ + 1]
  /\ SetFile(s, "valid")

RemoveFile(s) == file[s] = "valid" /\ SetFile(s, "missing") /\ UNCHANGED version
LoseAccess(s) == file[s] = "valid" /\ SetFile(s, "unreadable") /\ UNCHANGED version
RegainAccess(s) == file[s] = "unreadable" /\ SetFile(s, "valid") /\ UNCHANGED version

Tick == now < MaxTime /\ now' = now + 1 /\ UNCHANGED <<fileVars, pollVars, stopped>>

-----------------------------------------------------------------------------
(* Manager.Start and Manager.Stop *)

Start ==
  /\ \A s \in Sources : pc[s] = "new"
  /\ pc' = [s \in Sources |-> "read"]
  /\ UNCHANGED <<attempt, got, st, fileVars, now, stopped>>

Stop ==
  /\ \A s \in Sources : pc[s] # "new"
  /\ ~stopped
  /\ stopped' = TRUE
  /\ UNCHANGED <<fileVars, now, pollVars>>

-----------------------------------------------------------------------------
(* FileSource.readFile *)

LastAttempt == 2

\* One os.ReadFile.  Valid JSON is stored, a read error ends the attempts, and
\* invalid JSON is retried after a pause unless this was the last attempt.
ReadAttempt(s) ==
  /\ pc[s] = "read"
  /\ got' = [got EXCEPT ![s] = [kind |-> file[s], v |-> version[s]]]
  /\ pc' = [pc EXCEPT ![s] =
              IF file[s] = "valid" THEN "store"
              ELSE IF file[s] = "torn" /\ attempt[s] < LastAttempt THEN "sleep"
              ELSE "fail"]
  /\ UNCHANGED <<attempt, st, fileVars, now, stopped>>

Wake(s) ==
  /\ pc[s] = "sleep"
  /\ pc' = [pc EXCEPT ![s] = "read"]
  /\ attempt' = [attempt EXCEPT ![s] = @ + 1]
  /\ UNCHANGED <<got, st, fileVars, now, stopped>>

\* readFile returns to the poll loop.
EndRead(s, state) ==
  /\ st' = [st EXCEPT ![s] = state]
  /\ pc' = [pc EXCEPT ![s] = "select"]
  /\ attempt' = [attempt EXCEPT ![s] = 0]
  /\ got' = [got EXCEPT ![s] = NotRead]
  /\ UNCHANGED <<fileVars, now, stopped>>

StoreGood(s) ==
  /\ pc[s] = "store"
  /\ EndRead(s, [data |-> got[s].v, ok |-> TRUE, err |-> "", good |-> now,
                 stale |-> FALSE, since |-> 0])

ErrorOf(kind) == CASE kind = "missing"    -> "file not found"
                   [] kind = "unreadable" -> "read error"
                   [] OTHER               -> "invalid JSON"

\* Faulty variants of the failure path: the data is dropped with the failure; the
\* onset of the outage moves with every failing read; only the error is set.
StoreFailureDropping(s) ==
  /\ pc[s] = "fail"
  /\ EndRead(s, [st[s] EXCEPT !.data = 0, !.ok = FALSE,
                              !.err = ErrorOf(got[s].kind), !.stale = TRUE,
                              !.since = IF st[s].stale THEN @ ELSE now])

StoreFailureMovingOnset(s) ==
  /\ pc[s] = "fail"
  /\ EndRead(s, [st[s] EXCEPT !.ok = FALSE, !.err = ErrorOf(got[s].kind),
                              !.stale = TRUE, !.since = now])

StoreFailureStillOk(s) ==
  /\ pc[s] = "fail"
  /\ EndRead(s, [st[s] EXCEPT !.err = ErrorOf(got[s].kind), !.stale = TRUE,
                              !.since = IF st[s].stale THEN @ ELSE now])

\* All attempts failed: the last data is kept, and the moment the source became
\* stale is recorded once.
StoreFailure(s) ==
  /\ pc[s] = "fail"
  /\ EndRead(s, [data |-> st[s].data, ok |-> FALSE,
                 err |-> ErrorOf(got[s].kind), good |-> st[s].good,
                 stale |-> TRUE,
                 since |-> IF st[s].stale THEN st[s].since ELSE now])

(* The select of FileSource.poll *)

\* Faulty variant: once a source is stale it is not polled any more.
TickerFiresUnlessStale(s) ==
  /\ pc[s] = "select"
  /\ ~st[s].stale
  /\ pc' = [pc EXCEPT ![s] = "read"]
  /\ UNCHANGED <<attempt, got, st, fileVars, now, stopped>>

TickerFires(s) ==
  /\ pc[s] = "select"
  /\ pc' = [pc EXCEPT ![s] = "read"]
  /\ UNCHANGED <<attempt, got, st, fileVars, now, stopped>>

ObserveStop(s) ==
  /\ pc[s] = "select"
  /\ stopped
  /\ pc' = [pc EXCEPT ![s] = "exited"]
  /\ UNCHANGED <<attempt, got, st, fileVars, now, stopped>>

-----------------------------------------------------------------------------
Poll(s) == \/ ReadAttempt(s) \/ Wake(s) \/ StoreGood(s) \/ StoreFailure(s)
           \/ TickerFires(s)

Producer(s) == \/ BeginWrite(s) \/ FinishWrite(s) \/ ReplaceFile(s)
               \/ RemoveFile(s) \/ LoseAccess(s) \/ RegainAccess(s)

Next == \/ \E s \in Sources : Poll(s) \/ ObserveStop(s) \/ Producer(s)
        \/ Start \/ Stop \/ Tick

\* Goroutines run, sleeps end and tickers tick; a select with both the ticker and
\* the stop channel ready picks one at random, so it cannot miss the stop for
\* ever.  The producer owes nothing.
Fairness ==
  /\ WF_vars(Start)
  /\ \A s \in Sources : WF_vars(Poll(s)) /\ SF_vars(ObserveStop(s))

SafeSpec == Init /\ [][Next]_vars
Spec == SafeSpec /\ Fairness

-----------------------------------------------------------------------------
(* Properties *)

\* What any reader sees is consistent: "ok" comes with data and neither error
\* nor staleness, "stale" comes with a reason and an onset after the last good
\* read, and a source is neither only before its first read ends.
CoherentState(x) ==
  /\ x.ok => x.data > 0 /\ x.err = "" /\ ~x.stale
  /\ x.stale => /\ ~x.ok /\ x.err # ""
                /\ 0 < x.since /\ x.good <= x.since
  /\ x.ok \/ x.stale \/ x = NeverRead
  /\ x.data > 0 <=> x.good > 0

Coherent == \A s \in Sources : CoherentState(st[s])

\* During an outage, however its cause changes, the onset it was first given, the
\* time of the last good read and the data of that read all stay.
OutageKeepsRecord ==
  [][\A s \in Sources :
       st[s].stale /\ st'[s].stale
         => /\ st'[s].since = st[s].since
            /\ st'[s].good = st[s].good
            /\ st'[s].data = st[s].data]_st

\* Once a file settles on a readable version, its source ends up there; once it
\* is gone for good, its source ends up stale.
Converges ==
  \A s \in Sources :
    /\ \A v \in 1..MaxVersion :
         <>[](~stopped /\ file[s] = "valid" /\ version[s] = v)
           => <>[](st[s].ok /\ st[s].data = v)
    /\ <>[](~stopped /\ file[s] \in {"missing", "unreadable", "torn"})
         => <>[](st[s].stale)

\* To its readers a source is a feed: whatever the file goes through, what they
\* see only ever moves to a newer published version or goes stale.
Feed == INSTANCE SourceFeed WITH
  latest <- version,
  feed <- [s \in Sources |-> [data |-> st[s].data, ok |-> st[s].ok,
                              stale |-> st[s].stale]]

ImplementsFeed == Feed!Spec

=============================================================================
