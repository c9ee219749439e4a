-------------------------------- MODULE Journal --------------------------------
(***************************************************************************)
(* What is left of a request: the chain RecoveryMiddleware,                *)
(* RequestIDMiddleware and RequestLoggerMiddleware, the ring of recent     *)
(* requests behind /debug (internal/debug), and the error log in memory    *)
(* and in logs/error.jsonl (pkg/vel, errorlog.go).                         *)
(*                                                                         *)
(* The entries of the error log are numbered in the order in which they    *)
(* are logged.  A line of the file is the number of the entry that it      *)
(* parses to, Bad, or Long: a line of 64 KiB or more, at which the scanner *)
(* that reads the file ends.                                               *)
(***************************************************************************)
EXTENDS Naturals, Sequences, FiniteSets, SequencesExt

CONSTANTS Requests,
          GivenIds,    \* X-Request-ID headers that clients send
          Capacity,    \* of the ring
          MaxEntries,  \* entries of the error log kept at a start
          MaxRequests, MaxErrors, MaxRestarts \* bounds

ASSUME JournalAssumption ==
  /\ GivenIds \cap Nat = {}
  /\ {Capacity, MaxEntries} \subseteq Nat \ {0}
  /\ {MaxRequests, MaxErrors, MaxRestarts} \subseteq Nat

Bad == 0
Errors == 1..MaxErrors
Long == MaxErrors + 1
Lines == {Bad, Long} \cup Errors
EntriesIn(s) == ToSet(s) \cap Errors
NoEntry == [id |-> 0, status |-> 0, nr |-> 0]

VARIABLES
  phase,             \* of the process: down, rewriting the file, serving
  req, begun,        \* the requests, and how many there were
  entries, head, count, \* RingBuffer
  done,              \* history: the requests completed since the start
  errors, logged,    \* errorLogger.entries, and how many were ever logged
  lines, tail,       \* the file, and what follows its last newline
  mu,                \* who holds errorLogger.mu
  before, lost,      \* history: the entries at the last stop, those that something befell
  restarts

ring == <<entries, head, count, done>>
file == <<lines, tail>>
log == <<errors, logged, lines, tail, mu, lost>>
journalVars == <<phase, req, begun, ring, log, before, restarts>>

Statuses == {0, 200, 404, 500}
Ids == GivenIds \cup 0..MaxRequests
Entries == [id : Ids, status : Statuses, nr : 0..MaxRequests]

NoRequest == [pc |-> "idle", id |-> 0, nr |-> 0, status |-> 0, then |-> "idle"]

JournalTypeOK ==
  /\ phase \in {"down", "rewriting", "serving"}
  /\ req \in [Requests -> [pc : {"idle", "handler", "finish", "log", "newline"},
                           id : Ids, nr : 0..MaxRequests,
                           status : Statuses, then : {"idle", "finish"}]]
  /\ begun \in 0..MaxRequests /\ head \in 0..Capacity - 1 /\ count \in 0..Capacity
  /\ entries \in [0..Capacity - 1 -> Entries] /\ done \in Seq(Entries)
  /\ logged \in 0..MaxErrors /\ errors \in Seq(Errors)
  /\ lines \in Seq(Lines) /\ tail \in Seq(Lines) /\ Len(tail) <= 1
  /\ mu \subseteq Requests /\ before \subseteq Errors /\ lost \subseteq Errors
  /\ restarts \in 0..MaxRestarts

JournalInit ==
  /\ phase = "serving" /\ req = [r \in Requests |-> NoRequest] /\ begun = 0
  /\ entries = [i \in 0..Capacity - 1 |-> NoEntry] /\ head = 0 /\ count = 0 /\ done = <<>>
  /\ errors = <<>> /\ logged = 0 /\ lines = <<>> /\ tail = <<>> /\ mu = {}
  /\ before = {} /\ lost = {} /\ restarts = 0

-----------------------------------------------------------------------------
(* RingBuffer *)

At(i) == entries[(head + Capacity - 1 - i) % Capacity]
NewestFirst == [i \in 1..count |-> At(i - 1)]
FirstOf(s, n) == SubSeq(s, 1, IF n < Len(s) THEN n ELSE Len(s))
IsError(e) == e.status >= 400
ErrorsOf(s) == SelectSeq(s, IsError)

Recent(n) == FirstOf(NewestFirst, n)

\* Faulty variant: the errors among the last n.
RecentErrorsOfRecent(n) == ErrorsOf(Recent(n))

RecentErrors(n) == FirstOf(ErrorsOf(NewestFirst), n)

Get(id) == LET found == {i \in 1..count : NewestFirst[i].id = id}
           IN  IF found = {} THEN NoEntry ELSE NewestFirst[Min(found)]

Stats(status) == Cardinality({i \in 1..count : NewestFirst[i].status = status})

Add(entry) ==
  /\ entries' = [entries EXCEPT ![head] = entry]
  /\ head' = (head + 1) % Capacity
  /\ count' = IF count < Capacity THEN count + 1 ELSE count
  /\ done' = Append(done, entry)

-----------------------------------------------------------------------------
(* Requests *)

\* RequestIDMiddleware: the client's own identifier or a new one.
Begin(r) ==
  /\ phase = "serving" /\ req[r].pc = "idle" /\ begun < MaxRequests
  /\ begun' = begun + 1
  /\ \E id \in GivenIds \cup {begun'} :
       req' = [req EXCEPT ![r] = [NoRequest EXCEPT !.pc = "handler", !.id = id, !.nr = begun']]
  /\ UNCHANGED <<phase, ring, log, before, restarts>>

\* The handler writes its status; with vel.Error an error is logged at once, too.
Handle(r) ==
  /\ req[r].pc = "handler"
  /\ \E status \in {200, 404, 500}, pc \in {"finish", "log"} :
       /\ pc = "log" => status >= 400
       /\ req' = [req EXCEPT ![r].pc = pc, ![r].status = status, ![r].then = "finish"]
  /\ UNCHANGED <<phase, begun, ring, log, before, restarts>>

\* RecoveryMiddleware answers 500; the logger below it has not come to its work.
Panics(r) ==
  /\ req[r].pc = "handler"
  /\ req' = [req EXCEPT ![r] = NoRequest]
  /\ UNCHANGED <<phase, begun, ring, log, before, restarts>>

\* RequestLoggerMiddleware, after the handler.
LogRequest(r) ==
  /\ req[r].pc = "finish"
  /\ Add([id |-> req[r].id, status |-> req[r].status, nr |-> req[r].nr])
  /\ req' = [req EXCEPT ![r] = IF req[r].status >= 500
                                 THEN [@ EXCEPT !.pc = "log", !.then = "idle"] ELSE NoRequest]
  /\ UNCHANGED <<phase, begun, log, before, restarts>>

Goes(r) == req' = [req EXCEPT ![r] = IF @.then = "idle" THEN NoRequest
                                     ELSE [@ EXCEPT !.pc = "finish"]]

-----------------------------------------------------------------------------
(* The error log *)

\* An entry is kept in memory and written behind whatever the file ends with.  The
\* write may be short, down to nothing; the line it makes or joins may get too long.
WriteEntry(r) ==
  /\ req[r].pc = "log" /\ mu = {} /\ logged < MaxErrors
  /\ logged' = logged + 1 /\ errors' = Append(errors, logged')
  /\ tail' \in {tail, <<Bad>>, <<Long>>, <<logged'>>}
  /\ tail' = <<logged'>> => tail = <<>>
  /\ tail = <<Long>> => tail' = tail
  /\ lost' = lost \cup ((EntriesIn(tail) \cup {logged'}) \ EntriesIn(tail'))
  /\ mu' = {r} /\ req' = [req EXCEPT ![r].pc = "newline"]
  /\ UNCHANGED <<phase, begun, ring, lines, before, restarts>>

\* The newline is a write of its own, and may fail on its own.
WriteNewline(r) ==
  /\ req[r].pc = "newline"
  /\ \/ lines' = lines \o tail /\ tail' = <<>>
     \/ UNCHANGED file
  /\ mu' = {} /\ Goes(r)
  /\ UNCHANGED <<phase, begun, ring, errors, logged, before, lost, restarts>>

\* The file does not open: the error is ignored.
WriteFails(r) ==
  /\ req[r].pc = "log" /\ mu = {} /\ logged < MaxErrors
  /\ logged' = logged + 1 /\ errors' = Append(errors, logged')
  /\ lost' = lost \cup {logged'}
  /\ Goes(r)
  /\ UNCHANGED <<phase, begun, ring, file, mu, before, restarts>>

-----------------------------------------------------------------------------
(* Stops and starts *)

\* A rewrite has truncated the file and written the beginning of the new one, perhaps
\* without the end of its last line, or all of it.
Written ==
  \E k \in 0..Len(errors) :
    /\ lines' = SubSeq(errors, 1, k)
    /\ tail' \in IF k = Len(errors) THEN {<<>>} ELSE {<<>>, <<Bad>>, <<errors[k + 1]>>}
    /\ lost' = lost \cup (EntriesIn(errors) \ (EntriesIn(lines') \cup EntriesIn(tail')))

\* The process ends, perhaps in the middle of a rewrite.
Stop ==
  /\ phase # "down" /\ phase' = "down"
  /\ UNCHANGED <<file, lost>> \/ (phase = "rewriting" /\ Written)
  /\ before' = ToSet(errors)
  /\ errors' = <<>> /\ mu' = {} /\ req' = [r \in Requests |-> NoRequest]
  /\ entries' = [i \in 0..Capacity - 1 |-> NoEntry] /\ head' = 0 /\ count' = 0 /\ done' = <<>>
  /\ UNCHANGED <<begun, logged, restarts>>

LastOf(s, n) == IF Len(s) > n THEN SubSeq(s, Len(s) - n + 1, Len(s)) ELSE s

\* The last line lacks its newline, if there is a tail.
AllLines == lines \o tail

\* Faulty variant: reading ends at a line that does not parse.
ParsedToFirstBad(n) ==
  SubSeq(AllLines, 1, Cardinality({i \in 1..n : \A j \in 1..i : AllLines[j] # Bad}))

\* Those of the first n lines that parse, one after the other.
Parsed(n) ==
  LET first[i \in 0..n] == IF i = 0 THEN <<>>
                           ELSE IF AllLines[i] = Bad THEN first[i - 1]
                           ELSE Append(first[i - 1], AllLines[i])
  IN  first[n]

\* InitErrorLog with loadAndTrim.  A line that is too long ends the reading, as do a
\* file that does not open and a read that fails: all unnoticed, and what is not read
\* is lost.  A log that is full is written anew.
Start ==
  /\ phase = "down" /\ restarts < MaxRestarts /\ restarts' = restarts + 1
  /\ \E n \in 0..Len(AllLines) :
       /\ \A i \in 1..n : AllLines[i] # Long
       /\ errors' = LastOf(Parsed(n), MaxEntries)
       /\ phase' = IF Len(errors') = MaxEntries THEN "rewriting" ELSE "serving"
       /\ lost' = lost \cup EntriesIn(SubSeq(AllLines, n + 1, Len(AllLines)))
  /\ UNCHANGED <<req, begun, ring, logged, file, mu, before>>

\* os.Create fails and the file stays; or the rewrite, of which no error is noticed.
RewriteFile ==
  /\ phase = "rewriting" /\ phase' = "serving"
  /\ UNCHANGED <<file, lost>> \/ Written
  /\ UNCHANGED <<req, begun, ring, errors, logged, mu, before, restarts>>

JournalNext ==
  \/ \E r \in Requests : \/ Begin(r) \/ Handle(r) \/ Panics(r) \/ LogRequest(r)
                         \/ WriteEntry(r) \/ WriteNewline(r) \/ WriteFails(r)
  \/ Stop \/ Start \/ RewriteFile

JournalSpec == JournalInit /\ [][JournalNext]_journalVars

-----------------------------------------------------------------------------
(* Properties *)

\* What /debug shows of the ring is the history of completed requests, newest first
\* and as far back as the ring holds: the last n, the last n errors however far
\* apart, the last of an identifier, which clients may use twice, and the counts.
RecentIsHistory ==
  LET kept == LastOf(done, Capacity)
      newest == Reverse(kept)
  IN  /\ \A n \in 1..MaxRequests : /\ Recent(n) = FirstOf(newest, n)
                                   /\ RecentErrors(n) = FirstOf(ErrorsOf(newest), n)
      /\ \A i \in DOMAIN newest :
           LET e == newest[i]
           IN  /\ Get(e.id).nr = e.nr \/ \E j \in 1..i - 1 : newest[j].id = e.id
               /\ Stats(e.status) = Cardinality({j \in DOMAIN newest : newest[j].status = e.status})

\* An error shown before a stop is shown after the next start, unless as many newer
\* ones are or something befell it: its own write failed, was cut short or made a line
\* too long, it was joined by the next entry for want of a newline, a rewrite failed
\* or was interrupted before it, or the reading of the file ended before it.
ErrorsKept ==
  phase # "down" =>
    \A e \in before \ lost :
      \/ e \in ToSet(errors)
      \/ Cardinality({f \in ToSet(errors) : f > e}) >= MaxEntries
=============================================================================
