--------------------------- MODULE DataSourceProofs ---------------------------
(***************************************************************************)
(* Proofs about DataSource, for any number of sources, versions and clock  *)
(* readings: what readers see is coherent, an outage keeps its record, and *)
(* the polled files implement SourceFeed.                                  *)
(***************************************************************************)
EXTENDS DataSource, TLAPS

\* A file that was ever readable has a version; what was read and what is shown
\* is no newer than the file, and what is about to be stored is good data, no
\* older than what is shown.
ReadInv ==
  \A s \in Sources :
    /\ file[s] = "valid" => version[s] > 0
    /\ file[s] = "unreadable" => version[s] > 0
    /\ file[s] = "torn" => version[s] > 0
    /\ st[s].data <= version[s]
    /\ got[s].v <= version[s]
    /\ pc[s] = "store" => st[s].data <= got[s].v /\ 0 < got[s].v
    /\ pc[s] = "sleep" => attempt[s] < LastAttempt

\* No recorded time lies in the future.
ClockInv == \A s \in Sources : st[s].good <= now /\ st[s].since <= now

IInv == TypeOK /\ Coherent /\ ReadInv /\ ClockInv

-----------------------------------------------------------------------------
LEMMA InitialValues == /\ NeverRead \in SourceState
                       /\ NotRead \in [kind : FileConditions \cup {"none"},
                                       v : 0..MaxVersion]
  BY BoundsAssumption
     DEF NeverRead, SourceState, Errors, NotRead, FileConditions

LEMMA InitInv == Init => IInv
<1> SUFFICES ASSUME Init PROVE IInv
  OBVIOUS
<1>1. 1 \in 1..MaxTime /\ 0 \in 0..MaxVersion /\ "missing" \in FileConditions
  BY BoundsAssumption DEF FileConditions
<1>2. TypeOK
  <2>1. file \in [Sources -> FileConditions] /\ version \in [Sources -> 0..MaxVersion]
    BY <1>1 DEF Init
  <2>2. now \in 1..MaxTime /\ attempt \in [Sources -> 0..2]
    BY <1>1 DEF Init
  <2>3. pc \in [Sources -> {"new", "read", "sleep", "store", "fail", "select",
                            "exited"}]
    BY DEF Init
  <2>4. st \in [Sources -> SourceState]
    BY InitialValues DEF Init
  <2>5. got \in [Sources -> [kind : FileConditions \cup {"none"}, v : 0..MaxVersion]]
    BY InitialValues DEF Init
  <2>6. stopped \in BOOLEAN
    BY DEF Init
  <2>7. QED
    BY <2>1, <2>2, <2>3, <2>4, <2>5, <2>6 DEF TypeOK
<1>3. \A s \in Sources : st[s] = NeverRead /\ got[s] = NotRead
  BY DEF Init
<1>4. /\ NeverRead.data = 0 /\ NeverRead.good = 0 /\ NeverRead.since = 0
      /\ ~NeverRead.ok /\ ~NeverRead.stale
      /\ NotRead.v = 0
  BY DEF NeverRead, NotRead
<1>5. Coherent
  BY <1>3, <1>4 DEF Coherent, CoherentState
<1>6. ReadInv /\ ClockInv
  BY <1>3, <1>4 DEF Init, ReadInv, ClockInv
<1>7. QED
  BY <1>2, <1>5, <1>6 DEF IInv

\* readFile's return, whatever it stores: enough to look at the stored state.
LEMMA EndReadInv ==
  ASSUME IInv, NEW s \in Sources, NEW x \in SourceState, EndRead(s, x),
         CoherentState(x), x.data <= version[s], x.good <= now, x.since <= now
  PROVE  IInv'
<1> USE DEF IInv, EndRead, fileVars
<1>1. TypeOK'
  BY InitialValues DEF TypeOK
<1>2. Coherent'
  BY DEF Coherent, TypeOK
<1>3. ReadInv'
  BY DEF ReadInv, TypeOK, NotRead, LastAttempt
<1>4. ClockInv'
  BY DEF ClockInv, TypeOK
<1>5. QED
  BY <1>1, <1>2, <1>3, <1>4

\* The state stored after a good read.
GoodState(s) == [data |-> got[s].v, ok |-> TRUE, err |-> "", good |-> now,
                 stale |-> FALSE, since |-> 0]

LEMMA StoreGoodInv ==
  ASSUME IInv, NEW s \in Sources, StoreGood(s)
  PROVE  IInv'
<1>1. got[s].v \in 0..MaxVersion /\ now \in 1..MaxTime /\ 0 \in 0..MaxTime
  BY BoundsAssumption DEF IInv, TypeOK
<1>2. GoodState(s) \in SourceState
  BY <1>1 DEF GoodState, SourceState, Errors
<1>3. 0 < got[s].v /\ got[s].v <= version[s]
  BY DEF IInv, ReadInv, StoreGood
<1>4. /\ CoherentState(GoodState(s))
      /\ GoodState(s).data <= version[s]
      /\ GoodState(s).good <= now
      /\ GoodState(s).since <= now
  BY <1>1, <1>3 DEF CoherentState, GoodState
<1>5. EndRead(s, GoodState(s))
  BY DEF StoreGood, GoodState
<1>6. QED
  BY <1>2, <1>4, <1>5, EndReadInv

\* The state stored after a failed one.
FailedState(s) == [data |-> st[s].data, ok |-> FALSE,
                   err |-> ErrorOf(got[s].kind), good |-> st[s].good,
                   stale |-> TRUE,
                   since |-> IF st[s].stale THEN st[s].since ELSE now]

LEMMA FailureHasReason == \A k : ErrorOf(k) \in Errors \ {""}
  BY DEF ErrorOf, Errors

LEMMA StoreFailureInv ==
  ASSUME IInv, NEW s \in Sources, StoreFailure(s)
  PROVE  IInv'
<1> DEFINE since == IF st[s].stale THEN st[s].since ELSE now
           err == ErrorOf(got[s].kind)
           new == [data |-> st[s].data, ok |-> FALSE, err |-> err,
                   good |-> st[s].good, stale |-> TRUE, since |-> since]
<1>1. st[s] \in SourceState /\ now \in 1..MaxTime
  BY DEF IInv, TypeOK
<1>2. err \in Errors /\ err # ""
  BY FailureHasReason
<1>3. /\ CoherentState(st[s])
      /\ st[s].data <= version[s]
      /\ st[s].good <= now
      /\ st[s].since <= now
  BY DEF IInv, Coherent, ReadInv, ClockInv
<1>4. /\ since \in 0..MaxTime
      /\ 0 < since /\ st[s].good <= since /\ since <= now
  <2>1. CASE st[s].stale
    BY <1>1, <1>3, <2>1 DEF SourceState, CoherentState
  <2>2. CASE ~st[s].stale
    BY <1>1, <1>3, <2>2 DEF SourceState
  <2>3. QED
    BY <2>1, <2>2
<1>5. st[s].data > 0 <=> st[s].good > 0
  BY <1>3 DEF CoherentState
<1> HIDE DEF since, err
<1>6. new \in SourceState
  BY <1>1, <1>2, <1>4 DEF SourceState
<1>7. /\ CoherentState(new)
      /\ new.data <= version[s]
      /\ new.good <= now
      /\ new.since <= now
  BY <1>2, <1>3, <1>4, <1>5 DEF CoherentState
<1>8. EndRead(s, new)
  BY DEF StoreFailure, since, err
<1>9. QED
  BY <1>6, <1>7, <1>8, EndReadInv

\* The producer only makes versions grow.
LEMMA ProducerInv ==
  ASSUME IInv, NEW s \in Sources, Producer(s)
  PROVE  IInv'
<1> USE DEF SetFile, pollVars, FileConditions
<1>1. CASE BeginWrite(s) \/ ReplaceFile(s)
  <2>1. /\ UNCHANGED <<pc, attempt, got, st, now, stopped>>
        /\ version' = [version EXCEPT ![s] = version[s] + 1]
        /\ version[s] < MaxVersion
        /\ \E c \in FileConditions : file' = [file EXCEPT ![s] = c]
    BY <1>1 DEF BeginWrite, ReplaceFile
  <2>2. version \in [Sources -> 0..MaxVersion] /\ MaxVersion \in Nat
    BY BoundsAssumption DEF IInv, TypeOK
  <2>3. version[s] + 1 \in 1..MaxVersion
    BY <2>1, <2>2
  <2>4. TypeOK'
    BY <2>1, <2>2, <2>3 DEF IInv, TypeOK
  <2>5. \A r \in Sources : /\ version[r] <= version'[r]
                           /\ version'[r] \in 0..MaxVersion
                           /\ r = s => version'[r] > 0
                           /\ r # s => version'[r] = version[r] /\ file'[r] = file[r]
    BY <2>1, <2>2, <2>3 DEF IInv, TypeOK
  <2>6. \A r \in Sources : st[r].data \in 0..MaxVersion /\ got[r].v \in 0..MaxVersion
    BY DEF IInv, TypeOK, SourceState
  <2>7. ReadInv'
    BY <2>1, <2>2, <2>5, <2>6 DEF IInv, ReadInv
  <2>8. Coherent' /\ ClockInv'
    BY <2>1 DEF IInv, Coherent, ClockInv
  <2>9. QED
    BY <2>4, <2>7, <2>8 DEF IInv
<1>2. CASE FinishWrite(s) \/ RemoveFile(s) \/ LoseAccess(s) \/ RegainAccess(s)
  BY <1>2
     DEF FinishWrite, RemoveFile, LoseAccess, RegainAccess, IInv, TypeOK,
         Coherent, ReadInv, ClockInv
<1>3. QED
  BY <1>1, <1>2 DEF Producer

\* IInv is inductive.
LEMMA NextInv == IInv /\ [Next]_vars => IInv'
<1> SUFFICES ASSUME IInv, [Next]_vars PROVE IInv'
  OBVIOUS
<1> USE BoundsAssumption DEF fileVars, pollVars
<1>1. ASSUME NEW s \in Sources, ReadAttempt(s) PROVE IInv'
  BY <1>1
     DEF ReadAttempt, IInv, TypeOK, Coherent, ReadInv, ClockInv, LastAttempt,
         FileConditions
<1>2. ASSUME NEW s \in Sources, Wake(s) PROVE IInv'
  BY <1>2 DEF Wake, IInv, TypeOK, Coherent, ReadInv, ClockInv, LastAttempt
<1>3. ASSUME NEW s \in Sources, StoreGood(s) PROVE IInv'
  BY <1>3, StoreGoodInv
<1>4. ASSUME NEW s \in Sources, StoreFailure(s) PROVE IInv'
  BY <1>4, StoreFailureInv
<1>5. ASSUME NEW s \in Sources, TickerFires(s) \/ ObserveStop(s) PROVE IInv'
  BY <1>5 DEF TickerFires, ObserveStop, IInv, TypeOK, Coherent, ReadInv, ClockInv
<1>6. ASSUME NEW s \in Sources, Producer(s) PROVE IInv'
  BY <1>6, ProducerInv
<1>7. CASE Start \/ Stop
  BY <1>7 DEF Start, Stop, IInv, TypeOK, Coherent, ReadInv, ClockInv
<1>8. CASE Tick
  BY <1>8 DEF Tick, IInv, TypeOK, Coherent, ReadInv, ClockInv, SourceState
<1>9. CASE UNCHANGED vars
  BY <1>9 DEF vars, IInv, TypeOK, Coherent, ReadInv, ClockInv
<1>10. QED
  BY <1>1, <1>2, <1>3, <1>4, <1>5, <1>6, <1>7, <1>8, <1>9 DEF Next, Poll

LEMMA Inductive == SafeSpec => []IInv
  BY InitInv, NextInv, PTL DEF SafeSpec

\* The variables keep their types.
THEOREM TypeCorrect == SafeSpec => []TypeOK
<1>1. IInv => TypeOK
  BY DEF IInv
<1>2. QED
  BY <1>1, Inductive, PTL

\* No reader ever sees a source that contradicts itself.
THEOREM ReadersSeeCoherentState == SafeSpec => []Coherent
<1>1. IInv => Coherent
  BY DEF IInv
<1>2. QED
  BY <1>1, Inductive, PTL

-----------------------------------------------------------------------------
(* Steps that change what readers see *)

\* Only the two ways out of readFile change it.
LEMMA VisibleSteps ==
  ASSUME IInv, [Next]_vars, NEW s \in Sources
  PROVE  \/ st'[s] = st[s]
         \/ StoreGood(s) /\ st' = [st EXCEPT ![s] = GoodState(s)]
         \/ StoreFailure(s) /\ st' = [st EXCEPT ![s] = FailedState(s)]
<1> USE DEF IInv, TypeOK, vars, fileVars, pollVars
<1>1. ASSUME NEW r \in Sources, StoreGood(r)
      PROVE  st' = [st EXCEPT ![r] = GoodState(r)]
  BY <1>1 DEF StoreGood, EndRead, GoodState
<1>2. ASSUME NEW r \in Sources, StoreFailure(r)
      PROVE  st' = [st EXCEPT ![r] = FailedState(r)]
  BY <1>2 DEF StoreFailure, EndRead, FailedState
<1>3. \/ st' = st
      \/ \E r \in Sources : StoreGood(r) \/ StoreFailure(r)
  BY DEF Next, Poll, ReadAttempt, Wake, TickerFires, ObserveStop, Producer,
         BeginWrite, FinishWrite, ReplaceFile, RemoveFile, LoseAccess,
         RegainAccess, SetFile, Start, Stop, Tick
<1>4. QED
  BY <1>1, <1>2, <1>3

\* An outage keeps the onset, the time of the last good read and its data.
THEOREM OutageRecordIsKept == SafeSpec => OutageKeepsRecord
<1>1. ASSUME IInv, [Next]_vars, NEW s \in Sources, st[s].stale, st'[s].stale
      PROVE  /\ st'[s].since = st[s].since
             /\ st'[s].good = st[s].good
             /\ st'[s].data = st[s].data
  <2>1. st[s] \in SourceState /\ st \in [Sources -> SourceState]
    BY <1>1 DEF IInv, TypeOK
  <2>2. CASE st' = [st EXCEPT ![s] = GoodState(s)]
    BY <1>1, <2>1, <2>2 DEF GoodState
  <2>3. CASE st' = [st EXCEPT ![s] = FailedState(s)]
    BY <1>1, <2>1, <2>3 DEF FailedState, SourceState
  <2>4. QED
    BY <1>1, <2>2, <2>3, VisibleSteps
<1>2. IInv /\ [Next]_vars =>
        [\A s \in Sources :
           st[s].stale /\ st'[s].stale
             => /\ st'[s].since = st[s].since
                /\ st'[s].good = st[s].good
                /\ st'[s].data = st[s].data]_st
  BY <1>1
<1>3. QED
  BY <1>2, Inductive, PTL DEF SafeSpec, OutageKeepsRecord

-----------------------------------------------------------------------------
(* Refinement of SourceFeed *)

LEMMA RefinesInit == Init => Feed!Init
<1> SUFFICES ASSUME Init PROVE Feed!Init
  OBVIOUS
<1>1. \A s \in Sources : [data |-> st[s].data, ok |-> st[s].ok, stale |-> st[s].stale]
                          = Feed!Unread
  BY DEF Init, NeverRead, Feed!Unread
<1>2. version = [s \in Sources |-> 0]
  BY DEF Init
<1>3. QED
  BY <1>1, <1>2 DEF Feed!Init

\* A step of the producer publishes or is not seen; readFile refreshes the feed
\* or lets it go stale; all else is not seen.
LEMMA RefinesNext == IInv /\ [Next]_vars => [Feed!Next]_(Feed!vars)
<1> SUFFICES ASSUME IInv, [Next]_vars PROVE [Feed!Next]_(Feed!vars)
  OBVIOUS
<1> DEFINE seen == [s \in Sources |-> [data |-> st[s].data, ok |-> st[s].ok,
                                      stale |-> st[s].stale]]
<1>1. ASSUME NEW s \in Sources, BeginWrite(s) \/ ReplaceFile(s)
      PROVE  Feed!Publish(s)
  BY <1>1 DEF BeginWrite, ReplaceFile, SetFile, pollVars, Feed!Publish
<1>2. ASSUME NEW s \in Sources, StoreGood(s)
      PROVE  Feed!Refresh(s)
  <2>1. got[s].v \in 1..version[s] /\ st[s].data <= got[s].v
    <3>1. got[s].v \in 0..MaxVersion /\ version[s] \in 0..MaxVersion
      BY DEF IInv, TypeOK
    <3>2. 0 < got[s].v /\ got[s].v <= version[s] /\ st[s].data <= got[s].v
      BY <1>2 DEF IInv, ReadInv, StoreGood
    <3>3. QED
      BY <3>1, <3>2, BoundsAssumption
  <2>2. version' = version /\ st' = [st EXCEPT ![s] = GoodState(s)]
    BY <1>2 DEF StoreGood, EndRead, GoodState, fileVars
  <2>3. st \in [Sources -> SourceState]
    BY DEF IInv, TypeOK
  <2>4. seen' = [seen EXCEPT ![s] = [data |-> got[s].v, ok |-> TRUE, stale |-> FALSE]]
    BY <2>2, <2>3 DEF GoodState
  <2>5. seen[s].data = st[s].data
    OBVIOUS
  <2>6. QED
    BY <2>1, <2>2, <2>4, <2>5 DEF Feed!Refresh
<1>3. ASSUME NEW s \in Sources, StoreFailure(s)
      PROVE  Feed!GoStale(s)
  <2>1. version' = version /\ st' = [st EXCEPT ![s] = FailedState(s)]
    BY <1>3 DEF StoreFailure, EndRead, FailedState, fileVars
  <2>2. st \in [Sources -> SourceState]
    BY DEF IInv, TypeOK
  <2>3. seen' = [seen EXCEPT ![s].ok = FALSE, ![s].stale = TRUE]
    BY <2>1, <2>2 DEF FailedState
  <2>4. QED
    BY <2>1, <2>3 DEF Feed!GoStale
<1>4. ASSUME NEW s \in Sources,
             \/ FinishWrite(s) \/ RemoveFile(s) \/ LoseAccess(s) \/ RegainAccess(s)
             \/ ReadAttempt(s) \/ Wake(s) \/ TickerFires(s) \/ ObserveStop(s)
      PROVE  UNCHANGED Feed!vars
  BY <1>4 DEF FinishWrite, RemoveFile, LoseAccess, RegainAccess, SetFile,
              ReadAttempt, Wake, TickerFires, ObserveStop, pollVars, fileVars,
              Feed!vars
<1>5. CASE Start \/ Stop \/ Tick \/ UNCHANGED vars
  BY <1>5 DEF Start, Stop, Tick, vars, pollVars, fileVars, Feed!vars
<1>6. QED
  BY <1>1, <1>2, <1>3, <1>4, <1>5 DEF Next, Poll, Producer, Feed!Next

\* Whatever a file goes through, its readers see a feed.
THEOREM RefinesFeed == SafeSpec => ImplementsFeed
  BY RefinesInit, RefinesNext, Inductive, PTL
     DEF SafeSpec, ImplementsFeed, Feed!Spec
=============================================================================
