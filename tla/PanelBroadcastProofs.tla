------------------------ MODULE PanelBroadcastProofs ------------------------
(***************************************************************************)
(* Proofs about PanelBroadcast, for any number of connections, panels,     *)
(* sources and versions and any wiring between them.                       *)
(***************************************************************************)
EXTENDS PanelBroadcast, TLAPS

\* A source that shows data is ok or stale, and one that is ok shows data.
Known(x) == x.ok \/ x.stale
FeedCoherent == \A s \in Sources : /\ feed[s].data > 0 => Known(feed[s])
                                   /\ feed[s].ok => feed[s].data > 0 /\ ~feed[s].stale

\* What GetAllData has copied is no newer than what the source shows now.
SnapBehind == \A c \in Conns, s \in Sources : snap[c][s].data <= feed[s].data

EntrySound(e) ==
  /\ e.src = NoSource => e.data = 0
  /\ e.src # NoSource => e.data <= feed[e.src].data
  /\ e.env /\ e.ok => e.data > 0 /\ ~e.stale

BuiltSound == \A c \in Conns, p \in Panels : EntrySound(built[c][p])

\* Sources whose status has been read for the message under construction are
\* known there, if one of its panels shows their data.
StatusSound ==
  \A c \in Conns :
    /\ bpc[c] = "write" => todo[c] = {}
    /\ bpc[c] \in {"status", "write"} =>
         \A p \in Panels :
           LET e == built[c][p]
           IN e.data > 0 /\ e.src \notin todo[c] => Known(status[c][e.src])

\* What a client has seen of a panel with one supplier, its source has: whatever
\* is collected or built for the next message cannot be older.
Supplies(s, p) == Suppliers(DataKey[p]) = {s}

ViewBehind ==
  \A c \in Conns, p \in Panels, s \in Sources :
    Supplies(s, p) =>
      /\ view[c].panels[p].data <= feed[s].data
      /\ built[c][p].data <= feed[s].data
      /\ (bpc[c] = "collect" /\ s \notin todo[c]) \/ bpc[c] = "build"
           => view[c].panels[p].data <= snap[c][s].data
      /\ bpc[c] \in {"envelope", "status", "write"}
           => view[c].panels[p].data <= built[c][p].data

FeedTyped == /\ latest \in [Sources -> 0..MaxVersion]
             /\ feed \in [Sources -> Feed!FeedState]

-----------------------------------------------------------------------------
(* Types *)

LEMMA FeedFields ==
  ASSUME NEW x \in Feed!FeedState
  PROVE  x.data \in 0..MaxVersion /\ x.ok \in BOOLEAN /\ x.stale \in BOOLEAN
  BY DEF Feed!FeedState

LEMMA EntriesTyped ==
  /\ NoEntry \in Entry
  /\ \A s \in Sources, x \in Feed!FeedState :
       Plain(s, x) \in Entry /\ Wrapped(s, x) \in Entry /\ StatusOf(x) \in Status
  /\ Feed!Unread \in Feed!FeedState
  /\ EmptyMessage \in [panels : [Panels -> Entry], status : [Sources -> Status]]
<1>1. 0 \in 0..MaxVersion
  BY KeysAssumption
<1>2. NoEntry \in Entry
  BY <1>1 DEF NoEntry, Entry
<1>3. ASSUME NEW s \in Sources, NEW x \in Feed!FeedState
      PROVE  Plain(s, x) \in Entry /\ Wrapped(s, x) \in Entry /\ StatusOf(x) \in Status
  <2>1. Plain(s, x) \in Entry
    BY FeedFields DEF Plain, Entry
  <2>2. Wrapped(s, x) \in Entry
    BY FeedFields DEF Wrapped, Entry
  <2>3. StatusOf(x) \in Status
    BY FeedFields DEF StatusOf, Status
  <2> QED BY <2>1, <2>2, <2>3
<1>4. Feed!Unread \in Feed!FeedState
  BY <1>1 DEF Feed!Unread, Feed!FeedState
<1>5. EmptyMessage \in [panels : [Panels -> Entry], status : [Sources -> Status]]
  BY <1>2, <1>3, <1>4 DEF EmptyMessage
<1> QED BY <1>2, <1>3, <1>4, <1>5

\* A step of the sources: they stay coherent and never show older data.
LEMMA FeedStep ==
  ASSUME FeedTyped, FeedCoherent, Feed!Next
  PROVE  /\ FeedTyped' /\ FeedCoherent'
         /\ \A s \in Sources : feed[s].data <= feed'[s].data
<1>1. PICK s \in Sources : Feed!Publish(s) \/ Feed!Refresh(s) \/ Feed!GoStale(s)
  BY DEF Feed!Next
<1>2. CASE Feed!Publish(s)
  <2>1. latest[s] \in 0..MaxVersion /\ latest[s] < MaxVersion /\ feed' = feed
    BY <1>2 DEF Feed!Publish, FeedTyped
  <2>2. latest[s] + 1 \in 0..MaxVersion
    BY <2>1, KeysAssumption
  <2>3. FeedTyped'
    BY <1>2, <2>1, <2>2 DEF Feed!Publish, FeedTyped
  <2>4. \A t \in Sources : feed[t].data \in 0..MaxVersion
    BY FeedFields DEF FeedTyped
  <2> QED BY <2>1, <2>3, <2>4, KeysAssumption DEF FeedCoherent
<1>3. CASE Feed!Refresh(s)
  <2>1. PICK v \in 1..latest[s] :
           /\ feed[s].data <= v
           /\ feed' = [feed EXCEPT ![s] = [data |-> v, ok |-> TRUE, stale |-> FALSE]]
    BY <1>3 DEF Feed!Refresh
  <2>2. latest[s] \in 0..MaxVersion /\ latest' = latest
    BY <1>3 DEF Feed!Refresh, FeedTyped
  <2>3. v \in 0..MaxVersion /\ v > 0
    BY <2>2, KeysAssumption
  <2>4. [data |-> v, ok |-> TRUE, stale |-> FALSE] \in Feed!FeedState
    BY <2>3 DEF Feed!FeedState
  <2>5. FeedTyped'
    BY <2>1, <2>2, <2>4 DEF FeedTyped
  <2>6. \A t \in Sources : t # s => feed'[t] = feed[t]
    BY <2>1 DEF FeedTyped
  <2>7. feed'[s] = [data |-> v, ok |-> TRUE, stale |-> FALSE]
    BY <2>1 DEF FeedTyped
  <2>8. FeedCoherent'
    BY <2>3, <2>6, <2>7 DEF FeedCoherent, Known
  <2>9. \A t \in Sources : feed[t].data \in 0..MaxVersion
    BY FeedFields DEF FeedTyped
  <2> QED BY <2>1, <2>5, <2>6, <2>7, <2>8, <2>9, KeysAssumption
<1>4. CASE Feed!GoStale(s)
  <2>1. feed[s] \in Feed!FeedState
    BY DEF FeedTyped
  <2>2. /\ feed'[s] = [data |-> feed[s].data, ok |-> FALSE, stale |-> TRUE]
        /\ \A t \in Sources : t # s => feed'[t] = feed[t]
        /\ latest' = latest
    BY <1>4, <2>1 DEF Feed!GoStale, FeedTyped, Feed!FeedState
  <2>3. feed'[s] \in Feed!FeedState
    BY <2>1, <2>2, FeedFields DEF Feed!FeedState
  <2>4. feed' \in [Sources -> Feed!FeedState]
    BY <1>4, <2>2, <2>3 DEF Feed!GoStale, FeedTyped
  <2>5. FeedTyped'
    BY <2>2, <2>4 DEF FeedTyped
  <2>6. FeedCoherent'
    BY <2>2 DEF FeedCoherent, Known
  <2>7. \A t \in Sources : feed[t].data \in 0..MaxVersion
    BY FeedFields DEF FeedTyped
  <2>8. \A t \in Sources : feed'[t].data = feed[t].data
    BY <2>2
  <2> QED BY <2>5, <2>6, <2>7, <2>8, KeysAssumption
<1> QED BY <1>1, <1>2, <1>3, <1>4

Phases == {"off", "collect", "build", "envelope", "status", "write", "select",
           "ended"}

\* TypeOK in two parts, so that a step need only be checked against one.
MessageTyped ==
  /\ todo \in [Conns -> SUBSET Sources]
  /\ ptodo \in [Conns -> SUBSET Envelope]
  /\ snap \in [Conns -> [Sources -> Feed!FeedState]]
  /\ built \in [Conns -> [Panels -> Entry]]
  /\ status \in [Conns -> [Sources -> Status]]

ConnTyped ==
  /\ bpc \in [Conns -> Phases]
  /\ gone \subseteq Conns
  /\ view \in [Conns -> [panels : [Panels -> Entry], status : [Sources -> Status]]]

\* Only enveloped panels wait to be filled.
Awaiting == \A c \in Conns : \A p \in ptodo[c] : IsEnveloped(p)

LEMMA TypeInit == Init => TypeOK
<1> SUFFICES ASSUME Init PROVE FeedTyped /\ MessageTyped /\ ConnTyped
  BY DEF TypeOK, FeedTyped, MessageTyped, ConnTyped, Phases
<1>1. FeedTyped
  BY EntriesTyped, KeysAssumption DEF Init, Feed!Init, FeedTyped
<1>2. MessageTyped
  BY EntriesTyped DEF Init, MessageTyped
<1>3. ConnTyped
  BY EntriesTyped DEF Init, ConnTyped, Phases
<1> QED BY <1>1, <1>2, <1>3

LEMMA TypeStep == TypeOK /\ Awaiting /\ FeedCoherent /\ [Next]_vars => TypeOK'
<1> SUFFICES ASSUME FeedTyped, MessageTyped, ConnTyped, Awaiting, FeedCoherent,
                    [Next]_vars
             PROVE  FeedTyped' /\ MessageTyped' /\ ConnTyped'
  BY DEF TypeOK, FeedTyped, MessageTyped, ConnTyped, Phases
<1> USE DEF MessageTyped, ConnTyped
<1>1. CASE Feed!Next /\ UNCHANGED <<bpc, gone, msgVars, view>>
  BY <1>1, FeedStep DEF msgVars
<1>2. ASSUME NEW c \in Conns, Broadcast(c) \/ ClientLeaves(c) \/ ObserveDone(c)
      PROVE  FeedTyped' /\ MessageTyped' /\ ConnTyped'
  <2>1. CASE BeginMessage(c)
    BY <2>1 DEF BeginMessage, feedVars, FeedTyped, Phases
  <2>2. CASE CollectSource(c)
    <3>1. PICK s \in todo[c] :
             /\ snap' = [snap EXCEPT ![c][s] = feed[s]]
             /\ todo' = [todo EXCEPT ![c] = @ \ {s}]
             /\ bpc' = [bpc EXCEPT ![c] = IF todo[c] = {s} THEN "build" ELSE "collect"]
      BY <2>2 DEF CollectSource
    <3>2. snap' \in [Conns -> [Sources -> Feed!FeedState]]
      BY <3>1 DEF FeedTyped
    <3>3. todo' \in [Conns -> SUBSET Sources] /\ bpc' \in [Conns -> Phases]
      BY <3>1 DEF Phases
    <3> QED BY <2>2, <3>2, <3>3 DEF CollectSource, feedVars, FeedTyped
  <2>3. CASE BuildPanels(c)
    <3>1. PICK from \in [Panels -> Sources \cup {NoSource}] :
             built' = [built EXCEPT ![c] = [p \in Panels |->
                IF from[p] = NoSource THEN NoEntry ELSE Plain(from[p], snap[c][from[p]])]]
      BY <2>3 DEF BuildPanels
    <3>2. \A p \in Panels : from[p] # NoSource => Plain(from[p], snap[c][from[p]]) \in Entry
      BY EntriesTyped
    <3>3. built' \in [Conns -> [Panels -> Entry]]
      BY <3>1, <3>2, EntriesTyped
    <3>4. snap' \in [Conns -> [Sources -> Feed!FeedState]]
      BY <2>3, EntriesTyped DEF BuildPanels
    <3>5. /\ ptodo' \in [Conns -> SUBSET Envelope]
          /\ bpc' \in [Conns -> Phases]
          /\ todo' \in [Conns -> SUBSET Sources]
      BY <2>3 DEF BuildPanels, AfterPanels, IsEnveloped, Phases
    <3> QED BY <2>3, <3>3, <3>4, <3>5 DEF BuildPanels, feedVars, FeedTyped
  <2>4. CASE FillEnvelope(c)
    <3>1. PICK p \in ptodo[c] :
             /\ built' = [built EXCEPT ![c][p] = Wrapped(DataKey[p], feed[DataKey[p]])]
             /\ AfterPanels(c, ptodo[c] \ {p})
      BY <2>4 DEF FillEnvelope
    <3>2. p \in Panels /\ DataKey[p] \in Sources
      BY KeysAssumption DEF Awaiting, IsEnveloped
    <3>3. Wrapped(DataKey[p], feed[DataKey[p]]) \in Entry
      BY <3>2, EntriesTyped DEF FeedTyped
    <3>4. built' \in [Conns -> [Panels -> Entry]]
      BY <3>1, <3>2, <3>3
    <3>5. /\ ptodo' \in [Conns -> SUBSET Envelope]
          /\ bpc' \in [Conns -> Phases]
          /\ todo' \in [Conns -> SUBSET Sources]
      BY <3>1 DEF AfterPanels, Phases
    <3> QED BY <2>4, <3>4, <3>5 DEF FillEnvelope, feedVars, FeedTyped
  <2>5. CASE ReadStatus(c)
    <3>1. PICK s \in todo[c] :
             /\ status' = [status EXCEPT ![c][s] = StatusOf(feed[s])]
             /\ todo' = [todo EXCEPT ![c] = @ \ {s}]
             /\ bpc' = [bpc EXCEPT ![c] = IF todo[c] = {s} THEN "write" ELSE "status"]
      BY <2>5 DEF ReadStatus
    <3>2. status' \in [Conns -> [Sources -> Status]]
      BY <3>1, EntriesTyped DEF FeedTyped
    <3>3. todo' \in [Conns -> SUBSET Sources] /\ bpc' \in [Conns -> Phases]
      BY <3>1 DEF Phases
    <3> QED BY <2>5, <3>2, <3>3 DEF ReadStatus, feedVars, FeedTyped
  <2>6. CASE WriteMessage(c)
    <3>1. /\ built' \in [Conns -> [Panels -> Entry]]
          /\ status' \in [Conns -> [Sources -> Status]]
      BY <2>6, EntriesTyped DEF WriteMessage
    <3>2. [panels |-> built[c], status |-> status[c]]
            \in [panels : [Panels -> Entry], status : [Sources -> Status]]
      OBVIOUS
    <3>3. view' \in [Conns -> [panels : [Panels -> Entry], status : [Sources -> Status]]]
      BY <2>6, <3>2 DEF WriteMessage
    <3>4. bpc' \in [Conns -> Phases]
      BY <2>6 DEF WriteMessage, Phases
    <3> QED BY <2>6, <3>1, <3>3, <3>4 DEF WriteMessage, feedVars, FeedTyped
  <2>7. CASE ClientLeaves(c)
    BY <2>7 DEF ClientLeaves, feedVars, msgVars, FeedTyped
  <2>8. CASE ObserveDone(c)
    BY <2>8 DEF ObserveDone, feedVars, msgVars, FeedTyped, Phases
  <2> QED BY <1>2, <2>1, <2>2, <2>3, <2>4, <2>5, <2>6, <2>7, <2>8
          DEF Broadcast, StartBroadcast, TickerFires, SendMetrics
<1>3. CASE UNCHANGED vars
  BY <1>3 DEF vars, feedVars, msgVars, FeedTyped
<1> QED BY <1>1, <1>2, <1>3 DEF Next

-----------------------------------------------------------------------------
(* Every message is consistent *)

PanelInv == /\ TypeOK /\ FeedCoherent /\ Awaiting /\ SnapBehind /\ BuiltSound
            /\ StatusSound /\ MessageConsistent

\* What the reads below need of TypeOK.
LEMMA TypeFacts ==
  ASSUME TypeOK
  PROVE  /\ FeedTyped
         /\ \A s \in Sources : feed[s].data \in Nat
         /\ \A c \in Conns, s \in Sources : snap[c][s].data \in Nat
         /\ \A c \in Conns, p \in Panels :
              /\ built[c][p].data \in Nat
              /\ view[c].panels[p].data \in Nat
              /\ built[c][p].src \in Sources \cup {NoSource}
              /\ view[c].panels[p].src \in Sources \cup {NoSource}
<1> USE KeysAssumption DEF TypeOK
<1>1. FeedTyped
  BY DEF FeedTyped
<1>2. \A s \in Sources : feed[s].data \in Nat
  BY FeedFields
<1>3. \A c \in Conns, s \in Sources : snap[c][s].data \in Nat
  BY FeedFields
<1>4. \A e \in Entry : e.data \in Nat /\ e.src \in Sources \cup {NoSource}
  BY DEF Entry
<1>5. \A c \in Conns, p \in Panels :
        built[c][p] \in Entry /\ view[c].panels[p] \in Entry
  OBVIOUS
<1> QED BY <1>1, <1>2, <1>3, <1>4, <1>5

LEMMA PanelInvInit == Init => PanelInv
<1> SUFFICES ASSUME Init PROVE PanelInv
  OBVIOUS
<1>1. TypeOK
  BY TypeInit
<1>0. Feed!Unread.data = 0 /\ ~Feed!Unread.ok /\ ~(0 > 0)
  BY DEF Feed!Unread
<1>2. FeedCoherent
  BY <1>0 DEF Init, Feed!Init, FeedCoherent
<1>3. Awaiting
  BY DEF Init, Awaiting
<1>4. SnapBehind
  <2>1. \A c \in Conns, s \in Sources : snap[c][s] = Feed!Unread /\ feed[s] = Feed!Unread
    BY DEF Init, Feed!Init
  <2> QED BY <1>0, <2>1 DEF SnapBehind
<1>5. BuiltSound
  BY DEF Init, EmptyMessage, NoEntry, BuiltSound, EntrySound
<1>6. StatusSound
  BY DEF Init, StatusSound
<1>7. MessageConsistent
  BY DEF Init, EmptyMessage, NoEntry, MessageConsistent
<1> QED BY <1>1, <1>2, <1>3, <1>4, <1>5, <1>6, <1>7 DEF PanelInv

LEMMA EntryFields ==
  /\ NoEntry.src = NoSource /\ NoEntry.data = 0 /\ ~NoEntry.env
  /\ \A s \in Sources, x \in Feed!FeedState :
       /\ Plain(s, x).src = s /\ Plain(s, x).data = x.data /\ ~Plain(s, x).env
       /\ Wrapped(s, x).src = s /\ Wrapped(s, x).data = x.data
       /\ Wrapped(s, x).ok = x.ok /\ Wrapped(s, x).stale = x.stale
       /\ StatusOf(x).ok = x.ok /\ StatusOf(x).stale = x.stale
  BY DEF NoEntry, Plain, Wrapped, StatusOf

LEMMA PanelInvStep == PanelInv /\ [Next]_vars => PanelInv'
<1> SUFFICES ASSUME PanelInv, [Next]_vars PROVE PanelInv'
  OBVIOUS
<1>0. TypeOK'
  BY TypeStep DEF PanelInv
<1> USE DEF PanelInv
<1>1. CASE Feed!Next /\ UNCHANGED <<bpc, gone, msgVars, view>>
  <2>1. FeedCoherent' /\ \A s \in Sources : feed[s].data <= feed'[s].data
    BY <1>1, FeedStep, TypeFacts
  <2>2. \A s \in Sources : feed[s].data \in Nat /\ feed'[s].data \in Nat
    BY <1>0, FeedFields, KeysAssumption DEF TypeOK
  <2>3. SnapBehind'
    BY <1>1, <2>1, <2>2, TypeFacts DEF SnapBehind, msgVars
  <2>4. BuiltSound'
    BY <1>1, <2>1, <2>2, TypeFacts DEF BuiltSound, EntrySound, msgVars
  <2> QED BY <1>0, <1>1, <2>1, <2>3, <2>4
          DEF Awaiting, StatusSound, MessageConsistent, msgVars
<1>2. ASSUME NEW c \in Conns, Broadcast(c) \/ ClientLeaves(c) \/ ObserveDone(c)
      PROVE  PanelInv'
  <2>1. CASE BeginMessage(c)
    <3>1. StatusSound'
      BY <2>1 DEF BeginMessage, StatusSound, TypeOK
    <3> QED BY <1>0, <2>1, <3>1 DEF BeginMessage, feedVars, FeedCoherent, Awaiting,
              SnapBehind, BuiltSound, EntrySound, MessageConsistent
  <2>2. CASE CollectSource(c)
    <3>1. PICK s \in todo[c] :
             /\ snap' = [snap EXCEPT ![c][s] = feed[s]]
             /\ todo' = [todo EXCEPT ![c] = @ \ {s}]
             /\ bpc' = [bpc EXCEPT ![c] = IF todo[c] = {s} THEN "build" ELSE "collect"]
      BY <2>2 DEF CollectSource
    <3>2. \A d \in Conns, t \in Sources : snap'[d][t] \in {snap[d][t], feed[t]}
      BY <3>1 DEF TypeOK
    <3>3. SnapBehind'
      BY <2>2, <3>2, TypeFacts DEF CollectSource, feedVars, SnapBehind
    <3>4. StatusSound'
      BY <2>2, <3>1 DEF CollectSource, StatusSound, TypeOK
    <3> QED BY <1>0, <2>2, <3>3, <3>4 DEF CollectSource, feedVars, FeedCoherent,
              Awaiting, BuiltSound, EntrySound, MessageConsistent
  <2>3. CASE BuildPanels(c)
    <3>1. PICK from \in [Panels -> Sources \cup {NoSource}] :
             built' = [built EXCEPT ![c] = [p \in Panels |->
                IF from[p] = NoSource THEN NoEntry ELSE Plain(from[p], snap[c][from[p]])]]
      BY <2>3 DEF BuildPanels
    <3>2. ASSUME NEW p \in Panels PROVE EntrySound(built'[c][p])
      <4>1. CASE from[p] = NoSource
        BY <3>1, <4>1, EntryFields DEF EntrySound, TypeOK
      <4>2. CASE from[p] # NoSource
        <5>1. from[p] \in Sources /\ snap[c][from[p]] \in Feed!FeedState
          BY <4>2 DEF TypeOK
        <5>2. built'[c][p] = Plain(from[p], snap[c][from[p]])
          BY <3>1, <4>2 DEF TypeOK
        <5>3. /\ built'[c][p].src = from[p]
              /\ built'[c][p].data = snap[c][from[p]].data
              /\ ~built'[c][p].env
          BY <5>1, <5>2, EntryFields
        <5> QED BY <2>3, <4>2, <5>1, <5>3
                DEF BuildPanels, feedVars, SnapBehind, EntrySound
      <4> QED BY <4>1, <4>2
    <3>3. \A d \in Conns : d # c => built'[d] = built[d]
      BY <3>1 DEF TypeOK
    <3>4. BuiltSound'
      BY <2>3, <3>2, <3>3 DEF BuildPanels, feedVars, BuiltSound, EntrySound
    <3>5. SnapBehind'
      <4>1. \A d \in Conns, t \in Sources : snap'[d][t] \in {snap[d][t], Feed!Unread}
        BY <2>3 DEF BuildPanels, TypeOK
      <4> QED BY <2>3, <4>1, TypeFacts
              DEF BuildPanels, feedVars, SnapBehind, Feed!Unread
    <3>6. Awaiting'
      BY <2>3 DEF BuildPanels, AfterPanels, Awaiting, TypeOK
    <3>7. StatusSound'
      <4>1. \A d \in Conns : d # c => /\ built'[d] = built[d] /\ bpc'[d] = bpc[d]
                                      /\ todo'[d] = todo[d] /\ status'[d] = status[d]
        BY <2>3, <3>3 DEF BuildPanels, AfterPanels, TypeOK
      <4>2. /\ bpc'[c] \in {"envelope", "status"}
            /\ bpc'[c] = "status" => todo'[c] = Sources
        BY <2>3 DEF BuildPanels, AfterPanels, TypeOK
      <4>3. \A p \in Panels : built'[c][p].data > 0 => built'[c][p].src \in Sources
        <5>1. \A p \in Panels : built'[c][p] \in Entry
          BY <1>0 DEF TypeOK
        <5> QED BY <3>4, <5>1 DEF BuiltSound, EntrySound, Entry
      <4> QED BY <4>1, <4>2, <4>3 DEF StatusSound
    <3> QED BY <1>0, <2>3, <3>4, <3>5, <3>6, <3>7
            DEF BuildPanels, feedVars, FeedCoherent, MessageConsistent
  <2>4. CASE FillEnvelope(c)
    <3>1. PICK p \in ptodo[c] :
             /\ built' = [built EXCEPT ![c][p] = Wrapped(DataKey[p], feed[DataKey[p]])]
             /\ AfterPanels(c, ptodo[c] \ {p})
      BY <2>4 DEF FillEnvelope
    <3>2. p \in Panels /\ DataKey[p] \in Sources /\ feed[DataKey[p]] \in Feed!FeedState
      BY KeysAssumption DEF Awaiting, IsEnveloped, TypeOK
    <3> DEFINE s == DataKey[p]
    <3>3. built'[c][p] = Wrapped(s, feed[s])
      BY <3>1, <3>2 DEF TypeOK
    <3>4. EntrySound(built'[c][p])
      BY <3>2, <3>3, EntryFields, TypeFacts, KeysAssumption
         DEF EntrySound, FeedCoherent
    <3>5. \A d \in Conns, q \in Panels :
            d # c \/ q # p => built'[d][q] = built[d][q]
      BY <3>1 DEF TypeOK
    <3>6. BuiltSound'
      BY <2>4, <3>4, <3>5 DEF FillEnvelope, feedVars, BuiltSound, EntrySound
    <3>7. Awaiting'
      BY <3>1 DEF AfterPanels, Awaiting, TypeOK
    <3>8. StatusSound'
      <4>1. \A d \in Conns : d # c => /\ built'[d] = built[d] /\ bpc'[d] = bpc[d]
                                      /\ todo'[d] = todo[d] /\ status'[d] = status[d]
        BY <2>4, <3>1 DEF FillEnvelope, AfterPanels, TypeOK
      <4>2. /\ bpc'[c] \in {"envelope", "status"}
            /\ bpc'[c] = "status" => todo'[c] = Sources
        BY <3>1 DEF AfterPanels, TypeOK
      <4>3. \A q \in Panels : built'[c][q].data > 0 => built'[c][q].src \in Sources
        <5>1. \A q \in Panels : built'[c][q] \in Entry
          BY <1>0 DEF TypeOK
        <5> QED BY <3>6, <5>1 DEF BuiltSound, EntrySound, Entry
      <4> QED BY <4>1, <4>2, <4>3 DEF StatusSound
    <3> QED BY <1>0, <2>4, <3>6, <3>7, <3>8
            DEF FillEnvelope, feedVars, FeedCoherent, SnapBehind, MessageConsistent
  <2>5. CASE ReadStatus(c)
    <3>1. PICK s \in todo[c] :
             /\ status' = [status EXCEPT ![c][s] = StatusOf(feed[s])]
             /\ todo' = [todo EXCEPT ![c] = @ \ {s}]
             /\ bpc' = [bpc EXCEPT ![c] = IF todo[c] = {s} THEN "write" ELSE "status"]
      BY <2>5 DEF ReadStatus
    <3>2. s \in Sources /\ feed[s] \in Feed!FeedState
      BY DEF TypeOK
    <3>3. bpc'[c] = "write" => todo'[c] = {}
      BY <3>1 DEF TypeOK
    <3>4. \A t \in Sources : t # s => status'[c][t] = status[c][t]
      BY <3>1 DEF TypeOK
    <3>5. feed[s].data > 0 => Known(status'[c][s])
      <4>1. status'[c][s] = StatusOf(feed[s])
        BY <3>1, <3>2 DEF TypeOK
      <4> QED BY <3>2, <4>1, EntryFields DEF Known, FeedCoherent
    <3>6. ASSUME NEW p \in Panels, built[c][p].data > 0,
                 built[c][p].src \notin todo'[c]
          PROVE  Known(status'[c][built[c][p].src])
      <4> DEFINE e == built[c][p]
      <4>1. EntrySound(e)
        BY DEF BuiltSound
      <4>2. e.src \in Sources /\ e.data <= feed[e.src].data
        BY <3>6, <4>1, TypeFacts DEF EntrySound
      <4>3. CASE e.src = s
        BY <3>2, <3>5, <3>6, <4>2, <4>3, TypeFacts
      <4>4. CASE e.src # s
        <5>1. e.src \notin todo[c]
          BY <3>1, <3>6, <4>4 DEF TypeOK
        <5>2. Known(status[c][e.src])
          BY <2>5, <3>6, <5>1 DEF ReadStatus, StatusSound
        <5> QED BY <3>4, <4>2, <4>4, <5>2
      <4> QED BY <4>3, <4>4
    <3>7. \A d \in Conns : d # c => /\ bpc'[d] = bpc[d] /\ todo'[d] = todo[d]
                                    /\ status'[d] = status[d]
      BY <3>1 DEF TypeOK
    <3>8. built' = built
      BY <2>5 DEF ReadStatus
    <3>9. StatusSound'
      BY <3>3, <3>6, <3>7, <3>8 DEF StatusSound
    <3> QED BY <1>0, <2>5, <3>9 DEF ReadStatus, feedVars, FeedCoherent, Awaiting,
              SnapBehind, BuiltSound, EntrySound, MessageConsistent
  <2>6. CASE WriteMessage(c)
    <3>1. \A p \in Panels : built'[c][p] = NoEntry
      BY <2>6 DEF WriteMessage, EmptyMessage, TypeOK
    <3>2. \A d \in Conns : d # c => /\ built'[d] = built[d] /\ bpc'[d] = bpc[d]
                                    /\ status'[d] = status[d] /\ view'[d] = view[d]
      BY <2>6 DEF WriteMessage, TypeOK
    <3>3. BuiltSound'
      BY <2>6, <3>1, <3>2, EntryFields
         DEF WriteMessage, feedVars, BuiltSound, EntrySound
    <3>4. StatusSound'
      BY <2>6, <3>2 DEF WriteMessage, StatusSound, TypeOK
    <3>5. \/ view'[c] = view[c]
          \/ view'[c].panels = built[c] /\ view'[c].status = status[c]
      BY <2>6 DEF WriteMessage, TypeOK
    <3>6. ASSUME NEW p \in Panels
          PROVE  LET e == built[c][p]
                 IN /\ e.env /\ e.ok => e.data > 0 /\ ~e.stale
                    /\ e.data > 0 => Known(status[c][e.src])
      BY <2>6 DEF WriteMessage, BuiltSound, EntrySound, StatusSound
    <3>7. MessageConsistent'
      BY <3>2, <3>5, <3>6 DEF MessageConsistent, Known
    <3> QED BY <1>0, <2>6, <3>3, <3>4, <3>7
            DEF WriteMessage, feedVars, FeedCoherent, Awaiting, SnapBehind
  <2>7. CASE ClientLeaves(c)
    BY <1>0, <2>7 DEF ClientLeaves, feedVars, msgVars, FeedCoherent, Awaiting,
       SnapBehind, BuiltSound, EntrySound, StatusSound, MessageConsistent
  <2>8. CASE ObserveDone(c)
    <3>1. StatusSound'
      BY <2>8 DEF ObserveDone, msgVars, StatusSound, TypeOK
    <3> QED BY <1>0, <2>8, <3>1 DEF ObserveDone, feedVars, msgVars, FeedCoherent,
              Awaiting, SnapBehind, BuiltSound, EntrySound, MessageConsistent
  <2> QED BY <1>2, <2>1, <2>2, <2>3, <2>4, <2>5, <2>6, <2>7, <2>8
          DEF Broadcast, StartBroadcast, TickerFires, SendMetrics
<1>3. CASE UNCHANGED vars
  BY <1>0, <1>3 DEF vars, feedVars, msgVars, FeedCoherent, Awaiting, SnapBehind,
     BuiltSound, EntrySound, StatusSound, MessageConsistent
<1> QED BY <1>1, <1>2, <1>3 DEF Next

LEMMA PanelInvHolds == SafeSpec => []PanelInv
  BY PanelInvInit, PanelInvStep, PTL DEF SafeSpec

\* Every reachable state is well typed: no panel is wrapped in the state of a
\* source that does not exist.
THEOREM TypeCorrect == SafeSpec => []TypeOK
<1>1. PanelInv => TypeOK
  BY DEF PanelInv
<1> QED BY <1>1, PanelInvHolds, PTL

\* However the sources change between the reads a message is built from, no client
\* receives one that contradicts itself.
THEOREM MessagesAreConsistent == SafeSpec => []MessageConsistent
<1>1. PanelInv => MessageConsistent
  BY DEF PanelInv
<1> QED BY <1>1, PanelInvHolds, PTL

-----------------------------------------------------------------------------
(* What a client sees never goes back *)

LEMMA SupplierOfEnvelope ==
  ASSUME NEW p \in Panels, NEW s \in Sources, Supplies(s, p), IsEnveloped(p)
  PROVE  DataKey[p] = s
  BY KeysAssumption DEF Supplies, Suppliers, IsEnveloped

LEMMA ViewBehindInit == Init => ViewBehind
<1> SUFFICES ASSUME Init PROVE ViewBehind
  OBVIOUS
<1>1. Feed!Unread.data = 0 /\ NoEntry.data = 0 /\ 0 <= 0
  BY DEF Feed!Unread, NoEntry
<1> QED BY <1>1 DEF Init, Feed!Init, EmptyMessage, ViewBehind

LEMMA ViewBehindStep ==
  PanelInv /\ PanelInv' /\ ViewBehind /\ [Next]_vars => ViewBehind'
<1> SUFFICES ASSUME PanelInv, PanelInv', ViewBehind, [Next]_vars PROVE ViewBehind'
  OBVIOUS
<1>0. TypeOK /\ TypeOK' /\ SnapBehind /\ BuiltSound /\ FeedCoherent /\ Awaiting
  BY DEF PanelInv
<1>n. /\ \A s \in Sources : feed[s].data \in Nat /\ feed'[s].data \in Nat
      /\ \A c \in Conns, s \in Sources : snap[c][s].data \in Nat
      /\ \A c \in Conns, p \in Panels :
           built[c][p].data \in Nat /\ view[c].panels[p].data \in Nat
  <2>1. \A s \in Sources : feed'[s].data \in Nat
    BY <1>0, FeedFields, KeysAssumption DEF TypeOK
  <2> QED BY <1>0, <2>1, TypeFacts
<1>1. CASE Feed!Next /\ UNCHANGED <<bpc, gone, msgVars, view>>
  <2>1. \A s \in Sources : feed[s].data <= feed'[s].data
    BY <1>0, <1>1, FeedStep, TypeFacts
  <2> QED BY <1>1, <1>n, <2>1 DEF ViewBehind, msgVars
<1>2. ASSUME NEW c \in Conns, Broadcast(c) \/ ClientLeaves(c) \/ ObserveDone(c)
      PROVE  ViewBehind'
  <2>1. CASE BeginMessage(c)
    BY <1>0, <2>1 DEF BeginMessage, feedVars, ViewBehind, TypeOK
  <2>2. CASE CollectSource(c)
    <3>1. PICK s \in todo[c] :
             /\ snap' = [snap EXCEPT ![c][s] = feed[s]]
             /\ todo' = [todo EXCEPT ![c] = @ \ {s}]
             /\ bpc' = [bpc EXCEPT ![c] = IF todo[c] = {s} THEN "build" ELSE "collect"]
      BY <2>2 DEF CollectSource
    <3>2. /\ snap'[c][s] = feed[s]
          /\ \A t \in Sources : t # s => snap'[c][t] = snap[c][t]
          /\ \A d \in Conns : d # c => snap'[d] = snap[d]
      BY <1>0, <3>1 DEF TypeOK
    <3>3. /\ todo'[c] = todo[c] \ {s}
          /\ bpc'[c] \in {"build", "collect"}
          /\ bpc'[c] = "build" => todo'[c] = {}
          /\ \A d \in Conns : d # c => todo'[d] = todo[d] /\ bpc'[d] = bpc[d]
      BY <1>0, <3>1 DEF TypeOK
    <3> QED BY <2>2, <3>2, <3>3 DEF CollectSource, feedVars, ViewBehind
  <2>3. CASE BuildPanels(c)
    <3>1. PICK from \in [Panels -> Sources \cup {NoSource}] :
             /\ \A p \in Panels : \/ from[p] \in Suppliers(DataKey[p])
                                  \/ Suppliers(DataKey[p]) = {} /\ from[p] = NoSource
             /\ built' = [built EXCEPT ![c] = [p \in Panels |->
                  IF from[p] = NoSource THEN NoEntry
                  ELSE Plain(from[p], snap[c][from[p]])]]
      BY <2>3 DEF BuildPanels
    <3>2. ASSUME NEW p \in Panels, NEW s \in Sources, Supplies(s, p)
          PROVE  built'[c][p].data = snap[c][s].data
      <4>1. from[p] = s /\ s # NoSource
        BY <3>1, <3>2, KeysAssumption DEF Supplies
      <4>2. built'[c][p] = Plain(s, snap[c][s])
        BY <1>0, <3>1, <4>1 DEF TypeOK
      <4> QED BY <1>0, <4>2, EntryFields DEF TypeOK
    <3>3. /\ bpc[c] = "build" /\ bpc'[c] \in {"envelope", "status"}
          /\ \A d \in Conns : d # c => bpc'[d] = bpc[d] /\ todo'[d] = todo[d]
      BY <1>0, <2>3 DEF BuildPanels, AfterPanels, TypeOK
    <3>4. \A d \in Conns : d # c => built'[d] = built[d] /\ snap'[d] = snap[d]
      BY <1>0, <2>3, <3>1 DEF BuildPanels, TypeOK
    <3> QED BY <1>0, <2>3, <3>2, <3>3, <3>4
            DEF BuildPanels, feedVars, ViewBehind, SnapBehind
  <2>4. CASE FillEnvelope(c)
    <3>1. PICK p \in ptodo[c] :
             /\ built' = [built EXCEPT ![c][p] = Wrapped(DataKey[p], feed[DataKey[p]])]
             /\ AfterPanels(c, ptodo[c] \ {p})
      BY <2>4 DEF FillEnvelope
    <3>2. p \in Panels /\ IsEnveloped(p)
      BY <1>0, KeysAssumption DEF Awaiting, TypeOK
    <3>3. ASSUME NEW s \in Sources, Supplies(s, p)
          PROVE  built'[c][p].data = feed[s].data
      <4>1. built'[c][p] = Wrapped(s, feed[s])
        BY <1>0, <3>1, <3>2, <3>3, SupplierOfEnvelope DEF TypeOK
      <4> QED BY <1>0, <4>1, EntryFields DEF TypeOK
    <3>4. \A d \in Conns, q \in Panels : d # c \/ q # p => built'[d][q] = built[d][q]
      BY <1>0, <3>1 DEF TypeOK
    <3>5. /\ bpc[c] = "envelope" /\ bpc'[c] \in {"envelope", "status"}
          /\ \A d \in Conns : d # c => bpc'[d] = bpc[d] /\ todo'[d] = todo[d]
      BY <1>0, <2>4, <3>1 DEF FillEnvelope, AfterPanels, TypeOK
    <3> QED BY <1>n, <2>4, <3>3, <3>4, <3>5 DEF FillEnvelope, feedVars, ViewBehind
  <2>5. CASE ReadStatus(c)
    <3>1. /\ bpc[c] = "status" /\ bpc'[c] \in {"status", "write"}
          /\ \A d \in Conns : d # c => bpc'[d] = bpc[d] /\ todo'[d] = todo[d]
      BY <1>0, <2>5 DEF ReadStatus, TypeOK
    <3> QED BY <2>5, <3>1 DEF ReadStatus, feedVars, ViewBehind
  <2>6. CASE WriteMessage(c)
    <3>1. /\ bpc[c] = "write" /\ bpc'[c] = "select"
          /\ \A d \in Conns : d # c => /\ bpc'[d] = bpc[d] /\ built'[d] = built[d]
                                       /\ view'[d] = view[d]
      BY <1>0, <2>6 DEF WriteMessage, TypeOK
    <3>2. view'[c] = view[c] \/ view'[c].panels = built[c]
      BY <1>0, <2>6 DEF WriteMessage, TypeOK
    <3>3. ASSUME NEW p \in Panels, NEW s \in Sources, Supplies(s, p)
          PROVE  built[c][p].data <= feed[s].data
      BY <3>3 DEF ViewBehind
    <3>4. \A p \in Panels : built'[c][p].data = 0
      BY <1>0, <2>6 DEF WriteMessage, EmptyMessage, NoEntry, TypeOK
    <3> QED BY <1>n, <2>6, <3>1, <3>2, <3>3, <3>4 DEF WriteMessage, feedVars, ViewBehind
  <2>7. CASE ClientLeaves(c)
    BY <2>7 DEF ClientLeaves, feedVars, msgVars, ViewBehind
  <2>8. CASE ObserveDone(c)
    BY <1>0, <2>8 DEF ObserveDone, feedVars, msgVars, ViewBehind, TypeOK
  <2> QED BY <1>2, <2>1, <2>2, <2>3, <2>4, <2>5, <2>6, <2>7, <2>8
          DEF Broadcast, StartBroadcast, TickerFires, SendMetrics
<1>3. CASE UNCHANGED vars
  BY <1>3 DEF vars, feedVars, msgVars, ViewBehind
<1> QED BY <1>1, <1>2, <1>3 DEF Next

LEMMA ViewBehindHolds == SafeSpec => []ViewBehind
  BY PanelInvHolds, ViewBehindInit, ViewBehindStep, PTL DEF SafeSpec

\* From one message to the next, no client sees a panel with one supplier go back
\* to older data, whatever mixture of moments the message was built from.
THEOREM ViewsOnlyAdvance == SafeSpec => ViewNeverRegresses
<1> DEFINE Forward ==
      \A c \in Conns, p \in Panels :
        (\E s \in Sources : Suppliers(DataKey[p]) = {s})
          => view[c].panels[p].data <= view'[c].panels[p].data
<1>1. ASSUME PanelInv, ViewBehind, [Next]_vars PROVE Forward \/ view' = view
  <2>1. \A c \in Conns, p \in Panels : view[c].panels[p].data \in Nat
    BY <1>1, TypeFacts DEF PanelInv
  <2>2. CASE \E c \in Conns : WriteMessage(c)
    <3> PICK c \in Conns : WriteMessage(c)
      BY <2>2
    <3>1. \A d \in Conns : d # c => view'[d] = view[d]
      BY <1>1 DEF WriteMessage, PanelInv, TypeOK
    <3>2. view'[c] = view[c] \/ view'[c].panels = built[c]
      BY <1>1 DEF WriteMessage, PanelInv, TypeOK
    <3>3. \A p \in Panels, s \in Sources :
            Supplies(s, p) => view[c].panels[p].data <= built[c][p].data
      BY <1>1 DEF WriteMessage, ViewBehind
    <3> QED BY <2>1, <3>1, <3>2, <3>3 DEF Supplies
  <2>3. CASE ~\E c \in Conns : WriteMessage(c)
    BY <1>1, <2>3 DEF Next, Broadcast, StartBroadcast, TickerFires, BeginMessage,
       SendMetrics, CollectSource, BuildPanels, FillEnvelope, ReadStatus,
       ClientLeaves, ObserveDone, vars
  <2> QED BY <2>2, <2>3
<1>2. PanelInv /\ ViewBehind /\ [Next]_vars => [Forward]_view
  BY <1>1
<1>3. SafeSpec => [][Forward]_view
  BY <1>2, PanelInvHolds, ViewBehindHolds, PTL DEF SafeSpec
<1> QED BY <1>3 DEF ViewNeverRegresses
=============================================================================
