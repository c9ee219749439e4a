---------------------------- MODULE PanelBroadcast ----------------------------
(***************************************************************************)
(* broadcastMetrics of internal/server/websocket.go, running beside the    *)
(* data sources (as SourceFeed, which DataSource implements): every 2 s a  *)
(* connection builds one message from several reads of the sources and     *)
(* writes it to its client.  Each read takes one source's mutex for itself, *)
(* so a message mixes moments.                                             *)
(*                                                                         *)
(* Panels name what they show by a key: the full name of a source (here    *)
(* the source itself), the short name without its "app:" prefix, or, with  *)
(* no dataSource in the manifest, their own id.  GetSystemMetrics, which   *)
(* could end a pass early, returns no error.                               *)
(***************************************************************************)
EXTENDS Naturals

CONSTANTS Sources, MaxVersion,
          Conns,      \* WebSocket connections
          Panels,     \* panels with a manifest
          Names,      \* short names of sources
          ShortName,  \* Sources -> Names
          DataKey,    \* Panels -> keys: sources, short names or panel ids
          Envelope,   \* panels whose manifest sets dataEnvelope
          OwnData,    \* keys with a registered data function (GetPanelData)
          NoSource    \* the origin of data no source supplied

ASSUME KeysAssumption ==
  /\ ShortName \in [Sources -> Names]
  /\ DataKey \in [Panels -> Sources \cup Names \cup Panels]
  /\ Envelope \subseteq Panels
  /\ NoSource \notin Sources
  /\ Sources # {} /\ MaxVersion \in Nat
  /\ Sources \cap Names = {}

VARIABLES latest, feed,  \* the sources: SourceFeed
          bpc,     \* where each connection's broadcasting goroutine is
          gone,    \* connections whose reader has closed the done channel
          todo,    \* sources not yet read in the current pass
          ptodo,   \* enveloped panels not yet filled
          snap,    \* what GetAllData has returned so far
          built,   \* the message's "panels" field
          status,  \* the message's "_sourceStatus" field
          view     \* the last message its client received

feedVars == <<latest, feed>>
msgVars == <<todo, ptodo, snap, built, status>>
vars == <<feedVars, bpc, gone, msgVars, view>>

Feed == INSTANCE SourceFeed

\* A panel's entry: which source it came from and, with dataEnvelope, the
\* state that wraps the data.
Entry == [src : Sources \cup {NoSource}, data : 0..MaxVersion,
          env : BOOLEAN, ok : BOOLEAN, stale : BOOLEAN]
NoEntry == [src |-> NoSource, data |-> 0, env |-> FALSE, ok |-> FALSE, stale |-> FALSE]
\* Faulty variant: the data of a stale source is hidden.
PlainUnlessStale(s, x) == [src |-> s, data |-> IF x.stale THEN 0 ELSE x.data,
                           env |-> FALSE, ok |-> FALSE, stale |-> FALSE]
Plain(s, x) == [src |-> s, data |-> x.data, env |-> FALSE, ok |-> FALSE, stale |-> FALSE]
Wrapped(s, x) == [src |-> s, data |-> x.data, env |-> TRUE, ok |-> x.ok, stale |-> x.stale]

Status == [ok : BOOLEAN, stale : BOOLEAN]
StatusOf(x) == [ok |-> x.ok, stale |-> x.stale]

EmptyMessage == [panels |-> [p \in Panels |-> NoEntry],
                 status |-> [s \in Sources |-> StatusOf(Feed!Unread)]]

TypeOK ==
  /\ latest \in [Sources -> 0..MaxVersion]
  /\ feed \in [Sources -> Feed!FeedState]
  /\ bpc \in [Conns -> {"off", "collect", "build", "envelope", "status", "write",
                        "select", "ended"}]
  /\ gone \subseteq Conns
  /\ todo \in [Conns -> SUBSET Sources]
  /\ ptodo \in [Conns -> SUBSET Envelope]
  /\ snap \in [Conns -> [Sources -> Feed!FeedState]]
  /\ built \in [Conns -> [Panels -> Entry]]
  /\ status \in [Conns -> [Sources -> Status]]
  /\ view \in [Conns -> [panels : [Panels -> Entry], status : [Sources -> Status]]]

Init ==
  /\ Feed!Init
  /\ bpc = [c \in Conns |-> "off"]
  /\ gone = {}
  /\ todo = [c \in Conns |-> {}]
  /\ ptodo = [c \in Conns |-> {}]
  /\ snap = [c \in Conns |-> [s \in Sources |-> Feed!Unread]]
  /\ built = [c \in Conns |-> EmptyMessage.panels]
  /\ status = [c \in Conns |-> EmptyMessage.status]
  /\ view = [c \in Conns |-> EmptyMessage]

-----------------------------------------------------------------------------
\* sendMetrics begins: GetAllData will visit every source.
BeginMessage(c) ==
  /\ bpc' = [bpc EXCEPT ![c] = "collect"]
  /\ todo' = [todo EXCEPT ![c] = Sources]
  /\ UNCHANGED <<feedVars, gone, ptodo, snap, built, status, view>>

\* The first message goes out as soon as the client is authenticated.
StartBroadcast(c) == bpc[c] = "off" /\ BeginMessage(c)

TickerFires(c) == bpc[c] = "select" /\ BeginMessage(c)

\* GetAllData copies one source under its read lock; map order is arbitrary.
CollectSource(c) ==
  /\ bpc[c] = "collect"
  /\ \E s \in todo[c] :
       /\ snap' = [snap EXCEPT ![c][s] = feed[s]]
       /\ todo' = [todo EXCEPT ![c] = @ \ {s}]
       /\ bpc' = [bpc EXCEPT ![c] = IF todo[c] = {s} THEN "build" ELSE "collect"]
  /\ UNCHANGED <<feedVars, gone, ptodo, built, status, view>>

\* Which source may supply a key.  A registered data function comes first; under
\* a short name the map's iteration order decides between sources that share it.
Suppliers(k) ==
  IF k \in OwnData THEN {NoSource}
  ELSE IF k \in Sources THEN {k}
  ELSE {s \in Sources : ShortName[s] = k}

\* A panel gets the whole state only under a source's full name: GetSourceState
\* knows no short names.
IsEnveloped(p) == p \in Envelope /\ DataKey[p] \in Sources

\* Once every panel is filled, GetStatus will visit every source.
AfterPanels(c, unfilled) ==
  /\ ptodo' = [ptodo EXCEPT ![c] = unfilled]
  /\ bpc' = [bpc EXCEPT ![c] = IF unfilled = {} THEN "status" ELSE "envelope"]
  /\ todo' = [todo EXCEPT ![c] = IF unfilled = {} THEN Sources ELSE {}]

\* The raw data map and every panel that takes its data from it.
BuildPanels(c) ==
  /\ bpc[c] = "build"
  /\ \E from \in [Panels -> Sources \cup {NoSource}] :
       /\ \A p \in Panels :
            /\ \/ from[p] \in Suppliers(DataKey[p])
               \/ Suppliers(DataKey[p]) = {} /\ from[p] = NoSource
            /\ \A q \in Panels : DataKey[p] = DataKey[q] => from[p] = from[q]
       /\ built' = [built EXCEPT ![c] = [p \in Panels |->
            IF from[p] = NoSource THEN NoEntry ELSE Plain(from[p], snap[c][from[p]])]]
  /\ AfterPanels(c, {p \in Panels : IsEnveloped(p)})
  /\ snap' = [snap EXCEPT ![c] = [s \in Sources |-> Feed!Unread]]
  /\ UNCHANGED <<feedVars, gone, status, view>>

\* Faulty variant: the second read supplies the state, the first one the data.
FillEnvelopeOldData(c) ==
  /\ bpc[c] = "envelope"
  /\ \E p \in ptodo[c] :
       /\ built' = [built EXCEPT ![c][p] =
                     [Wrapped(DataKey[p], feed[DataKey[p]]) EXCEPT
                        !.data = built[c][p].data]]
       /\ AfterPanels(c, ptodo[c] \ {p})
  /\ UNCHANGED <<feedVars, gone, snap, status, view>>

\* GetSourceState reads the source again, later than GetAllData did.
FillEnvelope(c) ==
  /\ bpc[c] = "envelope"
  /\ \E p \in ptodo[c] :
       /\ built' = [built EXCEPT ![c][p] = Wrapped(DataKey[p], feed[DataKey[p]])]
       /\ AfterPanels(c, ptodo[c] \ {p})
  /\ UNCHANGED <<feedVars, gone, snap, status, view>>

\* Faulty variant: a source reported stale once is reported stale ever after.
ReadStatusSticky(c) ==
  /\ bpc[c] = "status"
  /\ \E s \in todo[c] :
       /\ status' = [status EXCEPT ![c][s] =
                      [ok |-> feed[s].ok,
                       stale |-> feed[s].stale \/ view[c].status[s].stale]]
       /\ todo' = [todo EXCEPT ![c] = @ \ {s}]
       /\ bpc' = [bpc EXCEPT ![c] = IF todo[c] = {s} THEN "write" ELSE "status"]
  /\ UNCHANGED <<feedVars, gone, ptodo, snap, built, view>>

\* GetStatus, the last read of the message.
ReadStatus(c) ==
  /\ bpc[c] = "status"
  /\ \E s \in todo[c] :
       /\ status' = [status EXCEPT ![c][s] = StatusOf(feed[s])]
       /\ todo' = [todo EXCEPT ![c] = @ \ {s}]
       /\ bpc' = [bpc EXCEPT ![c] = IF todo[c] = {s} THEN "write" ELSE "status"]
  /\ UNCHANGED <<feedVars, gone, ptodo, snap, built, view>>

\* Faulty variant: a failed write is tried again at once.
WriteMessageRetrying(c) ==
  /\ bpc[c] = "write"
  /\ c \notin gone
  /\ bpc' = [bpc EXCEPT ![c] = "select"]
  /\ view' = [view EXCEPT ![c] = [panels |-> built[c], status |-> status[c]]]
  /\ built' = [built EXCEPT ![c] = EmptyMessage.panels]
  /\ status' = [status EXCEPT ![c] = EmptyMessage.status]
  /\ UNCHANGED <<feedVars, gone, todo, ptodo, snap>>

\* conn.WriteJSON; its error only ends this message.
WriteMessage(c) ==
  /\ bpc[c] = "write"
  /\ bpc' = [bpc EXCEPT ![c] = "select"]
  /\ \/ view' = [view EXCEPT ![c] = [panels |-> built[c], status |-> status[c]]]
     \/ c \in gone /\ UNCHANGED view
  /\ built' = [built EXCEPT ![c] = EmptyMessage.panels]
  /\ status' = [status EXCEPT ![c] = EmptyMessage.status]
  /\ UNCHANGED <<feedVars, gone, todo, ptodo, snap>>

\* The reader of the connection sees it closed and closes done.
ClientLeaves(c) ==
  /\ bpc[c] # "off"
  /\ c \notin gone
  /\ gone' = gone \cup {c}
  /\ UNCHANGED <<feedVars, bpc, msgVars, view>>

ObserveDone(c) ==
  /\ bpc[c] = "select"
  /\ c \in gone
  /\ bpc' = [bpc EXCEPT ![c] = "ended"]
  /\ UNCHANGED <<feedVars, gone, msgVars, view>>

-----------------------------------------------------------------------------
SendMetrics(c) == \/ CollectSource(c) \/ BuildPanels(c) \/ FillEnvelope(c)
                  \/ ReadStatus(c) \/ WriteMessage(c)

Broadcast(c) == StartBroadcast(c) \/ TickerFires(c) \/ SendMetrics(c)

Next == \/ Feed!Next /\ UNCHANGED <<bpc, gone, msgVars, view>>
        \/ \E c \in Conns : Broadcast(c) \/ ClientLeaves(c) \/ ObserveDone(c)

\* A broadcasting goroutine keeps running, its ticker ticks, its writes end, and
\* its select, which picks one ready case at random, cannot miss done for ever.
Fairness == \A c \in Conns : WF_vars(Broadcast(c)) /\ SF_vars(ObserveDone(c))

SafeSpec == Init /\ [][Next]_vars
Spec == SafeSpec /\ Fairness

-----------------------------------------------------------------------------
(* Properties *)

\* Though built from several reads, a message never shows an envelope that
\* contradicts itself, nor data of a source that its own "_sourceStatus" still
\* reports as never read (neither ok nor stale).
MessageConsistent ==
  \A c \in Conns, p \in Panels :
    LET e == view[c].panels[p]
    IN /\ e.env /\ e.ok => e.data > 0 /\ ~e.stale
       /\ e.data > 0 => view[c].status[e.src].ok \/ view[c].status[e.src].stale

\* From one message to the next a client never sees a panel go back to an older
\* version, as long as one source supplies the panel's key.
ViewNeverRegresses ==
  [][\A c \in Conns, p \in Panels :
       (\E s \in Sources : Suppliers(DataKey[p]) = {s})
         => view[c].panels[p].data <= view'[c].panels[p].data]_view

\* What a source settles on is, in the end, what every connected client shows for
\* the panels that source supplies: the same data, and no sign of staleness.
ClientConverges ==
  \A c \in Conns, p \in Panels, s \in Sources, v \in 1..MaxVersion :
    Suppliers(DataKey[p]) = {s}
      => (<>[](feed[s].ok /\ feed[s].data = v /\ c \notin gone)
            => <>[](/\ view[c].panels[p].data = v
                    /\ view[c].status[s] = [ok |-> TRUE, stale |-> FALSE]))

\* A broadcasting goroutine ends once its client has left.
BroadcastEnds == \A c \in Conns : c \in gone ~> bpc[c] = "ended"

=============================================================================
