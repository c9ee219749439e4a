------------------------------ MODULE SourceFeed ------------------------------
(***************************************************************************)
(* What the data sources promise those who read them, with no files, no    *)
(* polling and no retries: each source shows some version its producer     *)
(* published, never goes back to an earlier one, and keeps what it has     *)
(* while it is stale.  DataSource implements this specification, and       *)
(* PanelBroadcast is built on it.                                          *)
(***************************************************************************)
EXTENDS Naturals

CONSTANTS Sources, MaxVersion

VARIABLES latest,  \* the last version each producer published, or began to
          feed     \* what a reader of each source sees

vars == <<latest, feed>>

Unread == [data |-> 0, ok |-> FALSE, stale |-> FALSE]
FeedState == [data : 0..MaxVersion, ok : BOOLEAN, stale : BOOLEAN]

Init == /\ latest = [s \in Sources |-> 0]
        /\ feed = [s \in Sources |-> Unread]

Publish(s) == /\ latest[s] < MaxVersion
              /\ latest' = [latest EXCEPT ![s] = @ + 1]
              /\ UNCHANGED feed

\* A good read shows a version at least as new as the one shown before.
Refresh(s) ==
  /\ \E v \in 1..latest[s] :
       /\ feed[s].data <= v
       /\ feed' = [feed EXCEPT ![s] = [data |-> v, ok |-> TRUE, stale |-> FALSE]]
  /\ UNCHANGED latest

GoStale(s) ==
  /\ feed' = [feed EXCEPT ![s].ok = FALSE, ![s].stale = TRUE]
  /\ UNCHANGED latest

Next == \E s \in Sources : Publish(s) \/ Refresh(s) \/ GoStale(s)

Spec == Init /\ [][Next]_vars
=============================================================================
