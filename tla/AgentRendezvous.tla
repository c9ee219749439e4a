--------------------------- MODULE AgentRendezvous ---------------------------
(***************************************************************************)
(* What delegating a task to an agent promises its caller, with no HTTP,   *)
(* no registry and no channels: every started task closes exactly once,    *)
(* with the first result that was offered to it or with none, and nothing  *)
(* offered later changes that.  AgentTask implements this specification.   *)
(***************************************************************************)
CONSTANTS Tasks,      \* calls of RunTask
          Callbacks,  \* results an agent may post
          NoResult    \* "no result", outside Callbacks

VARIABLES phase,      \* life of each task as its caller sees it
          slot,       \* the first result offered, while the task is open
          answer      \* what the caller got

vars == <<phase, slot, answer>>

Init == /\ phase = [t \in Tasks |-> "new"]
        /\ slot = [t \in Tasks |-> NoResult]
        /\ answer = [t \in Tasks |-> NoResult]

Open(t) == /\ phase[t] = "new"
           /\ phase' = [phase EXCEPT ![t] = "open"]
           /\ UNCHANGED <<slot, answer>>

\* Only the first offer is kept.
Offer(t, h) == /\ phase[t] = "open"
               /\ slot[t] = NoResult
               /\ slot' = [slot EXCEPT ![t] = h]
               /\ UNCHANGED <<phase, answer>>

\* The caller is released, with the kept result or (timeout, cancellation,
\* failed dispatch) without it.
Close(t) == /\ phase[t] = "open"
            /\ phase' = [phase EXCEPT ![t] = "closed"]
            /\ \E r \in {slot[t], NoResult} : answer' = [answer EXCEPT ![t] = r]
            /\ slot' = [slot EXCEPT ![t] = NoResult]

\* The process stops: every open task closes without an answer.
Abandon == /\ phase' = [t \in Tasks |->
                          IF phase[t] = "open" THEN "closed" ELSE phase[t]]
           /\ slot' = [t \in Tasks |-> NoResult]
           /\ UNCHANGED answer

Next == \/ \E t \in Tasks : Open(t) \/ Close(t)
        \/ \E t \in Tasks, h \in Callbacks : Offer(t, h)
        \/ Abandon

SafeSpec == Init /\ [][Next]_vars
Spec == SafeSpec /\ \A t \in Tasks : WF_vars(Close(t))
=============================================================================
