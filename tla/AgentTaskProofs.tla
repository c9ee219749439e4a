--------------------------- MODULE AgentTaskProofs ---------------------------
(***************************************************************************)
(* Proofs about AgentTask, for any number of tasks, callbacks and          *)
(* restarts: its invariants, and that it implements AgentRendezvous.       *)
(***************************************************************************)
EXTENDS AgentTask, TLAPS

\* What a callback's control point says of its target and its reply.
CallbackInv ==
  \A h \in Callbacks :
    /\ hpc[h] = "none" => target[h] = NoTask /\ reply[h] = "none"
    /\ hpc[h] \in {"parsed", "holding"} => reply[h] = "none"
    /\ hpc[h] = "holding" => target[h] \in Tasks
    /\ target[h] \in Tasks => pc[target[h]] # "idle"

\* What a task's control point says of its outcome, and where a value in its
\* channel comes from.
TaskInv ==
  \A t \in Tasks :
    /\ t \in accepted => pc[t] # "idle"
    /\ pc[t] \in {"idle", "posting", "waiting"}
         => status[t] = "none" /\ result[t] = NoResult
    /\ chan[t] # NoResult => target[chan[t]] = t /\ reply[chan[t]] = "ok"
    /\ result[t] # NoResult => target[result[t]] = t /\ reply[result[t]] = "ok"
    /\ status[t] = "result" <=> result[t] # NoResult

IInv == /\ TypeOK
        /\ RegisteredWhileRunning
        /\ UnknownOnlyAfterReturn
        /\ CallbackInv
        /\ TaskInv

-----------------------------------------------------------------------------
\* The variables keep their types.
THEOREM TypeCorrect == SafeSpec => []TypeOK
<1>1. Init => TypeOK
  BY ConstantsAssumption DEF Init, TypeOK, Running
<1>2. TypeOK /\ [Next]_vars => TypeOK'
  <2> SUFFICES ASSUME TypeOK, [Next]_vars PROVE TypeOK'
    OBVIOUS
  <2> USE DEF TypeOK, taskVars, callbackVars, Running, Failures
  <2>1. ASSUME NEW t \in Tasks, RegisterTask(t) PROVE TypeOK'
    BY <2>1 DEF RegisterTask
  <2>2. ASSUME NEW t \in Tasks, PostHookOk(t) PROVE TypeOK'
    BY <2>2 DEF PostHookOk
  <2>3. ASSUME NEW t \in Tasks, PostHookFails(t) PROVE TypeOK'
    BY <2>3 DEF PostHookFails, Leave
  <2>4. ASSUME NEW t \in Tasks, ReceiveResult(t) PROVE TypeOK'
    BY <2>4 DEF ReceiveResult, Leave
  <2>5. ASSUME NEW t \in Tasks, TimerFires(t) PROVE TypeOK'
    BY <2>5 DEF TimerFires, Leave
  <2>6. ASSUME NEW t \in Tasks, ContextDone(t) PROVE TypeOK'
    BY <2>6 DEF ContextDone, Leave
  <2>7. ASSUME NEW t \in Tasks, UnregisterTask(t) PROVE TypeOK'
    BY <2>7 DEF UnregisterTask
  <2>8. ASSUME NEW h \in Callbacks, LookupTask(h) PROVE TypeOK'
    BY <2>8 DEF LookupTask
  <2>9. ASSUME NEW h \in Callbacks, DeliverResult(h) PROVE TypeOK'
    BY <2>9 DEF DeliverResult
  <2>10. ASSUME NEW t \in Tasks, GatewayAccepts(t) PROVE TypeOK'
    BY <2>10 DEF GatewayAccepts
  <2>11. ASSUME NEW t \in Tasks, CancelContext(t) PROVE TypeOK'
    BY <2>11 DEF CancelContext
  <2>12. ASSUME NEW h \in Callbacks, CallbackMalformed(h) PROVE TypeOK'
    BY <2>12 DEF CallbackMalformed
  <2>13. ASSUME NEW h \in Callbacks, NEW t \in Tasks \cup {NoTask},
                CallbackArrives(h, t)
         PROVE TypeOK'
    BY <2>13 DEF CallbackArrives
  <2>14. CASE Restart
    BY <2>14, ConstantsAssumption DEF Restart
  <2>15. CASE UNCHANGED vars
    BY <2>15 DEF vars
  <2>16. QED
    BY <2>1, <2>2, <2>3, <2>4, <2>5, <2>6, <2>7, <2>8, <2>9, <2>10, <2>11,
       <2>12, <2>13, <2>14, <2>15
       DEF Next, RunTask, CallbackHandler, Environment
<1>3. QED
  BY <1>1, <1>2, PTL DEF SafeSpec

-----------------------------------------------------------------------------
LEMMA InitInv == Init => IInv
  BY ConstantsAssumption
     DEF Init, IInv, TypeOK, RegisteredWhileRunning, UnknownOnlyAfterReturn,
         CallbackInv, TaskInv, Running

\* IInv is inductive: one step per action.
LEMMA NextInv == IInv /\ TypeOK' /\ [Next]_vars => IInv'
<1> SUFFICES ASSUME IInv, TypeOK', [Next]_vars PROVE IInv'
  OBVIOUS
<1> USE ConstantsAssumption
        DEF IInv, TypeOK, RegisteredWhileRunning, UnknownOnlyAfterReturn,
            CallbackInv, TaskInv, taskVars, callbackVars, Running, Failures
<1>1. ASSUME NEW t \in Tasks, RegisterTask(t) PROVE IInv'
  BY <1>1 DEF RegisterTask
<1>2. ASSUME NEW t \in Tasks, PostHookOk(t) PROVE IInv'
  BY <1>2 DEF PostHookOk
<1>3. ASSUME NEW t \in Tasks, PostHookFails(t) PROVE IInv'
  BY <1>3 DEF PostHookFails, Leave
<1>4. ASSUME NEW t \in Tasks, ReceiveResult(t) PROVE IInv'
  BY <1>4 DEF ReceiveResult, Leave
<1>5. ASSUME NEW t \in Tasks, TimerFires(t) PROVE IInv'
  BY <1>5 DEF TimerFires, Leave
<1>6. ASSUME NEW t \in Tasks, ContextDone(t) PROVE IInv'
  BY <1>6 DEF ContextDone, Leave
<1>7. ASSUME NEW t \in Tasks, UnregisterTask(t) PROVE IInv'
  BY <1>7 DEF UnregisterTask
<1>8. ASSUME NEW h \in Callbacks, LookupTask(h) PROVE IInv'
  BY <1>8 DEF LookupTask
<1>9. ASSUME NEW h \in Callbacks, DeliverResult(h) PROVE IInv'
  BY <1>9 DEF DeliverResult
<1>10. ASSUME NEW t \in Tasks, GatewayAccepts(t) PROVE IInv'
  BY <1>10 DEF GatewayAccepts
<1>11. ASSUME NEW t \in Tasks, CancelContext(t) PROVE IInv'
  BY <1>11 DEF CancelContext
<1>12. ASSUME NEW h \in Callbacks, CallbackMalformed(h) PROVE IInv'
  BY <1>12 DEF CallbackMalformed
<1>13. ASSUME NEW h \in Callbacks, NEW t \in Tasks \cup {NoTask},
              CallbackArrives(h, t)
       PROVE IInv'
  BY <1>13 DEF CallbackArrives
<1>14. CASE Restart
  BY <1>14 DEF Restart
<1>15. CASE UNCHANGED vars
  BY <1>15 DEF vars
<1>16. QED
  BY <1>1, <1>2, <1>3, <1>4, <1>5, <1>6, <1>7, <1>8, <1>9, <1>10, <1>11,
     <1>12, <1>13, <1>14, <1>15
     DEF Next, RunTask, CallbackHandler, Environment

LEMMA Inductive == SafeSpec => []IInv
<1>1. IInv /\ [Next]_vars /\ TypeOK' => IInv'
  BY NextInv
<1>2. QED
  BY InitInv, TypeCorrect, <1>1, PTL DEF SafeSpec

\* The registry holds exactly the running tasks, on every return path.
THEOREM NoRegistryLeak == SafeSpec => []RegisteredWhileRunning
<1>1. IInv => RegisteredWhileRunning
  BY DEF IInv
<1>2. QED
  BY <1>1, Inductive, PTL

\* However the post and the agent race, a callback for a running task finds it.
THEOREM EarlyCallbackIsFound == SafeSpec => []UnknownOnlyAfterReturn
<1>1. IInv => UnknownOnlyAfterReturn
  BY DEF IInv
<1>2. QED
  BY <1>1, Inductive, PTL

\* RunTask never returns another task's result.
THEOREM ResultsAreNotMixedUp == SafeSpec => []ResultFromOwnCallback
<1>1. IInv => ResultFromOwnCallback
  <2> SUFFICES ASSUME IInv, NEW t \in Tasks
               PROVE /\ result[t] # NoResult
                          => /\ target[result[t]] = t
                             /\ reply[result[t]] \notin {"unknown", "malformed"}
                     /\ status[t] = "result" <=> result[t] # NoResult
    BY DEF ResultFromOwnCallback
  <2>1. QED
    BY DEF IInv, TaskInv
<1>2. QED
  BY <1>1, Inductive, PTL

-----------------------------------------------------------------------------
(* Refinement of AgentRendezvous *)

LEMMA RefinesInit == Init => Promise!Init
  BY DEF Init, Promise!Init, IsOpen

\* Every step maps to a step of the rendezvous or leaves its variables alone.
LEMMA RefinesNext == IInv /\ [Next]_vars => [Promise!Next]_(Promise!vars)
<1> SUFFICES ASSUME IInv, [Next]_vars PROVE [Promise!Next]_(Promise!vars)
  OBVIOUS
<1> USE ConstantsAssumption
        DEF IInv, TypeOK, IsOpen, taskVars, callbackVars, Running, Failures,
            Promise!vars, Promise!Next
<1>1. ASSUME NEW t \in Tasks, RegisterTask(t) PROVE Promise!Open(t)
  BY <1>1 DEF RegisterTask, Promise!Open
<1>2. ASSUME NEW t \in Tasks,
             PostHookFails(t) \/ ReceiveResult(t) \/ TimerFires(t) \/ ContextDone(t)
      PROVE Promise!Close(t)
  <2>1. /\ IsOpen(t)
        /\ pc' = [pc EXCEPT ![t] = "leaving"]
        /\ \/ result' = [result EXCEPT ![t] = NoResult]
           \/ result' = [result EXCEPT ![t] = chan[t]]
        /\ \A u \in Tasks \ {t} : chan'[u] = chan[u]
    BY <1>2 DEF PostHookFails, ReceiveResult, TimerFires, ContextDone, Leave
  <2>2. \A u \in Tasks \ {t} : IsOpen(u)' <=> IsOpen(u)
    BY <2>1
  <2>3. ~IsOpen(t)' /\ pc'[t] # "idle"
    BY <2>1
  <2>4. QED
    BY <2>1, <2>2, <2>3 DEF Promise!Close
<1>3. ASSUME NEW t \in Tasks,
             \/ PostHookOk(t) \/ UnregisterTask(t)
             \/ GatewayAccepts(t) \/ CancelContext(t)
      PROVE UNCHANGED Promise!vars
  BY <1>3 DEF PostHookOk, UnregisterTask, GatewayAccepts, CancelContext
<1>4. ASSUME NEW h \in Callbacks, NEW t \in Tasks \cup {NoTask},
             LookupTask(h) \/ CallbackMalformed(h) \/ CallbackArrives(h, t)
      PROVE UNCHANGED Promise!vars
  BY <1>4 DEF LookupTask, CallbackMalformed, CallbackArrives
<1>5. ASSUME NEW h \in Callbacks, DeliverResult(h)
      PROVE [Promise!Next]_(Promise!vars)
  <2>1. target[h] \in Tasks
    BY <1>5 DEF DeliverResult, CallbackInv
  <2>2. CASE IsOpen(target[h]) /\ chan[target[h]] = NoResult
    <3>1. Promise!Offer(target[h], h)
      BY <1>5, <2>1, <2>2 DEF DeliverResult, Promise!Offer
    <3>2. QED
      BY <3>1, <2>1
  <2>3. CASE ~(IsOpen(target[h]) /\ chan[target[h]] = NoResult)
    <3>1. UNCHANGED Promise!vars
      BY <1>5, <2>1, <2>3 DEF DeliverResult
    <3>2. QED
      BY <3>1
  <2>4. QED
    BY <2>2, <2>3
<1>6. CASE Restart
  <2>1. Promise!Abandon
    BY <1>6 DEF Restart, Promise!Abandon
  <2>2. QED
    BY <2>1
<1>7. CASE UNCHANGED vars
  BY <1>7 DEF vars
<1>8. QED
  BY <1>1, <1>2, <1>3, <1>4, <1>5, <1>6, <1>7
     DEF Next, RunTask, CallbackHandler, Environment

\* The safety half of ImplementsRendezvous: with any number of callbacks racing
\* with the timer, the first result wins and each task closes once.
THEOREM RefinesRendezvous == SafeSpec => Promise!SafeSpec
  BY RefinesInit, RefinesNext, Inductive, PTL DEF SafeSpec, Promise!SafeSpec
=============================================================================
