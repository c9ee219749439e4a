------------------------------ MODULE AgentTask ------------------------------
(***************************************************************************)
(* Delegation of tasks to an external agent: RunTask of the OpenClaw       *)
(* adapter (internal/agent/openclaw/openclaw.go) and the shared callback   *)
(* registry and HTTP handler (pkg/agent/callback.go).                      *)
(*                                                                         *)
(* Each call of RunTask is a task with a fresh id.  It registers a channel *)
(* of capacity one, posts the task to the gateway, and waits for the       *)
(* channel, a timer or its context.  Each callback request is a process    *)
(* that looks the id up under the registry's lock and, after releasing the *)
(* lock, attempts a non-blocking send.  The two sides interleave freely.   *)
(*                                                                         *)
(* A callback stands for the result it carries: parsing its body always    *)
(* yields a result (JSON, or plain text wrapped as "completed").           *)
(***************************************************************************)
EXTENDS Naturals

CONSTANTS Tasks,      \* calls of RunTask, one generated id each
          Callbacks,  \* callback requests, duplicates included
          NoTask,     \* an id in a callback that no RunTask generated
          NoResult,   \* the empty channel, and a RunTask without result
          MaxRestarts \* restarts of the vel process explored

ASSUME ConstantsAssumption == /\ NoTask \notin Tasks
                              /\ NoResult \notin Callbacks
                              /\ MaxRestarts \in Nat

VARIABLES
  pc,        \* where each RunTask is
  pending,   \* ids in the registry pendingTasks
  chan,      \* content of each task's channel, buffered with size 1
  cancelled, \* tasks whose context is done
  accepted,  \* tasks the gateway has started an agent for (outside vel)
  status,    \* why RunTask returned, "none" before its select decides
  result,    \* the result RunTask returned
  hpc,       \* where each callback request is
  target,    \* the id in the request's path
  reply,     \* what the request was answered
  restarts

taskVars == <<pc, pending, cancelled, status, result>>
callbackVars == <<hpc, target, reply>>
vars == <<taskVars, chan, accepted, callbackVars, restarts>>

Running == {"posting", "waiting", "leaving"}
Failures == {"timeout", "cancelled", "post_error", "killed"}

TypeOK ==
  /\ pc \in [Tasks -> {"idle", "returned", "killed"} \cup Running]
  /\ pending \subseteq Tasks
  /\ chan \in [Tasks -> Callbacks \cup {NoResult}]
  /\ cancelled \subseteq Tasks
  /\ accepted \subseteq Tasks
  /\ status \in [Tasks -> {"none", "result"} \cup Failures]
  /\ result \in [Tasks -> Callbacks \cup {NoResult}]
  /\ hpc \in [Callbacks -> {"none", "parsed", "holding", "done"}]
  /\ target \in [Callbacks -> Tasks \cup {NoTask}]
  /\ reply \in [Callbacks -> {"none", "ok", "unknown", "malformed", "reset"}]
  /\ restarts \in 0..MaxRestarts

Init ==
  /\ pc = [t \in Tasks |-> "idle"]
  /\ pending = {}
  /\ chan = [t \in Tasks |-> NoResult]
  /\ cancelled = {}
  /\ accepted = {}
  /\ status = [t \in Tasks |-> "none"]
  /\ result = [t \in Tasks |-> NoResult]
  /\ hpc = [h \in Callbacks |-> "none"]
  /\ target = [h \in Callbacks |-> NoTask]
  /\ reply = [h \in Callbacks |-> "none"]
  /\ restarts = 0

-----------------------------------------------------------------------------
(* RunTask *)

\* Faulty variant: the channel is never put into the registry.
RegisterTaskForgotten(t) ==
  /\ pc[t] = "idle"
  /\ pc' = [pc EXCEPT ![t] = "posting"]
  /\ UNCHANGED <<chan, pending, cancelled, status, result, accepted,
                 callbackVars, restarts>>

\* A fresh channel enters the registry before the hook is posted.
RegisterTask(t) ==
  /\ pc[t] = "idle"
  /\ pc' = [pc EXCEPT ![t] = "posting"]
  /\ pending' = pending \cup {t}
  /\ chan' = [chan EXCEPT ![t] = NoResult]
  /\ UNCHANGED <<cancelled, status, result, accepted, callbackVars, restarts>>

\* The gateway takes the hook request and starts an agent.  It may do so
\* after vel's HTTP client has given the request up.
GatewayAccepts(t) ==
  /\ pc[t] # "idle"
  /\ t \notin accepted
  /\ accepted' = accepted \cup {t}
  /\ UNCHANGED <<taskVars, chan, callbackVars, restarts>>

\* postHook returns nil: the gateway answered 200.
PostHookOk(t) ==
  /\ pc[t] = "posting"
  /\ t \in accepted
  /\ pc' = [pc EXCEPT ![t] = "waiting"]
  /\ UNCHANGED <<pending, cancelled, status, result, chan, accepted,
                 callbackVars, restarts>>

\* RunTask's outcome is decided; the deferred UnregisterTask has yet to run.
Leave(t, s, r) ==
  /\ pc' = [pc EXCEPT ![t] = "leaving"]
  /\ status' = [status EXCEPT ![t] = s]
  /\ result' = [result EXCEPT ![t] = r]
  /\ UNCHANGED <<pending, cancelled, accepted, callbackVars, restarts>>

\* Faulty variant: the error path returns without the deferred unregistration.
PostHookFailsLeaking(t) ==
  /\ pc[t] = "posting"
  /\ pc' = [pc EXCEPT ![t] = "returned"]
  /\ status' = [status EXCEPT ![t] = "post_error"]
  /\ UNCHANGED <<pending, cancelled, result, chan, accepted, callbackVars,
                 restarts>>

\* postHook fails: no connection, an answer other than 200, the client's own
\* 10 s timeout, or a cancelled context.  An agent may be running all the same.
PostHookFails(t) ==
  /\ pc[t] = "posting"
  /\ Leave(t, "post_error", NoResult)
  /\ UNCHANGED chan

\* The select of RunTask.  When several of its cases are ready Go picks any.
ReceiveResult(t) ==
  /\ pc[t] = "waiting"
  /\ chan[t] # NoResult
  /\ Leave(t, "result", chan[t])
  /\ chan' = [chan EXCEPT ![t] = NoResult]

\* Faulty variant: the timer is stopped as soon as the context is done.
TimerFiresUnlessCancelled(t) ==
  /\ pc[t] = "waiting"
  /\ t \notin cancelled
  /\ Leave(t, "timeout", NoResult)
  /\ UNCHANGED chan

TimerFires(t) ==
  /\ pc[t] = "waiting"
  /\ Leave(t, "timeout", NoResult)
  /\ UNCHANGED chan

ContextDone(t) ==
  /\ pc[t] = "waiting"
  /\ t \in cancelled
  /\ Leave(t, "cancelled", NoResult)
  /\ UNCHANGED chan

UnregisterTask(t) ==
  /\ pc[t] = "leaving"
  /\ pc' = [pc EXCEPT ![t] = "returned"]
  /\ pending' = pending \ {t}
  /\ UNCHANGED <<cancelled, status, result, chan, accepted, callbackVars,
                 restarts>>

\* The caller gives up.
CancelContext(t) ==
  /\ pc[t] \in Running
  /\ t \notin cancelled
  /\ cancelled' = cancelled \cup {t}
  /\ UNCHANGED <<pc, pending, status, result, chan, accepted, callbackVars,
                 restarts>>

-----------------------------------------------------------------------------
(* CallbackHandler *)

\* An agent posts a result, for the task it was started for or, mistyped,
\* for an id that never existed.  It may post several.
CallbackArrives(h, t) ==
  /\ hpc[h] = "none"
  /\ t \in accepted \cup {NoTask}
  /\ hpc' = [hpc EXCEPT ![h] = "parsed"]
  /\ target' = [target EXCEPT ![h] = t]
  /\ UNCHANGED <<reply, taskVars, chan, accepted, restarts>>

\* Not a POST, no id in the path, or the body cannot be read.
CallbackMalformed(h) ==
  /\ hpc[h] = "none"
  /\ hpc' = [hpc EXCEPT ![h] = "done"]
  /\ reply' = [reply EXCEPT ![h] = "malformed"]
  /\ UNCHANGED <<target, taskVars, chan, accepted, restarts>>

\* The registry is read under its lock and the lock released; an unknown id is
\* answered 404.
LookupTask(h) ==
  /\ hpc[h] = "parsed"
  /\ \/ /\ target[h] \in pending
        /\ hpc' = [hpc EXCEPT ![h] = "holding"]
        /\ UNCHANGED reply
     \/ /\ target[h] \notin pending
        /\ hpc' = [hpc EXCEPT ![h] = "done"]
        /\ reply' = [reply EXCEPT ![h] = "unknown"]
  /\ UNCHANGED <<target, taskVars, chan, accepted, restarts>>

\* Faulty variants of the send: it replaces what the channel holds; it goes to
\* whichever task is registered.
DeliverReplacing(h) ==
  /\ hpc[h] = "holding"
  /\ chan' = [chan EXCEPT ![target[h]] = h]
  /\ hpc' = [hpc EXCEPT ![h] = "done"]
  /\ reply' = [reply EXCEPT ![h] = "ok"]
  /\ UNCHANGED <<target, taskVars, accepted, restarts>>

DeliverToAnyone(h) ==
  /\ hpc[h] = "holding"
  /\ \E t \in pending : chan' = [chan EXCEPT ![t] = h]
  /\ hpc' = [hpc EXCEPT ![h] = "done"]
  /\ reply' = [reply EXCEPT ![h] = "ok"]
  /\ UNCHANGED <<target, taskVars, accepted, restarts>>

\* The non-blocking send, on the channel found before: kept when the channel
\* is empty, dropped otherwise, and answered 200 in both cases.
DeliverResult(h) ==
  /\ hpc[h] = "holding"
  /\ IF chan[target[h]] = NoResult
       THEN chan' = [chan EXCEPT ![target[h]] = h]
       ELSE UNCHANGED chan
  /\ hpc' = [hpc EXCEPT ![h] = "done"]
  /\ reply' = [reply EXCEPT ![h] = "ok"]
  /\ UNCHANGED <<target, taskVars, accepted, restarts>>

-----------------------------------------------------------------------------
(* The registry and the channels live in memory: a restart of the process     *)
(* ends every RunTask and resets every open request.  Agents live on.          *)

Restart ==
  /\ restarts < MaxRestarts
  /\ restarts' = restarts + 1
  /\ pc' = [t \in Tasks |-> IF pc[t] \in Running THEN "killed" ELSE pc[t]]
  /\ status' = [t \in Tasks |-> IF pc[t] \in {"posting", "waiting"}
                                  THEN "killed" ELSE status[t]]
  /\ pending' = {}
  /\ chan' = [t \in Tasks |-> NoResult]
  /\ hpc' = [h \in Callbacks |-> IF hpc[h] = "none" THEN "none" ELSE "done"]
  /\ reply' = [h \in Callbacks |-> IF hpc[h] \in {"parsed", "holding"}
                                     THEN "reset" ELSE reply[h]]
  /\ UNCHANGED <<cancelled, result, accepted, target>>

-----------------------------------------------------------------------------
RunTask(t) ==
  \/ RegisterTask(t) \/ PostHookOk(t) \/ PostHookFails(t)
  \/ ReceiveResult(t) \/ TimerFires(t) \/ ContextDone(t) \/ UnregisterTask(t)

CallbackHandler(h) == LookupTask(h) \/ DeliverResult(h)

Environment ==
  \/ \E t \in Tasks : GatewayAccepts(t) \/ CancelContext(t)
  \/ \E h \in Callbacks : CallbackMalformed(h)
  \/ \E h \in Callbacks, t \in Tasks \cup {NoTask} : CallbackArrives(h, t)
  \/ Restart

Next == \/ \E t \in Tasks : RunTask(t)
        \/ \E h \in Callbacks : CallbackHandler(h)
        \/ Environment

\* The HTTP client has a 10 s timeout, the timer always fires, deferred calls
\* run, and a request goroutine is scheduled: weak fairness of each.  Nothing
\* obliges the gateway, the agent or the caller to act.
Fairness ==
  /\ \A t \in Tasks : /\ WF_vars(PostHookOk(t) \/ PostHookFails(t))
                      /\ WF_vars(TimerFires(t))
                      /\ WF_vars(UnregisterTask(t))
  /\ \A h \in Callbacks : WF_vars(CallbackHandler(h))

SafeSpec == Init /\ [][Next]_vars
Spec == SafeSpec /\ Fairness

-----------------------------------------------------------------------------
(* Properties *)

\* The registry holds exactly the tasks whose RunTask has not returned: no
\* return path (failed post, timeout, cancellation) leaks an entry.
RegisteredWhileRunning == pending = {t \in Tasks : pc[t] \in Running}

\* A callback for a real task is answered 404 only once that task's RunTask is
\* over: however early the agent posts, even before the hook request is
\* answered, the channel is already there.
UnknownOnlyAfterReturn ==
  \A h \in Callbacks :
    reply[h] = "unknown" /\ target[h] \in Tasks
      => pc[target[h]] \in {"returned", "killed"}

\* The result a RunTask returns was posted for that very task, and no other
\* RunTask returns it.
ResultFromOwnCallback ==
  \A t \in Tasks :
    /\ result[t] # NoResult => /\ target[result[t]] = t
                               /\ reply[result[t]] \notin {"unknown", "malformed"}
    /\ status[t] = "result" <=> result[t] # NoResult

\* The system keeps the rendezvous' promise: first result wins, one answer per
\* task, and every started task closes.
IsOpen(t) == pc[t] \in {"posting", "waiting"}

Promise == INSTANCE AgentRendezvous WITH
  phase <- [t \in Tasks |-> IF pc[t] = "idle" THEN "new"
                            ELSE IF IsOpen(t) THEN "open" ELSE "closed"],
  slot <- [t \in Tasks |-> IF IsOpen(t) THEN chan[t] ELSE NoResult],
  answer <- result

ImplementsRendezvous == Promise!Spec

\* A RunTask that starts returns, whatever the gateway and the agent do.
RunTaskReturns ==
  \A t \in Tasks : pc[t] = "posting" ~> pc[t] \in {"returned", "killed"}

=============================================================================
