----------------------------- MODULE Execution -----------------------------
(***************************************************************************)
(* Executions of the operations assistant: rows in MySQL, the workers that  *)
(* claim and run them under a lease, the scan that ends what lost its       *)
(* worker, the user's operations and the event stream a browser follows.    *)
(*                                                                         *)
(* A worker is one slot of one process, named by its worker_id; a restarted *)
(* process has new ones.  Two goroutines of a worker race: the executor     *)
(* (pc) and the lease watcher (watch), over a context that remembers only   *)
(* its first cancellation cause.  The agent's graph is a third: it may live *)
(* on after Agent.Execute returned an error.  One transaction is one        *)
(* action, with the database error, and the commit whose reply is lost,     *)
(* as further outcomes.                                                     *)
(***************************************************************************)
EXTENDS Naturals, Sequences, FiniteSets

CONSTANTS
    Executions,      \* executions a user may create
    Conversations,
    ConversationOf,  \* the conversation of an execution
    Workers,         \* worker_ids
    Mortal,          \* the workers whose process may crash or be stopped
    Calls,           \* model and tool calls of an execution
    Followed,        \* the executions a browser follows
    SlowRenewal,     \* may a lease expire although its watcher still renews it?
    None             \* not a worker and not an execution

ASSUME ConversationAssumption == ConversationOf \in [Executions -> Conversations]
ASSUME WorkerAssumption == Mortal \subseteq Workers /\ None \notin Workers \cup Executions
ASSUME FollowedAssumption == Followed \subseteq Executions
ASSUME SwitchAssumption == SlowRenewal \in BOOLEAN

VARIABLES
    (* assistant_agent_executions, with the assistant's message *)
    state, owner, lease, cancelling, model, answered,
    (* assistant_agent_execution_steps *)
    step,
    (* a worker *)
    pc,        \* where the executor is
    job,       \* the execution it claimed
    cause,     \* first cancellation cause of the execution's context
    outcome,   \* what invokeAgent is about to return
    watch,     \* where the lease watcher is, or how it ended
    stopping,  \* workers whose process is being stopped
    graphs,    \* pairs of a worker and an execution whose graph still runs
    (* Redis, and one subscriber of each execution *)
    unread,    \* events the subscriber has not read
    sub        \* its connection: off, open, or the end it was told

rowVars == <<state, owner, lease, cancelling, model, answered>>
workerVars == <<pc, job, cause, outcome, watch, stopping, graphs>>
streamVars == <<unread, sub>>
vars == <<rowVars, step, workerVars, streamVars>>

Ends == {"succeeded", "failed", "cancelled"}
Active == {"queued", "running"}

Running(e) == state[e] = "running"

\* The fence of every statement a worker runs: state = 2 AND worker_id = ?.
Owns(w, e) == Running(e) /\ owner[e] = w

StepsRunning(e) == {c \in Calls : step[e][c] = "running"}

-----------------------------------------------------------------------------
Init ==
    /\ state = [e \in Executions |-> "none"]
    /\ owner = [e \in Executions |-> None]
    /\ lease = [e \in Executions |-> "none"]
    /\ cancelling = [e \in Executions |-> FALSE]
    /\ model = [e \in Executions |-> FALSE]
    /\ answered = [e \in Executions |-> FALSE]
    /\ step = [e \in Executions |-> [c \in Calls |-> "none"]]
    /\ pc = [w \in Workers |-> "idle"]
    /\ job = [w \in Workers |-> None]
    /\ cause = [w \in Workers |-> "none"]
    /\ outcome = [w \in Workers |-> "none"]
    /\ watch = [w \in Workers |-> "off"]
    /\ stopping = {}
    /\ graphs = {}
    /\ unread = [e \in Executions |-> <<>>]
    /\ sub = [e \in Executions |-> "off"]

-----------------------------------------------------------------------------
(* The user.                                                                *)

Busy(v) == \E e \in Executions : ConversationOf[e] = v /\ state[e] \in Active

\* CreateExecution: the conversation's row lock makes the count and the insert one.
Create(e) ==
    /\ state[e] = "none"
    /\ ~Busy(ConversationOf[e])
    /\ state' = [state EXCEPT ![e] = "queued"]
    /\ UNCHANGED <<owner, lease, cancelling, model, answered, step, workerVars, streamVars>>

\* Redis is told after the commit, or not at all.
Notify(e, event) ==
    \/ UNCHANGED unread
    \/ e \in Followed /\ unread' = [unread EXCEPT ![e] = Append(@, event)]

\* CancelExecution of a queued execution ends it ...
CancelQueued(e) ==
    /\ state[e] = "queued"
    /\ state' = [state EXCEPT ![e] = "cancelled"]
    /\ Notify(e, "cancelled")
    /\ UNCHANGED <<owner, lease, cancelling, model, answered, step, workerVars, sub>>

\* ... and leaves a running one to its worker.
RequestCancellation(e) ==
    /\ Running(e)
    /\ ~cancelling[e]
    /\ cancelling' = [cancelling EXCEPT ![e] = TRUE]
    /\ UNCHANGED <<state, owner, lease, model, answered, step, workerVars, streamVars>>

\* Deleting a conversation deletes its messages, steps and executions.
DeleteConversation(v) ==
    LET gone == {e \in Executions : ConversationOf[e] = v /\ state[e] \in Ends} IN
    /\ gone # {}
    /\ ~Busy(v)
    /\ state' = [e \in Executions |-> IF e \in gone THEN "deleted" ELSE state[e]]
    /\ answered' = [e \in Executions |-> e \notin gone /\ answered[e]]
    /\ step' = [e \in Executions |-> IF e \in gone THEN [c \in Calls |-> "none"] ELSE step[e]]
    /\ UNCHANGED <<owner, lease, cancelling, model, workerVars, streamVars>>

-----------------------------------------------------------------------------
(* Claim, lease and expiry.                                                 *)

Started(e, w) ==
    /\ state[e] = "queued"
    /\ state' = [state EXCEPT ![e] = "running"]
    /\ owner' = [owner EXCEPT ![e] = w]
    /\ lease' = [lease EXCEPT ![e] = "live"]
    /\ UNCHANGED <<cancelling, model, answered, step, streamVars>>

\* SKIP LOCKED may pass over older executions, so any queued one is claimed.
Claim(w, e) ==
    /\ pc[w] = "idle" /\ w \notin stopping
    /\ Started(e, w)
    /\ pc' = [pc EXCEPT ![w] = "load"]
    /\ job' = [job EXCEPT ![w] = e]
    /\ watch' = [watch EXCEPT ![w] = "ticking"]
    /\ UNCHANGED <<cause, outcome, stopping, graphs>>

\* The claim is committed and the worker never hears of it.
ClaimUnanswered(w, e) ==
    /\ pc[w] = "idle" /\ w \notin stopping
    /\ Started(e, w)
    /\ UNCHANGED workerVars

Renewed(w, e) == lease' = [lease EXCEPT ![e] = "live"]

\* Only the first cause is kept (context.WithCancelCause).
CauseOr(w, c) == IF cause[w] = "none" THEN c ELSE cause[w]

WatchTick(w) ==
    /\ watch[w] = "ticking" /\ cause[w] = "none"
    /\ watch' = [watch EXCEPT ![w] = "renewing"]
    /\ UNCHANGED <<rowVars, step, pc, job, cause, outcome, stopping, graphs, streamVars>>

\* The context is cancelled; when the ticker wins the select nevertheless, the
\* statement it leads to fails at once.
WatchDone(w) ==
    /\ watch[w] = "ticking" /\ cause[w] # "none"
    /\ \E how \in {"ok", "error"} : watch' = [watch EXCEPT ![w] = how]
    /\ UNCHANGED <<rowVars, step, pc, job, cause, outcome, stopping, graphs, streamVars>>

RenewOK(w) ==
    LET e == job[w] IN
    /\ watch[w] = "renewing"
    /\ Owns(w, e)
    /\ Renewed(w, e)
    /\ IF cancelling[e]
       THEN /\ cause' = [cause EXCEPT ![w] = CauseOr(w, "cancelled")]
            /\ watch' = [watch EXCEPT ![w] = "error"]
       ELSE /\ watch' = [watch EXCEPT ![w] = "ticking"]
            /\ UNCHANGED cause
    /\ UNCHANGED <<state, owner, cancelling, model, answered, step,
                   pc, job, outcome, stopping, graphs, streamVars>>

\* Not the owner any more, or a statement that fails or whose context is cancelled.
RenewFails(w) ==
    /\ watch[w] = "renewing"
    /\ cause' = [cause EXCEPT ![w] =
                    CauseOr(w, IF Owns(w, job[w]) THEN "renewError" ELSE "leaseLost")]
    /\ watch' = [watch EXCEPT ![w] = "error"]
    /\ UNCHANGED <<rowVars, step, pc, job, outcome, stopping, graphs, streamVars>>

\* Somebody is about to renew the lease of e.
Attended(e) == \E w \in Workers : job[w] = e /\ watch[w] \in {"ticking", "renewing"}

Expire(e) ==
    /\ Running(e) /\ lease[e] = "live"
    /\ SlowRenewal \/ ~Attended(e)
    /\ lease' = [lease EXCEPT ![e] = "expired"]
    /\ UNCHANGED <<state, owner, cancelling, model, answered, step, workerVars, streamVars>>

EndSteps(f, es, how) ==
    [e \in Executions |-> IF e \in es
        THEN [c \in Calls |-> IF f[e][c] = "running" THEN how ELSE f[e][c]]
        ELSE f[e]]

\* Mutant: executions whose cancellation is pending are left to their worker.
DueUncancelled == {e \in Executions : Running(e) /\ lease[e] = "expired" /\ ~cancelling[e]}

Due == {e \in Executions : Running(e) /\ lease[e] = "expired"}

\* Mutant: what lost its worker is queued again.
FailExpiredRequeues ==
    /\ Due # {}
    /\ step' = EndSteps(step, Due, "failed")
    /\ state' = [e \in Executions |-> IF e \in Due THEN "queued" ELSE state[e]]
    /\ owner' = [e \in Executions |-> IF e \in Due THEN None ELSE owner[e]]
    /\ lease' = [e \in Executions |-> IF e \in Due THEN "none" ELSE lease[e]]
    /\ cancelling' = [e \in Executions |-> e \notin Due /\ cancelling[e]]
    /\ model' = [e \in Executions |-> e \notin Due /\ model[e]]
    /\ UNCHANGED <<answered, workerVars, streamVars>>

\* One transaction, but each statement reads its own clock: steps are failed
\* first, and the leases in "late" expire before the executions are failed.  What
\* the first statements matched stays locked until the commit.
FailExpiredExecutions ==
    /\ Due # {}
    /\ \E late \in SUBSET Due :
           step' = EndSteps(step, Due \ late, "failed")
    /\ state' = [e \in Executions |-> IF e \in Due THEN "failed" ELSE state[e]]
    /\ owner' = [e \in Executions |-> IF e \in Due THEN None ELSE owner[e]]
    /\ lease' = [e \in Executions |-> IF e \in Due THEN "none" ELSE lease[e]]
    /\ UNCHANGED <<cancelling, model, answered, workerVars, streamVars>>

-----------------------------------------------------------------------------
(* The agent, and the steps it records.                                     *)

\* The history cannot be read, whatever the context says.
LoadFails(w) ==
    /\ pc[w] = "load"
    /\ pc' = [pc EXCEPT ![w] = "fail"]
    /\ UNCHANGED <<rowVars, step, job, cause, outcome, watch, stopping, graphs, streamVars>>

\* The model is recorded and the lease renewed before anything is spent on it.
SelectModel(w) ==
    LET e == job[w] IN
    /\ pc[w] = "load"
    /\ Owns(w, e)
    /\ model' = [model EXCEPT ![e] = TRUE]
    /\ Renewed(w, e)
    /\ IF cancelling[e]
       THEN /\ pc' = [pc EXCEPT ![w] = "stop"]
            /\ outcome' = [outcome EXCEPT ![w] = "cancelled"]
            /\ UNCHANGED <<graphs, unread>>
       ELSE /\ pc' = [pc EXCEPT ![w] = "agent"]
            /\ graphs' = graphs \cup {<<w, e>>}
            /\ Notify(e, "started")
            /\ UNCHANGED outcome
    /\ UNCHANGED <<state, owner, cancelling, answered, step, job, cause, watch, stopping, sub>>

\* Mutant: the step is added without asking who runs the execution.
StartStepUnfenced(w, e, c) ==
    /\ <<w, e>> \in graphs
    /\ step[e][c] = "none"
    /\ step' = [step EXCEPT ![e][c] = "running"]
    /\ UNCHANGED <<rowVars, workerVars, streamVars>>

\* StartExecutionStep holds the execution's row while it adds the step.
StartStep(w, e, c) ==
    /\ <<w, e>> \in graphs
    /\ step[e][c] = "none"
    /\ Owns(w, e)
    /\ step' = [step EXCEPT ![e][c] = "running"]
    /\ UNCHANGED <<rowVars, workerVars, streamVars>>

EndStep(w, e, c) ==
    /\ <<w, e>> \in graphs
    /\ step[e][c] = "running"
    /\ Owns(w, e)
    /\ \E how \in {"completed", "failed"} : step' = [step EXCEPT ![e][c] = how]
    /\ UNCHANGED <<rowVars, workerVars, streamVars>>

GraphEnds(w, e) ==
    /\ <<w, e>> \in graphs
    /\ ~(pc[w] = "agent" /\ job[w] = e)
    /\ graphs' = graphs \ {<<w, e>>}
    /\ UNCHANGED <<rowVars, step, pc, job, cause, outcome, watch, stopping, streamVars>>

\* A step the fence refused is an error of the agent, so with its answer every
\* step it started has ended.
AgentAnswers(w) ==
    /\ pc[w] = "agent"
    /\ StepsRunning(job[w]) = {}
    /\ pc' = [pc EXCEPT ![w] = "complete"]
    /\ graphs' = graphs \ {<<w, job[w]>>}
    /\ UNCHANGED <<rowVars, step, job, cause, outcome, watch, stopping, streamVars>>

\* The agent returns an error: the context's cause comes first; a lost lease is
\* reported, not stored; everything else becomes a failure.
AgentFails(w) ==
    /\ pc[w] \in {"load", "agent"}
    /\ \/ /\ cause[w] # "none" \/ ~Owns(w, job[w])
          /\ pc' = [pc EXCEPT ![w] = "stop"]
          /\ outcome' = [outcome EXCEPT ![w] = "error"]
       \/ /\ cause[w] = "none"
          /\ pc' = [pc EXCEPT ![w] = "fail"]
          /\ UNCHANGED outcome
    /\ UNCHANGED <<rowVars, step, job, cause, watch, stopping, graphs, streamVars>>

-----------------------------------------------------------------------------
(* Terminal states.                                                         *)

\* Mutant: the worker stays written in the row.
EndKeepsOwner(e, how) ==
    /\ state' = [state EXCEPT ![e] = how]
    /\ lease' = [lease EXCEPT ![e] = "none"]
    /\ UNCHANGED <<owner, cancelling, model>>

End(e, how) ==
    /\ state' = [state EXCEPT ![e] = how]
    /\ owner' = [owner EXCEPT ![e] = None]
    /\ lease' = [lease EXCEPT ![e] = "none"]
    /\ UNCHANGED <<cancelling, model>>

\* ExecuteNext returns, and the slot looks for more.
Leaves(w) ==
    /\ pc' = [pc EXCEPT ![w] = "idle"]
    /\ job' = [job EXCEPT ![w] = None]
    /\ cause' = [cause EXCEPT ![w] = "none"]
    /\ outcome' = [outcome EXCEPT ![w] = "none"]

\* What follows finishFailure and finishCancellation: invokeAgent returns to
\* executeClaim, which then stops the watcher; called from there it is the end.
Returns(w, result) ==
    IF watch[w] # "off"
    THEN /\ pc' = [pc EXCEPT ![w] = "stop"]
         /\ outcome' = [outcome EXCEPT ![w] = result]
         /\ UNCHANGED <<job, cause>>
    ELSE Leaves(w)

\* Mutant: the answer is stored although the user asked for a cancellation.
CompleteCancelling(w) ==
    LET e == job[w] IN
    /\ pc[w] = "complete"
    /\ Owns(w, e)
    /\ End(e, "succeeded")
    /\ answered' = [answered EXCEPT ![e] = TRUE]
    /\ pc' = [pc EXCEPT ![w] = "notify"]
    /\ UNCHANGED <<step, job, cause, outcome, watch, stopping, graphs, streamVars>>

CompleteExecution(w) ==
    LET e == job[w] IN
    /\ pc[w] = "complete"
    /\ Owns(w, e) /\ ~cancelling[e]
    /\ End(e, "succeeded")
    /\ answered' = [answered EXCEPT ![e] = TRUE]
    /\ \/ pc' = [pc EXCEPT ![w] = "notify"] /\ UNCHANGED outcome
       \/ /\ pc' = [pc EXCEPT ![w] = "stop"]
          /\ outcome' = [outcome EXCEPT ![w] = "error"]
    /\ UNCHANGED <<step, job, cause, watch, stopping, graphs, streamVars>>

\* Refused because of a cancellation, or for any other reason.
CompleteFails(w) ==
    /\ pc[w] = "complete"
    /\ pc' = [pc EXCEPT ![w] = "stop"]
    /\ outcome' = [outcome EXCEPT ![w] =
                      IF Owns(w, job[w]) /\ cancelling[job[w]] THEN "cancelled" ELSE "error"]
    /\ UNCHANGED <<rowVars, step, job, cause, watch, stopping, graphs, streamVars>>

FailExecution(w) ==
    LET e == job[w] IN
    /\ pc[w] = "fail"
    /\ Owns(w, e) /\ ~cancelling[e]
    /\ End(e, "failed")
    /\ step' = EndSteps(step, {e}, "failed")
    /\ \/ pc' = [pc EXCEPT ![w] = "notify"] /\ UNCHANGED <<job, cause, outcome>>
       \/ Returns(w, "error")
    /\ UNCHANGED <<answered, watch, stopping, graphs, streamVars>>

\* Mutant: the event of the failure is sent although it was not stored.
FailFailsNotifies(w) ==
    /\ pc[w] = "fail"
    /\ Returns(w, IF Owns(w, job[w]) /\ cancelling[job[w]] THEN "cancelled" ELSE "error")
    /\ Notify(job[w], "failed")
    /\ UNCHANGED <<rowVars, step, watch, stopping, graphs, sub>>

FailFails(w) ==
    /\ pc[w] = "fail"
    /\ Returns(w, IF Owns(w, job[w]) /\ cancelling[job[w]] THEN "cancelled" ELSE "error")
    /\ UNCHANGED <<rowVars, step, watch, stopping, graphs, streamVars>>

FinishCancellation(w) ==
    LET e == job[w] IN
    /\ pc[w] = "cancel"
    /\ Owns(w, e) /\ cancelling[e]
    /\ End(e, "cancelled")
    /\ step' = EndSteps(step, {e}, "cancelled")
    /\ \/ pc' = [pc EXCEPT ![w] = "notify"] /\ UNCHANGED <<job, cause, outcome>>
       \/ Returns(w, "error")
    /\ UNCHANGED <<answered, watch, stopping, graphs, streamVars>>

FinishCancellationFails(w) ==
    /\ pc[w] = "cancel"
    /\ Returns(w, "error")
    /\ UNCHANGED <<rowVars, step, watch, stopping, graphs, streamVars>>

\* The event of the end that was committed; its loss changes nothing.
NotifyEnd(w) ==
    LET e == job[w] IN
    /\ pc[w] = "notify"
    /\ IF state[e] \in Ends THEN Notify(e, state[e]) ELSE UNCHANGED unread
    /\ Returns(w, "committed")
    /\ UNCHANGED <<rowVars, step, watch, stopping, graphs, sub>>

\* executionLease.stop cancels the context, then waits for the watcher.
StopLease(w) ==
    /\ pc[w] = "stop"
    /\ cause' = [cause EXCEPT ![w] = CauseOr(w, "finished")]
    /\ pc' = [pc EXCEPT ![w] = "join"]
    /\ UNCHANGED <<rowVars, step, job, outcome, watch, stopping, graphs, streamVars>>

\* How executeClaim goes on, the cases in the order of its switch.
AfterJoin(w) ==
    CASE outcome[w] = "committed" -> "idle"
      [] outcome[w] # "committed" /\ cause[w] = "cancelled" -> "cancel"
      [] outcome[w] # "committed" /\ cause[w] = "stopped" /\ watch[w] = "ok" -> "fail"
      [] outcome[w] = "cancelled" /\ cause[w] = "finished" /\ watch[w] = "ok" -> "cancel"
      [] OTHER -> "idle"

Join(w) ==
    /\ pc[w] = "join"
    /\ watch[w] \in {"ok", "error"}
    /\ watch' = [watch EXCEPT ![w] = "off"]
    /\ IF AfterJoin(w) = "idle"
       THEN Leaves(w)
       ELSE pc' = [pc EXCEPT ![w] = AfterJoin(w)] /\ UNCHANGED <<job, cause, outcome>>
    /\ UNCHANGED <<rowVars, step, stopping, graphs, streamVars>>

-----------------------------------------------------------------------------
(* The process.                                                             *)

\* Stop cancels the context every execution of the process descends from.
StopWorker(w) ==
    /\ w \in Mortal \ stopping
    /\ pc[w] # "gone"
    /\ stopping' = stopping \cup {w}
    /\ cause' = [cause EXCEPT ![w] = IF job[w] = None THEN @ ELSE CauseOr(w, "stopped")]
    /\ UNCHANGED <<rowVars, step, pc, job, outcome, watch, graphs, streamVars>>

\* The slot ends when it is idle; a crash ends it anywhere, with its goroutines.
Gone(w) ==
    /\ \/ w \in stopping /\ pc[w] = "idle"
       \/ w \in Mortal /\ pc[w] # "gone"
    /\ pc' = [pc EXCEPT ![w] = "gone"]
    /\ job' = [job EXCEPT ![w] = None]
    /\ cause' = [cause EXCEPT ![w] = "none"]
    /\ outcome' = [outcome EXCEPT ![w] = "none"]
    /\ watch' = [watch EXCEPT ![w] = "off"]
    /\ graphs' = {g \in graphs : g[1] # w}
    /\ UNCHANGED <<rowVars, step, stopping, streamVars>>

-----------------------------------------------------------------------------
(* The browser's event stream.                                              *)

\* A connection resumes after the last event it was sent (Last-Event-ID).
Connect(e) ==
    /\ e \in Followed /\ sub[e] = "off"
    /\ state[e] \notin {"none", "deleted"}
    /\ sub' = [sub EXCEPT ![e] = "open"]
    /\ UNCHANGED <<rowVars, step, workerVars, unread>>

ReadEvent(e) ==
    /\ sub[e] = "open"
    /\ unread[e] # <<>>
    /\ unread' = [unread EXCEPT ![e] = Tail(@)]
    /\ sub' = [sub EXCEPT ![e] = IF Head(unread[e]) \in Ends THEN Head(unread[e]) ELSE @]
    /\ UNCHANGED <<rowVars, step, workerVars>>

\* Mutant: a failure is left to its event.
ReadNothingOfFailed(e) ==
    /\ sub[e] = "open"
    /\ unread[e] = <<>>
    /\ state[e] \notin Active \cup {"failed"}
    /\ sub' = [sub EXCEPT ![e] = IF state[e] \in Ends THEN state[e] ELSE "off"]
    /\ UNCHANGED <<rowVars, step, workerVars, unread>>

\* Nothing to read: the row decides, since the event of an end may be missing.
ReadNothing(e) ==
    /\ sub[e] = "open"
    /\ unread[e] = <<>>
    /\ state[e] \notin Active
    /\ sub' = [sub EXCEPT ![e] = IF state[e] \in Ends THEN state[e] ELSE "off"]
    /\ UNCHANGED <<rowVars, step, workerVars, unread>>

Disconnect(e) ==
    /\ sub[e] = "open"
    /\ sub' = [sub EXCEPT ![e] = "off"]
    /\ UNCHANGED <<rowVars, step, workerVars, unread>>

\* The stream's retention runs out, or Redis loses it.
StreamExpires(e) ==
    /\ unread[e] # <<>>
    /\ unread' = [unread EXCEPT ![e] = <<>>]
    /\ UNCHANGED <<rowVars, step, workerVars, sub>>

-----------------------------------------------------------------------------
User(e) == Create(e) \/ CancelQueued(e) \/ RequestCancellation(e)

Executor(w) ==
    \/ LoadFails(w) \/ SelectModel(w)
    \/ AgentAnswers(w) \/ AgentFails(w)
    \/ CompleteExecution(w) \/ CompleteFails(w)
    \/ FailExecution(w) \/ FailFails(w)
    \/ FinishCancellation(w) \/ FinishCancellationFails(w)
    \/ NotifyEnd(w) \/ StopLease(w) \/ Join(w)

Watcher(w) == WatchTick(w) \/ WatchDone(w) \/ RenewOK(w) \/ RenewFails(w)

Graph(w, e) ==
    \/ \E c \in Calls : StartStep(w, e, c) \/ EndStep(w, e, c)
    \/ GraphEnds(w, e)

Stream(e) == Connect(e) \/ ReadEvent(e) \/ ReadNothing(e) \/ Disconnect(e) \/ StreamExpires(e)

Next ==
    \/ \E e \in Executions : User(e) \/ Expire(e) \/ Stream(e)
    \/ \E v \in Conversations : DeleteConversation(v)
    \/ FailExpiredExecutions
    \/ \E w \in Workers :
        \/ Executor(w) \/ Watcher(w) \/ StopWorker(w) \/ Gone(w)
        \/ \E e \in Executions : Claim(w, e) \/ ClaimUnanswered(w, e) \/ Graph(w, e)

Spec == Init /\ [][Next]_vars

\* A slot that stays up polls, runs what it claimed and returns; a graph makes
\* progress; an unattended lease runs out and the scan finds it; a connected
\* subscriber is served.  Nobody must create, cancel, connect or stop anything.
Fairness ==
    /\ \A w \in Workers :
        /\ WF_vars(\E e \in Executions : Claim(w, e) \/ ClaimUnanswered(w, e))
        /\ WF_vars(Executor(w))
        /\ WF_vars(Watcher(w))
        /\ \A e \in Executions : WF_vars(\E c \in Calls : EndStep(w, e, c))
    /\ \A e \in Executions :
        /\ WF_vars(Expire(e) /\ ~Attended(e))
        /\ WF_vars(ReadEvent(e) \/ ReadNothing(e))
    /\ WF_vars(FailExpiredExecutions)

LiveSpec == Spec /\ Fairness

-----------------------------------------------------------------------------
(* Safety.                                                                  *)

RowTypes ==
    /\ state \in [Executions -> {"none", "deleted"} \cup Active \cup Ends]
    /\ owner \in [Executions -> Workers \cup {None}]
    /\ lease \in [Executions -> {"none", "live", "expired"}]
    /\ cancelling \in [Executions -> BOOLEAN]
    /\ model \in [Executions -> BOOLEAN]
    /\ answered \in [Executions -> BOOLEAN]

StepTypes ==
    step \in [Executions -> [Calls -> {"none", "running", "completed", "failed", "cancelled"}]]

WorkerTypes ==
    /\ pc \in [Workers -> {"idle", "load", "agent", "complete", "fail", "cancel",
                           "notify", "stop", "join", "gone"}]
    /\ job \in [Workers -> Executions \cup {None}]
    /\ cause \in [Workers -> {"none", "finished", "cancelled", "leaseLost",
                              "renewError", "stopped"}]
    /\ outcome \in [Workers -> {"none", "error", "cancelled", "committed"}]
    /\ watch \in [Workers -> {"off", "ticking", "renewing", "ok", "error"}]
    /\ stopping \subseteq Workers
    /\ graphs \subseteq Workers \X Executions

StreamTypes ==
    /\ unread \in [Executions -> Seq({"started"} \cup Ends)]
    /\ sub \in [Executions -> {"off", "open"} \cup Ends]

\* The values the columns, the goroutines' control points and the events can have.
TypeOK == RowTypes /\ StepTypes /\ WorkerTypes /\ StreamTypes

\* Every row a user may ask for can be restored: its columns agree with its
\* state, whichever of worker, user and scan wrote last (validateStoredExecution).
RowsConsistent ==
    \A e \in Executions :
        /\ state[e] = "queued" => owner[e] = None /\ lease[e] = "none"
                                  /\ ~model[e] /\ ~cancelling[e]
        /\ Running(e) => owner[e] # None /\ lease[e] # "none"
        /\ state[e] \in Ends => owner[e] = None /\ lease[e] = "none"
        /\ state[e] = "succeeded" => model[e] /\ ~cancelling[e]

\* What the browser is told, by an event or by the row, is the end that is
\* stored (events are appended after the commit, StreamHandler.events).
ToldTheTruth ==
    \A e \in Executions : state[e] # "deleted" =>
        /\ sub[e] \in Ends => sub[e] = state[e]
        /\ \A i \in 1 .. Len(unread[e]) : unread[e][i] \in Ends => unread[e][i] = state[e]

\* An execution is run by at most one worker in its life, so no call of a tool is
\* repeated by another (ClaimExecution, FailExpiredExecutions never requeue).
OneWorkerEver ==
    \A e \in Executions : \A v, w \in Workers :
        job[v] = e /\ (job[w] = e \/ owner[e] = w \/ <<w, e>> \in graphs) => v = w

\* Nothing is recorded in an execution that has ended, though graphs live on, and
\* whoever ends one ends its steps, with one exception: the expiry scan, whose
\* statement on steps may find the lease still valid (CompleteExecution,
\* FailExecution, FinishCancellation, StartExecutionStep, FailExpiredExecutions).
OnlyScanLeavesSteps ==
    [][\A e \in Executions : state'[e] \in Ends /\ StepsRunning(e)' # {} =>
           \/ state'[e] = state[e] /\ step'[e] = step[e]
           \/ e \in Due /\ state'[e] = "failed" /\ UNCHANGED workerVars]_vars

\* Section 13 of the assistant design: no step is left running in an execution
\* that has ended.  It does NOT hold: the exception above is reached.
NoStepOutlivesExecution ==
    \A e \in Executions : state[e] \in Ends => StepsRunning(e) = {}

Job == INSTANCE OneShotJob

\* Executions keep the promise of OneShotJob.
ImplementsJob == Job!Spec

-----------------------------------------------------------------------------
(* Liveness.                                                                *)

\* Every execution ends, through crashes, stops, failing statements and lost
\* replies, while one worker stays up (ExecutionConsumer, the expiry scan).
EveryExecutionEnds ==
    \A e \in Executions : state[e] \in Active ~> state[e] \notin Active

\* A subscriber that stays connected is told the end, or that there is nothing,
\* although events may be lost (StreamHandler.events asks the row).
SubscriberServed ==
    \A e \in Executions : sub[e] = "open" ~> sub[e] # "open"

=============================================================================
