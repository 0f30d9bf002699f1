-------------------------- MODULE ExecutionProofs --------------------------
(***************************************************************************)
(* Proofs about Execution, for any executions, conversations, workers and   *)
(* calls, any crashes and any lease that expires too early: the types, the  *)
(* rows, that one worker at most ever runs an execution, that executions    *)
(* implement OneShotJob, that a browser is told the end that is stored, and  *)
(* that only the expiry scan may leave a step running in what it ends.      *)
(***************************************************************************)
EXTENDS Execution, TLAPS

\* A worker is tied to an execution by its claim, its row or its graph.
Has(w, e) == job[w] = e \/ owner[e] = w \/ <<w, e>> \in graphs

\* Nothing has happened yet to an execution that is not claimed.
Fresh ==
    \A e \in Executions : state[e] \in {"none", "queued"} =>
        /\ owner[e] = None /\ lease[e] = "none" /\ ~model[e] /\ ~cancelling[e]
        /\ \A w \in Workers : ~Has(w, e)

\* A worker that is doing anything has a job.
Employed ==
    \A w \in Workers :
        job[w] = None => pc[w] \in {"idle", "gone"} /\ watch[w] = "off"

\* Rows of claimed and ended executions, and the model a worker has recorded.
Consistent ==
    /\ \A e \in Executions :
        /\ Running(e) => owner[e] # None /\ lease[e] # "none"
        /\ state[e] \in Ends => owner[e] = None /\ lease[e] = "none"
        /\ state[e] = "succeeded" => model[e] /\ ~cancelling[e]
    /\ \A w \in Workers : pc[w] \in {"agent", "complete"} => model[job[w]]

\* Two workers never have the same execution.
OneWorker == \A e \in Executions : \A v, w \in Workers : Has(v, e) /\ Has(w, e) => v = w

\* Steps run while their execution does or are left in one that failed, and an
\* answer is committed by a worker whose graph is over.
StepsBounded ==
    /\ \A e \in Executions, c \in Calls :
           step[e][c] = "running" => Running(e) \/ state[e] = "failed"
    /\ \A w \in Workers : pc[w] = "complete" =>
        /\ \A c \in Calls : step[job[w]][c] # "running"
        /\ <<w, job[w]>> \notin graphs

IInv == TypeOK /\ Fresh /\ Employed /\ Consistent /\ OneWorker

-----------------------------------------------------------------------------
(* Types.                                                                   *)

\* Telling Redis, or failing to, keeps the events of a stream events.
LEMMA NotifyType ==
    ASSUME StreamTypes, NEW e \in Executions, NEW event \in {"started"} \cup Ends,
           Notify(e, event)
    PROVE  unread' \in [Executions -> Seq({"started"} \cup Ends)]
<1> DEFINE Events == {"started"} \cup Ends
<1>1. unread \in [Executions -> Seq(Events)] /\ event \in Events
  BY DEF StreamTypes
<1>2. CASE UNCHANGED unread
  BY <1>1, <1>2
<1>3. CASE unread' = [unread EXCEPT ![e] = Append(@, event)]
  <2>1. Append(unread[e], event) \in Seq(Events)
    BY <1>1
  <2> QED BY <1>1, <1>3, <2>1
<1> QED BY <1>2, <1>3 DEF Notify

\* The columns of a row keep their types.
LEMMA RowTypesNext == TypeOK /\ [Next]_vars => RowTypes'
<1> SUFFICES ASSUME TypeOK, [Next]_vars PROVE RowTypes'
  OBVIOUS
<1>0. CASE UNCHANGED vars
  BY <1>0 DEF TypeOK, RowTypes, WorkerTypes, Ends, Active, vars, rowVars, workerVars, streamVars
<1>1. ASSUME NEW e \in Executions, Create(e) PROVE RowTypes'
  BY <1>1 DEF Create, Busy, TypeOK, RowTypes, WorkerTypes, Ends, Active, rowVars, workerVars, streamVars
<1>2. ASSUME NEW e \in Executions, CancelQueued(e) PROVE RowTypes'
  BY <1>2 DEF CancelQueued, Notify, TypeOK, RowTypes, WorkerTypes, Ends, Active, rowVars, workerVars, streamVars
<1>3. ASSUME NEW e \in Executions, RequestCancellation(e) PROVE RowTypes'
  BY <1>3 DEF RequestCancellation, Running, TypeOK, RowTypes, WorkerTypes, Ends, Active, rowVars, workerVars, streamVars
<1>4. ASSUME NEW e \in Executions, Expire(e) PROVE RowTypes'
  BY <1>4 DEF Expire, Running, TypeOK, RowTypes, WorkerTypes, Ends, Active, rowVars, workerVars, streamVars
<1>5. ASSUME NEW e \in Executions, Connect(e) PROVE RowTypes'
  BY <1>5 DEF Connect, TypeOK, RowTypes, WorkerTypes, Ends, Active, rowVars, workerVars, streamVars
<1>6. ASSUME NEW e \in Executions, ReadEvent(e) PROVE RowTypes'
  BY <1>6 DEF ReadEvent, TypeOK, RowTypes, WorkerTypes, Ends, Active, rowVars, workerVars, streamVars
<1>7. ASSUME NEW e \in Executions, ReadNothing(e) PROVE RowTypes'
  BY <1>7 DEF ReadNothing, TypeOK, RowTypes, WorkerTypes, Ends, Active, rowVars, workerVars, streamVars
<1>8. ASSUME NEW e \in Executions, Disconnect(e) PROVE RowTypes'
  BY <1>8 DEF Disconnect, TypeOK, RowTypes, WorkerTypes, Ends, Active, rowVars, workerVars, streamVars
<1>9. ASSUME NEW e \in Executions, StreamExpires(e) PROVE RowTypes'
  BY <1>9 DEF StreamExpires, TypeOK, RowTypes, WorkerTypes, Ends, Active, rowVars, workerVars, streamVars
<1>10. ASSUME NEW v \in Conversations, DeleteConversation(v) PROVE RowTypes'
  BY <1>10 DEF DeleteConversation, Busy, TypeOK, RowTypes, WorkerTypes, Ends, Active, rowVars, workerVars, streamVars
<1>11. ASSUME FailExpiredExecutions PROVE RowTypes'
  BY <1>11 DEF FailExpiredExecutions, Due, EndSteps, Running, TypeOK, RowTypes, WorkerTypes, Ends, Active, rowVars, workerVars, streamVars
<1>12. ASSUME NEW w \in Workers, LoadFails(w) PROVE RowTypes'
  BY <1>12 DEF LoadFails, TypeOK, RowTypes, WorkerTypes, Ends, Active, rowVars, workerVars, streamVars
<1>13. ASSUME NEW w \in Workers, SelectModel(w) PROVE RowTypes'
  BY <1>13 DEF SelectModel, Owns, Running, Renewed, Notify, TypeOK, RowTypes, WorkerTypes, Ends, Active, rowVars, workerVars, streamVars
<1>14. ASSUME NEW w \in Workers, AgentAnswers(w) PROVE RowTypes'
  BY <1>14 DEF AgentAnswers, StepsRunning, TypeOK, RowTypes, WorkerTypes, Ends, Active, rowVars, workerVars, streamVars
<1>15. ASSUME NEW w \in Workers, AgentFails(w) PROVE RowTypes'
  BY <1>15 DEF AgentFails, Owns, Running, TypeOK, RowTypes, WorkerTypes, Ends, Active, rowVars, workerVars, streamVars
<1>16. ASSUME NEW w \in Workers, CompleteExecution(w) PROVE RowTypes'
  BY <1>16 DEF CompleteExecution, Owns, Running, End, TypeOK, RowTypes, WorkerTypes, Ends, Active, rowVars, workerVars, streamVars
<1>17. ASSUME NEW w \in Workers, CompleteFails(w) PROVE RowTypes'
  BY <1>17 DEF CompleteFails, Owns, Running, TypeOK, RowTypes, WorkerTypes, Ends, Active, rowVars, workerVars, streamVars
<1>18. ASSUME NEW w \in Workers, FailExecution(w) PROVE RowTypes'
  BY <1>18 DEF FailExecution, Owns, Running, End, EndSteps, Returns, Leaves, TypeOK, RowTypes, WorkerTypes, Ends, Active, rowVars, workerVars, streamVars
<1>19. ASSUME NEW w \in Workers, FailFails(w) PROVE RowTypes'
  BY <1>19 DEF FailFails, Owns, Running, Returns, Leaves, TypeOK, RowTypes, WorkerTypes, Ends, Active, rowVars, workerVars, streamVars
<1>20. ASSUME NEW w \in Workers, FinishCancellation(w) PROVE RowTypes'
  BY <1>20 DEF FinishCancellation, Owns, Running, End, EndSteps, Returns, Leaves, TypeOK, RowTypes, WorkerTypes, Ends, Active, rowVars, workerVars, streamVars
<1>21. ASSUME NEW w \in Workers, FinishCancellationFails(w) PROVE RowTypes'
  BY <1>21 DEF FinishCancellationFails, Returns, Leaves, TypeOK, RowTypes, WorkerTypes, Ends, Active, rowVars, workerVars, streamVars
<1>22. ASSUME NEW w \in Workers, NotifyEnd(w) PROVE RowTypes'
  BY <1>22 DEF NotifyEnd, Notify, Returns, Leaves, TypeOK, RowTypes, WorkerTypes, Ends, Active, rowVars, workerVars, streamVars
<1>23. ASSUME NEW w \in Workers, StopLease(w) PROVE RowTypes'
  BY <1>23 DEF StopLease, CauseOr, TypeOK, RowTypes, WorkerTypes, Ends, Active, rowVars, workerVars, streamVars
<1>24. ASSUME NEW w \in Workers, Join(w) PROVE RowTypes'
  BY <1>24 DEF Join, AfterJoin, Leaves, TypeOK, RowTypes, WorkerTypes, Ends, Active, rowVars, workerVars, streamVars
<1>25. ASSUME NEW w \in Workers, WatchTick(w) PROVE RowTypes'
  BY <1>25 DEF WatchTick, TypeOK, RowTypes, WorkerTypes, Ends, Active, rowVars, workerVars, streamVars
<1>26. ASSUME NEW w \in Workers, WatchDone(w) PROVE RowTypes'
  BY <1>26 DEF WatchDone, TypeOK, RowTypes, WorkerTypes, Ends, Active, rowVars, workerVars, streamVars
<1>27. ASSUME NEW w \in Workers, RenewOK(w) PROVE RowTypes'
  BY <1>27 DEF RenewOK, Owns, Running, Renewed, CauseOr, TypeOK, RowTypes, WorkerTypes, Ends, Active, rowVars, workerVars, streamVars
<1>28. ASSUME NEW w \in Workers, RenewFails(w) PROVE RowTypes'
  BY <1>28 DEF RenewFails, Owns, Running, CauseOr, TypeOK, RowTypes, WorkerTypes, Ends, Active, rowVars, workerVars, streamVars
<1>29. ASSUME NEW w \in Workers, StopWorker(w) PROVE RowTypes'
  BY <1>29 DEF StopWorker, CauseOr, TypeOK, RowTypes, WorkerTypes, Ends, Active, rowVars, workerVars, streamVars
<1>30. ASSUME NEW w \in Workers, Gone(w) PROVE RowTypes'
  BY <1>30 DEF Gone, TypeOK, RowTypes, WorkerTypes, Ends, Active, rowVars, workerVars, streamVars
<1>31. ASSUME NEW w \in Workers, NEW e \in Executions, Claim(w, e) PROVE RowTypes'
  BY <1>31 DEF Claim, Started, TypeOK, RowTypes, WorkerTypes, Ends, Active, rowVars, workerVars, streamVars
<1>32. ASSUME NEW w \in Workers, NEW e \in Executions, ClaimUnanswered(w, e) PROVE RowTypes'
  BY <1>32 DEF ClaimUnanswered, Started, TypeOK, RowTypes, WorkerTypes, Ends, Active, rowVars, workerVars, streamVars
<1>33. ASSUME NEW w \in Workers, NEW e \in Executions, GraphEnds(w, e) PROVE RowTypes'
  BY <1>33 DEF GraphEnds, TypeOK, RowTypes, WorkerTypes, Ends, Active, rowVars, workerVars, streamVars
<1>34. ASSUME NEW w \in Workers, NEW e \in Executions, NEW c \in Calls, StartStep(w, e, c) PROVE RowTypes'
  BY <1>34 DEF StartStep, Owns, Running, TypeOK, RowTypes, WorkerTypes, Ends, Active, rowVars, workerVars, streamVars
<1>35. ASSUME NEW w \in Workers, NEW e \in Executions, NEW c \in Calls, EndStep(w, e, c) PROVE RowTypes'
  BY <1>35 DEF EndStep, Owns, Running, TypeOK, RowTypes, WorkerTypes, Ends, Active, rowVars, workerVars, streamVars
<1> QED
  BY <1>0, <1>1, <1>2, <1>3, <1>4, <1>5, <1>6, <1>7, <1>8, <1>9, <1>10, <1>11, <1>12, <1>13, <1>14, <1>15, <1>16, <1>17, <1>18, <1>19, <1>20, <1>21, <1>22, <1>23, <1>24, <1>25, <1>26, <1>27, <1>28, <1>29, <1>30, <1>31, <1>32, <1>33, <1>34, <1>35
  DEF Next, User, Stream, Executor, Watcher, Graph

\* So do the states of steps.
LEMMA StepTypesNext == TypeOK /\ [Next]_vars => StepTypes'
<1> SUFFICES ASSUME TypeOK, [Next]_vars PROVE StepTypes'
  OBVIOUS
<1>0. CASE UNCHANGED vars
  BY <1>0 DEF TypeOK, StepTypes, WorkerTypes, vars, rowVars, workerVars, streamVars
<1>1. ASSUME NEW e \in Executions, Create(e) PROVE StepTypes'
  BY <1>1 DEF Create, Busy, TypeOK, StepTypes, WorkerTypes, rowVars, workerVars, streamVars
<1>2. ASSUME NEW e \in Executions, CancelQueued(e) PROVE StepTypes'
  BY <1>2 DEF CancelQueued, Notify, TypeOK, StepTypes, WorkerTypes, rowVars, workerVars, streamVars
<1>3. ASSUME NEW e \in Executions, RequestCancellation(e) PROVE StepTypes'
  BY <1>3 DEF RequestCancellation, Running, TypeOK, StepTypes, WorkerTypes, rowVars, workerVars, streamVars
<1>4. ASSUME NEW e \in Executions, Expire(e) PROVE StepTypes'
  BY <1>4 DEF Expire, Running, TypeOK, StepTypes, WorkerTypes, rowVars, workerVars, streamVars
<1>5. ASSUME NEW e \in Executions, Connect(e) PROVE StepTypes'
  BY <1>5 DEF Connect, TypeOK, StepTypes, WorkerTypes, rowVars, workerVars, streamVars
<1>6. ASSUME NEW e \in Executions, ReadEvent(e) PROVE StepTypes'
  BY <1>6 DEF ReadEvent, TypeOK, StepTypes, WorkerTypes, rowVars, workerVars, streamVars
<1>7. ASSUME NEW e \in Executions, ReadNothing(e) PROVE StepTypes'
  BY <1>7 DEF ReadNothing, TypeOK, StepTypes, WorkerTypes, rowVars, workerVars, streamVars
<1>8. ASSUME NEW e \in Executions, Disconnect(e) PROVE StepTypes'
  BY <1>8 DEF Disconnect, TypeOK, StepTypes, WorkerTypes, rowVars, workerVars, streamVars
<1>9. ASSUME NEW e \in Executions, StreamExpires(e) PROVE StepTypes'
  BY <1>9 DEF StreamExpires, TypeOK, StepTypes, WorkerTypes, rowVars, workerVars, streamVars
<1>10. ASSUME NEW v \in Conversations, DeleteConversation(v) PROVE StepTypes'
  BY <1>10 DEF DeleteConversation, Busy, TypeOK, StepTypes, WorkerTypes, rowVars, workerVars, streamVars
<1>11. ASSUME FailExpiredExecutions PROVE StepTypes'
  BY <1>11 DEF FailExpiredExecutions, Due, EndSteps, Running, TypeOK, StepTypes, WorkerTypes, rowVars, workerVars, streamVars
<1>12. ASSUME NEW w \in Workers, LoadFails(w) PROVE StepTypes'
  BY <1>12 DEF LoadFails, TypeOK, StepTypes, WorkerTypes, rowVars, workerVars, streamVars
<1>13. ASSUME NEW w \in Workers, SelectModel(w) PROVE StepTypes'
  BY <1>13 DEF SelectModel, Owns, Running, Renewed, Notify, TypeOK, StepTypes, WorkerTypes, rowVars, workerVars, streamVars
<1>14. ASSUME NEW w \in Workers, AgentAnswers(w) PROVE StepTypes'
  BY <1>14 DEF AgentAnswers, StepsRunning, TypeOK, StepTypes, WorkerTypes, rowVars, workerVars, streamVars
<1>15. ASSUME NEW w \in Workers, AgentFails(w) PROVE StepTypes'
  BY <1>15 DEF AgentFails, Owns, Running, TypeOK, StepTypes, WorkerTypes, rowVars, workerVars, streamVars
<1>16. ASSUME NEW w \in Workers, CompleteExecution(w) PROVE StepTypes'
  BY <1>16 DEF CompleteExecution, Owns, Running, End, TypeOK, StepTypes, WorkerTypes, rowVars, workerVars, streamVars
<1>17. ASSUME NEW w \in Workers, CompleteFails(w) PROVE StepTypes'
  BY <1>17 DEF CompleteFails, Owns, Running, TypeOK, StepTypes, WorkerTypes, rowVars, workerVars, streamVars
<1>18. ASSUME NEW w \in Workers, FailExecution(w) PROVE StepTypes'
  BY <1>18 DEF FailExecution, Owns, Running, End, EndSteps, Returns, Leaves, TypeOK, StepTypes, WorkerTypes, rowVars, workerVars, streamVars
<1>19. ASSUME NEW w \in Workers, FailFails(w) PROVE StepTypes'
  BY <1>19 DEF FailFails, Owns, Running, Returns, Leaves, TypeOK, StepTypes, WorkerTypes, rowVars, workerVars, streamVars
<1>20. ASSUME NEW w \in Workers, FinishCancellation(w) PROVE StepTypes'
  BY <1>20 DEF FinishCancellation, Owns, Running, End, EndSteps, Returns, Leaves, TypeOK, StepTypes, WorkerTypes, rowVars, workerVars, streamVars
<1>21. ASSUME NEW w \in Workers, FinishCancellationFails(w) PROVE StepTypes'
  BY <1>21 DEF FinishCancellationFails, Returns, Leaves, TypeOK, StepTypes, WorkerTypes, rowVars, workerVars, streamVars
<1>22. ASSUME NEW w \in Workers, NotifyEnd(w) PROVE StepTypes'
  BY <1>22 DEF NotifyEnd, Notify, Returns, Leaves, TypeOK, StepTypes, WorkerTypes, rowVars, workerVars, streamVars
<1>23. ASSUME NEW w \in Workers, StopLease(w) PROVE StepTypes'
  BY <1>23 DEF StopLease, CauseOr, TypeOK, StepTypes, WorkerTypes, rowVars, workerVars, streamVars
<1>24. ASSUME NEW w \in Workers, Join(w) PROVE StepTypes'
  BY <1>24 DEF Join, AfterJoin, Leaves, TypeOK, StepTypes, WorkerTypes, rowVars, workerVars, streamVars
<1>25. ASSUME NEW w \in Workers, WatchTick(w) PROVE StepTypes'
  BY <1>25 DEF WatchTick, TypeOK, StepTypes, WorkerTypes, rowVars, workerVars, streamVars
<1>26. ASSUME NEW w \in Workers, WatchDone(w) PROVE StepTypes'
  BY <1>26 DEF WatchDone, TypeOK, StepTypes, WorkerTypes, rowVars, workerVars, streamVars
<1>27. ASSUME NEW w \in Workers, RenewOK(w) PROVE StepTypes'
  BY <1>27 DEF RenewOK, Owns, Running, Renewed, CauseOr, TypeOK, StepTypes, WorkerTypes, rowVars, workerVars, streamVars
<1>28. ASSUME NEW w \in Workers, RenewFails(w) PROVE StepTypes'
  BY <1>28 DEF RenewFails, Owns, Running, CauseOr, TypeOK, StepTypes, WorkerTypes, rowVars, workerVars, streamVars
<1>29. ASSUME NEW w \in Workers, StopWorker(w) PROVE StepTypes'
  BY <1>29 DEF StopWorker, CauseOr, TypeOK, StepTypes, WorkerTypes, rowVars, workerVars, streamVars
<1>30. ASSUME NEW w \in Workers, Gone(w) PROVE StepTypes'
  BY <1>30 DEF Gone, TypeOK, StepTypes, WorkerTypes, rowVars, workerVars, streamVars
<1>31. ASSUME NEW w \in Workers, NEW e \in Executions, Claim(w, e) PROVE StepTypes'
  BY <1>31 DEF Claim, Started, TypeOK, StepTypes, WorkerTypes, rowVars, workerVars, streamVars
<1>32. ASSUME NEW w \in Workers, NEW e \in Executions, ClaimUnanswered(w, e) PROVE StepTypes'
  BY <1>32 DEF ClaimUnanswered, Started, TypeOK, StepTypes, WorkerTypes, rowVars, workerVars, streamVars
<1>33. ASSUME NEW w \in Workers, NEW e \in Executions, GraphEnds(w, e) PROVE StepTypes'
  BY <1>33 DEF GraphEnds, TypeOK, StepTypes, WorkerTypes, rowVars, workerVars, streamVars
<1>34. ASSUME NEW w \in Workers, NEW e \in Executions, NEW c \in Calls, StartStep(w, e, c) PROVE StepTypes'
  BY <1>34 DEF StartStep, Owns, Running, TypeOK, StepTypes, WorkerTypes, rowVars, workerVars, streamVars
<1>35. ASSUME NEW w \in Workers, NEW e \in Executions, NEW c \in Calls, EndStep(w, e, c) PROVE StepTypes'
  BY <1>35 DEF EndStep, Owns, Running, TypeOK, StepTypes, WorkerTypes, rowVars, workerVars, streamVars
<1> QED
  BY <1>0, <1>1, <1>2, <1>3, <1>4, <1>5, <1>6, <1>7, <1>8, <1>9, <1>10, <1>11, <1>12, <1>13, <1>14, <1>15, <1>16, <1>17, <1>18, <1>19, <1>20, <1>21, <1>22, <1>23, <1>24, <1>25, <1>26, <1>27, <1>28, <1>29, <1>30, <1>31, <1>32, <1>33, <1>34, <1>35
  DEF Next, User, Stream, Executor, Watcher, Graph

\* So does what a worker keeps.
LEMMA WorkerTypesNext == TypeOK /\ Employed /\ [Next]_vars => WorkerTypes'
<1> SUFFICES ASSUME TypeOK /\ Employed, [Next]_vars PROVE WorkerTypes'
  OBVIOUS
<1>0. CASE UNCHANGED vars
  BY <1>0 DEF TypeOK, WorkerTypes, Employed, vars, rowVars, workerVars, streamVars
<1>1. ASSUME NEW e \in Executions, Create(e) PROVE WorkerTypes'
  BY <1>1 DEF Create, Busy, TypeOK, WorkerTypes, Employed, rowVars, workerVars, streamVars
<1>2. ASSUME NEW e \in Executions, CancelQueued(e) PROVE WorkerTypes'
  BY <1>2 DEF CancelQueued, Notify, TypeOK, WorkerTypes, Employed, rowVars, workerVars, streamVars
<1>3. ASSUME NEW e \in Executions, RequestCancellation(e) PROVE WorkerTypes'
  BY <1>3 DEF RequestCancellation, Running, TypeOK, WorkerTypes, Employed, rowVars, workerVars, streamVars
<1>4. ASSUME NEW e \in Executions, Expire(e) PROVE WorkerTypes'
  BY <1>4 DEF Expire, Running, TypeOK, WorkerTypes, Employed, rowVars, workerVars, streamVars
<1>5. ASSUME NEW e \in Executions, Connect(e) PROVE WorkerTypes'
  BY <1>5 DEF Connect, TypeOK, WorkerTypes, Employed, rowVars, workerVars, streamVars
<1>6. ASSUME NEW e \in Executions, ReadEvent(e) PROVE WorkerTypes'
  BY <1>6 DEF ReadEvent, TypeOK, WorkerTypes, Employed, rowVars, workerVars, streamVars
<1>7. ASSUME NEW e \in Executions, ReadNothing(e) PROVE WorkerTypes'
  BY <1>7 DEF ReadNothing, TypeOK, WorkerTypes, Employed, rowVars, workerVars, streamVars
<1>8. ASSUME NEW e \in Executions, Disconnect(e) PROVE WorkerTypes'
  BY <1>8 DEF Disconnect, TypeOK, WorkerTypes, Employed, rowVars, workerVars, streamVars
<1>9. ASSUME NEW e \in Executions, StreamExpires(e) PROVE WorkerTypes'
  BY <1>9 DEF StreamExpires, TypeOK, WorkerTypes, Employed, rowVars, workerVars, streamVars
<1>10. ASSUME NEW v \in Conversations, DeleteConversation(v) PROVE WorkerTypes'
  BY <1>10 DEF DeleteConversation, Busy, TypeOK, WorkerTypes, Employed, rowVars, workerVars, streamVars
<1>11. ASSUME FailExpiredExecutions PROVE WorkerTypes'
  BY <1>11 DEF FailExpiredExecutions, Due, EndSteps, Running, TypeOK, WorkerTypes, Employed, rowVars, workerVars, streamVars
<1>12. ASSUME NEW w \in Workers, LoadFails(w) PROVE WorkerTypes'
  BY <1>12 DEF LoadFails, TypeOK, WorkerTypes, Employed, rowVars, workerVars, streamVars
<1>13. ASSUME NEW w \in Workers, SelectModel(w) PROVE WorkerTypes'
  BY <1>13 DEF SelectModel, Owns, Running, Renewed, Notify, TypeOK, WorkerTypes, Employed, rowVars, workerVars, streamVars
<1>14. ASSUME NEW w \in Workers, AgentAnswers(w) PROVE WorkerTypes'
  BY <1>14 DEF AgentAnswers, StepsRunning, TypeOK, WorkerTypes, Employed, rowVars, workerVars, streamVars
<1>15. ASSUME NEW w \in Workers, AgentFails(w) PROVE WorkerTypes'
  BY <1>15 DEF AgentFails, Owns, Running, TypeOK, WorkerTypes, Employed, rowVars, workerVars, streamVars
<1>16. ASSUME NEW w \in Workers, CompleteExecution(w) PROVE WorkerTypes'
  BY <1>16 DEF CompleteExecution, Owns, Running, End, TypeOK, WorkerTypes, Employed, rowVars, workerVars, streamVars
<1>17. ASSUME NEW w \in Workers, CompleteFails(w) PROVE WorkerTypes'
  BY <1>17 DEF CompleteFails, Owns, Running, TypeOK, WorkerTypes, Employed, rowVars, workerVars, streamVars
<1>18. ASSUME NEW w \in Workers, FailExecution(w) PROVE WorkerTypes'
  BY <1>18 DEF FailExecution, Owns, Running, End, EndSteps, Returns, Leaves, TypeOK, WorkerTypes, Employed, rowVars, workerVars, streamVars
<1>19. ASSUME NEW w \in Workers, FailFails(w) PROVE WorkerTypes'
  BY <1>19 DEF FailFails, Owns, Running, Returns, Leaves, TypeOK, WorkerTypes, Employed, rowVars, workerVars, streamVars
<1>20. ASSUME NEW w \in Workers, FinishCancellation(w) PROVE WorkerTypes'
  BY <1>20 DEF FinishCancellation, Owns, Running, End, EndSteps, Returns, Leaves, TypeOK, WorkerTypes, Employed, rowVars, workerVars, streamVars
<1>21. ASSUME NEW w \in Workers, FinishCancellationFails(w) PROVE WorkerTypes'
  BY <1>21 DEF FinishCancellationFails, Returns, Leaves, TypeOK, WorkerTypes, Employed, rowVars, workerVars, streamVars
<1>22. ASSUME NEW w \in Workers, NotifyEnd(w) PROVE WorkerTypes'
  BY <1>22 DEF NotifyEnd, Notify, Returns, Leaves, TypeOK, WorkerTypes, Employed, rowVars, workerVars, streamVars
<1>23. ASSUME NEW w \in Workers, StopLease(w) PROVE WorkerTypes'
  BY <1>23 DEF StopLease, CauseOr, TypeOK, WorkerTypes, Employed, rowVars, workerVars, streamVars
<1>24. ASSUME NEW w \in Workers, Join(w) PROVE WorkerTypes'
  BY <1>24 DEF Join, AfterJoin, Leaves, TypeOK, WorkerTypes, Employed, rowVars, workerVars, streamVars
<1>25. ASSUME NEW w \in Workers, WatchTick(w) PROVE WorkerTypes'
  BY <1>25 DEF WatchTick, TypeOK, WorkerTypes, Employed, rowVars, workerVars, streamVars
<1>26. ASSUME NEW w \in Workers, WatchDone(w) PROVE WorkerTypes'
  BY <1>26 DEF WatchDone, TypeOK, WorkerTypes, Employed, rowVars, workerVars, streamVars
<1>27. ASSUME NEW w \in Workers, RenewOK(w) PROVE WorkerTypes'
  BY <1>27 DEF RenewOK, Owns, Running, Renewed, CauseOr, TypeOK, WorkerTypes, Employed, rowVars, workerVars, streamVars
<1>28. ASSUME NEW w \in Workers, RenewFails(w) PROVE WorkerTypes'
  BY <1>28 DEF RenewFails, Owns, Running, CauseOr, TypeOK, WorkerTypes, Employed, rowVars, workerVars, streamVars
<1>29. ASSUME NEW w \in Workers, StopWorker(w) PROVE WorkerTypes'
  BY <1>29 DEF StopWorker, CauseOr, TypeOK, WorkerTypes, Employed, rowVars, workerVars, streamVars
<1>30. ASSUME NEW w \in Workers, Gone(w) PROVE WorkerTypes'
  BY <1>30 DEF Gone, TypeOK, WorkerTypes, Employed, rowVars, workerVars, streamVars
<1>31. ASSUME NEW w \in Workers, NEW e \in Executions, Claim(w, e) PROVE WorkerTypes'
  BY <1>31 DEF Claim, Started, TypeOK, WorkerTypes, Employed, rowVars, workerVars, streamVars
<1>32. ASSUME NEW w \in Workers, NEW e \in Executions, ClaimUnanswered(w, e) PROVE WorkerTypes'
  BY <1>32 DEF ClaimUnanswered, Started, TypeOK, WorkerTypes, Employed, rowVars, workerVars, streamVars
<1>33. ASSUME NEW w \in Workers, NEW e \in Executions, GraphEnds(w, e) PROVE WorkerTypes'
  BY <1>33 DEF GraphEnds, TypeOK, WorkerTypes, Employed, rowVars, workerVars, streamVars
<1>34. ASSUME NEW w \in Workers, NEW e \in Executions, NEW c \in Calls, StartStep(w, e, c) PROVE WorkerTypes'
  BY <1>34 DEF StartStep, Owns, Running, TypeOK, WorkerTypes, Employed, rowVars, workerVars, streamVars
<1>35. ASSUME NEW w \in Workers, NEW e \in Executions, NEW c \in Calls, EndStep(w, e, c) PROVE WorkerTypes'
  BY <1>35 DEF EndStep, Owns, Running, TypeOK, WorkerTypes, Employed, rowVars, workerVars, streamVars
<1> QED
  BY <1>0, <1>1, <1>2, <1>3, <1>4, <1>5, <1>6, <1>7, <1>8, <1>9, <1>10, <1>11, <1>12, <1>13, <1>14, <1>15, <1>16, <1>17, <1>18, <1>19, <1>20, <1>21, <1>22, <1>23, <1>24, <1>25, <1>26, <1>27, <1>28, <1>29, <1>30, <1>31, <1>32, <1>33, <1>34, <1>35
  DEF Next, User, Stream, Executor, Watcher, Graph

\* So do the events and the subscribers.
LEMMA StreamTypesNext == TypeOK /\ Employed /\ [Next]_vars => StreamTypes'
<1> SUFFICES ASSUME TypeOK /\ Employed, [Next]_vars PROVE StreamTypes'
  OBVIOUS
<1>0. CASE UNCHANGED vars
  BY <1>0 DEF TypeOK, RowTypes, WorkerTypes, StreamTypes, Ends, Active, vars, rowVars, workerVars, streamVars
<1>1. ASSUME NEW e \in Executions, Create(e) PROVE StreamTypes'
  BY <1>1 DEF Create, Busy, TypeOK, RowTypes, WorkerTypes, StreamTypes, Ends, Active, rowVars, workerVars, streamVars
<1>2. ASSUME NEW e \in Executions, CancelQueued(e) PROVE StreamTypes'
  <2>1. "cancelled" \in {"started"} \cup Ends /\ Notify(e, "cancelled") /\ UNCHANGED sub
    BY <1>2 DEF CancelQueued, Ends
  <2> QED BY <2>1, NotifyType DEF TypeOK, StreamTypes
<1>3. ASSUME NEW e \in Executions, RequestCancellation(e) PROVE StreamTypes'
  BY <1>3 DEF RequestCancellation, Running, TypeOK, RowTypes, WorkerTypes, StreamTypes, Ends, Active, rowVars, workerVars, streamVars
<1>4. ASSUME NEW e \in Executions, Expire(e) PROVE StreamTypes'
  BY <1>4 DEF Expire, Running, TypeOK, RowTypes, WorkerTypes, StreamTypes, Ends, Active, rowVars, workerVars, streamVars
<1>5. ASSUME NEW e \in Executions, Connect(e) PROVE StreamTypes'
  BY <1>5 DEF Connect, TypeOK, RowTypes, WorkerTypes, StreamTypes, Ends, Active, rowVars, workerVars, streamVars
<1>6. ASSUME NEW e \in Executions, ReadEvent(e) PROVE StreamTypes'
  BY <1>6 DEF ReadEvent, TypeOK, RowTypes, WorkerTypes, StreamTypes, Ends, Active, rowVars, workerVars, streamVars
<1>7. ASSUME NEW e \in Executions, ReadNothing(e) PROVE StreamTypes'
  BY <1>7 DEF ReadNothing, TypeOK, RowTypes, WorkerTypes, StreamTypes, Ends, Active, rowVars, workerVars, streamVars
<1>8. ASSUME NEW e \in Executions, Disconnect(e) PROVE StreamTypes'
  BY <1>8 DEF Disconnect, TypeOK, RowTypes, WorkerTypes, StreamTypes, Ends, Active, rowVars, workerVars, streamVars
<1>9. ASSUME NEW e \in Executions, StreamExpires(e) PROVE StreamTypes'
  BY <1>9 DEF StreamExpires, TypeOK, RowTypes, WorkerTypes, StreamTypes, Ends, Active, rowVars, workerVars, streamVars
<1>10. ASSUME NEW v \in Conversations, DeleteConversation(v) PROVE StreamTypes'
  BY <1>10 DEF DeleteConversation, Busy, TypeOK, RowTypes, WorkerTypes, StreamTypes, Ends, Active, rowVars, workerVars, streamVars
<1>11. ASSUME FailExpiredExecutions PROVE StreamTypes'
  BY <1>11 DEF FailExpiredExecutions, Due, EndSteps, Running, TypeOK, RowTypes, WorkerTypes, StreamTypes, Ends, Active, rowVars, workerVars, streamVars
<1>12. ASSUME NEW w \in Workers, LoadFails(w) PROVE StreamTypes'
  BY <1>12 DEF LoadFails, TypeOK, RowTypes, WorkerTypes, StreamTypes, Ends, Active, rowVars, workerVars, streamVars
<1>13. ASSUME NEW w \in Workers, SelectModel(w) PROVE StreamTypes'
  <2>1. job[w] \in Executions
    BY <1>13 DEF SelectModel, TypeOK, WorkerTypes, Employed
  <2>2. "started" \in {"started"} \cup Ends
    OBVIOUS
  <2>3. (UNCHANGED unread \/ Notify(job[w], "started")) /\ UNCHANGED sub
    BY <1>13 DEF SelectModel
  <2> QED BY <2>1, <2>2, <2>3, NotifyType DEF TypeOK, StreamTypes
<1>14. ASSUME NEW w \in Workers, AgentAnswers(w) PROVE StreamTypes'
  BY <1>14 DEF AgentAnswers, StepsRunning, TypeOK, RowTypes, WorkerTypes, StreamTypes, Ends, Active, rowVars, workerVars, streamVars
<1>15. ASSUME NEW w \in Workers, AgentFails(w) PROVE StreamTypes'
  BY <1>15 DEF AgentFails, Owns, Running, TypeOK, RowTypes, WorkerTypes, StreamTypes, Ends, Active, rowVars, workerVars, streamVars
<1>16. ASSUME NEW w \in Workers, CompleteExecution(w) PROVE StreamTypes'
  BY <1>16 DEF CompleteExecution, Owns, Running, End, TypeOK, RowTypes, WorkerTypes, StreamTypes, Ends, Active, rowVars, workerVars, streamVars
<1>17. ASSUME NEW w \in Workers, CompleteFails(w) PROVE StreamTypes'
  BY <1>17 DEF CompleteFails, Owns, Running, TypeOK, RowTypes, WorkerTypes, StreamTypes, Ends, Active, rowVars, workerVars, streamVars
<1>18. ASSUME NEW w \in Workers, FailExecution(w) PROVE StreamTypes'
  BY <1>18 DEF FailExecution, Owns, Running, End, EndSteps, Returns, Leaves, TypeOK, RowTypes, WorkerTypes, StreamTypes, Ends, Active, rowVars, workerVars, streamVars
<1>19. ASSUME NEW w \in Workers, FailFails(w) PROVE StreamTypes'
  BY <1>19 DEF FailFails, Owns, Running, Returns, Leaves, TypeOK, RowTypes, WorkerTypes, StreamTypes, Ends, Active, rowVars, workerVars, streamVars
<1>20. ASSUME NEW w \in Workers, FinishCancellation(w) PROVE StreamTypes'
  BY <1>20 DEF FinishCancellation, Owns, Running, End, EndSteps, Returns, Leaves, TypeOK, RowTypes, WorkerTypes, StreamTypes, Ends, Active, rowVars, workerVars, streamVars
<1>21. ASSUME NEW w \in Workers, FinishCancellationFails(w) PROVE StreamTypes'
  BY <1>21 DEF FinishCancellationFails, Returns, Leaves, TypeOK, RowTypes, WorkerTypes, StreamTypes, Ends, Active, rowVars, workerVars, streamVars
<1>22. ASSUME NEW w \in Workers, NotifyEnd(w) PROVE StreamTypes'
  <2>1. job[w] \in Executions
    BY <1>22 DEF NotifyEnd, TypeOK, WorkerTypes, Employed
  <2>2. UNCHANGED sub
    BY <1>22 DEF NotifyEnd
  <2>3. CASE UNCHANGED unread
    BY <2>2, <2>3 DEF TypeOK, StreamTypes
  <2>4. CASE state[job[w]] \in Ends /\ Notify(job[w], state[job[w]])
    BY <2>1, <2>2, <2>4, NotifyType DEF TypeOK, StreamTypes
  <2> QED BY <1>22, <2>3, <2>4 DEF NotifyEnd
<1>23. ASSUME NEW w \in Workers, StopLease(w) PROVE StreamTypes'
  BY <1>23 DEF StopLease, CauseOr, TypeOK, RowTypes, WorkerTypes, StreamTypes, Ends, Active, rowVars, workerVars, streamVars
<1>24. ASSUME NEW w \in Workers, Join(w) PROVE StreamTypes'
  BY <1>24 DEF Join, AfterJoin, Leaves, TypeOK, RowTypes, WorkerTypes, StreamTypes, Ends, Active, rowVars, workerVars, streamVars
<1>25. ASSUME NEW w \in Workers, WatchTick(w) PROVE StreamTypes'
  BY <1>25 DEF WatchTick, TypeOK, RowTypes, WorkerTypes, StreamTypes, Ends, Active, rowVars, workerVars, streamVars
<1>26. ASSUME NEW w \in Workers, WatchDone(w) PROVE StreamTypes'
  BY <1>26 DEF WatchDone, TypeOK, RowTypes, WorkerTypes, StreamTypes, Ends, Active, rowVars, workerVars, streamVars
<1>27. ASSUME NEW w \in Workers, RenewOK(w) PROVE StreamTypes'
  BY <1>27 DEF RenewOK, Owns, Running, Renewed, CauseOr, TypeOK, RowTypes, WorkerTypes, StreamTypes, Ends, Active, rowVars, workerVars, streamVars
<1>28. ASSUME NEW w \in Workers, RenewFails(w) PROVE StreamTypes'
  BY <1>28 DEF RenewFails, Owns, Running, CauseOr, TypeOK, RowTypes, WorkerTypes, StreamTypes, Ends, Active, rowVars, workerVars, streamVars
<1>29. ASSUME NEW w \in Workers, StopWorker(w) PROVE StreamTypes'
  BY <1>29 DEF StopWorker, CauseOr, TypeOK, RowTypes, WorkerTypes, StreamTypes, Ends, Active, rowVars, workerVars, streamVars
<1>30. ASSUME NEW w \in Workers, Gone(w) PROVE StreamTypes'
  BY <1>30 DEF Gone, TypeOK, RowTypes, WorkerTypes, StreamTypes, Ends, Active, rowVars, workerVars, streamVars
<1>31. ASSUME NEW w \in Workers, NEW e \in Executions, Claim(w, e) PROVE StreamTypes'
  BY <1>31 DEF Claim, Started, TypeOK, RowTypes, WorkerTypes, StreamTypes, Ends, Active, rowVars, workerVars, streamVars
<1>32. ASSUME NEW w \in Workers, NEW e \in Executions, ClaimUnanswered(w, e) PROVE StreamTypes'
  BY <1>32 DEF ClaimUnanswered, Started, TypeOK, RowTypes, WorkerTypes, StreamTypes, Ends, Active, rowVars, workerVars, streamVars
<1>33. ASSUME NEW w \in Workers, NEW e \in Executions, GraphEnds(w, e) PROVE StreamTypes'
  BY <1>33 DEF GraphEnds, TypeOK, RowTypes, WorkerTypes, StreamTypes, Ends, Active, rowVars, workerVars, streamVars
<1>34. ASSUME NEW w \in Workers, NEW e \in Executions, NEW c \in Calls, StartStep(w, e, c) PROVE StreamTypes'
  BY <1>34 DEF StartStep, Owns, Running, TypeOK, RowTypes, WorkerTypes, StreamTypes, Ends, Active, rowVars, workerVars, streamVars
<1>35. ASSUME NEW w \in Workers, NEW e \in Executions, NEW c \in Calls, EndStep(w, e, c) PROVE StreamTypes'
  BY <1>35 DEF EndStep, Owns, Running, TypeOK, RowTypes, WorkerTypes, StreamTypes, Ends, Active, rowVars, workerVars, streamVars
<1> QED
  BY <1>0, <1>1, <1>2, <1>3, <1>4, <1>5, <1>6, <1>7, <1>8, <1>9, <1>10, <1>11, <1>12, <1>13, <1>14, <1>15, <1>16, <1>17, <1>18, <1>19, <1>20, <1>21, <1>22, <1>23, <1>24, <1>25, <1>26, <1>27, <1>28, <1>29, <1>30, <1>31, <1>32, <1>33, <1>34, <1>35
  DEF Next, User, Stream, Executor, Watcher, Graph

-----------------------------------------------------------------------------
(* The inductive invariant.                                                 *)

\* A worker takes an execution only by claiming it.
LEMMA FreshNext == IInv /\ [Next]_vars => Fresh'
<1> SUFFICES ASSUME IInv, [Next]_vars PROVE Fresh'
  OBVIOUS
<1> USE WorkerAssumption
<1>0. CASE UNCHANGED vars
  BY <1>0 DEF IInv, TypeOK, RowTypes, WorkerTypes, Fresh, Employed, Consistent, Has, Ends, vars, rowVars, workerVars, streamVars
<1>1. ASSUME NEW e \in Executions, Create(e) PROVE Fresh'
  BY <1>1 DEF Create, Busy, IInv, TypeOK, RowTypes, WorkerTypes, Fresh, Employed, Consistent, Has, Ends, rowVars, workerVars, streamVars
<1>2. ASSUME NEW e \in Executions, CancelQueued(e) PROVE Fresh'
  BY <1>2 DEF CancelQueued, Notify, IInv, TypeOK, RowTypes, WorkerTypes, Fresh, Employed, Consistent, Has, Ends, rowVars, workerVars, streamVars
<1>3. ASSUME NEW e \in Executions, RequestCancellation(e) PROVE Fresh'
  BY <1>3 DEF RequestCancellation, Running, IInv, TypeOK, RowTypes, WorkerTypes, Fresh, Employed, Consistent, Has, Ends, rowVars, workerVars, streamVars
<1>4. ASSUME NEW e \in Executions, Expire(e) PROVE Fresh'
  BY <1>4 DEF Expire, Running, IInv, TypeOK, RowTypes, WorkerTypes, Fresh, Employed, Consistent, Has, Ends, rowVars, workerVars, streamVars
<1>5. ASSUME NEW e \in Executions, Connect(e) PROVE Fresh'
  BY <1>5 DEF Connect, IInv, TypeOK, RowTypes, WorkerTypes, Fresh, Employed, Consistent, Has, Ends, rowVars, workerVars, streamVars
<1>6. ASSUME NEW e \in Executions, ReadEvent(e) PROVE Fresh'
  BY <1>6 DEF ReadEvent, IInv, TypeOK, RowTypes, WorkerTypes, Fresh, Employed, Consistent, Has, Ends, rowVars, workerVars, streamVars
<1>7. ASSUME NEW e \in Executions, ReadNothing(e) PROVE Fresh'
  BY <1>7 DEF ReadNothing, IInv, TypeOK, RowTypes, WorkerTypes, Fresh, Employed, Consistent, Has, Ends, rowVars, workerVars, streamVars
<1>8. ASSUME NEW e \in Executions, Disconnect(e) PROVE Fresh'
  BY <1>8 DEF Disconnect, IInv, TypeOK, RowTypes, WorkerTypes, Fresh, Employed, Consistent, Has, Ends, rowVars, workerVars, streamVars
<1>9. ASSUME NEW e \in Executions, StreamExpires(e) PROVE Fresh'
  BY <1>9 DEF StreamExpires, IInv, TypeOK, RowTypes, WorkerTypes, Fresh, Employed, Consistent, Has, Ends, rowVars, workerVars, streamVars
<1>10. ASSUME NEW v \in Conversations, DeleteConversation(v) PROVE Fresh'
  BY <1>10 DEF DeleteConversation, Busy, IInv, TypeOK, RowTypes, WorkerTypes, Fresh, Employed, Consistent, Has, Ends, rowVars, workerVars, streamVars
<1>11. ASSUME FailExpiredExecutions PROVE Fresh'
  BY <1>11 DEF FailExpiredExecutions, Due, EndSteps, Running, IInv, TypeOK, RowTypes, WorkerTypes, Fresh, Employed, Consistent, Has, Ends, rowVars, workerVars, streamVars
<1>12. ASSUME NEW w \in Workers, LoadFails(w) PROVE Fresh'
  BY <1>12 DEF LoadFails, IInv, TypeOK, RowTypes, WorkerTypes, Fresh, Employed, Consistent, Has, Ends, rowVars, workerVars, streamVars
<1>13. ASSUME NEW w \in Workers, SelectModel(w) PROVE Fresh'
  BY <1>13 DEF SelectModel, Owns, Running, Renewed, Notify, IInv, TypeOK, RowTypes, WorkerTypes, Fresh, Employed, Consistent, Has, Ends, rowVars, workerVars, streamVars
<1>14. ASSUME NEW w \in Workers, AgentAnswers(w) PROVE Fresh'
  BY <1>14 DEF AgentAnswers, StepsRunning, IInv, TypeOK, RowTypes, WorkerTypes, Fresh, Employed, Consistent, Has, Ends, rowVars, workerVars, streamVars
<1>15. ASSUME NEW w \in Workers, AgentFails(w) PROVE Fresh'
  BY <1>15 DEF AgentFails, Owns, Running, IInv, TypeOK, RowTypes, WorkerTypes, Fresh, Employed, Consistent, Has, Ends, rowVars, workerVars, streamVars
<1>16. ASSUME NEW w \in Workers, CompleteExecution(w) PROVE Fresh'
  BY <1>16 DEF CompleteExecution, Owns, Running, End, IInv, TypeOK, RowTypes, WorkerTypes, Fresh, Employed, Consistent, Has, Ends, rowVars, workerVars, streamVars
<1>17. ASSUME NEW w \in Workers, CompleteFails(w) PROVE Fresh'
  BY <1>17 DEF CompleteFails, Owns, Running, IInv, TypeOK, RowTypes, WorkerTypes, Fresh, Employed, Consistent, Has, Ends, rowVars, workerVars, streamVars
<1>18. ASSUME NEW w \in Workers, FailExecution(w) PROVE Fresh'
  BY <1>18 DEF FailExecution, Owns, Running, End, EndSteps, Returns, Leaves, IInv, TypeOK, RowTypes, WorkerTypes, Fresh, Employed, Consistent, Has, Ends, rowVars, workerVars, streamVars
<1>19. ASSUME NEW w \in Workers, FailFails(w) PROVE Fresh'
  BY <1>19 DEF FailFails, Owns, Running, Returns, Leaves, IInv, TypeOK, RowTypes, WorkerTypes, Fresh, Employed, Consistent, Has, Ends, rowVars, workerVars, streamVars
<1>20. ASSUME NEW w \in Workers, FinishCancellation(w) PROVE Fresh'
  BY <1>20 DEF FinishCancellation, Owns, Running, End, EndSteps, Returns, Leaves, IInv, TypeOK, RowTypes, WorkerTypes, Fresh, Employed, Consistent, Has, Ends, rowVars, workerVars, streamVars
<1>21. ASSUME NEW w \in Workers, FinishCancellationFails(w) PROVE Fresh'
  BY <1>21 DEF FinishCancellationFails, Returns, Leaves, IInv, TypeOK, RowTypes, WorkerTypes, Fresh, Employed, Consistent, Has, Ends, rowVars, workerVars, streamVars
<1>22. ASSUME NEW w \in Workers, NotifyEnd(w) PROVE Fresh'
  BY <1>22 DEF NotifyEnd, Notify, Returns, Leaves, IInv, TypeOK, RowTypes, WorkerTypes, Fresh, Employed, Consistent, Has, Ends, rowVars, workerVars, streamVars
<1>23. ASSUME NEW w \in Workers, StopLease(w) PROVE Fresh'
  BY <1>23 DEF StopLease, CauseOr, IInv, TypeOK, RowTypes, WorkerTypes, Fresh, Employed, Consistent, Has, Ends, rowVars, workerVars, streamVars
<1>24. ASSUME NEW w \in Workers, Join(w) PROVE Fresh'
  BY <1>24 DEF Join, AfterJoin, Leaves, IInv, TypeOK, RowTypes, WorkerTypes, Fresh, Employed, Consistent, Has, Ends, rowVars, workerVars, streamVars
<1>25. ASSUME NEW w \in Workers, WatchTick(w) PROVE Fresh'
  BY <1>25 DEF WatchTick, IInv, TypeOK, RowTypes, WorkerTypes, Fresh, Employed, Consistent, Has, Ends, rowVars, workerVars, streamVars
<1>26. ASSUME NEW w \in Workers, WatchDone(w) PROVE Fresh'
  BY <1>26 DEF WatchDone, IInv, TypeOK, RowTypes, WorkerTypes, Fresh, Employed, Consistent, Has, Ends, rowVars, workerVars, streamVars
<1>27. ASSUME NEW w \in Workers, RenewOK(w) PROVE Fresh'
  BY <1>27 DEF RenewOK, Owns, Running, Renewed, CauseOr, IInv, TypeOK, RowTypes, WorkerTypes, Fresh, Employed, Consistent, Has, Ends, rowVars, workerVars, streamVars
<1>28. ASSUME NEW w \in Workers, RenewFails(w) PROVE Fresh'
  BY <1>28 DEF RenewFails, Owns, Running, CauseOr, IInv, TypeOK, RowTypes, WorkerTypes, Fresh, Employed, Consistent, Has, Ends, rowVars, workerVars, streamVars
<1>29. ASSUME NEW w \in Workers, StopWorker(w) PROVE Fresh'
  BY <1>29 DEF StopWorker, CauseOr, IInv, TypeOK, RowTypes, WorkerTypes, Fresh, Employed, Consistent, Has, Ends, rowVars, workerVars, streamVars
<1>30. ASSUME NEW w \in Workers, Gone(w) PROVE Fresh'
  BY <1>30 DEF Gone, IInv, TypeOK, RowTypes, WorkerTypes, Fresh, Employed, Consistent, Has, Ends, rowVars, workerVars, streamVars
<1>31. ASSUME NEW w \in Workers, NEW e \in Executions, Claim(w, e) PROVE Fresh'
  BY <1>31 DEF Claim, Started, IInv, TypeOK, RowTypes, WorkerTypes, Fresh, Employed, Consistent, Has, Ends, rowVars, workerVars, streamVars
<1>32. ASSUME NEW w \in Workers, NEW e \in Executions, ClaimUnanswered(w, e) PROVE Fresh'
  BY <1>32 DEF ClaimUnanswered, Started, IInv, TypeOK, RowTypes, WorkerTypes, Fresh, Employed, Consistent, Has, Ends, rowVars, workerVars, streamVars
<1>33. ASSUME NEW w \in Workers, NEW e \in Executions, GraphEnds(w, e) PROVE Fresh'
  BY <1>33 DEF GraphEnds, IInv, TypeOK, RowTypes, WorkerTypes, Fresh, Employed, Consistent, Has, Ends, rowVars, workerVars, streamVars
<1>34. ASSUME NEW w \in Workers, NEW e \in Executions, NEW c \in Calls, StartStep(w, e, c) PROVE Fresh'
  BY <1>34 DEF StartStep, Owns, Running, IInv, TypeOK, RowTypes, WorkerTypes, Fresh, Employed, Consistent, Has, Ends, rowVars, workerVars, streamVars
<1>35. ASSUME NEW w \in Workers, NEW e \in Executions, NEW c \in Calls, EndStep(w, e, c) PROVE Fresh'
  BY <1>35 DEF EndStep, Owns, Running, IInv, TypeOK, RowTypes, WorkerTypes, Fresh, Employed, Consistent, Has, Ends, rowVars, workerVars, streamVars
<1> QED
  BY <1>0, <1>1, <1>2, <1>3, <1>4, <1>5, <1>6, <1>7, <1>8, <1>9, <1>10, <1>11, <1>12, <1>13, <1>14, <1>15, <1>16, <1>17, <1>18, <1>19, <1>20, <1>21, <1>22, <1>23, <1>24, <1>25, <1>26, <1>27, <1>28, <1>29, <1>30, <1>31, <1>32, <1>33, <1>34, <1>35
  DEF Next, User, Stream, Executor, Watcher, Graph

\* A worker that leaves its execution has stopped its watcher.
LEMMA EmployedNext == TypeOK /\ Employed /\ [Next]_vars => Employed'
<1> SUFFICES ASSUME TypeOK /\ Employed, [Next]_vars PROVE Employed'
  OBVIOUS
<1> USE WorkerAssumption
<1>0. CASE UNCHANGED vars
  BY <1>0 DEF TypeOK, WorkerTypes, Employed, vars, rowVars, workerVars, streamVars
<1>1. ASSUME NEW e \in Executions, Create(e) PROVE Employed'
  BY <1>1 DEF Create, Busy, TypeOK, WorkerTypes, Employed, rowVars, workerVars, streamVars
<1>2. ASSUME NEW e \in Executions, CancelQueued(e) PROVE Employed'
  BY <1>2 DEF CancelQueued, Notify, TypeOK, WorkerTypes, Employed, rowVars, workerVars, streamVars
<1>3. ASSUME NEW e \in Executions, RequestCancellation(e) PROVE Employed'
  BY <1>3 DEF RequestCancellation, Running, TypeOK, WorkerTypes, Employed, rowVars, workerVars, streamVars
<1>4. ASSUME NEW e \in Executions, Expire(e) PROVE Employed'
  BY <1>4 DEF Expire, Running, TypeOK, WorkerTypes, Employed, rowVars, workerVars, streamVars
<1>5. ASSUME NEW e \in Executions, Connect(e) PROVE Employed'
  BY <1>5 DEF Connect, TypeOK, WorkerTypes, Employed, rowVars, workerVars, streamVars
<1>6. ASSUME NEW e \in Executions, ReadEvent(e) PROVE Employed'
  BY <1>6 DEF ReadEvent, TypeOK, WorkerTypes, Employed, rowVars, workerVars, streamVars
<1>7. ASSUME NEW e \in Executions, ReadNothing(e) PROVE Employed'
  BY <1>7 DEF ReadNothing, TypeOK, WorkerTypes, Employed, rowVars, workerVars, streamVars
<1>8. ASSUME NEW e \in Executions, Disconnect(e) PROVE Employed'
  BY <1>8 DEF Disconnect, TypeOK, WorkerTypes, Employed, rowVars, workerVars, streamVars
<1>9. ASSUME NEW e \in Executions, StreamExpires(e) PROVE Employed'
  BY <1>9 DEF StreamExpires, TypeOK, WorkerTypes, Employed, rowVars, workerVars, streamVars
<1>10. ASSUME NEW v \in Conversations, DeleteConversation(v) PROVE Employed'
  BY <1>10 DEF DeleteConversation, Busy, TypeOK, WorkerTypes, Employed, rowVars, workerVars, streamVars
<1>11. ASSUME FailExpiredExecutions PROVE Employed'
  BY <1>11 DEF FailExpiredExecutions, Due, EndSteps, Running, TypeOK, WorkerTypes, Employed, rowVars, workerVars, streamVars
<1>12. ASSUME NEW w \in Workers, LoadFails(w) PROVE Employed'
  BY <1>12 DEF LoadFails, TypeOK, WorkerTypes, Employed, rowVars, workerVars, streamVars
<1>13. ASSUME NEW w \in Workers, SelectModel(w) PROVE Employed'
  BY <1>13 DEF SelectModel, Owns, Running, Renewed, Notify, TypeOK, WorkerTypes, Employed, rowVars, workerVars, streamVars
<1>14. ASSUME NEW w \in Workers, AgentAnswers(w) PROVE Employed'
  BY <1>14 DEF AgentAnswers, StepsRunning, TypeOK, WorkerTypes, Employed, rowVars, workerVars, streamVars
<1>15. ASSUME NEW w \in Workers, AgentFails(w) PROVE Employed'
  BY <1>15 DEF AgentFails, Owns, Running, TypeOK, WorkerTypes, Employed, rowVars, workerVars, streamVars
<1>16. ASSUME NEW w \in Workers, CompleteExecution(w) PROVE Employed'
  BY <1>16 DEF CompleteExecution, Owns, Running, End, TypeOK, WorkerTypes, Employed, rowVars, workerVars, streamVars
<1>17. ASSUME NEW w \in Workers, CompleteFails(w) PROVE Employed'
  BY <1>17 DEF CompleteFails, Owns, Running, TypeOK, WorkerTypes, Employed, rowVars, workerVars, streamVars
<1>18. ASSUME NEW w \in Workers, FailExecution(w) PROVE Employed'
  BY <1>18 DEF FailExecution, Owns, Running, End, EndSteps, Returns, Leaves, TypeOK, WorkerTypes, Employed, rowVars, workerVars, streamVars
<1>19. ASSUME NEW w \in Workers, FailFails(w) PROVE Employed'
  BY <1>19 DEF FailFails, Owns, Running, Returns, Leaves, TypeOK, WorkerTypes, Employed, rowVars, workerVars, streamVars
<1>20. ASSUME NEW w \in Workers, FinishCancellation(w) PROVE Employed'
  BY <1>20 DEF FinishCancellation, Owns, Running, End, EndSteps, Returns, Leaves, TypeOK, WorkerTypes, Employed, rowVars, workerVars, streamVars
<1>21. ASSUME NEW w \in Workers, FinishCancellationFails(w) PROVE Employed'
  BY <1>21 DEF FinishCancellationFails, Returns, Leaves, TypeOK, WorkerTypes, Employed, rowVars, workerVars, streamVars
<1>22. ASSUME NEW w \in Workers, NotifyEnd(w) PROVE Employed'
  BY <1>22 DEF NotifyEnd, Notify, Returns, Leaves, TypeOK, WorkerTypes, Employed, rowVars, workerVars, streamVars
<1>23. ASSUME NEW w \in Workers, StopLease(w) PROVE Employed'
  BY <1>23 DEF StopLease, CauseOr, TypeOK, WorkerTypes, Employed, rowVars, workerVars, streamVars
<1>24. ASSUME NEW w \in Workers, Join(w) PROVE Employed'
  BY <1>24 DEF Join, AfterJoin, Leaves, TypeOK, WorkerTypes, Employed, rowVars, workerVars, streamVars
<1>25. ASSUME NEW w \in Workers, WatchTick(w) PROVE Employed'
  BY <1>25 DEF WatchTick, TypeOK, WorkerTypes, Employed, rowVars, workerVars, streamVars
<1>26. ASSUME NEW w \in Workers, WatchDone(w) PROVE Employed'
  BY <1>26 DEF WatchDone, TypeOK, WorkerTypes, Employed, rowVars, workerVars, streamVars
<1>27. ASSUME NEW w \in Workers, RenewOK(w) PROVE Employed'
  BY <1>27 DEF RenewOK, Owns, Running, Renewed, CauseOr, TypeOK, WorkerTypes, Employed, rowVars, workerVars, streamVars
<1>28. ASSUME NEW w \in Workers, RenewFails(w) PROVE Employed'
  BY <1>28 DEF RenewFails, Owns, Running, CauseOr, TypeOK, WorkerTypes, Employed, rowVars, workerVars, streamVars
<1>29. ASSUME NEW w \in Workers, StopWorker(w) PROVE Employed'
  BY <1>29 DEF StopWorker, CauseOr, TypeOK, WorkerTypes, Employed, rowVars, workerVars, streamVars
<1>30. ASSUME NEW w \in Workers, Gone(w) PROVE Employed'
  BY <1>30 DEF Gone, TypeOK, WorkerTypes, Employed, rowVars, workerVars, streamVars
<1>31. ASSUME NEW w \in Workers, NEW e \in Executions, Claim(w, e) PROVE Employed'
  BY <1>31 DEF Claim, Started, TypeOK, WorkerTypes, Employed, rowVars, workerVars, streamVars
<1>32. ASSUME NEW w \in Workers, NEW e \in Executions, ClaimUnanswered(w, e) PROVE Employed'
  BY <1>32 DEF ClaimUnanswered, Started, TypeOK, WorkerTypes, Employed, rowVars, workerVars, streamVars
<1>33. ASSUME NEW w \in Workers, NEW e \in Executions, GraphEnds(w, e) PROVE Employed'
  BY <1>33 DEF GraphEnds, TypeOK, WorkerTypes, Employed, rowVars, workerVars, streamVars
<1>34. ASSUME NEW w \in Workers, NEW e \in Executions, NEW c \in Calls, StartStep(w, e, c) PROVE Employed'
  BY <1>34 DEF StartStep, Owns, Running, TypeOK, WorkerTypes, Employed, rowVars, workerVars, streamVars
<1>35. ASSUME NEW w \in Workers, NEW e \in Executions, NEW c \in Calls, EndStep(w, e, c) PROVE Employed'
  BY <1>35 DEF EndStep, Owns, Running, TypeOK, WorkerTypes, Employed, rowVars, workerVars, streamVars
<1> QED
  BY <1>0, <1>1, <1>2, <1>3, <1>4, <1>5, <1>6, <1>7, <1>8, <1>9, <1>10, <1>11, <1>12, <1>13, <1>14, <1>15, <1>16, <1>17, <1>18, <1>19, <1>20, <1>21, <1>22, <1>23, <1>24, <1>25, <1>26, <1>27, <1>28, <1>29, <1>30, <1>31, <1>32, <1>33, <1>34, <1>35
  DEF Next, User, Stream, Executor, Watcher, Graph

\* Every commit leaves a row that can be restored.
LEMMA ConsistentNext == IInv /\ [Next]_vars => Consistent'
<1> SUFFICES ASSUME IInv, [Next]_vars PROVE Consistent'
  OBVIOUS
<1> USE WorkerAssumption
<1>0. CASE UNCHANGED vars
  BY <1>0 DEF IInv, TypeOK, RowTypes, WorkerTypes, Employed, Consistent, Running, Ends, vars, rowVars, workerVars, streamVars
<1>1. ASSUME NEW e \in Executions, Create(e) PROVE Consistent'
  BY <1>1 DEF Create, Busy, IInv, TypeOK, RowTypes, WorkerTypes, Employed, Consistent, Running, Ends, rowVars, workerVars, streamVars
<1>2. ASSUME NEW e \in Executions, CancelQueued(e) PROVE Consistent'
  BY <1>2 DEF CancelQueued, IInv, TypeOK, RowTypes, WorkerTypes, Fresh, Consistent, Running, Ends, workerVars
<1>3. ASSUME NEW e \in Executions, RequestCancellation(e) PROVE Consistent'
  BY <1>3 DEF RequestCancellation, IInv, TypeOK, RowTypes, WorkerTypes, Employed, Consistent, Running, Ends, rowVars, workerVars, streamVars
<1>4. ASSUME NEW e \in Executions, Expire(e) PROVE Consistent'
  BY <1>4 DEF Expire, IInv, TypeOK, RowTypes, WorkerTypes, Employed, Consistent, Running, Ends, rowVars, workerVars, streamVars
<1>5. ASSUME NEW e \in Executions, Connect(e) PROVE Consistent'
  BY <1>5 DEF Connect, IInv, TypeOK, RowTypes, WorkerTypes, Employed, Consistent, Running, Ends, rowVars, workerVars, streamVars
<1>6. ASSUME NEW e \in Executions, ReadEvent(e) PROVE Consistent'
  BY <1>6 DEF ReadEvent, IInv, TypeOK, RowTypes, WorkerTypes, Employed, Consistent, Running, Ends, rowVars, workerVars, streamVars
<1>7. ASSUME NEW e \in Executions, ReadNothing(e) PROVE Consistent'
  BY <1>7 DEF ReadNothing, IInv, TypeOK, RowTypes, WorkerTypes, Employed, Consistent, Running, Ends, rowVars, workerVars, streamVars
<1>8. ASSUME NEW e \in Executions, Disconnect(e) PROVE Consistent'
  BY <1>8 DEF Disconnect, IInv, TypeOK, RowTypes, WorkerTypes, Employed, Consistent, Running, Ends, rowVars, workerVars, streamVars
<1>9. ASSUME NEW e \in Executions, StreamExpires(e) PROVE Consistent'
  BY <1>9 DEF StreamExpires, IInv, TypeOK, RowTypes, WorkerTypes, Employed, Consistent, Running, Ends, rowVars, workerVars, streamVars
<1>10. ASSUME NEW v \in Conversations, DeleteConversation(v) PROVE Consistent'
  BY <1>10 DEF DeleteConversation, Busy, IInv, TypeOK, RowTypes, WorkerTypes, Employed, Consistent, Running, Ends, rowVars, workerVars, streamVars
<1>11. ASSUME FailExpiredExecutions PROVE Consistent'
  BY <1>11 DEF FailExpiredExecutions, Due, EndSteps, IInv, TypeOK, RowTypes, WorkerTypes, Employed, Consistent, Running, Ends, rowVars, workerVars, streamVars
<1>12. ASSUME NEW w \in Workers, LoadFails(w) PROVE Consistent'
  BY <1>12 DEF LoadFails, IInv, TypeOK, RowTypes, WorkerTypes, Employed, Consistent, Running, Ends, rowVars, workerVars, streamVars
<1>13. ASSUME NEW w \in Workers, SelectModel(w) PROVE Consistent'
  BY <1>13 DEF SelectModel, Owns, Renewed, Notify, IInv, TypeOK, RowTypes, WorkerTypes, Employed, Consistent, Running, Ends, rowVars, workerVars, streamVars
<1>14. ASSUME NEW w \in Workers, AgentAnswers(w) PROVE Consistent'
  BY <1>14 DEF AgentAnswers, StepsRunning, IInv, TypeOK, RowTypes, WorkerTypes, Employed, Consistent, Running, Ends, rowVars, workerVars, streamVars
<1>15. ASSUME NEW w \in Workers, AgentFails(w) PROVE Consistent'
  BY <1>15 DEF AgentFails, Owns, IInv, TypeOK, RowTypes, WorkerTypes, Employed, Consistent, Running, Ends, rowVars, workerVars, streamVars
<1>16. ASSUME NEW w \in Workers, CompleteExecution(w) PROVE Consistent'
  BY <1>16 DEF CompleteExecution, Owns, End, IInv, TypeOK, RowTypes, WorkerTypes, Employed, Consistent, Running, Ends, rowVars, workerVars, streamVars
<1>17. ASSUME NEW w \in Workers, CompleteFails(w) PROVE Consistent'
  BY <1>17 DEF CompleteFails, Owns, IInv, TypeOK, RowTypes, WorkerTypes, Employed, Consistent, Running, Ends, rowVars, workerVars, streamVars
<1>18. ASSUME NEW w \in Workers, FailExecution(w) PROVE Consistent'
  BY <1>18 DEF FailExecution, Owns, End, EndSteps, Returns, Leaves, IInv, TypeOK, RowTypes, WorkerTypes, Employed, Consistent, Running, Ends, rowVars, workerVars, streamVars
<1>19. ASSUME NEW w \in Workers, FailFails(w) PROVE Consistent'
  BY <1>19 DEF FailFails, Owns, Returns, Leaves, IInv, TypeOK, RowTypes, WorkerTypes, Employed, Consistent, Running, Ends, rowVars, workerVars, streamVars
<1>20. ASSUME NEW w \in Workers, FinishCancellation(w) PROVE Consistent'
  BY <1>20 DEF FinishCancellation, Owns, End, EndSteps, Returns, Leaves, IInv, TypeOK, RowTypes, WorkerTypes, Employed, Consistent, Running, Ends, rowVars, workerVars, streamVars
<1>21. ASSUME NEW w \in Workers, FinishCancellationFails(w) PROVE Consistent'
  BY <1>21 DEF FinishCancellationFails, Returns, Leaves, IInv, TypeOK, RowTypes, WorkerTypes, Employed, Consistent, Running, Ends, rowVars, workerVars, streamVars
<1>22. ASSUME NEW w \in Workers, NotifyEnd(w) PROVE Consistent'
  BY <1>22 DEF NotifyEnd, Notify, Returns, Leaves, IInv, TypeOK, RowTypes, WorkerTypes, Employed, Consistent, Running, Ends, rowVars, workerVars, streamVars
<1>23. ASSUME NEW w \in Workers, StopLease(w) PROVE Consistent'
  BY <1>23 DEF StopLease, CauseOr, IInv, TypeOK, RowTypes, WorkerTypes, Employed, Consistent, Running, Ends, rowVars, workerVars, streamVars
<1>24. ASSUME NEW w \in Workers, Join(w) PROVE Consistent'
  BY <1>24 DEF Join, AfterJoin, Leaves, IInv, TypeOK, RowTypes, WorkerTypes, Employed, Consistent, Running, Ends, rowVars, workerVars, streamVars
<1>25. ASSUME NEW w \in Workers, WatchTick(w) PROVE Consistent'
  BY <1>25 DEF WatchTick, IInv, TypeOK, RowTypes, WorkerTypes, Employed, Consistent, Running, Ends, rowVars, workerVars, streamVars
<1>26. ASSUME NEW w \in Workers, WatchDone(w) PROVE Consistent'
  BY <1>26 DEF WatchDone, IInv, TypeOK, RowTypes, WorkerTypes, Employed, Consistent, Running, Ends, rowVars, workerVars, streamVars
<1>27. ASSUME NEW w \in Workers, RenewOK(w) PROVE Consistent'
  BY <1>27 DEF RenewOK, Owns, Renewed, CauseOr, IInv, TypeOK, RowTypes, WorkerTypes, Employed, Consistent, Running, Ends, rowVars, workerVars, streamVars
<1>28. ASSUME NEW w \in Workers, RenewFails(w) PROVE Consistent'
  BY <1>28 DEF RenewFails, Owns, CauseOr, IInv, TypeOK, RowTypes, WorkerTypes, Employed, Consistent, Running, Ends, rowVars, workerVars, streamVars
<1>29. ASSUME NEW w \in Workers, StopWorker(w) PROVE Consistent'
  BY <1>29 DEF StopWorker, CauseOr, IInv, TypeOK, RowTypes, WorkerTypes, Employed, Consistent, Running, Ends, rowVars, workerVars, streamVars
<1>30. ASSUME NEW w \in Workers, Gone(w) PROVE Consistent'
  BY <1>30 DEF Gone, IInv, TypeOK, RowTypes, WorkerTypes, Employed, Consistent, Running, Ends, rowVars, workerVars, streamVars
<1>31. ASSUME NEW w \in Workers, NEW e \in Executions, Claim(w, e) PROVE Consistent'
  BY <1>31 DEF Claim, Started, IInv, TypeOK, RowTypes, WorkerTypes, Employed, Consistent, Running, Ends, rowVars, workerVars, streamVars
<1>32. ASSUME NEW w \in Workers, NEW e \in Executions, ClaimUnanswered(w, e) PROVE Consistent'
  BY <1>32 DEF ClaimUnanswered, Started, IInv, TypeOK, RowTypes, WorkerTypes, Employed, Consistent, Running, Ends, rowVars, workerVars, streamVars
<1>33. ASSUME NEW w \in Workers, NEW e \in Executions, GraphEnds(w, e) PROVE Consistent'
  BY <1>33 DEF GraphEnds, IInv, TypeOK, RowTypes, WorkerTypes, Employed, Consistent, Running, Ends, rowVars, workerVars, streamVars
<1>34. ASSUME NEW w \in Workers, NEW e \in Executions, NEW c \in Calls, StartStep(w, e, c) PROVE Consistent'
  BY <1>34 DEF StartStep, Owns, IInv, TypeOK, RowTypes, WorkerTypes, Employed, Consistent, Running, Ends, rowVars, workerVars, streamVars
<1>35. ASSUME NEW w \in Workers, NEW e \in Executions, NEW c \in Calls, EndStep(w, e, c) PROVE Consistent'
  BY <1>35 DEF EndStep, Owns, IInv, TypeOK, RowTypes, WorkerTypes, Employed, Consistent, Running, Ends, rowVars, workerVars, streamVars
<1> QED
  BY <1>0, <1>1, <1>2, <1>3, <1>4, <1>5, <1>6, <1>7, <1>8, <1>9, <1>10, <1>11, <1>12, <1>13, <1>14, <1>15, <1>16, <1>17, <1>18, <1>19, <1>20, <1>21, <1>22, <1>23, <1>24, <1>25, <1>26, <1>27, <1>28, <1>29, <1>30, <1>31, <1>32, <1>33, <1>34, <1>35
  DEF Next, User, Stream, Executor, Watcher, Graph

\* No second worker can claim what somebody has, or had.
LEMMA OneWorkerNext == IInv /\ [Next]_vars => OneWorker'
<1> SUFFICES ASSUME IInv, [Next]_vars PROVE OneWorker'
  OBVIOUS
<1> USE WorkerAssumption
<1>0. CASE UNCHANGED vars
  BY <1>0 DEF IInv, TypeOK, RowTypes, WorkerTypes, Fresh, Employed, OneWorker, Has, vars, rowVars, workerVars, streamVars
<1>1. ASSUME NEW e \in Executions, Create(e) PROVE OneWorker'
  BY <1>1 DEF Create, Busy, IInv, TypeOK, RowTypes, WorkerTypes, Fresh, Employed, OneWorker, Has, rowVars, workerVars, streamVars
<1>2. ASSUME NEW e \in Executions, CancelQueued(e) PROVE OneWorker'
  BY <1>2 DEF CancelQueued, Notify, IInv, TypeOK, RowTypes, WorkerTypes, Fresh, Employed, OneWorker, Has, rowVars, workerVars, streamVars
<1>3. ASSUME NEW e \in Executions, RequestCancellation(e) PROVE OneWorker'
  BY <1>3 DEF RequestCancellation, Running, IInv, TypeOK, RowTypes, WorkerTypes, Fresh, Employed, OneWorker, Has, rowVars, workerVars, streamVars
<1>4. ASSUME NEW e \in Executions, Expire(e) PROVE OneWorker'
  BY <1>4 DEF Expire, Running, IInv, TypeOK, RowTypes, WorkerTypes, Fresh, Employed, OneWorker, Has, rowVars, workerVars, streamVars
<1>5. ASSUME NEW e \in Executions, Connect(e) PROVE OneWorker'
  BY <1>5 DEF Connect, IInv, TypeOK, RowTypes, WorkerTypes, Fresh, Employed, OneWorker, Has, rowVars, workerVars, streamVars
<1>6. ASSUME NEW e \in Executions, ReadEvent(e) PROVE OneWorker'
  BY <1>6 DEF ReadEvent, IInv, TypeOK, RowTypes, WorkerTypes, Fresh, Employed, OneWorker, Has, rowVars, workerVars, streamVars
<1>7. ASSUME NEW e \in Executions, ReadNothing(e) PROVE OneWorker'
  BY <1>7 DEF ReadNothing, IInv, TypeOK, RowTypes, WorkerTypes, Fresh, Employed, OneWorker, Has, rowVars, workerVars, streamVars
<1>8. ASSUME NEW e \in Executions, Disconnect(e) PROVE OneWorker'
  BY <1>8 DEF Disconnect, IInv, TypeOK, RowTypes, WorkerTypes, Fresh, Employed, OneWorker, Has, rowVars, workerVars, streamVars
<1>9. ASSUME NEW e \in Executions, StreamExpires(e) PROVE OneWorker'
  BY <1>9 DEF StreamExpires, IInv, TypeOK, RowTypes, WorkerTypes, Fresh, Employed, OneWorker, Has, rowVars, workerVars, streamVars
<1>10. ASSUME NEW v \in Conversations, DeleteConversation(v) PROVE OneWorker'
  BY <1>10 DEF DeleteConversation, Busy, IInv, TypeOK, RowTypes, WorkerTypes, Fresh, Employed, OneWorker, Has, rowVars, workerVars, streamVars
<1>11. ASSUME FailExpiredExecutions PROVE OneWorker'
  BY <1>11 DEF FailExpiredExecutions, Due, EndSteps, Running, IInv, TypeOK, RowTypes, WorkerTypes, Fresh, Employed, OneWorker, Has, rowVars, workerVars, streamVars
<1>12. ASSUME NEW w \in Workers, LoadFails(w) PROVE OneWorker'
  BY <1>12 DEF LoadFails, IInv, TypeOK, RowTypes, WorkerTypes, Fresh, Employed, OneWorker, Has, rowVars, workerVars, streamVars
<1>13. ASSUME NEW w \in Workers, SelectModel(w) PROVE OneWorker'
  BY <1>13 DEF SelectModel, Owns, Running, Renewed, Notify, IInv, TypeOK, RowTypes, WorkerTypes, Fresh, Employed, OneWorker, Has, rowVars, workerVars, streamVars
<1>14. ASSUME NEW w \in Workers, AgentAnswers(w) PROVE OneWorker'
  BY <1>14 DEF AgentAnswers, StepsRunning, IInv, TypeOK, RowTypes, WorkerTypes, Fresh, Employed, OneWorker, Has, rowVars, workerVars, streamVars
<1>15. ASSUME NEW w \in Workers, AgentFails(w) PROVE OneWorker'
  BY <1>15 DEF AgentFails, Owns, Running, IInv, TypeOK, RowTypes, WorkerTypes, Fresh, Employed, OneWorker, Has, rowVars, workerVars, streamVars
<1>16. ASSUME NEW w \in Workers, CompleteExecution(w) PROVE OneWorker'
  BY <1>16 DEF CompleteExecution, Owns, Running, End, IInv, TypeOK, RowTypes, WorkerTypes, Fresh, Employed, OneWorker, Has, rowVars, workerVars, streamVars
<1>17. ASSUME NEW w \in Workers, CompleteFails(w) PROVE OneWorker'
  BY <1>17 DEF CompleteFails, Owns, Running, IInv, TypeOK, RowTypes, WorkerTypes, Fresh, Employed, OneWorker, Has, rowVars, workerVars, streamVars
<1>18. ASSUME NEW w \in Workers, FailExecution(w) PROVE OneWorker'
  BY <1>18 DEF FailExecution, Owns, Running, End, EndSteps, Returns, Leaves, IInv, TypeOK, RowTypes, WorkerTypes, Fresh, Employed, OneWorker, Has, rowVars, workerVars, streamVars
<1>19. ASSUME NEW w \in Workers, FailFails(w) PROVE OneWorker'
  BY <1>19 DEF FailFails, Owns, Running, Returns, Leaves, IInv, TypeOK, RowTypes, WorkerTypes, Fresh, Employed, OneWorker, Has, rowVars, workerVars, streamVars
<1>20. ASSUME NEW w \in Workers, FinishCancellation(w) PROVE OneWorker'
  BY <1>20 DEF FinishCancellation, Owns, Running, End, EndSteps, Returns, Leaves, IInv, TypeOK, RowTypes, WorkerTypes, Fresh, Employed, OneWorker, Has, rowVars, workerVars, streamVars
<1>21. ASSUME NEW w \in Workers, FinishCancellationFails(w) PROVE OneWorker'
  BY <1>21 DEF FinishCancellationFails, Returns, Leaves, IInv, TypeOK, RowTypes, WorkerTypes, Fresh, Employed, OneWorker, Has, rowVars, workerVars, streamVars
<1>22. ASSUME NEW w \in Workers, NotifyEnd(w) PROVE OneWorker'
  BY <1>22 DEF NotifyEnd, Notify, Returns, Leaves, IInv, TypeOK, RowTypes, WorkerTypes, Fresh, Employed, OneWorker, Has, rowVars, workerVars, streamVars
<1>23. ASSUME NEW w \in Workers, StopLease(w) PROVE OneWorker'
  BY <1>23 DEF StopLease, CauseOr, IInv, TypeOK, RowTypes, WorkerTypes, Fresh, Employed, OneWorker, Has, rowVars, workerVars, streamVars
<1>24. ASSUME NEW w \in Workers, Join(w) PROVE OneWorker'
  BY <1>24 DEF Join, AfterJoin, Leaves, IInv, TypeOK, RowTypes, WorkerTypes, Fresh, Employed, OneWorker, Has, rowVars, workerVars, streamVars
<1>25. ASSUME NEW w \in Workers, WatchTick(w) PROVE OneWorker'
  BY <1>25 DEF WatchTick, IInv, TypeOK, RowTypes, WorkerTypes, Fresh, Employed, OneWorker, Has, rowVars, workerVars, streamVars
<1>26. ASSUME NEW w \in Workers, WatchDone(w) PROVE OneWorker'
  BY <1>26 DEF WatchDone, IInv, TypeOK, RowTypes, WorkerTypes, Fresh, Employed, OneWorker, Has, rowVars, workerVars, streamVars
<1>27. ASSUME NEW w \in Workers, RenewOK(w) PROVE OneWorker'
  BY <1>27 DEF RenewOK, Owns, Running, Renewed, CauseOr, IInv, TypeOK, RowTypes, WorkerTypes, Fresh, Employed, OneWorker, Has, rowVars, workerVars, streamVars
<1>28. ASSUME NEW w \in Workers, RenewFails(w) PROVE OneWorker'
  BY <1>28 DEF RenewFails, Owns, Running, CauseOr, IInv, TypeOK, RowTypes, WorkerTypes, Fresh, Employed, OneWorker, Has, rowVars, workerVars, streamVars
<1>29. ASSUME NEW w \in Workers, StopWorker(w) PROVE OneWorker'
  BY <1>29 DEF StopWorker, CauseOr, IInv, TypeOK, RowTypes, WorkerTypes, Fresh, Employed, OneWorker, Has, rowVars, workerVars, streamVars
<1>30. ASSUME NEW w \in Workers, Gone(w) PROVE OneWorker'
  BY <1>30 DEF Gone, IInv, TypeOK, RowTypes, WorkerTypes, Fresh, Employed, OneWorker, Has, rowVars, workerVars, streamVars
<1>31. ASSUME NEW w \in Workers, NEW e \in Executions, Claim(w, e) PROVE OneWorker'
  BY <1>31 DEF Claim, Started, IInv, TypeOK, RowTypes, WorkerTypes, Fresh, Employed, OneWorker, Has, rowVars, workerVars, streamVars
<1>32. ASSUME NEW w \in Workers, NEW e \in Executions, ClaimUnanswered(w, e) PROVE OneWorker'
  BY <1>32 DEF ClaimUnanswered, Started, IInv, TypeOK, RowTypes, WorkerTypes, Fresh, Employed, OneWorker, Has, rowVars, workerVars, streamVars
<1>33. ASSUME NEW w \in Workers, NEW e \in Executions, GraphEnds(w, e) PROVE OneWorker'
  BY <1>33 DEF GraphEnds, IInv, TypeOK, RowTypes, WorkerTypes, Fresh, Employed, OneWorker, Has, rowVars, workerVars, streamVars
<1>34. ASSUME NEW w \in Workers, NEW e \in Executions, NEW c \in Calls, StartStep(w, e, c) PROVE OneWorker'
  BY <1>34 DEF StartStep, Owns, Running, IInv, TypeOK, RowTypes, WorkerTypes, Fresh, Employed, OneWorker, Has, rowVars, workerVars, streamVars
<1>35. ASSUME NEW w \in Workers, NEW e \in Executions, NEW c \in Calls, EndStep(w, e, c) PROVE OneWorker'
  BY <1>35 DEF EndStep, Owns, Running, IInv, TypeOK, RowTypes, WorkerTypes, Fresh, Employed, OneWorker, Has, rowVars, workerVars, streamVars
<1> QED
  BY <1>0, <1>1, <1>2, <1>3, <1>4, <1>5, <1>6, <1>7, <1>8, <1>9, <1>10, <1>11, <1>12, <1>13, <1>14, <1>15, <1>16, <1>17, <1>18, <1>19, <1>20, <1>21, <1>22, <1>23, <1>24, <1>25, <1>26, <1>27, <1>28, <1>29, <1>30, <1>31, <1>32, <1>33, <1>34, <1>35
  DEF Next, User, Stream, Executor, Watcher, Graph

\* Who ends an execution ends its steps, or knows that they have ended.
LEMMA StepsBoundedNext == IInv /\ StepsBounded /\ [Next]_vars => StepsBounded'
<1> SUFFICES ASSUME IInv, StepsBounded, [Next]_vars PROVE StepsBounded'
  OBVIOUS
<1> USE WorkerAssumption
<1>0. CASE UNCHANGED vars
  BY <1>0 DEF IInv, TypeOK, RowTypes, StepTypes, WorkerTypes, Fresh, Employed, OneWorker, Has, StepsBounded, StepsRunning, Running, Ends, vars, rowVars, workerVars, streamVars
<1>1. ASSUME NEW e \in Executions, Create(e) PROVE StepsBounded'
  BY <1>1 DEF Create, Busy, IInv, TypeOK, RowTypes, StepTypes, WorkerTypes, Fresh, Employed, OneWorker, Has, StepsBounded, StepsRunning, Running, Ends, rowVars, workerVars, streamVars
<1>2. ASSUME NEW e \in Executions, CancelQueued(e) PROVE StepsBounded'
  BY <1>2 DEF CancelQueued, Notify, IInv, TypeOK, RowTypes, StepTypes, WorkerTypes, Fresh, Employed, OneWorker, Has, StepsBounded, StepsRunning, Running, Ends, rowVars, workerVars, streamVars
<1>3. ASSUME NEW e \in Executions, RequestCancellation(e) PROVE StepsBounded'
  BY <1>3 DEF RequestCancellation, IInv, TypeOK, RowTypes, StepTypes, WorkerTypes, Fresh, Employed, OneWorker, Has, StepsBounded, StepsRunning, Running, Ends, rowVars, workerVars, streamVars
<1>4. ASSUME NEW e \in Executions, Expire(e) PROVE StepsBounded'
  BY <1>4 DEF Expire, IInv, TypeOK, RowTypes, StepTypes, WorkerTypes, Fresh, Employed, OneWorker, Has, StepsBounded, StepsRunning, Running, Ends, rowVars, workerVars, streamVars
<1>5. ASSUME NEW e \in Executions, Connect(e) PROVE StepsBounded'
  BY <1>5 DEF Connect, IInv, TypeOK, RowTypes, StepTypes, WorkerTypes, Fresh, Employed, OneWorker, Has, StepsBounded, StepsRunning, Running, Ends, rowVars, workerVars, streamVars
<1>6. ASSUME NEW e \in Executions, ReadEvent(e) PROVE StepsBounded'
  BY <1>6 DEF ReadEvent, IInv, TypeOK, RowTypes, StepTypes, WorkerTypes, Fresh, Employed, OneWorker, Has, StepsBounded, StepsRunning, Running, Ends, rowVars, workerVars, streamVars
<1>7. ASSUME NEW e \in Executions, ReadNothing(e) PROVE StepsBounded'
  BY <1>7 DEF ReadNothing, IInv, TypeOK, RowTypes, StepTypes, WorkerTypes, Fresh, Employed, OneWorker, Has, StepsBounded, StepsRunning, Running, Ends, rowVars, workerVars, streamVars
<1>8. ASSUME NEW e \in Executions, Disconnect(e) PROVE StepsBounded'
  BY <1>8 DEF Disconnect, IInv, TypeOK, RowTypes, StepTypes, WorkerTypes, Fresh, Employed, OneWorker, Has, StepsBounded, StepsRunning, Running, Ends, rowVars, workerVars, streamVars
<1>9. ASSUME NEW e \in Executions, StreamExpires(e) PROVE StepsBounded'
  BY <1>9 DEF StreamExpires, IInv, TypeOK, RowTypes, StepTypes, WorkerTypes, Fresh, Employed, OneWorker, Has, StepsBounded, StepsRunning, Running, Ends, rowVars, workerVars, streamVars
<1>10. ASSUME NEW v \in Conversations, DeleteConversation(v) PROVE StepsBounded'
  <2> DEFINE gone == {e \in Executions : ConversationOf[e] = v /\ state[e] \in Ends}
  <2>1. /\ state' = [e \in Executions |-> IF e \in gone THEN "deleted" ELSE state[e]]
        /\ step' = [e \in Executions |-> IF e \in gone THEN [c \in Calls |-> "none"] ELSE step[e]]
        /\ UNCHANGED <<pc, job, graphs>>
    BY <1>10 DEF DeleteConversation, workerVars
  <2>2. \A x \in Executions, c \in Calls : step'[x][c] = "running" => x \notin gone /\ step[x][c] = "running"
    BY <2>1
  <2>3. \A x \in Executions, c \in Calls : step'[x][c] = "running" => Running(x)' \/ state'[x] = "failed"
    BY <2>1, <2>2 DEF StepsBounded, Running
  <2>4. \A u \in Workers : pc[u] = "complete" => job[u] \in Executions
    BY DEF IInv, TypeOK, WorkerTypes, Employed
  <2> QED BY <2>1, <2>2, <2>3, <2>4 DEF StepsBounded
<1>11. ASSUME FailExpiredExecutions PROVE StepsBounded'
  <2>1. PICK late \in SUBSET Due : step' = EndSteps(step, Due \ late, "failed")
    BY <1>11 DEF FailExpiredExecutions
  <2>2. /\ state' = [e \in Executions |-> IF e \in Due THEN "failed" ELSE state[e]]
        /\ UNCHANGED <<pc, job, graphs>>
    BY <1>11 DEF FailExpiredExecutions, workerVars
  <2>3. \A x \in Executions, c \in Calls : step'[x][c] = "running" => step[x][c] = "running"
    BY <2>1 DEF EndSteps
  <2>4. \A x \in Executions, c \in Calls :
            step'[x][c] = "running" => Running(x)' \/ state'[x] = "failed"
    BY <2>2, <2>3 DEF StepsBounded, Running
  <2>5. \A u \in Workers : pc[u] = "complete" => job[u] \in Executions
    BY DEF IInv, TypeOK, WorkerTypes, Employed
  <2> QED BY <2>2, <2>3, <2>4, <2>5 DEF StepsBounded
<1>12. ASSUME NEW w \in Workers, LoadFails(w) PROVE StepsBounded'
  BY <1>12 DEF LoadFails, IInv, TypeOK, RowTypes, StepTypes, WorkerTypes, Fresh, Employed, OneWorker, Has, StepsBounded, StepsRunning, Running, Ends, rowVars, workerVars, streamVars
<1>13. ASSUME NEW w \in Workers, SelectModel(w) PROVE StepsBounded'
  BY <1>13 DEF SelectModel, Owns, Renewed, Notify, IInv, TypeOK, RowTypes, StepTypes, WorkerTypes, Fresh, Employed, OneWorker, Has, StepsBounded, StepsRunning, Running, Ends, rowVars, workerVars, streamVars
<1>14. ASSUME NEW w \in Workers, AgentAnswers(w) PROVE StepsBounded'
  BY <1>14 DEF AgentAnswers, IInv, TypeOK, RowTypes, StepTypes, WorkerTypes, Fresh, Employed, OneWorker, Has, StepsBounded, StepsRunning, Running, Ends, rowVars, workerVars, streamVars
<1>15. ASSUME NEW w \in Workers, AgentFails(w) PROVE StepsBounded'
  BY <1>15 DEF AgentFails, Owns, IInv, TypeOK, RowTypes, StepTypes, WorkerTypes, Fresh, Employed, OneWorker, Has, StepsBounded, StepsRunning, Running, Ends, rowVars, workerVars, streamVars
<1>16. ASSUME NEW w \in Workers, CompleteExecution(w) PROVE StepsBounded'
  <2>1. /\ pc[w] = "complete" /\ job[w] \in Executions
        /\ state' = [state EXCEPT ![job[w]] = "succeeded"]
        /\ UNCHANGED <<step, graphs, job>>
    BY <1>16 DEF CompleteExecution, End, IInv, TypeOK, WorkerTypes, Employed
  <2>2. \A u \in Workers : pc'[u] = "complete" => pc[u] = "complete"
    BY <1>16 DEF CompleteExecution, IInv, TypeOK, WorkerTypes
  <2>3. \A c \in Calls : step[job[w]][c] # "running"
    BY <2>1 DEF StepsBounded
  <2>4. \A x \in Executions, c \in Calls : step'[x][c] = "running" => Running(x)' \/ state'[x] = "failed"
    BY <2>1, <2>3 DEF StepsBounded, Running, IInv, TypeOK, RowTypes
  <2> QED BY <2>1, <2>2, <2>4 DEF StepsBounded
<1>17. ASSUME NEW w \in Workers, CompleteFails(w) PROVE StepsBounded'
  BY <1>17 DEF CompleteFails, Owns, IInv, TypeOK, RowTypes, StepTypes, WorkerTypes, Fresh, Employed, OneWorker, Has, StepsBounded, StepsRunning, Running, Ends, rowVars, workerVars, streamVars
<1>18. ASSUME NEW w \in Workers, FailExecution(w) PROVE StepsBounded'
  <2>1. /\ state' = [state EXCEPT ![job[w]] = "failed"]
        /\ step' = EndSteps(step, {job[w]}, "failed")
        /\ UNCHANGED graphs
    BY <1>18 DEF FailExecution, End
  <2>2. \A u \in Workers : pc'[u] = "complete" => u # w /\ pc[u] = "complete" /\ job'[u] = job[u]
    BY <1>18 DEF FailExecution, Returns, Leaves, IInv, TypeOK, WorkerTypes
  <2>3. \A x \in Executions, c \in Calls : step'[x][c] = "running" => x # job[w] /\ step[x][c] = "running"
    BY <2>1 DEF EndSteps
  <2>4. \A x \in Executions, c \in Calls : step'[x][c] = "running" => Running(x)' \/ state'[x] = "failed"
    <3>1. \A x \in Executions : x # job[w] => state'[x] = state[x]
      BY <2>1 DEF IInv, TypeOK, RowTypes
    <3>2. \A x \in Executions, c \in Calls : step[x][c] = "running" => Running(x) \/ state[x] = "failed"
      BY DEF StepsBounded
    <3> QED BY <2>3, <3>1, <3>2 DEF Running
  <2>5. \A u \in Workers : pc[u] = "complete" => job[u] \in Executions
    BY DEF IInv, TypeOK, WorkerTypes, Employed
  <2>6. ASSUME NEW u \in Workers, pc'[u] = "complete"
        PROVE  /\ \A c \in Calls : step'[job'[u]][c] # "running"
               /\ <<u, job'[u]>> \notin graphs'
    <3>1. pc[u] = "complete" /\ job'[u] = job[u] /\ job[u] \in Executions
      BY <2>2, <2>5, <2>6
    <3>2. \A c \in Calls : step[job[u]][c] # "running"
      BY <3>1 DEF StepsBounded
    <3>3. <<u, job[u]>> \notin graphs
      BY <3>1 DEF StepsBounded
    <3> QED BY <2>1, <2>3, <3>1, <3>2, <3>3
  <2> QED BY <2>4, <2>6 DEF StepsBounded
<1>19. ASSUME NEW w \in Workers, FailFails(w) PROVE StepsBounded'
  BY <1>19 DEF FailFails, Owns, Returns, Leaves, IInv, TypeOK, RowTypes, StepTypes, WorkerTypes, Fresh, Employed, OneWorker, Has, StepsBounded, StepsRunning, Running, Ends, rowVars, workerVars, streamVars
<1>20. ASSUME NEW w \in Workers, FinishCancellation(w) PROVE StepsBounded'
  <2>1. /\ state' = [state EXCEPT ![job[w]] = "cancelled"]
        /\ step' = EndSteps(step, {job[w]}, "cancelled")
        /\ UNCHANGED graphs
    BY <1>20 DEF FinishCancellation, End
  <2>2. \A u \in Workers : pc'[u] = "complete" => u # w /\ pc[u] = "complete" /\ job'[u] = job[u]
    BY <1>20 DEF FinishCancellation, Returns, Leaves, IInv, TypeOK, WorkerTypes
  <2>3. \A x \in Executions, c \in Calls : step'[x][c] = "running" => x # job[w] /\ step[x][c] = "running"
    BY <2>1 DEF EndSteps
  <2>4. \A x \in Executions, c \in Calls : step'[x][c] = "running" => Running(x)' \/ state'[x] = "failed"
    <3>1. \A x \in Executions : x # job[w] => state'[x] = state[x]
      BY <2>1 DEF IInv, TypeOK, RowTypes
    <3>2. \A x \in Executions, c \in Calls : step[x][c] = "running" => Running(x) \/ state[x] = "failed"
      BY DEF StepsBounded
    <3> QED BY <2>3, <3>1, <3>2 DEF Running
  <2>5. \A u \in Workers : pc[u] = "complete" => job[u] \in Executions
    BY DEF IInv, TypeOK, WorkerTypes, Employed
  <2>6. ASSUME NEW u \in Workers, pc'[u] = "complete"
        PROVE  /\ \A c \in Calls : step'[job'[u]][c] # "running"
               /\ <<u, job'[u]>> \notin graphs'
    <3>1. pc[u] = "complete" /\ job'[u] = job[u] /\ job[u] \in Executions
      BY <2>2, <2>5, <2>6
    <3>2. \A c \in Calls : step[job[u]][c] # "running"
      BY <3>1 DEF StepsBounded
    <3>3. <<u, job[u]>> \notin graphs
      BY <3>1 DEF StepsBounded
    <3> QED BY <2>1, <2>3, <3>1, <3>2, <3>3
  <2> QED BY <2>4, <2>6 DEF StepsBounded
<1>21. ASSUME NEW w \in Workers, FinishCancellationFails(w) PROVE StepsBounded'
  BY <1>21 DEF FinishCancellationFails, Returns, Leaves, IInv, TypeOK, RowTypes, StepTypes, WorkerTypes, Fresh, Employed, OneWorker, Has, StepsBounded, StepsRunning, Running, Ends, rowVars, workerVars, streamVars
<1>22. ASSUME NEW w \in Workers, NotifyEnd(w) PROVE StepsBounded'
  BY <1>22 DEF NotifyEnd, Notify, Returns, Leaves, IInv, TypeOK, RowTypes, StepTypes, WorkerTypes, Fresh, Employed, OneWorker, Has, StepsBounded, StepsRunning, Running, Ends, rowVars, workerVars, streamVars
<1>23. ASSUME NEW w \in Workers, StopLease(w) PROVE StepsBounded'
  BY <1>23 DEF StopLease, CauseOr, IInv, TypeOK, RowTypes, StepTypes, WorkerTypes, Fresh, Employed, OneWorker, Has, StepsBounded, StepsRunning, Running, Ends, rowVars, workerVars, streamVars
<1>24. ASSUME NEW w \in Workers, Join(w) PROVE StepsBounded'
  BY <1>24 DEF Join, AfterJoin, Leaves, IInv, TypeOK, RowTypes, StepTypes, WorkerTypes, Fresh, Employed, OneWorker, Has, StepsBounded, StepsRunning, Running, Ends, rowVars, workerVars, streamVars
<1>25. ASSUME NEW w \in Workers, WatchTick(w) PROVE StepsBounded'
  BY <1>25 DEF WatchTick, IInv, TypeOK, RowTypes, StepTypes, WorkerTypes, Fresh, Employed, OneWorker, Has, StepsBounded, StepsRunning, Running, Ends, rowVars, workerVars, streamVars
<1>26. ASSUME NEW w \in Workers, WatchDone(w) PROVE StepsBounded'
  BY <1>26 DEF WatchDone, IInv, TypeOK, RowTypes, StepTypes, WorkerTypes, Fresh, Employed, OneWorker, Has, StepsBounded, StepsRunning, Running, Ends, rowVars, workerVars, streamVars
<1>27. ASSUME NEW w \in Workers, RenewOK(w) PROVE StepsBounded'
  BY <1>27 DEF RenewOK, Owns, Renewed, CauseOr, IInv, TypeOK, RowTypes, StepTypes, WorkerTypes, Fresh, Employed, OneWorker, Has, StepsBounded, StepsRunning, Running, Ends, rowVars, workerVars, streamVars
<1>28. ASSUME NEW w \in Workers, RenewFails(w) PROVE StepsBounded'
  BY <1>28 DEF RenewFails, Owns, CauseOr, IInv, TypeOK, RowTypes, StepTypes, WorkerTypes, Fresh, Employed, OneWorker, Has, StepsBounded, StepsRunning, Running, Ends, rowVars, workerVars, streamVars
<1>29. ASSUME NEW w \in Workers, StopWorker(w) PROVE StepsBounded'
  BY <1>29 DEF StopWorker, CauseOr, IInv, TypeOK, RowTypes, StepTypes, WorkerTypes, Fresh, Employed, OneWorker, Has, StepsBounded, StepsRunning, Running, Ends, rowVars, workerVars, streamVars
<1>30. ASSUME NEW w \in Workers, Gone(w) PROVE StepsBounded'
  BY <1>30 DEF Gone, IInv, TypeOK, RowTypes, StepTypes, WorkerTypes, Fresh, Employed, OneWorker, Has, StepsBounded, StepsRunning, Running, Ends, rowVars, workerVars, streamVars
<1>31. ASSUME NEW w \in Workers, NEW e \in Executions, Claim(w, e) PROVE StepsBounded'
  BY <1>31 DEF Claim, Started, IInv, TypeOK, RowTypes, StepTypes, WorkerTypes, Fresh, Employed, OneWorker, Has, StepsBounded, StepsRunning, Running, Ends, rowVars, workerVars, streamVars
<1>32. ASSUME NEW w \in Workers, NEW e \in Executions, ClaimUnanswered(w, e) PROVE StepsBounded'
  BY <1>32 DEF ClaimUnanswered, Started, IInv, TypeOK, RowTypes, StepTypes, WorkerTypes, Fresh, Employed, OneWorker, Has, StepsBounded, StepsRunning, Running, Ends, rowVars, workerVars, streamVars
<1>33. ASSUME NEW w \in Workers, NEW e \in Executions, GraphEnds(w, e) PROVE StepsBounded'
  BY <1>33 DEF GraphEnds, IInv, TypeOK, RowTypes, StepTypes, WorkerTypes, Fresh, Employed, OneWorker, Has, StepsBounded, StepsRunning, Running, Ends, rowVars, workerVars, streamVars
<1>34. ASSUME NEW w \in Workers, NEW e \in Executions, NEW c \in Calls, StartStep(w, e, c) PROVE StepsBounded'
  BY <1>34 DEF StartStep, Owns, IInv, TypeOK, RowTypes, StepTypes, WorkerTypes, Fresh, Employed, OneWorker, Has, StepsBounded, StepsRunning, Running, Ends, rowVars, workerVars, streamVars
<1>35. ASSUME NEW w \in Workers, NEW e \in Executions, NEW c \in Calls, EndStep(w, e, c) PROVE StepsBounded'
  BY <1>35 DEF EndStep, Owns, IInv, TypeOK, RowTypes, StepTypes, WorkerTypes, Fresh, Employed, OneWorker, Has, StepsBounded, StepsRunning, Running, Ends, rowVars, workerVars, streamVars
<1> QED
  BY <1>0, <1>1, <1>2, <1>3, <1>4, <1>5, <1>6, <1>7, <1>8, <1>9, <1>10, <1>11, <1>12, <1>13, <1>14, <1>15, <1>16, <1>17, <1>18, <1>19, <1>20, <1>21, <1>22, <1>23, <1>24, <1>25, <1>26, <1>27, <1>28, <1>29, <1>30, <1>31, <1>32, <1>33, <1>34, <1>35
  DEF Next, User, Stream, Executor, Watcher, Graph

-----------------------------------------------------------------------------
(* Theorems.                                                                *)

LEMMA InitInv == Init => IInv /\ StepsBounded
<1> USE WorkerAssumption
<1> SUFFICES ASSUME Init PROVE IInv /\ StepsBounded
  OBVIOUS
<1>1. TypeOK
  <2>1. RowTypes /\ StepTypes /\ WorkerTypes
    BY DEF Init, RowTypes, StepTypes, WorkerTypes, Active, Ends
  <2>2. <<>> \in Seq({"started"} \cup Ends)
    OBVIOUS
  <2>3. StreamTypes
    BY <2>2 DEF Init, StreamTypes
  <2> QED BY <2>1, <2>3 DEF TypeOK
<1>2. Fresh /\ Employed /\ Consistent /\ OneWorker /\ StepsBounded
  BY DEF Init, Fresh, Employed, Consistent, OneWorker, StepsBounded, Has, Running, Ends
<1> QED BY <1>1, <1>2 DEF IInv

LEMMA InvNext == IInv /\ [Next]_vars => IInv'
BY RowTypesNext, StepTypesNext, WorkerTypesNext, StreamTypesNext, FreshNext,
   EmployedNext, ConsistentNext, OneWorkerNext DEF IInv, TypeOK

LEMMA Invariant == Spec => []IInv
BY InitInv, InvNext, PTL DEF Spec

\* Every variable keeps its type (TypeOK).
THEOREM TypeCorrect == Spec => []TypeOK
<1>1. IInv => TypeOK
  BY DEF IInv
<1> QED BY Invariant, <1>1, PTL

\* Every row can be restored, whoever wrote it last (RowsConsistent).
THEOREM RowsAreConsistent == Spec => []RowsConsistent
<1>1. IInv => RowsConsistent
  BY DEF IInv, Fresh, Consistent, RowsConsistent
<1> QED BY Invariant, <1>1, PTL

\* No two workers ever run one execution, even when a lease expires under a
\* worker that is still busy with it (OneWorkerEver).
THEOREM OneWorkerRunsIt == Spec => []OneWorkerEver
<1>1. IInv => OneWorkerEver
  BY DEF IInv, OneWorker, OneWorkerEver, Has
<1> QED BY Invariant, <1>1, PTL

\* What a step may do to an execution that has ended and still has running steps.
LeftAlone(e) ==
    state'[e] \in Ends /\ (\E c \in Calls : step'[e][c] = "running") =>
        \/ state'[e] = state[e] /\ step'[e] = step[e]
        \/ e \in Due /\ state'[e] = "failed" /\ UNCHANGED workerVars

LEMMA StepsLeftAlone ==
    ASSUME IInv, StepsBounded, [Next]_vars
    PROVE  \A e \in Executions : LeftAlone(e)
<1> USE DEF LeftAlone
<1>0. /\ state \in [Executions -> {"none", "deleted"} \cup Active \cup Ends]
      /\ step \in [Executions -> [Calls -> {"none", "running", "completed", "failed", "cancelled"}]]
  BY DEF IInv, TypeOK, RowTypes, StepTypes
<1>j. \A w \in Workers : pc[w] \notin {"idle", "gone"} => job[w] \in Executions
  BY DEF IInv, TypeOK, WorkerTypes, Employed
<1>1. CASE UNCHANGED <<state, step>>
  BY <1>1
<1>2. ASSUME NEW e \in Executions, Create(e) PROVE \A f \in Executions : LeftAlone(f)
  BY <1>0, <1>2 DEF Create, Ends
<1>3. ASSUME NEW e \in Executions, CancelQueued(e) PROVE \A f \in Executions : LeftAlone(f)
  BY <1>0, <1>3 DEF CancelQueued, StepsBounded, Running
<1>4. ASSUME NEW v \in Conversations, DeleteConversation(v) PROVE \A f \in Executions : LeftAlone(f)
  BY <1>0, <1>4 DEF DeleteConversation, Ends
<1>5. ASSUME NEW e \in Executions, NEW w \in Workers, Started(e, w)
      PROVE  \A f \in Executions : LeftAlone(f)
  BY <1>0, <1>5 DEF Started, Ends
<1>6. ASSUME FailExpiredExecutions PROVE \A f \in Executions : LeftAlone(f)
  <2>1. PICK late \in SUBSET Due : step' = EndSteps(step, Due \ late, "failed")
    BY <1>6 DEF FailExpiredExecutions
  <2>2. \A f \in Executions : f \notin Due => state'[f] = state[f] /\ step'[f] = step[f]
    BY <1>0, <1>6, <2>1 DEF FailExpiredExecutions, EndSteps
  <2>3. \A f \in Due : state'[f] = "failed" /\ UNCHANGED workerVars
    BY <1>0, <1>6 DEF FailExpiredExecutions, Due
  <2> QED BY <2>2, <2>3
<1>7. ASSUME NEW w \in Workers, CompleteExecution(w) PROVE \A f \in Executions : LeftAlone(f)
  <2>1. job[w] \in Executions /\ pc[w] = "complete"
    BY <1>7, <1>j DEF CompleteExecution
  <2>2. \A c \in Calls : step[job[w]][c] # "running"
    BY <2>1 DEF StepsBounded
  <2> QED BY <1>0, <1>7, <2>1, <2>2 DEF CompleteExecution, End
<1>8. ASSUME NEW w \in Workers, FailExecution(w) \/ FinishCancellation(w)
      PROVE  \A f \in Executions : LeftAlone(f)
  <2>1. PICK how \in {"failed", "cancelled"} :
            /\ step' = EndSteps(step, {job[w]}, how)
            /\ state' = [state EXCEPT ![job[w]] = how]
    BY <1>8 DEF FailExecution, FinishCancellation, End
  <2>2. \A c \in Calls : job[w] \in Executions => step'[job[w]][c] # "running"
    BY <2>1 DEF EndSteps
  <2>3. \A f \in Executions : f # job[w] => state'[f] = state[f] /\ step'[f] = step[f]
    BY <1>0, <2>1 DEF EndSteps
  <2> QED BY <2>2, <2>3
<1>9. ASSUME NEW w \in Workers, NEW e \in Executions, NEW c \in Calls,
             StartStep(w, e, c) \/ EndStep(w, e, c)
      PROVE  \A f \in Executions : LeftAlone(f)
  <2>1. state' = state /\ state[e] = "running"
    BY <1>9 DEF StartStep, EndStep, Owns, Running, rowVars
  <2>2. \A f \in Executions : f # e => step'[f] = step[f]
    BY <1>0, <1>9 DEF StartStep, EndStep
  <2> QED BY <2>1, <2>2 DEF Ends
<1> QED
  <2>1. ASSUME NEW e \in Executions, User(e) \/ Expire(e) \/ Stream(e)
        PROVE  UNCHANGED <<state, step>> \/ Create(e) \/ CancelQueued(e)
    BY <2>1 DEF User, RequestCancellation, Expire, Stream, Connect, ReadEvent, ReadNothing,
       Disconnect, StreamExpires, rowVars
  <2>2. ASSUME NEW w \in Workers, Executor(w)
        PROVE  \/ UNCHANGED <<state, step>>
               \/ CompleteExecution(w) \/ FailExecution(w) \/ FinishCancellation(w)
    BY <2>2 DEF Executor, LoadFails, SelectModel, AgentAnswers, AgentFails, CompleteFails,
       FailFails, FinishCancellationFails, NotifyEnd, StopLease, Join, rowVars
  <2>3. ASSUME NEW w \in Workers, Watcher(w) \/ StopWorker(w) \/ Gone(w)
        PROVE  UNCHANGED <<state, step>>
    BY <2>3 DEF Watcher, WatchTick, WatchDone, RenewOK, RenewFails, StopWorker, Gone, rowVars
  <2>4. ASSUME NEW w \in Workers, NEW e \in Executions, Claim(w, e) \/ ClaimUnanswered(w, e)
        PROVE  Started(e, w)
    BY <2>4 DEF Claim, ClaimUnanswered
  <2>5. ASSUME NEW w \in Workers, NEW e \in Executions, Graph(w, e)
        PROVE  \/ UNCHANGED <<state, step>>
               \/ \E c \in Calls : StartStep(w, e, c) \/ EndStep(w, e, c)
    BY <2>5 DEF Graph, GraphEnds, rowVars
  <2>6. UNCHANGED vars => UNCHANGED <<state, step>>
    BY DEF vars, rowVars
  <2> HIDE DEF LeftAlone
  <2> QED
    BY <1>1, <1>2, <1>3, <1>4, <1>5, <1>6, <1>7, <1>8, <1>9,
       <2>1, <2>2, <2>3, <2>4, <2>5, <2>6 DEF Next

\* Whoever ends an execution but the expiry scan leaves none of its steps running,
\* and what has ended is recorded in by nobody (OnlyScanLeavesSteps).
THEOREM ScanAloneLeavesSteps == Spec => OnlyScanLeavesSteps
<1>1. IInv /\ StepsBounded /\ [Next]_vars => StepsBounded'
  BY StepsBoundedNext
<1>2. Spec => [](IInv /\ StepsBounded)
  BY <1>1, InitInv, Invariant, PTL DEF Spec
<1>3. IInv /\ StepsBounded /\ [Next]_vars =>
        [\A e \in Executions : state'[e] \in Ends /\ StepsRunning(e)' # {} =>
           \/ state'[e] = state[e] /\ step'[e] = step[e]
           \/ e \in Due /\ state'[e] = "failed" /\ UNCHANGED workerVars]_vars
  BY StepsLeftAlone DEF LeftAlone, StepsRunning
<1> QED BY <1>2, <1>3, PTL DEF Spec, OnlyScanLeavesSteps

\* Every step is one of OneShotJob, or leaves what it is about alone.
LEMMA JobStep == IInv /\ [Next]_vars => [Job!Next]_(Job!vars)
<1> SUFFICES ASSUME IInv, [Next]_vars PROVE [Job!Next]_(Job!vars)
  OBVIOUS
<1>0. CASE UNCHANGED vars
  BY <1>0 DEF Job!vars, vars, rowVars, workerVars, streamVars
<1>1. ASSUME NEW e \in Executions, Create(e) PROVE [Job!Next]_(Job!vars)
  <2>1. Job!Submit(e)
    BY <1>1 DEF Create, Job!Submit, Job!Become
  <2> QED BY <2>1 DEF Job!Next
<1>2. ASSUME NEW e \in Executions, CancelQueued(e) PROVE [Job!Next]_(Job!vars)
  <2>1. Job!Withdraw(e)
    BY <1>2 DEF CancelQueued, Job!Withdraw, Job!Become
  <2> QED BY <2>1 DEF Job!Next
<1>3. ASSUME NEW e \in Executions, RequestCancellation(e) PROVE [Job!Next]_(Job!vars)
  <2>1. Job!RequestCancel(e)
    BY <1>3 DEF RequestCancellation, Running, Job!RequestCancel
  <2> QED BY <2>1 DEF Job!Next
<1>4. ASSUME NEW e \in Executions, Expire(e) PROVE [Job!Next]_(Job!vars)
  BY <1>4 DEF Expire, Job!vars, rowVars, workerVars, streamVars
<1>5. ASSUME NEW e \in Executions, Connect(e) PROVE [Job!Next]_(Job!vars)
  BY <1>5 DEF Connect, Job!vars, rowVars, workerVars, streamVars
<1>6. ASSUME NEW e \in Executions, ReadEvent(e) PROVE [Job!Next]_(Job!vars)
  BY <1>6 DEF ReadEvent, Job!vars, rowVars, workerVars, streamVars
<1>7. ASSUME NEW e \in Executions, ReadNothing(e) PROVE [Job!Next]_(Job!vars)
  BY <1>7 DEF ReadNothing, Job!vars, rowVars, workerVars, streamVars
<1>8. ASSUME NEW e \in Executions, Disconnect(e) PROVE [Job!Next]_(Job!vars)
  BY <1>8 DEF Disconnect, Job!vars, rowVars, workerVars, streamVars
<1>9. ASSUME NEW e \in Executions, StreamExpires(e) PROVE [Job!Next]_(Job!vars)
  BY <1>9 DEF StreamExpires, Job!vars, rowVars, workerVars, streamVars
<1>10. ASSUME NEW v \in Conversations, DeleteConversation(v) PROVE [Job!Next]_(Job!vars)
  <2> DEFINE gone == {e \in Executions : ConversationOf[e] = v /\ state[e] \in Ends}
  <2>1. Job!Delete(gone) /\ gone \in SUBSET Executions
    BY <1>10 DEF DeleteConversation, Job!Delete, Ends, Job!Ends
  <2> QED BY <2>1 DEF Job!Next
<1>11. ASSUME FailExpiredExecutions PROVE [Job!Next]_(Job!vars)
  <2>1. Job!Fail(Due) /\ Due \in SUBSET Executions
    BY <1>11 DEF FailExpiredExecutions, Due, Running, Job!Fail
  <2> QED BY <2>1 DEF Job!Next
<1>12. ASSUME NEW w \in Workers, LoadFails(w) PROVE [Job!Next]_(Job!vars)
  BY <1>12 DEF LoadFails, Job!vars, rowVars, workerVars, streamVars
<1>13. ASSUME NEW w \in Workers, SelectModel(w) PROVE [Job!Next]_(Job!vars)
  BY <1>13 DEF SelectModel, Renewed, Job!vars, rowVars, workerVars, streamVars
<1>14. ASSUME NEW w \in Workers, AgentAnswers(w) PROVE [Job!Next]_(Job!vars)
  BY <1>14 DEF AgentAnswers, Job!vars, rowVars, workerVars, streamVars
<1>15. ASSUME NEW w \in Workers, AgentFails(w) PROVE [Job!Next]_(Job!vars)
  BY <1>15 DEF AgentFails, Job!vars, rowVars, workerVars, streamVars
<1>16. ASSUME NEW w \in Workers, CompleteExecution(w) PROVE [Job!Next]_(Job!vars)
  <2>1. job[w] \in Executions
    BY <1>16 DEF CompleteExecution, IInv, TypeOK, WorkerTypes, Employed
  <2>2. Job!Succeed(job[w])
    BY <1>16, <2>1 DEF CompleteExecution, Owns, Running, End, Job!Succeed, Job!Become
  <2> QED BY <2>1, <2>2 DEF Job!Next
<1>17. ASSUME NEW w \in Workers, CompleteFails(w) PROVE [Job!Next]_(Job!vars)
  BY <1>17 DEF CompleteFails, Job!vars, rowVars, workerVars, streamVars
<1>18. ASSUME NEW w \in Workers, FailExecution(w) PROVE [Job!Next]_(Job!vars)
  <2>1. job[w] \in Executions
    BY <1>18 DEF FailExecution, IInv, TypeOK, WorkerTypes, Employed
  <2>2. state' = [e \in Executions |-> IF e \in {job[w]} THEN "failed" ELSE state[e]]
    BY <1>18, <2>1 DEF FailExecution, End, IInv, TypeOK, RowTypes
  <2>3. Job!Fail({job[w]})
    BY <1>18, <2>2 DEF FailExecution, Owns, Running, End, Job!Fail
  <2>4. {job[w]} \in SUBSET Executions
    BY <2>1
  <2> QED BY <2>3, <2>4 DEF Job!Next
<1>19. ASSUME NEW w \in Workers, FailFails(w) PROVE [Job!Next]_(Job!vars)
  BY <1>19 DEF FailFails, Job!vars, rowVars, workerVars, streamVars
<1>20. ASSUME NEW w \in Workers, FinishCancellation(w) PROVE [Job!Next]_(Job!vars)
  <2>1. job[w] \in Executions
    BY <1>20 DEF FinishCancellation, IInv, TypeOK, WorkerTypes, Employed
  <2>2. Job!Cancel(job[w])
    BY <1>20, <2>1 DEF FinishCancellation, Owns, Running, End, Job!Cancel, Job!Become
  <2> QED BY <2>1, <2>2 DEF Job!Next
<1>21. ASSUME NEW w \in Workers, FinishCancellationFails(w) PROVE [Job!Next]_(Job!vars)
  BY <1>21 DEF FinishCancellationFails, Job!vars, rowVars, workerVars, streamVars
<1>22. ASSUME NEW w \in Workers, NotifyEnd(w) PROVE [Job!Next]_(Job!vars)
  BY <1>22 DEF NotifyEnd, Job!vars, rowVars, workerVars, streamVars
<1>23. ASSUME NEW w \in Workers, StopLease(w) PROVE [Job!Next]_(Job!vars)
  BY <1>23 DEF StopLease, Job!vars, rowVars, workerVars, streamVars
<1>24. ASSUME NEW w \in Workers, Join(w) PROVE [Job!Next]_(Job!vars)
  BY <1>24 DEF Join, Job!vars, rowVars, workerVars, streamVars
<1>25. ASSUME NEW w \in Workers, WatchTick(w) PROVE [Job!Next]_(Job!vars)
  BY <1>25 DEF WatchTick, Job!vars, rowVars, workerVars, streamVars
<1>26. ASSUME NEW w \in Workers, WatchDone(w) PROVE [Job!Next]_(Job!vars)
  BY <1>26 DEF WatchDone, Job!vars, rowVars, workerVars, streamVars
<1>27. ASSUME NEW w \in Workers, RenewOK(w) PROVE [Job!Next]_(Job!vars)
  BY <1>27 DEF RenewOK, Renewed, Job!vars, rowVars, workerVars, streamVars
<1>28. ASSUME NEW w \in Workers, RenewFails(w) PROVE [Job!Next]_(Job!vars)
  BY <1>28 DEF RenewFails, Job!vars, rowVars, workerVars, streamVars
<1>29. ASSUME NEW w \in Workers, StopWorker(w) PROVE [Job!Next]_(Job!vars)
  BY <1>29 DEF StopWorker, Job!vars, rowVars, workerVars, streamVars
<1>30. ASSUME NEW w \in Workers, Gone(w) PROVE [Job!Next]_(Job!vars)
  BY <1>30 DEF Gone, Job!vars, rowVars, workerVars, streamVars
<1>31. ASSUME NEW w \in Workers, NEW e \in Executions, Claim(w, e) PROVE [Job!Next]_(Job!vars)
  <2>1. Job!Start(e)
    BY <1>31 DEF Claim, Started, Job!Start, Job!Become
  <2> QED BY <2>1 DEF Job!Next
<1>32. ASSUME NEW w \in Workers, NEW e \in Executions, ClaimUnanswered(w, e) PROVE [Job!Next]_(Job!vars)
  <2>1. Job!Start(e)
    BY <1>32 DEF ClaimUnanswered, Started, Job!Start, Job!Become
  <2> QED BY <2>1 DEF Job!Next
<1>33. ASSUME NEW w \in Workers, NEW e \in Executions, GraphEnds(w, e) PROVE [Job!Next]_(Job!vars)
  BY <1>33 DEF GraphEnds, Job!vars, rowVars, workerVars, streamVars
<1>34. ASSUME NEW w \in Workers, NEW e \in Executions, NEW c \in Calls, StartStep(w, e, c) PROVE [Job!Next]_(Job!vars)
  BY <1>34 DEF StartStep, Job!vars, rowVars, workerVars, streamVars
<1>35. ASSUME NEW w \in Workers, NEW e \in Executions, NEW c \in Calls, EndStep(w, e, c) PROVE [Job!Next]_(Job!vars)
  BY <1>35 DEF EndStep, Job!vars, rowVars, workerVars, streamVars
<1> QED
  BY <1>0, <1>1, <1>2, <1>3, <1>4, <1>5, <1>6, <1>7, <1>8, <1>9, <1>10, <1>11, <1>12, <1>13, <1>14, <1>15, <1>16, <1>17, <1>18, <1>19, <1>20, <1>21, <1>22, <1>23, <1>24, <1>25, <1>26, <1>27, <1>28, <1>29, <1>30, <1>31, <1>32, <1>33, <1>34, <1>35
  DEF Next, User, Stream, Executor, Watcher, Graph

\* Executions implement OneShotJob: worked on once, ended once, answered exactly
\* when they succeed and never after a cancellation was accepted (ImplementsJob).
THEOREM ExecutionsAreOneShot == Spec => ImplementsJob
<1>1. Init => Job!Init
  BY DEF Init, Job!Init
<1> QED BY <1>1, JobStep, Invariant, PTL DEF Spec, ImplementsJob, Job!Spec

-----------------------------------------------------------------------------
(* What the browser is told.                                                *)

\* An end is final: only a deletion follows it.
EndsFinal ==
    \A e \in Executions :
        /\ state[e] \in Ends => state'[e] \in {state[e], "deleted"}
        /\ state[e] = "deleted" => state'[e] = "deleted"

\* The end a v in the stream names is the stored one, or was there before.
Sourced(e, v) ==
    v \in Ends => v = state'[e] \/ \E j \in 1 .. Len(unread[e]) : unread[e][j] = v

\* What a step tells about e.
UnreadSourced(e) == \A i \in 1 .. Len(unread'[e]) : Sourced(e, unread'[e][i])
SubSourced(e) == sub'[e] = sub[e] \/ Sourced(e, sub'[e])

LEMMA EndsAreFinal == IInv /\ [Next]_vars => EndsFinal
<1> SUFFICES ASSUME IInv, [Next]_vars PROVE EndsFinal
  OBVIOUS
<1> USE DEF EndsFinal, Ends, Job!Become
<1>0. state \in [Executions -> {"none", "deleted"} \cup Active \cup Ends]
  BY DEF IInv, TypeOK, RowTypes
<1>1. CASE UNCHANGED Job!vars
  BY <1>0, <1>1 DEF Job!vars
<1>2. ASSUME NEW e \in Executions, Job!Submit(e) PROVE EndsFinal
  BY <1>0, <1>2 DEF Job!Submit
<1>3. ASSUME NEW e \in Executions, Job!Start(e) PROVE EndsFinal
  BY <1>0, <1>3 DEF Job!Start
<1>4. ASSUME NEW e \in Executions, Job!Withdraw(e) PROVE EndsFinal
  BY <1>0, <1>4 DEF Job!Withdraw
<1>5. ASSUME NEW e \in Executions, Job!RequestCancel(e) PROVE EndsFinal
  BY <1>0, <1>5 DEF Job!RequestCancel
<1>6. ASSUME NEW e \in Executions, Job!Succeed(e) PROVE EndsFinal
  BY <1>0, <1>6 DEF Job!Succeed
<1>7. ASSUME NEW e \in Executions, Job!Cancel(e) PROVE EndsFinal
  BY <1>0, <1>7 DEF Job!Cancel
<1>8. ASSUME NEW some \in SUBSET Executions, Job!Fail(some) PROVE EndsFinal
  BY <1>0, <1>8 DEF Job!Fail
<1>9. ASSUME NEW some \in SUBSET Executions, Job!Delete(some) PROVE EndsFinal
  BY <1>0, <1>9 DEF Job!Delete
<1> QED
  BY JobStep, <1>1, <1>2, <1>3, <1>4, <1>5, <1>6, <1>7, <1>8, <1>9 DEF Job!Next

LEMMA NotifySourced ==
    ASSUME StreamTypes, NEW e \in Executions, NEW event \in {"started"} \cup Ends,
           Notify(e, event), event \in Ends => event = state'[e]
    PROVE  \A f \in Executions : UnreadSourced(f)
<1> DEFINE Events == {"started"} \cup Ends
<1>1. unread \in [Executions -> Seq(Events)]
  BY DEF StreamTypes
<1>2. CASE UNCHANGED unread
  BY <1>2 DEF UnreadSourced, Sourced
<1>3. CASE unread' = [unread EXCEPT ![e] = Append(@, event)]
  <2> SUFFICES ASSUME NEW f \in Executions, NEW i \in 1 .. Len(unread'[f])
               PROVE  Sourced(f, unread'[f][i])
    BY DEF UnreadSourced
  <2>1. CASE f # e
    BY <1>1, <1>3, <2>1 DEF Sourced
  <2>2. CASE f = e
    <3>1. unread[e] \in Seq(Events) /\ unread'[e] = Append(unread[e], event) /\ event \in Events
      BY <1>1, <1>3
    <3> HIDE DEF Events
    <3>2. i \in 1 .. Len(unread[e]) + 1 /\ Len(unread[e]) \in Nat
      BY <2>2, <3>1
    <3>3. CASE i \in 1 .. Len(unread[e])
      BY <2>2, <3>1, <3>3 DEF Sourced
    <3>4. CASE i = Len(unread[e]) + 1
      BY <2>2, <3>1, <3>4 DEF Sourced
    <3> QED BY <3>2, <3>3, <3>4
  <2> QED BY <2>1, <2>2
<1> QED BY <1>2, <1>3 DEF Notify

\* Every event of an end comes after its commit, and a subscriber hears of an
\* end from an event or from the row.
LEMMA StreamStep ==
    ASSUME IInv, [Next]_vars
    PROVE  \A f \in Executions : UnreadSourced(f) /\ SubSourced(f)
<1> DEFINE Events == {"started"} \cup Ends
<1>0. /\ StreamTypes /\ unread \in [Executions -> Seq(Events)]
      /\ sub \in [Executions -> {"off", "open"} \cup Ends]
      /\ state \in [Executions -> {"none", "deleted"} \cup Active \cup Ends]
  BY DEF IInv, TypeOK, StreamTypes, RowTypes
<1>1. UNCHANGED unread => \A f \in Executions : UnreadSourced(f)
  BY DEF UnreadSourced, Sourced
<1>2. UNCHANGED sub => \A f \in Executions : SubSourced(f)
  BY DEF SubSourced
<1>3. ASSUME NEW e \in Executions, CancelQueued(e)
      PROVE  \A f \in Executions : UnreadSourced(f) /\ SubSourced(f)
  <2>1. "cancelled" \in Events /\ state'[e] = "cancelled" /\ Notify(e, "cancelled") /\ sub' = sub
    BY <1>0, <1>3 DEF CancelQueued, Ends
  <2> QED BY <1>0, <1>2, <2>1, NotifySourced
<1>4. ASSUME NEW w \in Workers, SelectModel(w)
      PROVE  \A f \in Executions : UnreadSourced(f) /\ SubSourced(f)
  <2>1. sub' = sub /\ job[w] \in Executions
    BY <1>4 DEF SelectModel, IInv, TypeOK, WorkerTypes, Employed
  <2>2. CASE UNCHANGED unread
    BY <1>1, <1>2, <2>1, <2>2
  <2>3. CASE Notify(job[w], "started")
    <3>1. "started" \in Events /\ "started" \notin Ends
      BY DEF Ends
    <3> QED BY <1>0, <1>2, <2>1, <2>3, <3>1, NotifySourced
  <2> QED BY <1>4, <2>2, <2>3 DEF SelectModel
<1>5. ASSUME NEW w \in Workers, NotifyEnd(w)
      PROVE  \A f \in Executions : UnreadSourced(f) /\ SubSourced(f)
  <2>1. sub' = sub /\ state' = state /\ job[w] \in Executions
    BY <1>5 DEF NotifyEnd, rowVars, IInv, TypeOK, WorkerTypes, Employed
  <2>2. CASE UNCHANGED unread
    BY <1>1, <1>2, <2>1, <2>2
  <2>3. CASE state[job[w]] \in Ends /\ Notify(job[w], state[job[w]])
    BY <1>0, <1>2, <2>1, <2>3, NotifySourced
  <2> QED BY <1>5, <2>2, <2>3 DEF NotifyEnd
<1>6. ASSUME NEW e \in Executions, ReadEvent(e)
      PROVE  \A f \in Executions : UnreadSourced(f) /\ SubSourced(f)
  <2>1. /\ unread[e] \in Seq(Events) /\ unread[e] # <<>>
        /\ unread' = [unread EXCEPT ![e] = Tail(unread[e])]
        /\ sub' = [sub EXCEPT ![e] = IF Head(unread[e]) \in Ends THEN Head(unread[e]) ELSE sub[e]]
    BY <1>0, <1>6 DEF ReadEvent
  <2> HIDE DEF Events
  <2>2. Len(unread[e]) \in Nat /\ 1 \in 1 .. Len(unread[e]) /\ Head(unread[e]) = unread[e][1]
    BY <2>1
  <2>3. \A i \in 1 .. Len(Tail(unread[e])) :
            Tail(unread[e])[i] = unread[e][i + 1] /\ i + 1 \in 1 .. Len(unread[e])
    BY <2>1
  <2>4. ASSUME NEW f \in Executions PROVE UnreadSourced(f)
    <3>1. CASE f = e
      <4>1. unread'[f] = Tail(unread[e])
        BY <1>0, <2>1, <3>1
      <4> QED BY <2>3, <3>1, <4>1 DEF UnreadSourced, Sourced
    <3>2. CASE f # e
      BY <1>0, <2>1, <3>2 DEF UnreadSourced, Sourced
    <3> QED BY <3>1, <3>2
  <2>5. ASSUME NEW f \in Executions PROVE SubSourced(f)
    BY <1>0, <2>1, <2>2 DEF SubSourced, Sourced
  <2> QED BY <2>4, <2>5
<1>7. ASSUME NEW e \in Executions, StreamExpires(e)
      PROVE  \A f \in Executions : UnreadSourced(f) /\ SubSourced(f)
  <2>1. unread' = [unread EXCEPT ![e] = <<>>] /\ sub' = sub
    BY <1>7 DEF StreamExpires
  <2>2. ASSUME NEW f \in Executions PROVE UnreadSourced(f)
    <3>1. CASE f = e
      <4>1. unread'[f] = <<>>
        BY <1>0, <2>1, <3>1
      <4> QED BY <4>1 DEF UnreadSourced
    <3>2. CASE f # e
      BY <1>0, <2>1, <3>2 DEF UnreadSourced, Sourced
    <3> QED BY <3>1, <3>2
  <2> QED BY <1>2, <2>1, <2>2
<1>8. ASSUME NEW e \in Executions, Connect(e) \/ Disconnect(e) \/ ReadNothing(e)
      PROVE  \A f \in Executions : UnreadSourced(f) /\ SubSourced(f)
  <2>1. unread' = unread /\ state' = state
    BY <1>8 DEF Connect, Disconnect, ReadNothing, rowVars
  <2>2. \A f \in Executions : sub'[f] = sub[f] \/ sub'[f] \notin Ends \/ sub'[f] = state[f]
    BY <1>0, <1>8 DEF Connect, Disconnect, ReadNothing, Ends
  <2> QED BY <1>1, <2>1, <2>2 DEF SubSourced, Sourced
<1>9. CASE UNCHANGED streamVars
  BY <1>1, <1>2, <1>9 DEF streamVars
<1> QED
  <2>1. ASSUME NEW w \in Workers, Executor(w) PROVE UNCHANGED streamVars \/ SelectModel(w) \/ NotifyEnd(w)
    BY <2>1 DEF Executor, LoadFails, AgentAnswers, AgentFails, CompleteExecution, CompleteFails,
       FailExecution, FailFails, FinishCancellation, FinishCancellationFails, StopLease, Join
  <2>2. ASSUME NEW w \in Workers, Watcher(w) \/ StopWorker(w) \/ Gone(w) PROVE UNCHANGED streamVars
    BY <2>2 DEF Watcher, WatchTick, WatchDone, RenewOK, RenewFails, StopWorker, Gone, streamVars
  <2>3. ASSUME NEW w \in Workers, NEW e \in Executions, Claim(w, e) \/ ClaimUnanswered(w, e) \/ Graph(w, e)
        PROVE  UNCHANGED streamVars
    BY <2>3 DEF Claim, ClaimUnanswered, Started, Graph, StartStep, EndStep, GraphEnds
  <2>4. ASSUME NEW e \in Executions, User(e) \/ Expire(e) PROVE UNCHANGED streamVars \/ CancelQueued(e)
    BY <2>4 DEF User, Create, RequestCancellation, Expire
  <2>5. ASSUME (\E v \in Conversations : DeleteConversation(v)) \/ FailExpiredExecutions \/ UNCHANGED vars
        PROVE  UNCHANGED streamVars
    BY <2>5 DEF DeleteConversation, FailExpiredExecutions, vars
  <2> HIDE DEF Events
  <2> QED
    BY <1>3, <1>4, <1>5, <1>6, <1>7, <1>8, <1>9, <2>1, <2>2, <2>3, <2>4, <2>5 DEF Next, Stream

\* A subscriber is told the end that is stored, whether it hears of it from an
\* event or from the row, and whichever events were lost (StreamHandler.events).
THEOREM TellsTheTruth == Spec => []ToldTheTruth
<1>1. Init => ToldTheTruth
  BY DEF Init, ToldTheTruth, Ends
<1>2. IInv /\ ToldTheTruth /\ [Next]_vars => ToldTheTruth'
  <2> SUFFICES ASSUME IInv, ToldTheTruth, [Next]_vars, NEW e \in Executions, state'[e] # "deleted"
               PROVE  /\ sub'[e] \in Ends => sub'[e] = state'[e]
                      /\ \A i \in 1 .. Len(unread'[e]) :
                             unread'[e][i] \in Ends => unread'[e][i] = state'[e]
    BY DEF ToldTheTruth
  <2>1. state[e] # "deleted" /\ (state[e] \in Ends => state'[e] = state[e])
    BY EndsAreFinal DEF EndsFinal
  <2>2. \A v : Sourced(e, v) /\ v \in Ends => v = state'[e]
    BY <2>1 DEF Sourced, ToldTheTruth
  <2>3. UnreadSourced(e) /\ SubSourced(e)
    BY StreamStep
  <2>4. sub[e] \in Ends => sub[e] = state'[e]
    BY <2>1 DEF ToldTheTruth
  <2> QED BY <2>2, <2>3, <2>4 DEF UnreadSourced, SubSourced
<1> QED BY Invariant, <1>1, <1>2, PTL DEF Spec

=============================================================================
