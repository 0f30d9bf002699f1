---------------------------- MODULE OneShotJob ----------------------------
(***************************************************************************)
(* What an assistant execution is to its user, whatever workers do inside:  *)
(* it is worked on at most once, ends once, leaves an answer exactly when   *)
(* it succeeds, and does not succeed after its cancellation was accepted.   *)
(***************************************************************************)
CONSTANT Executions

VARIABLES
    state,       \* none, queued, running, an end, or deleted
    cancelling,  \* was the cancellation of a running execution accepted?
    answered     \* is there an answer in the conversation?

vars == <<state, cancelling, answered>>

Ends == {"succeeded", "failed", "cancelled"}

Init ==
    /\ state = [e \in Executions |-> "none"]
    /\ cancelling = [e \in Executions |-> FALSE]
    /\ answered = [e \in Executions |-> FALSE]

Become(e, from, to) ==
    /\ state[e] = from
    /\ state' = [state EXCEPT ![e] = to]

Submit(e) == Become(e, "none", "queued") /\ UNCHANGED <<cancelling, answered>>
Start(e) == Become(e, "queued", "running") /\ UNCHANGED <<cancelling, answered>>
Withdraw(e) == Become(e, "queued", "cancelled") /\ UNCHANGED <<cancelling, answered>>

RequestCancel(e) ==
    /\ state[e] = "running"
    /\ cancelling' = [cancelling EXCEPT ![e] = TRUE]
    /\ UNCHANGED <<state, answered>>

Succeed(e) ==
    /\ ~cancelling[e]
    /\ Become(e, "running", "succeeded")
    /\ answered' = [answered EXCEPT ![e] = TRUE]
    /\ UNCHANGED cancelling

Cancel(e) ==
    /\ cancelling[e]
    /\ Become(e, "running", "cancelled")
    /\ UNCHANGED <<cancelling, answered>>

\* Several executions may be found without a worker at once.
Fail(lost) ==
    /\ \A e \in lost : state[e] = "running"
    /\ state' = [e \in Executions |-> IF e \in lost THEN "failed" ELSE state[e]]
    /\ UNCHANGED <<cancelling, answered>>

\* A conversation goes with all its executions, and with their answers.
Delete(gone) ==
    /\ \A e \in gone : state[e] \in Ends
    /\ state' = [e \in Executions |-> IF e \in gone THEN "deleted" ELSE state[e]]
    /\ answered' = [e \in Executions |-> e \notin gone /\ answered[e]]
    /\ UNCHANGED cancelling

Next ==
    \/ \E e \in Executions :
        \/ Submit(e) \/ Start(e) \/ Withdraw(e)
        \/ RequestCancel(e) \/ Succeed(e) \/ Cancel(e)
    \/ \E some \in SUBSET Executions : Fail(some) \/ Delete(some)

Spec == Init /\ [][Next]_vars

=============================================================================
