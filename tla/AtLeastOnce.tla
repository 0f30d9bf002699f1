---------------------------- MODULE AtLeastOnce ----------------------------
(***************************************************************************)
(* What the request-record pipeline of ingate-als promises its callers,     *)
(* whatever fails inside: a batch is accepted only once it is delivered or  *)
(* stored, what is stored is given up only once delivered, and while        *)
(* anything is stored nothing new is accepted around the store.             *)
(***************************************************************************)
EXTENDS Naturals

CONSTANTS Batches, RecordsPerBatch

VARIABLES
    accepted,   \* batches whose Write returned nil
    stored,     \* batches kept for later delivery
    delivered,  \* records the consumer side can read
    buffering   \* are new batches stored first?

vars == <<accepted, stored, delivered, buffering>>

RecordsOf(b) == {b} \X (1 .. RecordsPerBatch)
Delivered(b) == RecordsOf(b) \subseteq delivered

Init ==
    /\ accepted = {}
    /\ stored = {}
    /\ delivered = {}
    /\ buffering = FALSE

\* Any part of a batch may be delivered at any time, again and again.
Deliver(b) ==
    /\ \E part \in SUBSET RecordsOf(b) : delivered' = delivered \cup part
    /\ UNCHANGED <<accepted, stored, buffering>>

\* A replay delivers parts of what is stored.
Replay ==
    /\ buffering
    /\ \E part \in SUBSET UNION {RecordsOf(b) : b \in stored} :
           delivered' = delivered \cup part
    /\ UNCHANGED <<accepted, stored, buffering>>

Store(b) ==
    /\ buffering
    /\ stored' = stored \cup {b}
    /\ UNCHANGED <<accepted, delivered, buffering>>

Accept(b) ==
    /\ b \in stored \/ Delivered(b)
    /\ accepted' = accepted \cup {b}
    /\ UNCHANGED <<stored, delivered, buffering>>

Release ==
    /\ \E done \in SUBSET stored :
           /\ \A b \in done : Delivered(b)
           /\ stored' = stored \ done
    /\ UNCHANGED <<accepted, delivered, buffering>>

StartBuffering ==
    /\ buffering' = TRUE
    /\ UNCHANGED <<accepted, stored, delivered>>

StopBuffering ==
    /\ stored = {}
    /\ buffering' = FALSE
    /\ UNCHANGED <<accepted, stored, delivered>>

Next ==
    \/ \E b \in Batches : Deliver(b) \/ Store(b) \/ Accept(b)
    \/ Replay \/ Release
    \/ StartBuffering \/ StopBuffering

Spec == Init /\ [][Next]_vars

=============================================================================
