-------------------------- MODULE RequestConsumer --------------------------
(***************************************************************************)
(* ingate-analytics between Kafka and ClickHouse: the members of one         *)
(* consumer group poll request records, store every record of the poll and   *)
(* only then commit its offsets.                                            *)
(*                                                                         *)
(* Kafka hands a partition to one member at a time and refuses the commit    *)
(* of a member it has put out of the group.  ClickHouse drops an insert      *)
(* whose token is among the last Window tokens of the table, and an insert   *)
(* whose client gave up may still land.  A record is an id: ALS may publish  *)
(* it more than once, always with the same content.                         *)
(***************************************************************************)
EXTENDS Naturals, Sequences, SequencesExt, FiniteSets, FiniteSetsExt

CONSTANTS
    Records,      \* ids of the published messages
    Invalid,      \* those decodeRequestRecord refuses
    ModelCalls,   \* those that reached a model service
    Partitions,
    PartitionOf,  \* the partition of a record's key
    Consumers,    \* replicas of ingate-analytics
    BatchMax,     \* batch_max_records
    Concurrency,  \* write_concurrency
    Window,       \* non_replicated_deduplication_window
    LateInserts,  \* may an abandoned insert still land?
    MaxCopies,    \* bound: times ALS publishes one record
    MaxMessages,  \* bound: messages in a partition
    MaxFaults,    \* bound: kicks, rebalances, failures and crashes
    None          \* not a consumer

ASSUME RecordAssumption ==
    /\ Invalid \subseteq Records
    /\ ModelCalls \subseteq Records
    /\ PartitionOf \in [Records -> Partitions]
    /\ IsFiniteSet(Partitions)
ASSUME ConsumerAssumption == None \notin Consumers
ASSUME SizeAssumption ==
    /\ {BatchMax, Concurrency, Window} \subseteq Nat \ {0}
    /\ LateInserts \in BOOLEAN
    /\ {MaxCopies, MaxMessages, MaxFaults} \subseteq Nat

VARIABLES
    (* Kafka *)
    topic,      \* the messages of a partition
    committed,  \* the group's offset in a partition
    owner,      \* the member a partition is assigned to
    (* a RequestConsumer *)
    pc,         \* down, poll, save or commit
    pos,        \* where its client reads on in a partition
    insert,     \* how far the write of a record of the batch is
    (* ClickHouse *)
    tokens,     \* a table's deduplication log, oldest token first
    counted,    \* how often a record entered a table, 2 for more than once
    late,       \* abandoned inserts that may still land
    faults

kafkaVars == <<topic, committed, owner>>
memberVars == <<pc, pos, insert>>
storeVars == <<tokens, counted, late>>
vars == <<kafkaVars, memberVars, storeVars, faults>>

Tables == {"model_calls", "request_records"}

Owned(c) == {p \in Partitions : owner[p] = c}

\* The records of c's batch whose insert is on its way to ClickHouse.
Sent(c) == {r \in Records : insert[c][r] \in Tables}

Stored(t, r) == counted[t][r] > 0

Init ==
    /\ topic = [p \in Partitions |-> <<>>]
    /\ committed = [p \in Partitions |-> 0]
    /\ owner = [p \in Partitions |-> None]
    /\ pc = [c \in Consumers |-> "poll"]
    /\ pos = [c \in Consumers |-> [p \in Partitions |-> 0]]
    /\ insert = [c \in Consumers |-> [r \in Records |-> "none"]]
    /\ tokens = [t \in Tables |-> <<>>]
    /\ counted = [t \in Tables |-> [r \in Records |-> 0]]
    /\ late = {}
    /\ faults = 0

(***************************************************************************)
(* Kafka and the group coordinator.                                        *)
(***************************************************************************)
Copies(r) == Cardinality({i \in DOMAIN topic[PartitionOf[r]] :
                              topic[PartitionOf[r]][i] = r})

Publish(r) ==
    LET p == PartitionOf[r] IN
    /\ Copies(r) < MaxCopies
    /\ Len(topic[p]) < MaxMessages
    /\ topic' = [topic EXCEPT ![p] = Append(@, r)]
    /\ UNCHANGED <<committed, owner, memberVars, storeVars, faults>>

\* Mutant: a replica reads on where it was when it last had the partition.
AssignStale(c, p) ==
    /\ pc[c] = "poll"
    /\ owner[p] = None
    /\ owner' = [owner EXCEPT ![p] = c]
    /\ UNCHANGED <<topic, committed, pc, pos, insert, storeVars, faults>>

\* A free partition goes to a member that allows rebalances.  The member
\* reads on from the committed offset, or from the start without one.
Assign(c, p) ==
    /\ pc[c] = "poll"
    /\ owner[p] = None
    /\ owner' = [owner EXCEPT ![p] = c]
    /\ pos' = [pos EXCEPT ![c][p] = committed[p]]
    /\ UNCHANGED <<topic, committed, pc, insert, storeVars, faults>>

Fault ==
    /\ faults < MaxFaults
    /\ faults' = faults + 1

\* A rebalance takes a partition only from a member that allows it.
Revoke(c, p) ==
    /\ Fault
    /\ pc[c] = "poll"
    /\ owner[p] = c
    /\ owner' = [owner EXCEPT ![p] = None]
    /\ UNCHANGED <<topic, committed, memberVars, storeVars>>

Disowned(c) == [p \in Partitions |-> IF owner[p] = c THEN None ELSE owner[p]]

\* A member that misses its session or rebalance timeout is put out of the
\* group whatever it is doing.  While it polls it simply joins again.
PutOut(c) ==
    /\ Fault
    /\ pc[c] /= "down"
    /\ Owned(c) /= {}
    /\ owner' = Disowned(c)
    /\ UNCHANGED <<topic, committed, memberVars, storeVars>>

(***************************************************************************)
(* ClickHouse.                                                             *)
(***************************************************************************)
Logged(t, r) ==
    LET log == Append(tokens[t], r) IN
    IF Len(log) > Window THEN Tail(log) ELSE log

\* The insert of r into t, dropped when its token is still in the log.
Inserted(t, r) ==
    IF Contains(tokens[t], r)
    THEN UNCHANGED <<tokens, counted>>
    ELSE /\ tokens' = [tokens EXCEPT ![t] = Logged(t, r)]
         /\ counted' = [counted EXCEPT ![t][r] = IF @ = 0 THEN 1 ELSE 2]

Land(t, r) ==
    /\ <<t, r>> \in late
    /\ late' = late \ {<<t, r>>}
    /\ Inserted(t, r)
    /\ UNCHANGED <<kafkaVars, memberVars, faults>>

(***************************************************************************)
(* One round of RequestConsumer.Start.                                     *)
(***************************************************************************)
\* The messages a poll returns from p when it reads up to offset upto[p].
Polled(c, p, upto) == Range(SubSeq(topic[p], pos[c][p] + 1, upto[p]))

Batch(c, upto) == UNION {Polled(c, p, upto) : p \in Owned(c)}

\* decodeRequestRecords: invalid messages are dropped, copies are merged.
Decoded(messages) == messages \ Invalid

Reads(c) ==
    [Owned(c) -> 0 .. MaxMessages]

\* The number of messages such a poll returns.
Taken(c, upto) ==
    LET gain == [p \in Owned(c) |-> upto[p] - pos[c][p]] IN
    MapThenSumSet(LAMBDA p : gain[p], Owned(c))

\* Mutant: a poll of invalid messages only is not committed.
PollSkipping(c) ==
    /\ pc[c] = "poll"
    /\ \E upto \in Reads(c) :
           /\ \A p \in Owned(c) : upto[p] \in pos[c][p] .. Len(topic[p])
           /\ Taken(c, upto) \in 1 .. BatchMax
           /\ pos' = [pos EXCEPT ![c] =
                          [p \in Partitions |-> IF p \in Owned(c) THEN upto[p] ELSE @[p]]]
           /\ insert' = [insert EXCEPT ![c] =
                             [r \in Records |-> IF r \in Decoded(Batch(c, upto))
                                                THEN "waiting" ELSE "none"]]
    /\ pc' = [pc EXCEPT ![c] = IF \A r \in Records : insert'[c][r] = "none" THEN "poll" ELSE "save"]
    /\ UNCHANGED <<kafkaVars, storeVars, faults>>

\* Up to BatchMax messages of the assigned partitions; a poll without
\* messages only lets rebalances through.
PollRecords(c) ==
    /\ pc[c] = "poll"
    /\ \E upto \in Reads(c) :
           /\ \A p \in Owned(c) : upto[p] \in pos[c][p] .. Len(topic[p])
           /\ Taken(c, upto) \in 1 .. BatchMax
           /\ pos' = [pos EXCEPT ![c] =
                          [p \in Partitions |-> IF p \in Owned(c) THEN upto[p] ELSE @[p]]]
           /\ insert' = [insert EXCEPT ![c] =
                             [r \in Records |-> IF r \in Decoded(Batch(c, upto))
                                                THEN "waiting" ELSE "none"]]
    /\ pc' = [pc EXCEPT ![c] = "save"]
    /\ UNCHANGED <<kafkaVars, storeVars, faults>>

\* Where the write of r starts: the model call goes before the request.
FirstTable(r) == IF r \in ModelCalls THEN "model_calls" ELSE "request_records"

NextStage(t) == IF t = "model_calls" THEN "request_records" ELSE "done"

StartInsert(c, r) ==
    /\ pc[c] = "save"
    /\ insert[c][r] = "waiting"
    /\ Cardinality(Sent(c)) < Concurrency
    /\ insert' = [insert EXCEPT ![c][r] = FirstTable(r)]
    /\ UNCHANGED <<kafkaVars, pc, pos, storeVars, faults>>

\* ClickHouse stored the row and the writer goes on.
InsertOK(c, r) ==
    /\ pc[c] = "save"
    /\ r \in Sent(c)
    /\ Inserted(insert[c][r], r)
    /\ insert' = [insert EXCEPT ![c][r] = NextStage(@)]
    /\ UNCHANGED <<kafkaVars, pc, pos, late, faults>>

\* The inserts c leaves behind: any of them may be lost.
Abandon(c) ==
    \E lost \in SUBSET Sent(c) :
        /\ LateInserts \/ lost = Sent(c)
        /\ late' = late \cup {<<insert[c][r], r>> : r \in Sent(c) \ lost}

\* Start returned: the process ends, leaves the group and is started again.
Ends(c) ==
    /\ pc' = [pc EXCEPT ![c] = "down"]
    /\ insert' = [insert EXCEPT ![c] = [r \in Records |-> "none"]]
    /\ owner' = Disowned(c)
    /\ Abandon(c)
    /\ UNCHANGED <<topic, pos, tokens, counted>>

\* Mutant: the error of a write is logged and the poll committed.
SaveErrorIgnored(c) ==
    /\ Fault
    /\ pc[c] = "save"
    /\ Sent(c) /= {}
    /\ pc' = [pc EXCEPT ![c] = "commit"]
    /\ insert' = [insert EXCEPT ![c] = [r \in Records |-> "none"]]
    /\ Abandon(c)
    /\ UNCHANGED <<kafkaVars, pos, tokens, counted>>

\* Mutant: a model call that cannot be written does not stop its request.
CallErrorIgnored(c) ==
    /\ Fault
    /\ pc[c] = "save"
    /\ \E r \in Sent(c) :
           /\ insert[c][r] = "model_calls"
           /\ insert' = [insert EXCEPT ![c][r] = NextStage(@)]
    /\ UNCHANGED <<kafkaVars, pc, pos, storeVars>>

\* An insert fails or the write timeout passes; the other writers are
\* cancelled and the whole poll stays uncommitted.
SaveFails(c) ==
    /\ Fault
    /\ pc[c] = "save"
    /\ Sent(c) /= {}
    /\ Ends(c)
    /\ UNCHANGED committed

SaveOK(c) ==
    /\ pc[c] = "save"
    /\ \A r \in Records : insert[c][r] \in {"none", "done"}
    /\ pc' = [pc EXCEPT ![c] = "commit"]
    /\ insert' = [insert EXCEPT ![c] = [r \in Records |-> "none"]]
    /\ UNCHANGED <<kafkaVars, pos, storeVars, faults>>

\* CommitUncommittedOffsets: everything the polls returned so far.
Uncommitted(c) ==
    [p \in Partitions |-> IF p \in Owned(c) THEN pos[c][p] ELSE committed[p]]

CommitOK(c) ==
    /\ pc[c] = "commit"
    /\ Owned(c) /= {}
    /\ committed' = Uncommitted(c)
    /\ pc' = [pc EXCEPT ![c] = "poll"]
    /\ UNCHANGED <<topic, owner, pos, insert, storeVars, faults>>

\* The commit's reply is lost.
CommitUnanswered(c) ==
    /\ Fault
    /\ pc[c] = "commit"
    /\ Owned(c) /= {}
    /\ committed' = Uncommitted(c)
    /\ Ends(c)

\* Mutant: a failed commit is logged and the replica polls on.
CommitErrorIgnored(c) ==
    /\ pc[c] = "commit"
    /\ IF Owned(c) = {} THEN UNCHANGED faults ELSE Fault
    /\ pc' = [pc EXCEPT ![c] = "poll"]
    /\ UNCHANGED <<kafkaVars, pos, insert, storeVars>>

\* The commit fails, always so for a member put out of its group.
CommitFails(c) ==
    /\ pc[c] = "commit"
    /\ IF Owned(c) = {} THEN UNCHANGED faults ELSE Fault
    /\ Ends(c)
    /\ UNCHANGED committed

\* A fetch error, Stop, or a crash.
Crash(c) ==
    /\ Fault
    /\ pc[c] /= "down"
    /\ Ends(c)
    /\ UNCHANGED committed

Restart(c) ==
    /\ pc[c] = "down"
    /\ pc' = [pc EXCEPT ![c] = "poll"]
    /\ UNCHANGED <<kafkaVars, pos, insert, storeVars, faults>>

Next ==
    \/ \E r \in Records : Publish(r)
    \/ \E t \in Tables, r \in Records : Land(t, r)
    \/ \E c \in Consumers :
           \/ \E p \in Partitions : Assign(c, p) \/ Revoke(c, p)
           \/ PutOut(c) \/ PollRecords(c)
           \/ \E r \in Records : StartInsert(c, r) \/ InsertOK(c, r)
           \/ SaveFails(c) \/ SaveOK(c)
           \/ CommitOK(c) \/ CommitUnanswered(c) \/ CommitFails(c)
           \/ Crash(c) \/ Restart(c)

Spec == Init /\ [][Next]_vars

\* The coordinator assigns what is free, a replica is restarted, and what a
\* running replica can do next it does: poll, write, commit or end.
Fairness ==
    /\ \A p \in Partitions : WF_vars(\E c \in Consumers : Assign(c, p))
    /\ \A c \in Consumers :
           /\ WF_vars(PollRecords(c))
           /\ WF_vars(\E r \in Records : StartInsert(c, r) \/ InsertOK(c, r))
           /\ WF_vars(SaveOK(c))
           /\ WF_vars(CommitOK(c) \/ (Owned(c) = {} /\ CommitFails(c)))
           /\ WF_vars(Restart(c))

LiveSpec == Spec /\ Fairness

(***************************************************************************)
(* Properties.                                                             *)
(***************************************************************************)
TypeOK ==
    /\ topic \in [Partitions -> Seq(Records)]
    /\ committed \in [Partitions -> Nat]
    /\ owner \in [Partitions -> Consumers \cup {None}]
    /\ pc \in [Consumers -> {"down", "poll", "save", "commit"}]
    /\ pos \in [Consumers -> [Partitions -> Nat]]
    /\ insert \in [Consumers -> [Records -> Tables \cup {"none", "waiting", "done"}]]
    /\ tokens \in [Tables -> Seq(Records)]
    /\ counted \in [Tables -> [Records -> 0 .. 2]]
    /\ late \subseteq Tables \X Records
    /\ faults \in 0 .. MaxFaults

\* An offset is committed only over records that are in ClickHouse, model
\* call included, whichever member of the group committed it and whatever
\* the members before it left behind.
CommittedIsStored ==
    \A p \in Partitions : \A i \in 1 .. committed[p] :
        LET r == topic[p][i] IN
        r \notin Invalid =>
            /\ Stored("request_records", r)
            /\ r \in ModelCalls => Stored("model_calls", r)

\* The request list never shows a model request without its model call.
NoBareRequest ==
    \A r \in ModelCalls :
        Stored("request_records", r) => Stored("model_calls", r)

\* ClickHouse, with the inserts on their way to it from whichever replica and
\* those that may still land, is never more than one poll ahead of the committed
\* offset, so a rebalance, a crash or a lost reply repeats one poll of a partition
\* at most: the recent redelivery the deduplication window is meant for
\* (RequestConsumer.Start polls again only after a commit; migration 00001).
OnePollAhead ==
    \A p \in Partitions : \A t \in Tables, r \in Records :
        /\ PartitionOf[r] = p
        /\ Stored(t, r) \/ <<t, r>> \in late \/ \E c \in Consumers : r \in Sent(c)
        => \E i \in 1 .. Len(topic[p]) : topic[p][i] = r /\ i <= committed[p] + BatchMax

\* The materialised views count a record once.  It does NOT hold for every window:
\* a token may have left the log when its record is delivered again.
CountedOnce ==
    \A t \in Tables, r \in Records : counted[t][r] <= 1

\* The group's offset never moves back, although a member that was put out
\* of the group still commits its poll.
OffsetsOnlyGrow ==
    [][\A p \in Partitions : committed'[p] >= committed[p]]_vars

\* Every message is passed in the end: a message nobody can decode, a failed
\* write or a lost member does not block its partition, so its backlog is worked
\* off again and again (publishing pauses at MaxMessages).
EveryMessagePassed ==
    \A p \in Partitions : []<>(committed[p] = Len(topic[p]))

=============================================================================
