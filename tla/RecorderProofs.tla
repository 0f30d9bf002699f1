--------------------------- MODULE RecorderProofs ---------------------------
(***************************************************************************)
(* Proofs about Recorder, for any finite set of batches, any batch size and *)
(* any number of crashes.  The types and the in-flight counters come first, *)
(* because the counters are what recovery decides by; then the durability   *)
(* of accepted batches, which holds even when a failed sync leaves its      *)
(* entry behind; then the barrier, which needs that it does not, and on top  *)
(* of it the pause after a permanent error and the refinement of AtLeastOnce.*)
(***************************************************************************)
EXTENDS Recorder, FiniteSetTheorems, TLAPS

(* The inductive invariants, as conjunctions of named parts.               *)

\* What the replayer holds is at the head of the log.
HeldIsHead == rpc \in {"publish", "commit"} => 1 <= rcount /\ rcount <= Len(log)

CountersInv == TypeOK /\ HeldIsHead /\ CountersMatchCalls

Kept(b) == InKafka(b) \/ \E i \in 1 .. Len(log) : log[i] = b

\* A finished publish has the batch in Kafka.
CompleteInKafka == \A b \in Batches : pc[b] = "complete" => InKafka(b)

\* An appended batch stays in the log until it is in Kafka.
AppendedKept == \A b \in Batches : pc[b] \in {"finishOK", "accepted"} => Kept(b)

\* What the replayer commits is in Kafka.
CommitDelivered ==
    rpc = "commit" => \A i \in 1 .. Len(log) : i <= rcount => InKafka(log[i])

DurableInv == CompleteInKafka /\ AppendedKept /\ CommitDelivered

\* The published count is the length of the log.
LogCounted == pending = Len(log)

BarrierInv == LogCounted /\ DirectOnlyWhenDrained

-----------------------------------------------------------------------------
(* Moving one call between phases changes the counts by at most one.        *)

LEMMA PhaseFinite ==
    ASSUME NEW f, NEW P
    PROVE  IsFiniteSet(InPhase(f, P)) /\ Cardinality(InPhase(f, P)) \in Nat
<1>1. InPhase(f, P) \in SUBSET Batches
    BY DEF InPhase
<1>2. IsFiniteSet(InPhase(f, P))
    BY <1>1, BatchesAssumption, FS_Subset
<1>. QED
    BY <1>2, FS_CardinalityType

\* Only the call of b may move.
OnlyMoves(b) == \A c \in Batches : c # b => pc'[c] = pc[c]

LEMMA PhaseEnter ==
    ASSUME NEW b \in Batches, NEW P, OnlyMoves(b), pc[b] \notin P, pc'[b] \in P
    PROVE  Cardinality(InPhase(pc', P)) = Cardinality(InPhase(pc, P)) + 1
<1>1. InPhase(pc', P) = InPhase(pc, P) \cup {b} /\ b \notin InPhase(pc, P)
    BY DEF InPhase, OnlyMoves
<1>. QED
    BY <1>1, PhaseFinite, FS_AddElement

LEMMA PhaseLeave ==
    ASSUME NEW b \in Batches, NEW P, OnlyMoves(b), pc[b] \in P, pc'[b] \notin P
    PROVE  Cardinality(InPhase(pc', P)) = Cardinality(InPhase(pc, P)) - 1
<1>1. InPhase(pc', P) = InPhase(pc, P) \ {b} /\ b \in InPhase(pc, P)
    BY DEF InPhase, OnlyMoves
<1>. QED
    BY <1>1, PhaseFinite, FS_RemoveElement

LEMMA PhaseStay ==
    ASSUME NEW b \in Batches, NEW P, OnlyMoves(b), pc[b] \in P <=> pc'[b] \in P
    PROVE  Cardinality(InPhase(pc', P)) = Cardinality(InPhase(pc, P))
<1>1. InPhase(pc', P) = InPhase(pc, P)
    BY DEF InPhase, OnlyMoves
<1>. QED
    BY <1>1

LEMMA PhaseNone ==
    ASSUME NEW f, NEW P, \A b \in Batches : f[b] \notin P
    PROVE  Cardinality(InPhase(f, P)) = 0
<1>1. InPhase(f, P) = {}
    BY DEF InPhase
<1>. QED
    BY <1>1, FS_EmptySet

-----------------------------------------------------------------------------
(* Types and counters.                                                      *)

LEMMA CountersInit == Init => CountersInv
<1>. SUFFICES ASSUME Init PROVE CountersInv
    OBVIOUS
<1>1. /\ log \in Seq(Batches) /\ rpc \in ReplayPhase /\ kafka \in SUBSET Records
      /\ pc \in [Batches -> WriterPhase] /\ seen \in [Batches -> BOOLEAN]
    BY DEF Init, WriterPhase, ReplayPhase
<1>4. crashes \in 0 .. MaxCrashes
    BY NumbersAssumption DEF Init
<1>2. \A b \in Batches : pc[b] \notin KafkaPhase /\ pc[b] \notin QueuePhase
    BY DEF Init, KafkaPhase, QueuePhase
<1>3. Cardinality(InPhase(pc, KafkaPhase)) = 0 /\ Cardinality(InPhase(pc, QueuePhase)) = 0
    BY <1>2, PhaseNone
<1>5. TypeOK
    BY <1>1, <1>4 DEF Init, TypeOK
<1>. QED
    BY <1>3, <1>5 DEF CountersInv, HeldIsHead, CountersMatchCalls, Init

\* The phases a call can be in, expanded once for the steps below.
LEMMA PhaseFacts ==
    /\ KafkaPhase \subseteq WriterPhase /\ QueuePhase \subseteq WriterPhase
    /\ {"idle", "reserve", "accepted", "rejected", "lost"} \subseteq WriterPhase
    /\ \A p \in {"idle", "reserve", "accepted", "rejected", "lost"} :
           p \notin KafkaPhase /\ p \notin QueuePhase
    /\ \A p \in {"publish", "complete", "fail"} : p \in KafkaPhase /\ p \notin QueuePhase
    /\ \A p \in {"append", "finishOK", "finishRefused", "finishError"} :
           p \in QueuePhase /\ p \notin KafkaPhase
BY DEF KafkaPhase, QueuePhase, WriterPhase, Ended

\* Each step of a call of Write.
LEMMA CountersWriter ==
    ASSUME CountersInv, NEW b \in Batches, Begin(b) \/ WriterStep(b)
    PROVE  CountersInv'
<1>. USE PhaseFacts DEF CountersInv, TypeOK, HeldIsHead, CountersMatchCalls, queueVars, replayVars
<1>1. CASE Begin(b)
    <2>1. pc' \in [Batches -> WriterPhase] /\ OnlyMoves(b)
        BY <1>1 DEF Begin, OnlyMoves
    <2>2. /\ pc[b] \notin KafkaPhase /\ pc'[b] \notin KafkaPhase
          /\ pc[b] \notin QueuePhase /\ pc'[b] \notin QueuePhase
        BY <1>1 DEF Begin
    <2>3. kafkaWrites' = Cardinality(InPhase(pc', KafkaPhase))
        BY <1>1, <2>1, <2>2, PhaseStay DEF Begin, stateVars
    <2>4. queueWrites' = Cardinality(InPhase(pc', QueuePhase))
        BY <1>1, <2>1, <2>2, PhaseStay DEF Begin, stateVars
    <2>5. kafkaWrites' \in Nat /\ queueWrites' \in Nat
        BY <2>3, <2>4, PhaseFinite
    <2>6. seen' \in [Batches -> BOOLEAN]
        BY <1>1 DEF Begin
    <2>. QED
        BY <1>1, <2>1, <2>3, <2>4, <2>5, <2>6 DEF Begin, stateVars
<1>2. CASE ReserveQueue(b)
    <2>1. pc' \in [Batches -> WriterPhase] /\ OnlyMoves(b)
        BY <1>2 DEF ReserveQueue, OnlyMoves
    <2>2. /\ pc[b] \notin KafkaPhase /\ pc'[b] \notin KafkaPhase
          /\ pc[b] \notin QueuePhase /\ pc'[b] \in QueuePhase
        BY <1>2 DEF ReserveQueue
    <2>3. kafkaWrites' = Cardinality(InPhase(pc', KafkaPhase))
        BY <1>2, <2>1, <2>2, PhaseStay DEF ReserveQueue, stateVars
    <2>4. queueWrites' = Cardinality(InPhase(pc', QueuePhase))
        BY <1>2, <2>1, <2>2, PhaseEnter DEF ReserveQueue, stateVars
    <2>5. kafkaWrites' \in Nat /\ queueWrites' \in Nat
        BY <2>3, <2>4, PhaseFinite
    <2>6. seen' \in [Batches -> BOOLEAN]
        BY <1>2 DEF ReserveQueue
    <2>. QED
        BY <1>2, <2>1, <2>3, <2>4, <2>5, <2>6 DEF ReserveQueue, stateVars
<1>3. CASE ReserveKafka(b)
    <2>1. pc' \in [Batches -> WriterPhase] /\ OnlyMoves(b)
        BY <1>3 DEF ReserveKafka, OnlyMoves
    <2>2. /\ pc[b] \notin KafkaPhase /\ pc'[b] \in KafkaPhase
          /\ pc[b] \notin QueuePhase /\ pc'[b] \notin QueuePhase
        BY <1>3 DEF ReserveKafka
    <2>3. kafkaWrites' = Cardinality(InPhase(pc', KafkaPhase))
        BY <1>3, <2>1, <2>2, PhaseEnter DEF ReserveKafka, stateVars
    <2>4. queueWrites' = Cardinality(InPhase(pc', QueuePhase))
        BY <1>3, <2>1, <2>2, PhaseStay DEF ReserveKafka, stateVars
    <2>5. kafkaWrites' \in Nat /\ queueWrites' \in Nat
        BY <2>3, <2>4, PhaseFinite
    <2>6. seen' \in [Batches -> BOOLEAN]
        BY <1>3 DEF ReserveKafka
    <2>. QED
        BY <1>3, <2>1, <2>3, <2>4, <2>5, <2>6 DEF ReserveKafka, stateVars
<1>4. CASE PublishOK(b)
    <2>1. pc' \in [Batches -> WriterPhase] /\ OnlyMoves(b)
        BY <1>4 DEF PublishOK, OnlyMoves
    <2>2. /\ pc[b] \in KafkaPhase /\ pc'[b] \in KafkaPhase
          /\ pc[b] \notin QueuePhase /\ pc'[b] \notin QueuePhase
        BY <1>4 DEF PublishOK
    <2>3. kafkaWrites' = Cardinality(InPhase(pc', KafkaPhase))
        BY <1>4, <2>1, <2>2, PhaseStay DEF PublishOK, stateVars
    <2>4. queueWrites' = Cardinality(InPhase(pc', QueuePhase))
        BY <1>4, <2>1, <2>2, PhaseStay DEF PublishOK, stateVars
    <2>5. kafkaWrites' \in Nat /\ queueWrites' \in Nat
        BY <2>3, <2>4, PhaseFinite
    <2>6. seen' \in [Batches -> BOOLEAN]
        BY <1>4 DEF PublishOK
    <2>7. kafka' \in SUBSET Records
        BY <1>4 DEF PublishOK, Records, RecordsOf
    <2>. QED
        BY <1>4, <2>1, <2>3, <2>4, <2>5, <2>6, <2>7 DEF PublishOK, stateVars
<1>5. CASE PublishError(b)
    <2>1. pc' \in [Batches -> WriterPhase] /\ OnlyMoves(b)
        BY <1>5 DEF PublishError, OnlyMoves
    <2>2. /\ pc[b] \in KafkaPhase /\ pc'[b] \in KafkaPhase
          /\ pc[b] \notin QueuePhase /\ pc'[b] \notin QueuePhase
        BY <1>5 DEF PublishError
    <2>3. kafkaWrites' = Cardinality(InPhase(pc', KafkaPhase))
        BY <1>5, <2>1, <2>2, PhaseStay DEF PublishError, stateVars
    <2>4. queueWrites' = Cardinality(InPhase(pc', QueuePhase))
        BY <1>5, <2>1, <2>2, PhaseStay DEF PublishError, stateVars
    <2>5. kafkaWrites' \in Nat /\ queueWrites' \in Nat
        BY <2>3, <2>4, PhaseFinite
    <2>6. seen' \in [Batches -> BOOLEAN]
        BY <1>5 DEF PublishError
    <2>7. kafka' \in SUBSET Records
        BY <1>5 DEF PublishError, Records, RecordsOf
    <2>. QED
        BY <1>5, <2>1, <2>3, <2>4, <2>5, <2>6, <2>7 DEF PublishError, stateVars
<1>6. CASE CompleteKafkaWrite(b)
    <2>1. pc' \in [Batches -> WriterPhase] /\ OnlyMoves(b)
        BY <1>6 DEF CompleteKafkaWrite, OnlyMoves
    <2>2. /\ pc[b] \in KafkaPhase /\ pc'[b] \notin KafkaPhase
          /\ pc[b] \notin QueuePhase /\ pc'[b] \notin QueuePhase
        BY <1>6 DEF CompleteKafkaWrite
    <2>3. kafkaWrites' = Cardinality(InPhase(pc', KafkaPhase))
        BY <1>6, <2>1, <2>2, PhaseLeave DEF CompleteKafkaWrite, stateVars
    <2>4. queueWrites' = Cardinality(InPhase(pc', QueuePhase))
        BY <1>6, <2>1, <2>2, PhaseStay DEF CompleteKafkaWrite, stateVars
    <2>5. kafkaWrites' \in Nat /\ queueWrites' \in Nat
        BY <2>3, <2>4, PhaseFinite
    <2>6. seen' \in [Batches -> BOOLEAN]
        BY <1>6 DEF CompleteKafkaWrite
    <2>. QED
        BY <1>6, <2>1, <2>3, <2>4, <2>5, <2>6 DEF CompleteKafkaWrite, stateVars
<1>7. CASE FailKafkaWrite(b)
    <2>1. pc' \in [Batches -> WriterPhase] /\ OnlyMoves(b)
        BY <1>7 DEF FailKafkaWrite, OnlyMoves
    <2>2. /\ pc[b] \in KafkaPhase /\ pc'[b] \notin KafkaPhase
          /\ pc[b] \notin QueuePhase /\ pc'[b] \in QueuePhase
        BY <1>7 DEF FailKafkaWrite
    <2>3. kafkaWrites' = Cardinality(InPhase(pc', KafkaPhase))
        BY <1>7, <2>1, <2>2, PhaseLeave DEF FailKafkaWrite, stateVars
    <2>4. queueWrites' = Cardinality(InPhase(pc', QueuePhase))
        BY <1>7, <2>1, <2>2, PhaseEnter DEF FailKafkaWrite, stateVars
    <2>5. kafkaWrites' \in Nat /\ queueWrites' \in Nat
        BY <2>3, <2>4, PhaseFinite
    <2>6. seen' \in [Batches -> BOOLEAN]
        BY <1>7 DEF FailKafkaWrite
    <2>. QED
        BY <1>7, <2>1, <2>3, <2>4, <2>5, <2>6 DEF FailKafkaWrite, stateVars
<1>8. CASE AppendOK(b)
    <2>1. pc' \in [Batches -> WriterPhase] /\ OnlyMoves(b)
        BY <1>8 DEF AppendOK, OnlyMoves
    <2>2. /\ pc[b] \notin KafkaPhase /\ pc'[b] \notin KafkaPhase
          /\ pc[b] \in QueuePhase /\ pc'[b] \in QueuePhase
        BY <1>8 DEF AppendOK
    <2>3. kafkaWrites' = Cardinality(InPhase(pc', KafkaPhase))
        BY <1>8, <2>1, <2>2, PhaseStay DEF AppendOK, stateVars
    <2>4. queueWrites' = Cardinality(InPhase(pc', QueuePhase))
        BY <1>8, <2>1, <2>2, PhaseStay DEF AppendOK, stateVars
    <2>5. kafkaWrites' \in Nat /\ queueWrites' \in Nat
        BY <2>3, <2>4, PhaseFinite
    <2>6. seen' \in [Batches -> BOOLEAN]
        BY <1>8 DEF AppendOK
    <2>7. log' \in Seq(Batches) /\ Len(log') >= Len(log)
        BY <1>8 DEF AppendOK
    <2>. QED
        BY <1>8, <2>1, <2>3, <2>4, <2>5, <2>6, <2>7 DEF AppendOK, stateVars
<1>9. CASE AppendRefused(b)
    <2>1. pc' \in [Batches -> WriterPhase] /\ OnlyMoves(b)
        BY <1>9 DEF AppendRefused, OnlyMoves
    <2>2. /\ pc[b] \notin KafkaPhase /\ pc'[b] \notin KafkaPhase
          /\ pc[b] \in QueuePhase /\ pc'[b] \in QueuePhase
        BY <1>9 DEF AppendRefused
    <2>3. kafkaWrites' = Cardinality(InPhase(pc', KafkaPhase))
        BY <1>9, <2>1, <2>2, PhaseStay DEF AppendRefused, stateVars
    <2>4. queueWrites' = Cardinality(InPhase(pc', QueuePhase))
        BY <1>9, <2>1, <2>2, PhaseStay DEF AppendRefused, stateVars
    <2>5. kafkaWrites' \in Nat /\ queueWrites' \in Nat
        BY <2>3, <2>4, PhaseFinite
    <2>6. seen' \in [Batches -> BOOLEAN]
        BY <1>9 DEF AppendRefused
    <2>. QED
        BY <1>9, <2>1, <2>3, <2>4, <2>5, <2>6 DEF AppendRefused, stateVars
<1>10. CASE AppendError(b)
    <2>1. pc' \in [Batches -> WriterPhase] /\ OnlyMoves(b)
        BY <1>10 DEF AppendError, OnlyMoves
    <2>2. /\ pc[b] \notin KafkaPhase /\ pc'[b] \notin KafkaPhase
          /\ pc[b] \in QueuePhase /\ pc'[b] \in QueuePhase
        BY <1>10 DEF AppendError
    <2>3. kafkaWrites' = Cardinality(InPhase(pc', KafkaPhase))
        BY <1>10, <2>1, <2>2, PhaseStay DEF AppendError, stateVars
    <2>4. queueWrites' = Cardinality(InPhase(pc', QueuePhase))
        BY <1>10, <2>1, <2>2, PhaseStay DEF AppendError, stateVars
    <2>5. kafkaWrites' \in Nat /\ queueWrites' \in Nat
        BY <2>3, <2>4, PhaseFinite
    <2>6. seen' \in [Batches -> BOOLEAN]
        BY <1>10 DEF AppendError
    <2>7. log' \in Seq(Batches) /\ Len(log') >= Len(log)
        BY <1>10 DEF AppendError
    <2>. QED
        BY <1>10, <2>1, <2>3, <2>4, <2>5, <2>6, <2>7 DEF AppendError, stateVars
<1>11. CASE FinishQueueWrite(b)
    <2>1. pc' \in [Batches -> WriterPhase] /\ OnlyMoves(b)
        BY <1>11 DEF FinishQueueWrite, OnlyMoves
    <2>2. /\ pc[b] \notin KafkaPhase /\ pc'[b] \notin KafkaPhase
          /\ pc[b] \in QueuePhase /\ pc'[b] \notin QueuePhase
        BY <1>11 DEF FinishQueueWrite
    <2>3. kafkaWrites' = Cardinality(InPhase(pc', KafkaPhase))
        BY <1>11, <2>1, <2>2, PhaseStay DEF FinishQueueWrite, stateVars
    <2>4. queueWrites' = Cardinality(InPhase(pc', QueuePhase))
        BY <1>11, <2>1, <2>2, PhaseLeave DEF FinishQueueWrite, stateVars
    <2>5. kafkaWrites' \in Nat /\ queueWrites' \in Nat
        BY <2>3, <2>4, PhaseFinite
    <2>6. seen' \in [Batches -> BOOLEAN]
        BY <1>11 DEF FinishQueueWrite
    <2>. QED
        BY <1>11, <2>1, <2>3, <2>4, <2>5, <2>6 DEF FinishQueueWrite, stateVars
<1>. QED
    BY <1>1, <1>2, <1>3, <1>4, <1>5, <1>6, <1>7, <1>8, <1>9, <1>10, <1>11 DEF WriterStep

\* The replayer and the topic monitor leave the calls alone.
LEMMA CountersReplayer ==
    ASSUME CountersInv, ReplayerStep \/ \E compliant \in BOOLEAN : RefreshTopic(compliant)
    PROVE  CountersInv'
<1>. USE DEF CountersInv, TypeOK, HeldIsHead, CountersMatchCalls, stateVars, queueVars, writerVars,
             replayVars, ReplayPhase
<1>1. CASE ReplayNoncompliant BY <1>1 DEF ReplayNoncompliant
<1>2. CASE ReplayCompliant    BY <1>2 DEF ReplayCompliant
<1>3. CASE PendingSome        BY <1>3 DEF PendingSome
<1>4. CASE NothingToReplay    BY <1>4 DEF NothingToReplay
<1>5. CASE ReadHead           BY <1>5, NumbersAssumption DEF ReadHead
<1>6. CASE ReadError          BY <1>6 DEF ReadError
<1>7. CASE rpc = "publish" /\ (ReplayPublishOK \/ \E permanent \in BOOLEAN : ReplayPublishError(permanent))
    <2>1. \A i \in 1 .. rcount : log[i] \in Batches
        BY <1>7
    <2>2. HeldRecords \subseteq Records
        BY <2>1 DEF HeldRecords, Held, Records, RecordsOf
    <2>3. kafka' \in SUBSET Records
        BY <1>7, <2>2 DEF ReplayPublishOK, ReplayPublishError
    <2>4. rpc' \in ReplayPhase /\ rcount' \in Nat
        BY <1>7 DEF ReplayPublishOK, ReplayPublishError
    <2>5. CASE ReplayPublishOK
        BY <1>7, <2>3, <2>5 DEF ReplayPublishOK
    <2>6. CASE \E permanent \in BOOLEAN : ReplayPublishError(permanent)
        BY <1>7, <2>3, <2>4, <2>6 DEF ReplayPublishError
    <2>. QED
        BY <1>7, <2>5, <2>6
<1>8. CASE CommitOK           BY <1>8 DEF CommitOK
<1>9. CASE CommitError        BY <1>9 DEF CommitError
<1>10. CASE ReadTopic         BY <1>10 DEF ReadTopic
<1>11. CASE ResumeKafkaWrites BY <1>11 DEF ResumeKafkaWrites
<1>12. CASE \E compliant \in BOOLEAN : RefreshTopic(compliant)
    BY <1>12 DEF RefreshTopic
<1>. QED
    BY <1>1, <1>2, <1>3, <1>4, <1>5, <1>6, <1>7, <1>8, <1>9, <1>10, <1>11, <1>12
    DEF ReplayerStep, ReplayPublishOK, ReplayPublishError

LEMMA CountersCrash ==
    ASSUME CountersInv, Crash
    PROVE  CountersInv'
<1>. USE DEF CountersInv, TypeOK, HeldIsHead
<1>1. pc' \in [Batches -> WriterPhase]
    BY DEF Crash, WriterPhase, Ended
<1>2. \A b \in Batches : pc'[b] \notin KafkaPhase /\ pc'[b] \notin QueuePhase
    BY PhaseFacts DEF Crash, Ended, KafkaPhase, QueuePhase
<1>3. CountersMatchCalls'
    BY <1>1, <1>2, PhaseNone DEF CountersMatchCalls, Crash
<1>4. pending' \in Nat /\ crashes' \in 0 .. MaxCrashes /\ log' \in Seq(Batches)
    BY NumbersAssumption DEF Crash
<1>. QED
    BY <1>1, <1>3, <1>4 DEF Crash, ReplayPhase

\* The counters never drift from the calls in flight, and every variable keeps
\* its type.
THEOREM CountersInvariant == Spec => []CountersInv
<1>1. CountersInv /\ [Next]_vars => CountersInv'
    <2>. SUFFICES ASSUME CountersInv, [Next]_vars PROVE CountersInv'
        OBVIOUS
    <2>1. CASE UNCHANGED vars
        BY <2>1 DEF vars, stateVars, queueVars, writerVars, replayVars,
                    CountersInv, TypeOK, HeldIsHead, CountersMatchCalls
    <2>. QED
        BY <2>1, CountersWriter, CountersReplayer, CountersCrash DEF Next
<1>. QED
    BY CountersInit, <1>1, PTL DEF Spec

\* Every variable keeps its type (Recorder!TypeOK).
THEOREM TypeCorrect == Spec => []TypeOK
<1>1. CountersInv => TypeOK
    BY DEF CountersInv
<1>. QED
    BY CountersInvariant, <1>1, PTL

\* kafkaWrites and queueWrites are exactly the calls in flight, in every
\* interleaving of any number of calls (recorder_state.go).
THEOREM CountersCorrect == Spec => []CountersMatchCalls
<1>1. CountersInv => CountersMatchCalls
    BY DEF CountersInv
<1>. QED
    BY CountersInvariant, <1>1, PTL

-----------------------------------------------------------------------------
(* Durability of accepted batches.                                          *)

\* Nothing leaves Kafka, and the entries that are in the log stay in place.
Grows ==
    /\ kafka \subseteq kafka'
    /\ Len(log) <= Len(log')
    /\ \A i \in 1 .. Len(log) : log'[i] = log[i]

LEMMA GrowKeeps ==
    ASSUME TypeOK, TypeOK', Grows, NEW b
    PROVE  /\ InKafka(b) => InKafka(b)'
           /\ Kept(b) => Kept(b)'
<1>1. InKafka(b) => InKafka(b)'
    BY DEF Grows, InKafka, RecordsOf
<1>2. Len(log) \in Nat /\ Len(log') \in Nat
    BY DEF TypeOK
<1>3. \A i \in 1 .. Len(log) : i \in 1 .. Len(log') /\ log'[i] = log[i]
    BY <1>2 DEF Grows
<1>. QED
    BY <1>1, <1>3 DEF Kept

LEMMA DurableInit == Init => DurableInv
BY DEF Init, DurableInv, CompleteInKafka, AppendedKept, CommitDelivered

\* What a call of Write does to Kafka and to the log only adds to them.
LEMMA WriterGrows ==
    ASSUME TypeOK, TypeOK', NEW b \in Batches, Begin(b) \/ WriterStep(b)
    PROVE  Grows /\ UNCHANGED <<rpc, rcount>> /\ OnlyMoves(b)
<1>. USE DEF Grows, TypeOK, queueVars, replayVars, OnlyMoves
<1>1. CASE Begin(b)              BY <1>1 DEF Begin
<1>2. CASE ReserveQueue(b)       BY <1>2 DEF ReserveQueue
<1>3. CASE ReserveKafka(b)       BY <1>3 DEF ReserveKafka
<1>4. CASE PublishOK(b)          BY <1>4 DEF PublishOK
<1>5. CASE PublishError(b)       BY <1>5 DEF PublishError
<1>6. CASE CompleteKafkaWrite(b) BY <1>6 DEF CompleteKafkaWrite
<1>7. CASE FailKafkaWrite(b)     BY <1>7 DEF FailKafkaWrite
<1>8. CASE AppendOK(b)           BY <1>8 DEF AppendOK
<1>9. CASE AppendRefused(b)      BY <1>9 DEF AppendRefused
<1>10. CASE AppendError(b)       BY <1>10 DEF AppendError
<1>11. CASE FinishQueueWrite(b)  BY <1>11 DEF FinishQueueWrite
<1>. QED
    BY <1>1, <1>2, <1>3, <1>4, <1>5, <1>6, <1>7, <1>8, <1>9, <1>10, <1>11 DEF WriterStep

\* How a call gets to the phases that promise something.
LEMMA WriterReaches ==
    ASSUME TypeOK, TypeOK', NEW b \in Batches, Begin(b) \/ WriterStep(b)
    PROVE  /\ pc'[b] = "complete" => RecordsOf(b) \subseteq kafka'
           /\ pc'[b] \in {"finishOK", "accepted"} =>
                  pc[b] \in {"complete", "finishOK"} \/ (log'[Len(log')] = b /\ Len(log') \in 1 .. Len(log'))
<1>. USE DEF TypeOK
<1>1. CASE Begin(b)              BY <1>1 DEF Begin
<1>2. CASE ReserveQueue(b)       BY <1>2 DEF ReserveQueue
<1>3. CASE ReserveKafka(b)       BY <1>3 DEF ReserveKafka
<1>4. CASE PublishOK(b)          BY <1>4 DEF PublishOK
<1>5. CASE PublishError(b)       BY <1>5 DEF PublishError
<1>6. CASE CompleteKafkaWrite(b)
    <2>1. pc[b] = "complete" /\ pc'[b] = "accepted"
        BY <1>6 DEF CompleteKafkaWrite
    <2>. QED
        BY <2>1
<1>7. CASE FailKafkaWrite(b)     BY <1>7 DEF FailKafkaWrite
<1>8. CASE AppendOK(b)           BY <1>8 DEF AppendOK
<1>9. CASE AppendRefused(b)      BY <1>9 DEF AppendRefused
<1>10. CASE AppendError(b)       BY <1>10 DEF AppendError
<1>11. CASE FinishQueueWrite(b)
    <2>1. pc'[b] # "complete" /\ (pc'[b] \in {"finishOK", "accepted"} => pc[b] = "finishOK")
        BY <1>11 DEF FinishQueueWrite
    <2>. QED
        BY <2>1
<1>. QED
    BY <1>1, <1>2, <1>3, <1>4, <1>5, <1>6, <1>7, <1>8, <1>9, <1>10, <1>11 DEF WriterStep

LEMMA DurableWriter ==
    ASSUME CountersInv, CountersInv', DurableInv, NEW b \in Batches, Begin(b) \/ WriterStep(b)
    PROVE  DurableInv'
<1>1. TypeOK /\ TypeOK' /\ HeldIsHead
    BY DEF CountersInv
<1>2. Grows /\ rpc' = rpc /\ rcount' = rcount /\ OnlyMoves(b)
    BY <1>1, WriterGrows
<1>3. CompleteInKafka'
    <2>. SUFFICES ASSUME NEW c \in Batches, pc'[c] = "complete" PROVE InKafka(c)'
        BY DEF CompleteInKafka
    <2>1. CASE c = b
        BY <1>1, <2>1, WriterReaches DEF InKafka, RecordsOf
    <2>2. CASE c # b
        BY <1>1, <1>2, <2>2, GrowKeeps DEF OnlyMoves, DurableInv, CompleteInKafka
    <2>. QED
        BY <2>1, <2>2
<1>4. AppendedKept'
    <2>. SUFFICES ASSUME NEW c \in Batches, pc'[c] \in {"finishOK", "accepted"} PROVE Kept(c)'
        BY DEF AppendedKept
    <2>1. CASE pc[c] \in {"finishOK", "accepted"}
        BY <1>1, <1>2, <2>1, GrowKeeps DEF DurableInv, AppendedKept
    <2>2. CASE pc[c] = "complete"
        BY <1>1, <1>2, <2>2, GrowKeeps DEF DurableInv, CompleteInKafka, Kept
    <2>3. CASE pc[c] \notin {"complete", "finishOK", "accepted"}
        <3>1. c = b
            BY <1>2, <2>3 DEF OnlyMoves
        <3>2. log'[Len(log')] = c /\ Len(log') \in 1 .. Len(log')
            BY <1>1, <2>3, <3>1, WriterReaches
        <3>. QED
            BY <3>2 DEF Kept
    <2>. QED
        BY <2>1, <2>2, <2>3
<1>5. CommitDelivered'
    <2>. SUFFICES ASSUME rpc' = "commit", NEW i \in 1 .. Len(log'), i <= rcount'
                  PROVE  InKafka(log[i])'
        BY DEF CommitDelivered
    <2>1. rpc = "commit" /\ i <= rcount /\ rcount <= Len(log)
        BY <1>1, <1>2 DEF HeldIsHead
    <2>2. rcount \in Nat /\ Len(log) \in Nat /\ i \in Nat /\ 1 <= i
        BY <1>1 DEF TypeOK
    <2>3. i \in 1 .. Len(log)
        BY <2>1, <2>2
    <2>4. InKafka(log[i]) /\ log'[i] = log[i]
        BY <1>2, <2>1, <2>3 DEF DurableInv, CommitDelivered, Grows
    <2>. QED
        BY <1>2, <2>4 DEF Grows, InKafka, RecordsOf
<1>. QED
    BY <1>3, <1>4, <1>5 DEF DurableInv

LEMMA DurableReplayer ==
    ASSUME CountersInv, CountersInv', DurableInv,
           ReplayerStep \/ \E compliant \in BOOLEAN : RefreshTopic(compliant)
    PROVE  DurableInv'
<1>. USE DEF stateVars, queueVars, writerVars, replayVars
<1>1. TypeOK /\ TypeOK' /\ HeldIsHead
    BY DEF CountersInv
<1>2. ASSUME Grows, pc' = pc, CommitDelivered' PROVE DurableInv'
    BY <1>1, <1>2, GrowKeeps DEF DurableInv, CompleteInKafka, AppendedKept
<1>3. CASE ReplayPublishOK
    <2>1. Grows /\ pc' = pc /\ log' = log /\ rcount' = rcount
        BY <1>3 DEF ReplayPublishOK, Grows
    <2>2. CommitDelivered'
        <3>. SUFFICES ASSUME NEW i \in 1 .. Len(log), i <= rcount
                      PROVE  RecordsOf(log[i]) \subseteq kafka'
            BY <2>1 DEF CommitDelivered, InKafka
        <3>1. rcount \in Nat /\ Len(log) \in Nat
            BY <1>1 DEF TypeOK
        <3>2. i \in 1 .. rcount
            BY <3>1
        <3>3. RecordsOf(log[i]) \subseteq HeldRecords
            BY <3>2 DEF HeldRecords, Held
        <3>. QED
            BY <1>3, <3>3 DEF ReplayPublishOK
    <2>. QED
        BY <1>2, <2>1, <2>2
<1>4. CASE CommitOK
    <2>1. /\ kafka' = kafka /\ pc' = pc /\ rpc' = "settled"
          /\ log' = SubSeq(log, rcount + 1, Len(log))
          /\ rpc = "commit"
        BY <1>4 DEF CommitOK
    <2>2. rcount \in Nat /\ Len(log) \in Nat /\ 1 <= rcount /\ rcount <= Len(log)
        BY <1>1, <2>1 DEF TypeOK, HeldIsHead
    <2>3. Len(log') = Len(log) - rcount
        BY <1>1, <2>1, <2>2 DEF TypeOK
    <2>4. \A j \in 1 .. Len(log') : log'[j] = log[j + rcount]
        BY SMTT(30), <1>1, <2>1, <2>2, <2>3 DEF TypeOK
    <2>5. ASSUME NEW c \in Batches, Kept(c) PROVE Kept(c)'
        <3>1. CASE InKafka(c)
            BY <2>1, <3>1 DEF Kept, InKafka
        <3>2. CASE ~InKafka(c)
            <4>1. PICK i \in 1 .. Len(log) : log[i] = c
                BY <2>5, <3>2 DEF Kept
            <4>2. i > rcount
                BY <2>1, <2>2, <3>2, <4>1 DEF DurableInv, CommitDelivered
            <4>3. i - rcount \in 1 .. Len(log') /\ i = (i - rcount) + rcount
                BY <2>2, <2>3, <4>2
            <4>4. log'[i - rcount] = c
                BY <2>4, <4>1, <4>3
            <4>. QED
                BY <4>3, <4>4 DEF Kept
        <3>. QED
            BY <3>1, <3>2
    <2>6. CompleteInKafka' /\ AppendedKept'
        BY <2>1, <2>5 DEF DurableInv, CompleteInKafka, AppendedKept, InKafka
    <2>. QED
        BY <2>1, <2>6 DEF DurableInv, CommitDelivered
<1>5. CASE \E permanent \in BOOLEAN : ReplayPublishError(permanent)
    <2>1. Grows /\ pc' = pc /\ rpc' # "commit"
        BY <1>5 DEF ReplayPublishError, Grows
    <2>. QED
        BY <1>2, <2>1 DEF CommitDelivered
<1>6. CASE UNCHANGED <<kafka, log, pc>> /\ rpc' # "commit"
    <2>1. Grows
        BY <1>1, <1>6 DEF Grows, TypeOK
    <2>. QED
        BY <1>2, <1>6, <2>1 DEF CommitDelivered
<1>7. CASE \E compliant \in BOOLEAN : RefreshTopic(compliant)
    BY <1>7 DEF RefreshTopic, DurableInv, CompleteInKafka, AppendedKept, CommitDelivered, Kept, InKafka
<1>8. CASE \/ ReplayNoncompliant \/ ReplayCompliant \/ PendingSome \/ NothingToReplay
           \/ ReadHead \/ ReadError \/ CommitError \/ ReadTopic \/ ResumeKafkaWrites
    <2>1. UNCHANGED <<kafka, log, pc>> /\ rpc' # "commit"
        BY <1>8 DEF ReplayNoncompliant, ReplayCompliant, PendingSome, NothingToReplay,
                    ReadHead, ReadError, CommitError, ReadTopic, ResumeKafkaWrites
    <2>. QED
        BY <1>6, <2>1
<1>. QED
    BY <1>3, <1>4, <1>5, <1>7, <1>8 DEF ReplayerStep

LEMMA DurableCrash ==
    ASSUME DurableInv, Crash
    PROVE  DurableInv'
<1>1. kafka' = kafka /\ log' = log /\ rpc' # "commit"
    BY DEF Crash
<1>2. \A b \in Batches : pc'[b] \in {"complete", "finishOK", "accepted"} => pc[b] = "accepted"
    BY DEF Crash, Ended
<1>3. \A b \in Batches : pc'[b] \notin {"complete", "finishOK"}
    BY DEF Crash, Ended
<1>. QED
    BY <1>1, <1>2, <1>3 DEF DurableInv, CompleteInKafka, AppendedKept, CommitDelivered, Kept, InKafka

THEOREM DurableInvariant == Spec => [](CountersInv /\ DurableInv)
<1>1. CountersInv /\ CountersInv' /\ DurableInv /\ [Next]_vars => DurableInv'
    <2>. SUFFICES ASSUME CountersInv, CountersInv', DurableInv, [Next]_vars PROVE DurableInv'
        OBVIOUS
    <2>1. CASE UNCHANGED vars
        BY <2>1 DEF vars, queueVars, writerVars, replayVars,
                    DurableInv, CompleteInKafka, AppendedKept, CommitDelivered, Kept, InKafka
    <2>. QED
        BY <2>1, DurableWriter, DurableReplayer, DurableCrash DEF Next
<1>. QED
    BY CountersInvariant, DurableInit, <1>1, PTL DEF Spec

\* An accepted batch is in Kafka in full or in the log, whatever crashed, was
\* partially published or was left behind by a failed sync (Recorder.Write).
THEOREM AcceptedDurability == Spec => []AcceptedDurable
<1>1. DurableInv => AcceptedDurable
    BY DEF DurableInv, AppendedKept, Kept, AcceptedDurable
<1>. QED
    BY DurableInvariant, <1>1, PTL

\* Only a commit takes entries out of the log.
LEMMA StepGrows ==
    ASSUME TypeOK, TypeOK', [Next]_vars
    PROVE  Grows \/ CommitOK
<1>. USE DEF stateVars, queueVars, writerVars, replayVars
<1>1. CASE \E b \in Batches : Begin(b) \/ WriterStep(b)
    BY <1>1, WriterGrows
<1>2. CASE ReplayPublishOK \/ \E permanent \in BOOLEAN : ReplayPublishError(permanent)
    BY <1>2 DEF ReplayPublishOK, ReplayPublishError, Grows, TypeOK
<1>3. CASE UNCHANGED <<kafka, log>>
    BY <1>3 DEF Grows, TypeOK
<1>4. CASE \/ ReplayNoncompliant \/ ReplayCompliant \/ PendingSome \/ NothingToReplay
           \/ ReadHead \/ ReadError \/ CommitError \/ ReadTopic \/ ResumeKafkaWrites
           \/ \E compliant \in BOOLEAN : RefreshTopic(compliant)
           \/ Crash \/ UNCHANGED vars
    <2>1. UNCHANGED <<kafka, log>>
        BY <1>4 DEF ReplayNoncompliant, ReplayCompliant, PendingSome, NothingToReplay,
                    ReadHead, ReadError, CommitError, ReadTopic, ResumeKafkaWrites,
                    RefreshTopic, Crash, vars
    <2>. QED
        BY <1>3, <2>1
<1>. QED
    BY <1>1, <1>2, <1>4 DEF Next, ReplayerStep

\* An entry leaves the log only when all of its records are in Kafka, so a
\* failed commit or a crash can only publish it again (Recorder.ReplayBatch).
THEOREM DropsOnlyDelivered == Spec => DropOnlyDelivered
<1>1. ASSUME CountersInv, CountersInv', DurableInv, [Next]_vars
      PROVE  \A i \in 1 .. Len(log) :
                 (\A j \in 1 .. Len(log') : log'[j] # log[i]) => InKafka(log[i])
    <2>. SUFFICES ASSUME NEW i \in 1 .. Len(log), ~InKafka(log[i])
                  PROVE  \E j \in 1 .. Len(log') : log'[j] = log[i]
        OBVIOUS
    <2>1. TypeOK /\ TypeOK' /\ HeldIsHead /\ Len(log) \in Nat /\ Len(log') \in Nat
        BY <1>1 DEF CountersInv, TypeOK
    <2>2. CASE Grows
        BY <2>1, <2>2 DEF Grows
    <2>3. CASE CommitOK
        <3>1. rcount \in Nat /\ 1 <= rcount /\ rcount <= Len(log)
              /\ log' = SubSeq(log, rcount + 1, Len(log)) /\ log \in Seq(Batches)
            BY <2>1, <2>3 DEF CommitOK, TypeOK, HeldIsHead
        <3>2. i > rcount
            BY <1>1, <2>3, <3>1 DEF CommitOK, DurableInv, CommitDelivered
        <3>3. i - rcount \in 1 .. Len(log') /\ log'[i - rcount] = log[i]
            BY <2>1, <3>1, <3>2
        <3>. QED
            BY <3>3
    <2>. QED
        BY <1>1, <2>1, <2>2, <2>3, StepGrows
<1>2. CountersInv /\ CountersInv' /\ DurableInv /\ [Next]_vars =>
          [\A i \in 1 .. Len(log) :
               (\A j \in 1 .. Len(log') : log'[j] # log[i]) => InKafka(log[i])]_vars
    BY <1>1
<1>. QED
    BY DurableInvariant, <1>2, PTL DEF Spec, DropOnlyDelivered

-----------------------------------------------------------------------------
(* The barrier, when a failed sync leaves nothing in the log.               *)

LEMMA BarrierInit == Init => BarrierInv
BY DEF Init, BarrierInv, LogCounted, DirectOnlyWhenDrained, QueuePhase

LEMMA BarrierWriter ==
    ASSUME ~SyncErrorKeepsEntry, CountersInv, BarrierInv,
           NEW b \in Batches, Begin(b) \/ WriterStep(b)
    PROVE  BarrierInv'
<1>. USE PhaseFacts DEF BarrierInv, LogCounted, DirectOnlyWhenDrained, stateVars, queueVars
<1>0. log \in Seq(Batches) /\ pc \in [Batches -> WriterPhase]
    BY DEF CountersInv, TypeOK
<1>1. CASE Begin(b)              BY <1>0, <1>1 DEF Begin
<1>2. CASE ReserveQueue(b)       BY <1>2 DEF ReserveQueue
<1>3. CASE ReserveKafka(b)       BY <1>0, <1>3 DEF ReserveKafka
<1>4. CASE PublishOK(b)          BY <1>0, <1>4 DEF PublishOK
<1>5. CASE PublishError(b)       BY <1>0, <1>5 DEF PublishError
<1>6. CASE CompleteKafkaWrite(b) BY <1>0, <1>6 DEF CompleteKafkaWrite
<1>7. CASE FailKafkaWrite(b)     BY <1>7 DEF FailKafkaWrite
<1>8. CASE AppendOK(b)
    <2>1. spooling /\ spooling' = spooling
        BY <1>8 DEF AppendOK
    <2>2. pending' = Len(log')
        BY <1>0, <1>8 DEF AppendOK
    <2>. QED
        BY <2>1, <2>2
<1>9. CASE AppendRefused(b)      BY <1>0, <1>9 DEF AppendRefused
<1>10. CASE AppendError(b)       BY <1>0, <1>10 DEF AppendError
<1>11. CASE FinishQueueWrite(b)
    <2>1. spooling /\ spooling' = spooling
        BY <1>11 DEF FinishQueueWrite
    <2>. QED
        BY <1>11, <2>1 DEF FinishQueueWrite
<1>. QED
    BY <1>1, <1>2, <1>3, <1>4, <1>5, <1>6, <1>7, <1>8, <1>9, <1>10, <1>11 DEF WriterStep

\* Recovery decides by the counters and the published count; both are true.
LEMMA ResumeIsSafe ==
    ASSUME CountersInv, LogCounted, ResumeAllowed
    PROVE  log = <<>> /\ \A b \in Batches : pc[b] \notin QueuePhase
<1>1. log \in Seq(Batches) /\ Len(log) = 0
    BY DEF CountersInv, TypeOK, LogCounted, ResumeAllowed
<1>2. IsFiniteSet(InPhase(pc, QueuePhase)) /\ Cardinality(InPhase(pc, QueuePhase)) = 0
    BY PhaseFinite DEF CountersInv, CountersMatchCalls, ResumeAllowed
<1>3. InPhase(pc, QueuePhase) = {}
    BY <1>2, FS_EmptySet
<1>. QED
    BY <1>1, <1>3 DEF InPhase

LEMMA BarrierReplayer ==
    ASSUME CountersInv, BarrierInv,
           ReplayerStep \/ \E compliant \in BOOLEAN : RefreshTopic(compliant)
    PROVE  BarrierInv'
<1>. USE DEF BarrierInv, LogCounted, DirectOnlyWhenDrained, stateVars, queueVars, writerVars, replayVars
<1>1. CASE CommitOK
    <2>1. rcount \in Nat /\ Len(log) \in Nat /\ 1 <= rcount /\ rcount <= Len(log) /\ log \in Seq(Batches)
        BY <1>1 DEF CommitOK, CountersInv, TypeOK, HeldIsHead
    <2>2. log' = SubSeq(log, rcount + 1, Len(log)) /\ pending' = pending - rcount
          /\ spooling' = spooling /\ pc' = pc
        BY <1>1 DEF CommitOK
    <2>3. pending' = Len(log')
        BY <2>1, <2>2
    <2>4. spooling
        BY <2>1
    <2>. QED
        BY <2>2, <2>3, <2>4
<1>2. CASE ResumeKafkaWrites
    <2>1. UNCHANGED <<log, pending, pc>> /\ (spooling' \/ ~spooling \/ ResumeAllowed)
        BY <1>2 DEF ResumeKafkaWrites
    <2>. QED
        BY <2>1, ResumeIsSafe
<1>3. CASE UNCHANGED <<log, pending, pc>> /\ (spooling' = spooling \/ spooling' = TRUE)
    BY <1>3
<1>4. CASE \/ ReplayNoncompliant \/ ReplayCompliant \/ PendingSome \/ NothingToReplay
           \/ ReadHead \/ ReadError \/ ReplayPublishOK
           \/ \E permanent \in BOOLEAN : ReplayPublishError(permanent)
           \/ CommitError \/ ReadTopic \/ \E compliant \in BOOLEAN : RefreshTopic(compliant)
    <2>1. UNCHANGED <<log, pending, pc>> /\ (spooling' = spooling \/ spooling' = TRUE)
        BY <1>4 DEF ReplayNoncompliant, ReplayCompliant, PendingSome, NothingToReplay,
                    ReadHead, ReadError, ReplayPublishOK, ReplayPublishError, CommitError,
                    ReadTopic, RefreshTopic
    <2>. QED
        BY <1>3, <2>1
<1>. QED
    BY <1>1, <1>2, <1>4 DEF ReplayerStep

LEMMA BarrierCrash ==
    ASSUME CountersInv, Crash
    PROVE  BarrierInv'
<1>1. pending' = Len(log') /\ log' = log /\ spooling' = (log # <<>>)
    BY DEF Crash
<1>2. \A b \in Batches : pc'[b] \notin QueuePhase
    BY PhaseFacts DEF Crash, Ended, QueuePhase
<1>. QED
    BY <1>1, <1>2 DEF BarrierInv, LogCounted, DirectOnlyWhenDrained

THEOREM BarrierInvariant ==
    ASSUME ~SyncErrorKeepsEntry
    PROVE  Spec => [](CountersInv /\ BarrierInv)
<1>1. CountersInv /\ BarrierInv /\ [Next]_vars => BarrierInv'
    <2>. SUFFICES ASSUME CountersInv, BarrierInv, [Next]_vars PROVE BarrierInv'
        OBVIOUS
    <2>1. CASE UNCHANGED vars
        BY <2>1 DEF vars, stateVars, queueVars, writerVars, BarrierInv, LogCounted, DirectOnlyWhenDrained
    <2>. QED
        BY <2>1, BarrierWriter, BarrierReplayer, BarrierCrash DEF Next
<1>. QED
    BY CountersInvariant, BarrierInit, <1>1, PTL DEF Spec

\* Direct writes are admitted only while the queue is empty and no call is on
\* its way into it (recorderState.resumeKafkaWrites).
THEOREM DirectWritesDrained ==
    ASSUME ~SyncErrorKeepsEntry
    PROVE  Spec => []DirectOnlyWhenDrained
<1>1. BarrierInv => DirectOnlyWhenDrained
    BY DEF BarrierInv
<1>. QED
    BY BarrierInvariant, <1>1, PTL

\* New records never bypass older ones that the recorder accepted (NewRecorder).
THEOREM NewRecordsNeverBypass ==
    ASSUME ~SyncErrorKeepsEntry
    PROVE  Spec => []NoBypass
<1>1. CountersInv /\ BarrierInv /\ DurableInv => NoBypass
    BY DEF BarrierInv, DirectOnlyWhenDrained, DurableInv, AppendedKept, Kept, NoBypass
<1>. QED
    BY BarrierInvariant, DurableInvariant, <1>1, PTL

\* Whatever the replayer has published it can also commit (Queue.Commit).
THEOREM CommitAlwaysFits ==
    ASSUME ~SyncErrorKeepsEntry
    PROVE  Spec => []CommitFits
<1>1. CountersInv /\ BarrierInv => CommitFits
    BY DEF CountersInv, HeldIsHead, BarrierInv, LogCounted, CommitFits
<1>. QED
    BY BarrierInvariant, <1>1, PTL


-----------------------------------------------------------------------------
(* A paused replay.                                                         *)

\* The pause stops the loop behind the barrier it raised.
PausedInv == replayPaused => spooling /\ rpc = "stopped"

\* No other step of the process ends a pause, lowers the barrier or commits.
LEMMA PausedStep ==
    ASSUME TypeOK, TypeOK', PausedInv, [Next]_vars
    PROVE  /\ PausedInv'
           /\ replayPaused => crashes' # crashes \/ (replayPaused' /\ spooling' /\ Len(log') >= Len(log))
<1>. USE DEF PausedInv, stateVars, queueVars, writerVars, replayVars
<1>1. CASE Crash
    BY <1>1 DEF Crash, TypeOK
<1>2. CASE ReplayerStep
    <2>1. ~replayPaused \/ rpc = "stopped"
        OBVIOUS
    <2>2. ~replayPaused
        BY <1>2, <2>1 DEF ReplayerStep, ReplayNoncompliant, ReplayCompliant, PendingSome,
           NothingToReplay, ReadHead, ReadError, ReplayPublishOK, ReplayPublishError,
           CommitOK, CommitError, ReadTopic, ResumeKafkaWrites
    <2>3. CASE \E permanent \in BOOLEAN : ReplayPublishError(permanent)
        BY <2>2, <2>3 DEF ReplayPublishError
    <2>4. CASE \/ ReplayNoncompliant \/ ReplayCompliant \/ PendingSome \/ NothingToReplay
               \/ ReadHead \/ ReadError \/ ReplayPublishOK \/ CommitOK \/ CommitError
               \/ ReadTopic \/ ResumeKafkaWrites
        <3>1. replayPaused' = replayPaused
            BY <2>4 DEF ReplayNoncompliant, ReplayCompliant, PendingSome,
               NothingToReplay, ReadHead, ReadError, ReplayPublishOK,
               CommitOK, CommitError, ReadTopic, ResumeKafkaWrites
        <3>. QED
            BY <2>2, <3>1
    <2>. QED
        BY <1>2, <2>3, <2>4 DEF ReplayerStep
<1>3. CASE \/ \E b \in Batches : Begin(b) \/ WriterStep(b)
           \/ \E compliant \in BOOLEAN : RefreshTopic(compliant)
           \/ UNCHANGED vars
    <2>1. replayPaused' = replayPaused /\ rpc' = rpc /\ (spooling => spooling')
        BY <1>3 DEF WriterStep, Begin, ReserveQueue, ReserveKafka, PublishOK, PublishError,
           CompleteKafkaWrite, FailKafkaWrite, AppendOK, AppendRefused, AppendError,
           FinishQueueWrite, RefreshTopic, vars
    <2>2. PausedInv'
        BY <2>1
    <2>3. CASE replayPaused
        <3>1. ~CommitOK
            BY <2>3 DEF CommitOK
        <3>2. Grows
            BY <3>1, StepGrows
        <3>3. Len(log') >= Len(log)
            BY <3>2 DEF Grows, TypeOK
        <3>. QED
            BY <2>1, <2>3, <3>3
    <2>. QED
        BY <2>2, <2>3
<1>. QED
    BY <1>1, <1>2, <1>3 DEF Next

\* A permanent replay error keeps the barrier up, and every entry in the log,
\* until the process restarts (recorderState.pauseReplay).
THEOREM PausedStays == Spec => PausedUntilRestart
<1>1. Init => PausedInv
    BY DEF Init, PausedInv
<1>2. TypeOK /\ TypeOK' /\ PausedInv /\ [Next]_vars => PausedInv'
    BY PausedStep
<1>3. TypeOK /\ TypeOK' /\ PausedInv /\ [Next]_vars =>
          [replayPaused => crashes' # crashes \/ (replayPaused' /\ spooling' /\ Len(log') >= Len(log))]_vars
    BY PausedStep
<1>. QED
    BY TypeCorrect, <1>1, <1>2, <1>3, PTL DEF Spec, PausedUntilRestart

-----------------------------------------------------------------------------
(* The recorder implements AtLeastOnce, when a failed sync leaves nothing.  *)

Accepted == {b \in Batches : pc[b] = "accepted"}
Stored == {log[i] : i \in 1 .. Len(log)}

PromiseStep == [Promise!Next]_(Promise!vars)

\* Promise's variables, by the names above.
LEMMA PromiseStutters ==
    ASSUME Accepted' = Accepted, Stored' = Stored, kafka' = kafka, spooling' = spooling
    PROVE  PromiseStep
BY DEF PromiseStep, Promise!vars, Accepted, Stored

LEMMA PromiseBuffers ==
    ASSUME Accepted' = Accepted, Stored' = Stored, kafka' = kafka, spooling' = TRUE
    PROVE  PromiseStep
BY DEF PromiseStep, Promise!Next, Promise!StartBuffering, Accepted, Stored

LEMMA PromiseUnbuffers ==
    ASSUME Accepted' = Accepted, Stored' = Stored, kafka' = kafka, spooling' = FALSE, Stored = {}
    PROVE  PromiseStep
BY DEF PromiseStep, Promise!Next, Promise!StopBuffering, Accepted, Stored

LEMMA PromiseDelivers ==
    ASSUME Accepted' = Accepted, Stored' = Stored, spooling' = spooling, NEW b \in Batches,
           NEW part \in SUBSET RecordsOf(b), kafka' = kafka \cup part
    PROVE  PromiseStep
BY DEF PromiseStep, Promise!Next, Promise!Deliver, Promise!RecordsOf, RecordsOf, Accepted, Stored

LEMMA PromiseAccepts ==
    ASSUME Stored' = Stored, kafka' = kafka, spooling' = spooling, NEW b \in Batches,
           Kept(b), Accepted' = Accepted \cup {b}
    PROVE  PromiseStep
<1>1. b \in Stored \/ Promise!Delivered(b)
    BY DEF Kept, InKafka, Stored, Promise!Delivered, Promise!RecordsOf, RecordsOf
<1>. QED
    BY <1>1 DEF PromiseStep, Promise!Next, Promise!Accept, Accepted, Stored

LEMMA PromiseStores ==
    ASSUME Accepted' = Accepted, kafka' = kafka, spooling, spooling' = spooling, NEW b \in Batches,
           Stored' = Stored \cup {b}
    PROVE  PromiseStep
BY DEF PromiseStep, Promise!Next, Promise!Store, Accepted, Stored

LEMMA PromiseReplays ==
    ASSUME Accepted' = Accepted, Stored' = Stored, spooling, spooling' = spooling,
           NEW part \in SUBSET UNION {RecordsOf(b) : b \in Stored}, kafka' = kafka \cup part
    PROVE  PromiseStep
BY DEF PromiseStep, Promise!Next, Promise!Replay, Promise!RecordsOf, RecordsOf, Accepted, Stored

LEMMA PromiseReleases ==
    ASSUME Accepted' = Accepted, kafka' = kafka, spooling' = spooling,
           NEW done \in SUBSET Stored, Stored' = Stored \ done, \A b \in done : InKafka(b)
    PROVE  PromiseStep
<1>1. \A b \in done : Promise!Delivered(b)
    BY DEF InKafka, Promise!Delivered, Promise!RecordsOf, RecordsOf
<1>. QED
    BY <1>1 DEF PromiseStep, Promise!Next, Promise!Release, Accepted, Stored

LEMMA PromiseWriter ==
    ASSUME ~SyncErrorKeepsEntry, CountersInv, CountersInv', BarrierInv, DurableInv,
           NEW b \in Batches, Begin(b) \/ WriterStep(b)
    PROVE  PromiseStep
<1>. USE DEF stateVars, queueVars
<1>0. /\ OnlyMoves(b) /\ log \in Seq(Batches) /\ pc \in [Batches -> WriterPhase]
      /\ pc' \in [Batches -> WriterPhase]
    BY WriterGrows DEF CountersInv, TypeOK
<1>1. (pc[b] = "accepted" <=> pc'[b] = "accepted") => Accepted' = Accepted
    BY <1>0 DEF OnlyMoves, Accepted
<1>2. pc'[b] = "accepted" => Accepted' = Accepted \cup {b}
    BY <1>0 DEF OnlyMoves, Accepted
<1>3. log' = log => Stored' = Stored
    BY DEF Stored
<1>4. CASE Begin(b)
    <2>1. pc[b] # "accepted" /\ pc'[b] # "accepted" /\ UNCHANGED <<log, kafka, spooling>>
        BY <1>0, <1>4 DEF Begin
    <2>. QED
        BY <1>1, <1>3, <2>1, PromiseStutters
<1>5. CASE ReserveQueue(b) \/ FailKafkaWrite(b)
    <2>1. pc[b] # "accepted" /\ pc'[b] # "accepted" /\ UNCHANGED <<log, kafka>> /\ spooling' = TRUE
        BY <1>0, <1>5 DEF ReserveQueue, FailKafkaWrite
    <2>. QED
        BY <1>1, <1>3, <2>1, PromiseBuffers
<1>6. CASE ReserveKafka(b) \/ AppendRefused(b) \/ AppendError(b)
    <2>1. pc[b] # "accepted" /\ pc'[b] # "accepted" /\ UNCHANGED <<log, kafka, spooling>>
        BY <1>0, <1>6 DEF ReserveKafka, AppendRefused, AppendError
    <2>. QED
        BY <1>1, <1>3, <2>1, PromiseStutters
<1>7. CASE PublishOK(b) \/ PublishError(b)
    <2>1. pc[b] # "accepted" /\ pc'[b] # "accepted" /\ UNCHANGED <<log, spooling>>
        BY <1>0, <1>7 DEF PublishOK, PublishError
    <2>2. PICK part \in SUBSET RecordsOf(b) : kafka' = kafka \cup part
        BY <1>7 DEF PublishOK, PublishError
    <2>. QED
        BY <1>1, <1>3, <2>1, <2>2, PromiseDelivers
<1>8. CASE CompleteKafkaWrite(b)
    <2>1. pc[b] = "complete" /\ pc'[b] = "accepted" /\ UNCHANGED <<log, kafka, spooling>>
        BY <1>0, <1>8 DEF CompleteKafkaWrite
    <2>2. Kept(b)
        BY <2>1 DEF DurableInv, CompleteInKafka, Kept
    <2>. QED
        BY <1>2, <1>3, <2>1, <2>2, PromiseAccepts
<1>9. CASE AppendOK(b)
    <2>1. /\ pc[b] = "append" /\ pc'[b] = "finishOK" /\ UNCHANGED <<kafka, spooling>>
          /\ log' = Append(log, b)
        BY <1>0, <1>9 DEF AppendOK
    <2>2. spooling
        BY <2>1, PhaseFacts DEF BarrierInv, DirectOnlyWhenDrained
    <2>3. /\ Len(log) \in Nat /\ Len(log') = Len(log) + 1
          /\ \A i \in 1 .. Len(log) : log'[i] = log[i]
          /\ log'[Len(log) + 1] = b
        BY <1>0, <2>1
    <2>4. Stored' = Stored \cup {b}
        <3>1. Stored \cup {b} \subseteq Stored'
            BY <2>3 DEF Stored
        <3>2. \A i \in 1 .. Len(log') : i \in 1 .. Len(log) \/ i = Len(log) + 1
            BY <2>3
        <3>3. Stored' \subseteq Stored \cup {b}
            BY <2>3, <3>2 DEF Stored
        <3>. QED
            BY <3>1, <3>3
    <2>. QED
        BY <1>1, <2>1, <2>2, <2>4, PromiseStores
<1>10. CASE FinishQueueWrite(b)
    <2>1. UNCHANGED <<log, kafka, spooling>>
        BY <1>10 DEF FinishQueueWrite
    <2>2. CASE pc[b] = "finishOK"
        <3>1. pc'[b] = "accepted" /\ Kept(b)
            BY <1>0, <1>10, <2>2 DEF FinishQueueWrite, DurableInv, AppendedKept
        <3>. QED
            BY <1>2, <1>3, <2>1, <3>1, PromiseAccepts
    <2>3. CASE pc[b] # "finishOK"
        <3>1. pc[b] # "accepted" /\ pc'[b] # "accepted"
            BY <1>0, <1>10, <2>3 DEF FinishQueueWrite
        <3>. QED
            BY <1>1, <1>3, <2>1, <3>1, PromiseStutters
    <2>. QED
        BY <2>2, <2>3
<1>. QED
    BY <1>4, <1>5, <1>6, <1>7, <1>8, <1>9, <1>10 DEF WriterStep

LEMMA PromiseReplayer ==
    ASSUME CountersInv, CountersInv', BarrierInv, DurableInv,
           ReplayerStep \/ \E compliant \in BOOLEAN : RefreshTopic(compliant)
    PROVE  PromiseStep
<1>. USE DEF stateVars, queueVars, writerVars
<1>0. TypeOK /\ HeldIsHead /\ Len(log) \in Nat /\ rcount \in Nat /\ spooling \in BOOLEAN
    BY DEF CountersInv, TypeOK
<1>1. Accepted' = Accepted
    <2>1. pc' = pc
        BY DEF ReplayerStep, ReplayNoncompliant, ReplayCompliant, PendingSome,
           NothingToReplay, ReadHead, ReadError, ReplayPublishOK, ReplayPublishError,
           CommitOK, CommitError, ReadTopic, ResumeKafkaWrites, RefreshTopic
    <2>. QED
        BY <2>1 DEF Accepted
<1>2. log' = log => Stored' = Stored
    BY DEF Stored
<1>3. rpc \in {"publish", "commit"} => spooling
    BY <1>0 DEF HeldIsHead, BarrierInv, DirectOnlyWhenDrained
<1>4. CASE ReplayNoncompliant
    BY <1>1, <1>2, <1>4, PromiseBuffers DEF ReplayNoncompliant
<1>5. CASE \/ ReplayCompliant \/ PendingSome \/ NothingToReplay \/ ReadHead \/ ReadError
           \/ CommitError \/ ReadTopic \/ \E compliant \in BOOLEAN : RefreshTopic(compliant)
    <2>1. UNCHANGED <<log, kafka, spooling>>
        BY <1>5 DEF ReplayCompliant, PendingSome, NothingToReplay, ReadHead, ReadError,
           CommitError, ReadTopic, RefreshTopic
    <2>. QED
        BY <1>1, <1>2, <2>1, PromiseStutters
<1>6. CASE ReplayPublishOK \/ \E permanent \in BOOLEAN : ReplayPublishError(permanent)
    <2>1. rpc = "publish" /\ log' = log /\ (spooling' = spooling \/ spooling' = TRUE)
        BY <1>6 DEF ReplayPublishOK, ReplayPublishError
    <2>2. spooling /\ spooling' = spooling
        BY <1>0, <1>3, <2>1
    <2>3. PICK part \in SUBSET HeldRecords : kafka' = kafka \cup part
        BY <1>6 DEF ReplayPublishOK, ReplayPublishError
    <2>4. Held \subseteq Stored
        BY <1>0, <2>1 DEF HeldIsHead, Held, Stored
    <2>5. part \in SUBSET UNION {RecordsOf(b) : b \in Stored}
        BY <2>4 DEF HeldRecords
    <2>. QED
        BY <1>1, <1>2, <2>1, <2>2, <2>3, <2>5, PromiseReplays
<1>7. CASE CommitOK
    <2>1. /\ rpc = "commit" /\ kafka' = kafka /\ spooling' = spooling
          /\ log' = SubSeq(log, rcount + 1, Len(log))
        BY <1>7 DEF CommitOK
    <2>2. 1 <= rcount /\ rcount <= Len(log) /\ log \in Seq(Batches)
        BY <1>0, <2>1 DEF HeldIsHead, TypeOK
    <2>3. Len(log') = Len(log) - rcount
        BY <1>0, <2>1, <2>2
    <2>4. \A j \in 1 .. Len(log') : log'[j] = log[j + rcount] /\ j + rcount \in 1 .. Len(log)
        BY <1>0, <2>1, <2>2, <2>3
    <2>5. Stored' \subseteq Stored
        BY <2>4 DEF Stored
    <2>6. ASSUME NEW i \in 1 .. Len(log), i > rcount PROVE log[i] \in Stored'
        <3>1. i - rcount \in 1 .. Len(log') /\ i = (i - rcount) + rcount
            BY <1>0, <2>2, <2>3, <2>6
        <3>2. log'[i - rcount] = log[i]
            BY <2>4, <3>1
        <3>. QED
            BY <3>1, <3>2 DEF Stored
    <2>7. \A b \in Stored \ Stored' : InKafka(b)
        <3>. SUFFICES ASSUME NEW i \in 1 .. Len(log), log[i] \notin Stored' PROVE InKafka(log[i])
            BY DEF Stored
        <3>1. i <= rcount
            BY <1>0, <2>6
        <3>. QED
            BY <2>1, <3>1 DEF DurableInv, CommitDelivered
    <2>8. Stored' = Stored \ (Stored \ Stored')
        BY <2>5
    <2>. QED
        BY <1>1, <2>1, <2>7, <2>8, PromiseReleases
<1>8. CASE ResumeKafkaWrites
    <2>1. UNCHANGED <<log, kafka>> /\ spooling' = (spooling /\ ~ResumeAllowed)
        BY <1>8 DEF ResumeKafkaWrites
    <2>2. CASE ResumeAllowed
        <3>1. log = <<>>
            BY <2>2, ResumeIsSafe DEF BarrierInv
        <3>2. Stored = {}
            BY <3>1 DEF Stored
        <3>3. spooling' = FALSE
            BY <2>1, <2>2
        <3>. QED
            BY <1>1, <1>2, <2>1, <3>2, <3>3, PromiseUnbuffers
    <2>3. CASE ~ResumeAllowed
        <3>1. spooling' = spooling
            BY <1>0, <2>1, <2>3
        <3>. QED
            BY <1>1, <1>2, <2>1, <3>1, PromiseStutters
    <2>. QED
        BY <2>2, <2>3
<1>. QED
    BY <1>4, <1>5, <1>6, <1>7, <1>8 DEF ReplayerStep

LEMMA PromiseCrash ==
    ASSUME CountersInv, Crash
    PROVE  PromiseStep
<1>1. pc \in [Batches -> WriterPhase] /\ UNCHANGED <<log, kafka>> /\ spooling' = (log # <<>>)
    BY DEF Crash, CountersInv, TypeOK
<1>2. \A b \in Batches : pc'[b] = "accepted" <=> pc[b] = "accepted"
    BY <1>1 DEF Crash, Ended
<1>3. Accepted' = Accepted /\ Stored' = Stored
    BY <1>1, <1>2 DEF Accepted, Stored
<1>4. CASE log = <<>>
    <2>1. spooling' = FALSE
        BY <1>1, <1>4
    <2>2. Stored = {}
        BY <1>4 DEF Stored
    <2>. QED
        BY <1>1, <1>3, <2>1, <2>2, PromiseUnbuffers
<1>5. CASE log # <<>>
    BY <1>1, <1>3, <1>5, PromiseBuffers
<1>. QED
    BY <1>4, <1>5

\* Every step of the recorder is a step of AtLeastOnce or none: a batch is
\* accepted once it is delivered or stored, given up once delivered, and nothing
\* new goes around the store (Recorder, recorderState, Queue).
THEOREM PromiseKept ==
    ASSUME ~SyncErrorKeepsEntry
    PROVE  Spec => ImplementsPromise
<1>1. Init => Promise!Init
    BY DEF Init, Promise!Init
<1>2. CountersInv /\ CountersInv' /\ BarrierInv /\ DurableInv /\ [Next]_vars =>
          [Promise!Next]_(Promise!vars)
    <2>. SUFFICES ASSUME CountersInv, CountersInv', BarrierInv, DurableInv, [Next]_vars
                  PROVE  PromiseStep
        BY DEF PromiseStep
    <2>1. CASE UNCHANGED vars
        <3>1. Accepted' = Accepted /\ Stored' = Stored /\ kafka' = kafka /\ spooling' = spooling
            BY <2>1 DEF vars, stateVars, queueVars, writerVars, Accepted, Stored
        <3>. QED
            BY <3>1, PromiseStutters
    <2>. QED
        BY <2>1, PromiseWriter, PromiseReplayer, PromiseCrash DEF Next
<1>. QED
    BY BarrierInvariant, DurableInvariant, <1>1, <1>2, PTL DEF Spec, ImplementsPromise, Promise!Spec

=============================================================================
