------------------------------ MODULE Recorder ------------------------------
(***************************************************************************)
(* The request-record pipeline of ingate-als: Recorder (Kafka first, disk   *)
(* queue as the fallback), the disk queue, the replayer that drains it and  *)
(* the monitor that caches whether the Kafka topic meets its contract.      *)
(*                                                                         *)
(* Every batch is one call of Recorder.Write by a gRPC stream.  Several     *)
(* calls run at once; one replayer loop runs beside them.  The state lock   *)
(* (recorderState.mu) and the queue lock (Queue.mu) each make one action    *)
(* atomic; nothing is held across a Kafka or disk call, so whatever was     *)
(* read before a lock may be stale when the lock is taken.                  *)
(***************************************************************************)
EXTENDS Naturals, Sequences, FiniteSets

CONSTANTS
    Batches,              \* one element per call of Recorder.Write
    RecordsPerBatch,      \* request records in a batch
    ReplayEntries,        \* entries a Read returns at most (replay_batch_size)
    SyncErrorKeepsEntry,  \* does wal.Write leave the entry behind when Sync fails?
    MaxCrashes            \* bound on process crashes

ASSUME BatchesAssumption == IsFiniteSet(Batches)
ASSUME NumbersAssumption ==
    /\ RecordsPerBatch \in Nat \ {0}
    /\ ReplayEntries \in Nat \ {0}
    /\ MaxCrashes \in Nat
ASSUME SyncErrorAssumption == SyncErrorKeepsEntry \in BOOLEAN

VARIABLES
    (* recorderState *)
    spooling,        \* the failure barrier: new batches go to the disk queue
    kafkaWrites,     \* direct Kafka writes admitted and not finished
    queueWrites,     \* disk queue writes admitted and not finished
    replayPaused,    \* a permanent error stopped the replay in this process
    kafkaOK,         \* last Kafka outcome, for the status
    queueOK,         \* last disk queue outcome, for the status
    (* the topic contract *)
    topicCompliant,  \* cached verdict of the last decisive topic check
    (* the disk queue *)
    log,             \* the entries of the write-ahead log, head first
    pending,         \* the entry count published for Pending()
    (* one call of Write per batch *)
    pc,              \* where the call is, and how it ended
    seen,            \* the topic verdict the call read before the state lock
    (* the replayer *)
    rpc,             \* where the loop is
    rcount,          \* entries of the batch it last read
    rseen,           \* the topic verdict it read before the state lock
    (* outside the process *)
    kafka,           \* records present in Kafka
    crashes

stateVars == <<spooling, kafkaWrites, queueWrites, replayPaused, kafkaOK, queueOK>>
queueVars == <<log, pending>>
writerVars == <<pc, seen>>
replayVars == <<rpc, rcount, rseen>>
vars == <<stateVars, topicCompliant, queueVars, writerVars, replayVars, kafka, crashes>>

Records == Batches \X (1 .. RecordsPerBatch)
RecordsOf(b) == {b} \X (1 .. RecordsPerBatch)
InKafka(b) == RecordsOf(b) \subseteq kafka

KafkaPhase == {"publish", "complete", "fail"}
QueuePhase == {"append", "finishOK", "finishRefused", "finishError"}
Ended == {"accepted", "rejected", "lost"}
WriterPhase == {"idle", "reserve"} \cup KafkaPhase \cup QueuePhase \cup Ended

InPhase(f, phases) == {b \in Batches : f[b] \in phases}

ReplayPhase == {"prepare", "pending", "batch", "read", "publish", "commit",
                "settled", "resume", "stopped"}

\* The entries, and the records, of the batch the replayer holds: Read only
\* copies, so they stay at the head of the log until Commit.
Held == {log[i] : i \in 1 .. rcount}
HeldRecords == UNION {RecordsOf(b) : b \in Held}

TypeOK ==
    /\ spooling \in BOOLEAN
    /\ kafkaWrites \in Nat
    /\ queueWrites \in Nat
    /\ replayPaused \in BOOLEAN
    /\ kafkaOK \in BOOLEAN
    /\ queueOK \in BOOLEAN
    /\ topicCompliant \in BOOLEAN
    /\ log \in Seq(Batches)
    /\ pending \in Nat
    /\ pc \in [Batches -> WriterPhase]
    /\ seen \in [Batches -> BOOLEAN]
    /\ rpc \in ReplayPhase
    /\ rcount \in Nat
    /\ rseen \in BOOLEAN
    /\ kafka \in SUBSET Records
    /\ crashes \in 0 .. MaxCrashes

\* NewRecorder over a queue just opened: the log may already hold entries, but
\* the first start finds an empty directory.  BeforeStart ran one topic check.
Init ==
    /\ spooling = FALSE
    /\ kafkaWrites = 0
    /\ queueWrites = 0
    /\ replayPaused = FALSE
    /\ kafkaOK = FALSE
    /\ queueOK = TRUE
    /\ topicCompliant \in BOOLEAN
    /\ log = <<>>
    /\ pending = 0
    /\ pc = [b \in Batches |-> "idle"]
    /\ seen = [b \in Batches |-> FALSE]
    /\ rpc = "prepare"
    /\ rcount = 0
    /\ rseen = FALSE
    /\ kafka = {}
    /\ crashes = 0

-----------------------------------------------------------------------------
(* Recorder.Write, one call per batch.                                      *)

\* The call reads the cached topic verdict before it takes the state lock.
Begin(b) ==
    /\ pc[b] = "idle"
    /\ seen' = [seen EXCEPT ![b] = topicCompliant]
    /\ pc' = [pc EXCEPT ![b] = "reserve"]
    /\ UNCHANGED <<stateVars, topicCompliant, queueVars, replayVars, kafka, crashes>>

\* reserveWriteTarget, the queue side: the barrier is up, or goes up now.
ReserveQueue(b) ==
    /\ pc[b] = "reserve"
    /\ spooling \/ ~seen[b]
    /\ spooling' = TRUE
    /\ queueWrites' = queueWrites + 1
    /\ pc' = [pc EXCEPT ![b] = "append"]
    /\ seen' = [seen EXCEPT ![b] = FALSE]
    /\ UNCHANGED <<kafkaWrites, replayPaused, kafkaOK, queueOK>>
    /\ UNCHANGED <<topicCompliant, queueVars, replayVars, kafka, crashes>>

\* reserveWriteTarget, the Kafka side.
ReserveKafka(b) ==
    /\ pc[b] = "reserve"
    /\ ~spooling
    /\ seen[b]
    /\ kafkaWrites' = kafkaWrites + 1
    /\ pc' = [pc EXCEPT ![b] = "publish"]
    /\ seen' = [seen EXCEPT ![b] = FALSE]
    /\ UNCHANGED <<spooling, queueWrites, replayPaused, kafkaOK, queueOK>>
    /\ UNCHANGED <<topicCompliant, queueVars, replayVars, kafka, crashes>>

\* Publish without error: every record of the batch is confirmed.
PublishOK(b) ==
    /\ pc[b] = "publish"
    /\ kafka' = kafka \cup RecordsOf(b)
    /\ pc' = [pc EXCEPT ![b] = "complete"]
    /\ UNCHANGED <<stateVars, topicCompliant, queueVars, seen, replayVars, crashes>>

\* Publish with an error: some records, none, or (the answer was lost) all of
\* them are in Kafka.
PublishError(b) ==
    /\ pc[b] = "publish"
    /\ \E landed \in SUBSET RecordsOf(b) : kafka' = kafka \cup landed
    /\ pc' = [pc EXCEPT ![b] = "fail"]
    /\ UNCHANGED <<stateVars, topicCompliant, queueVars, seen, replayVars, crashes>>

\* Mutant: the finished write is never taken out of the count.
CompleteKafkaWriteUncounted(b) ==
    /\ pc[b] = "complete"
    /\ kafkaOK' = (kafkaOK \/ ~spooling)
    /\ pc' = [pc EXCEPT ![b] = "accepted"]
    /\ UNCHANGED <<spooling, kafkaWrites, queueWrites, replayPaused, queueOK, seen>>
    /\ UNCHANGED <<topicCompliant, queueVars, replayVars, kafka, crashes>>

\* completeKafkaWrite; Write returns nil.
CompleteKafkaWrite(b) ==
    /\ pc[b] = "complete"
    /\ kafkaWrites' = kafkaWrites - 1
    /\ kafkaOK' = (kafkaOK \/ ~spooling)
    /\ pc' = [pc EXCEPT ![b] = "accepted"]
    /\ UNCHANGED <<spooling, queueWrites, replayPaused, queueOK, seen>>
    /\ UNCHANGED <<topicCompliant, queueVars, replayVars, kafka, crashes>>

\* failKafkaWrite: one critical section ends the Kafka write, raises the
\* barrier and reserves the disk queue write of the same batch.
FailKafkaWrite(b) ==
    /\ pc[b] = "fail"
    /\ kafkaWrites' = kafkaWrites - 1
    /\ kafkaOK' = FALSE
    /\ spooling' = TRUE
    /\ queueWrites' = queueWrites + 1
    /\ pc' = [pc EXCEPT ![b] = "append"]
    /\ UNCHANGED <<replayPaused, queueOK, seen>>
    /\ UNCHANGED <<topicCompliant, queueVars, replayVars, kafka, crashes>>

\* Queue.Write under Queue.mu: the entry is appended, then counted.
AppendOK(b) ==
    /\ pc[b] = "append"
    /\ log' = Append(log, b)
    /\ pending' = pending + 1
    /\ pc' = [pc EXCEPT ![b] = "finishOK"]
    /\ UNCHANGED <<stateVars, topicCompliant, seen, replayVars, kafka, crashes>>

\* Mutant: a refusal returns before finishQueueWrite.
AppendRefusedUnfinished(b) ==
    /\ pc[b] = "append"
    /\ pc' = [pc EXCEPT ![b] = "rejected"]
    /\ UNCHANGED <<stateVars, topicCompliant, queueVars, seen, replayVars, kafka, crashes>>

\* Queue.Write refuses the batch: no capacity, or not storable as one entry.
AppendRefused(b) ==
    /\ pc[b] = "append"
    /\ pc' = [pc EXCEPT ![b] = "finishRefused"]
    /\ UNCHANGED <<stateVars, topicCompliant, queueVars, seen, replayVars, kafka, crashes>>

\* Queue.Write fails with a storage error.  wal.Write appends and then syncs;
\* when the sync is what failed, the entry is in the log but not counted.
AppendError(b) ==
    /\ pc[b] = "append"
    /\ \/ UNCHANGED log
       \/ SyncErrorKeepsEntry /\ log' = Append(log, b)
    /\ pc' = [pc EXCEPT ![b] = "finishError"]
    /\ UNCHANGED <<stateVars, topicCompliant, pending, seen, replayVars, kafka, crashes>>

\* finishQueueWrite; a refusal is not a storage fault.
FinishQueueWrite(b) ==
    /\ pc[b] \in {"finishOK", "finishRefused", "finishError"}
    /\ queueWrites' = queueWrites - 1
    /\ queueOK' = (pc[b] # "finishError")
    /\ pc' = [pc EXCEPT ![b] = IF pc[b] = "finishOK" THEN "accepted" ELSE "rejected"]
    /\ UNCHANGED <<spooling, kafkaWrites, replayPaused, kafkaOK, seen>>
    /\ UNCHANGED <<topicCompliant, queueVars, replayVars, kafka, crashes>>

WriterStep(b) ==
    \/ ReserveQueue(b) \/ ReserveKafka(b)
    \/ PublishOK(b) \/ PublishError(b)
    \/ CompleteKafkaWrite(b) \/ FailKafkaWrite(b)
    \/ AppendOK(b) \/ AppendRefused(b) \/ AppendError(b)
    \/ FinishQueueWrite(b)

-----------------------------------------------------------------------------
(* The replayer: PrepareReplay, then ReplayBatch, in one loop.  The wait     *)
(* between rounds is the time the loop spends in "prepare".                  *)

\* PrepareReplay and ReplayBatch both end at once on a non-compliant topic.
ReplayNoncompliant ==
    /\ rpc \in {"prepare", "batch"}
    /\ ~topicCompliant
    /\ spooling' = TRUE
    /\ rpc' = "prepare"
    /\ UNCHANGED <<kafkaWrites, queueWrites, replayPaused, kafkaOK, queueOK>>
    /\ UNCHANGED <<topicCompliant, queueVars, writerVars, rcount, rseen, kafka, crashes>>

ReplayCompliant ==
    /\ rpc \in {"prepare", "batch"}
    /\ topicCompliant
    /\ rpc' = IF rpc = "prepare" THEN "pending" ELSE "read"
    /\ UNCHANGED <<stateVars, topicCompliant, queueVars, writerVars, rcount, rseen, kafka, crashes>>

\* PrepareReplay found a backlog.
PendingSome ==
    /\ rpc = "pending"
    /\ pending > 0
    /\ rpc' = "batch"
    /\ UNCHANGED <<stateVars, topicCompliant, queueVars, writerVars, rcount, rseen, kafka, crashes>>

\* No backlog (PrepareReplay), or an empty log (ErrQueueEmpty): the queue is
\* marked healthy and direct writes may resume.
NothingToReplay ==
    /\ \/ rpc = "pending" /\ pending = 0
       \/ rpc = "read" /\ log = <<>>
    /\ queueOK' = TRUE
    /\ rpc' = "settled"
    /\ UNCHANGED <<spooling, kafkaWrites, queueWrites, replayPaused, kafkaOK>>
    /\ UNCHANGED <<topicCompliant, queueVars, writerVars, rcount, rseen, kafka, crashes>>

\* Queue.Read: whole entries from the head, without removing them.
ReadHead ==
    /\ rpc = "read"
    /\ log # <<>>
    /\ rcount' = IF Len(log) < ReplayEntries THEN Len(log) ELSE ReplayEntries
    /\ rpc' = "publish"
    /\ UNCHANGED <<stateVars, topicCompliant, queueVars, writerVars, rseen, kafka, crashes>>

\* Mutant: an unreadable head ends the loop.
ReadErrorStops ==
    /\ rpc = "read"
    /\ queueOK' = FALSE
    /\ rpc' = "stopped"
    /\ UNCHANGED <<spooling, kafkaWrites, queueWrites, replayPaused, kafkaOK>>
    /\ UNCHANGED <<topicCompliant, queueVars, writerVars, rcount, rseen, kafka, crashes>>

ReadError ==
    /\ rpc = "read"
    /\ queueOK' = FALSE
    /\ rpc' = "prepare"
    /\ UNCHANGED <<spooling, kafkaWrites, queueWrites, replayPaused, kafkaOK>>
    /\ UNCHANGED <<topicCompliant, queueVars, writerVars, rcount, rseen, kafka, crashes>>

\* The whole batch is confirmed; replaySucceeded.
ReplayPublishOK ==
    /\ rpc = "publish"
    /\ kafka' = kafka \cup HeldRecords
    /\ kafkaOK' = TRUE
    /\ rpc' = "commit"
    /\ UNCHANGED <<spooling, kafkaWrites, queueWrites, replayPaused, queueOK>>
    /\ UNCHANGED <<topicCompliant, queueVars, writerVars, rcount, rseen, crashes>>

\* Mutant: a partly published batch is committed.
ReplayPublishErrorIgnored(permanent) ==
    /\ rpc = "publish"
    /\ \E landed \in SUBSET HeldRecords : kafka' = kafka \cup landed
    /\ rpc' = "commit"
    /\ UNCHANGED <<stateVars, topicCompliant, queueVars, writerVars, rcount, rseen, crashes>>

\* Mutant: the loop goes on after a permanent error.
ReplayPublishErrorGoesOn(permanent) ==
    /\ rpc = "publish"
    /\ \E landed \in SUBSET HeldRecords : kafka' = kafka \cup landed
    /\ kafkaOK' = FALSE
    /\ spooling' = TRUE
    /\ replayPaused' = (replayPaused \/ permanent)
    /\ rpc' = "prepare"
    /\ rcount' = 0
    /\ UNCHANGED <<kafkaWrites, queueWrites, queueOK>>
    /\ UNCHANGED <<topicCompliant, queueVars, writerVars, rseen, crashes>>

\* replayFailed: part of the batch may be in Kafka, nothing leaves the log.  A
\* permanent error stops the loop until the process restarts.
ReplayPublishError(permanent) ==
    /\ rpc = "publish"
    /\ \E landed \in SUBSET HeldRecords : kafka' = kafka \cup landed
    /\ kafkaOK' = FALSE
    /\ spooling' = TRUE
    /\ replayPaused' = (replayPaused \/ permanent)
    /\ rpc' = IF permanent THEN "stopped" ELSE "prepare"
    /\ rcount' = 0
    /\ UNCHANGED <<kafkaWrites, queueWrites, queueOK>>
    /\ UNCHANGED <<topicCompliant, queueVars, writerVars, rseen, crashes>>

\* Mutant: the truncation index is one too far.
CommitOneTooMany ==
    /\ rpc = "commit"
    /\ rcount <= pending
    /\ log' = SubSeq(log, rcount + 2, Len(log))
    /\ pending' = Len(log')
    /\ rcount' = 0
    /\ queueOK' = TRUE
    /\ rpc' = "settled"
    /\ UNCHANGED <<spooling, kafkaWrites, queueWrites, replayPaused, kafkaOK>>
    /\ UNCHANGED <<topicCompliant, writerVars, rseen, kafka, crashes>>

\* Queue.Commit under Queue.mu, then queueSucceeded.
CommitOK ==
    /\ rpc = "commit"
    /\ rcount <= pending
    /\ log' = SubSeq(log, rcount + 1, Len(log))
    /\ pending' = pending - rcount
    /\ rcount' = 0
    /\ queueOK' = TRUE
    /\ rpc' = "settled"
    /\ UNCHANGED <<spooling, kafkaWrites, queueWrites, replayPaused, kafkaOK>>
    /\ UNCHANGED <<topicCompliant, writerVars, rseen, kafka, crashes>>

\* Queue.Commit fails: a storage error, or a count that does not fit (which
\* CommitOK excludes).  The entries stay and will be published again.
CommitError ==
    /\ rpc = "commit"
    /\ rcount' = 0
    /\ queueOK' = FALSE
    /\ rpc' = "prepare"
    /\ UNCHANGED <<spooling, kafkaWrites, queueWrites, replayPaused, kafkaOK>>
    /\ UNCHANGED <<topicCompliant, queueVars, writerVars, rseen, kafka, crashes>>

\* Recorder.resumeKafkaWrites reads the topic verdict before the state lock ...
ReadTopic ==
    /\ rpc = "settled"
    /\ rseen' = topicCompliant
    /\ rpc' = "resume"
    /\ UNCHANGED <<stateVars, topicCompliant, queueVars, writerVars, rcount, kafka, crashes>>

\* Mutants: recovery looks at the queue only, or at the calls only.
ResumeIgnoringCalls == rseen /\ ~replayPaused /\ pending = 0
ResumeIgnoringBacklog == rseen /\ kafkaWrites = 0 /\ queueWrites = 0 /\ ~replayPaused

\* ... and recorderState.resumeKafkaWrites decides under it, the pending count
\* read inside the critical section.
ResumeAllowed ==
    /\ rseen
    /\ kafkaWrites = 0
    /\ queueWrites = 0
    /\ ~replayPaused
    /\ pending = 0

ResumeKafkaWrites ==
    /\ rpc = "resume"
    /\ spooling' = (spooling /\ ~ResumeAllowed)
    /\ rseen' = FALSE
    /\ rpc' = "prepare"
    /\ UNCHANGED <<kafkaWrites, queueWrites, replayPaused, kafkaOK, queueOK>>
    /\ UNCHANGED <<topicCompliant, queueVars, writerVars, rcount, kafka, crashes>>

ReplayerStep ==
    \/ ReplayNoncompliant \/ ReplayCompliant
    \/ PendingSome \/ NothingToReplay
    \/ ReadHead \/ ReadError
    \/ ReplayPublishOK \/ \E permanent \in BOOLEAN : ReplayPublishError(permanent)
    \/ CommitOK \/ CommitError
    \/ ReadTopic \/ ResumeKafkaWrites

-----------------------------------------------------------------------------
(* The topic monitor and the process.                                       *)

\* TopicMonitor.refresh with a decisive answer; a failed check changes nothing.
RefreshTopic(compliant) ==
    /\ topicCompliant' = compliant
    /\ UNCHANGED <<stateVars, queueVars, writerVars, replayVars, kafka, crashes>>

\* Mutant: the new process ignores the backlog.
CrashOpen ==
    /\ crashes < MaxCrashes
    /\ crashes' = crashes + 1
    /\ pc' = [b \in Batches |-> IF pc[b] \in {"idle"} \cup Ended THEN pc[b] ELSE "lost"]
    /\ seen' = [b \in Batches |-> FALSE]
    /\ spooling' = FALSE
    /\ kafkaWrites' = 0
    /\ queueWrites' = 0
    /\ replayPaused' = FALSE
    /\ kafkaOK' = FALSE
    /\ queueOK' = TRUE
    /\ topicCompliant' \in BOOLEAN
    /\ pending' = Len(log)
    /\ rpc' = "prepare"
    /\ rcount' = 0
    /\ rseen' = FALSE
    /\ UNCHANGED <<log, kafka>>

\* Mutant: the scan at startup counts nothing.
CrashUncounted ==
    /\ crashes < MaxCrashes
    /\ crashes' = crashes + 1
    /\ pc' = [b \in Batches |-> IF pc[b] \in {"idle"} \cup Ended THEN pc[b] ELSE "lost"]
    /\ seen' = [b \in Batches |-> FALSE]
    /\ spooling' = (log # <<>>)
    /\ kafkaWrites' = 0
    /\ queueWrites' = 0
    /\ replayPaused' = FALSE
    /\ kafkaOK' = FALSE
    /\ queueOK' = TRUE
    /\ topicCompliant' \in BOOLEAN
    /\ pending' = 0
    /\ rpc' = "prepare"
    /\ rcount' = 0
    /\ rseen' = FALSE
    /\ UNCHANGED <<log, kafka>>

\* The process dies and starts again.  Calls in flight are gone (Envoy does not
\* resend a batch); the log is scanned, and a backlog starts the new process
\* behind the barrier.
Crash ==
    /\ crashes < MaxCrashes
    /\ crashes' = crashes + 1
    /\ pc' = [b \in Batches |-> IF pc[b] \in {"idle"} \cup Ended THEN pc[b] ELSE "lost"]
    /\ seen' = [b \in Batches |-> FALSE]
    /\ spooling' = (log # <<>>)
    /\ kafkaWrites' = 0
    /\ queueWrites' = 0
    /\ replayPaused' = FALSE
    /\ kafkaOK' = FALSE
    /\ queueOK' = TRUE
    /\ topicCompliant' \in BOOLEAN
    /\ pending' = Len(log)
    /\ rpc' = "prepare"
    /\ rcount' = 0
    /\ rseen' = FALSE
    /\ UNCHANGED <<log, kafka>>

Next ==
    \/ \E b \in Batches : Begin(b) \/ WriterStep(b)
    \/ ReplayerStep
    \/ \E compliant \in BOOLEAN : RefreshTopic(compliant)
    \/ Crash

Spec == Init /\ [][Next]_vars

\* Fairness.  Every call of Write moves on (Publish ends with its delivery
\* timeout, Finish follows); the replayer is one running goroutine.  Kafka, the
\* disk and the contract check fail as often as they like, not for ever: an
\* attempt made again and again succeeds again and again.
Fairness ==
    /\ \A b \in Batches : WF_vars(WriterStep(b))
    /\ WF_vars(ReplayerStep)
    /\ SF_vars(ReadHead)
    /\ SF_vars(ReplayPublishOK)
    /\ SF_vars(CommitOK)

\* The topic ends up compliant for good.
TopicRecovers == <>[]topicCompliant

LiveSpec == Spec /\ Fairness /\ TopicRecovers

-----------------------------------------------------------------------------
(* Safety.                                                                  *)

\* The in-flight counters that guard recovery count the calls really in flight,
\* through every failure path and across a restart: a counter one too low
\* reopens direct writes early, one too high never (recorder_state.go).
CountersMatchCalls ==
    /\ kafkaWrites = Cardinality(InPhase(pc, KafkaPhase))
    /\ queueWrites = Cardinality(InPhase(pc, QueuePhase))

\* Direct Kafka writes are admitted only while the log is empty and no call is
\* on its way into it, including one that failed at Kafka a moment ago.
DirectOnlyWhenDrained ==
    ~spooling => log = <<>> /\ \A b \in Batches : pc[b] \notin QueuePhase

\* A new record never bypasses an older one: when direct writes are admitted,
\* everything the recorder has accepted is already in Kafka (NewRecorder).
NoBypass ==
    ~spooling => \A b \in Batches : pc[b] = "accepted" => InKafka(b)

\* An accepted batch is in Kafka in full or in the log, whatever crashed, was
\* partially published or was lost since (the at-least-once promise of Recorder).
AcceptedDurable ==
    \A b \in Batches : pc[b] = "accepted" =>
        InKafka(b) \/ \E i \in 1 .. Len(log) : log[i] = b

\* What the replayer published it can also commit: it never holds more entries
\* than the log has and the published count knows of, however many writers
\* appended meanwhile.  Otherwise Commit refuses the batch for ever and every
\* round publishes it again.
CommitFits ==
    rpc \in {"publish", "commit"} => 1 <= rcount /\ rcount <= Len(log) /\ rcount <= pending

\* An entry leaves the log only when all of its records are in Kafka.
DropOnlyDelivered ==
    [][\A i \in 1 .. Len(log) :
          (\A j \in 1 .. Len(log') : log'[j] # log[i]) => InKafka(log[i])]_vars

\* A permanent replay error keeps the barrier up until the process restarts: no
\* later success, empty queue or topic check lowers it behind the bad entry.
PausedUntilRestart ==
    [][replayPaused => crashes' # crashes \/ (replayPaused' /\ spooling' /\ Len(log') >= Len(log))]_vars

-----------------------------------------------------------------------------
(* Liveness.                                                                *)

\* Every accepted batch reaches Kafka unless a permanent error stopped replay.
AcceptedReachesKafka ==
    \A b \in Batches : pc[b] = "accepted" ~> (InKafka(b) \/ replayPaused)

\* The barrier comes down again once the outage is over and arrivals pause.
BarrierComesDown == spooling ~> (~spooling \/ replayPaused)

-----------------------------------------------------------------------------
(* What the component promises, in AtLeastOnce.                             *)

Promise == INSTANCE AtLeastOnce WITH
    accepted <- {b \in Batches : pc[b] = "accepted"},
    stored <- {log[i] : i \in 1 .. Len(log)},
    delivered <- kafka,
    buffering <- spooling

\* Every step of the recorder is a step of the promise, or none.
ImplementsPromise == Promise!Spec

=============================================================================
