------------------------ MODULE RequestConsumerProofs ------------------------
(***************************************************************************)
(* Proofs about RequestConsumer, for any records, partitions, replicas,      *)
(* deduplication windows and faults: the types, that committed offsets only  *)
(* grow and stand over stored records only, that a stored model request has  *)
(* its model call, and that ClickHouse is never more than one poll ahead of  *)
(* the committed offsets.                                                  *)
(***************************************************************************)
EXTENDS RequestConsumer, SumLemmas, SequenceTheorems, TLAPS

\* A message that needs nothing more from ClickHouse.
Complete(r) ==
    /\ Stored("request_records", r)
    /\ r \in ModelCalls => Stored("model_calls", r)

\* Who has a partition reads between the committed offset and its end, and
\* between two rounds has committed what it read.
Positions ==
    /\ \A p \in Partitions : committed[p] <= Len(topic[p])
    /\ \A c \in Consumers, p \in Partitions : owner[p] = c =>
        /\ committed[p] <= pos[c][p] /\ pos[c][p] <= Len(topic[p])
        /\ pc[c] # "down"
        /\ pc[c] = "poll" => pos[c][p] = committed[p]

\* What a token, a finished insert, a later insert or an abandoned one says
\* of the tables.
Tokens == \A t \in Tables, r \in Records : Contains(tokens[t], r) => Stored(t, r)

Stages ==
    \A c \in Consumers, r \in Records :
        /\ insert[c][r] = "done" => Complete(r)
        /\ insert[c][r] = "request_records" /\ r \in ModelCalls => Stored("model_calls", r)

LateStages ==
    \A r \in ModelCalls : <<"request_records", r>> \in late => Stored("model_calls", r)

\* Between the committed offset and the position of the owner are the
\* messages of its poll: being written, or stored once it commits.
Polls ==
    \A c \in Consumers, p \in Partitions : owner[p] = c =>
        \A i \in committed[p] + 1 .. pos[c][p] : topic[p][i] \notin Invalid =>
            /\ pc[c] = "save" => insert[c][topic[p][i]] # "none"
            /\ pc[c] = "commit" => Complete(topic[p][i])

Committed ==
    \A p \in Partitions : \A i \in 1 .. committed[p] :
        topic[p][i] \notin Invalid => Complete(topic[p][i])

Rows == Tokens /\ Stages /\ LateStages /\ NoBareRequest

IInv == TypeOK /\ Positions /\ Rows /\ Polls /\ Committed

-----------------------------------------------------------------------------
(* ClickHouse.                                                              *)

\* An insert keeps the types of the tables, whatever it finds.
LEMMA InsertedType ==
    ASSUME TypeOK, NEW t \in Tables, NEW r \in Records, Inserted(t, r)
    PROVE  /\ tokens' \in [Tables -> Seq(Records)]
           /\ counted' \in [Tables -> [Records -> 0 .. 2]]
<1>1. Logged(t, r) \in Seq(Records)
  <2>0. tokens[t] \in Seq(Records)
    BY DEF TypeOK
  <2>1. Append(tokens[t], r) \in Seq(Records) /\ Len(Append(tokens[t], r)) = Len(tokens[t]) + 1
    BY <2>0
  <2>2. Append(tokens[t], r) # <<>>
    BY <2>0
  <2>3. Tail(Append(tokens[t], r)) \in Seq(Records)
    BY <2>1, <2>2
  <2> QED BY <2>1, <2>3 DEF Logged
<1>2. tokens' \in [Tables -> Seq(Records)]
  BY <1>1 DEF Inserted, TypeOK
<1>3. counted' \in [Tables -> [Records -> 0 .. 2]]
  <2>1. CASE UNCHANGED counted
    BY <2>1 DEF TypeOK
  <2>2. CASE counted' = [counted EXCEPT ![t][r] = IF @ = 0 THEN 1 ELSE 2]
    <3>1. (IF counted[t][r] = 0 THEN 1 ELSE 2) \in 0 .. 2
      OBVIOUS
    <3> QED BY <2>2, <3>1 DEF TypeOK
  <2> QED BY <2>1, <2>2 DEF Inserted
<1> QED BY <1>2, <1>3

\* After an insert its row is there, no row is gone, no other row came, and
\* the tokens are those of stored rows still.
LEMMA InsertedStores ==
    ASSUME TypeOK, Tokens, NEW t \in Tables, NEW r \in Records, Inserted(t, r)
    PROVE  /\ Stored(t, r)'
           /\ \A u \in Tables, q \in Records : Stored(u, q) => Stored(u, q)'
           /\ \A u \in Tables, q \in Records : Stored(u, q)' => Stored(u, q) \/ (u = t /\ q = r)
           /\ Tokens'
<1>1. CASE Contains(tokens[t], r)
  BY <1>1 DEF Inserted, Tokens, Stored
<1>2. CASE ~ Contains(tokens[t], r)
  <2>1. /\ tokens' = [tokens EXCEPT ![t] = Logged(t, r)]
        /\ counted' = [counted EXCEPT ![t][r] = IF @ = 0 THEN 1 ELSE 2]
    BY <1>2 DEF Inserted
  <2>2. /\ Stored(t, r)'
        /\ \A u \in Tables, q \in Records : Stored(u, q) => Stored(u, q)'
        /\ \A u \in Tables, q \in Records : Stored(u, q)' => Stored(u, q) \/ (u = t /\ q = r)
    BY <2>1 DEF TypeOK, Stored
  <2>3. ASSUME NEW q \in Records, Contains(Logged(t, r), q)
        PROVE  Contains(tokens[t], q) \/ q = r
    <3> DEFINE log == Append(tokens[t], r)
    <3>1. tokens[t] \in Seq(Records)
      BY DEF TypeOK
    <3>2. /\ log \in Seq(Records) /\ log # <<>> /\ Len(log) = Len(tokens[t]) + 1
          /\ \A i \in 1 .. Len(log) : log[i] = IF i <= Len(tokens[t]) THEN tokens[t][i] ELSE r
      BY <3>1, AppendProperties
    <3>3. \A i \in 1 .. Len(Tail(log)) : Tail(log)[i] = log[i + 1] /\ i + 1 \in 1 .. Len(log)
      BY <3>2
    <3>4. PICK i \in 1 .. Len(log) : log[i] = q
      <4>1. CASE Len(log) > Window
        BY <4>1, <2>3, <3>3 DEF Logged, Contains
      <4>2. CASE ~ (Len(log) > Window)
        BY <4>2, <2>3 DEF Logged, Contains
      <4> QED BY <4>1, <4>2
    <3>5. CASE i <= Len(tokens[t])
      BY <3>1, <3>2, <3>4, <3>5 DEF Contains
    <3>6. CASE ~ (i <= Len(tokens[t]))
      BY <3>2, <3>4, <3>6
    <3> QED BY <3>5, <3>6
  <2>4. Tokens'
    <3> SUFFICES ASSUME NEW u \in Tables, NEW q \in Records, Contains(tokens'[u], q)
                 PROVE  Stored(u, q)'
      BY DEF Tokens
    <3>1. CASE u = t
      BY <3>1, <2>1, <2>2, <2>3 DEF TypeOK, Tokens
    <3>2. CASE u # t
      BY <3>2, <2>1, <2>2 DEF TypeOK, Tokens
    <3> QED BY <3>1, <3>2
  <2> QED BY <2>2, <2>4
<1> QED BY <1>1, <1>2

-----------------------------------------------------------------------------
(* Types.                                                                   *)

\* What a member leaves behind when it ends has the types.
LEMMA EndsType ==
    ASSUME TypeOK, NEW c \in Consumers, Ends(c)
    PROVE  /\ owner' \in [Partitions -> Consumers \cup {None}]
           /\ pc' \in [Consumers -> {"down", "poll", "save", "commit"}]
           /\ insert' \in [Consumers -> [Records -> Tables \cup {"none", "waiting", "done"}]]
           /\ late' \subseteq Tables \X Records
<1>1. owner' \in [Partitions -> Consumers \cup {None}]
  BY DEF Ends, Disowned, TypeOK
<1>2. pc' \in [Consumers -> {"down", "poll", "save", "commit"}]
  BY DEF Ends, TypeOK
<1>3. insert' \in [Consumers -> [Records -> Tables \cup {"none", "waiting", "done"}]]
  BY DEF Ends, TypeOK
<1>4. late' \subseteq Tables \X Records
  BY DEF Ends, Abandon, Sent, TypeOK
<1> QED BY <1>1, <1>2, <1>3, <1>4

\* Every step keeps the types.
LEMMA TypeNext == TypeOK /\ [Next]_vars => TypeOK'
<1> SUFFICES ASSUME TypeOK, [Next]_vars PROVE TypeOK'
  OBVIOUS
<1> USE SizeAssumption, RecordAssumption DEF kafkaVars, memberVars, storeVars
<1>0. CASE UNCHANGED vars
  BY <1>0 DEF TypeOK, vars
<1>1. ASSUME NEW r \in Records, Publish(r) PROVE TypeOK'
  <2>1. Append(topic[PartitionOf[r]], r) \in Seq(Records)
    BY DEF TypeOK
  <2> QED BY <1>1, <2>1 DEF Publish, TypeOK
<1>2. ASSUME NEW t \in Tables, NEW r \in Records, Land(t, r) PROVE TypeOK'
  BY <1>2, InsertedType DEF Land, TypeOK
<1>3. ASSUME NEW c \in Consumers, NEW p \in Partitions, Assign(c, p) PROVE TypeOK'
  BY <1>3 DEF Assign, TypeOK
<1>4. ASSUME NEW c \in Consumers, NEW p \in Partitions, Revoke(c, p) PROVE TypeOK'
  BY SMTT(30), <1>4 DEF Revoke, Fault, TypeOK
<1>5. ASSUME NEW c \in Consumers, PutOut(c) PROVE TypeOK'
  BY SMTT(30), <1>5 DEF PutOut, Fault, Disowned, TypeOK
<1>6. ASSUME NEW c \in Consumers, PollRecords(c) PROVE TypeOK'
  <2>1. PICK upto \in [Owned(c) -> 0 .. MaxMessages] :
            /\ pos' = [pos EXCEPT ![c] =
                          [p \in Partitions |-> IF p \in Owned(c) THEN upto[p] ELSE @[p]]]
            /\ insert' = [insert EXCEPT ![c] =
                             [r \in Records |-> IF r \in Decoded(Batch(c, upto))
                                                THEN "waiting" ELSE "none"]]
    BY <1>6 DEF PollRecords, Reads
  <2>2. pos' \in [Consumers -> [Partitions -> Nat]]
    BY <2>1 DEF TypeOK, Owned
  <2>3. insert' \in [Consumers -> [Records -> Tables \cup {"none", "waiting", "done"}]]
    BY <2>1 DEF TypeOK
  <2> QED BY <1>6, <2>2, <2>3 DEF PollRecords, TypeOK
<1>7. ASSUME NEW c \in Consumers, NEW r \in Records, StartInsert(c, r) PROVE TypeOK'
  BY <1>7 DEF StartInsert, FirstTable, Tables, TypeOK
<1>8. ASSUME NEW c \in Consumers, NEW r \in Records, InsertOK(c, r) PROVE TypeOK'
  <2>1. insert[c][r] \in Tables
    BY <1>8 DEF InsertOK, Sent
  <2>2. Inserted(insert[c][r], r)
    BY <1>8 DEF InsertOK
  <2>3. /\ tokens' \in [Tables -> Seq(Records)]
        /\ counted' \in [Tables -> [Records -> 0 .. 2]]
    BY <2>1, <2>2, InsertedType
  <2> QED BY <1>8, <2>3 DEF InsertOK, NextStage, Tables, TypeOK
<1>9. ASSUME NEW c \in Consumers, SaveFails(c) PROVE TypeOK'
  <2>1. Ends(c) /\ UNCHANGED committed /\ faults' \in 0 .. MaxFaults
    BY <1>9 DEF SaveFails, Fault, TypeOK
  <2> QED BY <2>1, EndsType DEF Ends, TypeOK
<1>10. ASSUME NEW c \in Consumers, SaveOK(c) PROVE TypeOK'
  BY <1>10 DEF SaveOK, TypeOK
<1>11. ASSUME NEW c \in Consumers, CommitOK(c) PROVE TypeOK'
  BY <1>11 DEF CommitOK, Uncommitted, TypeOK
<1>12. ASSUME NEW c \in Consumers, CommitUnanswered(c) PROVE TypeOK'
  <2>1. committed' \in [Partitions -> Nat]
    BY <1>12 DEF CommitUnanswered, Uncommitted, TypeOK
  <2>2. Ends(c) /\ faults' \in 0 .. MaxFaults
    BY <1>12 DEF CommitUnanswered, Fault, TypeOK
  <2> QED BY <2>1, <2>2, EndsType DEF Ends, TypeOK
<1>13. ASSUME NEW c \in Consumers, CommitFails(c) PROVE TypeOK'
  <2>1. Ends(c) /\ UNCHANGED committed /\ faults' \in 0 .. MaxFaults
    BY <1>13 DEF CommitFails, Fault, TypeOK
  <2> QED BY <2>1, EndsType DEF Ends, TypeOK
<1>14. ASSUME NEW c \in Consumers, Crash(c) PROVE TypeOK'
  <2>1. Ends(c) /\ UNCHANGED committed /\ faults' \in 0 .. MaxFaults
    BY <1>14 DEF Crash, Fault, TypeOK
  <2> QED BY <2>1, EndsType DEF Ends, TypeOK
<1>15. ASSUME NEW c \in Consumers, Restart(c) PROVE TypeOK'
  BY <1>15 DEF Restart, TypeOK
<1> QED
  BY <1>0, <1>1, <1>2, <1>3, <1>4, <1>5, <1>6, <1>7, <1>8, <1>9, <1>10, <1>11, <1>12,
     <1>13, <1>14, <1>15 DEF Next

-----------------------------------------------------------------------------
(* Offsets.                                                                 *)

\* Where a member may read on, whatever the group does to it.
LEMMA PositionsNext == TypeOK /\ Positions /\ [Next]_vars => Positions'
<1> SUFFICES ASSUME TypeOK, Positions, [Next]_vars PROVE Positions'
  OBVIOUS
<1> USE SizeAssumption, RecordAssumption, ConsumerAssumption
    DEF kafkaVars, memberVars, storeVars
<1>0. CASE UNCHANGED vars
  BY <1>0 DEF Positions, vars
<1>1. ASSUME NEW r \in Records, Publish(r) PROVE Positions'
  <2>1. \A p \in Partitions : topic[p] \in Seq(Records) /\ Len(topic[p]) <= Len(topic'[p])
    BY <1>1 DEF Publish, TypeOK
  <2>2. \A p \in Partitions : Len(topic[p]) \in Nat /\ Len(topic'[p]) \in Nat
    BY <1>1 DEF Publish, TypeOK
  <2>3. UNCHANGED <<committed, owner, pc, pos>>
    BY <1>1 DEF Publish
  <2>4. \A p \in Partitions : committed'[p] <= Len(topic'[p])
    BY <2>1, <2>2, <2>3 DEF Positions, TypeOK
  <2>5. ASSUME NEW c \in Consumers, NEW p \in Partitions, owner'[p] = c
        PROVE  pos'[c][p] <= Len(topic'[p])
    <3>1. pos[c][p] \in Nat /\ pos[c][p] <= Len(topic[p])
      BY <2>3, <2>5 DEF Positions, TypeOK
    <3> QED BY <2>1, <2>2, <2>3, <3>1
  <2> QED BY <2>3, <2>4, <2>5 DEF Positions
<1>2. ASSUME NEW t \in Tables, NEW r \in Records, Land(t, r) PROVE Positions'
  BY <1>2 DEF Land, Positions
<1>3. ASSUME NEW c \in Consumers, NEW p \in Partitions, Assign(c, p) PROVE Positions'
  BY SMTT(30), <1>3 DEF Assign, Positions, TypeOK
<1>4. ASSUME NEW c \in Consumers, NEW p \in Partitions, Revoke(c, p) PROVE Positions'
  BY <1>4 DEF Revoke, Positions, TypeOK
<1>5. ASSUME NEW c \in Consumers, PutOut(c) PROVE Positions'
  BY <1>5 DEF PutOut, Disowned, Positions, TypeOK
<1>6. ASSUME NEW c \in Consumers, PollRecords(c) PROVE Positions'
  <2>1. PICK upto \in Reads(c) :
            /\ \A p \in Owned(c) : upto[p] \in pos[c][p] .. Len(topic[p])
            /\ pos' = [pos EXCEPT ![c] =
                          [p \in Partitions |-> IF p \in Owned(c) THEN upto[p] ELSE @[p]]]
    BY <1>6 DEF PollRecords
  <2>2. \A p \in Partitions : owner[p] = c => pos[c][p] <= pos'[c][p] /\ pos'[c][p] <= Len(topic[p])
    BY <2>1 DEF Owned, TypeOK
  <2>3. \A b \in Consumers, p \in Partitions : b # c => pos'[b][p] = pos[b][p]
    BY <2>1 DEF TypeOK
  <2>4. \A b \in Consumers, p \in Partitions : owner[p] = b =>
            committed[p] <= pos'[b][p] /\ pos'[b][p] <= Len(topic[p])
    <3> SUFFICES ASSUME NEW b \in Consumers, NEW p \in Partitions, owner[p] = b
                 PROVE  committed[p] <= pos'[b][p] /\ pos'[b][p] <= Len(topic[p])
      OBVIOUS
    <3>1. committed[p] <= pos[b][p] /\ pos[b][p] <= Len(topic[p])
      BY DEF Positions
    <3>2. CASE b = c
      <4>1. pos[c][p] \in Nat /\ committed[p] \in Nat /\ pos'[c][p] \in Nat
        BY <2>1, <3>2 DEF Owned, TypeOK
      <4> QED BY <2>2, <3>1, <3>2, <4>1
    <3>3. CASE b # c
      BY <2>3, <3>1, <3>3
    <3> QED BY <3>2, <3>3
  <2> QED BY <1>6, <2>3, <2>4 DEF PollRecords, Positions, TypeOK
<1>7. ASSUME NEW c \in Consumers, NEW r \in Records, StartInsert(c, r) PROVE Positions'
  BY <1>7 DEF StartInsert, Positions
<1>8. ASSUME NEW c \in Consumers, NEW r \in Records, InsertOK(c, r) PROVE Positions'
  BY <1>8 DEF InsertOK, Positions
<1>9. ASSUME NEW c \in Consumers, Ends(c), UNCHANGED committed PROVE Positions'
  BY <1>9 DEF Ends, Disowned, Positions, TypeOK
<1>10. ASSUME NEW c \in Consumers, SaveOK(c) PROVE Positions'
  BY <1>10 DEF SaveOK, Positions, TypeOK
<1>11. ASSUME NEW c \in Consumers, CommitOK(c) PROVE Positions'
  BY SMTT(30), <1>11 DEF CommitOK, Uncommitted, Owned, Positions, TypeOK
<1>12. ASSUME NEW c \in Consumers, CommitUnanswered(c) PROVE Positions'
  BY <1>12 DEF CommitUnanswered, Uncommitted, Owned, Ends, Disowned, Positions, TypeOK
<1>13. ASSUME NEW c \in Consumers, Restart(c) PROVE Positions'
  BY <1>13 DEF Restart, Positions, TypeOK
<1>14. ASSUME NEW c \in Consumers, SaveFails(c) \/ CommitFails(c) \/ Crash(c)
       PROVE  Ends(c) /\ UNCHANGED committed
  BY <1>14 DEF SaveFails, CommitFails, Crash
<1> QED
  BY <1>0, <1>1, <1>2, <1>3, <1>4, <1>5, <1>6, <1>7, <1>8, <1>9, <1>10, <1>11, <1>12,
     <1>13, <1>14 DEF Next

-----------------------------------------------------------------------------
(* Rows.                                                                    *)

\* Writers keep the order of the two tables, and so do the inserts they
\* leave behind.
LEMMA RowsNext == TypeOK /\ Rows /\ [Next]_vars => Rows'
<1> SUFFICES ASSUME TypeOK, Rows, [Next]_vars PROVE Rows'
  OBVIOUS
<1> USE DEF kafkaVars, memberVars, storeVars
<1> DEFINE RowParts == Tokens /\ Stages /\ LateStages /\ NoBareRequest
<1>0. CASE UNCHANGED vars
  BY <1>0 DEF Rows, Tokens, Stages, LateStages, NoBareRequest, Complete, Stored, vars
<1>1. ASSUME UNCHANGED <<insert, storeVars>> PROVE Rows'
  BY <1>1 DEF Rows, Tokens, Stages, LateStages, NoBareRequest, Complete, Stored
<1>2. ASSUME NEW t \in Tables, NEW r \in Records, Land(t, r) PROVE Rows'
  <2>1. Inserted(t, r) /\ <<t, r>> \in late /\ late' \subseteq late /\ insert' = insert
    BY <1>2 DEF Land
  <2>2. /\ Stored(t, r)'
        /\ \A u \in Tables, q \in Records : Stored(u, q) => Stored(u, q)'
        /\ \A u \in Tables, q \in Records : Stored(u, q)' => Stored(u, q) \/ (u = t /\ q = r)
        /\ Tokens'
    BY <2>1, InsertedStores DEF Rows
  <2>3. Stages'
    BY <2>1, <2>2, RecordAssumption DEF Rows, Stages, Complete, Tables
  <2>4. LateStages'
    BY <2>1, <2>2, RecordAssumption DEF Rows, LateStages, Tables
  <2>5. NoBareRequest'
    BY <2>1, <2>2, RecordAssumption DEF Rows, NoBareRequest, LateStages, Tables
  <2> QED BY <2>2, <2>3, <2>4, <2>5 DEF Rows
<1>3. ASSUME NEW c \in Consumers, PollRecords(c) PROVE Rows'
  <2>1. \A b \in Consumers, r \in Records :
            insert'[b][r] = insert[b][r] \/ insert'[b][r] \in {"waiting", "none"}
    BY <1>3 DEF PollRecords, TypeOK
  <2>2. UNCHANGED storeVars
    BY <1>3 DEF PollRecords
  <2> QED BY <2>1, <2>2 DEF Rows, Tokens, Stages, LateStages, NoBareRequest, Complete, Stored
<1>4. ASSUME NEW c \in Consumers, NEW r \in Records, StartInsert(c, r) PROVE Rows'
  <2>1. \A b \in Consumers, q \in Records :
            insert'[b][q] = insert[b][q] \/ (q = r /\ insert'[b][q] = FirstTable(r))
    BY <1>4 DEF StartInsert, TypeOK
  <2>2. UNCHANGED storeVars
    BY <1>4 DEF StartInsert
  <2> QED BY <2>1, <2>2
      DEF Rows, Tokens, Stages, LateStages, NoBareRequest, Complete, Stored, FirstTable
<1>5. ASSUME NEW c \in Consumers, NEW r \in Records, InsertOK(c, r) PROVE Rows'
  <2>0. PICK t \in Tables : t = insert[c][r]
    BY <1>5 DEF InsertOK, Sent
  <2>1. Inserted(t, r) /\ late' = late
    BY <1>5, <2>0 DEF InsertOK
  <2>2. /\ Stored(t, r)'
        /\ \A u \in Tables, q \in Records : Stored(u, q) => Stored(u, q)'
        /\ \A u \in Tables, q \in Records : Stored(u, q)' => Stored(u, q) \/ (u = t /\ q = r)
        /\ Tokens'
    BY <2>1, InsertedStores DEF Rows
  <2>3. \A b \in Consumers, q \in Records :
            insert'[b][q] = insert[b][q] \/ (b = c /\ q = r /\ insert'[b][q] = NextStage(t))
    BY <1>5, <2>0 DEF InsertOK, TypeOK
  <2>4. t = "request_records" => (r \in ModelCalls => Stored("model_calls", r))
    BY <2>0 DEF Rows, Stages
  <2>5. Stages'
    BY <2>1, <2>2, <2>3, <2>4, RecordAssumption DEF Rows, Stages, Complete, Tables, NextStage
  <2>6. LateStages'
    BY <2>1, <2>2, RecordAssumption DEF Rows, LateStages, Tables
  <2>7. NoBareRequest'
    BY <2>1, <2>2, <2>4, RecordAssumption DEF Rows, NoBareRequest, Tables
  <2> QED BY <2>2, <2>5, <2>6, <2>7 DEF Rows
<1>6. ASSUME NEW c \in Consumers, Ends(c) PROVE Rows'
  <2>1. \A b \in Consumers, r \in Records :
            insert'[b][r] = insert[b][r] \/ insert'[b][r] = "none"
    BY <1>6 DEF Ends, TypeOK
  <2>2. UNCHANGED <<tokens, counted>>
    BY <1>6 DEF Ends
  <2>3. ASSUME NEW r \in ModelCalls, <<"request_records", r>> \in late'
        PROVE  Stored("model_calls", r)
    <3>1. r \in Records
      BY RecordAssumption
    <3>2. CASE <<"request_records", r>> \in late
      BY <3>2 DEF Rows, LateStages
    <3>3. CASE <<"request_records", r>> \notin late
      <4>1. insert[c][r] = "request_records"
        BY <1>6, <2>3, <3>3 DEF Ends, Abandon
      <4> QED BY <3>1, <4>1 DEF Rows, Stages
    <3> QED BY <3>2, <3>3
  <2>4. LateStages'
    BY <2>2, <2>3 DEF LateStages, Stored
  <2> QED BY <2>1, <2>2, <2>4 DEF Rows, Tokens, Stages, NoBareRequest, Complete, Stored
<1>7. ASSUME NEW c \in Consumers, SaveOK(c) PROVE Rows'
  <2>1. \A b \in Consumers, r \in Records :
            insert'[b][r] = insert[b][r] \/ insert'[b][r] = "none"
    BY <1>7 DEF SaveOK, TypeOK
  <2>2. UNCHANGED storeVars
    BY <1>7 DEF SaveOK
  <2> QED BY <2>1, <2>2 DEF Rows, Tokens, Stages, LateStages, NoBareRequest, Complete, Stored
<1>8. ASSUME NEW r \in Records, Publish(r) PROVE UNCHANGED <<insert, storeVars>>
  BY <1>8 DEF Publish
<1>9. ASSUME NEW c \in Consumers, NEW p \in Partitions, Assign(c, p) \/ Revoke(c, p)
      PROVE  UNCHANGED <<insert, storeVars>>
  BY <1>9 DEF Assign, Revoke
<1>10. ASSUME NEW c \in Consumers, PutOut(c) \/ CommitOK(c) \/ Restart(c)
       PROVE  UNCHANGED <<insert, storeVars>>
  BY <1>10 DEF PutOut, CommitOK, Restart
<1>11. ASSUME NEW c \in Consumers, SaveFails(c) \/ CommitUnanswered(c) \/ CommitFails(c) \/ Crash(c)
       PROVE  Ends(c)
  BY <1>11 DEF SaveFails, CommitUnanswered, CommitFails, Crash
<1> QED
  BY <1>0, <1>1, <1>2, <1>3, <1>4, <1>5, <1>6, <1>7, <1>8, <1>9, <1>10, <1>11 DEF Next

\* What is stored stays stored.
LEMMA CompleteStays ==
    TypeOK /\ Rows /\ [Next]_vars => \A r \in Records : Complete(r) => Complete(r)'
<1> SUFFICES ASSUME TypeOK, Rows, [Next]_vars
             PROVE  \A t \in Tables, r \in Records : Stored(t, r) => Stored(t, r)'
  BY DEF Complete, Tables
<1> USE DEF kafkaVars, memberVars, storeVars
<1>1. CASE UNCHANGED counted
  BY <1>1 DEF Stored
<1>2. ASSUME NEW u \in Tables, NEW q \in Records, Inserted(u, q)
      PROVE  \A t \in Tables, r \in Records : Stored(t, r) => Stored(t, r)'
  BY <1>2, InsertedStores DEF Rows
<1>3. CASE \E t \in Tables, r \in Records : Land(t, r)
  BY <1>2, <1>3 DEF Land
<1>4. CASE \E c \in Consumers, r \in Records : InsertOK(c, r)
  BY <1>2, <1>4 DEF InsertOK, Sent
<1>5. CASE UNCHANGED vars
  BY <1>1, <1>5 DEF vars
<1>6. ASSUME NEW r \in Records, Publish(r) PROVE UNCHANGED counted
  BY <1>6 DEF Publish
<1>7. ASSUME NEW c \in Consumers, NEW p \in Partitions, Assign(c, p) \/ Revoke(c, p)
      PROVE  UNCHANGED counted
  BY <1>7 DEF Assign, Revoke
<1>8. ASSUME NEW c \in Consumers,
             \/ PutOut(c) \/ PollRecords(c) \/ SaveOK(c) \/ CommitOK(c) \/ Restart(c)
             \/ \E r \in Records : StartInsert(c, r)
      PROVE  UNCHANGED counted
  BY <1>8 DEF PutOut, PollRecords, SaveOK, CommitOK, Restart, StartInsert
<1>9. ASSUME NEW c \in Consumers, SaveFails(c) \/ CommitUnanswered(c) \/ CommitFails(c) \/ Crash(c)
      PROVE  UNCHANGED counted
  BY <1>9 DEF SaveFails, CommitUnanswered, CommitFails, Crash, Ends
<1> QED BY <1>1, <1>3, <1>4, <1>5, <1>6, <1>7, <1>8, <1>9 DEF Next

-----------------------------------------------------------------------------
(* Polls.                                                                   *)

\* Every read message is a record, and a topic only grows behind it.
LEMMA MessagesStay ==
    ASSUME TypeOK, Positions, [Next]_vars, NEW p \in Partitions, NEW i \in Nat \ {0},
           i <= Len(topic[p])
    PROVE  topic[p][i] \in Records /\ topic'[p][i] = topic[p][i]
<1> USE DEF kafkaVars, memberVars, storeVars
<1>1. topic[p] \in Seq(Records)
  BY DEF TypeOK
<1>2. topic[p][i] \in Records
  BY <1>1
<1>3. CASE UNCHANGED topic
  BY <1>2, <1>3
<1>4. ASSUME NEW r \in Records, Publish(r) PROVE topic'[p][i] = topic[p][i]
  <2>1. topic' = [topic EXCEPT ![PartitionOf[r]] = Append(@, r)]
    BY <1>4 DEF Publish
  <2>2. CASE p = PartitionOf[r]
    BY <1>1, <2>1, <2>2 DEF TypeOK
  <2>3. CASE p # PartitionOf[r]
    BY <2>1, <2>3 DEF TypeOK
  <2> QED BY <2>2, <2>3
<1>5. (\A r \in Records : ~ Publish(r)) => UNCHANGED topic
  BY DEF Next, vars, Land, Assign, Revoke, PutOut, PollRecords, StartInsert, InsertOK, SaveFails,
         SaveOK, CommitOK, CommitUnanswered, CommitFails, Crash, Restart, Ends
<1> QED BY <1>2, <1>3, <1>4, <1>5

\* What a poll reads from offset m up to n.
LEMMA ReadFrom ==
    ASSUME NEW s \in Seq(Records), NEW m \in Nat, NEW n \in Nat, n <= Len(s),
           NEW i \in m + 1 .. n
    PROVE  s[i] \in Range(SubSeq(s, m + 1, n))
<1> DEFINE read == SubSeq(s, m + 1, n)
           k == i - m
<1>1. \A j \in m + 1 .. n : s[j] \in Records
  OBVIOUS
<1>2. m + 1 \in Int /\ n \in Int /\ m + 1 <= n
  OBVIOUS
<1>3. /\ read \in Seq(Records)
      /\ Len(read) = IF m + 1 <= n THEN n - (m + 1) + 1 ELSE 0
      /\ \A j \in 1 .. n - (m + 1) + 1 : read[j] = s[(m + 1) + j - 1]
  BY <1>1, <1>2, SubSeqProperties
<1>4. k \in 1 .. n - (m + 1) + 1 /\ (m + 1) + k - 1 = i
  OBVIOUS
<1> HIDE DEF read, k
<1>5. k \in DOMAIN read /\ read[k] = s[i]
  BY SMTT(30), <1>2, <1>3, <1>4
<1> QED BY <1>5 DEF Range, read

\* The poll of a member is written whole before its offsets may be committed.
LEMMA PollsNext ==
    TypeOK /\ Positions /\ Rows /\ Polls /\ [Next]_vars => Polls'
<1> SUFFICES ASSUME TypeOK, Positions, Rows, Polls, [Next]_vars,
                    NEW b \in Consumers, NEW p \in Partitions, owner'[p] = b,
                    NEW i \in committed'[p] + 1 .. pos'[b][p], NEW CONSTANT r,
                    topic'[p][i] = r, r \notin Invalid
             PROVE  /\ pc'[b] = "save" => insert'[b][r] # "none"
                    /\ pc'[b] = "commit" => Complete(r)'
  BY DEF Polls, Complete, Stored
<1> DEFINE Goal == /\ pc'[b] = "save" => insert'[b][r] # "none"
                   /\ pc'[b] = "commit" => Complete(r)'
<1> USE DEF kafkaVars, memberVars, storeVars
<1>0. committed'[p] \in Nat /\ pos'[b][p] \in Nat /\ pos'[b][p] <= Len(topic'[p]) /\ i \in Nat \ {0}
  <2>1. TypeOK' /\ Positions'
    BY TypeNext, PositionsNext
  <2>2. committed'[p] \in Nat /\ pos'[b][p] \in Nat
    BY <2>1 DEF TypeOK
  <2>3. pos'[b][p] <= Len(topic'[p])
    BY <2>1 DEF Positions
  <2> QED BY <2>2, <2>3
\* The message was read before, and the member does what it did.
<1>1. ASSUME owner[p] = b, i \in committed[p] + 1 .. pos[b][p]
      PROVE  /\ r \in Records
             /\ pc[b] = "save" => insert[b][r] # "none"
             /\ pc[b] = "commit" => Complete(r)'
  <2>1. i <= Len(topic[p])
    BY <1>0, <1>1 DEF Positions, TypeOK
  <2>2. r \in Records /\ topic[p][i] = r
    BY <1>0, <2>1, MessagesStay
  <2>3. pc[b] = "commit" => Complete(r)
    BY <1>1, <2>2 DEF Polls
  <2> QED BY <1>1, <2>2, <2>3, CompleteStays DEF Polls
<1>2. CASE UNCHANGED <<committed, owner, pc, pos, insert>>
  BY <1>1, <1>2
<1>3. ASSUME NEW c \in Consumers, NEW q \in Partitions, Assign(c, q) PROVE Goal
  <2>1. CASE p = q
    <3>1. b = c /\ pos'[b][p] = committed[p] /\ committed'[p] = committed[p]
      BY <1>3, <2>1 DEF Assign, TypeOK
    <3> QED BY <1>0, <3>1
  <2>2. CASE p # q
    <3>1. owner[p] = b /\ pos'[b][p] = pos[b][p] /\ UNCHANGED <<committed, pc, insert>>
      BY <1>3, <2>2 DEF Assign, TypeOK
    <3> QED BY <1>1, <3>1
  <2> QED BY <2>1, <2>2
<1>4. ASSUME NEW c \in Consumers, (\E q \in Partitions : Revoke(c, q)) \/ PutOut(c) PROVE Goal
  <2>1. owner[p] = b /\ UNCHANGED <<committed, pos, pc, insert>>
    BY <1>4, ConsumerAssumption DEF Revoke, PutOut, Disowned, TypeOK
  <2> QED BY <1>1, <2>1
<1>5. ASSUME NEW c \in Consumers, PollRecords(c) PROVE Goal
  <2>1. PICK upto \in Reads(c) :
            /\ \A q \in Owned(c) : upto[q] \in pos[c][q] .. Len(topic[q])
            /\ pos' = [pos EXCEPT ![c] =
                          [q \in Partitions |-> IF q \in Owned(c) THEN upto[q] ELSE @[q]]]
            /\ insert' = [insert EXCEPT ![c] =
                             [q \in Records |-> IF q \in Decoded(Batch(c, upto))
                                                THEN "waiting" ELSE "none"]]
    BY <1>5 DEF PollRecords
  <2>2. owner[p] = b /\ UNCHANGED <<topic, committed>>
    BY <1>5 DEF PollRecords
  <2>3. CASE b # c
    <3>1. pos'[b] = pos[b] /\ pc'[b] = pc[b] /\ insert'[b] = insert[b]
      BY <1>5, <2>1, <2>3 DEF PollRecords, TypeOK
    <3> QED BY <1>1, <2>2, <3>1
  <2>4. CASE b = c
    <3>1. pc'[c] = "save" /\ pos[c][p] = committed[p] /\ pos'[c][p] = upto[p] /\ p \in Owned(c)
      BY <1>5, <2>1, <2>2, <2>4 DEF PollRecords, Positions, Owned, TypeOK
    <3>2. /\ i \in pos[c][p] + 1 .. upto[p]
          /\ pos[c][p] \in Nat /\ upto[p] \in Nat /\ upto[p] <= Len(topic[p])
      BY <1>0, <2>1, <2>2, <2>4, <3>1 DEF TypeOK
    <3>3. topic[p] \in Seq(Records) /\ r \in Records /\ topic[p][i] = r
      BY <1>0, <2>2, <3>2 DEF TypeOK
    <3>4. r \in Polled(c, p, upto)
      BY <3>2, <3>3, ReadFrom DEF Polled
    <3>5. r \in Decoded(Batch(c, upto))
      BY <2>2, <3>1, <3>4 DEF Batch, Decoded
    <3>6. insert'[c][r] = "waiting"
      BY <2>1, <3>3, <3>5 DEF TypeOK
    <3> QED BY <2>2, <2>4, <3>1, <3>6
  <2> QED BY <2>3, <2>4
<1>6. ASSUME NEW c \in Consumers, NEW q \in Records, StartInsert(c, q) \/ InsertOK(c, q) PROVE Goal
  <2>1. UNCHANGED <<topic, committed, owner, pc, pos>>
    BY <1>6 DEF StartInsert, InsertOK
  <2>2. \A m \in Records : insert[b][m] # "none" => insert'[b][m] # "none"
    <3>1. FirstTable(q) # "none" /\ NextStage(insert[c][q]) # "none"
      BY DEF FirstTable, NextStage
    <3>2. CASE StartInsert(c, q)
      BY <3>1, <3>2 DEF StartInsert, TypeOK
    <3>3. CASE InsertOK(c, q)
      BY <3>1, <3>3 DEF InsertOK, TypeOK
    <3> QED BY <1>6, <3>2, <3>3
  <2> QED BY <1>1, <2>1, <2>2
<1>7. ASSUME NEW c \in Consumers, Ends(c), UNCHANGED committed PROVE Goal
  <2>1. b # c /\ owner[p] = b
    BY <1>7, ConsumerAssumption DEF Ends, Disowned, TypeOK
  <2>2. pos'[b] = pos[b] /\ pc'[b] = pc[b] /\ insert'[b] = insert[b]
    BY <1>7, <2>1 DEF Ends, TypeOK
  <2> QED BY <1>1, <1>7, <2>1, <2>2
<1>8. ASSUME NEW c \in Consumers, SaveOK(c) PROVE Goal
  <2>1. UNCHANGED <<topic, committed, owner, pos, counted>>
    BY <1>8 DEF SaveOK
  <2>2. CASE b # c
    <3>1. pc'[b] = pc[b] /\ insert'[b] = insert[b]
      BY <1>8, <2>2 DEF SaveOK, TypeOK
    <3> QED BY <1>1, <2>1, <3>1
  <2>3. CASE b = c
    <3>1. r \in Records /\ insert[c][r] # "none" /\ pc'[c] = "commit"
      BY <1>1, <1>8, <2>1, <2>3 DEF SaveOK, TypeOK
    <3>2. insert[c][r] = "done"
      BY <1>8, <3>1 DEF SaveOK
    <3>3. Complete(r)
      BY <3>1, <3>2 DEF Rows, Stages
    <3>4. Complete(r)'
      BY <3>1, <3>3, CompleteStays
    <3> QED BY <2>1, <2>3, <3>1, <3>4
  <2> QED BY <2>2, <2>3
<1>9. ASSUME NEW c \in Consumers, committed' = Uncommitted(c), UNCHANGED <<topic, pos>>,
             CommitOK(c) \/ CommitUnanswered(c)
      PROVE  Goal
  <2>1. (b # c /\ owner[p] = b) \/ pc'[b] = "poll"
    BY <1>9, ConsumerAssumption DEF CommitOK, CommitUnanswered, Ends, Disowned, TypeOK
  <2>2. CASE b # c /\ owner[p] = b
    <3>1. committed'[p] = committed[p]
      BY <1>9, <2>2 DEF Uncommitted, Owned
    <3>2. pc'[b] = pc[b] /\ insert'[b] = insert[b]
      BY <1>9, <2>2 DEF CommitOK, CommitUnanswered, Ends, TypeOK
    <3> QED BY <1>1, <1>9, <2>2, <3>1, <3>2
  <2> QED BY <2>1, <2>2
<1>10. ASSUME NEW c \in Consumers, CommitOK(c) \/ CommitUnanswered(c)
       PROVE  committed' = Uncommitted(c) /\ UNCHANGED <<topic, pos>>
  BY <1>10 DEF CommitOK, CommitUnanswered, Ends
<1>11. ASSUME NEW c \in Consumers, Restart(c) PROVE Goal
  <2>1. UNCHANGED <<committed, owner, pos, insert>> /\ (pc'[b] = pc[b] \/ pc'[b] = "poll")
    BY <1>11 DEF Restart, TypeOK
  <2> QED BY <1>1, <2>1
<1>12. ASSUME NEW c \in Consumers, SaveFails(c) \/ CommitFails(c) \/ Crash(c)
       PROVE  Ends(c) /\ UNCHANGED committed
  BY <1>12 DEF SaveFails, CommitFails, Crash
<1>13. ASSUME (\E m \in Records : Publish(m)) \/ (\E t \in Tables, m \in Records : Land(t, m))
              \/ UNCHANGED vars
       PROVE  UNCHANGED <<committed, owner, pc, pos, insert>>
  BY <1>13 DEF Publish, Land, vars
<1> QED
  BY <1>2, <1>3, <1>4, <1>5, <1>6, <1>7, <1>8, <1>9, <1>10, <1>11, <1>12, <1>13 DEF Next

\* Offsets move over stored messages only.
LEMMA CommittedNext ==
    TypeOK /\ Positions /\ Rows /\ Polls /\ Committed /\ [Next]_vars =>
        /\ Committed'
        /\ \A p \in Partitions : committed'[p] >= committed[p]
<1> SUFFICES ASSUME TypeOK, Positions, Rows, Polls, Committed, [Next]_vars,
                    NEW p \in Partitions
             PROVE  /\ committed'[p] >= committed[p]
                    /\ \A i \in 1 .. committed'[p] : \A r :
                           topic'[p][i] = r /\ r \notin Invalid => Complete(r)'
  BY DEF Committed, Complete, Stored
<1> USE DEF kafkaVars, memberVars, storeVars
<1>1. committed[p] \in Nat /\ committed[p] <= Len(topic[p])
  BY DEF Positions, TypeOK
<1>2. ASSUME NEW i \in 1 .. committed[p], NEW CONSTANT r, topic'[p][i] = r, r \notin Invalid
      PROVE  Complete(r)'
  <2>1. r \in Records /\ topic[p][i] = r
    BY <1>1, <1>2, MessagesStay
  <2>2. Complete(r)
    BY <1>2, <2>1 DEF Committed
  <2> QED BY <2>1, <2>2, CompleteStays
<1>3. CASE committed'[p] = committed[p]
  BY <1>1, <1>2, <1>3
<1>4. CASE \E c \in Consumers : (CommitOK(c) \/ CommitUnanswered(c)) /\ p \in Owned(c)
  <2>1. PICK c \in Consumers : (CommitOK(c) \/ CommitUnanswered(c)) /\ p \in Owned(c)
    BY <1>4
  <2>2. committed'[p] = pos[c][p] /\ pc[c] = "commit" /\ owner[p] = c
    BY <2>1 DEF CommitOK, CommitUnanswered, Uncommitted, Owned
  <2>3. committed[p] <= pos[c][p] /\ pos[c][p] <= Len(topic[p]) /\ pos[c][p] \in Nat
    BY <2>2 DEF Positions, TypeOK
  <2>4. ASSUME NEW i \in committed[p] + 1 .. pos[c][p], NEW CONSTANT r,
               topic'[p][i] = r, r \notin Invalid
        PROVE  Complete(r)'
    <3>1. r \in Records /\ topic[p][i] = r
      BY <1>1, <2>3, <2>4, MessagesStay
    <3>2. Complete(r)
      BY <2>2, <2>4, <3>1 DEF Polls
    <3> QED BY <3>1, <3>2, CompleteStays
  <2> QED BY <1>1, <1>2, <2>2, <2>3, <2>4
<1>5. CASE \E c \in Consumers : (CommitOK(c) \/ CommitUnanswered(c)) /\ p \notin Owned(c)
  <2>1. committed'[p] = committed[p]
    BY <1>5 DEF CommitOK, CommitUnanswered, Uncommitted
  <2> QED BY <1>3, <2>1
<1>6. CASE \A c \in Consumers : ~ CommitOK(c) /\ ~ CommitUnanswered(c)
  <2>1. UNCHANGED committed
    BY <1>6 DEF Next, vars, Publish, Land, Assign, Revoke, PutOut, PollRecords, StartInsert,
                InsertOK, SaveFails, SaveOK, CommitFails, Crash, Restart
  <2> QED BY <1>3, <2>1
<1> QED BY <1>4, <1>5, <1>6

-----------------------------------------------------------------------------
(* Theorems.                                                                *)

LEMMA InitIInv == Init => IInv
<1> SUFFICES ASSUME Init PROVE IInv
  OBVIOUS
<1> USE SizeAssumption, ConsumerAssumption DEF Init
<1>1. TypeOK
  BY DEF TypeOK
<1>2. Positions
  BY DEF Positions
<1>3. Rows
  BY DEF Rows, Tokens, Stages, LateStages, NoBareRequest, Stored, Contains, Tables
<1>4. Polls /\ Committed
  BY DEF Polls, Committed
<1> QED BY <1>1, <1>2, <1>3, <1>4 DEF IInv

LEMMA IInvNext == IInv /\ [Next]_vars => IInv'
BY TypeNext, PositionsNext, RowsNext, PollsNext, CommittedNext DEF IInv

\* The types hold for any records, partitions and replicas.
THEOREM TypeCorrect == Spec => []TypeOK
<1>1. IInv => TypeOK
  BY DEF IInv
<1> QED BY <1>1, InitIInv, IInvNext, PTL DEF Spec

\* Offsets are committed over stored records only, whatever replicas, late
\* inserts and lost replies do: RequestConsumer.Start commits after Save.
THEOREM CommitsAreStored == Spec => []CommittedIsStored
<1>1. IInv => CommittedIsStored
  BY DEF IInv, Committed, CommittedIsStored, Complete
<1> QED BY <1>1, InitIInv, IInvNext, PTL DEF Spec

\* saveRequest stores the model call first, and no abandoned insert or retry
\* by another replica shows the request without it.
THEOREM ModelCallsFirst == Spec => []NoBareRequest
<1>1. IInv => NoBareRequest
  BY DEF IInv, Rows
<1> QED BY <1>1, InitIInv, IInvNext, PTL DEF Spec

\* The group's offsets never move back, for any rebalances between polls.
THEOREM OffsetsGrow == Spec => OffsetsOnlyGrow
<1>1. IInv /\ [Next]_vars => [\A p \in Partitions : committed'[p] >= committed[p]]_vars
  BY CommittedNext DEF IInv
<1> QED BY <1>1, InitIInv, IInvNext, PTL DEF Spec, OffsetsOnlyGrow

-----------------------------------------------------------------------------
(* One poll ahead.                                                          *)

\* A message is in the partition of its record.
Placed ==
    \A p \in Partitions : \A i \in 1 .. Len(topic[p]) : PartitionOf[topic[p][i]] = p

\* A record a replica holds, or that ClickHouse has or may still get.
Present(r) ==
    \/ \E c \in Consumers : insert[c][r] # "none"
    \/ \E t \in Tables : Stored(t, r) \/ <<t, r>> \in late

\* A copy of it is at most one poll behind the committed offset.
Near(r) ==
    \E i \in 1 .. Len(topic[PartitionOf[r]]) :
        /\ topic[PartitionOf[r]][i] = r
        /\ i <= committed[PartitionOf[r]] + BatchMax

PresentNear == \A r \in Records : Present(r) => Near(r)

LEMMA BatchIsNat == BatchMax \in Nat \ {0}
BY SizeAssumption

LEMMA PlacedNext == TypeOK /\ Placed /\ [Next]_vars => Placed'
<1> SUFFICES ASSUME TypeOK, Placed, [Next]_vars PROVE Placed'
  OBVIOUS
<1> USE DEF kafkaVars, memberVars, storeVars
<1>1. CASE UNCHANGED topic
  BY <1>1 DEF Placed
<1>2. ASSUME NEW r \in Records, Publish(r) PROVE Placed'
  <2>1. topic' = [topic EXCEPT ![PartitionOf[r]] = Append(@, r)]
    BY <1>2 DEF Publish
  <2> SUFFICES ASSUME NEW p \in Partitions, NEW i \in 1 .. Len(topic'[p])
               PROVE  PartitionOf[topic'[p][i]] = p
    BY DEF Placed
  <2>2. topic[p] \in Seq(Records)
    BY DEF TypeOK
  <2>3. CASE p = PartitionOf[r]
    <3>1. topic'[p] = Append(topic[p], r)
      BY <2>1, <2>3 DEF TypeOK
    <3>2. CASE i \in 1 .. Len(topic[p])
      BY <2>2, <3>1, <3>2 DEF Placed
    <3>3. CASE i \notin 1 .. Len(topic[p])
      BY <2>2, <2>3, <3>1, <3>3
    <3> QED BY <3>2, <3>3
  <2>4. CASE p # PartitionOf[r]
    BY <2>1, <2>4 DEF Placed, TypeOK
  <2> QED BY <2>3, <2>4
<1>3. (\A r \in Records : ~ Publish(r)) => UNCHANGED topic
  BY DEF Next, vars, Land, Assign, Revoke, PutOut, PollRecords, StartInsert, InsertOK, SaveFails,
         SaveOK, CommitOK, CommitUnanswered, CommitFails, Crash, Restart, Ends
<1> QED BY <1>1, <1>2, <1>3

\* What a poll reads from offset m up to n was between the two.
LEMMA OnlyRead ==
    ASSUME NEW s \in Seq(Records), NEW m \in Nat, NEW n \in m .. Len(s),
           NEW r \in Range(SubSeq(s, m + 1, n))
    PROVE  \E i \in 1 .. Len(s) : s[i] = r /\ m < i /\ i <= n
<1> DEFINE read == SubSeq(s, m + 1, n)
<1>0. Len(s) \in Nat /\ n \in Nat
  OBVIOUS
<1>1. \A j \in m + 1 .. n : s[j] \in Records
  BY <1>0
<1>2. /\ read \in Seq(Records)
      /\ Len(read) = IF m + 1 <= n THEN n - (m + 1) + 1 ELSE 0
      /\ \A j \in 1 .. n - (m + 1) + 1 : read[j] = s[(m + 1) + j - 1]
  BY <1>0, <1>1, SubSeqProperties
<1>3. r \in {read[k] : k \in DOMAIN read}
  BY DEF Range
<1> HIDE DEF read
<1>4. PICK k \in 1 .. Len(read) : read[k] = r
  <2>1. DOMAIN read = 1 .. Len(read)
    BY <1>2, LenProperties
  <2> QED BY <1>3, <2>1
<1>5. m + 1 <= n /\ k \in 1 .. n - (m + 1) + 1
  BY <1>0, <1>2, <1>4
<1>6. s[m + k] = r
  BY <1>0, <1>2, <1>4, <1>5
<1>7. m + k \in 1 .. Len(s) /\ m < m + k /\ m + k <= n
  BY <1>0, <1>5
<1> QED BY <1>6, <1>7

\* A poll reads at most BatchMax messages behind the committed offset of a
\* partition, whatever it reads of the others.
LEMMA PollReadsFew ==
    ASSUME TypeOK, Positions, NEW c \in Consumers, pc[c] = "poll", NEW upto \in Reads(c),
           \A p \in Owned(c) : upto[p] \in pos[c][p] .. Len(topic[p]),
           Taken(c, upto) \in 1 .. BatchMax, NEW p \in Owned(c)
    PROVE  /\ pos[c][p] = committed[p]
           /\ upto[p] <= committed[p] + BatchMax
<1> DEFINE gain == [q \in Owned(c) |-> upto[q] - pos[c][q]]
<1>1. Taken(c, upto) = Sum(gain, Owned(c))
  BY Zenon DEF Taken, Sum, MapThenSumSet, MapThenFoldSet
<1>2. \A q \in Owned(c) : gain[q] \in Nat /\ pos[c][q] \in Nat /\ upto[q] \in Nat
  BY DEF Owned, TypeOK
<1>3. pos[c][p] = committed[p] /\ gain[p] = upto[p] - pos[c][p]
  BY DEF Owned, Positions
<1> HIDE DEF gain
<1>4. IsFiniteSet(Owned(c))
  BY FS_Subset, RecordAssumption DEF Owned
<1>5. Sum(gain, Owned(c)) = gain[p] + Sum(gain, Owned(c) \ {p})
  BY <1>2, <1>4, SumWithout
<1>6. Sum(gain, Owned(c) \ {p}) \in Nat
  BY <1>2, <1>4, FS_Subset, SumIsNat
<1>7. gain[p] <= BatchMax
  BY <1>1, <1>2, <1>5, <1>6, BatchIsNat
<1> QED BY <1>2, <1>3, <1>7, BatchIsNat

\* So is every record of the batch.
LEMMA PolledIsNear ==
    ASSUME TypeOK, Positions, Placed, NEW c \in Consumers, PollRecords(c),
           NEW r \in Records, insert'[c][r] # "none"
    PROVE  Near(r)
<1>1. PICK upto \in Reads(c) :
          /\ \A p \in Owned(c) : upto[p] \in pos[c][p] .. Len(topic[p])
          /\ Taken(c, upto) \in 1 .. BatchMax
          /\ insert' = [insert EXCEPT ![c] =
                           [q \in Records |-> IF q \in Decoded(Batch(c, upto))
                                              THEN "waiting" ELSE "none"]]
  BY DEF PollRecords
<1>2. r \in Batch(c, upto)
  BY <1>1 DEF Decoded, TypeOK
<1>3. PICK p \in Owned(c) : r \in Range(SubSeq(topic[p], pos[c][p] + 1, upto[p]))
  BY <1>2 DEF Batch, Polled
<1>4. /\ p \in Partitions /\ topic[p] \in Seq(Records) /\ pos[c][p] \in Nat
      /\ committed[p] \in Nat
  BY DEF Owned, TypeOK
<1>5. upto[p] \in pos[c][p] .. Len(topic[p])
  BY <1>1
<1>6. PICK i \in 1 .. Len(topic[p]) : topic[p][i] = r /\ i <= upto[p]
  BY <1>3, <1>4, <1>5, OnlyRead
<1>7. upto[p] <= committed[p] + BatchMax
  BY <1>1, PollReadsFew DEF PollRecords
<1>8. PartitionOf[r] = p
  BY <1>4, <1>6 DEF Placed
<1>9. upto[p] \in Nat
  BY <1>4, <1>5
<1>10. i <= committed[p] + BatchMax
  BY <1>4, <1>6, <1>7, <1>9, BatchIsNat
<1> QED BY <1>6, <1>8, <1>10 DEF Near

\* The messages stay and the offset only grows.
LEMMA NearStays ==
    ASSUME IInv, [Next]_vars, NEW r \in Records, Near(r)
    PROVE  Near(r)'
<1> DEFINE p == PartitionOf[r]
<1>0. p \in Partitions /\ TypeOK /\ TypeOK' /\ Positions
  BY TypeNext, RecordAssumption DEF IInv
<1>1. PICK i \in 1 .. Len(topic[p]) : topic[p][i] = r /\ i <= committed[p] + BatchMax
  BY DEF Near
<1> HIDE DEF p
<1>2. topic'[p][i] = r
  BY <1>0, <1>1, MessagesStay
<1>3. committed[p] \in Nat /\ committed'[p] \in Nat /\ committed'[p] >= committed[p]
  BY <1>0, CommittedNext DEF IInv, TypeOK
<1>4. Len(topic[p]) <= Len(topic'[p])
  <2>1. CASE UNCHANGED topic
    BY <1>0, <2>1 DEF TypeOK
  <2>2. ASSUME NEW q \in Records, Publish(q) PROVE Len(topic[p]) <= Len(topic'[p])
    <3>1. topic[p] \in Seq(Records)
      BY <1>0 DEF TypeOK
    <3>2. topic'[p] = topic[p] \/ topic'[p] = Append(topic[p], q)
      BY <1>0, <2>2 DEF Publish, TypeOK
    <3> QED BY <3>1, <3>2
  <2>3. (\A q \in Records : ~ Publish(q)) => UNCHANGED topic
    BY DEF Next, vars, Land, Assign, Revoke, PutOut, PollRecords, StartInsert, InsertOK, SaveFails,
           SaveOK, CommitOK, CommitUnanswered, CommitFails, Crash, Restart, Ends,
           kafkaVars, memberVars, storeVars
  <2> QED BY <2>1, <2>2, <2>3
<1>5. i \in 1 .. Len(topic'[p])
  <2>1. Len(topic[p]) \in Nat /\ Len(topic'[p]) \in Nat
    BY <1>0 DEF TypeOK
  <2> QED BY <1>1, <1>4, <2>1
<1>6. i <= committed'[p] + BatchMax
  BY <1>1, <1>3, BatchIsNat
<1> QED BY <1>2, <1>5, <1>6 DEF Near, p

\* A replica comes by a record only in a poll, and ClickHouse only by what a
\* replica held or left behind.
LEMMA PresentOnlyPolled ==
    ASSUME TypeOK, Rows, [Next]_vars, NEW r \in Records, Present(r)'
    PROVE  \/ Present(r)
           \/ \E c \in Consumers : PollRecords(c) /\ insert'[c][r] # "none"
<1> USE DEF kafkaVars, memberVars, storeVars
<1>1. CASE UNCHANGED <<insert, storeVars>>
  BY <1>1 DEF Present, Stored
<1>2. ASSUME NEW t \in Tables, NEW q \in Records, Land(t, q) PROVE Present(r)
  <2>1. <<t, q>> \in late /\ late' \subseteq late /\ insert' = insert /\ Inserted(t, q)
    BY <1>2 DEF Land
  <2>2. \A u \in Tables : Stored(u, r)' => Stored(u, r) \/ (u = t /\ r = q)
    BY <2>1, InsertedStores DEF Rows
  <2> QED BY <2>1, <2>2 DEF Present
<1>3. ASSUME NEW c \in Consumers, PollRecords(c)
      PROVE  Present(r) \/ insert'[c][r] # "none"
  <2>1. \A b \in Consumers \ {c} : insert'[b][r] = insert[b][r]
    BY <1>3 DEF PollRecords, TypeOK
  <2>2. UNCHANGED storeVars
    BY <1>3 DEF PollRecords
  <2> QED BY <2>1, <2>2 DEF Present, Stored
<1>4. ASSUME NEW c \in Consumers, NEW q \in Records, StartInsert(c, q) PROVE Present(r)
  <2>1. \A b \in Consumers : insert'[b][r] # "none" => insert[b][r] # "none"
    BY <1>4 DEF StartInsert, TypeOK
  <2>2. UNCHANGED storeVars
    BY <1>4 DEF StartInsert
  <2> QED BY <2>1, <2>2 DEF Present, Stored
<1>5. ASSUME NEW c \in Consumers, NEW q \in Records, InsertOK(c, q) PROVE Present(r)
  <2>0. PICK t \in Tables : t = insert[c][q]
    BY <1>5 DEF InsertOK, Sent
  <2>1. Inserted(t, q) /\ late' = late /\ insert[c][q] # "none"
    BY <1>5, <2>0 DEF InsertOK, Tables
  <2>2. \A u \in Tables : Stored(u, r)' => Stored(u, r) \/ (u = t /\ r = q)
    BY <2>1, InsertedStores DEF Rows
  <2>3. \A b \in Consumers : insert'[b][r] = insert[b][r] \/ (b = c /\ q = r)
    BY <1>5 DEF InsertOK, TypeOK
  <2> QED BY <2>1, <2>2, <2>3 DEF Present
<1>6. ASSUME NEW c \in Consumers, Ends(c) PROVE Present(r)
  <2>1. \A b \in Consumers : insert'[b][r] = insert[b][r] \/ insert'[b][r] = "none"
    BY <1>6 DEF Ends, TypeOK
  <2>2. UNCHANGED counted
    BY <1>6 DEF Ends
  <2>3. \A t \in Tables : <<t, r>> \in late' => <<t, r>> \in late \/ insert[c][r] \in Tables
    BY <1>6 DEF Ends, Abandon, Sent
  <2>4. "none" \notin Tables
    BY DEF Tables
  <2> QED BY <2>1, <2>2, <2>3, <2>4 DEF Present, Stored
<1>7. ASSUME NEW c \in Consumers, SaveOK(c) PROVE Present(r)
  <2>1. \A b \in Consumers : insert'[b][r] = insert[b][r] \/ insert'[b][r] = "none"
    BY <1>7 DEF SaveOK, TypeOK
  <2>2. UNCHANGED storeVars
    BY <1>7 DEF SaveOK
  <2> QED BY <2>1, <2>2 DEF Present, Stored
<1>8. ASSUME (\E q \in Records : Publish(q)) \/ UNCHANGED vars
      PROVE  UNCHANGED <<insert, storeVars>>
  BY <1>8 DEF Publish, vars
<1>9. ASSUME NEW c \in Consumers, NEW p \in Partitions, Assign(c, p) \/ Revoke(c, p)
      PROVE  UNCHANGED <<insert, storeVars>>
  BY <1>9 DEF Assign, Revoke
<1>10. ASSUME NEW c \in Consumers, PutOut(c) \/ CommitOK(c) \/ Restart(c)
       PROVE  UNCHANGED <<insert, storeVars>>
  BY <1>10 DEF PutOut, CommitOK, Restart
<1>11. ASSUME NEW c \in Consumers, SaveFails(c) \/ CommitUnanswered(c) \/ CommitFails(c) \/ Crash(c)
       PROVE  Ends(c)
  BY <1>11 DEF SaveFails, CommitUnanswered, CommitFails, Crash
<1> QED
  BY <1>1, <1>2, <1>3, <1>4, <1>5, <1>6, <1>7, <1>8, <1>9, <1>10, <1>11 DEF Next

\* RequestConsumer.Start polls again only after a commit, so whatever rebalances,
\* crashes, lost replies and late inserts there are, for any number of replicas
\* and partitions, what ClickHouse has or may still get is at most BatchMax
\* messages beyond the committed offset of its partition.
THEOREM NeverFarAhead == Spec => []OnePollAhead
<1> DEFINE Inv == IInv /\ Placed /\ PresentNear
<1>1. Init => Inv
  <2>1. Init => Placed
    BY DEF Init, Placed
  <2>2. Init => PresentNear
    BY DEF Init, PresentNear, Present, Stored
  <2> QED BY <2>1, <2>2, InitIInv
<1>2. Inv /\ [Next]_vars => Inv'
  <2> SUFFICES ASSUME Inv, [Next]_vars, NEW r \in Records, Present(r)' PROVE Near(r)'
    BY IInvNext, PlacedNext DEF IInv, PresentNear
  <2>1. CASE Present(r)
    BY <2>1, NearStays DEF PresentNear
  <2>2. CASE \E c \in Consumers : PollRecords(c) /\ insert'[c][r] # "none"
    BY <2>2, PolledIsNear, NearStays DEF IInv
  <2> QED BY <2>1, <2>2, PresentOnlyPolled DEF IInv
<1>3. Inv => OnePollAhead
  <2> SUFFICES ASSUME PresentNear, NEW t \in Tables, NEW r \in Records,
                      Stored(t, r) \/ <<t, r>> \in late \/ \E c \in Consumers : r \in Sent(c)
               PROVE  Near(r)
    BY DEF OnePollAhead, Near
  <2>1. \A c \in Consumers : r \in Sent(c) => insert[c][r] # "none"
    BY DEF Sent, Tables
  <2> QED BY <2>1 DEF PresentNear, Present
<1> QED BY <1>1, <1>2, <1>3, PTL DEF Spec

=============================================================================
