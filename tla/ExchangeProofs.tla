--------------------------- MODULE ExchangeProofs ---------------------------
(***************************************************************************)
(* Proofs about Exchange, for any callers, policies, limits and numbers of   *)
(* requests: the types, the index of callers, that a call is charged once,   *)
(* how far a bucket goes over its limit, and that a bucket is the sum of     *)
(* what was charged to it, however the attempts of a call overlap.           *)
(***************************************************************************)
EXTENDS Exchange, SumLemmas, TLAPS

\* A call is charged when it is settled, with no more than MaxTokens.
ChargedOnce ==
    \A r \in Requests :
        /\ charged[r] <= MaxTokens
        /\ pc[r] # "closed" /\ ~ settled[r] => charged[r] = 0

OpenRequests == {q \in Requests : Open(q)}

\* Envoy has MaxOpen requests at most.
OpenBounded == IsFiniteSet(OpenRequests) /\ Cardinality(OpenRequests) <= MaxOpen

\* With u tokens counted and the calls P pending, b stays within its bound.
Within(b, u, P) ==
    u + Cardinality(P) * MaxTokens <= LimitOf[b[2]] - 1 + MaxOpen * MaxTokens

IInv ==
    /\ TypeOK
    /\ IndexMatchesPolicies
    /\ ChargedOnce
    /\ OpenBounded
    /\ OvershootBounded

-----------------------------------------------------------------------------
(* Types.                                                                   *)

LEMMA BucketsType ==
    ASSUME TypeOK, NEW r \in Requests
    PROVE  BucketsOf(r) \in SUBSET Buckets
BY CallerAssumption DEF TypeOK, BucketsOf, Buckets

LEMMA EndTyped ==
    ASSUME TypeOK, NEW r \in Requests, End(r)
    PROVE  /\ pc' \in [Requests -> {"new", "body", "checking", "routed", "responding", "closed"}]
           /\ settled' \in [Requests -> BOOLEAN]
           /\ attempt' \in [Requests -> 0 .. MaxAttempts]
           /\ selected' \in [Requests -> 0 .. MaxAttempts]
           /\ serving' \in [Requests -> 0 .. MaxAttempts]
<1>1. 0 \in 0 .. MaxAttempts
  BY BoundAssumption
<1> QED BY <1>1 DEF TypeOK, End, Become

LEMMA TypeNext ==
    ASSUME TypeOK, [Next]_vars
    PROVE  TypeOK'
<1> USE DEF TypeOK, cacheVars, redisVars, attemptVars, quotaVars
<1>1. ASSUME NEW p \in Policies, Edit(p)
      PROVE  TypeOK'
  BY <1>1, BoundAssumption DEF Edit, Buckets
<1>2. ASSUME NEW p \in Policies, SyncPolicy(p)
      PROVE  TypeOK'
  BY <1>2 DEF SyncPolicy, Added, Removed, Buckets
<1>3. CASE NextPeriod
  BY <1>3, BoundAssumption DEF NextPeriod, Buckets
<1>4. ASSUME NEW r \in Requests
      PROVE  /\ RequestHeaders(r) => TypeOK'
             /\ RequestBody(r) => TypeOK'
             /\ Admit(r) => TypeOK'
             /\ Reject(r) \/ CheckFails(r) => TypeOK'
             /\ StartAttempt(r) => TypeOK'
             /\ ResponseHeaders(r) => TypeOK'
             /\ Close(r) => TypeOK'
  <2>1. RequestHeaders(r) => TypeOK'
    BY DEF RequestHeaders, Become, Buckets
  <2>2. RequestBody(r) => TypeOK'
    BY BucketsType DEF RequestBody, Become, Buckets
  <2>3. Admit(r) => TypeOK'
    BY DEF Admit, Become, Buckets
  <2>4. Reject(r) \/ CheckFails(r) => TypeOK'
    BY EndTyped DEF Reject, CheckFails, Refuse, Buckets
  <2>5. StartAttempt(r) => TypeOK'
    <3>1. attempt[r] < MaxAttempts => attempt[r] + 1 \in 1 .. MaxAttempts
      BY BoundAssumption
    <3> QED BY <3>1, BoundAssumption DEF StartAttempt, Buckets
  <2>6. ResponseHeaders(r) => TypeOK'
    BY DEF ResponseHeaders, Become, Buckets
  <2>7. Close(r) => TypeOK'
    BY EndTyped DEF Close, Buckets
  <2> QED BY <2>1, <2>2, <2>3, <2>4, <2>5, <2>6, <2>7
<1>5. ASSUME NEW r \in Requests, NEW n \in handling[r], UpstreamHeaders(r, n)
      PROVE  TypeOK'
  BY <1>5 DEF UpstreamHeaders, Buckets
<1>6. ASSUME NEW r \in Requests, NEW n \in handling[r], UpstreamFails(r, n)
      PROVE  TypeOK'
  <2>1. UNCHANGED <<pc, settled, attempt, selected, serving>> \/ End(r)
    BY <1>6 DEF UpstreamFails
  <2> QED BY <1>6, <2>1, EndTyped DEF UpstreamFails, Buckets
<1>7. ASSUME NEW r \in Requests, NEW tokens \in Usages, ResponseUsage(r, tokens)
      PROVE  TypeOK'
  <2>1. tokens \in Nat
    BY QuotaAssumption
  <2>2. Charge(r, tokens) => used' \in [Buckets -> Nat] /\ charged' \in [Requests -> Nat]
    BY <2>1 DEF Charge
  <2> QED BY <1>7, <2>2 DEF ResponseUsage, Buckets
<1>8. CASE UNCHANGED vars
  BY <1>8 DEF vars, Buckets
<1> QED BY <1>1, <1>2, <1>3, <1>4, <1>5, <1>6, <1>7, <1>8 DEF Next

-----------------------------------------------------------------------------
(* The cache.                                                               *)

LEMMA IndexNext ==
    ASSUME TypeOK, IndexMatchesPolicies, [Next]_vars
    PROVE  IndexMatchesPolicies'
<1>1. CASE UNCHANGED <<compiled, byCaller>>
  BY <1>1 DEF IndexMatchesPolicies
<1>2. ASSUME NEW p \in Policies, SyncPolicy(p)
      PROVE  IndexMatchesPolicies'
  BY <1>2 DEF SyncPolicy, IndexMatchesPolicies, Added, Removed, TypeOK
<1> QED BY <1>1, <1>2
        DEF Next, vars, cacheVars, Edit, NextPeriod, RequestHeaders, RequestBody, Admit, Reject,
            CheckFails, Refuse, StartAttempt, ResponseHeaders, Close, UpstreamHeaders, UpstreamFails,
            ResponseUsage

-----------------------------------------------------------------------------
(* Charges.                                                                 *)

LEMMA ChargedOnceNext ==
    ASSUME TypeOK, ChargedOnce, [Next]_vars
    PROVE  ChargedOnce'
<1> USE DEF ChargedOnce
<1>1. CASE UNCHANGED <<pc, settled, charged>>
  BY <1>1
<1>2. ASSUME NEW r \in Requests, NEW stage, stage # "closed" /\ pc[r] # "closed",
             Become(r, stage), UNCHANGED <<settled, charged>>
      PROVE  ChargedOnce'
  BY <1>2 DEF Become, TypeOK
<1>3. ASSUME NEW r \in Requests, End(r), UNCHANGED charged
      PROVE  ChargedOnce'
  BY <1>3 DEF End, Become, TypeOK
<1>4. ASSUME NEW r \in Requests, NEW tokens \in Usages, ResponseUsage(r, tokens)
      PROVE  ChargedOnce'
  <2>1. CASE UNCHANGED <<pc, settled, charged>>
    BY <2>1
  <2>2. CASE /\ tokens <= MaxTokens /\ ~ settled[r] /\ pc[r] = "responding" /\ UNCHANGED pc
             /\ settled' = [settled EXCEPT ![r] = TRUE]
             /\ charged' \in {charged, [charged EXCEPT ![r] = tokens]}
    BY <2>2 DEF TypeOK
  <2>3. tokens \in Nat /\ MaxTokens \in Nat
    BY QuotaAssumption
  <2>4. ~ settled[r] /\ pc[r] = "responding" => charged[r] = 0
    BY DEF TypeOK
  <2>5. Charge(r, tokens) /\ charged[r] = 0 => charged' \in {charged, [charged EXCEPT ![r] = tokens]}
    <3> SUFFICES ASSUME Charge(r, tokens), charged[r] = 0
                 PROVE  charged' \in {charged, [charged EXCEPT ![r] = tokens]}
      OBVIOUS
    <3>1. charged \in [Requests -> Nat]
      BY DEF TypeOK
    <3>2. charged' = [charged EXCEPT ![r] = IF session[r] = {} THEN charged[r] ELSE charged[r] + tokens]
      BY DEF Charge
    <3>3. CASE session[r] = {}
      BY <3>1, <3>2, <3>3
    <3>4. CASE session[r] # {}
      <4>1. charged[r] + tokens = tokens
        BY <2>3
      <4>2. (IF session[r] = {} THEN charged[r] ELSE charged[r] + tokens) = tokens
        BY <3>4, <4>1
      <4> QED BY <3>2, <4>2
    <3> QED BY <3>3, <3>4
  <2> QED BY <1>4, <2>1, <2>2, <2>3, <2>4, <2>5 DEF ResponseUsage
<1>5. ASSUME NEW r \in Requests,
             RequestHeaders(r) \/ RequestBody(r) \/ Admit(r) \/ ResponseHeaders(r)
      PROVE  ChargedOnce'
  BY <1>2, <1>5 DEF RequestHeaders, RequestBody, Admit, ResponseHeaders, quotaVars
<1>6. ASSUME NEW r \in Requests, Reject(r) \/ CheckFails(r) \/ Close(r)
      PROVE  ChargedOnce'
  BY <1>3, <1>6 DEF Reject, CheckFails, Refuse, Close
<1>7. ASSUME NEW r \in Requests, NEW n \in handling[r], UpstreamFails(r, n)
      PROVE  ChargedOnce'
  BY <1>1, <1>3, <1>7 DEF UpstreamFails
<1> QED BY <1>1, <1>4, <1>5, <1>6, <1>7
        DEF Next, vars, quotaVars, Edit, SyncPolicy, NextPeriod, StartAttempt, UpstreamHeaders

-----------------------------------------------------------------------------
(* Open requests and the limits.                                            *)

\* A step opens the request whose headers arrive, while there is room.
LEMMA OpenNext ==
    ASSUME TypeOK, OpenBounded, [Next]_vars
    PROVE  OpenBounded'
<1>1. CASE OpenRequests' \subseteq OpenRequests
  BY <1>1, FS_Subset, FS_CardinalityType, BoundAssumption DEF OpenBounded
<1>2. ASSUME NEW r \in Requests, RequestHeaders(r)
      PROVE  OpenBounded'
  <2>1. OpenRequests' = OpenRequests \cup {r}
    BY <1>2 DEF RequestHeaders, Become, OpenRequests, Open, TypeOK
  <2>2. Cardinality(OpenRequests) < MaxOpen
    BY <1>2 DEF RequestHeaders, OpenRequests
  <2>3. /\ IsFiniteSet(OpenRequests \cup {r})
        /\ Cardinality(OpenRequests \cup {r}) \in {Cardinality(OpenRequests), Cardinality(OpenRequests) + 1}
        /\ Cardinality(OpenRequests) \in Nat
    BY FS_AddElement, FS_CardinalityType DEF OpenBounded
  <2> QED BY <2>1, <2>2, <2>3, BoundAssumption DEF OpenBounded
<1>3. ASSUME NEW r \in Requests, NEW stage, pc[r] \notin {"new", "closed"}, Become(r, stage)
      PROVE  OpenRequests' \subseteq OpenRequests
  BY <1>3 DEF Become, OpenRequests, Open, TypeOK
<1>4. ASSUME NEW r \in Requests, End(r), pc[r] \notin {"new", "closed"}
      PROVE  OpenRequests' \subseteq OpenRequests
  BY <1>3, <1>4 DEF End
<1>5. UNCHANGED pc => OpenRequests' \subseteq OpenRequests
  BY DEF OpenRequests, Open
<1>6. ASSUME NEW r \in Requests,
             RequestBody(r) \/ Admit(r) \/ Reject(r) \/ CheckFails(r) \/ ResponseHeaders(r) \/ Close(r)
      PROVE  OpenRequests' \subseteq OpenRequests
  BY <1>3, <1>4, <1>6 DEF RequestBody, Admit, Reject, CheckFails, Refuse, ResponseHeaders, Close, Open
<1>7. ASSUME NEW r \in Requests, NEW n \in handling[r], UpstreamFails(r, n)
      PROVE  OpenRequests' \subseteq OpenRequests
  BY <1>4, <1>5, <1>7 DEF UpstreamFails, OpenRequests, Open
<1> QED BY <1>1, <1>2, <1>5, <1>6, <1>7
        DEF Next, vars, Edit, SyncPolicy, NextPeriod, StartAttempt, UpstreamHeaders, ResponseUsage

\* Fewer pending calls leave more room.
LEMMA WithinShrinks ==
    ASSUME NEW b \in Buckets, NEW u \in Nat, NEW P, IsFiniteSet(P), NEW Q \in SUBSET P,
           Within(b, u, P)
    PROVE  Within(b, u, Q)
<1>1. Cardinality(P) \in Nat /\ Cardinality(Q) \in Nat /\ Cardinality(Q) <= Cardinality(P)
  BY FS_Subset, FS_CardinalityType
<1>2. PICK m \in Nat : MaxTokens = m
  BY QuotaAssumption
<1>3. PICK x \in Nat, y \in Nat : x = Cardinality(P) /\ y = Cardinality(Q) /\ y <= x
  BY <1>1
<1>4. y * m <= x * m
  BY <1>3
<1>5. y * m \in Nat /\ x * m \in Nat
  OBVIOUS
<1>6. LimitOf[b[2]] \in Nat /\ MaxOpen * MaxTokens \in Nat
  BY QuotaAssumption, BoundAssumption DEF Buckets
<1> QED BY <1>2, <1>3, <1>4, <1>5, <1>6 DEF Within

\* A charge is no more than the room its call leaves.
LEMMA WithinCharged ==
    ASSUME NEW b \in Buckets, NEW u \in Nat, NEW P, IsFiniteSet(P), NEW r \in P,
           NEW tokens \in Nat, tokens <= MaxTokens, Within(b, u, P)
    PROVE  Within(b, u + tokens, P \ {r})
<1>1. Cardinality(P) \in Nat /\ Cardinality(P \ {r}) = Cardinality(P) - 1
      /\ Cardinality(P \ {r}) \in Nat
  BY FS_RemoveElement, FS_CardinalityType
<1>2. PICK m \in Nat : MaxTokens = m
  BY QuotaAssumption
<1>3. PICK y \in Nat : y = Cardinality(P \ {r}) /\ Cardinality(P) = y + 1
  BY <1>1
<1>4. (y + 1) * m = y * m + m /\ y * m \in Nat
  OBVIOUS
<1>5. LimitOf[b[2]] \in Nat /\ MaxOpen * MaxTokens \in Nat
  BY QuotaAssumption, BoundAssumption DEF Buckets
<1> QED BY <1>2, <1>3, <1>4, <1>5 DEF Within

\* An admitted call finds room with all calls that are open.
LEMMA WithinAdmitted ==
    ASSUME NEW b \in Buckets, NEW u \in Nat, u < LimitOf[b[2]],
           NEW P, IsFiniteSet(P), Cardinality(P) <= MaxOpen
    PROVE  Within(b, u, P)
<1>1. PICK m \in Nat : MaxTokens = m
  BY QuotaAssumption
<1>2. PICK x \in Nat : x = Cardinality(P)
  BY FS_CardinalityType
<1>3. PICK o \in Nat : MaxOpen = o /\ x <= o
  BY <1>2, BoundAssumption
<1>4. x * m <= o * m /\ x * m \in Nat /\ o * m \in Nat
  BY <1>3
<1>5. LimitOf[b[2]] \in Nat
  BY QuotaAssumption DEF Buckets
<1> QED BY <1>1, <1>2, <1>3, <1>4, <1>5 DEF Within

LEMMA PendingOpen ==
    ASSUME OpenBounded, TypeOK, NEW b \in Buckets
    PROVE  /\ IsFiniteSet(Pending(b)) /\ Cardinality(Pending(b)) <= MaxOpen
           /\ Cardinality(Pending(b)) \in Nat
<1>1. Pending(b) \subseteq OpenRequests
  BY DEF Pending, OpenRequests, Open
<1> QED BY <1>1, FS_Subset, FS_CardinalityType, BoundAssumption DEF OpenBounded

LEMMA OvershootNext ==
    ASSUME TypeOK, OpenBounded, OpenBounded', OvershootBounded, [Next]_vars, NEW b \in Buckets
    PROVE  Within(b, used'[b], Pending(b)')
<1>1. used[b] \in Nat /\ IsFiniteSet(Pending(b)) /\ Within(b, used[b], Pending(b))
  BY PendingOpen DEF TypeOK, OvershootBounded, Within
<1>2. PICK Q : Q = Pending(b)'
  OBVIOUS
<1>3. ASSUME used'[b] = used[b], Pending(b)' \subseteq Pending(b)
      PROVE  Within(b, used'[b], Pending(b)')
  BY <1>1, <1>3, WithinShrinks
<1>4. ASSUME NEW r \in Requests, NEW stage, Become(r, stage), stage \notin {"routed", "responding"},
             \A q \in Requests \ {r} : session'[q] = session[q] /\ settled'[q] = settled[q]
      PROVE  Pending(b)' \subseteq Pending(b)
  BY <1>4 DEF Become, Pending, TypeOK
<1>5. ASSUME NEW r \in Requests, End(r), session' \in {session, [session EXCEPT ![r] = {}]}
      PROVE  Pending(b)' \subseteq Pending(b)
  BY <1>4, <1>5 DEF End, TypeOK
<1>6. CASE UNCHANGED <<used, pc, session, settled>>
  BY <1>3, <1>6 DEF Pending
<1>7. ASSUME NEW r \in Requests, RequestHeaders(r)
      PROVE  used'[b] = used[b] /\ Pending(b)' \subseteq Pending(b)
  BY <1>4, <1>7 DEF RequestHeaders, redisVars, quotaVars
<1>8. ASSUME NEW r \in Requests, RequestBody(r)
      PROVE  used'[b] = used[b] /\ Pending(b)' \subseteq Pending(b)
  <2>1. CASE BucketsOf(r) = {}
    BY <1>8, <2>1 DEF RequestBody, Become, Pending, redisVars, TypeOK
  <2>2. CASE BucketsOf(r) # {}
    BY <1>4, <1>8, <2>2 DEF RequestBody, redisVars, TypeOK
  <2> QED BY <2>1, <2>2
<1>9. ASSUME NEW r \in Requests, Admit(r)
      PROVE  Within(b, used'[b], Pending(b)')
  <2>1. CASE b \notin session[r]
    BY <1>3, <1>9, <2>1 DEF Admit, Become, Pending, redisVars, quotaVars, TypeOK
  <2>2. CASE b \in session[r]
    <3>1. used'[b] = used[b] /\ used[b] < LimitOf[b[2]]
      BY <1>1, <1>9, <2>2, QuotaAssumption DEF Admit, Exhausted, redisVars, Buckets
    <3>2. Q \subseteq OpenRequests'
      BY <1>2 DEF Pending, OpenRequests, Open
    <3>3. IsFiniteSet(Q) /\ Cardinality(Q) <= MaxOpen
      BY <3>2, FS_Subset, FS_CardinalityType, BoundAssumption DEF OpenBounded
    <3> QED BY <1>1, <1>2, <3>1, <3>3, WithinAdmitted
  <2> QED BY <2>1, <2>2
<1>10. ASSUME NEW r \in Requests, Reject(r) \/ CheckFails(r)
       PROVE  used'[b] = used[b] /\ Pending(b)' \subseteq Pending(b)
  BY <1>5, <1>10 DEF Reject, CheckFails, Refuse, redisVars
<1>11. ASSUME NEW r \in Requests, ResponseHeaders(r)
       PROVE  used'[b] = used[b] /\ Pending(b)' \subseteq Pending(b)
  BY <1>11 DEF ResponseHeaders, Become, Pending, redisVars, quotaVars, TypeOK
<1>12. ASSUME NEW r \in Requests, Close(r)
       PROVE  used'[b] = used[b] /\ Pending(b)' \subseteq Pending(b)
  BY <1>5, <1>12 DEF Close, redisVars
<1>13. ASSUME NEW r \in Requests, NEW n \in handling[r], UpstreamFails(r, n)
       PROVE  used'[b] = used[b] /\ Pending(b)' \subseteq Pending(b)
  <2>1. used' = used /\ session' = session
    BY <1>13 DEF UpstreamFails, redisVars
  <2>2. CASE End(r)
    BY <1>5, <2>1, <2>2
  <2>3. CASE UNCHANGED <<pc, settled>>
    BY <2>1, <2>3 DEF Pending
  <2> QED BY <1>13, <2>1, <2>2, <2>3 DEF UpstreamFails
<1>14. ASSUME NEW r \in Requests, NEW tokens \in Usages, ResponseUsage(r, tokens)
       PROVE  Within(b, used'[b], Pending(b)')
  <2>1. pc' = pc /\ session' = session /\ pc[r] = "responding"
    BY <1>14 DEF ResponseUsage
  <2>2. CASE UNCHANGED <<used, settled, charged>>
    BY <1>6, <2>1, <2>2
  <2>3. CASE /\ tokens <= MaxTokens /\ ~ settled[r]
             /\ settled' = [settled EXCEPT ![r] = TRUE]
             /\ Charge(r, tokens) \/ UNCHANGED <<used, charged>>
    <3>1. Pending(b)' = Pending(b) \ {r}
      BY <2>1, <2>3 DEF Pending, TypeOK
    <3>2. used'[b] = used[b] \/ (b \in session[r] /\ used'[b] = used[b] + tokens)
      BY <2>3 DEF Charge
    <3>3. CASE used'[b] = used[b]
      BY <1>3, <3>1, <3>3
    <3>4. CASE b \in session[r] /\ used'[b] = used[b] + tokens
      <4>1. r \in Pending(b)
        BY <2>1, <2>3, <3>4 DEF Pending
      <4>2. tokens \in Nat
        BY QuotaAssumption
      <4> QED BY <1>1, <2>3, <3>1, <3>4, <4>1, <4>2, WithinCharged
    <3> QED BY <3>2, <3>3, <3>4
  <2>4. MaxTokens \in Nat /\ tokens \in Nat
    BY QuotaAssumption
  <2> QED BY <1>14, <2>2, <2>3, <2>4 DEF ResponseUsage
<1> QED BY <1>3, <1>6, <1>7, <1>8, <1>9, <1>10, <1>11, <1>12, <1>13, <1>14
        DEF Next, vars, redisVars, quotaVars, Edit, SyncPolicy, NextPeriod, StartAttempt, UpstreamHeaders

-----------------------------------------------------------------------------
(* The ledger.                                                              *)

\* The requests whose session has the bucket.
Holders(b) == {r \in Requests : b \in session[r]}

Started == {r \in Requests : pc[r] # "new"}

\* A session is taken once, when nothing is charged yet, and every bucket
\* has what the requests of its sessions were charged.
Ledger ==
    /\ IsFiniteSet(Started)
    /\ \A r \in Requests :
           /\ pc[r] \in {"new", "body"} => session[r] = {}
           /\ pc[r] \in {"new", "body", "checking"} => ~ settled[r]
    /\ \A b \in Buckets : used[b] = Sum(charged, Holders(b))

LEMMA HoldersFinite ==
    ASSUME TypeOK, Ledger
    PROVE  \A b \in Buckets : IsFiniteSet(Holders(b))
<1> SUFFICES ASSUME NEW b \in Buckets
             PROVE  IsFiniteSet(Holders(b))
  OBVIOUS
<1>1. Holders(b) \in SUBSET Started
  BY DEF Holders, Started, Ledger
<1> QED BY <1>1, FS_Subset DEF Ledger

\* A step that neither takes sessions nor charges leaves the books alone.
LEMMA LedgerStays ==
    ASSUME TypeOK, Ledger, NEW r \in Requests, NEW stage \in {"body", "routed", "responding", "closed"},
           stage = "body" => session[r] = {},
           Become(r, stage), used' = used, session' = session, charged' = charged,
           \/ settled' = settled /\ (stage = "body" => ~ settled[r])
           \/ settled' = [settled EXCEPT ![r] = FALSE]
    PROVE  Ledger'
<1>1. IsFiniteSet(Started')
  <2>1. Started' \in SUBSET (Started \cup {r})
    BY DEF Started, Become, TypeOK
  <2>2. IsFiniteSet(Started \cup {r})
    BY FS_AddElement DEF Ledger
  <2> QED BY <2>1, <2>2, FS_Subset
<1>2. ASSUME NEW q \in Requests
      PROVE  /\ pc'[q] \in {"new", "body"} => session'[q] = {}
             /\ pc'[q] \in {"new", "body", "checking"} => ~ settled'[q]
  BY DEF Ledger, Become, TypeOK
<1>3. ASSUME NEW b \in Buckets
      PROVE  used'[b] = Sum(charged', Holders(b)')
  BY DEF Ledger, Holders
<1> QED BY <1>1, <1>2, <1>3 DEF Ledger, Buckets

\* Charged or not, used and the sum grow by the same tokens.
LEMMA LedgerCharged ==
    ASSUME TypeOK, Ledger, NEW r \in Requests, NEW tokens \in Nat, Charge(r, tokens),
           NEW b \in Buckets, UNCHANGED session
    PROVE  used'[b] = Sum(charged', Holders(b)')
<1>1. Holders(b)' = Holders(b) /\ IsFiniteSet(Holders(b)) /\ Holders(b) \subseteq Requests
  BY HoldersFinite DEF Holders
<1>2. used[b] = Sum(charged, Holders(b))
  BY DEF Ledger
<1>3. \A q \in Holders(b) : charged[q] \in Nat
  BY <1>1 DEF TypeOK
<1>4. CASE r \in Holders(b)
  <2>1. b \in session[r]
    BY <1>4 DEF Holders
  <2>2. used'[b] = used[b] + tokens
    BY <2>1 DEF Charge
  <2>3. charged'[r] = charged[r] + tokens /\ \A q \in Holders(b) \ {r} : charged'[q] = charged[q]
    BY <1>1, <2>1 DEF Charge, TypeOK
  <2>4. Sum(charged', Holders(b)) = Sum(charged, Holders(b)) + tokens
    BY <1>1, <1>3, <1>4, <2>3, SumChanged
  <2> QED BY <1>1, <1>2, <2>2, <2>4
<1>5. CASE r \notin Holders(b)
  <2>1. used'[b] = used[b]
    BY <1>5 DEF Charge, Holders
  <2>2. \A q \in Holders(b) : charged'[q] = charged[q]
    BY <1>1, <1>5 DEF Charge, TypeOK
  <2>3. Sum(charged', Holders(b)) = Sum(charged, Holders(b))
    BY <1>1, <2>2, SumOfEqual
  <2> QED BY <1>1, <1>2, <2>1, <2>3
<1> QED BY <1>4, <1>5

\* A request that is not charged joins or leaves sums without a trace.
LEMMA LedgerSession ==
    ASSUME TypeOK, Ledger, NEW r \in Requests, charged[r] = 0, NEW X \in SUBSET Buckets,
           session' = [session EXCEPT ![r] = X], UNCHANGED <<used, charged>>,
           NEW b \in Buckets
    PROVE  used'[b] = Sum(charged', Holders(b)')
<1> DEFINE others == Holders(b) \ {r}
<1>1. IsFiniteSet(Holders(b)) /\ Holders(b) \subseteq Requests
  BY HoldersFinite DEF Holders
<1>2. IsFiniteSet(others)
  BY <1>1, FS_Subset
<1>3. \A q \in Requests : charged[q] \in Nat
  BY DEF TypeOK
<1>4. Holders(b)' = others \/ Holders(b)' = others \cup {r}
  BY DEF Holders, TypeOK
<1>5. Holders(b) = others \/ Holders(b) = others \cup {r}
  OBVIOUS
<1>6. r \notin others /\ \A q \in others : charged[q] \in Nat
  BY <1>1, <1>3
<1> HIDE DEF others
<1>7. Sum(charged, others \cup {r}) = Sum(charged, others)
  <2>1. Sum(charged, others \cup {r}) = Sum(charged, others) + charged[r]
    BY <1>2, <1>3, <1>6, SumWith
  <2>2. Sum(charged, others) \in Nat
    BY <1>2, <1>6, SumIsNat
  <2> QED BY <2>1, <2>2
<1>8. used[b] = Sum(charged, Holders(b))
  BY DEF Ledger
<1> QED BY <1>4, <1>5, <1>7, <1>8

LEMMA LedgerNext ==
    ASSUME TypeOK, ChargedOnce, Ledger, [Next]_vars
    PROVE  Ledger'
<1>1. CASE UNCHANGED <<used, pc, settled, session, charged>>
  BY <1>1 DEF Ledger, Holders, Started
<1>2. ASSUME NEW r \in Requests, End(r), Open(r), UNCHANGED <<used, session, charged>>
      PROVE  Ledger'
  <2>1. Become(r, "closed") /\ settled' = [settled EXCEPT ![r] = FALSE]
    BY <1>2 DEF End, Open
  <2> QED BY <1>2, <2>1, LedgerStays
<1>3. ASSUME NEW r \in Requests, RequestHeaders(r) \/ Admit(r) \/ ResponseHeaders(r) \/ Close(r)
      PROVE  Ledger'
  <2>1. CASE RequestHeaders(r)
    <3>1. session[r] = {} /\ ~ settled[r] /\ pc[r] = "new" /\ Become(r, "body")
      BY <2>1 DEF RequestHeaders, Ledger
    <3>2. UNCHANGED <<used, settled, session, charged>>
      BY <2>1 DEF RequestHeaders, redisVars, quotaVars
    <3> QED BY <3>1, <3>2, LedgerStays
  <2>2. CASE Admit(r)
    <3>1. /\ Become(r, "routed")
          /\ UNCHANGED <<used, settled, session, charged>>
      BY <2>2 DEF Admit, redisVars, quotaVars
    <3> QED BY <3>1, LedgerStays
  <2>3. CASE ResponseHeaders(r)
    <3>1. /\ Become(r, "responding")
          /\ UNCHANGED <<used, settled, session, charged>>
      BY <2>3 DEF ResponseHeaders, redisVars, quotaVars
    <3> QED BY <3>1, LedgerStays
  <2>4. CASE Close(r)
    BY <2>4, <1>2 DEF Close, redisVars
  <2> QED BY <1>3, <2>1, <2>2, <2>3, <2>4
<1>4. ASSUME NEW r \in Requests, NEW n \in handling[r], UpstreamFails(r, n)
      PROVE  Ledger'
  <2>1. CASE n = attempt[r] /\ pc[r] = "routed"
    <3>1. End(r) /\ Open(r)
      BY <1>4, <2>1 DEF UpstreamFails, Open
    <3>2. UNCHANGED <<used, session, charged>>
      BY <1>4 DEF UpstreamFails, redisVars
    <3> QED BY <3>1, <3>2, <1>2
  <2>2. CASE ~ (n = attempt[r] /\ pc[r] = "routed")
    BY <1>1, <1>4, <2>2 DEF UpstreamFails, redisVars
  <2> QED BY <2>1, <2>2
<1>5. ASSUME NEW r \in Requests, RequestBody(r) \/ Reject(r) \/ CheckFails(r)
      PROVE  Ledger'
  <2>1. /\ pc[r] \in {"body", "checking"} /\ ~ settled[r] /\ charged[r] = 0
        /\ UNCHANGED <<used, charged>>
    BY <1>5 DEF RequestBody, Reject, CheckFails, Refuse, Ledger, ChargedOnce, redisVars
  <2>2. PICK X \in SUBSET Buckets, stage \in {"checking", "routed", "closed"} :
          /\ session' = [session EXCEPT ![r] = X]
          /\ pc' = [pc EXCEPT ![r] = stage]
          /\ settled' \in {settled, [settled EXCEPT ![r] = FALSE]}
    BY <1>5, BucketsType DEF RequestBody, Reject, CheckFails, Refuse, End, Become
  <2>3. IsFiniteSet(Started')
    <3>1. Started' = Started
      BY <2>1, <2>2 DEF Started, TypeOK
    <3> QED BY <3>1 DEF Ledger
  <2>4. ASSUME NEW q \in Requests
        PROVE  /\ pc'[q] \in {"new", "body"} => session'[q] = {}
               /\ pc'[q] \in {"new", "body", "checking"} => ~ settled'[q]
    BY <2>1, <2>2 DEF Ledger, TypeOK
  <2>5. ASSUME NEW b \in Buckets
        PROVE  used'[b] = Sum(charged', Holders(b)')
    BY <2>1, <2>2, LedgerSession
  <2> QED BY <2>3, <2>4, <2>5 DEF Ledger, Buckets
<1>6. ASSUME NEW r \in Requests, NEW tokens \in Usages, ResponseUsage(r, tokens)
      PROVE  Ledger'
  <2>1. CASE UNCHANGED <<used, settled, charged>>
    BY <1>1, <1>6, <2>1 DEF ResponseUsage
  <2>2. CASE /\ settled' = [settled EXCEPT ![r] = TRUE]
             /\ Charge(r, tokens) \/ UNCHANGED <<used, charged>>
    <3>1. pc[r] = "responding" /\ pc' = pc /\ session' = session /\ tokens \in Nat
      BY <1>6, QuotaAssumption DEF ResponseUsage
    <3>2. IsFiniteSet(Started')
      BY <3>1 DEF Ledger, Started
    <3>3. ASSUME NEW q \in Requests
          PROVE  /\ pc'[q] \in {"new", "body"} => session'[q] = {}
                 /\ pc'[q] \in {"new", "body", "checking"} => ~ settled'[q]
      BY <2>2, <3>1 DEF Ledger, TypeOK
    <3>4. ASSUME NEW b \in Buckets
          PROVE  used'[b] = Sum(charged', Holders(b)')
      <4>1. CASE Charge(r, tokens)
        BY <3>1, <4>1, LedgerCharged
      <4>2. CASE UNCHANGED <<used, charged>>
        BY <3>1, <4>2 DEF Ledger, Holders
      <4> QED BY <2>2, <4>1, <4>2
    <3> QED BY <3>2, <3>3, <3>4 DEF Ledger, Buckets
  <2> QED BY <1>6, <2>1, <2>2 DEF ResponseUsage
<1> QED BY <1>1, <1>3, <1>4, <1>5, <1>6
        DEF Next, vars, redisVars, quotaVars, Edit, SyncPolicy, NextPeriod, StartAttempt, UpstreamHeaders

-----------------------------------------------------------------------------
(* Theorems.                                                                *)

LEMMA Initially == Init => IInv
<1> SUFFICES ASSUME Init
             PROVE  IInv
  OBVIOUS
<1>1. TypeOK
  BY BoundAssumption DEF Init, TypeOK
<1>2. IndexMatchesPolicies
  BY DEF Init, IndexMatchesPolicies
<1>3. ChargedOnce
  BY QuotaAssumption DEF Init, ChargedOnce
<1>4. OpenBounded
  <2>1. OpenRequests = {}
    BY DEF Init, OpenRequests, Open
  <2> QED BY <2>1, FS_EmptySet, BoundAssumption DEF OpenBounded
<1>5. ASSUME NEW b \in Buckets
      PROVE  Within(b, used[b], Pending(b))
  <2>1. Pending(b) = {} /\ used[b] = 0 /\ LimitOf[b[2]] \in Nat \ {0}
    BY QuotaAssumption DEF Init, Pending, Buckets
  <2> QED BY <2>1, FS_EmptySet, BoundAssumption, WithinAdmitted
<1>6. OvershootBounded
  BY <1>5 DEF OvershootBounded, Within
<1> QED BY <1>1, <1>2, <1>3, <1>4, <1>6 DEF IInv

LEMMA Inductive == IInv /\ [Next]_vars => IInv'
<1> SUFFICES ASSUME IInv, [Next]_vars
             PROVE  IInv'
  OBVIOUS
<1>1. TypeOK' /\ IndexMatchesPolicies' /\ ChargedOnce' /\ OpenBounded'
  BY TypeNext, IndexNext, ChargedOnceNext, OpenNext DEF IInv
<1>2. ASSUME NEW b \in Buckets
      PROVE  Within(b, used'[b], Pending(b)')
  BY <1>1, OvershootNext DEF IInv
<1>3. OvershootBounded'
  BY <1>2 DEF OvershootBounded, Within
<1> QED BY <1>1, <1>3 DEF IInv

LEMMA Invariance == Spec => []IInv
BY Initially, Inductive, PTL DEF Spec

\* Every variable has its type: sessions are of buckets, counters natural.
THEOREM TypeCorrect == Spec => []TypeOK
<1>1. IInv => TypeOK
  BY DEF IInv
<1> QED BY <1>1, Invariance, PTL

\* The caller index of the cache is the policies in force, after any
\* sequence of stores and removals.
THEOREM IndexCorrect == Spec => []IndexMatchesPolicies
<1>1. IInv => IndexMatchesPolicies
  BY DEF IInv
<1> QED BY <1>1, Invariance, PTL

\* No call is charged twice, or with more than the processor settles.
THEOREM ChargedAtMostOnce == Spec => []ChargedOnce
<1>1. IInv => ChargedOnce
  BY DEF IInv
<1> QED BY <1>1, Invariance, PTL

\* However many callers and requests race between a check and its charge, a
\* bucket goes over its limit by what the requests open together can charge.
THEOREM OvershootIsBounded == Spec => []OvershootBounded
<1>1. IInv => OvershootBounded
  BY DEF IInv
<1> QED BY <1>1, Invariance, PTL

LEMMA LedgerInvariance == Spec => []Ledger
<1>1. Init => Ledger
  <2> SUFFICES ASSUME Init
               PROVE  Ledger
    OBVIOUS
  <2>1. Started = {}
    BY DEF Init, Started
  <2>2. ASSUME NEW b \in Buckets
        PROVE  used[b] = Sum(charged, Holders(b))
    <3>1. Holders(b) = {} /\ used[b] = 0
      BY DEF Init, Holders
    <3> QED BY <3>1, SumOfNone
  <2> QED BY <2>1, <2>2, FS_EmptySet DEF Init, Ledger
<1>2. IInv /\ Ledger /\ [Next]_vars => Ledger'
  BY LedgerNext DEF IInv
<1> QED BY <1>1, <1>2, Invariance, PTL DEF Spec

\* Every bucket holds exactly what the calls checked against it were charged,
\* each once: no token is lost, counted twice or moved to another bucket,
\* whatever became of the policies and the period meanwhile.
THEOREM LedgerCorrect == Spec => []LedgerBalanced
<1>1. IInv /\ Ledger => LedgerBalanced
  BY DEF IInv, ChargedOnce, Ledger, Holders, Sum, LedgerBalanced
<1> QED BY <1>1, Invariance, LedgerInvariance, PTL

=============================================================================
