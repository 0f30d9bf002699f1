------------------------------ MODULE Exchange ------------------------------
(***************************************************************************)
(* Model calls through ingate-ai-extproc: the quota check before a call, the *)
(* upstream attempts Envoy makes for it, the settlement of its tokens, and   *)
(* the cache that gives a caller its quota policies.                        *)
(*                                                                         *)
(* A request has one downstream stream, whose end removes it from            *)
(* requestsByID, and one upstream stream for each attempt; every stream has  *)
(* a goroutine of its own.  The counters are in Redis: one MGET reads all    *)
(* buckets of a caller and one script adds to all of them, each at one       *)
(* moment.  An attempt stands for the model service Envoy picked for it.     *)
(***************************************************************************)
EXTENDS Naturals, FiniteSets, FiniteSetsExt

CONSTANTS
    Requests,
    Callers,
    CallerOf,     \* the caller ext_authz identified, or None
    Policies,     \* limits of token quota policies, each of one period
    LimitOf,      \* the tokens a limit allows in a period
    Usages,       \* token counts a provider may report
    MaxTokens,    \* the largest count the processor settles
    MaxOpen,      \* bound: requests Envoy has open at a time
    MaxLate,      \* bound: closed requests still being handled when one opens
    MaxAttempts,  \* bound: attempts of a request
    MaxPeriods,   \* bound: periods that pass
    MaxEdits,     \* bound: edits of policies
    None

ASSUME CallerAssumption ==
    /\ CallerOf \in [Requests -> Callers \cup {None}]
    /\ None \notin Callers
ASSUME QuotaAssumption ==
    /\ LimitOf \in [Policies -> Nat \ {0}]
    /\ Usages \subseteq Nat
    /\ MaxTokens \in Nat
ASSUME BoundAssumption == {MaxOpen, MaxLate, MaxAttempts, MaxPeriods, MaxEdits} \subseteq Nat

VARIABLES
    (* TokenQuotaPolicy objects and ConfigCache *)
    targets,     \* the callers a policy applies to, none if it is disabled
    compiled,    \* tokenQuotaPolicies: the targets of the policies in force
    byCaller,    \* policiesByCaller
    edits,
    (* Redis *)
    used,        \* tokens counted in a bucket
    period,      \* the present period
    (* a request *)
    pc,          \* where its downstream stream is
    session,     \* the buckets it was checked against
    settled,     \* takeQuotaSession was called
    attempt,     \* the last attempt Envoy started, 0 before the first
    handling,    \* attempts whose upstream stream is still being handled
    selected,    \* selectedModelService: the attempt prepared last
    serving,     \* the attempt whose response Envoy passes on
    charged      \* tokens Redis counted for it

cacheVars == <<targets, compiled, byCaller, edits>>
redisVars == <<used, period>>
attemptVars == <<attempt, handling, selected, serving>>
quotaVars == <<session, settled, charged>>
vars == <<cacheVars, redisVars, pc, attemptVars, quotaVars>>

\* A bucket counts a caller's tokens under a policy in one of its periods.
Buckets == Callers \X Policies \X (0 .. MaxPeriods)

Open(r) == pc[r] \notin {"new", "closed"}

\* The initial list of policies is in the cache before requests come.
Init ==
    /\ targets \in [Policies -> SUBSET Callers]
    /\ compiled = targets
    /\ byCaller = [c \in Callers |-> {p \in Policies : c \in targets[p]}]
    /\ edits = 0
    /\ used = [b \in Buckets |-> 0]
    /\ period = 0
    /\ pc = [r \in Requests |-> "new"]
    /\ session = [r \in Requests |-> {}]
    /\ settled = [r \in Requests |-> FALSE]
    /\ attempt = [r \in Requests |-> 0]
    /\ handling = [r \in Requests |-> {}]
    /\ selected = [r \in Requests |-> 0]
    /\ serving = [r \in Requests |-> 0]
    /\ charged = [r \in Requests |-> 0]

(***************************************************************************)
(* Policies and the informer.                                              *)
(***************************************************************************)
\* A policy is created, edited, disabled, made invalid or deleted.
Edit(p) ==
    /\ edits < MaxEdits
    /\ \E callers \in SUBSET Callers \ {targets[p]} :
           targets' = [targets EXCEPT ![p] = callers]
    /\ edits' = edits + 1
    /\ UNCHANGED <<compiled, byCaller, redisVars, pc, attemptVars, quotaVars>>

\* Mutant: a policy is stored over its old version.
NotRemoved(p, index) == index

\* removeTokenQuotaPolicyLocked
Removed(p, index) ==
    [c \in Callers |-> IF c \in compiled[p] THEN index[c] \ {p} ELSE index[c]]

\* storeTokenQuotaPolicy
Added(p, index) ==
    [c \in Callers |-> IF c \in targets[p] THEN index[c] \cup {p} ELSE index[c]]

\* Mutant: a policy that no longer applies keeps its last version in force.
SyncValidPolicy(p) ==
    /\ compiled[p] /= targets[p]
    /\ targets[p] /= {}
    /\ compiled' = [compiled EXCEPT ![p] = targets[p]]
    /\ byCaller' = Added(p, Removed(p, byCaller))
    /\ UNCHANGED <<targets, edits, redisVars, pc, attemptVars, quotaVars>>

\* The handler sees the latest state of a policy that changed.
SyncPolicy(p) ==
    /\ compiled[p] /= targets[p]
    /\ compiled' = [compiled EXCEPT ![p] = targets[p]]
    /\ byCaller' = Added(p, Removed(p, byCaller))
    /\ UNCHANGED <<targets, edits, redisVars, pc, attemptVars, quotaVars>>

NextPeriod ==
    /\ period < MaxPeriods
    /\ period' = period + 1
    /\ UNCHANGED <<cacheVars, used, pc, attemptVars, quotaVars>>

(***************************************************************************)
(* The downstream stream, up to the first attempt.                         *)
(***************************************************************************)
Become(r, stage) == pc' = [pc EXCEPT ![r] = stage]

\* The stream ends and the request's state goes with its entry in
\* requestsByID; handlers that still run find nothing.
End(r) ==
    /\ Become(r, "closed")
    /\ settled' = [settled EXCEPT ![r] = FALSE]
    /\ attempt' = [attempt EXCEPT ![r] = 0]
    /\ selected' = [selected EXCEPT ![r] = 0]
    /\ serving' = [serving EXCEPT ![r] = 0]

RequestHeaders(r) ==
    /\ pc[r] = "new"
    /\ Cardinality({q \in Requests : Open(q)}) < MaxOpen
    /\ Cardinality({q \in Requests : pc[q] = "closed" /\ handling[q] /= {}}) <= MaxLate
    /\ Become(r, "body")
    /\ UNCHANGED <<cacheVars, redisVars, attemptVars, quotaVars>>

\* currentBuckets: the policies in force and the period, read once.
BucketsOf(r) ==
    IF CallerOf[r] = None
    THEN {}
    ELSE {CallerOf[r]} \X byCaller[CallerOf[r]] \X {period}

\* A request without buckets goes on unchecked.
RequestBody(r) ==
    /\ pc[r] = "body"
    /\ session' = [session EXCEPT ![r] = BucketsOf(r)]
    /\ Become(r, IF BucketsOf(r) = {} THEN "routed" ELSE "checking")
    /\ UNCHANGED <<cacheVars, redisVars, attemptVars, settled, charged>>

\* Mutant: a bucket is exhausted only above its limit.
ExhaustedAbove(b) == used[b] > LimitOf[b[2]]

Exhausted(b) == used[b] >= LimitOf[b[2]]

Refuse(r) ==
    /\ End(r)
    /\ session' = [session EXCEPT ![r] = {}]
    /\ UNCHANGED <<cacheVars, redisVars, handling, charged>>

Admit(r) ==
    /\ pc[r] = "checking"
    /\ \A b \in session[r] : ~ Exhausted(b)
    /\ Become(r, "routed")
    /\ UNCHANGED <<cacheVars, redisVars, attemptVars, quotaVars>>

Reject(r) ==
    /\ pc[r] = "checking"
    /\ \E b \in session[r] : Exhausted(b)
    /\ Refuse(r)

\* Redis does not answer: the request fails.
CheckFails(r) ==
    /\ pc[r] = "checking"
    /\ Refuse(r)

(***************************************************************************)
(* Attempts.                                                               *)
(***************************************************************************)
\* Envoy's router picks a service, at first or for a retry.  A per-try timeout may
\* give an attempt up while its stream is being handled.
StartAttempt(r) ==
    /\ pc[r] = "routed"
    /\ attempt[r] < MaxAttempts
    /\ attempt' = [attempt EXCEPT ![r] = @ + 1]
    /\ handling' = [handling EXCEPT ![r] = @ \cup {attempt[r] + 1}]
    /\ UNCHANGED <<cacheVars, redisVars, pc, selected, serving, quotaVars>>

\* handleUpstreamHeaders of attempt n; it finds no request once the
\* downstream stream is gone.
UpstreamHeaders(r, n) ==
    /\ n \in handling[r]
    /\ handling' = [handling EXCEPT ![r] = @ \ {n}]
    /\ selected' = IF Open(r) THEN [selected EXCEPT ![r] = n] ELSE selected
    /\ UNCHANGED <<cacheVars, redisVars, pc, attempt, serving, quotaVars>>

\* No key for the service, or no conversion of the body: Envoy answers
\* itself, unless it gave the attempt up.
UpstreamFails(r, n) ==
    /\ n \in handling[r]
    /\ handling' = [handling EXCEPT ![r] = @ \ {n}]
    /\ IF n = attempt[r] /\ pc[r] = "routed"
       THEN End(r)
       ELSE UNCHANGED <<pc, settled, attempt, selected, serving>>
    /\ UNCHANGED <<cacheVars, redisVars, session, charged>>

(***************************************************************************)
(* The response.                                                           *)
(***************************************************************************)
\* The last attempt's response arrives; only its request was sent.
ResponseHeaders(r) ==
    /\ pc[r] = "routed"
    /\ attempt[r] > 0
    /\ attempt[r] \notin handling[r]
    /\ serving' = [serving EXCEPT ![r] = attempt[r]]
    /\ Become(r, "responding")
    /\ UNCHANGED <<cacheVars, redisVars, attempt, handling, selected, quotaVars>>

\* Mutant: the tokens go to the buckets the caller has by now.
ChargeNow(r, tokens) ==
    /\ used' = [b \in Buckets |-> IF b \in BucketsOf(r) THEN used[b] + tokens ELSE used[b]]
    /\ charged' = [charged EXCEPT ![r] = IF BucketsOf(r) = {} THEN @ ELSE @ + tokens]

\* Redis adds the tokens to all buckets of the session or to none.
Charge(r, tokens) ==
    /\ used' = [b \in Buckets |-> IF b \in session[r] THEN used[b] + tokens ELSE used[b]]
    /\ charged' = [charged EXCEPT ![r] = IF session[r] = {} THEN @ ELSE @ + tokens]

\* settleQuota on a chunk with a final usage.  The script may have run
\* although its error is logged, and may not have run at all.
ResponseUsage(r, tokens) ==
    /\ pc[r] = "responding"
    /\ IF tokens > MaxTokens \/ settled[r]
       THEN UNCHANGED <<used, settled, charged>>
       ELSE /\ settled' = [settled EXCEPT ![r] = TRUE]
            /\ Charge(r, tokens) \/ UNCHANGED <<used, charged>>
    /\ UNCHANGED <<cacheVars, period, pc, attemptVars, session>>

\* The downstream stream ends: the response is complete, the client or the
\* process is gone, or the body or the response cannot be converted.
Close(r) ==
    /\ Open(r)
    /\ End(r)
    /\ UNCHANGED <<cacheVars, redisVars, handling, session, charged>>

Next ==
    \/ NextPeriod
    \/ \E p \in Policies : Edit(p) \/ SyncPolicy(p)
    \/ \E r \in Requests :
           \/ RequestHeaders(r) \/ RequestBody(r)
           \/ Admit(r) \/ Reject(r) \/ CheckFails(r)
           \/ StartAttempt(r) \/ ResponseHeaders(r) \/ Close(r)
           \/ \E n \in handling[r] : UpstreamHeaders(r, n) \/ UpstreamFails(r, n)
           \/ \E tokens \in Usages : ResponseUsage(r, tokens)

Spec == Init /\ [][Next]_vars

\* The informer delivers every change.
Fairness == \A p \in Policies : WF_vars(SyncPolicy(p))

LiveSpec == Spec /\ Fairness

(***************************************************************************)
(* Properties.                                                             *)
(***************************************************************************)
TypeOK ==
    /\ targets \in [Policies -> SUBSET Callers]
    /\ compiled \in [Policies -> SUBSET Callers]
    /\ byCaller \in [Callers -> SUBSET Policies]
    /\ edits \in 0 .. MaxEdits
    /\ used \in [Buckets -> Nat]
    /\ period \in 0 .. MaxPeriods
    /\ pc \in [Requests -> {"new", "body", "checking", "routed", "responding", "closed"}]
    /\ session \in [Requests -> SUBSET Buckets]
    /\ settled \in [Requests -> BOOLEAN]
    /\ attempt \in [Requests -> 0 .. MaxAttempts]
    /\ handling \in [Requests -> SUBSET (1 .. MaxAttempts)]
    /\ selected \in [Requests -> 0 .. MaxAttempts]
    /\ serving \in [Requests -> 0 .. MaxAttempts]
    /\ charged \in [Requests -> Nat]

\* A call is charged to the buckets it was checked against, to all of them
\* alike and at most once, whatever became of policies and period while the
\* model answered.
LedgerBalanced ==
    /\ \A r \in Requests : charged[r] <= MaxTokens
    /\ \A b \in Buckets :
           used[b] = MapThenSumSet(LAMBDA r : charged[r], {r \in Requests : b \in session[r]})

\* Admitted calls that may still be charged to b.
Pending(b) ==
    {r \in Requests : b \in session[r] /\ ~ settled[r] /\ pc[r] \in {"routed", "responding"}}

\* A bucket goes over its limit by no more than the calls that were open
\* together when the last of them was admitted.
OvershootBounded ==
    \A b \in Buckets :
        LET pending == Cardinality(Pending(b)) IN
        used[b] + pending * MaxTokens <= LimitOf[b[2]] - 1 + MaxOpen * MaxTokens

\* The response is converted and metered for the service that sent it: what
\* exchange.go:36 says of selectedModelService.  It does NOT hold: the late handler
\* of an attempt Envoy gave up stores its service over that of the next one.
SelectedIsServing ==
    \A r \in Requests : pc[r] = "responding" => selected[r] = serving[r]

\* The index of callers says the same as the policies in force.
IndexMatchesPolicies ==
    \A c \in Callers : byCaller[c] = {p \in Policies : c \in compiled[p]}

\* Once nobody edits policies every caller has exactly its own.
PoliciesArrive ==
    <>[](\A c \in Callers : byCaller[c] = {p \in Policies : c \in targets[p]})

=============================================================================
