------------------------------ MODULE Reconcile ------------------------------
(***************************************************************************)
(* ingate-controller's reconcile loop, the store of Wasm modules it fills    *)
(* and the status it writes.                                               *)
(*                                                                         *)
(* One worker takes keys from a queue.  For desired-config it lists the      *)
(* resources, tells the store what to keep, resolves the module of every     *)
(* plugin, submits the compiled configuration to Delivery and writes the     *)
(* status; for programmed-status it refreshes what to keep and the status.   *)
(* Delivery (module Delivery) appears by what it tells this loop: the        *)
(* candidate becomes active, or is withdrawn and its failure recorded, at    *)
(* any moment between two steps of the worker.                              *)
(*                                                                         *)
(* A generation <<p, n>> is the n-th spec of plugin p.  A route stands for   *)
(* the resources without modules; its n-th spec is revision n.              *)
(***************************************************************************)
EXTENDS Naturals, Sequences, SequencesExt, FiniteSets, FiniteSetsExt

CONSTANTS
    Plugins,
    Needed,       \* plugins an enabled policy depends on
    Sources,      \* artifacts, each a URL with its digest
    ModuleOf,     \* the module in an artifact
    Always,       \* artifacts of plugins with pull policy Always
    SizeOf,       \* of a module
    MaxCache,     \* max_cache_bytes
    Invalid,      \* revisions of the route that do not compile
    MaxEdits,     \* bound: edits of resources
    MaxFaults,    \* bound: failures and restarts
    None

Modules == {ModuleOf[s] : s \in Sources}

ASSUME SourceAssumption ==
    /\ Needed \subseteq Plugins
    /\ Always \subseteq Sources
    /\ None \notin Sources
    /\ SizeOf \in [Modules -> Nat \ {0}]
    /\ MaxCache \in Nat
ASSUME NoneAssumption ==
    LET Config == [route : Nat, plugins : SUBSET (Plugins \X Nat)] IN
    /\ None \notin Config
    /\ None \notin [reason : {"rejected", "delivery"}, config : Config]
ASSUME BoundAssumption ==
    /\ Invalid \subseteq Nat
    /\ {MaxEdits, MaxFaults} \subseteq Nat

VARIABLES
    (* the API server *)
    revision,    \* the route's generation
    specs,       \* the artifact of each spec of a plugin, None when deleted
    conditions,  \* the route's Accepted and Programmed conditions
    (* the cache directory *)
    files,       \* modules with a file
    older,       \* <<m, n>>: m was used before n
    pointers,    \* artifacts with a source pointer
    (* Store, Delivery.Status and what they know of each other *)
    resolved,    \* generations in Store.resolved
    active,      \* the active configuration
    candidate,
    failure,     \* LastFailure
    (* Controller *)
    signals,     \* keys whose Changes channel holds a notification
    queue,
    delayed,     \* keys added again later
    pc,          \* idle, resolve, read, write or programmed
    listed,      \* the resources the worker works on
    todo,        \* plugins still to resolve
    missing,     \* plugins without a module
    undelivered, \* deliveryErr
    view,        \* the delivery status it is going to write
    edits,       \* how often resources were edited
    faults

apiVars == <<revision, specs, edits, conditions>>
storeVars == <<files, older, pointers, resolved>>
deliveryVars == <<active, candidate, failure>>
queueVars == <<signals, queue, delayed>>
workVars == <<pc, listed, todo, missing, undelivered, view>>
vars == <<apiVars, storeVars, deliveryVars, queueVars, workVars, faults>>

NoView == [active |-> 0, failed |-> 0, reason |-> "none"]

Keys == {"desired", "programmed"}

Installed(p) == specs[p] /= <<>> /\ Last(specs[p]) /= None

\* ResourceGenerations of the resources as they are now.
Declared ==
    [route |-> revision,
     plugins |-> {<<p, Len(specs[p])>> : p \in {q \in Plugins : Installed(q)}}]

Artifact(g) == specs[g[1]][g[2]]
Module(g) == ModuleOf[Artifact(g)]

\* The modules a configuration makes Envoy load.
ModulesOf(config) == {Module(g) : g \in {h \in config.plugins : h[1] \in Needed}}

\* Result.Version: resources that differ may compile to the same version.
SameVersion(a, b) == a.route = b.route /\ ModulesOf(a) = ModulesOf(b)

Init ==
    /\ revision = 1
    /\ specs \in [Plugins -> {<<>>} \cup {<<s>> : s \in Sources}]
    /\ conditions = [accepted |-> 0, valid |-> TRUE, programmed |-> 0, is |-> "pending"]
    /\ files = {}
    /\ older = {}
    /\ pointers = {}
    /\ resolved = {}
    /\ active = None
    /\ candidate = None
    /\ failure = None
    /\ signals = {}
    /\ queue = <<"desired">>
    /\ delayed = {}
    /\ pc = "idle"
    /\ listed = None
    /\ todo = {}
    /\ missing = {}
    /\ undelivered = FALSE
    /\ view = NoView
    /\ edits = 0
    /\ faults = 0

Fault ==
    /\ faults < MaxFaults
    /\ faults' = faults + 1

(***************************************************************************)
(* Resources change and their informers tell the controller.               *)
(***************************************************************************)
EditRoute ==
    /\ edits < MaxEdits
    /\ edits' = edits + 1
    /\ revision' = revision + 1
    /\ signals' = signals \cup {"desired"}
    /\ UNCHANGED <<specs, conditions, storeVars, deliveryVars, queue, delayed, workVars, faults>>

\* A plugin is installed, given another artifact, or deleted.
EditPlugin(p) ==
    /\ edits < MaxEdits
    /\ edits' = edits + 1
    /\ \E s \in Sources \cup {None} :
           /\ s = None => Installed(p)
           /\ specs' = [specs EXCEPT ![p] = Append(@, s)]
    /\ signals' = signals \cup {"desired"}
    /\ UNCHANGED <<revision, conditions, storeVars, deliveryVars, queue, delayed, workVars, faults>>

(***************************************************************************)
(* Delivery, as far as the loop and the store notice.                      *)
(***************************************************************************)
\* Mutant: only an activation is a change.
NotifyActive ==
    signals' = IF active' = active THEN signals ELSE signals \cup {"programmed"}

\* delivery.Changes: a notification when the status is not what it was.
NotifyChange ==
    signals' = IF <<active, failure>>' = <<active, failure>>
               THEN signals
               ELSE signals \cup {"programmed"}

Accept ==
    /\ candidate /= None
    /\ active' = candidate
    /\ candidate' = None
    /\ failure' = None
    /\ NotifyChange
    /\ UNCHANGED <<apiVars, storeVars, queue, delayed, workVars, faults>>

\* A NACK, an ACK timeout, or either with a rollback that fails.
Withdraw ==
    /\ candidate /= None
    /\ \E reason \in {"rejected", "delivery"} :
           failure' = [reason |-> reason, config |-> candidate]
    /\ candidate' = None
    /\ UNCHANGED active
    /\ NotifyChange
    /\ UNCHANGED <<apiVars, storeVars, queue, delayed, workVars, faults>>

(***************************************************************************)
(* The queue.                                                              *)
(***************************************************************************)
\* A key is queued once, however often it is added.
Added(k, q) == IF Contains(q, k) THEN q ELSE Append(q, k)

WatchChanges(k) ==
    /\ k \in signals
    /\ signals' = signals \ {k}
    /\ queue' = Added(k, queue)
    /\ UNCHANGED <<apiVars, storeVars, deliveryVars, delayed, workVars, faults>>

Due(k) ==
    /\ k \in delayed
    /\ delayed' = delayed \ {k}
    /\ queue' = Added(k, queue)
    /\ UNCHANGED <<apiVars, storeVars, deliveryVars, signals, workVars, faults>>

Get(k) ==
    /\ pc = "idle"
    /\ queue /= <<>>
    /\ Head(queue) = k
    /\ queue' = Tail(queue)

Idle ==
    /\ pc' = "idle"
    /\ listed' = None
    /\ todo' = {}
    /\ missing' = {}
    /\ undelivered' = FALSE
    /\ view' = NoView

\* A work item ends; after an error its key comes back.
DoneWith(again) ==
    /\ Idle
    /\ delayed' = delayed \cup again

(***************************************************************************)
(* reconcileDesiredConfig                                                  *)
(***************************************************************************)
\* Mutant: what the active configuration does not use is not kept.
RetainActive(config) ==
    resolved' = resolved \cap IF active = None THEN {} ELSE active.plugins

\* Store.Retain with wasmModuleGenerations.
Retain(config) ==
    resolved' = resolved \cap (config.plugins \cup IF active = None THEN {} ELSE active.plugins)

BeginDesired ==
    /\ Get("desired")
    /\ listed' = Declared
    /\ Retain(Declared)
    /\ todo' = {g[1] : g \in Declared.plugins}
    /\ pc' = "resolve"
    /\ UNCHANGED <<apiVars, files, older, pointers, deliveryVars, signals, delayed,
                   missing, undelivered, view, faults>>

SizeOfAll(modules) == MapThenSumSet(LAMBDA m : SizeOf[m], modules)

Protected(m) == {m} \cup {Module(g) : g \in resolved}

\* reserveCache: files without protection go, oldest first, while the cache
\* with m is too large.
Evicted(m) ==
    LET loose == files \ Protected(m) IN
    {f \in loose :
        SizeOfAll(files \cup {m}) - SizeOfAll({h \in loose : <<h, f>> \in older}) > MaxCache}

\* Mutant: the room is checked before the module is there.
FitsOld(m) == SizeOfAll(files \ Evicted(m)) <= MaxCache

Fits(m) == SizeOfAll((files \ Evicted(m)) \cup {m}) <= MaxCache

\* The directory is kept, of which m, if any, is the file just used.
Keep(kept, m) ==
    /\ files' = kept
    /\ older' = {pair \in kept \X kept : pair \in older /\ pair[1] \notin m}
                    \cup {pair \in kept \X kept : pair[1] \notin m /\ pair[2] \in m}

Resolved(p) ==
    /\ todo' = todo \ {p}
    /\ resolved' = resolved \cup {g \in listed.plugins : g[1] = p}
    /\ UNCHANGED missing

Unresolved(p) ==
    /\ todo' = todo \ {p}
    /\ missing' = missing \cup {p}
    /\ UNCHANGED resolved

\* The plugin's generation is known, or its artifact was pulled before.
Cached(g) ==
    /\ Module(g) \in files
    /\ g \in resolved \/ (Artifact(g) \notin Always /\ Artifact(g) \in pointers)

ResolveCached(p, g) ==
    /\ Cached(g)
    /\ Keep(files, {Module(g)})
    /\ Resolved(p)
    /\ UNCHANGED <<pointers, faults>>

\* A pointer to a module that is gone is removed before the pull.
Pointers(g) ==
    IF Artifact(g) \in Always \/ Module(g) \in files
    THEN pointers
    ELSE pointers \ {Artifact(g)}

PullFails(p, g) ==
    /\ ~ Cached(g)
    /\ Fault
    /\ Unresolved(p)
    /\ pointers' = Pointers(g)
    /\ UNCHANGED <<files, older>>

\* What was evicted for a module that does not fit stays evicted.
NoRoom(p, g) ==
    /\ ~ Cached(g)
    /\ ~ Fits(Module(g))
    /\ Keep(files \ Evicted(Module(g)), {})
    /\ Unresolved(p)
    /\ pointers' = Pointers(g)
    /\ UNCHANGED faults

Stored(p, g) ==
    /\ ~ Cached(g)
    /\ Fits(Module(g))
    /\ Keep((files \ Evicted(Module(g))) \cup {Module(g)}, {Module(g)})
    /\ Resolved(p)
    /\ pointers' = pointers \cup {Artifact(g)}
    /\ UNCHANGED faults

\* Mutant: the file goes although another plugin has it.
StoreFailsRemoving(p, g) ==
    /\ Fault
    /\ ~ Cached(g)
    /\ Fits(Module(g))
    /\ Keep((files \ Evicted(Module(g))) \ {Module(g)}, {})
    /\ Unresolved(p)
    /\ pointers' = Pointers(g)

\* The module or its source pointer cannot be written.
StoreFails(p, g) ==
    /\ Fault
    /\ ~ Cached(g)
    /\ Fits(Module(g))
    /\ Keep(files \ Evicted(Module(g)), {Module(g)})
    /\ Unresolved(p)
    /\ pointers' = Pointers(g)

\* Store.Resolve, one plugin after the other.
Resolve(p) ==
    /\ pc = "resolve"
    /\ p \in todo
    /\ \E g \in listed.plugins :
           /\ g[1] = p
           /\ \/ ResolveCached(p, g)
              \/ PullFails(p, g)
              \/ NoRoom(p, g)
              \/ Stored(p, g)
              \/ StoreFails(p, g)
    /\ UNCHANGED <<apiVars, deliveryVars, queueVars, pc, listed, undelivered, view>>

\* compileResult.HasErrors
HasErrors ==
    \/ listed.route \in Invalid
    \/ \E p \in Needed : p \in missing \/ p \notin {g[1] : g \in listed.plugins}

FailureOf(config) == [reason |-> "delivery", config |-> config]

\* Nothing to cancel, or the fallback is published again.
CancelCandidate ==
    /\ HasErrors
    /\ candidate' = None
    /\ UNCHANGED active
    /\ \/ /\ failure' = None
          /\ undelivered' = FALSE
          /\ UNCHANGED faults
       \/ /\ Fault
          /\ \/ candidate /= None
             \/ failure /= None /\ failure.reason = "delivery"
          /\ failure' = FailureOf(IF candidate /= None THEN candidate ELSE failure.config)
          /\ undelivered' = TRUE

\* The active version again: a candidate is given up for it.
SubmitActive ==
    /\ ~ HasErrors
    /\ active /= None
    /\ SameVersion(active, listed)
    /\ candidate' = None
    /\ \/ /\ active' = listed
          /\ failure' = None
          /\ undelivered' = FALSE
          /\ UNCHANGED faults
       \/ /\ Fault
          /\ \/ candidate /= None
             \/ failure /= None /\ failure.reason = "delivery"
          /\ failure' = FailureOf(listed)
          /\ undelivered' = TRUE
          /\ UNCHANGED active

\* The version that is already out.
SubmitCandidate ==
    /\ ~ HasErrors
    /\ active /= None => ~ SameVersion(active, listed)
    /\ candidate /= None
    /\ SameVersion(candidate, listed)
    /\ candidate' = listed
    /\ failure' = IF failure = None THEN None ELSE [failure EXCEPT !.config = listed]
    /\ undelivered' = FALSE
    /\ UNCHANGED <<active, faults>>

\* A new version.  When its publication fails the snapshot may hold it
\* nevertheless, and it is the candidate.
SubmitNew ==
    /\ ~ HasErrors
    /\ active /= None => ~ SameVersion(active, listed)
    /\ candidate /= None => ~ SameVersion(candidate, listed)
    /\ \/ /\ candidate' = listed
          /\ failure' = None
          /\ undelivered' = FALSE
          /\ UNCHANGED faults
       \/ /\ Fault
          /\ candidate' \in {candidate, listed}
          /\ failure' = FailureOf(listed)
          /\ undelivered' = TRUE
    /\ UNCHANGED active

Deliver ==
    /\ pc = "resolve"
    /\ todo = {}
    /\ CancelCandidate \/ SubmitActive \/ SubmitCandidate \/ SubmitNew
    /\ NotifyChange
    /\ pc' = "read"
    /\ UNCHANGED <<apiVars, storeVars, queue, delayed, listed, todo, missing, view>>

\* What Delivery.Status says of the route.
DeliveryStatus ==
    [active |-> IF active = None THEN 0 ELSE active.route,
     failed |-> IF failure = None THEN 0 ELSE failure.config.route,
     reason |-> IF failure = None THEN "none" ELSE failure.reason]

ReadStatus ==
    /\ pc = "read"
    /\ view' = DeliveryStatus
    /\ pc' = "write"
    /\ UNCHANGED <<apiVars, storeVars, deliveryVars, queueVars,
                   listed, todo, missing, undelivered, faults>>

\* programmedCondition of revision r with the conditions c.
Programmed(r, c, status) ==
    CASE c.accepted /= r -> "pending"
      [] c.accepted = r /\ ~ c.valid -> "blocked"
      [] OTHER ->
            IF status.active = r
            THEN "programmed"
            ELSE IF status.failed = r THEN status.reason ELSE "pending"

\* The writer leaves a route alone that has another generation by now.
Conditions(c) ==
    IF listed.route = revision
    THEN [c EXCEPT !.programmed = revision, !.is = Programmed(revision, c, view)]
    ELSE conditions

\* Mutant: a pass without all modules is not repeated.
WriteStatusForgets ==
    /\ pc = "write"
    /\ \/ /\ conditions' = Conditions([conditions EXCEPT !.accepted = revision,
                                                         !.valid = revision \notin Invalid])
          /\ DoneWith(IF undelivered THEN {"desired"} ELSE {})
          /\ UNCHANGED faults
       \/ /\ Fault
          /\ UNCHANGED conditions
          /\ DoneWith({"desired"})
    /\ UNCHANGED <<revision, specs, edits, storeVars, deliveryVars, signals, queue>>

\* ApplyCompileResult
WriteStatus ==
    /\ pc = "write"
    /\ \/ /\ conditions' = Conditions([conditions EXCEPT !.accepted = revision,
                                                         !.valid = revision \notin Invalid])
          /\ DoneWith(IF undelivered \/ missing /= {} THEN {"desired"} ELSE {})
          /\ UNCHANGED faults
       \/ /\ Fault
          /\ UNCHANGED conditions
          /\ DoneWith({"desired"})
    /\ UNCHANGED <<revision, specs, edits, storeVars, deliveryVars, signals, queue>>

(***************************************************************************)
(* reconcileProgrammedStatus                                               *)
(***************************************************************************)
BeginProgrammed ==
    /\ Get("programmed")
    /\ listed' = Declared
    /\ view' = DeliveryStatus
    /\ Retain(Declared)
    /\ pc' = "programmed"
    /\ UNCHANGED <<apiVars, files, older, pointers, deliveryVars, signals, delayed,
                   todo, missing, undelivered, faults>>

\* ApplyProgrammed
WriteProgrammed ==
    /\ pc = "programmed"
    /\ \/ /\ conditions' = Conditions(conditions)
          /\ DoneWith({})
          /\ UNCHANGED faults
       \/ /\ Fault
          /\ UNCHANGED conditions
          /\ DoneWith({"programmed"})
    /\ UNCHANGED <<revision, specs, edits, storeVars, deliveryVars, signals, queue>>

(***************************************************************************)
(* The process ends and is started again on the same cache directory.      *)
(***************************************************************************)
Restarted ==
    /\ resolved' = {}
    /\ active' = None
    /\ candidate' = None
    /\ failure' = None
    /\ signals' = {}
    /\ queue' = <<"desired">>
    /\ delayed' = {}
    /\ Idle
    /\ UNCHANGED apiVars

Restart ==
    /\ Fault
    /\ Restarted
    /\ UNCHANGED <<files, older, pointers>>

\* The end comes between a module's file and its source pointer.
RestartInStore ==
    /\ Fault
    /\ pc = "resolve"
    /\ \E g \in listed.plugins :
           /\ g[1] \in todo
           /\ ~ Cached(g)
           /\ Fits(Module(g))
           /\ Keep((files \ Evicted(Module(g))) \cup {Module(g)}, {Module(g)})
           /\ pointers' = Pointers(g)
    /\ Restarted

Next ==
    \/ EditRoute
    \/ \E p \in Plugins : EditPlugin(p)
    \/ Accept \/ Withdraw
    \/ \E k \in Keys : WatchChanges(k) \/ Due(k)
    \/ BeginDesired
    \/ \E p \in Plugins : Resolve(p)
    \/ Deliver \/ ReadStatus \/ WriteStatus
    \/ BeginProgrammed \/ WriteProgrammed
    \/ Restart \/ RestartInStore

Spec == Init /\ [][Next]_vars

\* The goroutines run, timers fire, and connected Envoys answer or time out.
Fairness ==
    /\ \A k \in Keys : WF_vars(WatchChanges(k)) /\ WF_vars(Due(k))
    /\ WF_vars(BeginDesired) /\ WF_vars(BeginProgrammed)
    /\ \A p \in Plugins : WF_vars(Resolve(p))
    /\ WF_vars(Deliver) /\ WF_vars(ReadStatus)
    /\ WF_vars(WriteStatus) /\ WF_vars(WriteProgrammed)
    /\ WF_vars(Accept \/ Withdraw)

LiveSpec == Spec /\ Fairness

(***************************************************************************)
(* Properties.                                                             *)
(***************************************************************************)
Generations == UNION {{p} \X (1 .. Len(specs[p])) : p \in Plugins}
Configs == [route : 1 .. revision, plugins : SUBSET Generations]
Failures == [reason : {"rejected", "delivery"}, config : Configs]

TypeOK ==
    /\ revision \in Nat \ {0}
    /\ specs \in [Plugins -> Seq(Sources \cup {None})]
    /\ conditions \in [accepted : 0 .. revision, valid : BOOLEAN, programmed : 0 .. revision,
                       is : {"pending", "blocked", "programmed", "rejected", "delivery"}]
    /\ files \subseteq Modules
    /\ older \subseteq files \X files
    /\ pointers \subseteq Sources
    /\ resolved \subseteq Generations
    /\ active \in Configs \cup {None}
    /\ candidate \in Configs \cup {None}
    /\ failure \in Failures \cup {None}
    /\ signals \subseteq Keys
    /\ queue \in Seq(Keys)
    /\ delayed \subseteq Keys
    /\ pc \in {"idle", "resolve", "read", "write", "programmed"}
    /\ listed \in Configs \cup {None}
    /\ todo \subseteq Plugins
    /\ missing \subseteq Plugins
    /\ undelivered \in BOOLEAN
    /\ view \in [active : 0 .. revision, failed : 0 .. revision,
                 reason : {"none", "rejected", "delivery"}]
    /\ edits \in 0 .. MaxEdits
    /\ faults \in 0 .. MaxFaults

\* No eviction and no failed write takes the file of a module the store has
\* resolved for a generation it was told to keep.
ResolvedOnDisk == \A g \in resolved : Module(g) \in files

\* The directory never holds more than max_cache_bytes.
CacheFits == SizeOfAll(files) <= MaxCache

\* A configuration is given to Envoy only with all its modules on disk, and
\* while its plugins stay as they are its modules stay too: a candidate
\* with other plugins, a failed pull or a rejection cannot take them away.
Loadable(config) == ModulesOf(config) \subseteq files

DeclaredLoadable ==
    \A config \in {active, candidate} \ {None} :
        config.plugins \subseteq Declared.plugins => Loadable(config)

\* The active configuration keeps its modules until it is replaced.
ActiveLoadable == active /= None => Loadable(active)

\* The declared resources compile once their modules are there, and the
\* directory has room for those and for the active ones.
Deliverable ==
    /\ revision \notin Invalid
    /\ \A p \in Needed : Installed(p)
    /\ SizeOfAll({Module(g) : g \in Declared.plugins \cup
                      IF active = None THEN {} ELSE active.plugins}) <= MaxCache

\* What is declared becomes active or is refused by Envoy, whatever failed
\* on the way: no lost notification, failed pull or error leaves it behind.
DeclaredDelivered ==
    []<>(Deliverable => \/ active /= None /\ active = Declared
                        \/ failure /= None /\ failure.config = Declared)

\* The route's conditions come to say what Delivery's status says, although
\* status and resources change while a status is written.
StatusFollows ==
    []<>(/\ conditions.accepted = revision
         /\ conditions.programmed = revision
         /\ conditions.is = Programmed(revision, conditions, DeliveryStatus))

-----------------------------------------------------------------------------
(* What the loop takes Delivery to be.                                      *)

Version(config) == <<config.route, ModulesOf(config)>>
Only(config) == {Version(c) : c \in {config} \ {None}}

Contract == INSTANCE Rollout WITH
    active <- Only(active),
    candidate <- Only(candidate),
    served <- Only(IF candidate = None THEN active ELSE candidate),
    failed <- IF failure = None THEN "none" ELSE failure.reason

\* The loop and Delivery as it sees it keep the contract of Rollout.
KeepsContract == Contract!Spec

=============================================================================
