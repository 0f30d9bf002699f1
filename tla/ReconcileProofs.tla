--------------------------- MODULE ReconcileProofs ---------------------------
(***************************************************************************)
(* Proofs about Reconcile, for any plugins, artifacts, sizes and faults: the *)
(* types, that no eviction takes a module the store protects, that a        *)
(* configuration Envoy was given keeps its modules while its plugins stay,   *)
(* that the cache directory keeps its limit, and that a module is refused    *)
(* for want of room only when the protected ones leave none.                *)
(***************************************************************************)
EXTENDS Reconcile, SumLemmas, TLAPS

\* The worker has listed resources while it works: one generation of each
\* plugin, and installed.
OfResources(config) ==
    /\ \A g \in config.plugins : Artifact(g) \in Sources
    /\ \A g \in config.plugins, h \in config.plugins : g[1] = h[1] => g = h

Working == pc # "idle" => listed \in Configs /\ OfResources(listed)

\* A failed resource of the status has a reason.
Reasons == view.failed # 0 => view.reason # "none"

\* The pass protects every module it has resolved.
PassResolved ==
    pc = "resolve" =>
        \A g \in listed.plugins : g[1] \in todo \/ g[1] \in missing \/ g \in resolved

\* The store protects the modules of a configuration as long as no other
\* generation of the plugin is declared.
Protects(config) ==
    \A g \in config.plugins : g[1] \in Needed /\ g \in Declared.plugins => g \in resolved

Guarded ==
    /\ active # None => Protects(active)
    /\ candidate # None => Protects(candidate)

IInv == TypeOK /\ Working /\ Reasons /\ ResolvedOnDisk /\ PassResolved /\ Guarded

-----------------------------------------------------------------------------
(* Generations.                                                             *)

\* Specs are only appended to: generations keep their artifacts.
LEMMA SpecsGrow ==
    ASSUME TypeOK, [Next]_vars
    PROVE  /\ revision' \in Nat \ {0} /\ revision <= revision'
           /\ specs' \in [Plugins -> Seq(Sources \cup {None})]
           /\ \A p \in Plugins : Len(specs[p]) <= Len(specs'[p])
           /\ \A p \in Plugins : \A n \in 1 .. Len(specs[p]) : specs'[p][n] = specs[p][n]
<1>3. ASSUME NEW p \in Plugins, EditPlugin(p)
      PROVE  /\ revision' = revision
             /\ specs' \in [Plugins -> Seq(Sources \cup {None})]
             /\ \A q \in Plugins : Len(specs[q]) <= Len(specs'[q])
             /\ \A q \in Plugins : \A n \in 1 .. Len(specs[q]) : specs'[q][n] = specs[q][n]
  <2>1. PICK s \in Sources \cup {None} : specs' = [specs EXCEPT ![p] = Append(@, s)]
    BY <1>3 DEF EditPlugin
  <2>2. specs[p] \in Seq(Sources \cup {None})
    BY DEF TypeOK
  <2>3. /\ Append(specs[p], s) \in Seq(Sources \cup {None})
        /\ Len(Append(specs[p], s)) = Len(specs[p]) + 1
        /\ \A n \in 1 .. Len(specs[p]) : Append(specs[p], s)[n] = specs[p][n]
    BY <2>2
  <2>4. specs' \in [Plugins -> Seq(Sources \cup {None})]
    BY <2>1, <2>3 DEF TypeOK
  <2>5. ASSUME NEW q \in Plugins
        PROVE  /\ Len(specs[q]) <= Len(specs'[q])
               /\ \A n \in 1 .. Len(specs[q]) : specs'[q][n] = specs[q][n]
    <3>1. CASE q = p
      <4>1. specs'[p] = Append(specs[p], s)
        BY <2>1 DEF TypeOK
      <4> QED BY <2>2, <2>3, <3>1, <4>1
    <3>2. CASE q # p
      BY <2>1, <3>2 DEF TypeOK
    <3> QED BY <3>1, <3>2
  <2> QED BY <1>3, <2>4, <2>5 DEF EditPlugin
<1>4. (~ EditRoute /\ \A p \in Plugins : ~ EditPlugin(p)) => UNCHANGED <<revision, specs>>
  BY DEF Next, vars, apiVars, Accept, Withdraw, WatchChanges, Due, BeginDesired, Resolve, Deliver,
         ReadStatus, WriteStatus, BeginProgrammed, WriteProgrammed, Restart, RestartInStore, Restarted
<1>5. EditRoute \/ (\E p \in Plugins : EditPlugin(p)) \/ UNCHANGED <<revision, specs>>
  BY <1>4
<1>6. ASSUME UNCHANGED specs
      PROVE  /\ \A p \in Plugins : Len(specs[p]) <= Len(specs'[p])
             /\ \A p \in Plugins : \A n \in 1 .. Len(specs[p]) : specs'[p][n] = specs[p][n]
  BY <1>6 DEF TypeOK
<1>7. CASE \E p \in Plugins : EditPlugin(p)
  BY <1>3, <1>7 DEF TypeOK
<1>8. CASE EditRoute
  BY <1>6, <1>8 DEF EditRoute, TypeOK
<1>9. CASE UNCHANGED <<revision, specs>>
  BY <1>6, <1>9 DEF TypeOK
<1> QED BY <1>5, <1>7, <1>8, <1>9

\* So what is a configuration stays one.
LEMMA ConfigsGrow ==
    ASSUME TypeOK, [Next]_vars
    PROVE  /\ Generations \subseteq Generations'
           /\ Configs \subseteq Configs'
           /\ Failures \subseteq Failures'
           /\ \A g \in Generations : Artifact(g)' = Artifact(g) /\ Module(g)' = Module(g)
<1>1. \A p \in Plugins : Len(specs[p]) \in Nat /\ Len(specs'[p]) \in Nat
  BY SpecsGrow DEF TypeOK
<1>2. Generations \subseteq Generations'
  BY <1>1, SpecsGrow DEF Generations
<1>3. 1 .. revision \subseteq 1 .. revision'
  BY SpecsGrow DEF TypeOK
<1>4. Configs \subseteq Configs'
  BY <1>2, <1>3 DEF Configs
<1>5. Failures \subseteq Failures'
  BY <1>4 DEF Failures
<1>6. \A g \in Generations : Artifact(g)' = Artifact(g) /\ Module(g)' = Module(g)
  BY SpecsGrow DEF Generations, Artifact, Module
<1> QED BY <1>2, <1>4, <1>5, <1>6

\* What is declared is a configuration of installed artifacts.
LEMMA DeclaredType ==
    ASSUME TypeOK
    PROVE  Declared \in Configs /\ OfResources(Declared)
<1>1. ASSUME NEW p \in Plugins, Installed(p)
      PROVE  <<p, Len(specs[p])>> \in Generations /\ specs[p][Len(specs[p])] \in Sources
  <2>1. specs[p] \in Seq(Sources \cup {None}) /\ specs[p] # <<>>
    BY <1>1 DEF Installed, TypeOK
  <2>2. Len(specs[p]) \in 1 .. Len(specs[p]) /\ specs[p][Len(specs[p])] \in Sources \cup {None}
    BY <2>1
  <2>3. specs[p][Len(specs[p])] # None
    BY <1>1 DEF Installed, Last
  <2> QED BY <2>2, <2>3 DEF Generations
<1>2. Declared \in Configs
  BY <1>1 DEF Declared, Configs, TypeOK
<1>3. \A g \in Declared.plugins : Artifact(g) \in Sources
  BY <1>1 DEF Declared, Artifact
<1>4. \A g \in Declared.plugins, h \in Declared.plugins : g[1] = h[1] => g = h
  BY DEF Declared
<1> QED BY <1>2, <1>3, <1>4 DEF OfResources

-----------------------------------------------------------------------------
(* Types, by the part of the state.                                         *)

ApiType ==
    conditions \in [accepted : 0 .. revision, valid : BOOLEAN, programmed : 0 .. revision,
                    is : {"pending", "blocked", "programmed", "rejected", "delivery"}]

StoreType ==
    /\ files \subseteq Modules
    /\ older \subseteq files \X files
    /\ pointers \subseteq Sources
    /\ resolved \subseteq Generations

DeliveryType ==
    /\ active \in Configs \cup {None}
    /\ candidate \in Configs \cup {None}
    /\ failure \in Failures \cup {None}

QueueType ==
    /\ signals \subseteq Keys
    /\ queue \in Seq(Keys)
    /\ delayed \subseteq Keys

WorkType ==
    /\ pc \in {"idle", "resolve", "read", "write", "programmed"}
    /\ listed \in Configs \cup {None}
    /\ todo \subseteq Plugins
    /\ missing \subseteq Plugins
    /\ undelivered \in BOOLEAN
    /\ view \in [active : 0 .. revision, failed : 0 .. revision,
                 reason : {"none", "rejected", "delivery"}]

\* A condition the writer computes is a condition.
LEMMA ConditionsType ==
    ASSUME TypeOK, Reasons, NEW v \in BOOLEAN, NEW c, c = conditions \/ c = [conditions EXCEPT !.accepted = revision, !.valid = v]
    PROVE  Conditions(c) \in [accepted : 0 .. revision, valid : BOOLEAN, programmed : 0 .. revision,
                              is : {"pending", "blocked", "programmed", "rejected", "delivery"}]
<1>1. revision \in 1 .. revision
  BY DEF TypeOK
<1>2. c \in [accepted : 0 .. revision, valid : BOOLEAN, programmed : 0 .. revision,
             is : {"pending", "blocked", "programmed", "rejected", "delivery"}]
  <2>1. CASE c = conditions
    BY <2>1 DEF TypeOK
  <2>2. CASE c = [conditions EXCEPT !.accepted = revision, !.valid = v]
    <3>1. revision \in 0 .. revision
      BY <1>1 DEF TypeOK
    <3> QED BY <2>2, <3>1 DEF TypeOK
  <2> QED BY <2>1, <2>2
<1>3. view.failed = revision => view.reason \in {"rejected", "delivery"}
  BY <1>1 DEF TypeOK, Reasons
<1>4. Programmed(revision, c, view) \in {"pending", "blocked", "programmed", "rejected", "delivery"}
  BY <1>3 DEF Programmed
<1>5. PICK r \in {"pending", "blocked", "programmed", "rejected", "delivery"} :
        Programmed(revision, c, view) = r
  BY <1>4
<1>6. revision \in 0 .. revision
  BY <1>1 DEF TypeOK
<1>7. [c EXCEPT !.programmed = revision, !.is = r] \in
        [accepted : 0 .. revision, valid : BOOLEAN, programmed : 0 .. revision,
         is : {"pending", "blocked", "programmed", "rejected", "delivery"}]
  BY <1>2, <1>6
<1> QED BY <1>5, <1>7 DEF Conditions, TypeOK

LEMMA ApiTyped ==
    ASSUME TypeOK, Reasons, [Next]_vars
    PROVE  ApiType'
<1> DEFINE T(n) == [accepted : 0 .. n, valid : BOOLEAN, programmed : 0 .. n,
                    is : {"pending", "blocked", "programmed", "rejected", "delivery"}]
<1>1. conditions' \in T(revision)
  <2>1. CASE UNCHANGED conditions
    BY <2>1 DEF TypeOK
  <2>2. CASE WriteStatus
    BY ZenonT(30), <2>2, ConditionsType DEF WriteStatus, TypeOK
  <2>3. CASE WriteProgrammed
    BY <2>3, ConditionsType DEF WriteProgrammed, TypeOK
  <2>4. UNCHANGED conditions \/ WriteStatus \/ WriteProgrammed
    BY DEF Next, vars, apiVars, EditRoute, EditPlugin, Accept, Withdraw, WatchChanges, Due,
           BeginDesired, Resolve, Deliver, ReadStatus, BeginProgrammed,
           Restart, RestartInStore, Restarted
  <2> QED BY <2>1, <2>2, <2>3, <2>4
<1>2. T(revision) \subseteq T(revision')
  BY SpecsGrow DEF TypeOK
<1> QED BY <1>1, <1>2 DEF ApiType

\* What the directory keeps is of the directory.
LEMMA KeepTyped ==
    ASSUME NEW kept \in SUBSET Modules, NEW m, Keep(kept, m)
    PROVE  files' \subseteq Modules /\ older' \subseteq files' \X files'
BY DEF Keep

LEMMA ResolveTyped ==
    ASSUME TypeOK, Working, NEW p \in Plugins, Resolve(p)
    PROVE  /\ files' \subseteq Modules
           /\ older' \subseteq files' \X files'
           /\ pointers' \subseteq Sources
           /\ resolved' \subseteq Generations
<1>1. listed \in Configs /\ OfResources(listed)
  BY DEF Resolve, Working
<1>2. PICK g \in listed.plugins :
        ResolveCached(p, g) \/ PullFails(p, g) \/ NoRoom(p, g) \/ Stored(p, g) \/ StoreFails(p, g)
  BY DEF Resolve
<1>3. Artifact(g) \in Sources /\ Module(g) \in Modules
  BY <1>1 DEF OfResources, Module, Modules
<1>4. listed.plugins \subseteq Generations
  BY <1>1 DEF Configs
<1>5. /\ files \subseteq Modules
      /\ files \ Evicted(Module(g)) \subseteq Modules
      /\ (files \ Evicted(Module(g))) \cup {Module(g)} \subseteq Modules
  BY <1>3 DEF TypeOK
<1>6. Pointers(g) \subseteq Sources
  BY DEF Pointers, TypeOK
<1>7. CASE ResolveCached(p, g)
  BY <1>4, <1>5, <1>7, KeepTyped DEF ResolveCached, Resolved, TypeOK
<1>8. CASE PullFails(p, g)
  BY <1>6, <1>8 DEF PullFails, Unresolved, TypeOK
<1>9. CASE NoRoom(p, g)
  BY <1>5, <1>6, <1>9, KeepTyped DEF NoRoom, Unresolved, TypeOK
<1>10. CASE Stored(p, g)
  BY <1>3, <1>4, <1>5, <1>10, KeepTyped DEF Stored, Resolved, TypeOK
<1>11. CASE StoreFails(p, g)
  BY <1>5, <1>6, <1>11, KeepTyped DEF StoreFails, Unresolved, TypeOK
<1> QED BY <1>2, <1>7, <1>8, <1>9, <1>10, <1>11

LEMMA StoreTyped ==
    ASSUME TypeOK, Working, [Next]_vars
    PROVE  StoreType'
<1>1. Generations \subseteq Generations'
  BY ConfigsGrow
<1> SUFFICES /\ files' \subseteq Modules
             /\ older' \subseteq files' \X files'
             /\ pointers' \subseteq Sources
             /\ resolved' \subseteq Generations
  BY <1>1 DEF StoreType, Modules
<1>2. CASE UNCHANGED storeVars
  BY <1>2 DEF storeVars, TypeOK
<1>3. CASE BeginDesired \/ BeginProgrammed
  BY <1>3 DEF BeginDesired, BeginProgrammed, Retain, TypeOK
<1>4. CASE \E p \in Plugins : Resolve(p)
  BY <1>4, ResolveTyped
<1>5. CASE Restart
  BY <1>5 DEF Restart, Restarted, TypeOK
<1>6. CASE RestartInStore
  <2>1. listed \in Configs /\ OfResources(listed)
    BY <1>6 DEF RestartInStore, Working
  <2>2. PICK g \in listed.plugins :
          /\ Keep((files \ Evicted(Module(g))) \cup {Module(g)}, {Module(g)})
          /\ pointers' = Pointers(g)
    BY <1>6 DEF RestartInStore
  <2>3. Module(g) \in Modules
    BY <2>1 DEF OfResources, Module, Modules
  <2>4. (files \ Evicted(Module(g))) \cup {Module(g)} \subseteq Modules
    BY <2>3 DEF TypeOK
  <2>5. pointers' \subseteq Sources
    BY <2>2 DEF Pointers, TypeOK
  <2>6. resolved' = {}
    BY <1>6 DEF RestartInStore, Restarted
  <2> QED BY <2>2, <2>4, <2>5, <2>6, KeepTyped
<1>7. UNCHANGED storeVars \/ BeginDesired \/ BeginProgrammed \/ (\E p \in Plugins : Resolve(p))
        \/ Restart \/ RestartInStore
  BY DEF Next, vars, EditRoute, EditPlugin, Accept, Withdraw, WatchChanges, Due,
         Deliver, ReadStatus, WriteStatus, WriteProgrammed
<1> QED BY <1>2, <1>3, <1>4, <1>5, <1>6, <1>7

LEMMA DeliverTyped ==
    ASSUME TypeOK, Working, Deliver
    PROVE  /\ active' \in Configs \cup {None}
           /\ candidate' \in Configs \cup {None}
           /\ failure' \in Failures \cup {None}
           /\ undelivered' \in BOOLEAN
           /\ faults' \in 0 .. MaxFaults
<1>1. listed \in Configs
  BY DEF Deliver, Working
<1>2. ASSUME NEW config \in Configs
      PROVE  FailureOf(config) \in Failures
  BY DEF FailureOf, Failures
<1>3. Fault => faults' \in 0 .. MaxFaults
  BY BoundAssumption DEF Fault, TypeOK
<1>4. failure # None => failure.config \in Configs
  BY DEF TypeOK, Failures
<1>5. CASE CancelCandidate
  <2>1. ASSUME candidate # None \/ (failure # None /\ failure.reason = "delivery")
        PROVE  (IF candidate # None THEN candidate ELSE failure.config) \in Configs
    BY <1>4, <2>1 DEF TypeOK
  <2>2. CASE failure' = None /\ undelivered' = FALSE /\ UNCHANGED faults
    BY <1>5, <2>2 DEF CancelCandidate, TypeOK
  <2>3. CASE /\ Fault
             /\ candidate # None \/ (failure # None /\ failure.reason = "delivery")
             /\ failure' = FailureOf(IF candidate # None THEN candidate ELSE failure.config)
             /\ undelivered' = TRUE
    <3>1. PICK config \in Configs : (IF candidate # None THEN candidate ELSE failure.config) = config
      BY <2>1, <2>3
    <3>2. failure' \in Failures
      BY <1>2, <2>3, <3>1
    <3>3. candidate' = None /\ active' = active
      BY <1>5 DEF CancelCandidate
    <3> QED BY <1>3, <2>3, <3>2, <3>3 DEF TypeOK
  <2> QED BY <1>5, <2>2, <2>3 DEF CancelCandidate
<1>6. CASE SubmitActive
  BY <1>1, <1>2, <1>3, <1>6 DEF SubmitActive, TypeOK
<1>7. CASE SubmitCandidate
  <2>1. failure # None => [failure EXCEPT !.config = listed] \in Failures
    BY <1>1 DEF TypeOK, Failures
  <2> QED BY <1>1, <1>7, <2>1 DEF SubmitCandidate, TypeOK
<1>8. CASE SubmitNew
  BY <1>1, <1>2, <1>3, <1>8 DEF SubmitNew, TypeOK
<1> QED BY <1>5, <1>6, <1>7, <1>8 DEF Deliver

LEMMA DeliveryTyped ==
    ASSUME TypeOK, Working, [Next]_vars
    PROVE  DeliveryType'
<1>1. Configs \subseteq Configs' /\ Failures \subseteq Failures'
  BY ConfigsGrow
<1> SUFFICES /\ active' \in Configs \cup {None}
             /\ candidate' \in Configs \cup {None}
             /\ failure' \in Failures \cup {None}
  BY <1>1 DEF DeliveryType
<1>2. CASE UNCHANGED deliveryVars
  BY <1>2 DEF deliveryVars, TypeOK
<1>3. CASE Accept
  BY <1>3 DEF Accept, TypeOK
<1>4. CASE Withdraw
  BY <1>4 DEF Withdraw, Failures, TypeOK
<1>5. CASE Deliver
  BY <1>5, DeliverTyped
<1>6. CASE Restart \/ RestartInStore
  BY <1>6 DEF Restart, RestartInStore, Restarted
<1>7. UNCHANGED deliveryVars \/ Accept \/ Withdraw \/ Deliver \/ Restart \/ RestartInStore
  BY DEF Next, vars, EditRoute, EditPlugin, WatchChanges, Due, BeginDesired, Resolve,
         ReadStatus, WriteStatus, BeginProgrammed, WriteProgrammed
<1> QED BY <1>2, <1>3, <1>4, <1>5, <1>6, <1>7

LEMMA QueueTyped ==
    ASSUME TypeOK, [Next]_vars
    PROVE  QueueType'
<1> SUFFICES signals' \subseteq Keys /\ queue' \in Seq(Keys) /\ delayed' \subseteq Keys
  BY DEF QueueType, Keys
<1> USE DEF queueVars, TypeOK
<1>0. {"desired"} \subseteq Keys /\ {"programmed"} \subseteq Keys /\ <<"desired">> \in Seq(Keys)
  BY DEF Keys
<1>1. CASE UNCHANGED queueVars
  BY <1>1
<1>2. CASE EditRoute \/ \E p \in Plugins : EditPlugin(p)
  BY <1>0, <1>2 DEF EditRoute, EditPlugin
<1>3. CASE Accept \/ Withdraw \/ Deliver
  BY <1>0, <1>3 DEF Accept, Withdraw, Deliver, NotifyChange
<1>4. ASSUME NEW k \in Keys
      PROVE  Added(k, queue) \in Seq(Keys)
  BY DEF Added
<1>5. CASE \E k \in Keys : WatchChanges(k) \/ Due(k)
  BY <1>4, <1>5 DEF WatchChanges, Due
<1>6. CASE BeginDesired \/ BeginProgrammed
  <2>1. queue # <<>> => Tail(queue) \in Seq(Keys)
    OBVIOUS
  <2> QED BY <1>6, <2>1 DEF BeginDesired, BeginProgrammed, Get
<1>7. CASE WriteStatus \/ WriteProgrammed
  BY <1>0, <1>7 DEF WriteStatus, WriteProgrammed, DoneWith
<1>8. CASE Restart \/ RestartInStore
  BY <1>0, <1>8 DEF Restart, RestartInStore, Restarted
<1>9. UNCHANGED queueVars \/ EditRoute \/ (\E p \in Plugins : EditPlugin(p))
        \/ Accept \/ Withdraw \/ Deliver \/ (\E k \in Keys : WatchChanges(k) \/ Due(k))
        \/ BeginDesired \/ BeginProgrammed \/ WriteStatus \/ WriteProgrammed
        \/ Restart \/ RestartInStore
  BY DEF Next, vars, Resolve, ReadStatus
<1> QED BY <1>1, <1>2, <1>3, <1>5, <1>6, <1>7, <1>8, <1>9

LEMMA DeliveryStatusType ==
    ASSUME TypeOK
    PROVE  /\ DeliveryStatus \in [active : 0 .. revision, failed : 0 .. revision,
                                  reason : {"none", "rejected", "delivery"}]
           /\ DeliveryStatus.failed # 0 => DeliveryStatus.reason # "none"
<1>1. \A config \in Configs : config.route \in 0 .. revision
  BY DEF Configs, TypeOK
<1>2. active # None => active.route \in 0 .. revision
  BY <1>1 DEF TypeOK
<1>3. failure # None => /\ failure.config.route \in 0 .. revision
                        /\ failure.reason \in {"rejected", "delivery"}
  BY <1>1 DEF TypeOK, Failures
<1>4. 0 \in 0 .. revision
  BY DEF TypeOK
<1> QED BY <1>2, <1>3, <1>4 DEF DeliveryStatus

LEMMA WorkTyped ==
    ASSUME TypeOK, Working, Reasons, [Next]_vars
    PROVE  WorkType' /\ Reasons'
<1> DEFINE Views(n) == [active : 0 .. n, failed : 0 .. n, reason : {"none", "rejected", "delivery"}]
<1>1. Configs \subseteq Configs' /\ Views(revision) \subseteq Views(revision')
  <2>1. 0 .. revision \subseteq 0 .. revision'
    BY SpecsGrow DEF TypeOK
  <2> QED BY <2>1, ConfigsGrow
<1> SUFFICES /\ pc' \in {"idle", "resolve", "read", "write", "programmed"}
             /\ listed' \in Configs \cup {None}
             /\ todo' \subseteq Plugins
             /\ missing' \subseteq Plugins
             /\ undelivered' \in BOOLEAN
             /\ view' \in Views(revision)
             /\ view'.failed # 0 => view'.reason # "none"
  BY <1>1 DEF WorkType, Reasons
<1>2. CASE UNCHANGED workVars
  BY <1>2 DEF workVars, TypeOK, Reasons
<1>3. CASE BeginDesired
  <2>1. \A g \in Declared.plugins : g[1] \in Plugins
    BY DEF Declared
  <2> QED BY <1>3, <2>1, DeclaredType DEF BeginDesired, TypeOK, Reasons
<1>4. CASE \E p \in Plugins : Resolve(p)
  BY <1>4 DEF Resolve, ResolveCached, PullFails, NoRoom, Stored, StoreFails, Resolved, Unresolved,
              TypeOK, Reasons
<1>5. CASE Deliver
  BY <1>5, DeliverTyped DEF Deliver, TypeOK, Reasons
<1>6. CASE ReadStatus
  BY <1>6, DeliveryStatusType DEF ReadStatus, TypeOK, Reasons
<1>7. CASE BeginProgrammed
  BY <1>7, DeliveryStatusType, DeclaredType DEF BeginProgrammed, TypeOK, Reasons
<1>8. Idle => /\ pc' = "idle" /\ listed' = None /\ todo' = {} /\ missing' = {}
              /\ undelivered' = FALSE /\ view' \in Views(revision) /\ view'.failed = 0
  BY DEF Idle, NoView, TypeOK
<1>9. WriteStatus \/ WriteProgrammed \/ Restart \/ RestartInStore => Idle
  BY DEF WriteStatus, WriteProgrammed, Restart, RestartInStore, Restarted, DoneWith
<1>10. CASE Idle
  BY <1>8, <1>10
<1>11. UNCHANGED workVars \/ BeginDesired \/ (\E p \in Plugins : Resolve(p)) \/ Deliver
         \/ ReadStatus \/ WriteStatus \/ BeginProgrammed \/ WriteProgrammed
         \/ Restart \/ RestartInStore
  BY DEF Next, vars, EditRoute, EditPlugin, Accept, Withdraw, WatchChanges, Due
<1> QED BY <1>2, <1>3, <1>4, <1>5, <1>6, <1>7, <1>9, <1>10, <1>11

LEMMA CountersTyped ==
    ASSUME TypeOK, Working, [Next]_vars
    PROVE  edits' \in 0 .. MaxEdits /\ faults' \in 0 .. MaxFaults
<1>1. edits < MaxEdits /\ edits' = edits + 1 => edits' \in 0 .. MaxEdits
  BY BoundAssumption DEF TypeOK
<1>2. Fault => faults' \in 0 .. MaxFaults
  BY BoundAssumption DEF Fault, TypeOK
<1>3. UNCHANGED edits \/ (edits < MaxEdits /\ edits' = edits + 1)
  BY DEF Next, vars, apiVars, EditRoute, EditPlugin, Accept, Withdraw, WatchChanges, Due,
         BeginDesired, Resolve, Deliver, ReadStatus, WriteStatus, BeginProgrammed, WriteProgrammed,
         Restart, RestartInStore, Restarted
<1>4. UNCHANGED faults \/ Fault
  BY DEF Next, vars, EditRoute, EditPlugin, Accept, Withdraw, WatchChanges, Due,
         BeginDesired, Resolve, ResolveCached, PullFails, NoRoom, Stored, StoreFails,
         Deliver, CancelCandidate, SubmitActive, SubmitCandidate, SubmitNew,
         ReadStatus, WriteStatus, BeginProgrammed, WriteProgrammed, Restart, RestartInStore
<1> QED BY <1>1, <1>2, <1>3, <1>4 DEF TypeOK

LEMMA TypeNext ==
    ASSUME TypeOK, Working, Reasons, [Next]_vars
    PROVE  TypeOK' /\ Reasons'
BY SpecsGrow, ApiTyped, StoreTyped, DeliveryTyped, QueueTyped, WorkTyped, CountersTyped
   DEF TypeOK, ApiType, StoreType, DeliveryType, QueueType, WorkType

-----------------------------------------------------------------------------
(* What the worker works on.                                                *)

LEMMA WorkingNext ==
    ASSUME TypeOK, Working, [Next]_vars
    PROVE  Working'
<1>1. CASE pc' = "idle"
  BY <1>1 DEF Working
<1>2. CASE BeginDesired \/ BeginProgrammed
  <2>1. listed' = Declared /\ specs' = specs
    BY <1>2 DEF BeginDesired, BeginProgrammed, apiVars
  <2>2. PICK d \in Configs : Declared = d /\ OfResources(d)
    BY DeclaredType
  <2>3. \A g \in d.plugins : Artifact(g)' \in Sources
    BY <2>1, <2>2 DEF Artifact, OfResources
  <2>4. listed' = d /\ d \in Configs'
    BY <2>1, <2>2, ConfigsGrow
  <2>5. OfResources(d)'
    BY <2>2, <2>3 DEF OfResources
  <2> QED BY <2>4, <2>5 DEF Working
<1>3. CASE listed' = listed /\ pc # "idle"
  <2>1. PICK d \in Configs : listed = d /\ OfResources(d)
    BY <1>3 DEF Working
  <2>2. \A g \in d.plugins : g \in Generations
    BY DEF Configs
  <2>3. \A g \in d.plugins : Artifact(g)' \in Sources
    BY <2>1, <2>2, ConfigsGrow DEF OfResources
  <2>4. listed' = d /\ d \in Configs'
    BY <1>3, <2>1, ConfigsGrow
  <2>5. OfResources(d)'
    BY <2>1, <2>3 DEF OfResources
  <2> QED BY <2>4, <2>5 DEF Working
<1>4. pc' = "idle" \/ BeginDesired \/ BeginProgrammed \/ (listed' = listed /\ pc # "idle")
  BY DEF Next, vars, workVars, Idle, EditRoute, EditPlugin, Accept, Withdraw, WatchChanges, Due,
         Resolve, Deliver, ReadStatus, WriteStatus, WriteProgrammed, DoneWith,
         Restart, RestartInStore, Restarted
<1> QED BY <1>1, <1>2, <1>3, <1>4

-----------------------------------------------------------------------------
(* The store.                                                               *)

\* An eviction spares what the store protects.
LEMMA EvictionSpares ==
    ASSUME NEW m, NEW g \in resolved
    PROVE  Module(g) \notin Evicted(m)
BY DEF Evicted, Protected

LEMMA OnDiskNext ==
    ASSUME TypeOK, Working, ResolvedOnDisk, [Next]_vars
    PROVE  ResolvedOnDisk'
<1>1. resolved \subseteq Generations
  BY DEF TypeOK
<1>2. CASE UNCHANGED files /\ resolved' \subseteq resolved
  BY <1>1, <1>2, ConfigsGrow DEF ResolvedOnDisk
<1>3. ASSUME NEW p \in Plugins, Resolve(p)
      PROVE  ResolvedOnDisk'
  <2>1. listed \in Configs /\ OfResources(listed) /\ specs' = specs
    BY <1>3 DEF Resolve, Working, apiVars
  <2>2. \A g : Module(g)' = Module(g)
    BY <2>1 DEF Module, Artifact
  <2> SUFFICES ASSUME NEW h \in resolved'
               PROVE  Module(h) \in files'
    BY <2>2 DEF ResolvedOnDisk
  <2>3. PICK g \in listed.plugins :
          /\ g[1] = p
          /\ ResolveCached(p, g) \/ PullFails(p, g) \/ NoRoom(p, g) \/ Stored(p, g) \/ StoreFails(p, g)
    BY <1>3 DEF Resolve
  <2>4. {x \in listed.plugins : x[1] = p} = {g}
    BY <2>1, <2>3 DEF OfResources
  <2>5. h \in resolved => Module(h) \in files /\ Module(h) \notin Evicted(Module(g))
    BY EvictionSpares DEF ResolvedOnDisk
  <2>6. CASE ResolveCached(p, g)
    BY <2>4, <2>5, <2>6 DEF ResolveCached, Cached, Keep, Resolved
  <2>7. CASE PullFails(p, g) \/ NoRoom(p, g) \/ StoreFails(p, g)
    BY <2>5, <2>7 DEF PullFails, NoRoom, StoreFails, Keep, Unresolved
  <2>8. CASE Stored(p, g)
    BY <2>4, <2>5, <2>8 DEF Stored, Keep, Resolved
  <2> QED BY <2>3, <2>6, <2>7, <2>8
<1>4. CASE Restart \/ RestartInStore
  BY <1>4 DEF Restart, RestartInStore, Restarted, ResolvedOnDisk
<1>5. UNCHANGED <<files, resolved>> \/ BeginDesired \/ BeginProgrammed
        \/ (\E p \in Plugins : Resolve(p)) \/ Restart \/ RestartInStore
  BY DEF Next, vars, storeVars, EditRoute, EditPlugin, Accept, Withdraw, WatchChanges, Due,
         Deliver, ReadStatus, WriteStatus, WriteProgrammed
<1>6. BeginDesired \/ BeginProgrammed => UNCHANGED files /\ resolved' \subseteq resolved
  BY DEF BeginDesired, BeginProgrammed, Retain
<1> QED BY <1>2, <1>3, <1>4, <1>5, <1>6

-----------------------------------------------------------------------------
(* What Envoy was given.                                                    *)

LEMMA PassResolvedNext ==
    ASSUME TypeOK, PassResolved, [Next]_vars
    PROVE  PassResolved'
<1>1. CASE pc' # "resolve"
  BY <1>1 DEF PassResolved
<1>2. CASE BeginDesired
  <2>1. listed' = Declared /\ todo' = {g[1] : g \in Declared.plugins}
    BY <1>2 DEF BeginDesired
  <2> QED BY <2>1 DEF PassResolved
<1>3. CASE \E p \in Plugins : Resolve(p)
  BY <1>3 DEF PassResolved, Resolve, ResolveCached, PullFails, NoRoom, Stored, StoreFails,
              Resolved, Unresolved
<1>4. CASE UNCHANGED <<workVars, resolved>>
  BY <1>4 DEF PassResolved, workVars
<1>5. pc' # "resolve" \/ BeginDesired \/ (\E p \in Plugins : Resolve(p)) \/ UNCHANGED <<workVars, resolved>>
  BY DEF Next, vars, storeVars, workVars, Idle, EditRoute, EditPlugin, Accept, Withdraw, WatchChanges,
         Due, Deliver, ReadStatus, WriteStatus, BeginProgrammed, WriteProgrammed, DoneWith,
         Restart, RestartInStore, Restarted
<1> QED BY <1>1, <1>2, <1>3, <1>4, <1>5

\* A pass that compiles has resolved what its configuration needs.
LEMMA SubmittedProtected ==
    ASSUME PassResolved, Deliver, ~ HasErrors
    PROVE  Protects(listed)
BY DEF PassResolved, Deliver, HasErrors, Protects

\* A generation that is not declared any more is never declared again.
LEMMA DeclaredStays ==
    ASSUME TypeOK, [Next]_vars, NEW g \in Generations, g \in Declared'.plugins
    PROVE  g \in Declared.plugins
<1>1. PICK p \in Plugins : g = <<p, Len(specs'[p])>> /\ specs'[p] # <<>> /\ Last(specs'[p]) # None
  BY DEF Declared, Installed
<1>2. /\ specs[p] \in Seq(Sources \cup {None}) /\ specs'[p] \in Seq(Sources \cup {None})
      /\ Len(specs[p]) <= Len(specs'[p])
      /\ \A n \in 1 .. Len(specs[p]) : specs'[p][n] = specs[p][n]
  BY SpecsGrow DEF TypeOK
<1>3. PICK q \in Plugins : \E n \in 1 .. Len(specs[q]) : g = <<q, n>>
  BY DEF Generations
<1>4. q = p /\ Len(specs'[p]) \in 1 .. Len(specs[p])
  BY <1>1, <1>3
<1>5. Len(specs[p]) = Len(specs'[p]) /\ Len(specs[p]) \in 1 .. Len(specs[p])
  BY <1>2, <1>3, <1>4
<1>6. specs[p] # <<>> /\ Last(specs[p]) # None
  BY <1>1, <1>2, <1>5 DEF Last
<1> QED BY <1>1, <1>5, <1>6 DEF Declared, Installed

\* Telling the store what to keep names what is declared.
LEMMA DeclaredKept ==
    ASSUME [Next]_vars, ~ Restarted
    PROVE  resolved \cap Declared.plugins \subseteq resolved'
<1>1. CASE UNCHANGED storeVars
  BY <1>1 DEF storeVars
<1>2. CASE BeginDesired \/ BeginProgrammed
  BY <1>2 DEF BeginDesired, BeginProgrammed, Retain
<1>3. CASE \E p \in Plugins : Resolve(p)
  BY <1>3 DEF Resolve, ResolveCached, PullFails, NoRoom, Stored, StoreFails, Resolved, Unresolved
<1> QED BY <1>1, <1>2, <1>3
        DEF Next, vars, EditRoute, EditPlugin, Accept, Withdraw, WatchChanges, Due,
            Deliver, ReadStatus, WriteStatus, WriteProgrammed, Restart, RestartInStore

LEMMA GuardedNext ==
    ASSUME TypeOK, Working, PassResolved, Guarded, [Next]_vars
    PROVE  Guarded'
<1>1. CASE Restarted
  BY <1>1 DEF Restarted, Guarded
<1>2. CASE ~ Restarted
  <2>1. ASSUME NEW config \in Configs, Protects(config),
               NEW g \in config.plugins, g[1] \in Needed, g \in Declared'.plugins
        PROVE  g \in resolved'
    <3>1. g \in Declared.plugins
      BY <2>1, DeclaredStays DEF Configs
    <3> QED BY <1>2, <2>1, <3>1, DeclaredKept DEF Protects
  <2>2. \A config \in {active, candidate} \ {None} : config \in Configs /\ Protects(config)
    BY DEF TypeOK, Guarded
  <2>3. Deliver /\ ~ HasErrors => listed \in Configs /\ Protects(listed)
    BY SubmittedProtected DEF Deliver, Working
  <2>4. {active', candidate'} \subseteq {active, candidate, None}
          \/ (Deliver /\ ~ HasErrors /\ {active', candidate'} \subseteq {active, candidate, listed, None})
    BY <1>2 DEF Next, vars, deliveryVars, EditRoute, EditPlugin, Accept, Withdraw, WatchChanges, Due,
           BeginDesired, Resolve, Deliver, CancelCandidate, SubmitActive, SubmitCandidate, SubmitNew,
           ReadStatus, WriteStatus, BeginProgrammed, WriteProgrammed, Restart, RestartInStore
  <2>5. \A config \in {active', candidate'} \ {None} : config \in Configs /\ Protects(config)
    BY <2>2, <2>3, <2>4
  <2> QED BY <2>1, <2>5 DEF Guarded, Protects
<1> QED BY <1>1, <1>2

-----------------------------------------------------------------------------
(* The room in the cache directory.                                        *)

\* older orders the files by their last use.
UseOrder ==
    /\ \A f \in files : <<f, f>> \notin older
    /\ \A f \in files, h \in files, k \in files :
           <<f, h>> \in older /\ <<h, k>> \in older => <<f, k>> \in older

Directory == IsFiniteSet(files) /\ CacheFits /\ UseOrder

\* A module that needs room gets it unless what the store protects leaves
\* none: evicting the oldest first gives up no room that could be made.
RefusedOnlyWhenFull ==
    \A m \in Modules :
        ~ Fits(m) => SizeOfAll((files \cap Protected(m)) \cup {m}) > MaxCache

LEMMA SizeIsSum == \A S : SizeOfAll(S) = Sum(SizeOf, S)
BY DEF SizeOfAll, Sum

LEMMA SizesAreNat == \A m \in Modules : SizeOf[m] \in Nat
BY SourceAssumption

\* A smaller directory needs no more room.
LEMMA SizeMonotonic ==
    ASSUME NEW S \in SUBSET Modules, IsFiniteSet(S), NEW R \in SUBSET S
    PROVE  SizeOfAll(R) <= SizeOfAll(S) /\ SizeOfAll(R) \in Nat /\ SizeOfAll(S) \in Nat
<1>1. \A x \in S : SizeOf[x] \in Nat
  BY SizesAreNat
<1>2. IsFiniteSet(R) /\ \A x \in R : SizeOf[x] \in Nat
  BY <1>1, FS_Subset
<1>3. Sum(SizeOf, R) <= Sum(SizeOf, S)
  BY <1>1, SumOfSubset
<1>4. Sum(SizeOf, R) \in Nat /\ Sum(SizeOf, S) \in Nat
  BY <1>1, <1>2, SumIsNat
<1> QED BY <1>3, <1>4, SizeIsSum

\* What a subset takes is what the rest leaves.
LEMMA SizeSplit ==
    ASSUME NEW S \in SUBSET Modules, IsFiniteSet(S), NEW R \in SUBSET S
    PROVE  SizeOfAll(S) = SizeOfAll(R) + SizeOfAll(S \ R)
<1>1. \A x \in S : SizeOf[x] \in Nat
  BY SizesAreNat
<1> QED BY <1>1, SumOfParts, SizeIsSum

\* The files stay in order whichever was used or dropped.
LEMMA KeepOrders ==
    ASSUME older \subseteq files \X files, UseOrder, NEW kept, NEW x, NEW m \in SUBSET {x},
           Keep(kept, m)
    PROVE  UseOrder'
<1>1. ASSUME NEW f \in files', <<f, f>> \in older'
      PROVE  FALSE
  BY <1>1 DEF Keep, UseOrder
<1>2. ASSUME NEW f \in files', NEW h \in files', NEW k \in files',
             <<f, h>> \in older', <<h, k>> \in older'
      PROVE  <<f, k>> \in older'
  BY <1>2 DEF Keep, UseOrder
<1> QED BY <1>1, <1>2 DEF UseOrder

\* Evictions for a module keep or lower the size, and stop where it fits.
LEMMA EvictedFits ==
    ASSUME TypeOK, Directory, NEW m \in Modules
    PROVE  /\ IsFiniteSet(files \ Evicted(m))
           /\ SizeOfAll(files \ Evicted(m)) <= MaxCache
<1>1. IsFiniteSet(files \ Evicted(m))
  BY FS_Subset DEF Directory
<1>2. files \in SUBSET Modules /\ IsFiniteSet(files) /\ SizeOfAll(files) <= MaxCache
  BY DEF TypeOK, Directory, CacheFits
<1>3. /\ SizeOfAll(files \ Evicted(m)) <= SizeOfAll(files)
      /\ SizeOfAll(files \ Evicted(m)) \in Nat
      /\ SizeOfAll(files) \in Nat
  <2>1. files \ Evicted(m) \in SUBSET files
    OBVIOUS
  <2> QED BY <1>2, <2>1, SizeMonotonic
<1>4. MaxCache \in Nat
  BY SourceAssumption
<1> QED BY <1>1, <1>2, <1>3, <1>4

LEMMA DirectoryNext ==
    ASSUME TypeOK, Working, Directory, [Next]_vars
    PROVE  Directory'
<1> DEFINE Stays(m) == \/ UNCHANGED <<files, older>>
                       \/ Keep(files, {m})
                       \/ Keep(files \ Evicted(m), {})
                       \/ Keep(files \ Evicted(m), {m})
                       \/ Fits(m) /\ Keep((files \ Evicted(m)) \cup {m}, {m})
<1>1. ASSUME NEW m \in Modules, Stays(m)
      PROVE  Directory'
  <2>1. older \subseteq files \X files /\ UseOrder /\ CacheFits /\ IsFiniteSet(files)
    BY DEF TypeOK, Directory
  <2>2. CASE UNCHANGED <<files, older>>
    BY <2>1, <2>2 DEF Directory, CacheFits, UseOrder
  <2>3. CASE ~ UNCHANGED <<files, older>>
    <3>1. UseOrder'
      BY <1>1, <2>1, <2>3, KeepOrders
    <3>2. \/ files' = files
          \/ files' = files \ Evicted(m)
          \/ Fits(m) /\ files' = (files \ Evicted(m)) \cup {m}
      BY <1>1, <2>3 DEF Keep
    <3>3. IsFiniteSet(files')
      <4>1. IsFiniteSet(files \ Evicted(m))
        BY EvictedFits
      <4>2. IsFiniteSet((files \ Evicted(m)) \cup {m})
        BY <4>1, FS_AddElement
      <4> QED BY <2>1, <3>2, <4>1, <4>2
    <3>4. SizeOfAll(files') <= MaxCache
      BY <2>1, <3>2, EvictedFits DEF CacheFits, Fits
    <3>5. CacheFits'
      BY <3>4 DEF CacheFits
    <3> QED BY <3>1, <3>3, <3>5 DEF Directory
  <2> QED BY <2>2, <2>3
<1>2. CASE UNCHANGED <<files, older>>
  BY <1>2 DEF Directory, CacheFits, UseOrder
<1>3. ASSUME NEW g \in listed.plugins, listed \in Configs, OfResources(listed)
      PROVE  Module(g) \in Modules
  BY <1>3 DEF OfResources, Module, Modules
<1>4. CASE \E p \in Plugins : Resolve(p)
  <2>1. PICK p \in Plugins : Resolve(p)
    BY <1>4
  <2>2. PICK g \in listed.plugins :
          ResolveCached(p, g) \/ PullFails(p, g) \/ NoRoom(p, g) \/ Stored(p, g) \/ StoreFails(p, g)
    BY <2>1 DEF Resolve
  <2>3. Module(g) \in Modules
    BY <1>3, <2>1 DEF Resolve, Working
  <2>4. Stays(Module(g))
    BY <2>2 DEF ResolveCached, PullFails, NoRoom, Stored, StoreFails
  <2> QED BY <1>1, <2>3, <2>4
<1>5. CASE RestartInStore
  <2>1. PICK g \in listed.plugins :
          /\ Fits(Module(g))
          /\ Keep((files \ Evicted(Module(g))) \cup {Module(g)}, {Module(g)})
    BY <1>5 DEF RestartInStore
  <2>2. Module(g) \in Modules
    BY <1>3, <1>5 DEF RestartInStore, Working
  <2> QED BY <1>1, <2>1, <2>2
<1>6. UNCHANGED <<files, older>> \/ (\E p \in Plugins : Resolve(p)) \/ RestartInStore
  BY DEF Next, vars, storeVars, EditRoute, EditPlugin, Accept, Withdraw, WatchChanges, Due,
         BeginDesired, Deliver, ReadStatus, WriteStatus, BeginProgrammed, WriteProgrammed, Restart
<1> QED BY <1>2, <1>4, <1>5, <1>6

\* Of the loose files that stay, one has no older loose file beside it: had
\* the module no room after all, this one would have gone too.
LEMMA RefusalNeedsFull == TypeOK /\ Directory => RefusedOnlyWhenFull
<1> SUFFICES ASSUME TypeOK, Directory
             PROVE  RefusedOnlyWhenFull
  OBVIOUS
<1>0. \A x \in Modules :
      SizeOfAll((files \cap Protected(x)) \cup {x}) \in Nat /\ MaxCache \in Nat
  <2> SUFFICES ASSUME NEW x \in Modules
               PROVE  SizeOfAll((files \cap Protected(x)) \cup {x}) \in Nat
    BY SourceAssumption
  <2>1. files \in SUBSET Modules /\ IsFiniteSet(files)
    BY DEF TypeOK, Directory
  <2> DEFINE kept == files \cap Protected(x)
  <2>2. kept \in SUBSET files
    OBVIOUS
  <2> HIDE DEF kept
  <2>3. IsFiniteSet(kept)
    BY <2>1, <2>2, FS_Subset
  <2>4. IsFiniteSet(kept \cup {x}) /\ kept \cup {x} \in SUBSET Modules
    BY <2>1, <2>2, <2>3, FS_AddElement
  <2>5. SizeOfAll(kept \cup {x}) \in Nat
    BY <2>4, SizeMonotonic
  <2> QED BY <2>5 DEF kept
<1> SUFFICES ASSUME NEW m \in Modules,
                    SizeOfAll((files \cap Protected(m)) \cup {m}) <= MaxCache
             PROVE  Fits(m)
  BY <1>0 DEF RefusedOnlyWhenFull
<1> DEFINE loose == files \ Protected(m)
           all == files \cup {m}
           before(f) == {h \in loose : <<h, f>> \in older}
           left == loose \ Evicted(m)
           end == (files \ Evicted(m)) \cup {m}
<1>1. Evicted(m) = {f \in loose : SizeOfAll(all) - SizeOfAll(before(f)) > MaxCache}
  BY DEF Evicted
<1>2. IsFiniteSet(files) /\ files \in SUBSET Modules /\ UseOrder /\ older \subseteq files \X files
  BY DEF TypeOK, Directory
<1>3. IsFiniteSet(all) /\ all \in SUBSET Modules
  BY <1>2, FS_AddElement
<1>4. m \notin loose /\ MaxCache \in Nat
  BY SourceAssumption DEF Protected
<1>5. CASE left = {}
  <2>1. end = (files \cap Protected(m)) \cup {m}
    BY <1>1, <1>5 DEF Protected
  <2> QED BY <2>1 DEF Fits
<1>6. CASE left # {}
  <2>1. PICK f \in left : \A h \in left : <<h, f>> \notin older
    <3> DEFINE T == {before(f) : f \in left}
    <3>1. T \subseteq SUBSET files /\ T # {}
      BY <1>6
    <3>2. PICK s \in T : \A t \in T : t \subseteq s => t = s
      <4> HIDE DEF T
      <4> QED BY <1>2, <3>1, MinimalSubset
    <3>3. PICK f \in left : s = before(f)
      OBVIOUS
    <3>4. ASSUME NEW h \in left, <<h, f>> \in older
          PROVE  FALSE
      <4>1. before(h) \subseteq before(f)
        BY <1>2, <3>4 DEF UseOrder
      <4>2. h \in before(f) /\ h \notin before(h)
        BY <1>2, <3>4 DEF UseOrder
      <4>3. before(h) \in T
        OBVIOUS
      <4> HIDE DEF T, before
      <4> QED BY <3>2, <3>3, <4>1, <4>2, <4>3
    <3> QED BY <3>4
  <2>2. before(f) \subseteq Evicted(m)
    BY <2>1
  <2>3. SizeOfAll(all) - SizeOfAll(before(f)) <= MaxCache
    <3>1. ~ (SizeOfAll(all) - SizeOfAll(before(f)) > MaxCache)
      BY <1>1, <2>1
    <3>2. before(f) \in SUBSET all
      OBVIOUS
    <3> HIDE DEF all, before
    <3>3. SizeOfAll(all) \in Nat /\ SizeOfAll(before(f)) \in Nat
      BY <1>3, <3>2, SizeMonotonic
    <3> QED BY <1>4, <3>1, <3>3
  <2>4. before(f) \in SUBSET all /\ all \ before(f) \in SUBSET all /\ end \in SUBSET (all \ before(f))
    <3>1. m \notin before(f)
      BY <1>4
    <3>2. end \subseteq all \ before(f)
      BY <2>2, <3>1
    <3> QED BY <3>2
  <2> HIDE DEF all, before, end, left, loose
  <2>5. SizeOfAll(all) = SizeOfAll(before(f)) + SizeOfAll(all \ before(f))
    BY <1>3, <2>4, SizeSplit
  <2>6. IsFiniteSet(all \ before(f)) /\ all \ before(f) \in SUBSET Modules
    BY <1>3, <2>4, FS_Subset
  <2>7. /\ SizeOfAll(end) <= SizeOfAll(all \ before(f))
        /\ SizeOfAll(end) \in Nat /\ SizeOfAll(all \ before(f)) \in Nat
    BY <2>4, <2>6, SizeMonotonic
  <2>8. SizeOfAll(before(f)) \in Nat
    BY <1>3, <2>4, SizeMonotonic
  <2>9. SizeOfAll(end) <= MaxCache
    BY <1>4, <2>3, <2>5, <2>7, <2>8
  <2> QED BY <2>9 DEF Fits, end
<1> QED BY <1>5, <1>6

-----------------------------------------------------------------------------
(* Theorems.                                                                *)

LEMMA Initially == Init => IInv
<1> SUFFICES ASSUME Init
             PROVE  IInv
  OBVIOUS
<1>1. ASSUME NEW p \in Plugins
      PROVE  specs[p] \in Seq(Sources \cup {None})
  <2>1. specs[p] = <<>> \/ \E s \in Sources : specs[p] = <<s>>
    BY DEF Init
  <2>2. ASSUME NEW s \in Sources
        PROVE  <<s>> \in Seq(Sources \cup {None})
    OBVIOUS
  <2>3. <<>> \in Seq(Sources \cup {None})
    OBVIOUS
  <2> QED BY <2>1, <2>2, <2>3
<1>2. specs \in [Plugins -> Seq(Sources \cup {None})]
  BY <1>1 DEF Init
<1>3. queue \in Seq(Keys)
  BY DEF Init, Keys
<1>4. edits \in 0 .. MaxEdits /\ faults \in 0 .. MaxFaults
  BY BoundAssumption DEF Init
<1>5. revision \in Nat \ {0} /\ 0 \in 0 .. revision
  BY DEF Init
<1>6. conditions \in [accepted : 0 .. revision, valid : BOOLEAN, programmed : 0 .. revision,
                      is : {"pending", "blocked", "programmed", "rejected", "delivery"}]
  BY <1>5 DEF Init
<1>7. view \in [active : 0 .. revision, failed : 0 .. revision,
                reason : {"none", "rejected", "delivery"}]
  BY <1>5 DEF Init, NoView
<1>8. TypeOK
  BY <1>2, <1>3, <1>4, <1>5, <1>6, <1>7 DEF Init, TypeOK
<1> QED BY <1>8 DEF Init, IInv, Working, Reasons, NoView, ResolvedOnDisk, PassResolved, Guarded

LEMMA Inductive == IInv /\ [Next]_vars => IInv'
BY TypeNext, WorkingNext, OnDiskNext, PassResolvedNext, GuardedNext DEF IInv

LEMMA Invariance == Spec => []IInv
BY Initially, Inductive, PTL DEF Spec

\* Every variable has its type: artifacts, generations, configurations and
\* conditions are of resources that were declared.
THEOREM TypeCorrect == Spec => []TypeOK
<1>1. IInv => TypeOK
  BY DEF IInv
<1> QED BY <1>1, Invariance, PTL

\* No eviction, failed write or restart takes the file of a module the store
\* protects.
THEOREM ProtectedOnDisk == Spec => []ResolvedOnDisk
<1>1. IInv => ResolvedOnDisk
  BY DEF IInv
<1> QED BY <1>1, Invariance, PTL

\* What Envoy was given can be loaded while its plugins stay as declared:
\* its modules were resolved in the pass that submitted it, the store
\* protects them while they are declared, and what is protected is on disk.
THEOREM GivenLoadable == Spec => []DeclaredLoadable
<1>1. IInv => DeclaredLoadable
  <2> SUFFICES ASSUME IInv, NEW config \in {active, candidate} \ {None},
                      config.plugins \subseteq Declared.plugins
               PROVE  Loadable(config)
    BY DEF DeclaredLoadable
  <2>1. Protects(config)
    BY DEF IInv, Guarded
  <2>2. \A g \in config.plugins : g[1] \in Needed => Module(g) \in files
    BY <2>1 DEF IInv, Protects, ResolvedOnDisk
  <2> QED BY <2>2 DEF Loadable, ModulesOf
<1> QED BY <1>1, Invariance, PTL

LEMMA DirectoryInvariance == Spec => []Directory
<1>1. Init => Directory
  <2> SUFFICES ASSUME Init
               PROVE  Directory
    OBVIOUS
  <2>1. files = {} /\ older = {}
    BY DEF Init
  <2>2. SizeOfAll({}) = 0
    BY SizeIsSum, SumOfNone
  <2>3. MaxCache \in Nat
    BY SourceAssumption
  <2> QED BY <2>1, <2>2, <2>3, FS_EmptySet DEF Directory, CacheFits, UseOrder
<1>2. IInv /\ Directory /\ [Next]_vars => Directory'
  BY DirectoryNext DEF IInv
<1> QED BY <1>1, <1>2, Invariance, PTL DEF Spec

\* The files never take more than max_cache_bytes, whatever is evicted,
\* stored, refused or interrupted: a module is only written once it fits.
THEOREM CacheBounded == Spec => []CacheFits
<1>1. Directory => CacheFits
  BY DEF Directory
<1> QED BY <1>1, DirectoryInvariance, PTL

\* A module is refused for want of room only if the protected modules leave
\* none: the oldest-first eviction is complete.
THEOREM RefusalsJustified == Spec => []RefusedOnlyWhenFull
<1>1. IInv => TypeOK
  BY DEF IInv
<1> QED BY <1>1, Invariance, DirectoryInvariance, RefusalNeedsFull, PTL

-----------------------------------------------------------------------------
(* The loop keeps the contract of Delivery.                                 *)

LEMMA ConfigsAreSome ==
    ASSUME TypeOK
    PROVE  /\ \A config \in Configs : config # None
           /\ \A fail \in Failures : fail # None
<1>1. Configs \subseteq [route : Nat, plugins : SUBSET (Plugins \X Nat)]
  <2>1. Generations \subseteq Plugins \X Nat
    BY DEF Generations, TypeOK
  <2>2. 1 .. revision \subseteq Nat
    BY DEF TypeOK
  <2> QED BY <2>1, <2>2 DEF Configs
<1>2. Failures \subseteq [reason : {"rejected", "delivery"},
                        config : [route : Nat, plugins : SUBSET (Plugins \X Nat)]]
  BY <1>1 DEF Failures
<1> QED BY <1>1, <1>2, NoneAssumption

\* Configurations keep their versions, since generations keep their artifacts.
LEMMA VersionsStay ==
    ASSUME TypeOK, [Next]_vars
    PROVE  \A config \in Configs : Version(config)' = Version(config)
<1> SUFFICES ASSUME NEW config \in Configs
             PROVE  ModulesOf(config)' = ModulesOf(config)
  BY DEF Version
<1>1. \A g \in config.plugins : g \in Generations
  BY DEF Configs
<1>2. \A g \in config.plugins : Module(g)' = Module(g)
  BY <1>1, ConfigsGrow
<1> QED BY <1>2 DEF ModulesOf

LEMMA OnlyStays ==
    ASSUME TypeOK, [Next]_vars,
           active' \in Configs \cup {None}, candidate' \in Configs \cup {None}
    PROVE  Only(active)' = Only(active') /\ Only(candidate)' = Only(candidate')
BY VersionsStay DEF Only

LEMMA OnlyConfigs ==
    ASSUME TypeOK
    PROVE  /\ Only(None) = {}
           /\ \A config \in Configs : Only(config) = {Version(config)}
BY ConfigsAreSome DEF Only

LEMMA SameVersions ==
    \A a, b : SameVersion(a, b) <=> Version(a) = Version(b)
BY DEF SameVersion, Version

ServedNow == Only(IF candidate = None THEN active ELSE candidate)
FailedNow == IF failure = None THEN "none" ELSE failure.reason

\* A step that neither the loop nor the Envoys take part in.
LEMMA ContractStays ==
    ASSUME TypeOK, [Next]_vars, UNCHANGED deliveryVars
    PROVE  UNCHANGED Contract!vars
<1>1. Only(active)' = Only(active) /\ Only(candidate)' = Only(candidate)
  BY OnlyStays DEF deliveryVars, TypeOK
<1>2. UNCHANGED <<active, candidate, failure>>
  BY DEF deliveryVars
<1>3. ServedNow = IF candidate = None THEN Only(active) ELSE Only(candidate)
  BY DEF ServedNow
<1>4. ServedNow' = IF candidate' = None THEN Only(active)' ELSE Only(candidate)'
  BY DEF ServedNow
<1>5. ServedNow' = ServedNow /\ FailedNow' = FailedNow
  BY <1>1, <1>2, <1>3, <1>4 DEF FailedNow
<1> QED BY <1>1, <1>5 DEF Contract!vars, ServedNow, FailedNow

LEMMA ContractDecides ==
    ASSUME TypeOK, Next, Accept \/ Withdraw
    PROVE  Contract!Decide
<1>1. candidate \in Configs /\ active \in Configs \cup {None} /\ candidate' = None
  BY DEF Accept, Withdraw, TypeOK
<1>2. active' \in Configs \cup {None}
  BY <1>1 DEF Accept, Withdraw
<1>3. /\ Only(active)' = Only(active') /\ Only(candidate)' = {}
      /\ Only(candidate) = {Version(candidate)} /\ candidate # None
  BY <1>1, <1>2, OnlyStays, OnlyConfigs, ConfigsAreSome
<1>4. ServedNow = Only(candidate) /\ ServedNow' = Only(active)'
  BY <1>1, <1>3 DEF ServedNow
<1>5. CASE Accept
  <2>1. Contract!Accept
    BY <1>3, <1>4, <1>5 DEF Accept, Contract!Accept, ServedNow
  <2> QED BY <2>1 DEF Contract!Decide
<1>6. CASE Withdraw
  <2>1. PICK reason \in {"rejected", "delivery"} : failure' = [reason |-> reason, config |-> candidate]
    BY <1>6 DEF Withdraw
  <2>2. failure' # None /\ failure'.reason = reason
    BY <1>1, <2>1, ConfigsAreSome DEF Failures
  <2>3. Contract!Withdraw
    BY <1>3, <1>4, <1>6, <2>2 DEF Withdraw, Contract!Withdraw, ServedNow
  <2> QED BY <2>3 DEF Contract!Decide
<1> QED BY <1>5, <1>6

LEMMA ContractDelivers ==
    ASSUME TypeOK, Working, Next, Deliver
    PROVE  Contract!Order \/ UNCHANGED Contract!vars
<1>1. /\ active' \in Configs \cup {None} /\ candidate' \in Configs \cup {None}
      /\ failure' \in Failures \cup {None}
  BY DeliverTyped
<1>2. listed \in Configs /\ active \in Configs \cup {None} /\ candidate \in Configs \cup {None}
  BY DEF Deliver, Working, TypeOK
<1>3. Only(active)' = Only(active') /\ Only(candidate)' = Only(candidate')
  BY <1>1, OnlyStays
<1>4. /\ ServedNow = IF candidate = None THEN Only(active) ELSE Only(candidate)
      /\ ServedNow' = IF candidate' = None THEN Only(active)' ELSE Only(candidate)'
  BY DEF ServedNow
<1>5. /\ Only(listed) = {Version(listed)} /\ listed # None /\ Only(None) = {}
      /\ active # None => Only(active) = {Version(active)}
      /\ candidate # None => Only(candidate) = {Version(candidate)}
  BY <1>2, OnlyConfigs, ConfigsAreSome
<1>6. ASSUME NEW config \in Configs, failure' = FailureOf(config)
      PROVE  FailedNow' = "delivery"
  <2>1. FailureOf(config) \in Failures /\ FailureOf(config).reason = "delivery"
    BY DEF FailureOf, Failures
  <2> QED BY <1>6, <2>1, ConfigsAreSome DEF FailedNow
<1>7. failure' = None => FailedNow' = "none"
  BY DEF FailedNow
<1>8. failure # None /\ failure.reason = "delivery" => FailedNow = "delivery"
  BY DEF FailedNow
\* The candidate is given up and the active version stays.
<1>9. ASSUME candidate' = None, Only(active') = Only(active),
             \/ failure' = None
             \/ /\ candidate # None \/ (failure # None /\ failure.reason = "delivery")
                /\ \E config \in Configs : failure' = FailureOf(config)
      PROVE  Contract!TakeBack
  <2>1. /\ Only(candidate)' = {} /\ ServedNow' = Only(active) /\ Only(active)' = Only(active)
        /\ candidate # None => Only(candidate) # {}
    BY <1>3, <1>4, <1>5, <1>9
  <2>2. \/ FailedNow' = "none"
        \/ (Only(candidate) # {} \/ FailedNow = "delivery") /\ FailedNow' = "delivery"
    BY <1>6, <1>7, <1>8, <1>9, <2>1
  <2> QED BY <2>1, <2>2 DEF Contract!TakeBack, ServedNow, FailedNow
<1>10. CASE CancelCandidate
  <2>1. /\ candidate' = None /\ active' = active
        /\ \/ failure' = None
           \/ /\ candidate # None \/ (failure # None /\ failure.reason = "delivery")
              /\ failure' = FailureOf(IF candidate # None THEN candidate ELSE failure.config)
    BY <1>10 DEF CancelCandidate
  <2>2. candidate # None \/ (failure # None /\ failure.reason = "delivery") =>
            (IF candidate # None THEN candidate ELSE failure.config) \in Configs
    BY <1>2 DEF TypeOK, Failures
  <2>3. \/ failure' = None
        \/ /\ candidate # None \/ (failure # None /\ failure.reason = "delivery")
           /\ \E config \in Configs : failure' = FailureOf(config)
    BY <2>1, <2>2
  <2> QED BY <1>9, <2>1, <2>3 DEF Contract!Order
<1>11. CASE SubmitActive
  <2>1. Only(active) = {Version(listed)}
    BY <1>5, <1>11, SameVersions DEF SubmitActive
  <2>2. Only(active') = Only(active)
    BY <1>5, <1>11, <2>1 DEF SubmitActive
  <2>3. \/ failure' = None
        \/ /\ candidate # None \/ (failure # None /\ failure.reason = "delivery")
           /\ failure' = FailureOf(listed)
    BY <1>11 DEF SubmitActive
  <2>4. candidate' = None
    BY <1>11 DEF SubmitActive
  <2> QED BY <1>2, <1>9, <2>2, <2>3, <2>4 DEF Contract!Order
<1>12. CASE SubmitCandidate
  <2>1. Only(candidate) = {Version(listed)} /\ candidate # None
    BY <1>5, <1>12, SameVersions DEF SubmitCandidate
  <2>2. /\ Only(candidate)' = Only(candidate) /\ Only(active)' = Only(active)
        /\ ServedNow' = ServedNow
    BY <1>3, <1>4, <1>5, <1>12, <2>1 DEF SubmitCandidate
  <2>3. FailedNow' = FailedNow
    <3>1. CASE failure = None
      BY <1>12, <3>1 DEF SubmitCandidate, FailedNow
    <3>2. CASE failure # None
      <4>1. failure \in Failures /\ failure' = [failure EXCEPT !.config = listed]
        BY <1>12, <3>2 DEF SubmitCandidate, TypeOK
      <4>2. failure' \in Failures /\ failure'.reason = failure.reason
        BY <1>2, <4>1 DEF Failures
      <4> QED BY <3>2, <4>2, ConfigsAreSome DEF FailedNow
    <3> QED BY <3>1, <3>2
  <2> QED BY <2>2, <2>3 DEF Contract!vars, ServedNow, FailedNow
<1>13. CASE SubmitNew
  <2>1. Version(listed) \notin Only(active) \cup Only(candidate)
    BY <1>5, <1>13, SameVersions DEF SubmitNew
  <2>2. Only(active)' = Only(active)
    BY <1>3, <1>13 DEF SubmitNew
  <2>3. ASSUME candidate' = listed, failure' = None \/ failure' = FailureOf(listed)
        PROVE  Contract!Offer
    <3>1. Only(candidate)' = {Version(listed)} /\ ServedNow' = Only(candidate)'
      BY <1>3, <1>4, <1>5, <2>3
    <3>2. FailedNow' \in {"none", "delivery"}
      BY <1>2, <1>6, <1>7, <2>3
    <3>3. Contract!New(Only(candidate)')
      BY <2>1, <3>1 DEF Contract!New
    <3> QED BY <2>2, <3>1, <3>2, <3>3 DEF Contract!Offer, ServedNow, FailedNow
  <2>4. ASSUME candidate' = candidate, failure' = FailureOf(listed)
        PROVE  Contract!OfferFails
    <3>1. Only(candidate)' = Only(candidate) /\ ServedNow' = ServedNow
      BY <1>3, <1>4, <2>2, <2>4
    <3>2. FailedNow' = "delivery"
      BY <1>2, <1>6, <2>4
    <3> QED BY <2>2, <3>1, <3>2 DEF Contract!OfferFails, ServedNow, FailedNow
  <2> QED BY <1>13, <2>3, <2>4 DEF SubmitNew, Contract!Order
<1> QED BY <1>10, <1>11, <1>12, <1>13 DEF Deliver

\* The loop, and Delivery as the loop sees it, keep the contract that Delivery
\* keeps (module DeliveryProofs, ContractKept): a version of the contract is
\* what compiles to one, whichever resources it came from.
THEOREM ContractRespected == Spec => KeepsContract
<1>1. Init => Contract!Init
  BY DEF Init, Contract!Init, Only
<1>2. IInv /\ [Next]_vars => [Contract!Next]_(Contract!vars)
  <2> SUFFICES ASSUME TypeOK, Working, [Next]_vars
               PROVE  Contract!Next \/ UNCHANGED Contract!vars
    BY DEF IInv
  <2>1. CASE Accept \/ Withdraw
    <3>1. Next
      BY <2>1 DEF Next
    <3> QED BY <2>1, <3>1, ContractDecides DEF Contract!Next
  <2>2. CASE Deliver
    <3>1. Next
      BY <2>2 DEF Next
    <3> QED BY <2>2, <3>1, ContractDelivers DEF Contract!Next
  <2>3. CASE Restart \/ RestartInStore
    <3>1. active' = None /\ candidate' = None /\ failure' = None
      BY <2>3 DEF Restart, RestartInStore, Restarted
    <3>2. Contract!Restart
      BY <3>1 DEF Contract!Restart, Only
    <3> QED BY <3>2 DEF Contract!Next
  <2>4. \/ Accept \/ Withdraw \/ Deliver \/ Restart \/ RestartInStore
        \/ UNCHANGED deliveryVars
    BY DEF Next, vars, EditRoute, EditPlugin, WatchChanges, Due, BeginDesired, Resolve,
           ReadStatus, WriteStatus, BeginProgrammed, WriteProgrammed
  <2> QED BY <2>1, <2>2, <2>3, <2>4, ContractStays
<1>3. Spec => []IInv
  BY Invariance, PTL
<1> QED BY <1>1, <1>2, <1>3, PTL DEF Spec, Contract!Spec, KeepsContract

=============================================================================
