------------------------ MODULE PluginCatalogProofs ------------------------
(***************************************************************************)
(* Proofs about PluginCatalog, for any number of requests, URLs, calls and  *)
(* failures, and a source that may exist at any generation: the types, that  *)
(* nothing of a withdrawn definition is offered again, and that what is      *)
(* offered is the newest read from its own URL.                             *)
(***************************************************************************)
EXTENDS PluginCatalog, TLAPS

-----------------------------------------------------------------------------
(* Types.                                                                   *)

LEMMA NewStateType ==
    ASSUME NEW d \in Definitions
    PROVE  /\ NewState(d) \in States
           /\ [NewState(d) EXCEPT !.invalidated = TRUE] \in States
BY DEF NewState, States, NoTag

LEMMA AppliedType ==
    ASSUME NEW s \in States \cup {None}, NEW d \in Definitions
    PROVE  /\ ApplySourceDefinition(s, d) \in States
           /\ ApplySourceDefinition(s, d).definition = d
           /\ \A b \in BOOLEAN : [ApplySourceDefinition(s, d) EXCEPT !.available = b] \in States
           /\ s # None => ApplySourceDefinition(s, d).invalidated = s.invalidated
BY NewStateType, SourceAssumption DEF ApplySourceDefinition, NewState, States, NoTag

LEMMA FetchedType ==
    ASSUME NEW d \in Definitions, NEW v \in Versions
    PROVE  [NewState(d) EXCEPT !.items = [url |-> d.url, version |-> v], !.etag = v,
                               !.available = TRUE] \in States
BY DEF NewState, States, NoTag, Manifests, Definitions

LEMMA StoreType ==
    ASSUME NEW s \in States, TypeOK, StoreSourceState(s)
    PROVE  state' \in States \cup {None} /\ seen' \in [Urls -> 0..MaxVersion]
<1>1. state' \in States \cup {None}
  BY DEF StoreSourceState, TypeOK
<1>2. s.items # None => s.items.version \in 0..MaxVersion /\ s.items.url \in Urls
  BY CatalogAssumption DEF States, Manifests, Versions
<1>3. seen' \in [Urls -> 0..MaxVersion]
  BY <1>2 DEF StoreSourceState, TypeOK
<1> QED
  BY <1>1, <1>3

Records == [at : Steps, definition : Definitions \cup {None}, view : States \cup {None}]

LEMMA JobType ==
    ASSUME TypeOK, NEW p \in Jobs, NEW r \in Records, job' = [job EXCEPT ![p] = r]
    PROVE  job' \in [Jobs -> Records] /\ job'[p] = r /\ \A q \in Jobs \ {p} : job'[q] = job[q]
BY DEF TypeOK, Records

LEMMA EndType == NoJob \in Records
BY DEF NoJob, Records, Steps

\* The jobs that work on a definition, those that hold the lock, and those that
\* have a result to store.
Working == {"invalidate", "invalidating", "forget", "acquire", "check", "load", "fetch",
            "verify", "store"}
Holding == {"check", "load", "fetch", "verify", "store", "removeCheck", "remove"}
Finishing == {"verify", "store"}

Defined == \A p \in Jobs : job[p].at \in Working => job[p].definition # None
Finished == \A p \in Jobs : job[p].at \in Finishing => job[p].view # None

Types == TypeOK /\ Defined /\ Finished

\* What a step of one job leaves of the jobs' invariants.
LEMMA JobStep ==
    ASSUME Types, NEW p \in Jobs, NEW r \in Records, job' = [job EXCEPT ![p] = r],
           r.at \in Working => r.definition # None,
           r.at \in Finishing => r.view # None
    PROVE  job' \in [Jobs -> Records] /\ Defined' /\ Finished'
BY JobType DEF Types, Defined, Finished

LEMMA GoType ==
    ASSUME Types, NEW p \in Jobs, NEW step \in Steps, Go(p, step),
           step \in Working => job[p].definition # None,
           step \in Finishing => job[p].view # None
    PROVE  job' \in [Jobs -> Records] /\ Defined' /\ Finished'
<1> DEFINE r == [job[p] EXCEPT !.at = step]
<1>1. job' = [job EXCEPT ![p] = r]
  BY DEF Go, Types, TypeOK
<1>2. r \in Records /\ r.at = step /\ r.definition = job[p].definition /\ r.view = job[p].view
  BY DEF Types, TypeOK, Records
<1> HIDE DEF r
<1> QED
  BY <1>1, <1>2, JobStep

LEMMA EndJob ==
    ASSUME Types, NEW p \in Jobs, End(p)
    PROVE  job' \in [Jobs -> Records] /\ Defined' /\ Finished'
<1>1. NoJob \in Records /\ NoJob.at \notin Working /\ NoJob.at \notin Finishing
  BY DEF NoJob, Records, Steps, Working, Finishing
<1> QED
  BY <1>1, JobStep DEF End

LEMMA BeginJob ==
    ASSUME Types, NEW p \in Jobs, NEW step \in Steps \ Finishing, NEW d \in Definitions,
           job' = [job EXCEPT ![p] = [at |-> step, definition |-> d, view |-> None]]
    PROVE  job' \in [Jobs -> Records] /\ Defined' /\ Finished'
<1> DEFINE r == [at |-> step, definition |-> d, view |-> None]
<1>1. r \in Records /\ r.at \notin Finishing /\ r.definition # None
  BY SourceAssumption DEF Records
<1>2. job' = [job EXCEPT ![p] = r]
  OBVIOUS
<1> HIDE DEF r
<1> QED
  BY <1>1, <1>2, JobStep

LEMMA ViewJob ==
    ASSUME Types, NEW p \in Jobs, NEW step \in Steps, NEW s \in States \cup {None},
           job' = [job EXCEPT ![p].at = step, ![p].view = s],
           step \in Working => job[p].definition # None,
           step \in Finishing => s # None
    PROVE  job' \in [Jobs -> Records] /\ Defined' /\ Finished'
<1> DEFINE r == [job[p] EXCEPT !.at = step, !.view = s]
<1>1. job' = [job EXCEPT ![p] = r]
  BY DEF Types, TypeOK
<1>2. r \in Records /\ r.at = step /\ r.definition = job[p].definition /\ r.view = s
  BY DEF Types, TypeOK, Records
<1> HIDE DEF r
<1> QED
  BY <1>1, <1>2, JobStep

\* The steps of Go, of a view and of an end, named once.
LEMMA StepNames ==
    /\ {"define", "missing", "removeAcquire", "removeCheck", "remove", "idle"}
         \subseteq Steps \ (Working \cup Finishing)
    /\ {"acquire", "check", "load", "fetch", "invalidate", "invalidating", "forget"}
         \subseteq (Steps \cap Working) \ Finishing
    /\ Finishing \subseteq Steps \cap Working
    /\ {"verify", "store"} = Finishing
BY DEF Steps, Working, Finishing

LEMMA TypesInitially == Init => Types
<1> SUFFICES ASSUME Init PROVE Types
  OBVIOUS
<1>1. NoJob \in Records /\ NoJob.at \notin Working \cup Finishing
  BY EndType DEF NoJob, Working, Finishing
<1>2. job \in [Jobs -> Records] /\ Defined /\ Finished
  BY <1>1 DEF Init, Defined, Finished
<1>3. 1 \in Versions /\ 0 \in 0..MaxVersion /\ 0 \in 0..MaxCalls /\ 0 \in 0..MaxFaults
  BY CatalogAssumption DEF Versions
<1>4. resource \in Definitions \cup {None}
  BY SourceAssumption DEF Init
<1> QED
  BY <1>2, <1>3, <1>4 DEF Init, Types, TypeOK, Records

LEMMA TypesKept == Types /\ [Next]_vars => Types'
<1> SUFFICES ASSUME Types, [Next]_vars PROVE Types'
  OBVIOUS
<1> USE DEF Types
<1>j. Requests \subseteq Jobs /\ Refresher \in Jobs
  BY DEF Jobs
<1>f. ASSUME Fail PROVE faults' \in 0..MaxFaults
  BY <1>f, CatalogAssumption DEF Fail, CanFail, TypeOK
<1>c. ASSUME NEW p \in Requests, Call(p) PROVE calls' \in 0..MaxCalls
  BY <1>c, CatalogAssumption DEF Call, TypeOK
<1>v. \A p \in Jobs : /\ job[p].definition \in Definitions \cup {None}
                      /\ job[p].view \in States \cup {None}
  BY DEF TypeOK
<1>1. ASSUME NEW p \in Requests, Write(p) PROVE Types'
  <2>1. PICK u \in Urls, e \in BOOLEAN : \E d \in NextDefinition(u, e) :
          /\ resource' = d
          /\ \/ /\ job' = [job EXCEPT ![p] = [at |-> "invalidate", definition |-> d,
                                              view |-> None]]
                /\ UNCHANGED faults
             \/ Fail /\ UNCHANGED job
    BY <1>1 DEF Write
  <2>2. NextDefinition(u, e) \subseteq Definitions
    BY DEF NextDefinition, TypeOK, Definitions
  <2>3. job' \in [Jobs -> Records] /\ Defined' /\ Finished'
    <3>1. CASE UNCHANGED job
      BY <3>1 DEF TypeOK, Records, Defined, Finished
    <3>2. CASE job' = [job EXCEPT ![p] = [at |-> "invalidate", definition |-> resource',
                                          view |-> None]]
      BY <2>1, <2>2, <3>2, <1>j, BeginJob, StepNames
    <3> QED
      BY <2>1, <3>1, <3>2
  <2> QED
    BY <1>1, <2>1, <2>2, <2>3, <1>c, <1>f DEF Write, TypeOK, Records
<1>2. ASSUME NEW p \in Requests, Delete(p) PROVE Types'
  <2>1. resource \in Definitions
    BY <1>2 DEF Delete, TypeOK
  <2>2. job' \in [Jobs -> Records] /\ Defined' /\ Finished'
    <3>1. CASE UNCHANGED job
      BY <3>1 DEF TypeOK, Records, Defined, Finished
    <3>2. CASE job' = [job EXCEPT ![p] = [at |-> "forget", definition |-> resource,
                                          view |-> None]]
      BY <2>1, <3>2, <1>j, BeginJob, StepNames
    <3> QED
      BY <1>2, <3>1, <3>2 DEF Delete
  <2> QED
    BY <1>2, <2>2, <1>c, <1>f DEF Delete, TypeOK, Records
<1>3. ASSUME NEW p \in Requests, Sync(p) PROVE Types'
  <2>1. job' \in [Jobs -> Records] /\ Defined' /\ Finished'
    BY <1>3, <1>j, GoType, StepNames DEF Sync
  <2> QED
    BY <1>3, <2>1, <1>c DEF Sync, TypeOK, Records
<1>4. ASSUME NEW p \in Requests, GiveUp(p) PROVE Types'
  <2>1. job' \in [Jobs -> Records] /\ Defined' /\ Finished'
    BY <1>4, <1>j, EndJob DEF GiveUp
  <2> QED
    BY <1>4, <2>1, <1>f DEF GiveUp, TypeOK, Records
<1>5. ASSUME NEW p \in Jobs, InvalidateLoad(p) PROVE Types'
  <2>1. state \in States \cup {None} /\ job[p].definition # None
    BY <1>5, StepNames DEF InvalidateLoad, TypeOK, Defined
  <2>2. job' \in [Jobs -> Records] /\ Defined' /\ Finished'
    BY <1>5, <2>1, ViewJob, StepNames DEF InvalidateLoad
  <2> QED
    BY <1>5, <2>2 DEF InvalidateLoad, TypeOK, Records
<1>6. ASSUME NEW p \in Jobs, InvalidateStore(p) PROVE Types'
  <2> DEFINE s == [ApplySourceDefinition(job[p].view, job[p].definition)
                     EXCEPT !.available = FALSE]
  <2>1. job[p].definition \in Definitions /\ job[p].view \in States \cup {None}
    BY <1>6, <1>v, StepNames DEF InvalidateStore, Defined
  <2>2. s \in States /\ StoreSourceState(s)
    BY <1>6, <2>1, AppliedType DEF InvalidateStore
  <2>3. state' \in States \cup {None} /\ seen' \in [Urls -> 0..MaxVersion]
    BY <2>2, StoreType
  <2>4. [NoJob EXCEPT !.at = "define"] \in Records
        /\ [NoJob EXCEPT !.at = "define"].at = "define"
    BY DEF NoJob, Records, Steps
  <2>5. job' \in [Jobs -> Records] /\ Defined' /\ Finished'
    BY <1>6, <2>4, JobStep, StepNames DEF InvalidateStore
  <2>6. told' \in Nat
    BY <1>6, <2>1 DEF InvalidateStore, TypeOK, Definitions
  <2> QED
    BY <1>6, <2>3, <2>5, <2>6 DEF InvalidateStore, TypeOK, Records
<1>7. ASSUME NEW p \in Jobs, Forget(p) PROVE Types'
  <2>1. job[p].definition \in Definitions
    BY <1>7, <1>v, StepNames DEF Forget, Defined
  <2>2. state' \in States \cup {None} /\ seen' \in [Urls -> 0..MaxVersion]
    BY <1>7, <2>1, NewStateType, StoreType DEF Forget
  <2>3. job' \in [Jobs -> Records] /\ Defined' /\ Finished'
    BY <1>7, EndJob DEF Forget
  <2>4. told' \in Nat
    BY <1>7, <2>1 DEF Forget, Definitions
  <2> QED
    BY <1>7, <2>2, <2>3, <2>4 DEF Forget, TypeOK, Records
<1>8. ASSUME NEW p \in Jobs, Define(p) PROVE Types'
  <2>1. CASE resource # None
    <3>1. resource \in Definitions
      BY <2>1 DEF TypeOK
    <3>2. job' \in [Jobs -> Records] /\ Defined' /\ Finished'
      BY <1>8, <2>1, <3>1, BeginJob, StepNames DEF Define
    <3> QED
      BY <1>8, <3>2 DEF Define, TypeOK, Records
  <2>2. CASE resource = None
    <3>1. job' \in [Jobs -> Records] /\ Defined' /\ Finished'
      BY <1>8, <2>2, EndJob DEF Define
    <3> QED
      BY <1>8, <3>1 DEF Define, TypeOK, Records
  <2> QED
    BY <2>1, <2>2
<1>9. ASSUME NEW p \in Jobs, Acquire(p) PROVE Types'
  <2>1. job' \in [Jobs -> Records] /\ Defined' /\ Finished'
    BY <1>9, GoType, StepNames DEF Acquire, Defined
  <2> QED
    BY <1>9, <2>1 DEF Acquire, TypeOK, Records
<1>10. ASSUME NEW p \in Jobs, Check(p) PROVE Types'
  <2> DEFINE d == job[p].definition
  <2>1. d \in Definitions
    BY <1>10, <1>v, StepNames DEF Check, Defined
  <2>2. CASE Go(p, "load") /\ UNCHANGED <<lock, faults>>
    <3>1. job' \in [Jobs -> Records] /\ Defined' /\ Finished'
      BY <2>1, <2>2, SourceAssumption, GoType, StepNames
    <3> QED
      BY <1>10, <2>2, <3>1 DEF Check, TypeOK, Records
  <2>3. CASE /\ job' = [job EXCEPT ![p].at = "store", ![p].view = NewState(d)]
             /\ UNCHANGED <<lock, faults>>
    <3>1. NewState(d) \in States /\ NewState(d) # None /\ d # None
      BY <2>1, NewStateType, SourceAssumption
    <3>2. job' \in [Jobs -> Records] /\ Defined' /\ Finished'
      BY <2>3, <3>1, ViewJob, StepNames
    <3> QED
      BY <1>10, <2>3, <3>2 DEF Check, TypeOK, Records
  <2>4. CASE EndSync(p) /\ (UNCHANGED faults \/ Fail)
    <3>1. job' \in [Jobs -> Records] /\ Defined' /\ Finished'
      BY <2>4, EndJob DEF EndSync
    <3> QED
      BY <1>10, <2>4, <3>1, <1>f DEF Check, EndSync, TypeOK, Records
  <2> QED
    BY <1>10, <2>2, <2>3, <2>4 DEF Check
<1>11. ASSUME NEW p \in Jobs, Load(p) PROVE Types'
  <2> DEFINE s == IF state # None /\ state.definition.url = job[p].definition.url
                  THEN state ELSE None
  <2>1. s \in States \cup {None} /\ job[p].definition # None
    BY <1>11, StepNames DEF Load, TypeOK, Defined
  <2>2. job' \in [Jobs -> Records] /\ Defined' /\ Finished'
    BY <1>11, <2>1, ViewJob, StepNames DEF Load
  <2> QED
    BY <1>11, <2>2 DEF Load, TypeOK, Records
<1>12. ASSUME NEW p \in Jobs, Fetch(p) PROVE Types'
  <2>1. job[p].definition \in Definitions /\ job[p].view \in States \cup {None}
    BY <1>12, <1>v, StepNames DEF Fetch, Defined
  <2>2. remote[job[p].definition.url] \in Versions
    BY <2>1 DEF TypeOK, Definitions
  <2>3. PICK s \in States : job' = [job EXCEPT ![p].at = "verify", ![p].view = s]
    BY <1>12, <2>1, <2>2, AppliedType, FetchedType DEF Fetch
  <2>4. s # None /\ job[p].definition # None
    BY <2>1, SourceAssumption
  <2>5. job' \in [Jobs -> Records] /\ Defined' /\ Finished'
    BY <2>3, <2>4, ViewJob, StepNames
  <2> QED
    BY <1>12, <2>5, <1>f DEF Fetch, TypeOK, Records
<1>13. ASSUME NEW p \in Jobs, Verify(p) PROVE Types'
  <2>1. CASE Go(p, "store") /\ UNCHANGED <<lock, faults>>
    <3>1. job' \in [Jobs -> Records] /\ Defined' /\ Finished'
      BY <1>13, <2>1, GoType, StepNames DEF Verify, Defined, Finished
    <3> QED
      BY <1>13, <2>1, <3>1 DEF Verify, TypeOK, Records
  <2>2. CASE EndSync(p) /\ (UNCHANGED faults \/ Fail)
    <3>1. job' \in [Jobs -> Records] /\ Defined' /\ Finished'
      BY <2>2, EndJob DEF EndSync
    <3> QED
      BY <1>13, <2>2, <3>1, <1>f DEF Verify, EndSync, TypeOK, Records
  <2> QED
    BY <1>13, <2>1, <2>2 DEF Verify
<1>14. ASSUME NEW p \in Jobs, StoreResult(p) PROVE Types'
  <2>1. job[p].view \in States
    BY <1>14, <1>v, StepNames DEF StoreResult, Finished
  <2>2. state' \in States \cup {None} /\ seen' \in [Urls -> 0..MaxVersion]
    BY <1>14, <2>1, StoreType DEF StoreResult
  <2>3. job' \in [Jobs -> Records] /\ Defined' /\ Finished'
    BY <1>14, EndJob DEF StoreResult, EndSync
  <2> QED
    BY <1>14, <2>2, <2>3 DEF StoreResult, EndSync, TypeOK, Records
<1>15. ASSUME List PROVE Types'
  <2>1. CASE resource # None
    <3>1. resource \in Definitions
      BY <2>1 DEF TypeOK
    <3>2. job' \in [Jobs -> Records] /\ Defined' /\ Finished'
      BY <1>15, <1>j, <2>1, <3>1, BeginJob, StepNames DEF List
    <3> QED
      BY <1>15, <3>2 DEF List, TypeOK, Records
  <2>2. CASE resource = None
    <3>1. job' \in [Jobs -> Records] /\ Defined' /\ Finished'
      BY <1>15, <1>j, <2>2, GoType, StepNames DEF List
    <3> QED
      BY <1>15, <3>1 DEF List, TypeOK, Records
  <2> QED
    BY <2>1, <2>2
<1>16. ASSUME FindMissing PROVE Types'
  <2>1. job' \in [Jobs -> Records] /\ Defined' /\ Finished'
    BY <1>16, <1>j, GoType, StepNames DEF FindMissing
  <2> QED
    BY <1>16, <2>1 DEF FindMissing, TypeOK, Records
<1>17. ASSUME RemoveAcquire PROVE Types'
  <2>1. job' \in [Jobs -> Records] /\ Defined' /\ Finished'
    BY <1>17, <1>j, GoType, StepNames DEF RemoveAcquire
  <2> QED
    BY <1>17, <1>j, <2>1 DEF RemoveAcquire, TypeOK, Records
<1>18. ASSUME RemoveCheck PROVE Types'
  <2>1. job' \in [Jobs -> Records] /\ Defined' /\ Finished'
    BY <1>18, <1>j, GoType, EndJob, StepNames DEF RemoveCheck, EndSync
  <2> QED
    BY <1>18, <2>1, <1>f DEF RemoveCheck, EndSync, TypeOK, Records
<1>19. ASSUME Remove PROVE Types'
  <2>1. job' \in [Jobs -> Records] /\ Defined' /\ Finished'
    BY <1>19, <1>j, EndJob DEF Remove, EndSync
  <2> QED
    BY <1>19, <2>1 DEF Remove, EndSync, TypeOK, Records
<1>20. ASSUME NEW u \in Urls, PublishManifest(u) PROVE Types'
  <2>1. remote' \in [Urls -> Versions]
    BY <1>20, CatalogAssumption DEF PublishManifest, TypeOK, Versions
  <2> QED
    BY <1>20, <2>1 DEF PublishManifest, TypeOK, Defined, Finished
<1>21. CASE UNCHANGED vars
  BY <1>21 DEF vars, TypeOK, Defined, Finished
<1> QED
  BY <1>1, <1>2, <1>3, <1>4, <1>5, <1>6, <1>7, <1>8, <1>9, <1>10, <1>11, <1>12, <1>13,
     <1>14, <1>15, <1>16, <1>17, <1>18, <1>19, <1>20, <1>21
     DEF Next, Step, Refresh

\* The types hold for any requests, URLs, calls and failures.
THEOREM TypeCorrect == Spec => []TypeOK
<1>1. Types => TypeOK
  BY DEF Types
<1> QED
  BY <1>1, TypesInitially, TypesKept, PTL DEF Spec

-----------------------------------------------------------------------------
(* Nothing withdrawn is offered again.                                      *)

\* Nothing under way, and nothing in the catalog, is newer than g.
Newest(g) ==
    /\ \A p \in Jobs : job[p].definition # None => job[p].definition.generation <= g
    /\ state # None => state.definition.generation <= g

Bounded == resource # None => Newest(resource.generation) /\ told <= resource.generation

\* Delete takes the last definition there will be.
Last ==
    \A p \in Jobs : job[p].at = "forget" =>
        /\ resource = None
        /\ calls # 0
        /\ Newest(job[p].definition.generation)

Fresh ==
    resource = None /\ calls = 0 =>
        /\ state = None
        /\ told = 0
        /\ \A p \in Jobs : job[p].definition = None

Locked == \A p \in Jobs : job[p].at \in Holding => lock = p

\* The catalog refuses what was read for generation g.
Blocked(g) ==
    /\ state # None
    /\ \/ state.definition.generation > g
       \/ state.invalidated /\ state.definition.generation >= g

\* A synchronisation that found its definition current is still worth storing
\* or will be refused.
Guarded ==
    \A p \in Jobs : job[p].at \in {"load", "fetch"} \cup Finishing =>
        \/ job[p].definition.generation >= told
        \/ Blocked(job[p].definition.generation)

\* The tombstone of a deleted source offers nothing and has nothing to confirm.
Tombstone(s) == s.invalidated => ~s.available /\ s.etag = NoTag

Views ==
    /\ state # None => Tombstone(state)
    /\ \A p \in Jobs : job[p].view # None => Tombstone(job[p].view)

Own == \A p \in Jobs : job[p].at \in Finishing => job[p].view.definition = job[p].definition

Inv == Types /\ Bounded /\ Last /\ Fresh /\ Locked /\ Guarded /\ Views /\ Own /\ NoStaleOffer

\* What a step leaves of the catalog keeps a blocked generation blocked, as long
\* as it stores by StoreSourceState or not at all.
LEMMA BlockedStays ==
    ASSUME Types, NEW s \in States, StoreSourceState(s), NEW g \in Nat, Blocked(g)
    PROVE  Blocked(g)'
<1>1. state \in States /\ state.definition.generation \in Nat /\ s.definition.generation \in Nat
  BY DEF Blocked, Types, TypeOK, States, Definitions
<1>2. CASE Outdated(s)
  BY <1>2 DEF StoreSourceState, Blocked
<1>3. CASE ~Outdated(s)
  <2>1. state' = s /\ s # None
    BY <1>3, SourceAssumption DEF StoreSourceState
  <2>2. s.definition.generation > g
    BY <1>1, <1>3 DEF Blocked, Outdated
  <2> QED
    BY <2>1, <2>2 DEF Blocked
<1> QED
  BY <1>2, <1>3

\* Storing a definition leaves it, or something that refuses what is older.
LEMMA StoreBlocks ==
    ASSUME Types, NEW s \in States, StoreSourceState(s)
    PROVE  /\ state' # None /\ state' \in States
           /\ \A g \in Nat : g < s.definition.generation => Blocked(g)'
           /\ s.invalidated => \A g \in Nat : g <= s.definition.generation => Blocked(g)'
<1>1. s.definition.generation \in Nat /\ s # None
  BY SourceAssumption DEF States, Definitions
<1>2. CASE Outdated(s)
  <2>1. state \in States /\ state # None /\ state.definition.generation \in Nat
    BY <1>2, SourceAssumption DEF Outdated, Types, TypeOK, States, Definitions
  <2> QED
    BY <1>1, <1>2, <2>1 DEF StoreSourceState, Outdated, Blocked
<1>3. CASE ~Outdated(s)
  BY <1>1, <1>3 DEF StoreSourceState, Blocked
<1> QED
  BY <1>2, <1>3

LEMMA AppliedTombstone ==
    ASSUME NEW s \in States \cup {None}, s # None => Tombstone(s), NEW d \in Definitions
    PROVE  Tombstone(ApplySourceDefinition(s, d))
<1>1. CASE s = None
  BY <1>1 DEF ApplySourceDefinition, NewState, Tombstone
<1>2. CASE s # None
  <2>1. s \in States
    BY <1>2
  <2>2. CASE s.definition.url = d.url
    <3>1. ApplySourceDefinition(s, d) = [s EXCEPT !.definition = d]
      BY <1>2, <2>2 DEF ApplySourceDefinition
    <3> QED
      BY <1>2, <2>1, <3>1 DEF Tombstone, States
  <2>3. CASE s.definition.url # d.url
    <3>1. ApplySourceDefinition(s, d) = [s EXCEPT !.definition = d, !.items = None,
                                                   !.etag = NoTag]
      BY <1>2, <2>3 DEF ApplySourceDefinition
    <3> QED
      BY <1>2, <2>1, <3>1 DEF Tombstone, States
  <2> QED
    BY <2>2, <2>3
<1> QED
  BY <1>1, <1>2

\* A step of one job that leaves the source and the catalog alone.
LEMMA QuietStep ==
    ASSUME Inv, Types', NEW p \in Jobs, NEW r \in Records, job' = [job EXCEPT ![p] = r],
           UNCHANGED <<resource, state, told>>, calls' = 0 => calls = 0,
           r.at # "forget",
           r.definition \in {None, job[p].definition, resource},
           lock' # lock => lock \in {None, p},
           r.at \in Holding => lock' = p,
           r.at \in {"load", "fetch"} \cup Finishing =>
              r.definition.generation >= told \/ Blocked(r.definition.generation),
           r.view # None => Tombstone(r.view),
           r.at \in Finishing => r.view.definition = r.definition
    PROVE  Inv'
<1>1. job'[p] = r /\ \A q \in Jobs \ {p} : job'[q] = job[q]
  BY JobType DEF Inv, Types
<1>2. ASSUME NEW g, Newest(g), r.definition # None => r.definition.generation <= g
      PROVE  Newest(g)'
  BY <1>1, <1>2 DEF Newest
<1>3. Bounded'
  <2>1. CASE resource # None
    <3>1. r.definition # None => r.definition.generation <= resource.generation
      <4>1. resource.generation \in Nat
        BY <2>1 DEF Inv, Types, TypeOK, Definitions
      <4> QED
        BY <2>1, <4>1 DEF Inv, Bounded, Newest
    <3> QED
      BY <2>1, <3>1, <1>2 DEF Inv, Bounded
  <2>2. CASE resource = None
    BY <2>2 DEF Bounded
  <2> QED
    BY <2>1, <2>2
<1>4. Last'
  <2> SUFFICES ASSUME NEW q \in Jobs, job'[q].at = "forget"
               PROVE  /\ resource' = None
                      /\ calls' # 0
                      /\ Newest(job[q].definition.generation)'
                      /\ job'[q] = job[q]
    BY DEF Last, Newest
  <2>1. q # p /\ job'[q] = job[q]
    BY <1>1
  <2>2. resource = None /\ calls # 0 /\ Newest(job[q].definition.generation)
    BY <2>1 DEF Inv, Last
  <2>3. r.definition # None => r.definition.generation <= job[q].definition.generation
    BY <2>2 DEF Newest
  <2>4. Newest(job[q].definition.generation)'
    <3>1. \A o \in Jobs : job'[o].definition # None =>
             job'[o].definition.generation <= job[q].definition.generation
      BY <1>1, <2>2, <2>3 DEF Newest
    <3> QED
      BY <2>1, <2>2, <3>1 DEF Newest
  <2> QED
    BY <2>1, <2>2, <2>4
<1>5. Fresh'
  BY <1>1 DEF Inv, Fresh
<1>6. Locked'
  BY <1>1, SourceAssumption DEF Inv, Locked
<1>7. Guarded'
  BY <1>1 DEF Inv, Guarded, Blocked
<1>8. Views' /\ Own'
  BY <1>1 DEF Inv, Views, Own, Tombstone
<1>9. NoStaleOffer'
  BY DEF Inv, NoStaleOffer
<1> QED
  BY <1>3, <1>4, <1>5, <1>6, <1>7, <1>8, <1>9 DEF Inv

\* Ending a job, or moving it to a step without the lock.
LEMMA EndQuiet ==
    ASSUME Inv, Types', NEW p \in Jobs, End(p), UNCHANGED <<resource, state, told>>,
           calls' = 0 => calls = 0, lock' # lock => lock \in {None, p}
    PROVE  Inv'
<1>1. /\ NoJob \in Records /\ NoJob.at = "idle" /\ NoJob.definition = None /\ NoJob.view = None
      /\ NoJob.at \notin Holding
  BY EndType DEF NoJob, Holding
<1> QED
  BY <1>1, StepNames, QuietStep DEF End

LEMMA EndSyncQuiet ==
    ASSUME Inv, Types', NEW p \in Jobs, EndSync(p), lock = p,
           UNCHANGED <<resource, calls, state, told>>
    PROVE  Inv'
BY EndQuiet DEF EndSync

LEMMA GoQuiet ==
    ASSUME Inv, Types', NEW p \in Jobs, NEW step \in Steps \ {"forget"}, Go(p, step),
           UNCHANGED <<resource, state, told>>, calls' = 0 => calls = 0,
           lock' # lock => lock \in {None, p},
           step \in Holding => lock' = p,
           step \in {"load", "fetch"} \cup Finishing =>
              \/ job[p].definition.generation >= told
              \/ Blocked(job[p].definition.generation),
           step \in Finishing => job[p].at \in Finishing
    PROVE  Inv'
<1> DEFINE r == [job[p] EXCEPT !.at = step]
<1>1. job' = [job EXCEPT ![p] = r]
  BY DEF Go, Inv, Types, TypeOK
<1>2. r \in Records /\ r.at = step /\ r.definition = job[p].definition /\ r.view = job[p].view
  BY DEF Inv, Types, TypeOK, Records
<1> HIDE DEF r
<1>3. r.view # None => Tombstone(r.view)
  BY <1>2 DEF Inv, Views
<1>4. r.at \in Finishing => r.view.definition = r.definition
  BY <1>2 DEF Inv, Own
<1> QED
  BY <1>1, <1>2, <1>3, <1>4, QuietStep

LEMMA BeginQuiet ==
    ASSUME Inv, Types', NEW p \in Jobs, resource \in Definitions,
           job' = [job EXCEPT ![p] = [at |-> "acquire", definition |-> resource, view |-> None]],
           UNCHANGED <<resource, calls, state, told, lock>>
    PROVE  Inv'
<1> DEFINE r == [at |-> "acquire", definition |-> resource, view |-> None]
<1>1. /\ r \in Records /\ r.at = "acquire" /\ r.definition = resource /\ r.view = None
      /\ r.at \notin Holding \cup Finishing \cup {"load", "fetch"}
  BY DEF Records, Steps, Holding, Finishing
<1>2. job' = [job EXCEPT ![p] = r]
  OBVIOUS
<1> HIDE DEF r
<1> QED
  BY <1>1, <1>2, QuietStep

LEMMA ViewQuiet ==
    ASSUME Inv, Types', NEW p \in Jobs, NEW step \in Steps \ {"forget"},
           NEW s \in States \cup {None},
           job' = [job EXCEPT ![p].at = step, ![p].view = s],
           UNCHANGED <<resource, calls, state, told, lock>>,
           step \in Holding => lock = p,
           step \in {"load", "fetch"} \cup Finishing =>
              \/ job[p].definition.generation >= told
              \/ Blocked(job[p].definition.generation),
           s # None => Tombstone(s),
           step \in Finishing => s.definition = job[p].definition
    PROVE  Inv'
<1> DEFINE r == [job[p] EXCEPT !.at = step, !.view = s]
<1>1. job' = [job EXCEPT ![p] = r]
  BY DEF Inv, Types, TypeOK
<1>2. r \in Records /\ r.at = step /\ r.definition = job[p].definition /\ r.view = s
  BY DEF Inv, Types, TypeOK, Records
<1> HIDE DEF r
<1> QED
  BY <1>1, <1>2, QuietStep

LEMMA SynchronisationKeeps ==
    ASSUME Inv, Types', NEW p \in Jobs,
           \/ InvalidateLoad(p) \/ Define(p) \/ Acquire(p) \/ Check(p) \/ Load(p) \/ Fetch(p)
           \/ Verify(p)
    PROVE  Inv'
<1>v. /\ job[p].definition \in Definitions \cup {None}
      /\ job[p].view \in States \cup {None}
      /\ state \in States \cup {None}
      /\ resource \in Definitions \cup {None}
  BY DEF Inv, Types, TypeOK
<1>1. CASE InvalidateLoad(p)
  <2>1. /\ "invalidating" \in Steps \ {"forget"}
        /\ "invalidating" \notin Holding \cup Finishing \cup {"load", "fetch"}
    BY DEF Steps, Holding, Finishing
  <2>2. state # None => Tombstone(state)
    BY DEF Inv, Views
  <2> QED
    BY <1>1, <1>v, <2>1, <2>2, ViewQuiet DEF InvalidateLoad
<1>2. CASE Define(p)
  BY <1>2, <1>v, BeginQuiet, EndQuiet DEF Define
<1>3. CASE Acquire(p)
  <2>1. "check" \in Steps \ {"forget"} /\ "check" \notin Finishing \cup {"load", "fetch"}
    BY DEF Steps, Finishing
  <2> QED
    BY <1>3, <2>1, GoQuiet DEF Acquire
<1>4. CASE Check(p)
  <2>1. lock = p /\ job[p].definition \in Definitions
    BY <1>4, <1>v DEF Check, Inv, Types, Locked, Holding, Defined, Working
  <2>2. resource = job[p].definition => job[p].definition.generation >= told
    <3>1. resource = job[p].definition => resource # None /\ told <= resource.generation
      BY <2>1, SourceAssumption DEF Inv, Bounded
    <3> QED
      BY <2>1, <3>1 DEF Definitions, Inv, Types, TypeOK
  <2>3. CASE resource = job[p].definition /\ Go(p, "load") /\ UNCHANGED lock
    <3>1. "load" \in Steps \ {"forget"} /\ "load" \notin Finishing
      BY DEF Steps, Finishing
    <3> QED
      BY <1>4, <2>1, <2>2, <2>3, <3>1, GoQuiet DEF Check
  <2>4. CASE /\ resource = job[p].definition
             /\ job' = [job EXCEPT ![p].at = "store", ![p].view = NewState(job[p].definition)]
             /\ UNCHANGED lock
    <3>1. "store" \in Steps \ {"forget"}
      BY DEF Steps
    <3>2. /\ NewState(job[p].definition) \in States
          /\ Tombstone(NewState(job[p].definition))
          /\ NewState(job[p].definition).definition = job[p].definition
      BY <2>1, NewStateType DEF NewState, Tombstone
    <3> QED
      BY <1>4, <2>1, <2>2, <2>4, <3>1, <3>2, ViewQuiet DEF Check
  <2>5. CASE EndSync(p)
    BY <1>4, <2>1, <2>5, EndSyncQuiet DEF Check
  <2> QED
    BY <1>4, <2>3, <2>4, <2>5 DEF Check
<1>5. CASE Load(p)
  <2> DEFINE s == IF state # None /\ state.definition.url = job[p].definition.url
                  THEN state ELSE None
  <2>1. lock = p
    BY <1>5 DEF Load, Inv, Locked, Holding
  <2>2. \/ job[p].definition.generation >= told
        \/ Blocked(job[p].definition.generation)
    BY <1>5 DEF Load, Inv, Guarded
  <2>3. s \in States \cup {None} /\ (s # None => Tombstone(s))
    BY <1>v DEF Inv, Views
  <2>4. "fetch" \in Steps \ {"forget"} /\ "fetch" \notin Finishing
    BY DEF Steps, Finishing
  <2>5. /\ job' = [job EXCEPT ![p].at = "fetch", ![p].view = s]
        /\ UNCHANGED <<resource, calls, state, told, lock>>
    BY <1>5 DEF Load
  <2> HIDE DEF s
  <2> QED
    BY <2>1, <2>2, <2>3, <2>4, <2>5, ViewQuiet
<1>6. CASE Fetch(p)
  <2> DEFINE d == job[p].definition
             v == job[p].view
  <2>1. lock = p /\ d \in Definitions
    BY <1>6, <1>v DEF Fetch, Inv, Types, Locked, Holding, Defined, Working
  <2>2. d.generation >= told \/ Blocked(d.generation)
    BY <1>6 DEF Fetch, Inv, Guarded
  <2>3. "verify" \in Steps \ {"forget"}
    BY DEF Steps
  <2>4. v \in States \cup {None} /\ (v # None => Tombstone(v))
    BY <1>v DEF Inv, Views
  <2>5. remote[d.url] \in Versions
    BY <2>1 DEF Definitions, Inv, Types, TypeOK
  <2>6. PICK s \in States :
          /\ job' = [job EXCEPT ![p].at = "verify", ![p].view = s]
          /\ s.definition = d /\ Tombstone(s)
    <3>1. CASE /\ v # None /\ v.etag = remote[d.url]
               /\ job' = [job EXCEPT ![p].at = "verify", ![p].view =
                            [ApplySourceDefinition(v, d) EXCEPT !.available = TRUE]]
      <4> DEFINE a == ApplySourceDefinition(v, d)
      <4>1. v \in States /\ ~v.invalidated
        BY <2>4, <2>5, <3>1, CatalogAssumption DEF Tombstone, NoTag, Versions
      <4>2. a \in States /\ a.definition = d /\ ~a.invalidated
        BY <2>1, <2>4, <3>1, <4>1, AppliedType
      <4> HIDE DEF a
      <4>3. /\ [a EXCEPT !.available = TRUE] \in States
            /\ [a EXCEPT !.available = TRUE].definition = d
            /\ ~[a EXCEPT !.available = TRUE].invalidated
        BY <4>2 DEF States
      <4> QED
        BY <3>1, <4>3 DEF Tombstone, a
    <3>2. CASE job' = [job EXCEPT ![p].at = "verify", ![p].view =
                         [NewState(d) EXCEPT !.items = [url |-> d.url, version |-> remote[d.url]],
                                             !.etag = remote[d.url], !.available = TRUE]]
      <4> DEFINE s == [NewState(d) EXCEPT !.items = [url |-> d.url, version |-> remote[d.url]],
                                          !.etag = remote[d.url], !.available = TRUE]
      <4>1. s \in States
        BY <2>1, <2>5, FetchedType
      <4>2. s.definition = d /\ ~s.invalidated
        BY DEF NewState
      <4> QED
        BY <3>2, <4>1, <4>2 DEF Tombstone
    <3>3. CASE job' = [job EXCEPT ![p].at = "verify", ![p].view = ApplySourceDefinition(v, d)]
      <4>1. Tombstone(ApplySourceDefinition(v, d))
        BY <2>1, <2>4, AppliedTombstone
      <4>2. ApplySourceDefinition(v, d) \in States /\ ApplySourceDefinition(v, d).definition = d
        BY <2>1, <2>4, AppliedType
      <4> QED
        BY <3>3, <4>1, <4>2
    <3> QED
      BY <1>6, <3>1, <3>2, <3>3 DEF Fetch
  <2> QED
    BY <1>6, <2>1, <2>2, <2>3, <2>6, SourceAssumption, ViewQuiet DEF Fetch
<1>7. CASE Verify(p)
  <2>1. lock = p /\ job[p].at \in Finishing
    BY <1>7 DEF Verify, Inv, Locked, Holding, Finishing
  <2>2. \/ job[p].definition.generation >= told
        \/ Blocked(job[p].definition.generation)
    BY <2>1 DEF Inv, Guarded
  <2>3. CASE Go(p, "store") /\ UNCHANGED lock
    <3>1. "store" \in Steps \ {"forget"}
      BY DEF Steps
    <3> QED
      BY <1>7, <2>1, <2>2, <2>3, <3>1, GoQuiet DEF Verify
  <2>4. CASE EndSync(p)
    BY <1>7, <2>1, <2>4, EndSyncQuiet DEF Verify
  <2> QED
    BY <1>7, <2>3, <2>4 DEF Verify
<1> QED
  BY <1>1, <1>2, <1>3, <1>4, <1>5, <1>6, <1>7

\* A step that only begins a job on definition d, which is the newest.
LEMMA WriteKeeps ==
    ASSUME Inv, Types', NEW p \in Requests, Write(p)
    PROVE  Inv'
<1>0. PICK u \in Urls, e \in BOOLEAN : \E d \in NextDefinition(u, e) :
        /\ resource' = d
        /\ \/ /\ job' = [job EXCEPT ![p] = [at |-> "invalidate", definition |-> d,
                                            view |-> None]]
              /\ UNCHANGED faults
           \/ Fail /\ UNCHANGED job
  BY DEF Write
<1>1. PICK d \in NextDefinition(u, e) :
        /\ resource' = d
        /\ \/ job' = [job EXCEPT ![p] = [at |-> "invalidate", definition |-> d, view |-> None]]
           \/ UNCHANGED job
  BY <1>0
<1>2. /\ p \in Jobs /\ calls' = calls + 1 /\ (resource = None => calls = 0)
      /\ UNCHANGED <<state, lock, told>> /\ calls \in Nat
  BY DEF Write, Call, Jobs, Inv, Types, TypeOK
<1>3. /\ d \in Definitions /\ d # None
      /\ resource # None => d.generation >= resource.generation
  <2>1. NextDefinition(u, e) \subseteq Definitions
    BY DEF NextDefinition, Inv, Types, TypeOK, Definitions
  <2>2. resource # None => \A x \in NextDefinition(u, e) : x.generation >= resource.generation
    BY DEF NextDefinition, Inv, Types, TypeOK, Definitions
  <2> QED
    BY <1>1, <2>1, <2>2, SourceAssumption
<1>4. \A q \in Jobs : job[q].at # "forget"
  BY <1>2 DEF Inv, Last
<1>5. \A q \in Jobs :
        \/ job'[q] = job[q]
        \/ job'[q] = [at |-> "invalidate", definition |-> d, view |-> None]
  BY <1>1, <1>2 DEF Inv, Types, TypeOK
<1>6. Newest(d.generation)' /\ told' <= d.generation
  <2>1. /\ state # None => state.definition.generation \in Nat
        /\ \A q \in Jobs : job[q].definition # None => job[q].definition.generation \in Nat
        /\ d.generation \in Nat /\ (resource # None => resource.generation \in Nat)
        /\ told \in Nat
    BY <1>3 DEF Inv, Types, TypeOK, States, Definitions
  <2>2. CASE resource # None
    BY <1>2, <1>3, <1>5, <2>1, <2>2 DEF Inv, Bounded, Newest
  <2>3. CASE resource = None
    BY <1>2, <1>3, <1>5, <2>1, <2>3 DEF Inv, Fresh, Newest
  <2> QED
    BY <2>2, <2>3
<1>7. Bounded' /\ Last' /\ Fresh'
  BY <1>1, <1>2, <1>3, <1>4, <1>5, <1>6 DEF Bounded, Last, Fresh
<1>8. Locked' /\ Guarded' /\ Views' /\ Own'
  <2>1. "invalidate" \notin Holding \cup Finishing \cup {"load", "fetch"}
    BY DEF Holding, Finishing
  <2>2. Locked'
    BY <1>2, <1>5, <2>1 DEF Inv, Locked
  <2>3. Guarded'
    BY <1>2, <1>5, <2>1 DEF Inv, Guarded, Blocked
  <2>4. Views' /\ Own'
    BY <1>2, <1>5, <2>1 DEF Inv, Views, Own, Tombstone
  <2> QED
    BY <2>2, <2>3, <2>4
<1> QED
  BY <1>2, <1>7, <1>8 DEF Inv, NoStaleOffer

LEMMA DeleteKeeps ==
    ASSUME Inv, Types', NEW p \in Requests, Delete(p)
    PROVE  Inv'
<1>1. /\ p \in Jobs /\ calls' = calls + 1 /\ calls \in Nat
      /\ resource # None /\ resource' = None
      /\ UNCHANGED <<state, lock, told>>
  BY DEF Delete, Call, Jobs, Inv, Types, TypeOK
<1>2. \A q \in Jobs :
        \/ job'[q] = job[q]
        \/ job'[q] = [at |-> "forget", definition |-> resource, view |-> None]
  BY <1>1 DEF Delete, Inv, Types, TypeOK
<1>3. \A q \in Jobs : job[q].at # "forget"
  BY <1>1 DEF Inv, Last
<1>4. PICK g \in Nat : g = resource.generation
  BY <1>1 DEF Inv, Types, TypeOK, Definitions
<1>5. Newest(g)'
  BY <1>1, <1>2, <1>4 DEF Inv, Bounded, Newest
<1>6. Last'
  <2> SUFFICES ASSUME NEW q \in Jobs, job'[q].at = "forget"
               PROVE  Newest(job[q].definition.generation)' /\ resource' = None /\ calls' # 0
    BY DEF Last
  <2>1. job'[q].definition = resource
    BY <1>2, <1>3
  <2> QED
    BY <1>1, <1>4, <1>5, <2>1 DEF Newest
<1>7. Bounded' /\ Fresh'
  BY <1>1 DEF Bounded, Fresh
<1>8. Locked' /\ Guarded' /\ Views' /\ Own'
  <2>1. "forget" \notin Holding \cup Finishing \cup {"load", "fetch"}
    BY DEF Holding, Finishing
  <2>2. Locked'
    BY <1>1, <1>2, <2>1 DEF Inv, Locked
  <2>3. Guarded'
    BY <1>1, <1>2, <2>1 DEF Inv, Guarded, Blocked
  <2>4. Views' /\ Own'
    BY <1>1, <1>2, <2>1 DEF Inv, Views, Own, Tombstone
  <2> QED
    BY <2>2, <2>3, <2>4
<1> QED
  BY <1>1, <1>6, <1>7, <1>8 DEF Inv, NoStaleOffer

\* What storing s, and moving job p on to a step without definition and lock,
\* leaves of the rest.
LEMMA StoreStep ==
    ASSUME Inv, Types', NEW p \in Jobs, NEW r \in Records, job' = [job EXCEPT ![p] = r],
           r.at \notin {"forget", "load", "fetch"} \cup Holding \cup Finishing,
           r.definition = None, r.view = None,
           NEW s \in States, StoreSourceState(s), Tombstone(s),
           UNCHANGED <<resource, calls>>, lock' # lock => lock = p,
           job[p].definition = s.definition, job[p].definition # None,
           told' = told \/ told' = s.definition.generation
             \/ (s.invalidated /\ told' = s.definition.generation + 1),
           resource # None => told' <= resource.generation
    PROVE  Bounded' /\ Last' /\ Fresh' /\ Locked' /\ Guarded' /\ Views' /\ Own'
<1>1. job'[p] = r /\ \A q \in Jobs \ {p} : job'[q] = job[q]
  BY JobType DEF Inv, Types
<1>2. state' \in States /\ (state' = s \/ state' = state)
  BY StoreBlocks DEF Inv, StoreSourceState
<1>3. ASSUME NEW g, Newest(g) PROVE Newest(g)'
  BY <1>1, <1>2, <1>3 DEF Newest
<1>4. Bounded'
  BY <1>3 DEF Inv, Bounded
<1>5. Last'
  <2> SUFFICES ASSUME NEW q \in Jobs, job'[q].at = "forget"
               PROVE  Newest(job[q].definition.generation)' /\ resource' = None /\ calls' # 0
    BY DEF Last
  <2>1. q # p /\ job'[q] = job[q]
    BY <1>1
  <2>2. resource = None /\ calls # 0 /\ Newest(job[q].definition.generation)
    BY <2>1 DEF Inv, Last
  <2> QED
    BY <1>1, <1>2, <2>1, <2>2 DEF Newest
<1>6. Fresh'
  BY DEF Inv, Fresh
<1>7. Locked'
  BY <1>1, SourceAssumption DEF Inv, Locked
<1>8. Guarded'
  <2> SUFFICES ASSUME NEW q \in Jobs, job'[q].at \in {"load", "fetch"} \cup Finishing
               PROVE  \/ job'[q].definition.generation >= told'
                      \/ Blocked(job[q].definition.generation)'
    BY DEF Guarded, Blocked
  <2>1. q # p /\ job'[q] = job[q]
    BY <1>1
  <2>2. PICK g \in Nat : /\ g = job[q].definition.generation
                        /\ told \in Nat /\ s.definition.generation \in Nat
    <3>1. job[q].definition \in Definitions
      BY <2>1 DEF Inv, Types, TypeOK, Defined, Working, Finishing
    <3> QED
      BY <3>1 DEF Inv, Types, TypeOK, States, Definitions
  <2>3. g >= told \/ Blocked(g)
    BY <2>1, <2>2 DEF Inv, Guarded
  <2>4. g >= told' \/ Blocked(g)'
    <3>1. CASE Blocked(g)
      BY <2>2, <3>1, BlockedStays DEF Inv
    <3>2. CASE g >= told
      <4>1. CASE g >= told'
        BY <4>1
      <4>2. CASE ~(g >= told')
        <5>1. g < s.definition.generation \/ (s.invalidated /\ g <= s.definition.generation)
          BY <2>2, <3>2, <4>2
        <5> QED
          BY <2>2, <5>1, StoreBlocks DEF Inv
      <4> QED
        BY <4>1, <4>2
    <3> QED
      BY <2>3, <3>1, <3>2
  <2>5. job'[q].definition.generation = g
    BY <2>1, <2>2
  <2> QED
    BY <2>4, <2>5 DEF Blocked
<1>9. Views' /\ Own'
  BY <1>1, <1>2 DEF Inv, Views, Own, Tombstone
<1> QED
  BY <1>4, <1>5, <1>6, <1>7, <1>8, <1>9

LEMMA NoJobStep ==
    /\ NoJob \in Records /\ [NoJob EXCEPT !.at = "define"] \in Records
    /\ NoJob.at = "idle" /\ NoJob.definition = None /\ NoJob.view = None
    /\ [NoJob EXCEPT !.at = "define"].at = "define"
    /\ [NoJob EXCEPT !.at = "define"].definition = None
    /\ [NoJob EXCEPT !.at = "define"].view = None
    /\ {"idle", "define"} \cap ({"forget", "load", "fetch"} \cup Holding \cup Finishing) = {}
BY DEF NoJob, Records, Steps, Holding, Finishing

LEMMA InvalidateKeeps ==
    ASSUME Inv, Types', NEW p \in Jobs, InvalidateStore(p)
    PROVE  Inv'
<1> DEFINE d == job[p].definition
           s == [ApplySourceDefinition(job[p].view, d) EXCEPT !.available = FALSE]
           a == ApplySourceDefinition(job[p].view, d)
<1>1. d \in Definitions /\ d # None /\ job[p].view \in States \cup {None}
  BY SourceAssumption DEF InvalidateStore, Inv, Types, TypeOK, Defined, Working
<1>2. a \in States /\ a.definition = d /\ Tombstone(a)
  <2>1. job[p].view # None => Tombstone(job[p].view)
    BY DEF Inv, Views
  <2> QED
    BY <1>1, <2>1, AppliedType, AppliedTombstone
<1>3. s \in States /\ s.definition = d /\ ~s.available /\ Tombstone(s)
  <2> HIDE DEF a
  <2>1. s = [a EXCEPT !.available = FALSE]
    BY DEF a
  <2> QED
    BY <1>2, <2>1 DEF States, Tombstone
<1>4. StoreSourceState(s) /\ UNCHANGED <<resource, calls, lock>>
  BY DEF InvalidateStore
<1>5. told' = IF d.generation > told THEN d.generation ELSE told
  BY DEF InvalidateStore
<1>6. job' = [job EXCEPT ![p] = [NoJob EXCEPT !.at = "define"]]
  BY DEF InvalidateStore
<1> HIDE DEF s, a
<1>7. told' = told \/ told' = s.definition.generation
  BY <1>3, <1>5
<1>8. resource # None => told' <= resource.generation
  BY <1>1, <1>5 DEF Inv, Bounded, Newest
<1>9. Bounded' /\ Last' /\ Fresh' /\ Locked' /\ Guarded' /\ Views' /\ Own'
  BY <1>1, <1>3, <1>4, <1>6, <1>7, <1>8, NoJobStep, StoreStep
<1>10. NoStaleOffer'
  <2>1. CASE Outdated(s)
    <3>1. state' = state /\ state \in States /\ Tombstone(state)
      BY <1>4, <2>1 DEF StoreSourceState, Outdated, Inv, Types, TypeOK, Views
    <3>2. state.available => state.definition.generation > d.generation
      BY <1>3, <2>1, <3>1 DEF Outdated, Tombstone
    <3>3. d.generation \in Nat /\ told \in Nat /\ state.definition.generation \in Nat
      BY <1>1, <3>1 DEF Definitions, States, Inv, Types, TypeOK
    <3> QED
      BY <1>5, <3>1, <3>2, <3>3 DEF Inv, NoStaleOffer
  <2>2. CASE ~Outdated(s)
    BY <1>3, <1>4, <2>2 DEF StoreSourceState, NoStaleOffer
  <2> QED
    BY <2>1, <2>2
<1> QED
  BY <1>9, <1>10 DEF Inv

LEMMA ForgetKeeps ==
    ASSUME Inv, Types', NEW p \in Jobs, Forget(p)
    PROVE  Inv'
<1> DEFINE d == job[p].definition
           s == [NewState(d) EXCEPT !.invalidated = TRUE]
<1>1. d \in Definitions /\ d # None
  BY SourceAssumption DEF Forget, Inv, Types, TypeOK, Defined, Working
<1>2. resource = None /\ Newest(d.generation)
  BY DEF Forget, Inv, Last
<1>3. /\ s \in States /\ s.definition = d /\ s.invalidated /\ ~s.available
      /\ Tombstone(s)
  BY <1>1, NewStateType DEF NewState, Tombstone
<1>4. StoreSourceState(s) /\ UNCHANGED <<resource, calls, lock>>
  BY DEF Forget
<1>5. told' = d.generation + 1 /\ job' = [job EXCEPT ![p] = NoJob]
  BY DEF Forget, End
<1> HIDE DEF s
<1>6. Bounded' /\ Last' /\ Fresh' /\ Locked' /\ Guarded' /\ Views' /\ Own'
  BY <1>1, <1>2, <1>3, <1>4, <1>5, NoJobStep, StoreStep
<1>7. NoStaleOffer'
  <2>1. CASE Outdated(s)
    <3>1. state' = state /\ state \in States /\ Tombstone(state) /\ state # None
      BY <1>4, <2>1 DEF StoreSourceState, Outdated, Inv, Types, TypeOK, Views
    <3>2. ~(state.definition.generation > d.generation)
      <4>1. d.generation \in Nat /\ state.definition.generation \in Nat
        BY <1>1, <3>1 DEF Definitions, States
      <4> QED
        BY <1>2, <3>1, <4>1 DEF Newest
    <3>3. ~state.available
      BY <1>3, <2>1, <3>1, <3>2 DEF Outdated, Tombstone
    <3> QED
      BY <3>1, <3>3 DEF NoStaleOffer
  <2>2. CASE ~Outdated(s)
    BY <1>3, <1>4, <2>2 DEF StoreSourceState, NoStaleOffer
  <2> QED
    BY <2>1, <2>2
<1> QED
  BY <1>6, <1>7 DEF Inv

LEMMA StoreKeeps ==
    ASSUME Inv, Types', NEW p \in Jobs, StoreResult(p)
    PROVE  Inv'
<1> DEFINE s == job[p].view
<1>1. lock = p /\ job[p].at \in Finishing
  BY DEF StoreResult, Inv, Locked, Holding, Finishing
<1>2. s \in States /\ s # None /\ Tombstone(s) /\ s.definition = job[p].definition
  BY <1>1 DEF Inv, Types, TypeOK, Finished, Views, Own
<1>3. job[p].definition # None
  BY <1>1 DEF Inv, Types, Defined, Working, Finishing
<1>4. /\ StoreSourceState(s) /\ UNCHANGED <<resource, calls, told>>
      /\ job' = [job EXCEPT ![p] = NoJob]
      /\ lock' = None
  BY DEF StoreResult, EndSync, End
<1>5. s.definition.generation >= told \/ Blocked(s.definition.generation)
  BY <1>1, <1>2 DEF Inv, Guarded
<1> HIDE DEF s
<1>6. resource # None => told' <= resource.generation
  BY <1>4 DEF Inv, Bounded
<1>7. Bounded' /\ Last' /\ Fresh' /\ Locked' /\ Guarded' /\ Views' /\ Own'
  BY <1>1, <1>2, <1>3, <1>4, <1>6, NoJobStep, StoreStep
<1>8. NoStaleOffer'
  <2>1. CASE Outdated(s)
    BY <1>4, <2>1 DEF StoreSourceState, Inv, NoStaleOffer
  <2>2. CASE ~Outdated(s)
    <3>1. state' = s
      BY <1>4, <2>2 DEF StoreSourceState
    <3>2. s.definition.generation >= told
      BY <1>5, <2>2 DEF Blocked, Outdated
    <3> QED
      BY <1>4, <3>1, <3>2 DEF NoStaleOffer
  <2> QED
    BY <2>1, <2>2
<1> QED
  BY <1>7, <1>8 DEF Inv

LEMMA RefreshKeeps ==
    ASSUME Inv, Types', Refresh
    PROVE  Inv'
<1>r. Refresher \in Jobs
  BY DEF Jobs
<1>n. /\ {"missing", "idle", "removeAcquire", "removeCheck", "remove"} \subseteq Steps \ {"forget"}
      /\ {"missing", "idle", "removeAcquire", "removeCheck", "remove"}
           \cap ({"load", "fetch"} \cup Finishing) = {}
      /\ {"missing", "idle", "removeAcquire"} \cap Holding = {}
  BY DEF Steps, Finishing, Holding
<1>1. CASE List
  <2>1. CASE resource # None
    BY <1>1, <1>r, <2>1, BeginQuiet DEF List, Inv, Types, TypeOK
  <2>2. CASE resource = None
    BY <1>1, <1>r, <1>n, <2>2, GoQuiet DEF List
  <2> QED
    BY <2>1, <2>2
<1>2. CASE FindMissing
  BY <1>2, <1>r, <1>n, GoQuiet DEF FindMissing
<1>3. CASE RemoveAcquire
  BY <1>3, <1>r, <1>n, GoQuiet DEF RemoveAcquire
<1>4. CASE RemoveCheck
  <2>1. lock = Refresher
    BY <1>4, <1>r DEF RemoveCheck, Inv, Locked, Holding
  <2>2. CASE Go(Refresher, "remove") /\ UNCHANGED lock
    BY <1>4, <1>r, <1>n, <2>1, <2>2, GoQuiet DEF RemoveCheck
  <2>3. CASE EndSync(Refresher)
    BY <1>4, <1>r, <2>1, <2>3, EndSyncQuiet DEF RemoveCheck
  <2> QED
    BY <1>4, <2>2, <2>3 DEF RemoveCheck
<1>5. CASE Remove
  <2>1. lock = Refresher
    BY <1>5, <1>r DEF Remove, Inv, Locked, Holding
  <2>2. /\ state' = None /\ lock' = None /\ job' = [job EXCEPT ![Refresher] = NoJob]
        /\ UNCHANGED <<resource, calls, told>>
    BY <1>5 DEF Remove, EndSync, End
  <2>3. \A q \in Jobs \ {Refresher} : job'[q] = job[q] /\ job[q].at \notin Holding
    <3>1. \A q \in Jobs \ {Refresher} : job'[q] = job[q]
      BY <2>2
    <3> QED
      BY <2>1, <3>1 DEF Inv, Locked
  <2>4. job'[Refresher] = NoJob
    BY <1>r, <2>2 DEF Inv, Types, TypeOK
  <2>5. ASSUME NEW g, Newest(g) PROVE Newest(g)'
    BY <2>2, <2>3, <2>4, <2>5, NoJobStep DEF Newest
  <2>6. Bounded'
    BY <2>2, <2>5 DEF Inv, Bounded
  <2>7. Last'
    <3> SUFFICES ASSUME NEW q \in Jobs, job'[q].at = "forget"
                 PROVE  Newest(job[q].definition.generation)' /\ resource' = None /\ calls' # 0
      BY DEF Last
    <3>1. q # Refresher /\ job'[q] = job[q]
      BY <2>3, <2>4, NoJobStep
    <3>2. resource = None /\ calls # 0 /\ Newest(job[q].definition.generation)
      BY <3>1 DEF Inv, Last
    <3> QED
      BY <2>2, <2>3, <2>4, <3>1, <3>2, NoJobStep DEF Newest
  <2>8. Fresh'
    BY <2>2, <2>3, <2>4, NoJobStep DEF Inv, Fresh
  <2>9. Locked'
    BY <2>2, <2>3, <2>4, NoJobStep DEF Locked
  <2>10. Guarded'
    <3>1. {"load", "fetch"} \cup Finishing \subseteq Holding
      BY DEF Finishing, Holding
    <3> QED
      BY <2>3, <2>4, <3>1, NoJobStep DEF Guarded
  <2>11. Views' /\ Own'
    <3>1. Finishing \subseteq Holding
      BY DEF Finishing, Holding
    <3> QED
      BY <2>2, <2>3, <2>4, <3>1, NoJobStep DEF Inv, Views, Own, Tombstone
  <2>12. NoStaleOffer'
    BY <2>2 DEF NoStaleOffer
  <2> QED
    BY <2>6, <2>7, <2>8, <2>9, <2>10, <2>11, <2>12 DEF Inv
<1> QED
  BY <1>1, <1>2, <1>3, <1>4, <1>5 DEF Refresh

LEMMA StutterKeeps ==
    ASSUME Inv, Types', UNCHANGED <<resource, calls, state, lock, job, told>>
    PROVE  Inv'
<1>1. ASSUME NEW g, Newest(g) PROVE Newest(g)'
  BY <1>1 DEF Newest
<1>2. Bounded' /\ Last' /\ Fresh'
  BY DEF Inv, Bounded, Last, Fresh, Newest
<1>3. Locked' /\ Guarded' /\ Views' /\ Own' /\ NoStaleOffer'
  BY DEF Inv, Locked, Guarded, Blocked, Views, Own, Tombstone, NoStaleOffer
<1> QED
  BY <1>2, <1>3 DEF Inv

LEMMA InvInitially == Init => Inv
<1> SUFFICES ASSUME Init PROVE Inv
  OBVIOUS
<1>1. Types
  BY TypesInitially
<1>2. /\ \A p \in Jobs : job[p] = NoJob
      /\ state = None /\ told = 0
  BY DEF Init
<1>3. Bounded /\ Last /\ Fresh
  <2>1. resource # None => resource.generation \in Nat
    BY <1>1 DEF Types, TypeOK, Definitions
  <2> QED
    BY <1>2, <2>1, NoJobStep DEF Bounded, Newest, Last, Fresh
<1>4. Locked /\ Guarded /\ Views /\ Own /\ NoStaleOffer
  BY <1>2, NoJobStep DEF Locked, Guarded, Views, Own, NoStaleOffer
<1> QED
  BY <1>1, <1>3, <1>4 DEF Inv

LEMMA InvKept == Inv /\ [Next]_vars => Inv'
<1> SUFFICES ASSUME Inv, [Next]_vars PROVE Inv'
  OBVIOUS
<1>1. Types'
  BY TypesKept DEF Inv
<1>2. Requests \subseteq Jobs
  BY DEF Jobs
<1>3. ASSUME NEW p \in Requests, Sync(p) PROVE Inv'
  <2>1. "define" \in Steps \ {"forget"}
    BY DEF Steps
  <2>2. "define" \notin {"load", "fetch"} \cup Holding \cup Finishing
    BY DEF Holding, Finishing
  <2>3. calls' # 0
    BY <1>3 DEF Sync, Call, Inv, Types, TypeOK
  <2> QED
    BY <1>1, <1>2, <1>3, <2>1, <2>2, <2>3, GoQuiet DEF Sync
<1>4. ASSUME NEW p \in Requests, GiveUp(p) PROVE Inv'
  BY <1>1, <1>2, <1>4, EndQuiet DEF GiveUp
<1>5. ASSUME NEW p \in Jobs, Step(p) PROVE Inv'
  BY <1>1, <1>5, SynchronisationKeeps, InvalidateKeeps, ForgetKeeps, StoreKeeps DEF Step
<1>6. ASSUME NEW u \in Urls, PublishManifest(u) PROVE Inv'
  BY <1>1, <1>6, StutterKeeps DEF PublishManifest
<1>7. CASE UNCHANGED vars
  BY <1>1, <1>7, StutterKeeps DEF vars
<1> QED
  BY <1>1, <1>3, <1>4, <1>5, <1>6, <1>7, WriteKeeps, DeleteKeeps, RefreshKeeps DEF Next

\* For any interleaving of edits, deletion, lost replies and synchronisations,
\* nothing of a definition that an edit has withdrawn, and nothing of a deleted
\* source, is offered again.
THEOREM NothingStaleOffered == Spec => []NoStaleOffer
<1>1. Inv => NoStaleOffer
  BY DEF Inv
<1> QED
  BY <1>1, InvInitially, InvKept, PTL DEF Spec

-----------------------------------------------------------------------------
(* What is offered is the newest read from its own URL.                     *)

\* The items of a state were read from its URL, and its etag is theirs.
Sourced(s) ==
    /\ s.available => s.items # None
    /\ s.items # None => /\ s.items.url = s.definition.url
                         /\ s.items.version <= remote[s.items.url]
    /\ s.etag # NoTag => s.items # None /\ s.etag = s.items.version

AllSourced ==
    /\ state # None => Sourced(state)
    /\ \A p \in Jobs : job[p].view # None => Sourced(job[p].view)

\* A fetch starts from a state of the URL it asks.
SameUrl ==
    \A p \in Jobs : job[p].at = "fetch" /\ job[p].view # None =>
        job[p].view.definition.url = job[p].definition.url

Published == \A u \in Urls : seen[u] <= remote[u]

\* A synchronisation is not going to store something older than was offered.
NotOlder(s) == s.available => s.items.version >= seen[s.items.url]
Results ==
    \A p \in Jobs : job[p].at \in {"fetch"} \cup Finishing /\ job[p].view # None =>
        NotOlder(job[p].view)

Offers == Inv /\ AllSourced /\ SameUrl /\ Published /\ Results /\ NewestOffer

LEMMA AppliedSame ==
    ASSUME NEW s \in States, NEW d \in Definitions, s.definition.url = d.url
    PROVE  /\ ApplySourceDefinition(s, d).items = s.items
           /\ ApplySourceDefinition(s, d).etag = s.etag
           /\ ApplySourceDefinition(s, d).available = s.available
           /\ ApplySourceDefinition(s, d).definition = d
<1>1. s # None
  BY SourceAssumption
<1>2. ApplySourceDefinition(s, d) = [s EXCEPT !.definition = d]
  BY <1>1 DEF ApplySourceDefinition
<1> QED
  BY <1>2 DEF States

LEMMA WithdrawnSourced ==
    ASSUME NEW s \in States \cup {None}, s # None => Sourced(s), NEW d \in Definitions
    PROVE  Sourced([ApplySourceDefinition(s, d) EXCEPT !.available = FALSE])
<1> DEFINE a == ApplySourceDefinition(s, d)
<1>1. /\ a \in States /\ a.definition = d
      /\ a.items # None => a.items.url = d.url /\ a.items.version <= remote[a.items.url]
      /\ a.etag # NoTag => a.items # None /\ a.etag = a.items.version
  <2>1. CASE s = None
    BY <2>1, NewStateType DEF ApplySourceDefinition, NewState
  <2>2. CASE s # None /\ s.definition.url = d.url
    BY <2>2, AppliedSame, AppliedType DEF Sourced
  <2>3. CASE s # None /\ s.definition.url # d.url
    <3>1. a = [s EXCEPT !.definition = d, !.items = None, !.etag = NoTag]
      BY <2>3 DEF ApplySourceDefinition
    <3> QED
      BY <2>3, <3>1, AppliedType DEF States
  <2> QED
    BY <2>1, <2>2, <2>3
<1> HIDE DEF a
<1> SUFFICES Sourced([a EXCEPT !.available = FALSE])
  BY DEF a
<1> QED
  BY <1>1 DEF States, Sourced

\* A step of one job that leaves the catalog alone.
LEMMA QuietOffer ==
    ASSUME Offers, Inv', NEW p \in Jobs, NEW r \in Records, job' = [job EXCEPT ![p] = r],
           UNCHANGED <<state, seen, remote>>,
           r.view # None => Sourced(r.view),
           r.at = "fetch" /\ r.view # None => r.view.definition.url = r.definition.url,
           r.at \in {"fetch"} \cup Finishing /\ r.view # None => NotOlder(r.view)
    PROVE  Offers'
<1>1. job'[p] = r /\ \A q \in Jobs \ {p} : job'[q] = job[q]
  BY JobType DEF Offers, Inv, Types
<1>2. AllSourced'
  BY <1>1 DEF Offers, AllSourced, Sourced
<1>3. SameUrl'
  BY <1>1 DEF Offers, SameUrl
<1>4. Published' /\ NewestOffer'
  BY DEF Offers, Published, NewestOffer
<1>5. Results'
  BY <1>1 DEF Offers, Results, NotOlder
<1> QED
  BY <1>2, <1>3, <1>4, <1>5 DEF Offers

LEMMA EndOffer ==
    ASSUME Offers, Inv', NEW p \in Jobs, End(p), UNCHANGED <<state, seen, remote>>
    PROVE  Offers'
BY NoJobStep, QuietOffer DEF End

LEMMA GoOffer ==
    ASSUME Offers, Inv', NEW p \in Jobs, NEW step \in Steps \ {"fetch"}, Go(p, step),
           step \in Finishing => job[p].at \in Finishing,
           UNCHANGED <<state, seen, remote>>
    PROVE  Offers'
<1> DEFINE r == [job[p] EXCEPT !.at = step]
<1>1. job' = [job EXCEPT ![p] = r]
  BY DEF Go, Offers, Inv, Types, TypeOK
<1>2. r \in Records /\ r.at = step /\ r.definition = job[p].definition /\ r.view = job[p].view
  BY DEF Offers, Inv, Types, TypeOK, Records
<1> HIDE DEF r
<1>3. r.view # None => Sourced(r.view)
  BY <1>2 DEF Offers, AllSourced
<1>4. r.at \in {"fetch"} \cup Finishing /\ r.view # None => NotOlder(r.view)
  BY <1>2 DEF Offers, Results
<1> QED
  BY <1>1, <1>2, <1>3, <1>4, QuietOffer

LEMMA BeginOffer ==
    ASSUME Offers, Inv', NEW p \in Jobs, NEW step \in Steps \ ({"fetch"} \cup Finishing),
           NEW d \in Definitions,
           job' = [job EXCEPT ![p] = [at |-> step, definition |-> d, view |-> None]],
           UNCHANGED <<state, seen, remote>>
    PROVE  Offers'
<1> DEFINE r == [at |-> step, definition |-> d, view |-> None]
<1>1. r \in Records /\ r.at = step /\ r.view = None
  BY DEF Records
<1>2. job' = [job EXCEPT ![p] = r]
  OBVIOUS
<1> HIDE DEF r
<1> QED
  BY <1>1, <1>2, QuietOffer

LEMMA ViewOffer ==
    ASSUME Offers, Inv', NEW p \in Jobs, NEW step \in Steps, NEW s \in States \cup {None},
           job' = [job EXCEPT ![p].at = step, ![p].view = s],
           UNCHANGED <<state, seen, remote>>,
           s # None => Sourced(s),
           step = "fetch" /\ s # None => s.definition.url = job[p].definition.url,
           step \in {"fetch"} \cup Finishing /\ s # None => NotOlder(s)
    PROVE  Offers'
<1> DEFINE r == [job[p] EXCEPT !.at = step, !.view = s]
<1>1. job' = [job EXCEPT ![p] = r]
  BY DEF Offers, Inv, Types, TypeOK
<1>2. r \in Records /\ r.at = step /\ r.definition = job[p].definition /\ r.view = s
  BY DEF Offers, Inv, Types, TypeOK, Records
<1> HIDE DEF r
<1> QED
  BY <1>1, <1>2, QuietOffer

\* Storing s at the end of job p.
LEMMA StoreOffer ==
    ASSUME Offers, Inv', NEW p \in Jobs, NEW r \in Records, job' = [job EXCEPT ![p] = r],
           r.view = None, UNCHANGED remote,
           NEW s \in States, StoreSourceState(s), Sourced(s), NotOlder(s),
           s.available => lock = p
    PROVE  Offers'
<1>1. job'[p] = r /\ \A q \in Jobs \ {p} : job'[q] = job[q]
  BY JobType DEF Offers, Inv, Types
<1>2. state' = state \/ state' = s
  BY DEF StoreSourceState
<1>3. AllSourced'
  BY <1>1, <1>2 DEF Offers, AllSourced, Sourced
<1>4. SameUrl'
  BY <1>1 DEF Offers, SameUrl
<1>5. s.available => s.items \in Manifests
  BY DEF Sourced, States
<1>6. seen \in [Urls -> 0..MaxVersion] /\ remote \in [Urls -> Versions]
  BY DEF Offers, Inv, Types, TypeOK
<1>7. Published'
  BY <1>5, <1>6, SourceAssumption DEF Offers, Published, StoreSourceState, Manifests, Sourced
<1>8. seen' # seen => s.available /\ lock = p /\ state' = s
  BY DEF StoreSourceState
<1>9. Results'
  <2> SUFFICES ASSUME NEW q \in Jobs, job'[q].at \in {"fetch"} \cup Finishing,
                      job'[q].view # None
               PROVE  NotOlder(job[q].view)' /\ job'[q] = job[q]
    BY DEF Results, NotOlder
  <2>1. q # p /\ job'[q] = job[q]
    BY <1>1
  <2>2. lock = q
    BY <2>1 DEF Offers, Inv, Locked, Holding, Finishing
  <2>3. seen' = seen
    BY <1>8, <2>1, <2>2
  <2> QED
    BY <2>1, <2>3 DEF Offers, Results, NotOlder
<1>10. NewestOffer'
  <2>1. CASE seen' = seen
    <3>1. CASE state' = state
      BY <2>1, <3>1 DEF Offers, NewestOffer
    <3>2. CASE state' = s
      BY <2>1, <3>2 DEF NewestOffer, Sourced, NotOlder
    <3> QED
      BY <1>2, <3>1, <3>2
  <2>2. CASE seen' # seen
    <3>1. state' = s /\ seen' = [seen EXCEPT ![s.items.url] = s.items.version]
      BY <2>2 DEF StoreSourceState
    <3>2. s.items \in Manifests
      BY <1>5, <1>8, <2>2
    <3>3. seen'[s.items.url] = s.items.version /\ s.items.version \in Nat
      BY <1>6, <3>1, <3>2 DEF Manifests, Versions
    <3> QED
      BY <3>1, <3>3 DEF NewestOffer, Sourced
  <2> QED
    BY <2>1, <2>2
<1> QED
  BY <1>3, <1>4, <1>7, <1>9, <1>10 DEF Offers

LEMMA SynchronisationOffers ==
    ASSUME Offers, Inv', NEW p \in Jobs,
           \/ InvalidateLoad(p) \/ Define(p) \/ Acquire(p) \/ Check(p) \/ Load(p) \/ Fetch(p)
           \/ Verify(p)
    PROVE  Offers'
<1>v. /\ job[p].definition \in Definitions \cup {None}
      /\ job[p].view \in States \cup {None}
      /\ state \in States \cup {None}
      /\ resource \in Definitions \cup {None}
  BY DEF Offers, Inv, Types, TypeOK
<1>1. CASE InvalidateLoad(p)
  <2>1. "invalidating" \in Steps /\ "invalidating" \notin {"fetch"} \cup Finishing
    BY DEF Steps, Finishing
  <2>2. state # None => Sourced(state)
    BY DEF Offers, AllSourced
  <2> QED
    BY <1>1, <1>v, <2>1, <2>2, ViewOffer DEF InvalidateLoad
<1>2. CASE Define(p)
  <2>1. "acquire" \in Steps \ ({"fetch"} \cup Finishing)
    BY DEF Steps, Finishing
  <2> QED
    BY <1>2, <1>v, <2>1, BeginOffer, EndOffer DEF Define
<1>3. CASE Acquire(p)
  <2>1. "check" \in Steps \ {"fetch"} /\ "check" \notin Finishing
    BY DEF Steps, Finishing
  <2> QED
    BY <1>3, <2>1, GoOffer DEF Acquire
<1>4. CASE Check(p)
  <2>1. job[p].definition \in Definitions
    BY <1>4, <1>v DEF Check, Offers, Inv, Types, Defined, Working
  <2>2. CASE Go(p, "load")
    <3>1. "load" \in Steps \ {"fetch"} /\ "load" \notin Finishing
      BY DEF Steps, Finishing
    <3> QED
      BY <1>4, <2>2, <3>1, GoOffer DEF Check
  <2>3. CASE job' = [job EXCEPT ![p].at = "store", ![p].view = NewState(job[p].definition)]
    <3>1. "store" \in Steps
      BY DEF Steps
    <3>2. /\ NewState(job[p].definition) \in States
          /\ Sourced(NewState(job[p].definition))
          /\ NotOlder(NewState(job[p].definition))
      BY <2>1, NewStateType DEF NewState, Sourced, NotOlder
    <3> QED
      BY <1>4, <2>3, <3>1, <3>2, ViewOffer DEF Check
  <2>4. CASE EndSync(p)
    BY <1>4, <2>4, EndOffer DEF Check, EndSync
  <2> QED
    BY <1>4, <2>2, <2>3, <2>4 DEF Check
<1>5. CASE Load(p)
  <2> DEFINE s == IF state # None /\ state.definition.url = job[p].definition.url
                  THEN state ELSE None
  <2>1. s \in States \cup {None} /\ (s # None => Sourced(s) /\ NotOlder(s))
    BY <1>v DEF Offers, AllSourced, NewestOffer, NotOlder
  <2>2. s # None => s.definition.url = job[p].definition.url
    OBVIOUS
  <2>3. "fetch" \in Steps /\ "fetch" \notin Finishing
    BY DEF Steps, Finishing
  <2>4. job' = [job EXCEPT ![p].at = "fetch", ![p].view = s] /\ UNCHANGED <<state, seen, remote>>
    BY <1>5 DEF Load
  <2> HIDE DEF s
  <2> QED
    BY <2>1, <2>2, <2>3, <2>4, ViewOffer
<1>6. CASE Fetch(p)
  <2> DEFINE d == job[p].definition
             v == job[p].view
  <2>1. d \in Definitions /\ job[p].at = "fetch"
    BY <1>6, <1>v DEF Fetch, Offers, Inv, Types, Defined, Working
  <2>2. v \in States \cup {None} /\ (v # None => v.definition.url = d.url)
    BY <1>v, <2>1 DEF Offers, SameUrl
  <2>3. v # None => Sourced(v) /\ NotOlder(v)
    BY <2>1 DEF Offers, AllSourced, Results
  <2>4. d.url \in Urls /\ remote[d.url] \in Versions /\ seen[d.url] <= remote[d.url]
    BY <2>1 DEF Definitions, Offers, Published, Inv, Types, TypeOK
  <2>5. "verify" \in Steps
    BY DEF Steps
  <2>6. PICK s \in States :
          /\ job' = [job EXCEPT ![p].at = "verify", ![p].view = s]
          /\ Sourced(s) /\ NotOlder(s)
    <3>1. CASE /\ v # None /\ v.etag = remote[d.url]
               /\ job' = [job EXCEPT ![p].at = "verify", ![p].view =
                            [ApplySourceDefinition(v, d) EXCEPT !.available = TRUE]]
      <4> DEFINE a == ApplySourceDefinition(v, d)
      <4>1. v.etag # NoTag /\ v.items # None /\ v.items.version = remote[d.url]
        BY <2>3, <2>4, <3>1, CatalogAssumption DEF Sourced, NoTag, Versions
      <4>2. v.items.url = d.url
        BY <2>2, <2>3, <3>1, <4>1 DEF Sourced
      <4>3. /\ a \in States /\ a.definition = d
            /\ a.items = v.items /\ a.etag = v.etag
        BY <2>1, <2>2, <3>1, AppliedSame, AppliedType
      <4> HIDE DEF a
      <4> DEFINE s == [a EXCEPT !.available = TRUE]
      <4>4. /\ s \in States /\ s.definition = d /\ s.items = v.items /\ s.etag = v.etag
        BY <4>3 DEF States
      <4>5. job' = [job EXCEPT ![p].at = "verify", ![p].view = s]
        BY <3>1 DEF a
      <4> HIDE DEF s
      <4>6. Sourced(s)
        BY <2>4, <3>1, <4>1, <4>2, <4>4 DEF Sourced, Versions
      <4>7. NotOlder(s)
        BY <2>4, <4>1, <4>2, <4>4 DEF NotOlder
      <4> QED
        BY <4>4, <4>5, <4>6, <4>7
    <3>2. CASE job' = [job EXCEPT ![p].at = "verify", ![p].view =
                         [NewState(d) EXCEPT !.items = [url |-> d.url, version |-> remote[d.url]],
                                             !.etag = remote[d.url], !.available = TRUE]]
      <4> DEFINE i == [url |-> d.url, version |-> remote[d.url]]
                 s == [NewState(d) EXCEPT !.items = i, !.etag = remote[d.url],
                                          !.available = TRUE]
      <4>1. s \in States
        BY <2>1, <2>4, FetchedType
      <4>2. s.definition = d /\ s.items = i /\ s.etag = remote[d.url]
        BY DEF NewState
      <4>3. i # None /\ i.url = d.url /\ i.version = remote[d.url]
        <5>1. i \in Manifests
          BY <2>4 DEF Manifests
        <5> QED
          BY <5>1, SourceAssumption
      <4>4. job' = [job EXCEPT ![p].at = "verify", ![p].view = s]
        BY <3>2
      <4> HIDE DEF i, s
      <4>5. Sourced(s) /\ NotOlder(s)
        BY <2>4, <4>2, <4>3 DEF Sourced, NotOlder, Versions
      <4> QED
        BY <4>1, <4>4, <4>5
    <3>3. CASE job' = [job EXCEPT ![p].at = "verify", ![p].view = ApplySourceDefinition(v, d)]
      <4> DEFINE a == ApplySourceDefinition(v, d)
      <4>1. a \in States
        BY <2>1, <2>2, AppliedType
      <4>2. CASE v = None
        BY <3>3, <4>1, <4>2 DEF ApplySourceDefinition, NewState, Sourced, NotOlder
      <4>3. CASE v # None
        <5>1. /\ a.items = v.items /\ a.etag = v.etag /\ a.available = v.available
              /\ a.definition.url = v.definition.url
          BY <2>1, <2>2, <4>3, AppliedSame
        <5>2. Sourced(a) /\ NotOlder(a)
          <6> HIDE DEF a
          <6> QED
            BY <2>3, <4>3, <5>1 DEF Sourced, NotOlder
        <5> QED
          BY <3>3, <4>1, <5>2
      <4> QED
        BY <4>2, <4>3
    <3> QED
      BY <1>6, <3>1, <3>2, <3>3 DEF Fetch
  <2>7. "verify" # "fetch"
    OBVIOUS
  <2> QED
    BY <1>6, <2>5, <2>6, <2>7, ViewOffer DEF Fetch
<1>7. CASE Verify(p)
  <2>1. job[p].at \in Finishing /\ "store" \in Steps \ {"fetch"}
    BY <1>7 DEF Verify, Finishing, Steps
  <2>2. CASE Go(p, "store")
    BY <1>7, <2>1, <2>2, GoOffer DEF Verify
  <2>3. CASE EndSync(p)
    BY <1>7, <2>3, EndOffer DEF Verify, EndSync
  <2> QED
    BY <1>7, <2>2, <2>3 DEF Verify
<1> QED
  BY <1>1, <1>2, <1>3, <1>4, <1>5, <1>6, <1>7

\* The catalog and the jobs stay; something may be published.
LEMMA StutterOffer ==
    ASSUME Offers, Inv', UNCHANGED <<state, seen, job>>,
           remote' \in [Urls -> Versions], \A u \in Urls : remote[u] <= remote'[u]
    PROVE  Offers'
<1>1. ASSUME NEW s \in States, Sourced(s) PROVE Sourced(s)'
  <2>1. s.items # None => s.items \in Manifests
    BY DEF States
  <2>2. s.items # None => /\ s.items.url \in Urls
                          /\ s.items.version \in Nat
                          /\ remote[s.items.url] \in Nat /\ remote'[s.items.url] \in Nat
    BY <2>1 DEF Manifests, Versions, Offers, Inv, Types, TypeOK
  <2> QED
    BY <1>1, <2>2 DEF Sourced
<1>2. AllSourced'
  BY <1>1 DEF Offers, AllSourced, Inv, Types, TypeOK
<1>3. Published'
  BY DEF Offers, Published, Inv, Types, TypeOK, Versions
<1>4. SameUrl' /\ Results' /\ NewestOffer'
  BY DEF Offers, SameUrl, Results, NotOlder, NewestOffer
<1> QED
  BY <1>2, <1>3, <1>4 DEF Offers

LEMMA OffersInitially == Init => Offers
<1> SUFFICES ASSUME Init PROVE Offers
  OBVIOUS
<1>1. Inv
  BY InvInitially
<1>2. \A p \in Jobs : job[p] = NoJob
  BY DEF Init
<1>3. AllSourced /\ SameUrl /\ Results /\ NewestOffer
  BY <1>2, NoJobStep DEF Init, AllSourced, SameUrl, Results, NewestOffer
<1>4. Published
  BY DEF Init, Published
<1> QED
  BY <1>1, <1>3, <1>4 DEF Offers

LEMMA OffersKept == Offers /\ [Next]_vars => Offers'
<1> SUFFICES ASSUME Offers, [Next]_vars PROVE Offers'
  OBVIOUS
<1>i. Inv'
  BY InvKept DEF Offers
<1>j. Requests \subseteq Jobs /\ Refresher \in Jobs
  BY DEF Jobs
<1>n. /\ {"define", "missing", "idle", "removeAcquire", "removeCheck", "remove"}
           \subseteq Steps \ ({"fetch"} \cup Finishing)
      /\ {"invalidate", "forget", "acquire"} \subseteq Steps \ ({"fetch"} \cup Finishing)
  BY DEF Steps, Finishing
<1>r. remote \in [Urls -> Versions] /\ \A u \in Urls : remote[u] <= remote[u]
  BY DEF Offers, Inv, Types, TypeOK, Versions
<1>1. ASSUME NEW p \in Requests, Write(p) PROVE Offers'
  <2>1. PICK u \in Urls, e \in BOOLEAN : \E d \in NextDefinition(u, e) :
          /\ resource' = d
          /\ \/ /\ job' = [job EXCEPT ![p] = [at |-> "invalidate", definition |-> d,
                                              view |-> None]]
                /\ UNCHANGED faults
             \/ Fail /\ UNCHANGED job
    BY <1>1 DEF Write
  <2>2. NextDefinition(u, e) \subseteq Definitions
    BY DEF NextDefinition, Offers, Inv, Types, TypeOK, Definitions
  <2>3. UNCHANGED <<state, seen, remote>>
    BY <1>1 DEF Write
  <2>4. CASE UNCHANGED job
    BY <1>i, <1>r, <2>3, <2>4, StutterOffer
  <2>5. CASE \E d \in Definitions :
               job' = [job EXCEPT ![p] = [at |-> "invalidate", definition |-> d, view |-> None]]
    BY <1>i, <1>j, <1>n, <2>3, <2>5, BeginOffer
  <2> QED
    BY <2>1, <2>2, <2>4, <2>5
<1>2. ASSUME NEW p \in Requests, Delete(p) PROVE Offers'
  <2>1. resource \in Definitions /\ UNCHANGED <<state, seen, remote>>
    BY <1>2 DEF Delete, Offers, Inv, Types, TypeOK
  <2>2. CASE UNCHANGED job
    BY <1>i, <1>r, <2>1, <2>2, StutterOffer
  <2>3. CASE job' = [job EXCEPT ![p] = [at |-> "forget", definition |-> resource, view |-> None]]
    BY <1>i, <1>j, <1>n, <2>1, <2>3, BeginOffer
  <2> QED
    BY <1>2, <2>2, <2>3 DEF Delete
<1>3. ASSUME NEW p \in Requests, Sync(p) PROVE Offers'
  BY <1>3, <1>i, <1>j, <1>n, GoOffer DEF Sync
<1>4. ASSUME NEW p \in Requests, GiveUp(p) PROVE Offers'
  BY <1>4, <1>i, <1>j, EndOffer DEF GiveUp
<1>5. ASSUME NEW p \in Jobs, InvalidateStore(p) PROVE Offers'
  <2> DEFINE s == [ApplySourceDefinition(job[p].view, job[p].definition)
                     EXCEPT !.available = FALSE]
  <2>1. job[p].definition \in Definitions /\ job[p].view \in States \cup {None}
    BY <1>5, SourceAssumption
       DEF InvalidateStore, Offers, Inv, Types, TypeOK, Defined, Working
  <2>2. s \in States
    BY <2>1, AppliedType
  <2>3. ~s.available
    <3> DEFINE a == ApplySourceDefinition(job[p].view, job[p].definition)
    <3>1. a \in States
      BY <2>1, AppliedType
    <3> HIDE DEF a
    <3>2. ~[a EXCEPT !.available = FALSE].available
      BY <3>1 DEF States
    <3> QED
      BY <3>2 DEF a
  <2>4. Sourced(s)
    <3>1. job[p].view # None => Sourced(job[p].view)
      BY DEF Offers, AllSourced
    <3> QED
      BY <2>1, <3>1, WithdrawnSourced
  <2>5. StoreSourceState(s) /\ UNCHANGED remote
    BY <1>5 DEF InvalidateStore
  <2>6. job' = [job EXCEPT ![p] = [NoJob EXCEPT !.at = "define"]]
    BY <1>5 DEF InvalidateStore
  <2> HIDE DEF s
  <2>7. NotOlder(s)
    BY <2>3 DEF NotOlder
  <2> QED
    BY <1>i, <2>2, <2>3, <2>4, <2>5, <2>6, <2>7, NoJobStep, StoreOffer
<1>6. ASSUME NEW p \in Jobs, Forget(p) PROVE Offers'
  <2> DEFINE s == [NewState(job[p].definition) EXCEPT !.invalidated = TRUE]
  <2>1. job[p].definition \in Definitions
    BY <1>6 DEF Forget, Offers, Inv, Types, TypeOK, Defined, Working
  <2>2. s \in States /\ ~s.available /\ Sourced(s) /\ NotOlder(s)
    BY <2>1, NewStateType DEF NewState, Sourced, NotOlder
  <2>3. StoreSourceState(s) /\ UNCHANGED remote /\ job' = [job EXCEPT ![p] = NoJob]
    BY <1>6 DEF Forget, End
  <2> HIDE DEF s
  <2> QED
    BY <1>i, <2>2, <2>3, NoJobStep, StoreOffer
<1>7. ASSUME NEW p \in Jobs, StoreResult(p) PROVE Offers'
  <2>1. job[p].at \in Finishing /\ lock = p
    BY <1>7 DEF StoreResult, Finishing, Offers, Inv, Locked, Holding
  <2>2. /\ job[p].view \in States /\ job[p].view # None
        /\ Sourced(job[p].view) /\ NotOlder(job[p].view)
    BY <2>1 DEF Offers, AllSourced, Results, Inv, Types, TypeOK, Finished
  <2>3. StoreSourceState(job[p].view) /\ UNCHANGED remote /\ job' = [job EXCEPT ![p] = NoJob]
    BY <1>7 DEF StoreResult, EndSync, End
  <2> QED
    BY <1>i, <2>1, <2>2, <2>3, NoJobStep, StoreOffer
<1>8. ASSUME Refresh PROVE Offers'
  <2>1. CASE List
    <3>1. CASE resource # None
      BY <1>i, <1>j, <1>n, <2>1, <3>1, BeginOffer DEF List, Offers, Inv, Types, TypeOK
    <3>2. CASE resource = None
      BY <1>i, <1>j, <1>n, <2>1, <3>2, GoOffer DEF List
    <3> QED
      BY <3>1, <3>2
  <2>2. CASE FindMissing
    BY <1>i, <1>j, <1>n, <2>2, GoOffer DEF FindMissing
  <2>3. CASE RemoveAcquire
    BY <1>i, <1>j, <1>n, <2>3, GoOffer DEF RemoveAcquire
  <2>4. CASE RemoveCheck
    BY <1>i, <1>j, <1>n, <2>4, GoOffer, EndOffer DEF RemoveCheck, EndSync
  <2>5. CASE Remove
    <3>1. /\ state' = None /\ UNCHANGED <<remote, seen>>
          /\ job' = [job EXCEPT ![Refresher] = NoJob]
      BY <2>5 DEF Remove, EndSync, End
    <3>2. \A q \in Jobs : job'[q] = job[q] \/ job'[q] = NoJob
      BY <1>j, <3>1 DEF Offers, Inv, Types, TypeOK
    <3>3. AllSourced' /\ SameUrl' /\ Results'
      BY <3>1, <3>2, NoJobStep DEF Offers, AllSourced, Sourced, SameUrl, Results, NotOlder
    <3>4. Published' /\ NewestOffer'
      BY <3>1 DEF Offers, Published, NewestOffer
    <3> QED
      BY <1>i, <3>3, <3>4 DEF Offers
  <2> QED
    BY <1>8, <2>1, <2>2, <2>3, <2>4, <2>5 DEF Refresh
<1>9. ASSUME NEW u \in Urls, PublishManifest(u) PROVE Offers'
  <2>1. remote' \in [Urls -> Versions] /\ UNCHANGED <<state, seen, job>>
    BY <1>9, <1>i DEF PublishManifest, Inv, Types, TypeOK
  <2>2. \A w \in Urls : remote[w] <= remote'[w]
    BY <1>9, <1>r DEF PublishManifest, Versions
  <2> QED
    BY <1>i, <2>1, <2>2, StutterOffer
<1>10. CASE UNCHANGED vars
  BY <1>i, <1>r, <1>10, StutterOffer DEF vars
<1> QED
  BY <1>1, <1>2, <1>3, <1>4, <1>5, <1>6, <1>7, <1>8, <1>9, <1>10, <1>i, SynchronisationOffers
     DEF Next, Step

\* For any requests, URLs and published versions, what is offered was read from
\* the URL of its definition and is not older than what was offered before.
THEOREM NewestIsOffered == Spec => []NewestOffer
<1>1. Offers => NewestOffer
  BY DEF Offers
<1> QED
  BY <1>1, OffersInitially, OffersKept, PTL DEF Spec

=============================================================================
