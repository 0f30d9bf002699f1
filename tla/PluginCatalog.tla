--------------------------- MODULE PluginCatalog ---------------------------
(***************************************************************************)
(* The plugin catalog of the Admin API (internal/adminapi/data/plugincatalog *)
(* and the use cases of biz/plugin/source) for one custom plugin source.     *)
(*                                                                         *)
(* The source is a resource of the API server: a URL and a switch, with a   *)
(* generation.  The catalog keeps what it last read from the URL and offers *)
(* it for installation.  Requests edit, delete and synchronise the source   *)
(* while a refresher synchronises it periodically; each synchronisation     *)
(* reads the API server, the catalog and the remote site one after another. *)
(* A lock per source orders synchronisations, but the requests' own updates *)
(* of the catalog do not take it.                                          *)
(*                                                                         *)
(* Abstracted: the content of a manifest is the URL it came from and its    *)
(* version there; one that cannot be parsed is a failed fetch.  The display *)
(* name changes with the generation alone, and the observation shown to     *)
(* users is left out.  The official source is one that nobody edits.        *)
(***************************************************************************)
EXTENDS Naturals

CONSTANTS
    Requests,       \* calls that can be under way together
    Refresher,      \* the goroutine of Catalog.run
    Urls,           \* where manifests are published
    Existing,       \* what the source may be when the Admin API starts
    MaxCalls,       \* bound: calls of the Admin API
    MaxVersion,     \* bound: versions of manifests, until one URL reaches it
    MaxFaults,      \* bound: calls that fail, replies that are lost
    None            \* no resource, no state, no holder

ASSUME CatalogAssumption ==
    /\ Refresher \notin Requests
    /\ {MaxCalls, MaxVersion, MaxFaults} \subseteq Nat
    /\ MaxVersion > 0

Jobs == Requests \cup {Refresher}
Versions == 1..MaxVersion
Definitions == [generation : Nat, url : Urls, enabled : BOOLEAN]
Manifests == [url : Urls, version : Versions]
NoTag == 0

\* An etag names a version, not the URL it was read from.
States == [definition : Definitions, items : Manifests \cup {None},
           etag : Versions \cup {NoTag}, available : BOOLEAN, invalidated : BOOLEAN]

ASSUME SourceAssumption ==
    /\ \A d \in Existing : d = None \/ d \in Definitions
    /\ None \notin Jobs \cup Definitions \cup Manifests \cup States

VARIABLES
    resource,       \* the source in the API server
    calls,          \* how many calls of the Admin API were made
    remote,         \* the version each URL has now
    state,          \* Catalog.states of the source
    lock,           \* Catalog.sourceSync of the source: the job that holds it
    job,            \* what every request and the refresher are doing
    told,           \* history: definitions older than this were withdrawn
    seen,           \* history: the newest version offered of every URL
    faults          \* how many calls failed

vars == <<resource, calls, remote, state, lock, job, told, seen, faults>>

Steps == {"idle", "invalidate", "invalidating", "forget", "define", "acquire", "check",
          "load", "fetch", "verify", "store", "missing", "removeAcquire", "removeCheck",
          "remove"}
NoJob == [at |-> "idle", definition |-> None, view |-> None]

TypeOK ==
    /\ resource \in Definitions \cup {None}
    /\ calls \in 0..MaxCalls
    /\ remote \in [Urls -> Versions]
    /\ state \in States \cup {None}
    /\ lock \in Jobs \cup {None}
    /\ job \in [Jobs -> [at : Steps, definition : Definitions \cup {None},
                         view : States \cup {None}]]
    /\ told \in Nat
    /\ seen \in [Urls -> 0..MaxVersion]
    /\ faults \in 0..MaxFaults

\* The Admin API starts with nothing in memory, over a source that may exist.
Init ==
    /\ resource \in Existing
    /\ calls = 0
    /\ remote = [u \in Urls |-> 1]
    /\ state = None
    /\ lock = None
    /\ job = [p \in Jobs |-> NoJob]
    /\ told = 0
    /\ seen = [u \in Urls |-> 0]
    /\ faults = 0

-----------------------------------------------------------------------------
(* The states of the catalog.                                               *)

NewState(d) == [definition |-> d, items |-> None, etag |-> NoTag,
                available |-> FALSE, invalidated |-> FALSE]

\* Mutant: what was read from the old URL is kept, and its etag with it.
ApplyWithoutReset(s, d) == IF s = None THEN NewState(d) ELSE [s EXCEPT !.definition = d]

\* applySourceDefinition: what was read from another URL is forgotten.
ApplySourceDefinition(s, d) ==
    IF s = None THEN NewState(d)
    ELSE IF s.definition.url = d.url THEN [s EXCEPT !.definition = d]
    ELSE [s EXCEPT !.definition = d, !.items = None, !.etag = NoTag]

\* Mutant: the tombstone of a deleted source does not refuse its own generation.
OutdatedByGeneration(s) ==
    /\ state # None
    /\ state.definition.generation > s.definition.generation

\* The refusal of storeSourceState.
Outdated(s) ==
    /\ state # None
    /\ \/ state.definition.generation > s.definition.generation
       \/ state.invalidated /\ state.definition.generation >= s.definition.generation

StoreSourceState(s) ==
    /\ state' = IF Outdated(s) THEN state ELSE s
    /\ seen' = IF ~Outdated(s) /\ s.available /\ s.items # None /\ s.items.version > seen[s.items.url]
               THEN [seen EXCEPT ![s.items.url] = s.items.version]
               ELSE seen

-----------------------------------------------------------------------------
(* Helpers of the jobs.                                                     *)

Go(p, step) == job' = [job EXCEPT ![p].at = step]
End(p) == job' = [job EXCEPT ![p] = NoJob]
EndSync(p) == End(p) /\ lock' = None

CanFail == faults < MaxFaults
Fail == CanFail /\ faults' = faults + 1

-----------------------------------------------------------------------------
(* Requests.                                                                *)

\* The goroutine that serves the next call; which of the idle ones is all one.
Call(p) ==
    /\ job[p].at = "idle"
    /\ p = CHOOSE q \in Requests : job[q].at = "idle"
    /\ calls < MaxCalls
    /\ calls' = calls + 1

\* Usecase.Create and Replace: a write that changes nothing keeps the
\* generation.  The reply of the API server may be lost, and the request then
\* ends with an error.
NextDefinition(u, e) ==
    IF resource # None /\ resource.url = u /\ resource.enabled = e
    THEN {resource, [resource EXCEPT !.generation = @ + 1]}
    ELSE {[generation |-> IF resource = None THEN 1 ELSE resource.generation + 1,
           url |-> u, enabled |-> e]}

Write(p) ==
    /\ Call(p)
    /\ resource = None => calls = 0
    /\ \E u \in Urls, e \in BOOLEAN : \E d \in NextDefinition(u, e) :
        /\ resource' = d
        /\ \/ /\ job' = [job EXCEPT ![p] = [at |-> "invalidate", definition |-> d, view |-> None]]
              /\ UNCHANGED faults
           \/ /\ Fail
              /\ UNCHANGED job
    /\ UNCHANGED <<remote, state, lock, told, seen>>

Delete(p) ==
    /\ Call(p)
    /\ resource # None
    /\ resource' = None
    /\ \/ /\ job' = [job EXCEPT ![p] = [at |-> "forget", definition |-> resource, view |-> None]]
          /\ UNCHANGED faults
       \/ /\ Fail
          /\ UNCHANGED job
    /\ UNCHANGED <<remote, state, lock, told, seen>>

\* Usecase.Sync of an enabled source.
Sync(p) ==
    /\ Call(p)
    /\ resource # None /\ resource.enabled
    /\ Go(p, "define")
    /\ UNCHANGED <<resource, remote, state, lock, told, seen, faults>>

\* InvalidateSource reads the state under one lock and stores it under another.
InvalidateLoad(p) ==
    /\ job[p].at = "invalidate"
    /\ job' = [job EXCEPT ![p].at = "invalidating", ![p].view = state]
    /\ UNCHANGED <<resource, calls, remote, state, lock, told, seen, faults>>

InvalidateStore(p) ==
    LET d == job[p].definition IN
    /\ job[p].at = "invalidating"
    /\ StoreSourceState([ApplySourceDefinition(job[p].view, d) EXCEPT !.available = FALSE])
    /\ told' = IF d.generation > told THEN d.generation ELSE told
    /\ job' = [job EXCEPT ![p] = [NoJob EXCEPT !.at = "define"]]
    /\ UNCHANGED <<resource, calls, remote, lock, faults>>

\* ForgetSource: nothing of the source may be offered again.
Forget(p) ==
    LET d == job[p].definition IN
    /\ job[p].at = "forget"
    /\ StoreSourceState([NewState(d) EXCEPT !.invalidated = TRUE])
    /\ told' = d.generation + 1
    /\ End(p)
    /\ UNCHANGED <<resource, calls, remote, lock, faults>>

-----------------------------------------------------------------------------
(* One synchronisation.                                                     *)

\* SyncSource reads the definition it is going to synchronise.
Define(p) ==
    /\ job[p].at = "define"
    /\ \/ /\ resource # None
          /\ job' = [job EXCEPT ![p] = [at |-> "acquire", definition |-> resource, view |-> None]]
       \/ /\ resource = None
          /\ End(p)
    /\ UNCHANGED <<resource, calls, remote, state, lock, told, seen, faults>>

\* acquireSourceSync: a request may be cancelled while it waits, which also
\* stands for a failed read of the definition.
Acquire(p) ==
    /\ job[p].at = "acquire"
    /\ lock = None
    /\ lock' = p
    /\ Go(p, "check")
    /\ UNCHANGED <<resource, calls, remote, state, told, seen, faults>>

GiveUp(p) ==
    /\ job[p].at = "acquire"
    /\ p \in Requests
    /\ Fail
    /\ End(p)
    /\ UNCHANGED <<resource, calls, remote, state, lock, told, seen>>

\* isCurrentDefinition before anything is fetched.
Check(p) ==
    LET d == job[p].definition IN
    /\ job[p].at = "check"
    /\ \/ /\ resource = d /\ d.enabled
          /\ Go(p, "load")
          /\ UNCHANGED <<lock, faults>>
       \/ /\ resource = d /\ ~d.enabled
          /\ job' = [job EXCEPT ![p].at = "store", ![p].view = NewState(d)]
          /\ UNCHANGED <<lock, faults>>
       \/ /\ resource # d
          /\ EndSync(p)
          /\ UNCHANGED faults
       \/ Fail /\ EndSync(p)
    /\ UNCHANGED <<resource, calls, remote, state, told, seen>>

\* The previous state, unless it was read from another URL.
Load(p) ==
    LET d == job[p].definition IN
    /\ job[p].at = "load"
    /\ job' = [job EXCEPT ![p].at = "fetch",
                          ![p].view = IF state # None /\ state.definition.url = d.url
                                      THEN state ELSE None]
    /\ UNCHANGED <<resource, calls, remote, state, lock, told, seen, faults>>

\* fetchManifest and parseManifest: the manifest of this moment, "not modified"
\* when the etag sent is its own, or a failure, which keeps what there was.
Fetch(p) ==
    LET d == job[p].definition
        previous == job[p].view
        Result(s) == job' = [job EXCEPT ![p].at = "verify", ![p].view = s]
    IN
    /\ job[p].at = "fetch"
    /\ \/ /\ previous # None /\ previous.etag = remote[d.url]
          /\ Result([ApplySourceDefinition(previous, d) EXCEPT !.available = TRUE])
          /\ UNCHANGED faults
       \/ /\ Result([NewState(d) EXCEPT !.items = [url |-> d.url, version |-> remote[d.url]],
                                        !.etag = remote[d.url], !.available = TRUE])
          /\ UNCHANGED faults
       \/ /\ Fail
          /\ Result(ApplySourceDefinition(previous, d))
    /\ UNCHANGED <<resource, calls, remote, state, lock, told, seen>>

\* Mutant: a result that is out of date leaves the source locked.
VerifyLocked(p) ==
    /\ job[p].at = "verify"
    /\ \/ /\ resource = job[p].definition
          /\ Go(p, "store")
          /\ UNCHANGED <<lock, faults>>
       \/ /\ resource # job[p].definition
          /\ End(p)
          /\ UNCHANGED <<lock, faults>>
       \/ Fail /\ EndSync(p)
    /\ UNCHANGED <<resource, calls, remote, state, told, seen>>

\* isCurrentDefinition of storeStateIfCurrent and recordSyncFailure.
Verify(p) ==
    /\ job[p].at = "verify"
    /\ \/ /\ resource = job[p].definition
          /\ Go(p, "store")
          /\ UNCHANGED <<lock, faults>>
       \/ /\ resource # job[p].definition
          /\ EndSync(p)
          /\ UNCHANGED faults
       \/ Fail /\ EndSync(p)
    /\ UNCHANGED <<resource, calls, remote, state, told, seen>>

StoreResult(p) ==
    /\ job[p].at = "store"
    /\ StoreSourceState(job[p].view)
    /\ EndSync(p)
    /\ UNCHANGED <<resource, calls, remote, told, faults>>

-----------------------------------------------------------------------------
(* The refresher.                                                           *)

\* syncAll lists the sources and synchronises those there are.
List ==
    /\ job[Refresher].at = "idle"
    /\ IF resource # None
       THEN job' = [job EXCEPT ![Refresher] = [at |-> "acquire", definition |-> resource,
                                               view |-> None]]
       ELSE Go(Refresher, "missing")
    /\ UNCHANGED <<resource, calls, remote, state, lock, told, seen, faults>>

\* removeDeletedSources collects the states that were not in the list.
FindMissing ==
    /\ job[Refresher].at = "missing"
    /\ Go(Refresher, IF state # None THEN "removeAcquire" ELSE "idle")
    /\ UNCHANGED <<resource, calls, remote, state, lock, told, seen, faults>>

\* removeDeletedSource waits for the synchronisation under way and asks again.
RemoveAcquire ==
    /\ job[Refresher].at = "removeAcquire"
    /\ lock = None
    /\ lock' = Refresher
    /\ Go(Refresher, "removeCheck")
    /\ UNCHANGED <<resource, calls, remote, state, told, seen, faults>>

RemoveCheck ==
    /\ job[Refresher].at = "removeCheck"
    /\ \/ /\ resource = None
          /\ Go(Refresher, "remove")
          /\ UNCHANGED <<lock, faults>>
       \/ /\ resource # None
          /\ EndSync(Refresher)
          /\ UNCHANGED faults
       \/ Fail /\ EndSync(Refresher)
    /\ UNCHANGED <<resource, calls, remote, state, told, seen>>

Remove ==
    /\ job[Refresher].at = "remove"
    /\ state' = None
    /\ EndSync(Refresher)
    /\ UNCHANGED <<resource, calls, remote, told, seen, faults>>

-----------------------------------------------------------------------------
(* The environment.                                                         *)

PublishManifest(u) ==
    /\ \A v \in Urls : remote[v] < MaxVersion
    /\ remote' = [remote EXCEPT ![u] = @ + 1]
    /\ UNCHANGED <<resource, calls, state, lock, job, told, seen, faults>>

Step(p) ==
    \/ InvalidateLoad(p) \/ InvalidateStore(p) \/ Forget(p)
    \/ Define(p) \/ Acquire(p) \/ Check(p) \/ Load(p) \/ Fetch(p) \/ Verify(p) \/ StoreResult(p)

Refresh == List \/ FindMissing \/ RemoveAcquire \/ RemoveCheck \/ Remove

Next ==
    \/ \E p \in Requests : Write(p) \/ Delete(p) \/ Sync(p) \/ GiveUp(p)
    \/ \E p \in Jobs : Step(p)
    \/ Refresh
    \/ \E u \in Urls : PublishManifest(u)

Spec == Init /\ [][Next]_vars

\* A goroutine that can go on does; the ticker of run fires again and again.
\* Nothing makes anybody call or publish.
LiveSpec ==
    /\ Spec
    /\ \A p \in Jobs : WF_vars(Step(p))
    /\ WF_vars(Refresh)

-----------------------------------------------------------------------------
(* Properties.                                                              *)

\* Once an edit has invalidated the source in the catalog, nothing of an older
\* definition is offered, and once Delete has returned nothing at all: no
\* synchronisation, however long it was under way, brings it back
\* (InvalidateSource, ForgetSource, storeSourceState).
NoStaleOffer ==
    state # None /\ state.available => state.definition.generation >= told

\* What is offered was read from the URL of the definition it is offered under,
\* and is never older than what that URL was seen to offer before: results are
\* not stored out of order and a "not modified" is not believed for another URL
\* (acquireSourceSync, applySourceDefinition, fetchManifest).
NewestOffer ==
    state # None /\ state.available =>
        /\ state.items # None
        /\ state.items.url = state.definition.url
        /\ state.items.version >= seen[state.items.url]

\* Once calls, publications and faults have stopped, the catalog offers exactly
\* the newest manifest of an enabled source, nothing of a disabled one, and keeps
\* nothing of a deleted one, whichever replies were lost on the way (Catalog.run,
\* removeDeletedSources).
CatalogCorrect ==
    CASE resource = None -> state = None
      [] resource # None ->
            /\ state # None
            /\ state.definition = resource
            /\ state.available = resource.enabled
            /\ resource.enabled =>
                 state.items = [url |-> resource.url, version |-> remote[resource.url]]
CatalogConverges == <>[]CatalogCorrect
=============================================================================
