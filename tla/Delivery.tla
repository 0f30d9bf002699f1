------------------------------ MODULE Delivery ------------------------------
(***************************************************************************)
(* Publishing Envoy configurations: the command loop of Delivery with its   *)
(* Candidate and Active, the xDS callbacks that turn the stream protocol    *)
(* into events for it, and, as the environment, the snapshot cache, the     *)
(* state-of-the-world server and the Envoys.                                *)
(*                                                                         *)
(* Delivery handles one command at a time.  A stream goroutine has at most  *)
(* one event outstanding and waits for its answer; between the moment a     *)
(* callback classified a request and the moment the loop handles the event, *)
(* any other command may run.  A version stands for one configuration       *)
(* content (the compiler derives it from the content).                      *)
(***************************************************************************)
EXTENDS Naturals, FiniteSets

CONSTANTS
    Nodes,         \* Envoy instances
    Streams,       \* ADS streams; a stream is opened once
    NodeOf,        \* the Envoy that opens a stream
    Types,         \* resource types an Envoy subscribes to
    Versions,      \* configurations the compiler produces
    Required,      \* the types a configuration has resources of
    Rejects,       \* <<node, type, version>>: this Envoy refuses these resources
    Baseline,      \* the empty configuration
    None,
    MaxCommands,   \* bound on Submit and CancelCandidate calls
    MaxErrors,     \* bound on failing publications
    MaxRestarts    \* bound on controller restarts

ASSUME NamesAssumption ==
    /\ Baseline \notin Versions
    /\ None \notin Versions \cup {Baseline} \cup Streams
ASSUME ShapeAssumption ==
    /\ NodeOf \in [Streams -> Nodes]
    /\ Required \in [Versions -> SUBSET Types]
    /\ Rejects \subseteq Nodes \X Types \X Versions
ASSUME BoundsAssumption == MaxCommands \in Nat /\ MaxErrors \in Nat /\ MaxRestarts \in Nat

VARIABLES
    (* deliveryState *)
    candidate,   \* version being delivered, or None
    timer,       \* the candidate's ACK timer
    sequence,    \* number of the last candidate
    active,      \* version every counted Envoy accepted, or None
    failure,     \* reason of the last failure
    tracked,     \* streams Delivery knows of
    counted,     \* tracked streams whose node it knows
    progress,    \* per stream, the <<version, type>> responses it saw sent
    accepted,    \* per stream and type, the version it last heard accepted
    timeouts,    \* ACK timeout commands waiting in the channel
    (* callbacks and snapshot cache *)
    cache,       \* version of the snapshot, or None
    registered,  \* per node, the stream it is connected on
    conn,        \* life of each stream
    pend,        \* the event of each stream the loop has not answered
    link,        \* per stream and type, the exchange with Envoy
    (* Envoy *)
    applied,     \* per node and type, the version it runs
    everApplied, \* history: the <<type, version>> pairs it ever accepted
    lastActive,  \* history: the version that became active last
    (* bounds *)
    commands, errors, restarts

candidateVars == <<candidate, timer, sequence, active, failure>>
streamVars == <<tracked, counted, progress, accepted>>
xdsVars == <<registered, conn>>
envoyVars == <<applied, everApplied>>
bounds == <<commands, errors, restarts>>
vars == <<candidateVars, streamVars, timeouts, cache, xdsVars, pend, link, envoyVars,
          lastActive, bounds>>

AnyVersion == Versions \cup {Baseline, None}
NoEvent == [kind |-> "none", type |-> None, version |-> None, accepted |-> None]
Event == [kind : {"none", "opened", "closed", "sent", "observed", "ack", "nack"},
          type : Types \cup {None}, version : AnyVersion, accepted : AnyVersion]
NoLink == [at |-> "none", version |-> None]

TypeOK ==
    /\ candidate \in Versions \cup {None}
    /\ timer \in {"off", "armed", "fired"}
    /\ sequence \in 0 .. MaxCommands
    /\ active \in Versions \cup {None}
    /\ failure \in {"none", "Rejected", "DeliveryFailed"}
    /\ tracked \in SUBSET Streams
    /\ counted \in SUBSET tracked
    /\ progress \in [Streams -> SUBSET (Versions \X Types)]
    /\ accepted \in [Streams -> [Types -> AnyVersion]]
    /\ timeouts \in SUBSET (Versions \X (1 .. MaxCommands))
    /\ cache \in AnyVersion
    /\ registered \in [Nodes -> Streams \cup {None}]
    /\ conn \in [Streams -> {"new", "open", "broken", "closed"}]
    /\ pend \in [Streams -> Event]
    /\ link \in [Streams -> [Types -> [at : {"none", "watch", "queued", "sent"},
                                       version : AnyVersion]]]
    /\ applied \in [Nodes -> [Types -> AnyVersion]]
    /\ everApplied \in [Nodes -> SUBSET (Types \X AnyVersion)]
    /\ lastActive \in Versions \cup {None}
    /\ commands \in 0 .. MaxCommands
    /\ errors \in 0 .. MaxErrors
    /\ restarts \in 0 .. MaxRestarts

Init ==
    /\ candidate = None /\ timer = "off" /\ sequence = 0
    /\ active = None /\ failure = "none"
    /\ tracked = {} /\ counted = {}
    /\ progress = [s \in Streams |-> {}]
    /\ accepted = [s \in Streams |-> [t \in Types |-> None]]
    /\ timeouts = {}
    /\ cache = None
    /\ registered = [n \in Nodes |-> None]
    /\ conn = [s \in Streams |-> "new"]
    /\ pend = [s \in Streams |-> NoEvent]
    /\ link = [s \in Streams |-> [t \in Types |-> NoLink]]
    /\ applied = [n \in Nodes |-> [t \in Types |-> None]]
    /\ everApplied = [n \in Nodes |-> {}]
    /\ lastActive = None
    /\ commands = 0 /\ errors = 0 /\ restarts = 0

-----------------------------------------------------------------------------
(* The snapshot cache.                                                      *)

\* A request that reports version v opens a watch, or is answered at once.
Watch(v, current) ==
    IF current \in {None, v} THEN [at |-> "watch", version |-> v]
                             ELSE [at |-> "queued", version |-> current]

\* Replacing the snapshot answers the given open watches of another version.
Answered(v, watches) ==
    [s \in Streams |-> [t \in Types |->
        IF <<s, t>> \in watches /\ link[s][t].at = "watch" /\ link[s][t].version # v
        THEN [at |-> "queued", version |-> v] ELSE link[s][t]]]

\* The streams in R wait for the answer to their event; then their watch opens.
Resumed(R, links, current) ==
    [s \in Streams |-> [t \in Types |->
        IF s \in R /\ conn[s] = "open" /\ t = pend[s].type /\ links[s][t].at # "sent"
        THEN Watch(pend[s].accepted, current) ELSE links[s][t]]]

\* Mutant: the snapshot changes and no watch is answered.
PublishUnanswered(v, R) ==
    /\ cache' = v
    /\ link' = Resumed(R, link, v)
    /\ UNCHANGED errors

\* Publish without error answers every watch.
PublishOK(v, R) ==
    /\ cache' = v
    /\ link' = Resumed(R, Answered(v, Streams \X Types), v)
    /\ UNCHANGED errors

\* SetSnapshot replaces the snapshot first; its context may end while it answers
\* the watches, and those it missed stay open.
PublishCut(v, R) ==
    /\ errors < MaxErrors
    /\ errors' = errors + 1
    /\ cache' = v
    /\ \E watches \in SUBSET (Streams \X Types) :
           link' = Resumed(R, Answered(v, watches), v)

-----------------------------------------------------------------------------
(* What the handlers share.                                                 *)

Pruned(keep) == [s \in Streams |-> {p \in progress[s] : p[1] \in keep}]

\* Mutant: one Envoy is enough.
AnyStreamAccepted(v, streams, acc) ==
    \E s \in streams : \A t \in Required[v] : acc[s][t] = v

\* fullyAccepted by every stream whose node is known, and there is one.
AllAccepted(v, streams, acc) ==
    /\ streams # {}
    /\ \A s \in streams : \A t \in Required[v] : acc[s][t] = v

\* activateAcceptedCandidate, after candidate c, the counted streams, the
\* progress and the accepted versions became what is given.
Settle(c, when, why, streams, prog, acc) ==
    /\ counted' = streams
    /\ accepted' = acc
    /\ IF c # None /\ AllAccepted(c, streams, acc)
       THEN /\ active' = c
            /\ lastActive' = c
            /\ candidate' = None
            /\ timer' = "off"
            /\ failure' = "none"
            /\ progress' = [s \in Streams |-> {p \in prog[s] : p[1] = c}]
       ELSE /\ candidate' = c
            /\ timer' = when
            /\ failure' = why
            /\ progress' = prog
            /\ UNCHANGED <<active, lastActive>>

\* Mutant: the rollback always empties the configuration.
FallbackEmpty == Baseline

Fallback == IF active = None THEN Baseline ELSE active

\* Mutant: a failed publication returns before the candidate is dropped.
RestoreFallbackEarlyReturn(clean, R) ==
    \/ /\ PublishOK(Fallback, R)
       /\ failure' = clean
       /\ candidate' = None
       /\ timer' = "off"
       /\ progress' = Pruned({Fallback})
       /\ accepted' = [s \in Streams |-> [t \in Types |-> None]]
       /\ UNCHANGED <<sequence, active, tracked, counted, lastActive>>
    \/ /\ PublishCut(Fallback, R)
       /\ failure' = "DeliveryFailed"
       /\ UNCHANGED <<candidate, timer, sequence, active, streamVars, lastActive>>

\* restoreFallback: the candidate is gone whether or not the publication of the
\* fallback reached every watch; `clean` is the failure left when it did.
RestoreFallback(clean, R) ==
    /\ \/ PublishOK(Fallback, R) /\ failure' = clean
       \/ PublishCut(Fallback, R) /\ failure' = "DeliveryFailed"
    /\ candidate' = None
    /\ timer' = "off"
    /\ progress' = Pruned({Fallback})
    /\ accepted' = [s \in Streams |-> [t \in Types |-> None]]
    /\ UNCHANGED <<sequence, active, tracked, counted, lastActive>>

-----------------------------------------------------------------------------
(* Commands of the controller.  A result with errors or without a version is *)
(* refused and changes nothing.                                              *)

Command ==
    /\ commands < MaxCommands
    /\ commands' = commands + 1
    /\ UNCHANGED <<timeouts, xdsVars, pend, envoyVars, restarts>>

\* The active version again: take back whatever else was being published.
SubmitActive(v) ==
    /\ Command
    /\ active = v
    /\ IF candidate # None \/ failure = "DeliveryFailed"
       THEN RestoreFallback("none", {})
       ELSE /\ failure' = "none"
            /\ UNCHANGED <<candidate, timer, sequence, active, streamVars, cache, link,
                           lastActive, errors>>

\* The candidate again: only its resource generations are new.
SubmitCandidate(v) ==
    /\ Command
    /\ active # v
    /\ candidate = v
    /\ Settle(candidate, timer, failure, counted, progress, accepted)
    /\ UNCHANGED <<sequence, tracked, cache, link, errors>>

\* Mutant: the version is tracked although the cache does not have it.
SubmitUnpublishedTracked(v) ==
    /\ Command
    /\ v \notin {active, candidate, cache}
    /\ errors < MaxErrors
    /\ errors' = errors + 1
    /\ failure' = "DeliveryFailed"
    /\ candidate' = v
    /\ UNCHANGED <<timer, sequence, active, streamVars, cache, link, lastActive>>

\* Publish refused the snapshot and the cache does not have it: the old
\* candidate stays.
SubmitUnpublished(v) ==
    /\ Command
    /\ v \notin {active, candidate, cache}
    /\ errors < MaxErrors
    /\ errors' = errors + 1
    /\ failure' = "DeliveryFailed"
    /\ UNCHANGED <<candidate, timer, sequence, active, streamVars, cache, link, lastActive>>

\* setCandidate, after a publication that replaced the snapshot.
SubmitNew(v) ==
    /\ Command
    /\ v \notin {active, candidate}
    /\ sequence' = sequence + 1
    /\ \/ /\ PublishOK(v, {})
          /\ Settle(v, "off", "none", counted, Pruned({active, v}), accepted)
       \/ /\ PublishCut(v, {})
          /\ candidate' = v
          /\ timer' = "off"
          /\ failure' = "DeliveryFailed"
          /\ progress' = Pruned({active, v})
          /\ UNCHANGED <<active, counted, accepted, lastActive>>
    /\ UNCHANGED tracked

CancelCandidate ==
    /\ Command
    /\ IF candidate = None /\ failure # "DeliveryFailed"
       THEN /\ failure' = "none"
            /\ UNCHANGED <<candidate, timer, sequence, active, streamVars, cache, link,
                           lastActive, errors>>
       ELSE RestoreFallback("none", {})

\* The ACK timer runs out: its command waits for the loop like any other.
TimerFires ==
    /\ timer = "armed"
    /\ timer' = "fired"
    /\ timeouts' = timeouts \cup {<<candidate, sequence>>}
    /\ UNCHANGED <<candidate, sequence, active, failure, streamVars, cache, xdsVars, pend,
                   link, envoyVars, lastActive, bounds>>

\* Mutant: the timeout is not compared with the candidate there is now.
ACKTimeoutOfAny(v, n) ==
    /\ <<v, n>> \in timeouts
    /\ timeouts' = timeouts \ {<<v, n>>}
    /\ IF candidate # None
       THEN RestoreFallback("DeliveryFailed", {})
       ELSE UNCHANGED <<candidateVars, streamVars, cache, link, lastActive, errors>>
    /\ UNCHANGED <<xdsVars, pend, envoyVars, commands, restarts>>

\* handleACKTimeout; a timeout of an earlier candidate does nothing.
ACKTimeout(v, n) ==
    /\ <<v, n>> \in timeouts
    /\ timeouts' = timeouts \ {<<v, n>>}
    /\ IF candidate = v /\ sequence = n
       THEN RestoreFallback("DeliveryFailed", {})
       ELSE UNCHANGED <<candidateVars, streamVars, cache, link, lastActive, errors>>
    /\ UNCHANGED <<xdsVars, pend, envoyVars, commands, restarts>>

-----------------------------------------------------------------------------
(* Callbacks: what happens on a stream, up to the event it hands over.       *)

Raise(s, kind, t, v, acc) ==
    pend' = [pend EXCEPT ![s] = [kind |-> kind, type |-> t, version |-> v, accepted |-> acc]]

Idle(s) == conn[s] = "open" /\ pend[s] = NoEvent

OnStreamOpen(s) ==
    /\ conn[s] = "new"
    /\ conn' = [conn EXCEPT ![s] = "open"]
    /\ Raise(s, "opened", None, None, None)
    /\ UNCHANGED <<candidateVars, streamVars, timeouts, cache, registered, link, envoyVars,
                   lastActive, bounds>>

\* A node connected on another stream: the callback fails, which ends the stream.
RequestRefused(s, t) ==
    /\ Idle(s)
    /\ link[s][t].at = "none"
    /\ registered[NodeOf[s]] \notin {None, s}
    /\ conn' = [conn EXCEPT ![s] = "broken"]
    /\ UNCHANGED <<candidateVars, streamVars, timeouts, cache, registered, pend, link,
                   envoyVars, lastActive, bounds>>

\* A request that answers no response: the first one of a type, a change of
\* subscription, or one that crossed a response on the wire (its nonce is old and
\* the server drops it).  It reports the version the Envoy runs.
Request(s, t) ==
    /\ Idle(s)
    /\ link[s][t].at \in {"none", "watch", "sent"}
    /\ registered[NodeOf[s]] \in {None, s}
    /\ registered' = [registered EXCEPT ![NodeOf[s]] = s]
    /\ LET running == applied[NodeOf[s]][t] IN
       IF running = None
       THEN /\ link' = [link EXCEPT ![s][t] = IF @.at = "sent" THEN @ ELSE Watch(None, cache)]
            /\ UNCHANGED pend
       ELSE /\ Raise(s, "observed", t, None, running)
            /\ UNCHANGED link
    /\ UNCHANGED <<candidateVars, streamVars, timeouts, cache, conn, envoyVars, lastActive, bounds>>

\* OnStreamResponse: the nonce is recorded, then the response goes out.
OnStreamResponse(s, t) ==
    /\ Idle(s)
    /\ link[s][t].at = "queued"
    /\ link' = [link EXCEPT ![s][t].at = "sent"]
    /\ Raise(s, "sent", t, link[s][t].version, None)
    /\ UNCHANGED <<candidateVars, streamVars, timeouts, cache, xdsVars, envoyVars, lastActive, bounds>>

\* The Envoy takes or refuses a response and says so with its nonce.
Reply(s, t) ==
    /\ Idle(s)
    /\ link[s][t].at = "sent"
    /\ LET n == NodeOf[s]
           v == link[s][t].version IN
       IF <<n, t, v>> \in Rejects
       THEN /\ Raise(s, "nack", t, v, applied[n][t])
            /\ UNCHANGED envoyVars
       ELSE /\ Raise(s, "ack", t, v, v)
            /\ applied' = [applied EXCEPT ![n][t] = v]
            /\ everApplied' = [everApplied EXCEPT ![n] = @ \cup {<<t, v>>}]
    /\ link' = [link EXCEPT ![s][t] = NoLink]
    /\ UNCHANGED <<candidateVars, streamVars, timeouts, cache, xdsVars, lastActive, bounds>>

\* The stream breaks.  The Envoy may have applied responses whose ACK is lost.
Break(s) ==
    /\ conn[s] = "open"
    /\ conn' = [conn EXCEPT ![s] = "broken"]
    /\ LET n == NodeOf[s]
           InFlight == {t \in Types : /\ link[s][t].at = "sent"
                                      /\ pend[s].kind # "sent" \/ pend[s].type # t
                                      /\ <<n, t, link[s][t].version>> \notin Rejects} IN
       \E heard \in SUBSET InFlight :
           /\ applied' = [applied EXCEPT ![n] =
                  [t \in Types |-> IF t \in heard THEN link[s][t].version ELSE @[t]]]
           /\ everApplied' = [everApplied EXCEPT ![n] =
                  @ \cup {<<t, link[s][t].version>> : t \in heard}]
    /\ link' = [link EXCEPT ![s] = [t \in Types |-> NoLink]]
    /\ UNCHANGED <<candidateVars, streamVars, timeouts, cache, registered, pend, lastActive, bounds>>

\* The context of a broken stream ends the call of HandleXDSEvent before the loop
\* took the event (for a NACK, its own rollback timeout does).
EventLost(s) ==
    /\ conn[s] = "broken"
    /\ pend[s] # NoEvent
    /\ pend' = [pend EXCEPT ![s] = NoEvent]
    /\ UNCHANGED <<candidateVars, streamVars, timeouts, cache, xdsVars, link, envoyVars, lastActive, bounds>>

\* Mutant: the close callback forgets the Node it is given, whatever stream that
\* Node is registered on.
OnStreamClosedByNode(s) ==
    /\ conn[s] = "broken"
    /\ pend[s] = NoEvent
    /\ conn' = [conn EXCEPT ![s] = "closed"]
    /\ registered' = [registered EXCEPT ![NodeOf[s]] = None]
    /\ Raise(s, "closed", None, None, None)
    /\ UNCHANGED <<candidateVars, streamVars, timeouts, cache, link, envoyVars, lastActive, bounds>>

\* OnStreamClosed: the registry forgets the stream; this event is never lost.
OnStreamClosed(s) ==
    /\ conn[s] = "broken"
    /\ pend[s] = NoEvent
    /\ conn' = [conn EXCEPT ![s] = "closed"]
    /\ registered' = [registered EXCEPT ![NodeOf[s]] = IF @ = s THEN None ELSE @]
    /\ Raise(s, "closed", None, None, None)
    /\ UNCHANGED <<candidateVars, streamVars, timeouts, cache, link, envoyVars, lastActive, bounds>>

-----------------------------------------------------------------------------
(* Events, as the loop handles them.  When the call returns, the server opens *)
(* the watch of the request that was answered.                                *)

Handle(s, kind) ==
    /\ pend[s].kind = kind
    /\ pend' = [pend EXCEPT ![s] = NoEvent]
    /\ UNCHANGED <<timeouts, xdsVars, envoyVars, commands, restarts>>

StreamOpened(s) ==
    /\ Handle(s, "opened")
    /\ tracked' = tracked \cup {s}
    /\ UNCHANGED <<candidateVars, counted, progress, accepted, cache, link, lastActive, errors>>

StreamClosed(s) ==
    /\ Handle(s, "closed")
    /\ tracked' = tracked \ {s}
    /\ Settle(candidate, timer, failure, counted \ {s},
              [progress EXCEPT ![s] = {}],
              [accepted EXCEPT ![s] = [t \in Types |-> None]])
    /\ UNCHANGED <<sequence, cache, link, errors>>

\* handleResponseSent: the first response of the candidate starts its timer.
ResponseSent(s) ==
    /\ Handle(s, "sent")
    /\ IF candidate # None /\ pend[s].version = candidate /\ s \in tracked
       THEN /\ counted' = counted \cup {s}
            /\ progress' = [progress EXCEPT ![s] = @ \cup {<<candidate, pend[s].type>>}]
            /\ timer' = IF timer = "off" THEN "armed" ELSE timer
       ELSE UNCHANGED <<counted, progress, timer>>
    /\ UNCHANGED <<candidate, sequence, active, failure, tracked, accepted, cache, link,
                   lastActive, errors>>

Accept(s, v) ==
    Settle(candidate, timer, failure, counted \cup {s}, progress,
           [accepted EXCEPT ![s][pend[s].type] = v])

AcceptedVersionObserved(s) ==
    /\ Handle(s, "observed")
    /\ IF s \in tracked
       THEN Accept(s, pend[s].accepted)
       ELSE UNCHANGED <<candidate, timer, active, failure, counted, progress, accepted, lastActive>>
    /\ link' = Resumed({s}, link, cache)
    /\ UNCHANGED <<sequence, tracked, cache, errors>>

\* The response was sent to this stream as part of the present candidate.
SentOfCandidate(s) ==
    /\ candidate # None
    /\ pend[s].version = candidate
    /\ s \in tracked
    /\ <<candidate, pend[s].type>> \in progress[s]

\* A stream that never saw the response sent is known by its node all the same.
Meet(s) == counted' = IF pend[s].version = candidate /\ s \in tracked
                      THEN counted \cup {s} ELSE counted

ACK(s) ==
    /\ Handle(s, "ack")
    /\ IF SentOfCandidate(s)
       THEN Accept(s, candidate)
       ELSE /\ Meet(s)
            /\ UNCHANGED <<candidate, timer, active, failure, progress, accepted, lastActive>>
    /\ link' = Resumed({s}, link, cache)
    /\ UNCHANGED <<sequence, tracked, cache, errors>>

\* handleNACK rolls back before the call returns, so the watch that follows is
\* answered with the fallback.
NACK(s) ==
    /\ Handle(s, "nack")
    /\ IF SentOfCandidate(s)
       THEN RestoreFallback("Rejected", {s})
       ELSE /\ Meet(s)
            /\ link' = Resumed({s}, link, cache)
            /\ UNCHANGED <<candidateVars, tracked, progress, accepted, cache, lastActive, errors>>

HandleEvent(s) ==
    \/ StreamOpened(s) \/ StreamClosed(s) \/ ResponseSent(s)
    \/ AcceptedVersionObserved(s) \/ ACK(s) \/ NACK(s)

-----------------------------------------------------------------------------

\* The controller starts over with nothing: no candidate, no active version, no
\* snapshot.  The Envoys keep running what they run and connect again.
Restart ==
    /\ restarts < MaxRestarts
    /\ restarts' = restarts + 1
    /\ candidate' = None /\ timer' = "off" /\ sequence' = 0
    /\ active' = None /\ failure' = "none"
    /\ tracked' = {} /\ counted' = {}
    /\ progress' = [s \in Streams |-> {}]
    /\ accepted' = [s \in Streams |-> [t \in Types |-> None]]
    /\ timeouts' = {}
    /\ cache' = None
    /\ registered' = [n \in Nodes |-> None]
    /\ conn' = [s \in Streams |-> IF conn[s] = "new" THEN "new" ELSE "closed"]
    /\ pend' = [s \in Streams |-> NoEvent]
    /\ link' = [s \in Streams |-> [t \in Types |-> NoLink]]
    /\ UNCHANGED <<envoyVars, lastActive, commands, errors>>

Submit(v) == SubmitActive(v) \/ SubmitCandidate(v) \/ SubmitUnpublished(v) \/ SubmitNew(v)

Next ==
    \/ \E v \in Versions : Submit(v)
    \/ CancelCandidate
    \/ TimerFires
    \/ \E late \in timeouts : ACKTimeout(late[1], late[2])
    \/ \E s \in Streams :
        \/ OnStreamOpen(s)
        \/ \E t \in Types : \/ Request(s, t) \/ RequestRefused(s, t)
                            \/ OnStreamResponse(s, t) \/ Reply(s, t)
        \/ Break(s) \/ EventLost(s) \/ OnStreamClosed(s)
        \/ HandleEvent(s)
    \/ Restart

Spec == Init /\ [][Next]_vars

\* The loop handles what is waiting, a running timer runs out, and a stream that
\* is open asks for every type.  An Envoy may send requests of its own at any
\* time, so what it owes to a response is only enabled again and again: it does
\* answer, as the server does send.
Fairness ==
    /\ WF_vars(TimerFires)
    /\ \A v \in Versions, n \in 1 .. MaxCommands : WF_vars(ACKTimeout(v, n))
    /\ \A s \in Streams :
        /\ WF_vars(HandleEvent(s))
        /\ WF_vars(OnStreamClosed(s))
        /\ \A t \in Types :
            /\ SF_vars(OnStreamResponse(s, t))
            /\ SF_vars(Reply(s, t))
            /\ SF_vars(Request(s, t) /\ link[s][t].at = "none")

LiveSpec == Spec /\ Fairness

-----------------------------------------------------------------------------
(* Safety.                                                                  *)

\* A request of the stream was taken: it waits for resources, has a response on the
\* way, or is an event for the loop.
Subscribed(s) ==
    \/ pend[s].kind \in {"sent", "observed", "ack", "nack"}
    \/ \E t \in Types : link[s][t].at # "none"

\* An Envoy that connects again before the end of its old stream was noticed is
\* served on one stream, the one it is registered on: the close of a stream that was
\* refused, or of an old one, takes nothing from it (OnStreamRequest, OnStreamClosed).
OneStreamPerNode ==
    \A s \in Streams :
        conn[s] = "open" /\ Subscribed(s) => registered[NodeOf[s]] = s

\* What Envoys are served is what Delivery believes: the candidate while there
\* is one, otherwise the active configuration, or the baseline, whatever a
\* publication that failed half way left behind (restoreFallback, HasVersion).
ServesWhatItTracks ==
    /\ candidate # None => cache = candidate
    /\ candidate = None /\ active # None => cache = active
    /\ candidate = None /\ active = None => cache \in {None, Baseline}

\* A version becomes active only when each counted Envoy has really accepted all
\* of its types, through stale acknowledgements, reconnects and resubmissions,
\* and when there is one (activateAcceptedCandidate).
ActivationEarned ==
    [][active' \notin {active, None} =>
           /\ counted' # {}
           /\ \A s \in counted' : \A t \in Required[active'] :
                  <<t, active'>> \in everApplied[NodeOf[s]]]_vars

\* A candidate is withdrawn only by the controller, by an Envoy that refused it,
\* or when its own timer ran out: never by the timeout, or the rejection, of an
\* earlier one (sequence, pruneProgress).
WithdrawnForCause ==
    [][candidate # None /\ candidate' = None /\ active' = active =>
           \/ commands' # commands \/ restarts' # restarts
           \/ timer = "fired" /\ <<candidate, sequence>> \in timeouts
           \/ \E s \in Streams, t \in Types : <<NodeOf[s], t, candidate>> \in Rejects]_vars

\* A rejection or a timeout puts the last active configuration back in the cache
\* (the publication chain of the architecture page, restoreFallback).
RollbackRestoresActive ==
    [][(/\ candidate # None /\ candidate' = None /\ active' = active
        /\ commands' = commands /\ restarts' = restarts
        /\ lastActive # None) => cache' = lastActive]_vars

Connected(s) == conn[s] = "open" /\ registered[NodeOf[s]] = s

\* An Envoy that is connected and runs the active configuration.
Serving(s) == /\ Connected(s)
              /\ active # None
              /\ \A t \in Types : applied[NodeOf[s]][t] = active

\* Every Envoy that serves accepted a new configuration before it is active
\* (the publication chain of the architecture page, activateAcceptedCandidate).
ActiveOnceAllAccepted ==
    [][active' \notin {active, None} =>
           \A s \in Streams : Serving(s) =>
               \A t \in Required[active'] : <<t, active'>> \in everApplied[NodeOf[s]]]_vars

-----------------------------------------------------------------------------
(* Liveness.                                                                *)

\* A candidate an Envoy is connected for ends: it becomes active or is withdrawn.
CandidateEnds ==
    \A v \in Versions :
        (candidate = v /\ \E s \in Streams : Connected(s))
            ~> (candidate # v \/ ~ \E s \in Streams : Connected(s))

\* In the end every connected Envoy runs what the cache serves, except the types
\* it refuses.
EnvoysConverge ==
    <>[](\A s \in Streams : Connected(s) =>
            \A t \in Types : \/ cache = None
                             \/ applied[NodeOf[s]][t] = cache
                             \/ <<NodeOf[s], t, cache>> \in Rejects)

-----------------------------------------------------------------------------
(* What the reconcile loop knows of Delivery.                               *)

Only(v) == {v} \ {None, Baseline}

Told(reason) == CASE reason = "Rejected" -> "rejected"
                  [] reason = "DeliveryFailed" -> "delivery"
                  [] OTHER -> "none"

Contract == INSTANCE Rollout WITH
    active <- Only(active),
    candidate <- Only(candidate),
    served <- Only(cache),
    failed <- Told(failure)

\* Delivery keeps the contract of Rollout: whatever is late, lost or cut short,
\* an offer that ends without success leaves Envoys with the active version, and
\* active versions come from offers only (handleSubmit, restoreFallback).
KeepsContract == Contract!Spec

=============================================================================
