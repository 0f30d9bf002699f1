--------------------------- MODULE DeliveryProofs ---------------------------
(***************************************************************************)
(* Proofs about Delivery, for any Envoys, streams, resource types and       *)
(* configurations, and any number of commands, failed publications and      *)
(* restarts: the types, that Envoys are served what Delivery tracks, that   *)
(* an activation is earned by acceptances that really happened, that a       *)
(* withdrawal has a cause of the candidate's own, in one life of the         *)
(* controller, that a rollback restores the active configuration, that an    *)
(* Envoy is served on the one stream it is registered on, and that           *)
(* Delivery implements Rollout, its contract with the reconcile loop.       *)
(***************************************************************************)
EXTENDS Delivery, TLAPS

(* The inductive invariants, as conjunctions of named parts.                *)

Links == [at : {"none", "watch", "queued", "sent"}, version : AnyVersion]

LoopTypes ==
    /\ candidate \in Versions \cup {None}
    /\ timer \in {"off", "armed", "fired"}
    /\ active \in Versions \cup {None}
    /\ failure \in {"none", "Rejected", "DeliveryFailed"}
    /\ lastActive \in Versions \cup {None}

StreamTypes ==
    /\ tracked \in SUBSET Streams
    /\ counted \in SUBSET tracked
    /\ progress \in [Streams -> SUBSET (Versions \X Types)]
    /\ accepted \in [Streams -> [Types -> AnyVersion]]

CacheTypes ==
    /\ cache \in AnyVersion
    /\ link \in [Streams -> [Types -> Links]]

CallbackTypes ==
    /\ registered \in [Nodes -> Streams \cup {None}]
    /\ conn \in [Streams -> {"new", "open", "broken", "closed"}]
    /\ pend \in [Streams -> Event]

EnvoyTypes ==
    /\ applied \in [Nodes -> [Types -> AnyVersion]]
    /\ everApplied \in [Nodes -> SUBSET (Types \X AnyVersion)]

CountTypes ==
    /\ sequence \in 0 .. MaxCommands
    /\ commands \in 0 .. MaxCommands
    /\ errors \in 0 .. MaxErrors
    /\ restarts \in 0 .. MaxRestarts
    /\ timeouts \in SUBSET (Versions \X (1 .. MaxCommands))

\* A candidate has a number, a running timer has a candidate, and every number
\* was given to a command.
CandidateNumbered ==
    /\ sequence <= commands
    /\ candidate # None => 1 <= sequence
    /\ timer # "off" => candidate # None

\* An event about a response names a resource type.
EventTyped == \A s \in Streams : pend[s].kind \in {"sent", "ack", "nack", "observed"} => pend[s].type \in Types

TypeInv ==
    /\ LoopTypes /\ StreamTypes /\ CacheTypes /\ CallbackTypes /\ EnvoyTypes /\ CountTypes
    /\ CandidateNumbered /\ EventTyped

LEMMA TypeInvTypes == TypeInv => TypeOK
BY DEF TypeInv, TypeOK, LoopTypes, StreamTypes, CacheTypes, CallbackTypes, EnvoyTypes,
       CountTypes, Links

-----------------------------------------------------------------------------
(* What the shared parts of the handlers do to the types.                   *)

LEMMA VersionFacts ==
    /\ None \in AnyVersion /\ Baseline \in AnyVersion /\ Versions \subseteq AnyVersion
    /\ None \notin Versions /\ Baseline \notin Versions /\ Baseline # None
BY NamesAssumption DEF AnyVersion

LEMMA WatchType ==
    ASSUME NEW v \in AnyVersion, NEW current \in AnyVersion
    PROVE  Watch(v, current) \in Links
BY DEF Watch, Links

LEMMA LinkFacts ==
    /\ NoLink \in Links
    /\ \A v \in AnyVersion : [at |-> "queued", version |-> v] \in Links
BY VersionFacts DEF NoLink, Links

LEMMA AnsweredType ==
    ASSUME CacheTypes, NEW v \in AnyVersion, NEW watches
    PROVE  Answered(v, watches) \in [Streams -> [Types -> Links]]
BY LinkFacts DEF Answered, CacheTypes

LEMMA ResumedType ==
    ASSUME CallbackTypes, NEW R, NEW current \in AnyVersion,
           NEW links \in [Streams -> [Types -> Links]]
    PROVE  Resumed(R, links, current) \in [Streams -> [Types -> Links]]
<1>1. \A s \in Streams : pend[s].accepted \in AnyVersion
    BY DEF CallbackTypes, Event
<1>2. \A s \in Streams : Watch(pend[s].accepted, current) \in Links
    BY <1>1, WatchType
<1>. QED
    BY <1>2 DEF Resumed

LEMMA PublishTypes ==
    ASSUME CacheTypes, CallbackTypes, errors \in 0 .. MaxErrors, NEW R, NEW v \in AnyVersion,
           PublishOK(v, R) \/ PublishCut(v, R)
    PROVE  CacheTypes' /\ cache' = v /\ errors' \in 0 .. MaxErrors
<1>1. CASE PublishOK(v, R)
    <2>1. link' \in [Streams -> [Types -> Links]]
        BY <1>1, AnsweredType, ResumedType DEF PublishOK
    <2>. QED
        BY <1>1, <2>1 DEF PublishOK, CacheTypes
<1>2. CASE PublishCut(v, R)
    <2>1. link' \in [Streams -> [Types -> Links]]
        <3>1. PICK watches \in SUBSET (Streams \X Types) :
                  link' = Resumed(R, Answered(v, watches), v)
            BY <1>2 DEF PublishCut
        <3>2. Answered(v, watches) \in [Streams -> [Types -> Links]]
            BY AnsweredType
        <3>. QED
            BY <3>1, <3>2, ResumedType
    <2>2. errors < MaxErrors /\ errors' = errors + 1
        BY <1>2 DEF PublishCut
    <2>3. errors' \in 0 .. MaxErrors
        BY <2>2, BoundsAssumption
    <2>. QED
        BY <1>2, <2>1, <2>3 DEF PublishCut, CacheTypes
<1>. QED
    BY <1>1, <1>2

LEMMA PrunedType ==
    ASSUME StreamTypes, NEW keep
    PROVE  Pruned(keep) \in [Streams -> SUBSET (Versions \X Types)]
BY DEF StreamTypes, Pruned

LEMMA SettleTypes ==
    ASSUME LoopTypes, NEW c \in Versions \cup {None}, NEW when \in {"off", "armed", "fired"},
           NEW why \in {"none", "Rejected", "DeliveryFailed"}, NEW streams,
           NEW prog \in [Streams -> SUBSET (Versions \X Types)],
           NEW acc \in [Streams -> [Types -> AnyVersion]],
           Settle(c, when, why, streams, prog, acc)
    PROVE  /\ LoopTypes'
           /\ counted' = streams
           /\ progress' \in [Streams -> SUBSET (Versions \X Types)]
           /\ accepted' = acc
           /\ candidate' \in {c, None}
           /\ candidate' = None /\ c # None => timer' = "off"
           /\ candidate' = c => timer' \in {when, "off"}
<1>1. CASE c # None /\ AllAccepted(c, streams, acc)
    BY <1>1 DEF Settle, LoopTypes
<1>2. CASE ~(c # None /\ AllAccepted(c, streams, acc))
    BY <1>2 DEF Settle, LoopTypes
<1>. QED
    BY <1>1, <1>2

LEMMA FallbackType == LoopTypes => Fallback \in AnyVersion
BY VersionFacts DEF LoopTypes, Fallback

LEMMA RestoreTypes ==
    ASSUME LoopTypes, StreamTypes, CacheTypes, CallbackTypes, errors \in 0 .. MaxErrors,
           NEW clean \in {"none", "Rejected", "DeliveryFailed"}, NEW R,
           RestoreFallback(clean, R)
    PROVE  /\ LoopTypes' /\ StreamTypes' /\ CacheTypes'
           /\ errors' \in 0 .. MaxErrors
           /\ candidate' = None /\ timer' = "off" /\ sequence' = sequence
<1>1. CacheTypes' /\ errors' \in 0 .. MaxErrors
    BY FallbackType, PublishTypes DEF RestoreFallback
<1>2. LoopTypes'
    BY DEF RestoreFallback, LoopTypes
<1>3. accepted' \in [Streams -> [Types -> AnyVersion]]
    BY VersionFacts DEF RestoreFallback
<1>4. StreamTypes'
    BY <1>3, PrunedType DEF RestoreFallback, StreamTypes
<1>. QED
    BY <1>1, <1>2, <1>4 DEF RestoreFallback

-----------------------------------------------------------------------------
(* Type correctness: one lemma per kind of step.                            *)

LEMMA TypeInit == Init => TypeInv
<1>. SUFFICES ASSUME Init PROVE TypeInv
    OBVIOUS
<1>1. LoopTypes /\ CandidateNumbered /\ CountTypes
    BY BoundsAssumption DEF Init, LoopTypes, CandidateNumbered, CountTypes
<1>2. StreamTypes /\ EnvoyTypes
    BY VersionFacts DEF Init, StreamTypes, EnvoyTypes
<1>3. CacheTypes
    BY VersionFacts, LinkFacts DEF Init, CacheTypes
<1>4. CallbackTypes /\ EventTyped
    BY VersionFacts DEF Init, CallbackTypes, EventTyped, Event, NoEvent
<1>. QED
    BY <1>1, <1>2, <1>3, <1>4 DEF TypeInv

LEMMA CommandTypes ==
    ASSUME TypeInv, Command
    PROVE  /\ CallbackTypes' /\ EnvoyTypes' /\ EventTyped'
           /\ commands' \in 0 .. MaxCommands /\ commands' = commands + 1
           /\ restarts' \in 0 .. MaxRestarts
           /\ timeouts' = timeouts
<1>1. UNCHANGED <<timeouts, registered, conn, pend, applied, everApplied, restarts>>
    BY DEF Command, xdsVars, envoyVars
<1>2. commands < MaxCommands /\ commands' = commands + 1
    BY DEF Command
<1>3. commands' \in 0 .. MaxCommands
    BY <1>2, BoundsAssumption DEF TypeInv, CountTypes
<1>. QED
    BY <1>1, <1>2, <1>3 DEF TypeInv, CallbackTypes, EnvoyTypes, EventTyped, CountTypes

\* A command that rolls back, or changes nothing but the failure.
LEMMA RollbackTypes ==
    ASSUME TypeInv, Command,
           \/ RestoreFallback("none", {})
           \/ /\ failure' = "none"
              /\ UNCHANGED <<candidate, timer, sequence, active, streamVars, cache, link,
                             lastActive, errors>>
    PROVE  TypeInv'
<1>0. /\ sequence \in 0 .. MaxCommands /\ commands \in 0 .. MaxCommands
      /\ errors \in 0 .. MaxErrors /\ sequence <= commands
    BY DEF TypeInv, CountTypes, CandidateNumbered
<1>1. CASE RestoreFallback("none", {})
    <2>1. /\ LoopTypes' /\ StreamTypes' /\ CacheTypes' /\ errors' \in 0 .. MaxErrors
          /\ candidate' = None /\ timer' = "off" /\ sequence' = sequence
        BY <1>1, <1>0, RestoreTypes DEF TypeInv
    <2>2. CountTypes' /\ CandidateNumbered'
        BY <1>0, <2>1, CommandTypes, BoundsAssumption DEF TypeInv, CountTypes, CandidateNumbered
    <2>. QED
        BY <2>1, <2>2, CommandTypes DEF TypeInv
<1>2. CASE /\ failure' = "none"
           /\ UNCHANGED <<candidate, timer, sequence, active, streamVars, cache, link,
                          lastActive, errors>>
    <2>1. LoopTypes' /\ StreamTypes' /\ CacheTypes'
        BY <1>2 DEF TypeInv, LoopTypes, StreamTypes, CacheTypes, streamVars
    <2>2. CountTypes' /\ CandidateNumbered'
        BY <1>0, <1>2, CommandTypes, BoundsAssumption DEF TypeInv, CountTypes, CandidateNumbered
    <2>. QED
        BY <2>1, <2>2, CommandTypes DEF TypeInv
<1>. QED
    BY <1>1, <1>2

LEMMA SubmitTypes ==
    ASSUME TypeInv, NEW v \in Versions, Submit(v)
    PROVE  TypeInv'
<1>0. /\ sequence \in 0 .. MaxCommands /\ commands \in 0 .. MaxCommands
      /\ errors \in 0 .. MaxErrors /\ sequence <= commands
      /\ candidate \in Versions \cup {None} /\ timer \in {"off", "armed", "fired"}
      /\ failure \in {"none", "Rejected", "DeliveryFailed"}
      /\ counted \in SUBSET tracked
      /\ progress \in [Streams -> SUBSET (Versions \X Types)]
      /\ accepted \in [Streams -> [Types -> AnyVersion]]
      /\ LoopTypes /\ StreamTypes
    BY DEF TypeInv, CountTypes, CandidateNumbered, LoopTypes, StreamTypes
<1>1. CASE SubmitActive(v)
    BY <1>1, RollbackTypes DEF SubmitActive
<1>2. CASE SubmitCandidate(v)
    <2>1. /\ Command /\ Settle(candidate, timer, failure, counted, progress, accepted)
          /\ UNCHANGED <<sequence, tracked, cache, link, errors>>
        BY <1>2 DEF SubmitCandidate
    <2>2. /\ LoopTypes' /\ counted' = counted
          /\ progress' \in [Streams -> SUBSET (Versions \X Types)]
          /\ accepted' = accepted
          /\ candidate' \in {candidate, None}
          /\ candidate' = None /\ candidate # None => timer' = "off"
          /\ candidate' = candidate => timer' \in {timer, "off"}
        BY ZenonT(30), <1>0, <2>1, SettleTypes
    <2>3. StreamTypes' /\ CacheTypes'
        BY <1>0, <2>1, <2>2 DEF TypeInv, StreamTypes, CacheTypes
    <2>4. CountTypes' /\ CandidateNumbered'
        BY <1>0, <2>1, <2>2, CommandTypes, BoundsAssumption DEF TypeInv, CountTypes, CandidateNumbered
    <2>. QED
        BY <2>1, <2>2, <2>3, <2>4, CommandTypes DEF TypeInv
<1>3. CASE SubmitUnpublished(v)
    <2>1. /\ Command /\ errors < MaxErrors /\ errors' = errors + 1 /\ failure' = "DeliveryFailed"
          /\ UNCHANGED <<candidate, timer, sequence, active, tracked, counted, progress,
                         accepted, cache, link, lastActive>>
        BY <1>3 DEF SubmitUnpublished, streamVars
    <2>2. LoopTypes' /\ StreamTypes' /\ CacheTypes'
        BY <2>1 DEF TypeInv, LoopTypes, StreamTypes, CacheTypes
    <2>3. errors' \in 0 .. MaxErrors
        BY <1>0, <2>1, BoundsAssumption
    <2>4. CountTypes' /\ CandidateNumbered'
        BY <1>0, <2>1, <2>3, CommandTypes, BoundsAssumption DEF TypeInv, CountTypes, CandidateNumbered
    <2>. QED
        BY <2>1, <2>2, <2>4, CommandTypes DEF TypeInv
<1>4. CASE SubmitNew(v)
    <2>1. Command /\ sequence' = sequence + 1 /\ tracked' = tracked
        BY <1>4 DEF SubmitNew
    <2>2. PublishOK(v, {}) \/ PublishCut(v, {})
        BY <1>4 DEF SubmitNew
    <2>3. CacheTypes' /\ errors' \in 0 .. MaxErrors
        BY <1>0, <2>2, PublishTypes, VersionFacts DEF TypeInv
    <2>4. /\ LoopTypes' /\ counted' = counted
          /\ progress' \in [Streams -> SUBSET (Versions \X Types)]
          /\ accepted' = accepted
          /\ timer' = "off"
        <3>1. CASE Settle(v, "off", "none", counted, Pruned({active, v}), accepted)
            <4>1. Pruned({active, v}) \in [Streams -> SUBSET (Versions \X Types)]
                BY <1>0, PrunedType
            <4>. QED
                BY <1>0, <3>1, <4>1, SettleTypes
        <3>2. CASE /\ candidate' = v
                   /\ timer' = "off"
                   /\ failure' = "DeliveryFailed"
                   /\ progress' = Pruned({active, v})
                   /\ UNCHANGED <<active, counted, accepted, lastActive>>
            <4>1. Pruned({active, v}) \in [Streams -> SUBSET (Versions \X Types)]
                BY <1>0, PrunedType
            <4>. QED
                BY <1>0, <3>2, <4>1 DEF LoopTypes
        <3>. QED
            BY <1>4, <3>1, <3>2 DEF SubmitNew
    <2>5. StreamTypes'
        BY <1>0, <2>1, <2>4 DEF StreamTypes
    <2>6. CountTypes' /\ CandidateNumbered'
        BY <1>0, <2>1, <2>3, <2>4, CommandTypes, BoundsAssumption DEF TypeInv, CountTypes, CandidateNumbered
    <2>. QED
        BY <2>1, <2>3, <2>4, <2>5, <2>6, CommandTypes DEF TypeInv
<1>. QED
    BY <1>1, <1>2, <1>3, <1>4 DEF Submit

LEMMA CancelTypes ==
    ASSUME TypeInv, CancelCandidate
    PROVE  TypeInv'
BY RollbackTypes DEF CancelCandidate

LEMMA TimerTypes ==
    ASSUME TypeInv, TimerFires
    PROVE  TypeInv'
<1>1. /\ timer = "armed" /\ timer' = "fired"
      /\ timeouts' = timeouts \cup {<<candidate, sequence>>}
      /\ UNCHANGED <<candidate, sequence, active, failure, tracked, counted, progress,
                     accepted, cache, registered, conn, pend, link, applied, everApplied,
                     lastActive, commands, errors, restarts>>
    BY DEF TimerFires, streamVars, xdsVars, envoyVars, bounds
<1>2. candidate \in Versions /\ sequence \in 1 .. MaxCommands
    BY <1>1, BoundsAssumption DEF TypeInv, LoopTypes, CountTypes, CandidateNumbered
<1>3. CountTypes'
    BY <1>1, <1>2 DEF TypeInv, CountTypes
<1>4. LoopTypes' /\ CandidateNumbered'
    BY <1>1, <1>2, NamesAssumption DEF TypeInv, LoopTypes, CandidateNumbered
<1>5. StreamTypes' /\ CacheTypes' /\ CallbackTypes' /\ EnvoyTypes' /\ EventTyped'
    BY <1>1 DEF TypeInv, StreamTypes, CacheTypes, CallbackTypes, EnvoyTypes, EventTyped
<1>. QED
    BY <1>3, <1>4, <1>5 DEF TypeInv

LEMMA ACKTimeoutTypes ==
    ASSUME TypeInv, NEW v, NEW n, ACKTimeout(v, n)
    PROVE  TypeInv'
<1>0. /\ sequence \in 0 .. MaxCommands /\ commands \in 0 .. MaxCommands
      /\ errors \in 0 .. MaxErrors /\ sequence <= commands
    BY DEF TypeInv, CountTypes, CandidateNumbered
<1>1. /\ timeouts' = timeouts \ {<<v, n>>}
      /\ UNCHANGED <<registered, conn, pend, applied, everApplied, commands, restarts>>
    BY DEF ACKTimeout, xdsVars, envoyVars
<1>2. CallbackTypes' /\ EnvoyTypes' /\ EventTyped'
    BY <1>1 DEF TypeInv, CallbackTypes, EnvoyTypes, EventTyped
<1>3. CASE RestoreFallback("DeliveryFailed", {})
    <2>1. /\ LoopTypes' /\ StreamTypes' /\ CacheTypes' /\ errors' \in 0 .. MaxErrors
          /\ candidate' = None /\ timer' = "off" /\ sequence' = sequence
        BY <1>3, <1>0, RestoreTypes DEF TypeInv
    <2>2. CountTypes' /\ CandidateNumbered'
        BY <1>0, <1>1, <2>1, BoundsAssumption DEF TypeInv, CountTypes, CandidateNumbered
    <2>. QED
        BY <1>2, <2>1, <2>2 DEF TypeInv
<1>4. CASE UNCHANGED <<candidateVars, streamVars, cache, link, lastActive, errors>>
    <2>1. LoopTypes' /\ StreamTypes' /\ CacheTypes'
        BY <1>4 DEF TypeInv, LoopTypes, StreamTypes, CacheTypes, candidateVars, streamVars
    <2>2. CountTypes' /\ CandidateNumbered'
        BY <1>1, <1>4 DEF TypeInv, CountTypes, CandidateNumbered, candidateVars
    <2>. QED
        BY <1>2, <2>1, <2>2 DEF TypeInv
<1>. QED
    BY <1>3, <1>4 DEF ACKTimeout

\* What a callback does: one stream's event, its links, or its life.
LEMMA RaiseType ==
    ASSUME CallbackTypes, NEW s \in Streams,
           NEW kind \in {"none", "opened", "closed", "sent", "observed", "ack", "nack"},
           NEW t \in Types \cup {None}, NEW v \in AnyVersion, NEW acc \in AnyVersion,
           Raise(s, kind, t, v, acc)
    PROVE  pend' \in [Streams -> Event]
BY DEF CallbackTypes, Raise, Event

LEMMA RaiseTyped ==
    ASSUME CallbackTypes, EventTyped, NEW s \in Streams, NEW kind, NEW t, NEW v, NEW acc,
           kind \in {"sent", "ack", "nack", "observed"} => t \in Types,
           Raise(s, kind, t, v, acc)
    PROVE  EventTyped'
BY DEF CallbackTypes, EventTyped, Raise

\* What the callbacks and the Envoy do on one stream.
Callback(s) ==
    \/ OnStreamOpen(s) \/ Break(s) \/ EventLost(s) \/ OnStreamClosed(s)
    \/ \E t \in Types : Request(s, t) \/ RequestRefused(s, t) \/ OnStreamResponse(s, t) \/ Reply(s, t)

LEMMA CallbackTypesKept ==
    ASSUME TypeInv, NEW s \in Streams, Callback(s)
    PROVE  TypeInv'
<1>0. /\ link \in [Streams -> [Types -> Links]]
      /\ \A u \in Streams, r \in Types : link[u][r] \in Links
      /\ \A u \in Streams, r \in Types : link[u][r].version \in AnyVersion
      /\ applied \in [Nodes -> [Types -> AnyVersion]]
      /\ everApplied \in [Nodes -> SUBSET (Types \X AnyVersion)]
      /\ NodeOf[s] \in Nodes
      /\ \A n \in Nodes, r \in Types : applied[n][r] \in AnyVersion
      /\ cache \in AnyVersion
      /\ conn \in [Streams -> {"new", "open", "broken", "closed"}]
      /\ pend \in [Streams -> Event]
      /\ registered \in [Nodes -> Streams \cup {None}]
      /\ CacheTypes /\ CallbackTypes /\ EnvoyTypes /\ EventTyped
    BY ShapeAssumption DEF TypeInv, CacheTypes, EnvoyTypes, CallbackTypes, Links
<1>1. /\ UNCHANGED <<candidate, timer, sequence, active, failure, tracked, counted, progress,
                     accepted, timeouts, cache, lastActive, commands, errors, restarts>>
    BY DEF Callback, OnStreamOpen, Request, RequestRefused, OnStreamResponse, Reply, Break, EventLost,
           OnStreamClosed, candidateVars, streamVars, bounds
<1>2. LoopTypes' /\ StreamTypes' /\ CountTypes' /\ CandidateNumbered'
    BY <1>1 DEF TypeInv, LoopTypes, StreamTypes, CountTypes, CandidateNumbered
<1>. SUFFICES CacheTypes' /\ CallbackTypes' /\ EnvoyTypes' /\ EventTyped'
    BY <1>2 DEF TypeInv
<1>3. CASE OnStreamOpen(s)
    <2>1. /\ conn' = [conn EXCEPT ![s] = "open"] /\ Raise(s, "opened", None, None, None)
          /\ UNCHANGED <<registered, link, applied, everApplied>>
        BY <1>3 DEF OnStreamOpen, envoyVars
    <2>2. pend' \in [Streams -> Event] /\ EventTyped'
        BY <1>0, <2>1, RaiseType, RaiseTyped, VersionFacts
    <2>. QED
        BY <1>0, <1>1, <2>1, <2>2 DEF CacheTypes, CallbackTypes, EnvoyTypes
<1>4. ASSUME NEW t \in Types, RequestRefused(s, t)
      PROVE  CacheTypes' /\ CallbackTypes' /\ EnvoyTypes' /\ EventTyped'
    <2>1. /\ conn' = [conn EXCEPT ![s] = "broken"]
          /\ UNCHANGED <<registered, pend, link, applied, everApplied>>
        BY <1>4 DEF RequestRefused, envoyVars
    <2>. QED
        BY <1>0, <1>1, <2>1 DEF CacheTypes, CallbackTypes, EnvoyTypes, EventTyped
<1>5. ASSUME NEW t \in Types, Request(s, t)
      PROVE  CacheTypes' /\ CallbackTypes' /\ EnvoyTypes' /\ EventTyped'
    <2>1. /\ registered' = [registered EXCEPT ![NodeOf[s]] = s]
          /\ UNCHANGED <<conn, applied, everApplied>>
        BY <1>5 DEF Request, envoyVars
    <2>2. registered' \in [Nodes -> Streams \cup {None}]
        BY <1>0, <2>1
    <2>3. CASE applied[NodeOf[s]][t] = None
        <3>1. /\ link' = [link EXCEPT ![s][t] = IF @.at = "sent" THEN @ ELSE Watch(None, cache)]
              /\ pend' = pend
            BY <1>5, <2>3 DEF Request
        <3>2. Watch(None, cache) \in Links
            BY <1>0, WatchType, VersionFacts
        <3>3. link' \in [Streams -> [Types -> Links]]
            BY <1>0, <3>1, <3>2
        <3>. QED
            BY <1>0, <1>1, <2>1, <2>2, <3>1, <3>3
               DEF CacheTypes, CallbackTypes, EnvoyTypes, EventTyped
    <2>4. CASE applied[NodeOf[s]][t] # None
        <3>1. Raise(s, "observed", t, None, applied[NodeOf[s]][t]) /\ link' = link
            BY <1>5, <2>4 DEF Request
        <3>2. pend' \in [Streams -> Event] /\ EventTyped'
            BY <1>0, <3>1, RaiseType, RaiseTyped, VersionFacts
        <3>. QED
            BY <1>0, <1>1, <2>1, <2>2, <3>1, <3>2 DEF CacheTypes, CallbackTypes, EnvoyTypes
    <2>. QED
        BY <2>3, <2>4
<1>6. ASSUME NEW t \in Types, OnStreamResponse(s, t)
      PROVE  CacheTypes' /\ CallbackTypes' /\ EnvoyTypes' /\ EventTyped'
    <2>1. /\ link' = [link EXCEPT ![s][t].at = "sent"]
          /\ Raise(s, "sent", t, link[s][t].version, None)
          /\ UNCHANGED <<registered, conn, applied, everApplied>>
        BY <1>6 DEF OnStreamResponse, xdsVars, envoyVars
    <2>2. [link[s][t] EXCEPT !.at = "sent"] \in Links
        BY SMTT(30), <1>0 DEF Links
    <2>3. link' \in [Streams -> [Types -> Links]]
        BY <1>0, <2>1, <2>2
    <2>4. pend' \in [Streams -> Event] /\ EventTyped'
        BY <1>0, <2>1, RaiseType, RaiseTyped, VersionFacts
    <2>. QED
        BY <1>0, <1>1, <2>1, <2>3, <2>4 DEF CacheTypes, CallbackTypes, EnvoyTypes
<1>7. ASSUME NEW t \in Types, Reply(s, t)
      PROVE  CacheTypes' /\ CallbackTypes' /\ EnvoyTypes' /\ EventTyped'
    <2>1. link' = [link EXCEPT ![s][t] = NoLink] /\ UNCHANGED <<registered, conn>>
        BY <1>7 DEF Reply, xdsVars
    <2>2. CacheTypes'
        BY <1>0, <1>1, <2>1, LinkFacts DEF CacheTypes
    <2>3. CASE <<NodeOf[s], t, link[s][t].version>> \in Rejects
        <3>1. /\ Raise(s, "nack", t, link[s][t].version, applied[NodeOf[s]][t])
              /\ UNCHANGED <<applied, everApplied>>
            BY <1>7, <2>3 DEF Reply, envoyVars
        <3>2. pend' \in [Streams -> Event] /\ EventTyped'
            BY <1>0, <3>1, RaiseType, RaiseTyped
        <3>. QED
            BY <1>0, <2>1, <2>2, <3>1, <3>2 DEF CallbackTypes, EnvoyTypes
    <2>4. CASE <<NodeOf[s], t, link[s][t].version>> \notin Rejects
        <3>1. /\ Raise(s, "ack", t, link[s][t].version, link[s][t].version)
              /\ applied' = [applied EXCEPT ![NodeOf[s]][t] = link[s][t].version]
              /\ everApplied' = [everApplied EXCEPT ![NodeOf[s]] = @ \cup {<<t, link[s][t].version>>}]
            BY <1>7, <2>4 DEF Reply
        <3>2. pend' \in [Streams -> Event] /\ EventTyped'
            BY <1>0, <3>1, RaiseType, RaiseTyped
        <3>3. EnvoyTypes'
            BY <1>0, <3>1 DEF EnvoyTypes
        <3>. QED
            BY <1>0, <2>1, <2>2, <3>2, <3>3 DEF CallbackTypes
    <2>. QED
        BY <2>3, <2>4
<1>8. CASE Break(s)
    <2>. DEFINE n == NodeOf[s]
    <2>1. /\ conn' = [conn EXCEPT ![s] = "broken"]
          /\ link' = [link EXCEPT ![s] = [r \in Types |-> NoLink]]
          /\ UNCHANGED <<registered, pend>>
        BY <1>8 DEF Break
    <2>2. PICK heard \in SUBSET Types :
              /\ applied' = [applied EXCEPT ![n] =
                     [r \in Types |-> IF r \in heard THEN link[s][r].version ELSE @[r]]]
              /\ everApplied' = [everApplied EXCEPT ![n] =
                     @ \cup {<<r, link[s][r].version>> : r \in heard}]
        BY <1>8 DEF Break
    <2>3. applied' \in [Nodes -> [Types -> AnyVersion]]
        BY <1>0, <2>2
    <2>4. {<<r, link[s][r].version>> : r \in heard} \subseteq Types \X AnyVersion
        BY <1>0
    <2>5. everApplied' \in [Nodes -> SUBSET (Types \X AnyVersion)]
        BY <1>0, <2>2, <2>4
    <2>6. link' \in [Streams -> [Types -> Links]]
        BY <1>0, <2>1, LinkFacts
    <2>. QED
        BY <1>0, <1>1, <2>1, <2>3, <2>5, <2>6
           DEF CacheTypes, CallbackTypes, EnvoyTypes, EventTyped
<1>9. CASE EventLost(s)
    <2>1. /\ pend' = [pend EXCEPT ![s] = NoEvent]
          /\ UNCHANGED <<registered, conn, link, applied, everApplied>>
        BY <1>9 DEF EventLost, xdsVars, envoyVars
    <2>2. NoEvent \in Event /\ NoEvent.kind = "none"
        BY VersionFacts DEF NoEvent, Event
    <2>. QED
        BY <1>0, <1>1, <2>1, <2>2 DEF CacheTypes, CallbackTypes, EnvoyTypes, EventTyped
<1>10. CASE OnStreamClosed(s)
    <2>1. /\ conn' = [conn EXCEPT ![s] = "closed"]
          /\ registered' = [registered EXCEPT ![NodeOf[s]] = IF @ = s THEN None ELSE @]
          /\ Raise(s, "closed", None, None, None)
          /\ UNCHANGED <<link, applied, everApplied>>
        BY <1>10 DEF OnStreamClosed, envoyVars
    <2>2. pend' \in [Streams -> Event] /\ EventTyped'
        BY <1>0, <2>1, RaiseType, RaiseTyped, VersionFacts
    <2>. QED
        BY <1>0, <1>1, <2>1, <2>2 DEF CacheTypes, CallbackTypes, EnvoyTypes
<1>. QED
    BY <1>3, <1>4, <1>5, <1>6, <1>7, <1>8, <1>9, <1>10 DEF Callback

\* What the loop does with an event changes no callback state but the event.
LEMMA HandleTypes ==
    ASSUME TypeInv, NEW s \in Streams, NEW kind, Handle(s, kind)
    PROVE  /\ CallbackTypes' /\ EnvoyTypes' /\ EventTyped'
           /\ commands' = commands /\ restarts' = restarts /\ timeouts' = timeouts
<1>1. /\ pend' = [pend EXCEPT ![s] = NoEvent]
      /\ UNCHANGED <<timeouts, registered, conn, applied, everApplied, commands, restarts>>
    BY DEF Handle, xdsVars, envoyVars
<1>2. NoEvent \in Event /\ NoEvent.kind = "none"
    BY VersionFacts DEF NoEvent, Event
<1>. QED
    BY <1>1, <1>2 DEF TypeInv, CallbackTypes, EnvoyTypes, EventTyped

\* A handler that settles: the types follow from those of what it is given.
LEMMA SettledTypes ==
    ASSUME TypeInv, NEW s \in Streams, NEW kind, Handle(s, kind), NEW streams,
           NEW prog \in [Streams -> SUBSET (Versions \X Types)],
           NEW acc \in [Streams -> [Types -> AnyVersion]],
           Settle(candidate, timer, failure, streams, prog, acc),
           tracked' \in SUBSET Streams, streams \in SUBSET tracked',
           CacheTypes', UNCHANGED <<sequence, errors>>
    PROVE  TypeInv'
<1>0. /\ LoopTypes /\ candidate \in Versions \cup {None} /\ timer \in {"off", "armed", "fired"}
      /\ failure \in {"none", "Rejected", "DeliveryFailed"}
    BY DEF TypeInv, LoopTypes
<1>1. /\ LoopTypes' /\ counted' = streams
      /\ progress' \in [Streams -> SUBSET (Versions \X Types)]
      /\ accepted' = acc
      /\ candidate' \in {candidate, None}
      /\ candidate' = None /\ candidate # None => timer' = "off"
      /\ candidate' = candidate => timer' \in {timer, "off"}
    BY ZenonT(30), <1>0, SettleTypes
<1>2. StreamTypes'
    BY <1>1 DEF StreamTypes
<1>3. CountTypes' /\ CandidateNumbered'
    BY <1>1, HandleTypes DEF TypeInv, CountTypes, CandidateNumbered
<1>. QED
    BY <1>1, <1>2, <1>3, HandleTypes DEF TypeInv

LEMMA EventTypesKept ==
    ASSUME TypeInv, NEW s \in Streams, HandleEvent(s)
    PROVE  TypeInv'
<1>0. /\ sequence \in 0 .. MaxCommands /\ commands \in 0 .. MaxCommands
      /\ errors \in 0 .. MaxErrors /\ sequence <= commands
      /\ candidate \in Versions \cup {None} /\ timer \in {"off", "armed", "fired"}
      /\ tracked \in SUBSET Streams /\ counted \in SUBSET tracked
      /\ progress \in [Streams -> SUBSET (Versions \X Types)]
      /\ accepted \in [Streams -> [Types -> AnyVersion]]
      /\ link \in [Streams -> [Types -> Links]]
      /\ cache \in AnyVersion
      /\ LoopTypes /\ StreamTypes /\ CacheTypes /\ CallbackTypes
    BY DEF TypeInv, CountTypes, CandidateNumbered, LoopTypes, StreamTypes, CacheTypes
<1>1. CASE StreamOpened(s)
    <2>1. /\ Handle(s, "opened") /\ tracked' = tracked \cup {s}
          /\ UNCHANGED <<candidate, timer, sequence, active, failure, counted, progress,
                         accepted, cache, link, lastActive, errors>>
        BY <1>1 DEF StreamOpened, candidateVars
    <2>2. LoopTypes' /\ StreamTypes' /\ CacheTypes'
        BY <2>1 DEF TypeInv, LoopTypes, StreamTypes, CacheTypes
    <2>3. CountTypes' /\ CandidateNumbered'
        BY <2>1, HandleTypes DEF TypeInv, CountTypes, CandidateNumbered
    <2>. QED
        BY <2>1, <2>2, <2>3, HandleTypes DEF TypeInv
<1>2. CASE StreamClosed(s)
    <2>1. /\ Handle(s, "closed") /\ tracked' = tracked \ {s}
          /\ Settle(candidate, timer, failure, counted \ {s}, [progress EXCEPT ![s] = {}],
                    [accepted EXCEPT ![s] = [t \in Types |-> None]])
          /\ UNCHANGED <<sequence, cache, link, errors>>
        BY <1>2 DEF StreamClosed
    <2>2. /\ [progress EXCEPT ![s] = {}] \in [Streams -> SUBSET (Versions \X Types)]
          /\ [accepted EXCEPT ![s] = [t \in Types |-> None]] \in [Streams -> [Types -> AnyVersion]]
        BY <1>0, VersionFacts
    <2>3. CacheTypes' /\ tracked' \in SUBSET Streams /\ counted \ {s} \in SUBSET tracked'
        BY <1>0, <2>1 DEF CacheTypes
    <2>. QED
        BY <2>1, <2>2, <2>3, SettledTypes
<1>3. CASE ResponseSent(s)
    <2>1. /\ Handle(s, "sent")
          /\ UNCHANGED <<candidate, sequence, active, failure, tracked, accepted, cache,
                         link, lastActive, errors>>
        BY <1>3 DEF ResponseSent
    <2>2. pend[s].type \in Types
        BY <2>1 DEF Handle, TypeInv, EventTyped
    <2>3. CASE candidate # None /\ pend[s].version = candidate /\ s \in tracked
        <3>1. /\ counted' = counted \cup {s}
              /\ progress' = [progress EXCEPT ![s] = @ \cup {<<candidate, pend[s].type>>}]
              /\ timer' = IF timer = "off" THEN "armed" ELSE timer
            BY <1>3, <2>3 DEF ResponseSent
        <3>2. progress' \in [Streams -> SUBSET (Versions \X Types)]
            BY <1>0, <2>2, <2>3, <3>1
        <3>3. LoopTypes' /\ StreamTypes' /\ CacheTypes'
            BY <1>0, <2>1, <2>3, <3>1, <3>2 DEF LoopTypes, StreamTypes, CacheTypes
        <3>4. CountTypes' /\ CandidateNumbered'
            BY <2>1, <2>3, HandleTypes DEF TypeInv, CountTypes, CandidateNumbered
        <3>. QED
            BY <2>1, <3>3, <3>4, HandleTypes DEF TypeInv
    <2>4. CASE ~(candidate # None /\ pend[s].version = candidate /\ s \in tracked)
        <3>1. UNCHANGED <<counted, progress, timer>>
            BY <1>3, <2>4 DEF ResponseSent
        <3>3. LoopTypes' /\ StreamTypes' /\ CacheTypes'
            BY <1>0, <2>1, <3>1 DEF LoopTypes, StreamTypes, CacheTypes
        <3>4. CountTypes' /\ CandidateNumbered'
            BY <2>1, <3>1, HandleTypes DEF TypeInv, CountTypes, CandidateNumbered
        <3>. QED
            BY <2>1, <3>3, <3>4, HandleTypes DEF TypeInv
    <2>. QED
        BY <2>3, <2>4
<1>4. CASE AcceptedVersionObserved(s)
    <2>1. /\ Handle(s, "observed") /\ link' = Resumed({s}, link, cache)
          /\ UNCHANGED <<sequence, tracked, cache, errors>>
        BY <1>4 DEF AcceptedVersionObserved
    <2>2. CacheTypes'
        BY <1>0, <2>1, ResumedType DEF CacheTypes
    <2>3. CASE s \in tracked
        <3>1. Settle(candidate, timer, failure, counted \cup {s}, progress,
                     [accepted EXCEPT ![s][pend[s].type] = pend[s].accepted])
            BY <1>4, <2>3 DEF AcceptedVersionObserved, Accept
        <3>2. pend[s].accepted \in AnyVersion
            BY <1>0 DEF CallbackTypes, Event
        <3>3. [accepted EXCEPT ![s][pend[s].type] = pend[s].accepted]
                  \in [Streams -> [Types -> AnyVersion]]
            BY <1>0, <3>2
        <3>4. tracked' \in SUBSET Streams /\ counted \cup {s} \in SUBSET tracked'
            BY <1>0, <2>1, <2>3
        <3>. QED
            BY <2>1, <1>0, <2>2, <3>1, <3>3, <3>4, SettledTypes
    <2>4. CASE s \notin tracked
        <3>1. UNCHANGED <<candidate, timer, active, failure, counted, progress, accepted, lastActive>>
            BY <1>4, <2>4 DEF AcceptedVersionObserved
        <3>2. LoopTypes' /\ StreamTypes'
            BY <1>0, <2>1, <3>1 DEF LoopTypes, StreamTypes
        <3>3. CountTypes' /\ CandidateNumbered'
            BY <2>1, <3>1, HandleTypes DEF TypeInv, CountTypes, CandidateNumbered
        <3>. QED
            BY <2>1, <2>2, <3>2, <3>3, HandleTypes DEF TypeInv
    <2>. QED
        BY <2>3, <2>4
<1>5. CASE ACK(s)
    <2>1. /\ Handle(s, "ack") /\ link' = Resumed({s}, link, cache)
          /\ UNCHANGED <<sequence, tracked, cache, errors>>
        BY <1>5 DEF ACK
    <2>2. CacheTypes'
        BY <1>0, <2>1, ResumedType DEF CacheTypes
    <2>3. CASE SentOfCandidate(s)
        <3>1. Settle(candidate, timer, failure, counted \cup {s}, progress,
                     [accepted EXCEPT ![s][pend[s].type] = candidate])
            BY <1>5, <2>3 DEF ACK, Accept
        <3>2. s \in tracked
            BY <2>3 DEF SentOfCandidate
        <3>3. [accepted EXCEPT ![s][pend[s].type] = candidate]
                  \in [Streams -> [Types -> AnyVersion]]
            BY <1>0, VersionFacts
        <3>4. tracked' \in SUBSET Streams /\ counted \cup {s} \in SUBSET tracked'
            BY <1>0, <2>1, <3>2
        <3>. QED
            BY <2>1, <1>0, <2>2, <3>1, <3>3, <3>4, SettledTypes
    <2>4. CASE ~SentOfCandidate(s)
        <3>1. /\ Meet(s)
              /\ UNCHANGED <<candidate, timer, active, failure, progress, accepted, lastActive>>
            BY <1>5, <2>4 DEF ACK
        <3>2. LoopTypes' /\ StreamTypes'
            BY <1>0, <2>1, <3>1 DEF LoopTypes, StreamTypes, Meet
        <3>3. CountTypes' /\ CandidateNumbered'
            BY <2>1, <3>1, HandleTypes DEF TypeInv, CountTypes, CandidateNumbered
        <3>. QED
            BY <2>1, <2>2, <3>2, <3>3, HandleTypes DEF TypeInv
    <2>. QED
        BY <2>3, <2>4
<1>6. CASE NACK(s)
    <2>1. Handle(s, "nack")
        BY <1>6 DEF NACK
    <2>3. CASE SentOfCandidate(s)
        <3>1. RestoreFallback("Rejected", {s})
            BY <1>6, <2>3 DEF NACK
        <3>2. /\ LoopTypes' /\ StreamTypes' /\ CacheTypes' /\ errors' \in 0 .. MaxErrors
              /\ candidate' = None /\ timer' = "off" /\ sequence' = sequence
            BY <3>1, <1>0, RestoreTypes
        <3>3. CountTypes' /\ CandidateNumbered'
            BY <1>0, <2>1, <3>2, HandleTypes DEF TypeInv, CountTypes, CandidateNumbered
        <3>. QED
            BY <2>1, <3>2, <3>3, HandleTypes DEF TypeInv
    <2>4. CASE ~SentOfCandidate(s)
        <3>1. /\ Meet(s) /\ link' = Resumed({s}, link, cache)
              /\ UNCHANGED <<candidate, timer, sequence, active, failure, tracked, progress,
                             accepted, cache, lastActive, errors>>
            BY <1>6, <2>4 DEF NACK, candidateVars
        <3>2. CacheTypes'
            BY <1>0, <3>1, ResumedType DEF CacheTypes
        <3>3. LoopTypes' /\ StreamTypes'
            BY <1>0, <3>1 DEF LoopTypes, StreamTypes, Meet
        <3>4. CountTypes' /\ CandidateNumbered'
            BY <2>1, <3>1, HandleTypes DEF TypeInv, CountTypes, CandidateNumbered
        <3>. QED
            BY <2>1, <3>2, <3>3, <3>4, HandleTypes DEF TypeInv
    <2>. QED
        BY <2>3, <2>4
<1>. QED
    BY <1>1, <1>2, <1>3, <1>4, <1>5, <1>6 DEF HandleEvent

LEMMA RestartTypes ==
    ASSUME TypeInv, Restart
    PROVE  TypeInv'
<1>1. restarts' \in 0 .. MaxRestarts
    <2>1. restarts < MaxRestarts /\ restarts' = restarts + 1
        BY DEF Restart
    <2>. QED
        BY <2>1, BoundsAssumption DEF TypeInv, CountTypes
<1>2. /\ candidate' = None /\ timer' = "off" /\ sequence' = 0
      /\ active' = None /\ failure' = "none" /\ timeouts' = {}
      /\ UNCHANGED <<lastActive, applied, everApplied, commands, errors>>
    BY DEF Restart, envoyVars
<1>8. CountTypes' /\ CandidateNumbered'
    <2>1. commands \in 0 .. MaxCommands /\ errors \in 0 .. MaxErrors
        BY DEF TypeInv, CountTypes
    <2>. QED
        BY <1>1, <1>2, <2>1, BoundsAssumption DEF CountTypes, CandidateNumbered
<1>3. LoopTypes' /\ EnvoyTypes'
    BY <1>2 DEF TypeInv, LoopTypes, EnvoyTypes
<1>4. StreamTypes'
    BY VersionFacts DEF Restart, StreamTypes
<1>5. CacheTypes'
    BY VersionFacts, LinkFacts DEF Restart, CacheTypes
<1>6. conn' \in [Streams -> {"new", "open", "broken", "closed"}]
    BY DEF Restart
<1>7. CallbackTypes' /\ EventTyped'
    BY <1>6, VersionFacts DEF Restart, CallbackTypes, EventTyped, Event, NoEvent
<1>. QED
    BY <1>3, <1>4, <1>5, <1>7, <1>8 DEF TypeInv

LEMMA TypeStutter ==
    ASSUME TypeInv, UNCHANGED vars
    PROVE  TypeInv'
<1>1. UNCHANGED <<candidate, timer, sequence, active, failure, tracked, counted, progress,
                  accepted, timeouts, cache, registered, conn, pend, link, applied,
                  everApplied, lastActive, commands, errors, restarts>>
    BY DEF vars, candidateVars, streamVars, xdsVars, envoyVars, bounds
<1>2. LoopTypes' /\ StreamTypes' /\ CacheTypes' /\ CallbackTypes'
    BY <1>1 DEF TypeInv, LoopTypes, StreamTypes, CacheTypes, CallbackTypes
<1>3. EnvoyTypes' /\ CountTypes' /\ CandidateNumbered' /\ EventTyped'
    BY <1>1 DEF TypeInv, EnvoyTypes, CountTypes, CandidateNumbered, EventTyped
<1>. QED
    BY <1>2, <1>3 DEF TypeInv

LEMMA Steps ==
    Next => \/ \E v \in Versions : Submit(v)
            \/ CancelCandidate \/ TimerFires \/ Restart
            \/ \E v, n : ACKTimeout(v, n)
            \/ \E s \in Streams : HandleEvent(s) \/ Callback(s)
BY DEF Next, Callback

LEMMA TypeStep == TypeInv /\ [Next]_vars => TypeInv'
<1>. SUFFICES ASSUME TypeInv, Next PROVE TypeInv'
    BY TypeStutter
<1>. QED
    BY Steps, SubmitTypes, CancelTypes, TimerTypes, RestartTypes, ACKTimeoutTypes,
       EventTypesKept, CallbackTypesKept

LEMMA TypeInvariant == Spec => []TypeInv
<1>. QED
    BY TypeInit, TypeStep, PTL DEF Spec

\* The state keeps its types; among them that every stream that counts is
\* tracked, and that no candidate number exceeds the commands (deliveryState).
THEOREM TypeCorrect == Spec => []TypeOK
BY TypeInvariant, TypeInvTypes, PTL

-----------------------------------------------------------------------------
(* Envoys are served what Delivery tracks.                                  *)

LEMMA SettleServes ==
    ASSUME ServesWhatItTracks, TypeInv, NEW c \in Versions \cup {None}, NEW when, NEW why,
           NEW streams, NEW prog, NEW acc, Settle(c, when, why, streams, prog, acc),
           c # None => cache' = c, c = None => cache' = cache /\ candidate = None
    PROVE  ServesWhatItTracks'
<1>1. CASE c # None /\ AllAccepted(c, streams, acc)
    BY <1>1 DEF Settle, ServesWhatItTracks
<1>2. CASE ~(c # None /\ AllAccepted(c, streams, acc))
    BY <1>2 DEF Settle, ServesWhatItTracks
<1>. QED
    BY <1>1, <1>2

LEMMA RestoreServes ==
    ASSUME NEW clean, NEW R, RestoreFallback(clean, R)
    PROVE  ServesWhatItTracks'
<1>1. cache' = Fallback /\ candidate' = None /\ active' = active
    BY DEF RestoreFallback, PublishOK, PublishCut
<1>. QED
    BY <1>1 DEF Fallback, ServesWhatItTracks

LEMMA KeptServes ==
    ASSUME ServesWhatItTracks, UNCHANGED <<candidate, active, cache>>
    PROVE  ServesWhatItTracks'
BY DEF ServesWhatItTracks

LEMMA SubmitServes ==
    ASSUME ServesWhatItTracks, TypeInv, NEW v \in Versions, Submit(v)
    PROVE  ServesWhatItTracks'
<1>1. CASE SubmitActive(v)
    BY <1>1, RestoreServes, KeptServes DEF SubmitActive
<1>2. CASE SubmitCandidate(v)
    <2>1. /\ candidate = v /\ cache' = cache
          /\ Settle(candidate, timer, failure, counted, progress, accepted)
        BY <1>2 DEF SubmitCandidate
    <2>2. candidate \in Versions \cup {None} /\ candidate # None => cache' = candidate
        BY <2>1, VersionFacts DEF ServesWhatItTracks
    <2>. QED
        BY <2>1, <2>2, VersionFacts, SettleServes
<1>3. CASE SubmitUnpublished(v)
    BY <1>3, KeptServes DEF SubmitUnpublished
<1>4. CASE SubmitNew(v)
    <2>1. cache' = v /\ v # None
        BY <1>4, VersionFacts DEF SubmitNew, PublishOK, PublishCut
    <2>2. CASE Settle(v, "off", "none", counted, Pruned({active, v}), accepted)
        BY <2>1, <2>2, SettleServes
    <2>3. CASE candidate' = v
        BY <2>1, <2>3 DEF ServesWhatItTracks
    <2>. QED
        BY <1>4, <2>2, <2>3 DEF SubmitNew
<1>. QED
    BY <1>1, <1>2, <1>3, <1>4 DEF Submit

LEMMA EventServes ==
    ASSUME ServesWhatItTracks, TypeInv, NEW s \in Streams, HandleEvent(s)
    PROVE  ServesWhatItTracks'
<1>0. /\ candidate \in Versions \cup {None}
      /\ candidate # None => cache = candidate
    BY DEF TypeInv, LoopTypes, ServesWhatItTracks
<1>1. CASE StreamOpened(s)
    BY <1>1, KeptServes DEF StreamOpened, candidateVars
<1>2. CASE StreamClosed(s)
    <2>1. /\ Settle(candidate, timer, failure, counted \ {s}, [progress EXCEPT ![s] = {}],
                    [accepted EXCEPT ![s] = [t \in Types |-> None]])
          /\ cache' = cache
        BY <1>2 DEF StreamClosed
    <2>. QED
        BY <1>0, <2>1, SettleServes
<1>3. CASE ResponseSent(s)
    BY <1>3, KeptServes DEF ResponseSent
<1>4. CASE AcceptedVersionObserved(s)
    <2>1. cache' = cache
        BY <1>4 DEF AcceptedVersionObserved
    <2>2. CASE s \in tracked
        <3>1. Settle(candidate, timer, failure, counted \cup {s}, progress,
                     [accepted EXCEPT ![s][pend[s].type] = pend[s].accepted])
            BY <1>4, <2>2 DEF AcceptedVersionObserved, Accept
        <3>. QED
            BY <1>0, <2>1, <3>1, SettleServes
    <2>3. CASE s \notin tracked
        BY <1>4, <2>1, <2>3, KeptServes DEF AcceptedVersionObserved
    <2>. QED
        BY <2>2, <2>3
<1>5. CASE ACK(s)
    <2>1. cache' = cache
        BY <1>5 DEF ACK
    <2>2. CASE SentOfCandidate(s)
        <3>1. Settle(candidate, timer, failure, counted \cup {s}, progress,
                     [accepted EXCEPT ![s][pend[s].type] = candidate])
            BY <1>5, <2>2 DEF ACK, Accept
        <3>. QED
            BY <1>0, <2>1, <3>1, SettleServes
    <2>3. CASE ~SentOfCandidate(s)
        BY <1>5, <2>1, <2>3, KeptServes DEF ACK
    <2>. QED
        BY <2>2, <2>3
<1>6. CASE NACK(s)
    <2>1. CASE SentOfCandidate(s)
        BY <1>6, <2>1, RestoreServes DEF NACK
    <2>2. CASE ~SentOfCandidate(s)
        BY <1>6, <2>2, KeptServes DEF NACK, candidateVars
    <2>. QED
        BY <2>1, <2>2
<1>. QED
    BY <1>1, <1>2, <1>3, <1>4, <1>5, <1>6 DEF HandleEvent

LEMMA CallbackKeeps ==
    ASSUME NEW s, Callback(s)
    PROVE  UNCHANGED <<candidate, active, counted, accepted, cache>>
BY DEF Callback, OnStreamOpen, Request, RequestRefused, OnStreamResponse, Reply, Break,
       EventLost, OnStreamClosed, candidateVars, streamVars

LEMMA ServesStep == ServesWhatItTracks /\ TypeInv /\ [Next]_vars => ServesWhatItTracks'
<1>. SUFFICES ASSUME ServesWhatItTracks, TypeInv, [Next]_vars PROVE ServesWhatItTracks'
    OBVIOUS
<1>1. ASSUME NEW v \in Versions, Submit(v) PROVE ServesWhatItTracks'
    BY <1>1, SubmitServes
<1>2. CASE CancelCandidate
    BY <1>2, RestoreServes, KeptServes DEF CancelCandidate
<1>3. CASE TimerFires
    BY <1>3, KeptServes DEF TimerFires
<1>4. CASE Restart
    BY <1>4 DEF Restart, ServesWhatItTracks
<1>5. ASSUME NEW v, NEW n, ACKTimeout(v, n) PROVE ServesWhatItTracks'
    <2>1. CASE RestoreFallback("DeliveryFailed", {})
        BY <2>1, RestoreServes
    <2>2. CASE UNCHANGED <<candidateVars, streamVars, cache, link, lastActive, errors>>
        BY <2>2, KeptServes DEF candidateVars
    <2>. QED
        BY <1>5, <2>1, <2>2 DEF ACKTimeout
<1>6. ASSUME NEW s \in Streams, HandleEvent(s) PROVE ServesWhatItTracks'
    BY <1>6, EventServes
<1>7. ASSUME NEW s \in Streams, Callback(s) PROVE ServesWhatItTracks'
    BY <1>7, CallbackKeeps, KeptServes
<1>8. CASE UNCHANGED vars
    BY <1>8, KeptServes DEF vars, candidateVars
<1>. QED
    BY <1>1, <1>2, <1>3, <1>4, <1>5, <1>6, <1>7, <1>8, Steps

\* Whatever fails or is cut half way, the cache holds the version Delivery
\* believes to be published (restoreFallback, HasVersion).
THEOREM CacheFollowsDelivery == Spec => []ServesWhatItTracks
<1>1. Init => ServesWhatItTracks
    BY DEF Init, ServesWhatItTracks
<1>. QED
    BY <1>1, ServesStep, TypeInvariant, PTL DEF Spec

-----------------------------------------------------------------------------
(* An activation is earned.  An accepted version travels from the Envoy     *)
(* through an event, possibly a stale one, into the state of its stream; at *)
(* every stop it is one the Envoy really accepted.                          *)

Ever(n, t, v) == <<t, v>> \in everApplied[n]

AppliedEarned == \A n \in Nodes, t \in Types : applied[n][t] = None \/ Ever(n, t, applied[n][t])

EventEarned ==
    \A s \in Streams :
        /\ pend[s].kind = "ack" => Ever(NodeOf[s], pend[s].type, pend[s].version)
        /\ pend[s].kind = "observed" => Ever(NodeOf[s], pend[s].type, pend[s].accepted)

\* The versions acc says were accepted have been.
Earned(acc) == \A s \in Streams, t \in Types : acc[s][t] = None \/ Ever(NodeOf[s], t, acc[s][t])

EarnedInv == AppliedEarned /\ EventEarned /\ Earned(accepted)

\* What ActivationEarned says of a step.
EarnedStep ==
    active' \notin {active, None} =>
        /\ counted' # {}
        /\ \A s \in counted' : \A t \in Required[active'] : Ever(NodeOf[s], t, active')

LEMMA SettleEarned ==
    ASSUME TypeInv, NEW c \in Versions \cup {None}, NEW when, NEW why,
           NEW streams \in SUBSET Streams, NEW prog, NEW acc, Earned(acc),
           Settle(c, when, why, streams, prog, acc), everApplied' = everApplied
    PROVE  EarnedStep /\ Earned(accepted)'
<1>1. accepted' = acc /\ counted' = streams
    BY DEF Settle
<1>2. Earned(accepted)'
    BY <1>1 DEF Earned, Ever
<1>3. CASE c # None /\ AllAccepted(c, streams, acc)
    <2>1. active' = c /\ streams # {} /\ \A s \in streams, t \in Required[c] : acc[s][t] = c
        BY <1>3 DEF Settle, AllAccepted
    <2>2. c \in Versions /\ Required[c] \subseteq Types
        BY <1>3, ShapeAssumption
    <2>3. \A s \in streams, t \in Required[c] : Ever(NodeOf[s], t, c)
        BY <1>3, <2>1, <2>2 DEF Earned
    <2>. QED
        BY <1>1, <1>2, <2>1, <2>3 DEF EarnedStep
<1>4. CASE ~(c # None /\ AllAccepted(c, streams, acc))
    <2>1. active' = active
        BY <1>4 DEF Settle
    <2>. QED
        BY <1>2, <2>1 DEF EarnedStep
<1>. QED
    BY <1>3, <1>4

LEMMA RestoreEarned ==
    ASSUME TypeInv, NEW clean, NEW R, RestoreFallback(clean, R)
    PROVE  EarnedStep /\ Earned(accepted)'
BY DEF RestoreFallback, EarnedStep, Earned

LEMMA KeptEarned ==
    ASSUME EarnedInv, UNCHANGED <<active, accepted, everApplied>>
    PROVE  EarnedStep /\ Earned(accepted)'
BY DEF EarnedInv, Earned, EarnedStep, Ever

\* A step that leaves the Envoys and the events alone.
LEMMA EnvoysKeepEarned ==
    ASSUME EarnedInv, UNCHANGED <<applied, everApplied, pend>>
    PROVE  AppliedEarned' /\ EventEarned'
BY DEF EarnedInv, AppliedEarned, EventEarned, Ever

LEMMA SubmitEarned ==
    ASSUME EarnedInv, TypeInv, NEW v \in Versions, Submit(v)
    PROVE  EarnedStep /\ EarnedInv'
<1>0. UNCHANGED <<applied, everApplied, pend>>
    BY DEF Submit, SubmitActive, SubmitCandidate, SubmitUnpublished, SubmitNew,
           Command, envoyVars
<1>1. candidate \in Versions \cup {None} /\ counted \in SUBSET Streams /\ Earned(accepted)
    BY DEF TypeInv, LoopTypes, StreamTypes, EarnedInv
<1>. SUFFICES EarnedStep /\ Earned(accepted)'
    BY <1>0, EnvoysKeepEarned DEF EarnedInv
<1>2. CASE SubmitActive(v)
    BY <1>0, <1>2, RestoreEarned, KeptEarned DEF SubmitActive, streamVars
<1>3. CASE SubmitCandidate(v)
    <2>1. Settle(candidate, timer, failure, counted, progress, accepted)
        BY <1>3 DEF SubmitCandidate
    <2>. QED
        BY <1>0, <1>1, <2>1, SettleEarned
<1>4. CASE SubmitUnpublished(v)
    BY <1>0, <1>4, KeptEarned DEF SubmitUnpublished, streamVars
<1>5. CASE SubmitNew(v)
    <2>1. CASE Settle(v, "off", "none", counted, Pruned({active, v}), accepted)
        BY <1>0, <1>1, <2>1, SettleEarned
    <2>2. CASE UNCHANGED <<active, counted, accepted, lastActive>>
        BY <1>0, <2>2, KeptEarned
    <2>. QED
        BY <1>5, <2>1, <2>2 DEF SubmitNew
<1>. QED
    BY <1>2, <1>3, <1>4, <1>5 DEF Submit

LEMMA EventHandledEarned ==
    ASSUME EarnedInv, TypeInv, NEW s \in Streams, HandleEvent(s)
    PROVE  EarnedStep /\ EarnedInv'
<1>0. /\ candidate \in Versions \cup {None}
      /\ counted \in SUBSET Streams
      /\ accepted \in [Streams -> [Types -> AnyVersion]]
      /\ pend \in [Streams -> Event]
      /\ Earned(accepted)
    BY DEF TypeInv, LoopTypes, StreamTypes, CallbackTypes, EarnedInv
<1>1. /\ pend' = [pend EXCEPT ![s] = NoEvent]
      /\ UNCHANGED <<applied, everApplied>>
    BY DEF HandleEvent, StreamOpened, StreamClosed, ResponseSent, AcceptedVersionObserved,
           ACK, NACK, Handle, envoyVars
<1>2. AppliedEarned'
    BY <1>1 DEF EarnedInv, AppliedEarned, Ever
<1>3. EventEarned'
    <2>1. NoEvent.kind = "none"
        BY DEF NoEvent
    <2>. QED
        BY <1>0, <1>1, <2>1 DEF EarnedInv, EventEarned, Ever
<1>. SUFFICES EarnedStep /\ Earned(accepted)'
    BY <1>2, <1>3 DEF EarnedInv
<1>4. CASE StreamOpened(s)
    BY <1>1, <1>4, KeptEarned DEF StreamOpened, candidateVars
<1>5. CASE StreamClosed(s)
    <2>1. Settle(candidate, timer, failure, counted \ {s}, [progress EXCEPT ![s] = {}],
                 [accepted EXCEPT ![s] = [t \in Types |-> None]])
        BY <1>5 DEF StreamClosed
    <2>2. Earned([accepted EXCEPT ![s] = [t \in Types |-> None]])
        BY <1>0 DEF Earned
    <2>. QED
        BY <1>0, <1>1, <2>1, <2>2, SettleEarned
<1>6. CASE ResponseSent(s)
    BY <1>1, <1>6, KeptEarned DEF ResponseSent
<1>7. CASE AcceptedVersionObserved(s)
    <2>1. CASE s \in tracked
        <3>1. Settle(candidate, timer, failure, counted \cup {s}, progress,
                     [accepted EXCEPT ![s][pend[s].type] = pend[s].accepted])
            BY <1>7, <2>1 DEF AcceptedVersionObserved, Accept
        <3>2. Ever(NodeOf[s], pend[s].type, pend[s].accepted)
            BY <1>7 DEF AcceptedVersionObserved, Handle, EarnedInv, EventEarned
        <3>3. Earned([accepted EXCEPT ![s][pend[s].type] = pend[s].accepted])
            BY <1>0, <3>2 DEF Earned
        <3>. QED
            BY <1>0, <1>1, <3>1, <3>3, SettleEarned
    <2>2. CASE s \notin tracked
        BY <1>1, <1>7, <2>2, KeptEarned DEF AcceptedVersionObserved
    <2>. QED
        BY <2>1, <2>2
<1>8. CASE ACK(s)
    <2>1. CASE SentOfCandidate(s)
        <3>1. Settle(candidate, timer, failure, counted \cup {s}, progress,
                     [accepted EXCEPT ![s][pend[s].type] = candidate])
            BY <1>8, <2>1 DEF ACK, Accept
        <3>2. Ever(NodeOf[s], pend[s].type, candidate)
            BY <1>8, <2>1 DEF ACK, Handle, SentOfCandidate, EarnedInv, EventEarned
        <3>3. Earned([accepted EXCEPT ![s][pend[s].type] = candidate])
            BY <1>0, <3>2 DEF Earned
        <3>. QED
            BY <1>0, <1>1, <3>1, <3>3, SettleEarned
    <2>2. CASE ~SentOfCandidate(s)
        BY <1>1, <1>8, <2>2, KeptEarned DEF ACK
    <2>. QED
        BY <2>1, <2>2
<1>9. CASE NACK(s)
    <2>1. CASE SentOfCandidate(s)
        BY <1>9, <2>1, RestoreEarned DEF NACK
    <2>2. CASE ~SentOfCandidate(s)
        BY <1>1, <1>9, <2>2, KeptEarned DEF NACK, candidateVars
    <2>. QED
        BY <2>1, <2>2
<1>. QED
    BY <1>4, <1>5, <1>6, <1>7, <1>8, <1>9 DEF HandleEvent

\* Only Reply and Break make an Envoy accept, and they record it; an event is
\* raised with what the Envoy accepted.
LEMMA CallbackEarned ==
    ASSUME EarnedInv, TypeInv, NEW s \in Streams, Callback(s)
    PROVE  EarnedStep /\ EarnedInv'
<1>0. /\ applied \in [Nodes -> [Types -> AnyVersion]]
      /\ everApplied \in [Nodes -> SUBSET (Types \X AnyVersion)]
      /\ pend \in [Streams -> Event]
      /\ NodeOf \in [Streams -> Nodes]
      /\ AppliedEarned /\ EventEarned /\ Earned(accepted)
    BY ShapeAssumption DEF TypeInv, EnvoyTypes, CallbackTypes, EarnedInv
<1>1. active' = active /\ accepted' = accepted
    BY CallbackKeeps
<1>. SUFFICES AppliedEarned' /\ EventEarned' /\ Earned(accepted)'
    BY <1>1 DEF EarnedStep, EarnedInv
<1>2. CASE OnStreamOpen(s) \/ OnStreamClosed(s)
    <2>1. PICK kind \in {"opened", "closed"} : Raise(s, kind, None, None, None)
        BY <1>2 DEF OnStreamOpen, OnStreamClosed
    <2>2. UNCHANGED <<applied, everApplied>>
        BY <1>2 DEF OnStreamOpen, OnStreamClosed, envoyVars
    <2>. QED
        BY <1>0, <1>1, <2>1, <2>2 DEF AppliedEarned, EventEarned, Earned, Ever, Raise
<1>3. CASE EventLost(s)
    <2>1. /\ pend' = [pend EXCEPT ![s] = NoEvent] /\ NoEvent.kind = "none"
          /\ UNCHANGED <<applied, everApplied>>
        BY <1>3 DEF EventLost, NoEvent, envoyVars
    <2>. QED
        BY <1>0, <1>1, <2>1 DEF AppliedEarned, EventEarned, Earned, Ever
<1>4. ASSUME NEW t \in Types, RequestRefused(s, t)
      PROVE  AppliedEarned' /\ EventEarned' /\ Earned(accepted)'
    BY <1>0, <1>1, <1>4 DEF RequestRefused, envoyVars, AppliedEarned, EventEarned, Earned, Ever
<1>5. ASSUME NEW t \in Types, Request(s, t)
      PROVE  AppliedEarned' /\ EventEarned' /\ Earned(accepted)'
    <2>1. UNCHANGED <<applied, everApplied>>
        BY <1>5 DEF Request, envoyVars
    <2>2. CASE applied[NodeOf[s]][t] = None
        <3>1. pend' = pend
            BY <1>5, <2>2 DEF Request
        <3>. QED
            BY <1>0, <1>1, <2>1, <3>1 DEF AppliedEarned, EventEarned, Earned, Ever
    <2>3. CASE applied[NodeOf[s]][t] # None
        <3>1. Raise(s, "observed", t, None, applied[NodeOf[s]][t])
            BY <1>5, <2>3 DEF Request
        <3>2. Ever(NodeOf[s], t, applied[NodeOf[s]][t])
            BY <1>0, <2>3 DEF AppliedEarned
        <3>. QED
            BY <1>0, <1>1, <2>1, <3>1, <3>2 DEF AppliedEarned, EventEarned, Earned, Ever, Raise
    <2>. QED
        BY <2>2, <2>3
<1>6. ASSUME NEW t \in Types, OnStreamResponse(s, t)
      PROVE  AppliedEarned' /\ EventEarned' /\ Earned(accepted)'
    <2>1. /\ Raise(s, "sent", t, link[s][t].version, None)
          /\ UNCHANGED <<applied, everApplied>>
        BY <1>6 DEF OnStreamResponse, envoyVars
    <2>. QED
        BY <1>0, <1>1, <2>1 DEF AppliedEarned, EventEarned, Earned, Ever, Raise
<1>7. ASSUME NEW t \in Types, Reply(s, t)
      PROVE  AppliedEarned' /\ EventEarned' /\ Earned(accepted)'
    <2>1. CASE <<NodeOf[s], t, link[s][t].version>> \in Rejects
        <3>1. /\ Raise(s, "nack", t, link[s][t].version, applied[NodeOf[s]][t])
              /\ UNCHANGED <<applied, everApplied>>
            BY <1>7, <2>1 DEF Reply, envoyVars
        <3>. QED
            BY <1>0, <1>1, <3>1 DEF AppliedEarned, EventEarned, Earned, Ever, Raise
    <2>2. CASE <<NodeOf[s], t, link[s][t].version>> \notin Rejects
        <3>. DEFINE v == link[s][t].version
        <3>1. /\ Raise(s, "ack", t, v, v)
              /\ applied' = [applied EXCEPT ![NodeOf[s]][t] = v]
              /\ everApplied' = [everApplied EXCEPT ![NodeOf[s]] = @ \cup {<<t, v>>}]
            BY <1>7, <2>2 DEF Reply
        <3>. HIDE DEF v
        <3>2. /\ \A n \in Nodes : everApplied[n] \subseteq everApplied'[n]
              /\ <<t, v>> \in everApplied'[NodeOf[s]]
            BY <1>0, <3>1
        <3>3. AppliedEarned'
            BY <1>0, <3>1, <3>2 DEF AppliedEarned, Ever
        <3>4. EventEarned'
            BY <1>0, <3>1, <3>2 DEF EventEarned, Ever, Raise
        <3>5. Earned(accepted)'
            BY <1>0, <1>1, <3>2 DEF Earned, Ever
        <3>. QED
            BY <3>3, <3>4, <3>5
    <2>. QED
        BY <2>1, <2>2
<1>8. CASE Break(s)
    <2>. DEFINE n == NodeOf[s]
    <2>1. pend' = pend
        BY <1>8 DEF Break
    <2>2. PICK heard \in SUBSET Types :
              /\ applied' = [applied EXCEPT ![n] =
                     [r \in Types |-> IF r \in heard THEN link[s][r].version ELSE @[r]]]
              /\ everApplied' = [everApplied EXCEPT ![n] =
                     @ \cup {<<r, link[s][r].version>> : r \in heard}]
        BY <1>8 DEF Break
    <2>3. /\ \A m \in Nodes : everApplied[m] \subseteq everApplied'[m]
          /\ \A r \in heard : <<r, link[s][r].version>> \in everApplied'[n]
        BY <1>0, <2>2
    <2>4. AppliedEarned'
        BY <1>0, <2>2, <2>3 DEF AppliedEarned, Ever
    <2>5. EventEarned' /\ Earned(accepted)'
        BY <1>0, <1>1, <2>1, <2>3 DEF EventEarned, Earned, Ever
    <2>. QED
        BY <2>4, <2>5
<1>. QED
    BY <1>2, <1>3, <1>4, <1>5, <1>6, <1>7, <1>8 DEF Callback

LEMMA EarnedStepHolds == EarnedInv /\ TypeInv /\ [Next]_vars => EarnedInv' /\ [EarnedStep]_vars
<1>. SUFFICES ASSUME EarnedInv, TypeInv, [Next]_vars PROVE EarnedInv' /\ EarnedStep
    OBVIOUS
<1>1. ASSUME NEW v \in Versions, Submit(v) PROVE EarnedInv' /\ EarnedStep
    BY <1>1, SubmitEarned
<1>2. CASE TimerFires
    <2>1. UNCHANGED <<active, accepted, applied, everApplied, pend>>
        BY <1>2 DEF TimerFires, streamVars, envoyVars
    <2>. QED
        BY <2>1, KeptEarned, EnvoysKeepEarned DEF EarnedInv
<1>3. CASE Restart
    <2>1. /\ active' = None /\ accepted' = [s \in Streams |-> [t \in Types |-> None]]
          /\ pend' = [s \in Streams |-> NoEvent] /\ NoEvent.kind = "none"
          /\ UNCHANGED <<applied, everApplied>>
        BY <1>3 DEF Restart, NoEvent, envoyVars
    <2>. QED
        BY <2>1 DEF EarnedInv, EarnedStep, AppliedEarned, EventEarned, Earned, Ever
<1>4. ASSUME NEW v, NEW n, ACKTimeout(v, n) PROVE EarnedInv' /\ EarnedStep
    <2>1. UNCHANGED <<applied, everApplied, pend>>
        BY <1>4 DEF ACKTimeout, envoyVars
    <2>2. CASE RestoreFallback("DeliveryFailed", {})
        BY <2>1, <2>2, RestoreEarned, EnvoysKeepEarned DEF EarnedInv
    <2>3. CASE UNCHANGED <<candidateVars, streamVars, cache, link, lastActive, errors>>
        BY <2>1, <2>3, KeptEarned, EnvoysKeepEarned DEF EarnedInv, candidateVars, streamVars
    <2>. QED
        BY <1>4, <2>2, <2>3 DEF ACKTimeout
<1>5. ASSUME NEW s \in Streams, HandleEvent(s) PROVE EarnedInv' /\ EarnedStep
    BY <1>5, EventHandledEarned
<1>6. ASSUME NEW s \in Streams, Callback(s) PROVE EarnedInv' /\ EarnedStep
    BY <1>6, CallbackEarned
<1>7. CASE UNCHANGED vars
    <2>1. UNCHANGED <<active, accepted, applied, everApplied, pend>>
        BY <1>7 DEF vars, candidateVars, streamVars, envoyVars
    <2>. QED
        BY <2>1, KeptEarned, EnvoysKeepEarned DEF EarnedInv
<1>8. CASE CancelCandidate
    <2>1. UNCHANGED <<applied, everApplied, pend>>
        BY <1>8 DEF CancelCandidate, Command, envoyVars
    <2>. QED
        BY <1>8, <2>1, RestoreEarned, KeptEarned, EnvoysKeepEarned
           DEF CancelCandidate, EarnedInv, streamVars
<1>. QED
    BY <1>1, <1>2, <1>3, <1>4, <1>5, <1>6, <1>7, <1>8, Steps

\* No stale acknowledgement, reconnection or resubmission makes a version active
\* that some counted Envoy never accepted (activateAcceptedCandidate).
THEOREM ActivationsEarned == Spec => ActivationEarned
<1>1. Init => EarnedInv
    BY DEF Init, EarnedInv, AppliedEarned, EventEarned, Earned, Ever, NoEvent
<1>2. [EarnedStep]_vars =>
        [active' \notin {active, None} =>
            /\ counted' # {}
            /\ \A s \in counted' : \A t \in Required[active'] :
                   <<t, active'>> \in everApplied[NodeOf[s]]]_vars
    BY DEF EarnedStep, Ever
<1>. QED
    BY <1>1, <1>2, EarnedStepHolds, TypeInvariant, PTL DEF Spec, ActivationEarned

-----------------------------------------------------------------------------
(* A candidate is withdrawn for a cause of its own.                         *)

\* A candidate is not the active version, its number is newer than those of
\* the timeouts that wait unless its timer fired, and until a restart the
\* version that became active last is active.
CauseInv ==
    /\ candidate # None => candidate # active
    /\ \A late \in timeouts : late[2] <= sequence
    /\ candidate # None /\ <<candidate, sequence>> \in timeouts => timer = "fired"
    /\ restarts = 0 => active = lastActive

\* Who reports a rejection has rejected.
RejectionTrue ==
    \A s \in Streams :
        pend[s].kind = "nack" => <<NodeOf[s], pend[s].type, pend[s].version>> \in Rejects

CauseStep ==
    candidate # None /\ candidate' = None /\ active' = active =>
        \/ commands' # commands \/ restarts' # restarts
        \/ timer = "fired" /\ <<candidate, sequence>> \in timeouts
        \/ \E s \in Streams, t \in Types : <<NodeOf[s], t, candidate>> \in Rejects

LEMMA SettleCause ==
    ASSUME CauseInv, NEW why, NEW streams, NEW prog, NEW acc,
           Settle(candidate, timer, why, streams, prog, acc),
           UNCHANGED <<timeouts, sequence, restarts>>
    PROVE  CauseInv' /\ CauseStep
<1>1. CASE candidate # None /\ AllAccepted(candidate, streams, acc)
    BY <1>1 DEF Settle, CauseInv, CauseStep
<1>2. CASE ~(candidate # None /\ AllAccepted(candidate, streams, acc))
    BY <1>2 DEF Settle, CauseInv, CauseStep
<1>. QED
    BY <1>1, <1>2

LEMMA RestoreCause ==
    ASSUME CauseInv, NEW clean, NEW R, RestoreFallback(clean, R),
           timeouts' \subseteq timeouts, UNCHANGED restarts
    PROVE  CauseInv'
BY DEF RestoreFallback, CauseInv

LEMMA KeptCause ==
    ASSUME CauseInv, UNCHANGED <<candidate, sequence, active, lastActive, restarts>>,
           timer = "fired" => timer' = "fired", timeouts' \subseteq timeouts
    PROVE  CauseInv' /\ CauseStep
BY DEF CauseInv, CauseStep

LEMMA CommandCause ==
    ASSUME TypeInv, Command
    PROVE  CauseStep /\ UNCHANGED <<timeouts, pend, restarts>>
BY DEF TypeInv, CountTypes, Command, CauseStep

LEMMA SubmitCause ==
    ASSUME CauseInv, TypeInv, NEW v \in Versions, Submit(v)
    PROVE  CauseInv' /\ CauseStep /\ pend' = pend
<1>0. Command
    BY DEF Submit, SubmitActive, SubmitCandidate, SubmitUnpublished, SubmitNew
<1>1. CASE SubmitActive(v)
    BY <1>0, <1>1, CommandCause, RestoreCause, KeptCause DEF SubmitActive
<1>2. CASE SubmitCandidate(v)
    BY <1>0, <1>2, CommandCause, SettleCause DEF SubmitCandidate
<1>3. CASE SubmitUnpublished(v)
    BY <1>0, <1>3, CommandCause, KeptCause DEF SubmitUnpublished
<1>4. CASE SubmitNew(v)
    <2>1. /\ sequence' = sequence + 1 /\ v # active /\ v # None
          /\ UNCHANGED <<timeouts, restarts>>
        BY <1>0, <1>4, CommandCause, VersionFacts DEF SubmitNew
    <2>2. /\ \A late \in timeouts : late[2] <= sequence'
          /\ <<v, sequence'>> \notin timeouts
        BY <2>1 DEF CauseInv, TypeInv, CountTypes
    <2>3. Settle(v, "off", "none", counted, Pruned({active, v}), accepted) => CauseInv'
        BY <2>1, <2>2 DEF Settle, CauseInv
    <2>4. candidate' = v /\ UNCHANGED <<active, lastActive>> => CauseInv'
        BY <2>1, <2>2 DEF CauseInv
    <2>5. CauseInv'
        BY <1>4, <2>3, <2>4 DEF SubmitNew
    <2>. QED
        BY <1>0, <2>5, CommandCause
<1>. QED
    BY <1>1, <1>2, <1>3, <1>4 DEF Submit

LEMMA HandledCause ==
    ASSUME CauseInv, TypeInv, RejectionTrue, NEW s \in Streams, HandleEvent(s)
    PROVE  CauseInv' /\ CauseStep /\ RejectionTrue'
<1>0. UNCHANGED <<timeouts, restarts>> /\ RejectionTrue'
    <2>1. UNCHANGED <<timeouts, restarts>> /\ pend' = [pend EXCEPT ![s] = NoEvent]
        BY DEF HandleEvent, StreamOpened, StreamClosed, ResponseSent, AcceptedVersionObserved,
               ACK, NACK, Handle
    <2>. QED
        BY <2>1 DEF RejectionTrue, NoEvent, TypeInv, CallbackTypes
<1>1. CASE StreamOpened(s)
    BY <1>0, <1>1, KeptCause DEF StreamOpened, candidateVars
<1>2. CASE StreamClosed(s)
    BY <1>0, <1>2, SettleCause DEF StreamClosed
<1>3. CASE ResponseSent(s)
    BY <1>0, <1>3, KeptCause DEF ResponseSent
<1>4. CASE AcceptedVersionObserved(s)
    BY <1>0, <1>4, SettleCause, KeptCause DEF AcceptedVersionObserved, Accept
<1>5. CASE ACK(s)
    BY <1>0, <1>5, SettleCause, KeptCause DEF ACK, Accept
<1>6. CASE NACK(s)
    <2>1. CASE SentOfCandidate(s)
        <3>1. <<NodeOf[s], pend[s].type, candidate>> \in Rejects /\ pend[s].type \in Types
            BY <1>6, <2>1 DEF NACK, Handle, SentOfCandidate, RejectionTrue, TypeInv, EventTyped
        <3>. QED
            BY <1>0, <1>6, <2>1, <3>1, RestoreCause DEF NACK, CauseStep
    <2>2. CASE ~SentOfCandidate(s)
        BY <1>0, <1>6, <2>2, KeptCause DEF NACK, candidateVars
    <2>. QED
        BY <2>1, <2>2
<1>. QED
    BY <1>0, <1>1, <1>2, <1>3, <1>4, <1>5, <1>6 DEF HandleEvent

LEMMA CallbackCause ==
    ASSUME CauseInv, TypeInv, RejectionTrue, NEW s \in Streams, Callback(s)
    PROVE  CauseInv' /\ CauseStep /\ RejectionTrue'
<1>1. UNCHANGED <<candidateVars, timeouts, lastActive, restarts>>
    BY DEF Callback, OnStreamOpen, Request, RequestRefused, OnStreamResponse, Reply, Break,
           EventLost, OnStreamClosed, bounds
<1>2. pend \in [Streams -> Event]
    BY DEF TypeInv, CallbackTypes
<1>3. UNCHANGED pend => RejectionTrue'
    BY DEF RejectionTrue
<1>4. ASSUME NEW kind, NEW t, NEW v, NEW acc, Raise(s, kind, t, v, acc),
             kind = "nack" => <<NodeOf[s], t, v>> \in Rejects
      PROVE  RejectionTrue'
    BY <1>2, <1>4 DEF Raise, RejectionTrue
<1>5. ASSUME NEW t \in Types, Reply(s, t)
      PROVE  RejectionTrue'
    BY <1>4, <1>5 DEF Reply
<1>6. EventLost(s) => RejectionTrue'
    BY <1>2 DEF EventLost, RejectionTrue, NoEvent
<1>7. RejectionTrue'
    BY <1>3, <1>4, <1>5, <1>6
       DEF Callback, OnStreamOpen, Request, RequestRefused, OnStreamResponse, Break, OnStreamClosed
<1>. QED
    BY <1>1, <1>7, KeptCause DEF candidateVars

LEMMA CauseStepHolds ==
    CauseInv /\ RejectionTrue /\ TypeInv /\ [Next]_vars
        => CauseInv' /\ RejectionTrue' /\ [CauseStep]_vars
<1>. SUFFICES ASSUME CauseInv, RejectionTrue, TypeInv, [Next]_vars
              PROVE  CauseInv' /\ RejectionTrue' /\ CauseStep
    OBVIOUS
<1>1. ASSUME NEW v \in Versions, Submit(v) PROVE CauseInv' /\ RejectionTrue' /\ CauseStep
    BY <1>1, SubmitCause DEF RejectionTrue
<1>2. CASE CancelCandidate
    BY <1>2, CommandCause, RestoreCause, KeptCause DEF CancelCandidate, RejectionTrue
<1>3. CASE TimerFires
    <2>1. /\ timeouts' = timeouts \cup {<<candidate, sequence>>} /\ timer' = "fired"
          /\ UNCHANGED <<candidate, sequence, active, lastActive, restarts, pend>>
        BY <1>3 DEF TimerFires, bounds
    <2>2. sequence <= sequence
        BY DEF TypeInv, CountTypes
    <2>. QED
        BY <2>1, <2>2 DEF CauseInv, RejectionTrue, CauseStep
<1>4. CASE Restart
    <2>1. /\ candidate' = None /\ timeouts' = {} /\ restarts' = restarts + 1
          /\ pend' = [s \in Streams |-> NoEvent]
        BY <1>4 DEF Restart
    <2>2. restarts \in Nat
        BY DEF TypeInv, CountTypes
    <2>. QED
        BY <2>1, <2>2 DEF CauseInv, RejectionTrue, CauseStep, NoEvent
<1>5. ASSUME NEW v, NEW n, ACKTimeout(v, n) PROVE CauseInv' /\ RejectionTrue' /\ CauseStep
    <2>1. /\ <<v, n>> \in timeouts /\ timeouts' \subseteq timeouts
          /\ UNCHANGED <<pend, restarts>>
        BY <1>5 DEF ACKTimeout
    <2>2. CASE candidate = v /\ sequence = n /\ RestoreFallback("DeliveryFailed", {})
        BY <2>1, <2>2, RestoreCause DEF RejectionTrue, CauseStep, CauseInv
    <2>3. CASE UNCHANGED <<candidateVars, streamVars, cache, link, lastActive, errors>>
        BY <2>1, <2>3, KeptCause DEF candidateVars, RejectionTrue
    <2>. QED
        BY <1>5, <2>2, <2>3 DEF ACKTimeout
<1>6. ASSUME NEW s \in Streams, HandleEvent(s) PROVE CauseInv' /\ RejectionTrue' /\ CauseStep
    BY <1>6, HandledCause
<1>7. ASSUME NEW s \in Streams, Callback(s) PROVE CauseInv' /\ RejectionTrue' /\ CauseStep
    BY <1>7, CallbackCause
<1>8. CASE UNCHANGED vars
    BY <1>8, KeptCause DEF vars, candidateVars, xdsVars, bounds, RejectionTrue
<1>. QED
    BY <1>1, <1>2, <1>3, <1>4, <1>5, <1>6, <1>7, <1>8, Steps

LEMMA CauseInit == Init => CauseInv /\ RejectionTrue
BY DEF Init, CauseInv, RejectionTrue, NoEvent

\* No timeout or rejection of an earlier candidate withdraws the present one
\* (sequence, pruneProgress).
THEOREM WithdrawalsCaused == Spec => WithdrawnForCause
<1>1. [CauseStep]_vars =>
        [candidate # None /\ candidate' = None /\ active' = active =>
            \/ commands' # commands \/ restarts' # restarts
            \/ timer = "fired" /\ <<candidate, sequence>> \in timeouts
            \/ \E s \in Streams, t \in Types : <<NodeOf[s], t, candidate>> \in Rejects]_vars
    BY DEF CauseStep
<1>. QED
    BY <1>1, CauseInit, CauseStepHolds, TypeInvariant, PTL DEF Spec, WithdrawnForCause

\* As long as the controller runs, a withdrawn candidate is followed by the
\* active configuration in the cache (restoreFallback).
THEOREM RollbacksRestore == ASSUME MaxRestarts = 0 PROVE Spec => RollbackRestoresActive
<1>1. CauseInv /\ TypeInv /\ ServesWhatItTracks' =>
        [(/\ candidate # None /\ candidate' = None /\ active' = active
          /\ commands' = commands /\ restarts' = restarts
          /\ lastActive # None) => cache' = lastActive]_vars
    BY DEF CauseInv, TypeInv, CountTypes, ServesWhatItTracks
<1>2. Spec => []CauseInv
    BY CauseInit, CauseStepHolds, TypeInvariant, PTL DEF Spec
<1>. QED
    BY <1>1, <1>2, TypeInvariant, CacheFollowsDelivery, PTL DEF RollbackRestoresActive

-----------------------------------------------------------------------------
(* One stream serves an Envoy.                                              *)

Reported == {"sent", "observed", "ack", "nack"}

OneStreamInv ==
    /\ OneStreamPerNode
    /\ \A s \in Streams, t \in Types : link[s][t].at # "none" => conn[s] = "open"

\* Responses appear only where a request was taken.
LEMMA KeptOneStream ==
    ASSUME OneStreamInv, UNCHANGED <<conn, registered>>,
           \A s \in Streams : pend'[s].kind \in Reported => Subscribed(s),
           \A s \in Streams, t \in Types :
               link'[s][t].at # "none" => conn[s] = "open" /\ Subscribed(s)
    PROVE  OneStreamInv'
BY DEF OneStreamInv, OneStreamPerNode, Subscribed, Reported

\* The answers to open watches, and to requests the loop just heard of, go to
\* streams whose request was taken.
LEMMA AnswersKept ==
    ASSUME OneStreamInv, NEW R, \A s \in R \cap Streams : pend[s].kind \in Reported,
           NEW v, NEW links, links = link \/ \E W : links = Answered(v, W),
           NEW s \in Streams, NEW t \in Types, Resumed(R, links, v)[s][t].at # "none"
    PROVE  conn[s] = "open" /\ Subscribed(s)
<1>1. links[s][t].at # "none" => link[s][t].at # "none"
    <2>1. ASSUME NEW W, links = Answered(v, W)
          PROVE  links[s][t] = link[s][t] \/ link[s][t].at = "watch"
        BY <2>1 DEF Answered
    <2>. QED
        BY <2>1
<1>2. links[s][t].at # "none" \/ (s \in R /\ conn[s] = "open")
    BY DEF Resumed
<1>. QED
    BY <1>1, <1>2 DEF OneStreamInv, Subscribed, Reported

LEMMA PublishedOneStream ==
    ASSUME OneStreamInv, NEW v, NEW R, \A s \in R \cap Streams : pend[s].kind \in Reported,
           PublishOK(v, R) \/ PublishCut(v, R),
           NEW s \in Streams, NEW t \in Types, link'[s][t].at # "none"
    PROVE  conn[s] = "open" /\ Subscribed(s)
BY AnswersKept DEF PublishOK, PublishCut

\* The loop's own commands do not touch the registry.
LEMMA CommandOneStream ==
    ASSUME OneStreamInv, UNCHANGED <<conn, registered, pend>>,
           link' = link \/ \E v : PublishOK(v, {}) \/ PublishCut(v, {})
    PROVE  OneStreamInv'
<1>1. \A s \in Streams, t \in Types :
          link'[s][t].at # "none" => conn[s] = "open" /\ Subscribed(s)
    BY PublishedOneStream DEF OneStreamInv, Subscribed
<1>. QED
    BY <1>1, KeptOneStream DEF Subscribed, Reported

LEMMA EventOneStream ==
    ASSUME OneStreamInv, TypeInv, NEW s \in Streams, HandleEvent(s)
    PROVE  OneStreamInv'
<1>0. /\ UNCHANGED <<conn, registered>>
      /\ pend' = [pend EXCEPT ![s] = NoEvent]
    BY DEF HandleEvent, Handle, StreamOpened, StreamClosed, ResponseSent,
           AcceptedVersionObserved, ACK, NACK, xdsVars
<1>1. \A u \in Streams : pend'[u].kind \in Reported => Subscribed(u)
    BY <1>0 DEF TypeInv, CallbackTypes, NoEvent, Reported, Subscribed
<1>2. ASSUME NEW u \in Streams, NEW t \in Types, link'[u][t].at # "none"
      PROVE  conn[u] = "open" /\ Subscribed(u)
    <2>1. CASE link' = link
        BY <1>2, <2>1 DEF OneStreamInv, Subscribed
    <2>2. CASE pend[s].kind \in Reported /\ link' = Resumed({s}, link, cache)
        BY <1>2, <2>2, AnswersKept
    <2>3. CASE NACK(s) /\ RestoreFallback("Rejected", {s})
        <3>1. pend[s].kind \in Reported
            BY <2>3 DEF NACK, Handle, Reported
        <3>2. PublishOK(Fallback, {s}) \/ PublishCut(Fallback, {s})
            BY <2>3 DEF RestoreFallback
        <3>. QED
            BY <1>2, <3>1, <3>2, PublishedOneStream
    <2>. QED
        BY <2>1, <2>2, <2>3 DEF HandleEvent, Handle, StreamOpened, StreamClosed, ResponseSent,
           AcceptedVersionObserved, ACK, NACK, Reported
<1>. QED
    BY <1>0, <1>1, <1>2, KeptOneStream

\* A callback subscribes a stream only where its node is registered on it, and
\* the close of a stream leaves the registration of another.
LEMMA CallbackOneStream ==
    ASSUME OneStreamInv, TypeInv, NEW s \in Streams, Callback(s)
    PROVE  OneStreamInv'
<1>0. /\ registered \in [Nodes -> Streams \cup {None}] /\ NodeOf[s] \in Nodes
      /\ conn \in [Streams -> {"new", "open", "broken", "closed"}]
      /\ pend \in [Streams -> Event]
      /\ link \in [Streams -> [Types -> Links]]
      /\ \A u \in Streams : NodeOf[u] \in Nodes
    BY ShapeAssumption DEF TypeInv, CallbackTypes, CacheTypes
<1>1. CASE OnStreamOpen(s)
    <2>1. /\ conn[s] = "new" /\ conn' = [conn EXCEPT ![s] = "open"]
          /\ UNCHANGED <<registered, link>>
          /\ pend'[s].kind = "opened" /\ \A u \in Streams \ {s} : pend'[u] = pend[u]
        BY <1>0, <1>1 DEF OnStreamOpen, Raise
    <2>. QED
        BY <1>0, <2>1 DEF OneStreamInv, OneStreamPerNode, Subscribed
<1>2. ASSUME NEW t \in Types, RequestRefused(s, t) PROVE OneStreamInv'
    <2>1. /\ conn' = [conn EXCEPT ![s] = "broken"] /\ UNCHANGED <<registered, pend, link>>
          /\ registered[NodeOf[s]] # s /\ conn[s] = "open"
        BY <1>2 DEF RequestRefused, Idle
    <2>2. \A r \in Types : link[s][r].at = "none"
        BY <2>1 DEF OneStreamInv, OneStreamPerNode, Subscribed
    <2>. QED
        BY <1>0, <2>1, <2>2 DEF OneStreamInv, OneStreamPerNode, Subscribed
<1>3. ASSUME NEW t \in Types, Request(s, t) PROVE OneStreamInv'
    <2>1. /\ registered' = [registered EXCEPT ![NodeOf[s]] = s] /\ conn' = conn
          /\ registered[NodeOf[s]] \in {None, s} /\ conn[s] = "open"
          /\ \A u \in Streams \ {s} : pend'[u] = pend[u] /\ link'[u] = link[u]
        BY <1>0, <1>3 DEF Request, Idle, Raise
    <2>2. \A u \in Streams \ {s} : registered[NodeOf[u]] = u => registered'[NodeOf[u]] = u
        BY <1>0, <2>1, NamesAssumption
    <2>. QED
        BY <1>0, <2>1, <2>2 DEF OneStreamInv, OneStreamPerNode, Subscribed
<1>4. ASSUME NEW t \in Types, OnStreamResponse(s, t) \/ Reply(s, t) PROVE OneStreamInv'
    <2>1. /\ UNCHANGED <<registered, conn>> /\ conn[s] = "open" /\ link[s][t].at # "none"
          /\ \A u \in Streams \ {s} : pend'[u] = pend[u] /\ link'[u] = link[u]
        BY <1>0, <1>4 DEF OnStreamResponse, Reply, Idle, Raise, xdsVars
    <2>2. Subscribed(s)
        BY <2>1 DEF Subscribed
    <2>. QED
        BY <2>1, <2>2 DEF OneStreamInv, OneStreamPerNode, Subscribed
<1>5. CASE Break(s)
    <2>1. /\ conn' = [conn EXCEPT ![s] = "broken"] /\ UNCHANGED <<registered, pend>>
          /\ link' = [link EXCEPT ![s] = [t \in Types |-> NoLink]]
        BY <1>5 DEF Break
    <2>. QED
        BY <1>0, <2>1 DEF OneStreamInv, OneStreamPerNode, Subscribed, NoLink
<1>6. CASE EventLost(s)
    <2>1. /\ conn[s] = "broken" /\ UNCHANGED <<registered, conn, link>>
          /\ \A u \in Streams \ {s} : pend'[u] = pend[u]
        BY <1>0, <1>6 DEF EventLost, xdsVars
    <2>. QED
        BY <2>1 DEF OneStreamInv, OneStreamPerNode, Subscribed
<1>7. CASE OnStreamClosed(s)
    <2>1. /\ conn[s] = "broken" /\ conn' = [conn EXCEPT ![s] = "closed"] /\ UNCHANGED link
          /\ \A u \in Streams \ {s} : pend'[u] = pend[u]
        BY <1>0, <1>7 DEF OnStreamClosed, Raise
    <2>2. \A u \in Streams \ {s} : registered[NodeOf[u]] = u => registered'[NodeOf[u]] = u
        BY <1>0, <1>7 DEF OnStreamClosed
    <2>. QED
        BY <1>0, <2>1, <2>2 DEF OneStreamInv, OneStreamPerNode, Subscribed
<1>. QED
    BY <1>1, <1>2, <1>3, <1>4, <1>5, <1>6, <1>7 DEF Callback

LEMMA OneStreamStep == OneStreamInv /\ TypeInv /\ [Next]_vars => OneStreamInv'
<1>. SUFFICES ASSUME OneStreamInv, TypeInv, [Next]_vars PROVE OneStreamInv'
    OBVIOUS
<1>1. ASSUME NEW v \in Versions, Submit(v) PROVE OneStreamInv'
    BY <1>1, CommandOneStream DEF Submit, SubmitActive, SubmitCandidate, SubmitUnpublished,
       SubmitNew, Command, RestoreFallback, xdsVars
<1>2. CASE CancelCandidate
    BY <1>2, CommandOneStream DEF CancelCandidate, Command, RestoreFallback, xdsVars
<1>3. CASE TimerFires
    BY <1>3, CommandOneStream DEF TimerFires, xdsVars
<1>4. CASE Restart
    <2>1. /\ \A s \in Streams : pend'[s] = NoEvent
          /\ \A s \in Streams, t \in Types : link'[s][t] = NoLink
        BY <1>4 DEF Restart
    <2>. QED
        BY <2>1 DEF OneStreamInv, OneStreamPerNode, Subscribed, NoEvent, NoLink
<1>5. ASSUME NEW v, NEW n, ACKTimeout(v, n) PROVE OneStreamInv'
    BY <1>5, CommandOneStream DEF ACKTimeout, RestoreFallback, xdsVars
<1>6. ASSUME NEW s \in Streams, HandleEvent(s) PROVE OneStreamInv'
    BY <1>6, EventOneStream
<1>7. ASSUME NEW s \in Streams, Callback(s) PROVE OneStreamInv'
    BY <1>7, CallbackOneStream
<1>8. CASE UNCHANGED vars
    BY <1>8, CommandOneStream DEF vars, xdsVars
<1>. QED
    BY <1>1, <1>2, <1>3, <1>4, <1>5, <1>6, <1>7, <1>8, Steps

\* However often an Envoy connects again, and in whatever order the ends of its
\* streams are noticed, requests are taken on the stream it is registered on only
\* (OnStreamRequest, OnStreamClosed).
THEOREM OneStreamServes == Spec => []OneStreamPerNode
<1>1. Init => OneStreamInv
    BY DEF Init, OneStreamInv, OneStreamPerNode, Subscribed, NoEvent, NoLink
<1>2. OneStreamInv => OneStreamPerNode
    BY DEF OneStreamInv
<1>. QED
    BY <1>1, <1>2, OneStreamStep, TypeInvariant, PTL DEF Spec

-----------------------------------------------------------------------------
(* Delivery implements Rollout.  What is served follows from the candidate    *)
(* and the active version before and after a step (ServesWhatItTracks), so a *)
(* step is told by what it does to these two and to the failure.             *)

Sound == TypeInv /\ ServesWhatItTracks

\* Delivery decided, or nothing the controller could notice happened.
Decided == Contract!Decide \/ UNCHANGED Contract!vars

LEMMA OnlyVersions ==
    /\ Only(None) = {}
    /\ \A v \in Versions : Only(v) = {v} /\ v # None /\ v # Baseline
BY NamesAssumption DEF Only

LEMMA ServedIsTracked ==
    ASSUME Sound, Sound'
    PROVE  /\ Only(cache) = IF candidate = None THEN Only(active) ELSE Only(candidate)
           /\ Only(cache)' = IF candidate' = None THEN Only(active)' ELSE Only(candidate)'
BY DEF Sound, ServesWhatItTracks, Only

LEMMA ContractUnchanged ==
    ASSUME Sound, Sound', UNCHANGED <<candidate, active, failure>>
    PROVE  Decided
<1>1. Only(cache)' = Only(cache)
    BY ServedIsTracked
<1>. QED
    BY <1>1 DEF Decided, Contract!vars, Only, Told

LEMMA ContractAccepts ==
    ASSUME Sound, Sound', candidate # None, active' = candidate, candidate' = None,
           failure' = "none"
    PROVE  Decided
<1>1. candidate \in Versions
    BY DEF Sound, TypeInv, LoopTypes
<1>2. Only(cache) = Only(candidate) /\ Only(cache)' = Only(candidate)
    BY ServedIsTracked DEF Only
<1>3. Only(candidate) # {} /\ Only(candidate)' = {} /\ Only(active)' = Only(candidate)
    BY <1>1, OnlyVersions DEF Only
<1>. QED
    BY <1>2, <1>3 DEF Decided, Contract!Decide, Contract!Accept, Told

LEMMA ContractWithdraws ==
    ASSUME Sound, Sound', candidate # None, active' = active, candidate' = None,
           failure' \in {"Rejected", "DeliveryFailed"}
    PROVE  Decided
<1>1. candidate \in Versions
    BY DEF Sound, TypeInv, LoopTypes
<1>2. Only(cache)' = Only(active)
    BY ServedIsTracked DEF Only
<1>3. Only(candidate) # {} /\ Only(candidate)' = {} /\ Only(active)' = Only(active)
    BY <1>1, OnlyVersions DEF Only
<1>. QED
    BY <1>2, <1>3 DEF Decided, Contract!Decide, Contract!Withdraw, Told

LEMMA ContractTakesBack ==
    ASSUME Sound, Sound', active' = active, candidate' = None,
           \/ failure' = "none"
           \/ (candidate # None \/ failure = "DeliveryFailed") /\ failure' = "DeliveryFailed"
    PROVE  Contract!TakeBack
<1>1. Only(cache)' = Only(active) /\ Only(candidate)' = {} /\ Only(active)' = Only(active)
    BY ServedIsTracked, OnlyVersions DEF Only
<1>2. candidate # None => Only(candidate) # {}
    BY OnlyVersions DEF Sound, TypeInv, LoopTypes
<1>. QED
    BY <1>1, <1>2 DEF Contract!TakeBack, Told

\* A version that is neither active nor on offer.
LEMMA OnlyNew ==
    ASSUME Sound, NEW v \in Versions, v \notin {active, candidate}
    PROVE  Contract!New({v})
BY OnlyVersions DEF Contract!New, Only, Sound, TypeInv, LoopTypes

LEMMA ContractOffers ==
    ASSUME Sound, Sound', NEW v \in Versions, v \notin {active, candidate},
           candidate' = v, active' = active, failure' \in {"none", "DeliveryFailed"}
    PROVE  Contract!Offer
<1>1. Only(cache)' = {v} /\ Only(candidate)' = {v} /\ Only(active)' = Only(active)
    BY ServedIsTracked, OnlyVersions DEF Only
<1>. QED
    BY <1>1, OnlyNew DEF Contract!Offer, Told

LEMMA ContractOffersAccepted ==
    ASSUME Sound, Sound', NEW v \in Versions, v \notin {active, candidate},
           candidate' = None, active' = v, failure' = "none"
    PROVE  Contract!OfferAccepted
<1>1. Only(cache)' = {v} /\ Only(candidate)' = {} /\ Only(active)' = {v}
    BY ServedIsTracked, OnlyVersions DEF Only
<1>. QED
    BY <1>1, OnlyNew DEF Contract!OfferAccepted, Told

LEMMA ContractOfferFails ==
    ASSUME Sound, Sound', UNCHANGED <<candidate, active>>, failure' = "DeliveryFailed"
    PROVE  Contract!OfferFails
<1>1. Only(cache)' = Only(cache)
    BY ServedIsTracked
<1>. QED
    BY <1>1 DEF Contract!OfferFails, Only, Told

\* What happens to the candidate there is when nothing about it but the
\* acceptances changes.
LEMMA ContractSettles ==
    ASSUME Sound, Sound', NEW when, NEW streams, NEW prog, NEW acc,
           Settle(candidate, when, failure, streams, prog, acc)
    PROVE  Decided
<1>1. CASE candidate # None /\ AllAccepted(candidate, streams, acc)
    BY <1>1, ContractAccepts DEF Settle
<1>2. CASE ~(candidate # None /\ AllAccepted(candidate, streams, acc))
    BY <1>2, ContractUnchanged DEF Settle
<1>. QED
    BY <1>1, <1>2

LEMMA ContractRestores ==
    ASSUME Sound, Sound', NEW clean, NEW R, RestoreFallback(clean, R)
    PROVE  /\ clean = "none" /\ (candidate # None \/ failure = "DeliveryFailed") => Contract!TakeBack
           /\ clean \in {"Rejected", "DeliveryFailed"} /\ candidate # None => Decided
<1>1. active' = active /\ candidate' = None /\ failure' \in {clean, "DeliveryFailed"}
    BY DEF RestoreFallback
<1>. QED
    BY <1>1, ContractTakesBack, ContractWithdraws

LEMMA ContractSubmit ==
    ASSUME Sound, Sound', NEW v \in Versions, Submit(v)
    PROVE  Contract!Order \/ Decided
<1>. USE DEF Contract!Order
<1>1. CASE SubmitActive(v)
    <2>1. CASE candidate # None \/ failure = "DeliveryFailed"
        BY <1>1, <2>1, ContractRestores DEF SubmitActive
    <2>2. CASE ~(candidate # None \/ failure = "DeliveryFailed")
        BY <1>1, <2>2, ContractTakesBack DEF SubmitActive
    <2>. QED
        BY <2>1, <2>2
<1>2. CASE SubmitCandidate(v)
    BY <1>2, ContractSettles DEF SubmitCandidate
<1>3. CASE SubmitUnpublished(v)
    BY <1>3, ContractOfferFails DEF SubmitUnpublished
<1>4. CASE SubmitNew(v)
    <2>1. v \notin {active, candidate} /\ v # None
        BY <1>4, OnlyVersions DEF SubmitNew
    <2>2. ASSUME Settle(v, "off", "none", counted, Pruned({active, v}), accepted)
          PROVE  Contract!Offer \/ Contract!OfferAccepted
        <3>1. CASE AllAccepted(v, counted, accepted)
            BY <2>1, <2>2, <3>1, ContractOffersAccepted DEF Settle
        <3>2. CASE ~ AllAccepted(v, counted, accepted)
            BY <2>1, <2>2, <3>2, ContractOffers DEF Settle
        <3>. QED
            BY <3>1, <3>2
    <2>3. ASSUME candidate' = v, active' = active, failure' = "DeliveryFailed"
          PROVE  Contract!Offer
        BY <2>1, <2>3, ContractOffers
    <2>. QED
        BY <1>4, <2>2, <2>3 DEF SubmitNew
<1>. QED
    BY <1>1, <1>2, <1>3, <1>4 DEF Submit

LEMMA ContractCancel ==
    ASSUME Sound, Sound', CancelCandidate
    PROVE  Contract!Order
<1>1. CASE candidate = None /\ failure # "DeliveryFailed"
    BY <1>1, ContractTakesBack DEF CancelCandidate, Contract!Order
<1>2. CASE ~(candidate = None /\ failure # "DeliveryFailed")
    BY <1>2, ContractRestores DEF CancelCandidate, Contract!Order
<1>. QED
    BY <1>1, <1>2

LEMMA ContractEvent ==
    ASSUME Sound, Sound', NEW s \in Streams, HandleEvent(s)
    PROVE  Decided
<1>1. CASE StreamOpened(s) \/ ResponseSent(s)
    BY <1>1, ContractUnchanged DEF StreamOpened, ResponseSent, candidateVars
<1>2. CASE StreamClosed(s)
    BY <1>2, ContractSettles DEF StreamClosed
<1>3. CASE AcceptedVersionObserved(s)
    BY <1>3, ContractSettles, ContractUnchanged DEF AcceptedVersionObserved, Accept
<1>4. CASE ACK(s)
    BY <1>4, ContractSettles, ContractUnchanged DEF ACK, Accept
<1>5. CASE NACK(s)
    BY <1>5, ContractRestores, ContractUnchanged DEF NACK, SentOfCandidate, candidateVars
<1>. QED
    BY <1>1, <1>2, <1>3, <1>4, <1>5 DEF HandleEvent

LEMMA ContractTimeout ==
    ASSUME Sound, Sound', NEW v, NEW n, ACKTimeout(v, n)
    PROVE  Decided
<1>1. <<v, n>> \in timeouts
    BY DEF ACKTimeout
<1>2. v \in Versions
    BY <1>1 DEF Sound, TypeInv, CountTypes
<1>3. CASE candidate = v /\ sequence = n
    BY <1>2, <1>3, OnlyVersions, ContractRestores DEF ACKTimeout
<1>4. CASE ~(candidate = v /\ sequence = n)
    BY <1>4, ContractUnchanged DEF ACKTimeout, candidateVars
<1>. QED
    BY <1>3, <1>4

\* Steps that are not an order of the controller, or its end.
LEMMA ContractOwn ==
    ASSUME Sound, Sound',
           \/ TimerFires \/ UNCHANGED vars
           \/ \E v, n : ACKTimeout(v, n)
           \/ \E s \in Streams : HandleEvent(s) \/ Callback(s)
    PROVE  Decided
<1>1. ASSUME NEW s \in Streams, Callback(s)
      PROVE  UNCHANGED <<candidate, active, failure>>
    BY <1>1 DEF Callback, OnStreamOpen, Request, RequestRefused, OnStreamResponse, Reply, Break,
                EventLost, OnStreamClosed, candidateVars
<1>2. CASE TimerFires \/ UNCHANGED vars
    BY <1>2, ContractUnchanged DEF TimerFires, vars, candidateVars
<1>. QED
    BY <1>1, <1>2, ContractUnchanged, ContractTimeout, ContractEvent

LEMMA ContractRestart ==
    ASSUME Restart
    PROVE  Contract!Restart
BY OnlyVersions DEF Restart, Contract!Restart, Told, Only

\* Delivery keeps its contract, for any number of orders, Envoys, streams,
\* failing publications and restarts.
THEOREM ContractKept == Spec => KeepsContract
<1>1. Init => Contract!Init
    BY OnlyVersions DEF Init, Contract!Init, Told
<1>2. Sound /\ Sound' /\ [Next]_vars => [Contract!Next]_(Contract!vars)
    <2>. SUFFICES ASSUME Sound, Sound', [Next]_vars
                  PROVE  [Contract!Next]_(Contract!vars)
        OBVIOUS
    <2>1. Decided => [Contract!Next]_(Contract!vars)
        BY DEF Decided, Contract!Next
    <2>2. Contract!Order \/ Contract!Restart => Contract!Next
        BY DEF Contract!Next
    <2>. QED
        BY <2>1, <2>2, Steps, ContractSubmit, ContractCancel, ContractOwn, ContractRestart
<1>3. Spec => []Sound
    BY TypeInvariant, CacheFollowsDelivery, PTL DEF Sound
<1>. QED
    BY <1>1, <1>2, <1>3, PTL DEF Spec, Contract!Spec, KeepsContract

\* While the controller gives no order, all that happens to what it knows of
\* Delivery is that the candidate is accepted or withdrawn: the two steps
\* Reconcile lets Delivery take between any two of its own.
THEOREM OnlyDecides ==
    Spec => [][commands' = commands /\ restarts' = restarts => Contract!Decide]_(Contract!vars)
<1>1. Sound /\ Sound' /\ [Next]_vars =>
          [commands' = commands /\ restarts' = restarts => Contract!Decide]_(Contract!vars)
    <2>. SUFFICES ASSUME Sound, Sound', [Next]_vars, commands' = commands, restarts' = restarts
                  PROVE  Decided
        BY DEF Decided
    <2>1. commands \in Nat /\ restarts \in Nat
        BY DEF Sound, TypeInv, CountTypes
    <2>2. ~ CancelCandidate /\ ~ Restart /\ \A v \in Versions : ~ Submit(v)
        BY <2>1 DEF CancelCandidate, Restart, Submit, SubmitActive, SubmitCandidate,
                    SubmitUnpublished, SubmitNew, Command
    <2>. QED
        BY <2>2, Steps, ContractOwn
<1>2. Spec => []Sound
    BY TypeInvariant, CacheFollowsDelivery, PTL DEF Sound
<1>. QED
    BY <1>1, <1>2, PTL DEF Spec

=============================================================================
