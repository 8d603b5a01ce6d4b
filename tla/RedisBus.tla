--------------------------------- MODULE RedisBus --------------------------------
(***************************************************************************)
(* The event bus over Redis Pub/Sub (core/event_bus_redis.py), meant as a  *)
(* replacement for the in-process one.  One task takes events off the      *)
(* bounded queue and publishes them; another receives what Redis sends for *)
(* the channels and patterns this process subscribed to, and calls every   *)
(* local callback that matches, for each message it receives.              *)
(*                                                                         *)
(* Redis sends one message per matching subscription of the connection,    *)
(* keeps nothing for a connection that is gone, and delivers in order on   *)
(* one connection.  It goes down and comes back as it likes.  Delays, and  *)
(* their doubling, are time that passes between two steps.                 *)
(*                                                                         *)
(* Every event has the same type, and the patterns are those that match    *)
(* it.  Decoding always succeeds; callbacks return or raise, which makes   *)
(* no difference, so calling them is one step.                             *)
(***************************************************************************)
EXTENDS Integers, FiniteSets, Sequences, SequencesExt

CONSTANTS
    Exact,         \* subscription patterns that are channel names
    Globs,         \* those that are patterns
    Wildcard,      \* "*"
    QueueSize,     \* max_queue_size
    MaxEvents,     \* bound: events accepted
    MaxOutages,    \* bound: times Redis goes down
    MaxInFlight    \* bound: messages on their way

ASSUME PatternsAssumption ==
    /\ Exact \cap Globs = {} /\ Wildcard \notin Exact \cup Globs
    /\ IsFiniteSet(Exact \cup Globs)
ASSUME QueueAssumption == QueueSize \in Nat \ {0}
ASSUME BoundsAssumption == MaxEvents \in Nat /\ MaxOutages \in Nat /\ MaxInFlight \in Nat

VARIABLES
    redis,      \* TRUE while Redis answers
    running,    \* _running
    queue,      \* _queue
    local,      \* patterns with a local callback
    pub,        \* the publish loop: off, idle, sending, waiting
    inHand,     \* the event it holds, or none
    sub,        \* the listen loop: off, listening, waiting
    link,       \* its connection to Redis: none yet, alive, lost
    remote,     \* what that connection is subscribed to, as Redis knows
    syncs,      \* _sync_subscriptions calls under way
    wire,       \* messages Redis has sent on that connection
    outages,
    \* history
    taken,      \* events accepted
    published,  \* events Redis took
    lost,       \* events the code gave up, and said so
    torn        \* events in hand when the bus was stopped

vars == <<redis, running, queue, local, pub, inHand, sub, link, remote, syncs, wire,
          outages, taken, published, lost, torn>>
publisher == <<queue, pub, inHand, published, lost, torn, taken>>
listener == <<sub, link, remote, syncs, wire>>

---------------------------------------------------------------------------
Subscriptions == Exact \cup Globs \cup {Wildcard}
Nothing == 0

(* Subscribing.  subscribe and unsubscribe change the local table at once  *)
(* and, on a running bus, schedule a _sync_subscriptions.                  *)

Resync == syncs' = IF running /\ sub # "off" THEN 1 ELSE syncs

Subscribe(p) ==
    /\ p \notin local
    /\ local' = local \cup {p}
    /\ Resync
    /\ UNCHANGED <<redis, running, publisher, sub, link, remote, wire, outages>>

Unsubscribe(p) ==
    /\ p \in local
    /\ local' = local \ {p}
    /\ Resync
    /\ UNCHANGED <<redis, running, publisher, sub, link, remote, wire, outages>>

\* What a connection is subscribed to once the table is mirrored: only the
\* wildcard is ever taken back.
Mirrored == (remote \ {Wildcard}) \cup local

\* The calls to Redis were answered; the first of them connects.
Synced ==
    /\ syncs > 0 /\ redis
    /\ syncs' = 0 /\ remote' = Mirrored
    /\ link' = IF Mirrored = {} THEN link ELSE "alive"
    /\ UNCHANGED <<redis, running, publisher, local, sub, wire, outages>>

\* One of them failed: logged, and taken for done.
SyncFails ==
    /\ syncs > 0 /\ ~(redis /\ link = "alive")
    /\ syncs' = 0
    /\ UNCHANGED <<redis, running, publisher, local, sub, link, remote, wire,
                   outages>>

---------------------------------------------------------------------------
(* Starting and stopping.                                                  *)

\* A new client and its subscriptions: it connects with the first of them, if
\* Redis answers, and has no connection otherwise.
Opens(answered) ==
    /\ wire' = <<>>
    /\ IF answered /\ local # {}
       THEN link' = "alive" /\ remote' = local
       ELSE link' = "none" /\ remote' = {}

\* The ping is answered, and the subscriptions made so far are mirrored, unless
\* that fails: the tasks are started all the same.
Start ==
    /\ ~running /\ redis
    /\ running' = TRUE /\ pub' = "idle" /\ sub' = "listening"
    /\ Opens(redis)
    /\ UNCHANGED <<redis, queue, local, inHand, syncs, outages, taken, published,
                   lost, torn>>

StartUnsynced ==
    /\ ~running /\ redis /\ outages < MaxOutages
    /\ outages' = outages + 1 /\ redis' = FALSE
    /\ running' = TRUE /\ pub' = "idle" /\ sub' = "listening"
    /\ Opens(FALSE)
    /\ UNCHANGED <<queue, local, inHand, syncs, taken, published, lost, torn>>

\* The ping fails and the error is raised, with _running already set: what is
\* published from now on is queued, and starting again does nothing.
StartFails ==
    /\ ~running /\ ~redis
    /\ running' = TRUE
    /\ UNCHANGED <<redis, publisher, local, listener, outages>>

\* Both tasks are cancelled and the clients closed; the queue is left alone.
Stop ==
    /\ running
    /\ running' = FALSE
    /\ pub' = "off" /\ sub' = "off" /\ link' = "none" /\ remote' = {}
    /\ wire' = <<>> /\ syncs' = 0
    /\ inHand' = Nothing
    /\ torn' = IF inHand = Nothing THEN torn ELSE torn \cup {inHand}
    /\ UNCHANGED <<redis, queue, local, outages, taken, published, lost>>

---------------------------------------------------------------------------
(* Publishing.                                                             *)

\* publish or publish_nowait, with room in the queue.
Accept ==
    /\ taken < MaxEvents /\ Len(queue) < QueueSize
    /\ taken' = taken + 1
    /\ queue' = Append(queue, taken')
    /\ UNCHANGED <<redis, running, local, pub, inHand, listener, outages, published, lost, torn>>

TakeOff ==
    /\ pub = "idle" /\ queue # <<>>
    /\ inHand' = Head(queue) /\ queue' = Tail(queue)
    /\ pub' = "sending"
    /\ UNCHANGED <<redis, running, local, listener, outages, taken, published, lost, torn>>

\* Redis sends a message for every subscription of the connection it matches.
Copies == Cardinality(remote)

Delivered == IF link = "alive" THEN wire \o [i \in 1..Copies |-> inHand] ELSE wire

Publish ==
    /\ pub = "sending" /\ redis
    /\ Len(Delivered) <= MaxInFlight
    /\ published' = published \cup {inHand}
    /\ wire' = Delivered
    /\ pub' = "idle" /\ inHand' = Nothing
    /\ UNCHANGED <<redis, running, queue, local, sub, link, remote, syncs,
                   outages, taken, lost, torn>>

\* Mutant of PublishFails: the event is not put back.
PublishFailsForgets ==
    /\ pub = "sending" /\ ~redis
    /\ pub' = "waiting" /\ inHand' = Nothing
    /\ UNCHANGED <<redis, running, queue, local, listener, outages, taken, published, lost, torn>>

\* The event goes to the end of the queue, behind what came after it, or is
\* given up if the queue has filled meanwhile.
PublishFails ==
    /\ pub = "sending" /\ ~redis
    /\ IF Len(queue) < QueueSize
       THEN queue' = Append(queue, inHand) /\ UNCHANGED lost
       ELSE lost' = lost \cup {inHand} /\ UNCHANGED queue
    /\ pub' = "waiting" /\ inHand' = Nothing
    /\ UNCHANGED <<redis, running, local, listener, outages, taken, published, torn>>

\* Redis took the event and its answer did not come back.
PublishUnanswered ==
    /\ pub = "sending" /\ redis /\ outages < MaxOutages
    /\ Len(Delivered) <= MaxInFlight
    /\ outages' = outages + 1
    /\ IF Len(queue) < QueueSize
       THEN queue' = Append(queue, inHand) /\ UNCHANGED lost
       ELSE lost' = lost \cup {inHand} /\ UNCHANGED queue
    /\ published' = published \cup {inHand}
    /\ wire' = Delivered
    /\ pub' = "waiting" /\ inHand' = Nothing
    /\ UNCHANGED <<redis, running, local, sub, link, remote, syncs, taken, torn>>

\* Any other error, redis's own TimeoutError among them, is logged and the event
\* forgotten, whether Redis took it or not.
PublishErrs ==
    /\ pub = "sending" /\ outages < MaxOutages
    /\ outages' = outages + 1
    /\ lost' = lost \cup {inHand}
    /\ pub' = "idle" /\ inHand' = Nothing
    /\ UNCHANGED <<redis, running, queue, local, listener, taken, published, torn>>

\* Mutant of ReconnectPublisher: a ping that fails ends the loop.
ReconnectPublisherOnce ==
    /\ pub = "waiting"
    /\ pub' = IF redis THEN "idle" ELSE "ended"
    /\ UNCHANGED <<redis, running, queue, local, inHand, listener, outages, taken, published,
                   lost, torn>>

\* The delay is over: a new client is made, and the loop goes on whether it
\* answers or not.
ReconnectPublisher ==
    /\ pub = "waiting"
    /\ pub' = "idle"
    /\ UNCHANGED <<redis, running, queue, local, inHand, listener, outages, taken, published,
                   lost, torn>>

---------------------------------------------------------------------------
(* Listening.                                                              *)

\* A message is handed to the wildcard, the exact and the matching patterns'
\* callbacks, all of them, whichever subscription it came for.
Receive ==
    /\ sub = "listening" /\ wire # <<>>
    /\ wire' = Tail(wire)
    /\ UNCHANGED <<redis, running, publisher, local, sub, link, remote, syncs, outages>>

\* get_message raises a ConnectionError.  Without a connection it raises another
\* one, which is logged and changes nothing: only a later subscription connects.
ListenFails ==
    /\ sub = "listening" /\ link = "lost" /\ wire = <<>>
    /\ sub' = "waiting"
    /\ UNCHANGED <<redis, running, publisher, local, link, remote, syncs, wire,
                   outages>>

\* Mutant of ReconnectSubscriber: the new connection is not subscribed.
ReconnectDeaf ==
    /\ sub = "waiting"
    /\ sub' = "listening"
    /\ wire' = <<>> /\ remote' = {}
    /\ link' = IF redis THEN "alive" ELSE "none"
    /\ UNCHANGED <<redis, running, publisher, local, syncs, outages>>

\* The delay is over: a new client, and its subscriptions.  If Redis is still
\* away that is logged inside, and the loop listens all the same.
ReconnectSubscriber ==
    /\ sub = "waiting"
    /\ sub' = "listening"
    /\ Opens(redis)
    /\ UNCHANGED <<redis, running, publisher, local, syncs, outages>>

---------------------------------------------------------------------------
(* Redis.                                                                  *)

GoesDown ==
    /\ redis /\ outages < MaxOutages
    /\ outages' = outages + 1
    /\ redis' = FALSE
    /\ link' = (IF link = "alive" THEN "lost" ELSE link) /\ remote' = {}
    /\ \E n \in 0..Len(wire) : wire' = SubSeq(wire, 1, n)
    /\ UNCHANGED <<running, publisher, local, sub, syncs>>

ComesBack ==
    /\ ~redis /\ redis' = TRUE
    /\ UNCHANGED <<running, publisher, local, listener, outages>>

Init ==
    /\ redis \in BOOLEAN
    /\ running = FALSE
    /\ queue = <<>> /\ local = {}
    /\ pub = "off" /\ inHand = Nothing
    /\ sub = "off" /\ link = "none" /\ remote = {} /\ syncs = 0 /\ wire = <<>>
    /\ outages = 0 /\ taken = 0
    /\ published = {} /\ lost = {} /\ torn = {}

Next ==
    \/ \E p \in Subscriptions : Subscribe(p) \/ Unsubscribe(p)
    \/ Synced \/ SyncFails
    \/ Start \/ StartUnsynced \/ StartFails \/ Stop
    \/ Accept \/ TakeOff \/ Publish \/ PublishFails \/ PublishUnanswered \/ PublishErrs
    \/ ReconnectPublisher    \/ Receive \/ ListenFails \/ ReconnectSubscriber
    \/ GoesDown \/ ComesBack

\* The event loop runs what is ready, and Redis comes back.
Fairness ==
    /\ WF_vars(TakeOff) /\ WF_vars(Publish \/ PublishFails \/ PublishUnanswered)
    /\ WF_vars(ReconnectPublisher) /\ WF_vars(Receive)
    /\ WF_vars(ListenFails) /\ WF_vars(ReconnectSubscriber)
    /\ WF_vars(Synced \/ SyncFails) /\ WF_vars(ComesBack)

Spec == Init /\ [][Next]_vars /\ Fairness

---------------------------------------------------------------------------
(* Properties.                                                             *)

Events == 1..taken

\* The state has its shape; a queued event is queued once, and the publisher
\* holds one while it sends (core/event_bus_redis.py:274-320).
TypeOK ==
    /\ redis \in BOOLEAN /\ running \in BOOLEAN /\ link \in {"none", "alive", "lost"}
    /\ queue \in Seq(Events) /\ Len(queue) <= QueueSize
    /\ \A i, j \in DOMAIN queue : queue[i] = queue[j] => i = j
    /\ local \subseteq Subscriptions /\ remote \subseteq Subscriptions
    /\ pub \in {"off", "idle", "sending", "waiting"} /\ sub \in {"off", "listening", "waiting"}
    /\ inHand \in Events \cup {Nothing} /\ (pub = "sending" <=> inHand # Nothing)
    /\ wire \in Seq(Events) /\ syncs \in 0..1 /\ outages \in 0..MaxOutages
    /\ ~running => pub = "off" /\ sub = "off"
    /\ remote # {} => link = "alive"
    /\ taken \in 0..MaxEvents
    /\ published \cup lost \cup torn \subseteq Events

\* No event vanishes: one that was accepted is queued, in the publisher's hand,
\* taken by Redis, given up for a full queue, or cut off by a stop
\* (core/event_bus_redis.py:274-320).
NothingVanishes ==
    Events = Range(queue) \cup ({inHand} \ {Nothing}) \cup published \cup lost \cup torn

\* The listener is not deaf: while its connection lives, it is subscribed to all
\* that local callbacks wait for, or a synchronisation is about to see to it,
\* however often the connection was lost and made again
\* (core/event_bus_redis.py:416-445, 470-493).
ListenerHears == (link = "alive" /\ syncs = 0) => local \subseteq remote

\* What is queued on a bus whose tasks run is published or given up in the end,
\* whatever Redis does meanwhile (core/event_bus_redis.py:274-320).
QueueDrains == (queue # <<>> /\ pub # "off") ~> (queue = <<>> \/ pub = "off")

===============================================================================
