---------------------------- MODULE RedisBus_proofs ----------------------------
(***************************************************************************)
(* The Redis bus for any subscriptions, any size of the queue and any      *)
(* number of outages, stops and restarts: no event vanishes and no live    *)
(* connection is deaf.  Machine-checked by TLAPS.                          *)
(*                                                                         *)
(* The publisher and the listener are two halves of the state that each    *)
(* step changes one of, or leaves the first alone but for the events Redis *)
(* took; each half has its invariant.                                      *)
(***************************************************************************)
EXTENDS RedisBus, TLAPS, SequenceTheorems, FiniteSetTheorems

USE PatternsAssumption, QueueAssumption, BoundsAssumption
    DEF PatternsAssumption, QueueAssumption, BoundsAssumption

Distinct(q) == \A i, j \in DOMAIN q : q[i] = q[j] => i = j

---------------------------------------------------------------------------
(* The inductive invariant.                                                *)

\* The publisher's half: where every event is.
Kept ==
    /\ taken \in 0..MaxEvents
    /\ queue \in Seq(Events) /\ Len(queue) <= QueueSize /\ Distinct(queue)
    /\ inHand \in Events \cup {Nothing} /\ inHand \notin Range(queue)
    /\ pub \in {"off", "idle", "sending", "waiting"}
    /\ pub = "sending" <=> inHand # Nothing
    /\ published \cup lost \cup torn \subseteq Events
    /\ NothingVanishes

\* The listener's half: what it is subscribed to, and what is on its way.
Listens ==
    /\ redis \in BOOLEAN /\ running \in BOOLEAN /\ link \in {"none", "alive", "lost"}
    /\ local \subseteq Subscriptions /\ remote \subseteq Subscriptions
    /\ sub \in {"off", "listening", "waiting"}
    /\ wire \in Seq(Events) /\ syncs \in 0..1 /\ outages \in 0..MaxOutages
    /\ ~running => pub = "off" /\ sub = "off"
    /\ sub = "off" => link = "none" /\ syncs = 0
    /\ link = "alive" => redis
    /\ remote # {} => link = "alive"
    /\ ListenerHears

IInv == Kept /\ Listens

\* Before anything is published nothing is missing.
LEMMA InitIInv == Init => IInv
<1> SUFFICES ASSUME Init PROVE IInv
  OBVIOUS
<1>1. Range(<<>>) = {} /\ Distinct(<<>>)
  BY DEF Range, Distinct
<1>2. Events = {}
  BY DEF Init, Events
<1>3. Kept
  BY <1>1, <1>2 DEF Init, Kept, NothingVanishes, Nothing
<1>4. Listens
  <2>1. redis \in BOOLEAN /\ running \in BOOLEAN
    BY DEF Init
  <2>2. wire \in Seq(Events) /\ syncs \in 0..1 /\ outages \in 0..MaxOutages
    BY DEF Init
  <2>3. /\ local = {} /\ remote = {} /\ sub = "off" /\ pub = "off" /\ link = "none"
        /\ syncs = 0
    BY DEF Init
  <2> QED
    BY <2>1, <2>2, <2>3 DEF Listens, ListenerHears
<1> QED
  BY <1>3, <1>4 DEF IInv

---------------------------------------------------------------------------
(* Queues of events.                                                       *)

\* An event that is not in the queue goes to its end.
LEMMA QueueGrows ==
    ASSUME NEW S, NEW q \in Seq(S), Distinct(q), NEW e \in S, e \notin Range(q)
    PROVE  /\ Append(q, e) \in Seq(S) /\ Len(Append(q, e)) = Len(q) + 1
           /\ Distinct(Append(q, e))
           /\ Range(Append(q, e)) = Range(q) \cup {e}
<1> DEFINE a == Append(q, e)
<1>1. /\ a \in Seq(S) /\ Len(a) = Len(q) + 1 /\ Len(q) \in Nat
      /\ DOMAIN a = 1..Len(q) + 1 /\ DOMAIN q = 1..Len(q)
      /\ \A i \in 1..Len(q) : a[i] = q[i]
      /\ a[Len(q) + 1] = e
  BY AppendProperties, LenProperties
<1> HIDE DEF a
<1>2. \A i \in 1..Len(q) : q[i] # e
  BY <1>1 DEF Range
<1>3. Distinct(a)
  BY <1>1, <1>2 DEF Distinct
<1>4. Range(a) = Range(q) \cup {e}
  BY <1>1 DEF Range
<1> QED
  BY <1>1, <1>3, <1>4 DEF a

\* The first event leaves the queue.
LEMMA QueueShrinks ==
    ASSUME NEW S, NEW q \in Seq(S), Distinct(q), q # <<>>
    PROVE  /\ Tail(q) \in Seq(S) /\ Len(Tail(q)) = Len(q) - 1 /\ Len(q) \in Nat
           /\ Head(q) \in S /\ Distinct(Tail(q))
           /\ Head(q) \notin Range(Tail(q))
           /\ Range(q) = Range(Tail(q)) \cup {Head(q)}
<1> DEFINE t == Tail(q)
<1>1. /\ t \in Seq(S) /\ Len(t) = Len(q) - 1 /\ Len(q) \in Nat \ {0}
      /\ DOMAIN t = 1..Len(q) - 1 /\ DOMAIN q = 1..Len(q)
      /\ \A i \in 1..Len(q) - 1 : t[i] = q[i + 1]
      /\ Head(q) \in S /\ Head(q) = q[1]
  BY HeadTailProperties, LenProperties, EmptySeq
<1> HIDE DEF t
<1>2. Distinct(t)
  BY <1>1 DEF Distinct
<1>3. \A i \in 1..Len(q) - 1 : q[i + 1] # q[1]
  BY <1>1 DEF Distinct
<1>4. Head(q) \notin Range(t)
  BY <1>1, <1>3 DEF Range
<1>5. \A i \in 1..Len(q) : i = 1 \/ (i - 1 \in DOMAIN t /\ q[i] = t[i - 1])
  BY <1>1
<1>6. \A i \in 1..Len(q) - 1 : i + 1 \in DOMAIN q /\ t[i] = q[i + 1]
  BY <1>1
<1>7. Range(q) \subseteq Range(t) \cup {Head(q)}
  BY <1>1, <1>5 DEF Range
<1>8. Range(t) \cup {Head(q)} \subseteq Range(q)
  <2>1. Head(q) \in Range(q)
    BY <1>1 DEF Range
  <2>2. ASSUME NEW e \in Range(t) PROVE e \in Range(q)
    <3>1. PICK i \in DOMAIN t : e = t[i]
      BY DEF Range
    <3> QED
      BY <1>1, <1>6, <3>1 DEF Range
  <2> QED
    BY <2>1, <2>2
<1> QED
  BY <1>1, <1>2, <1>4, <1>7, <1>8 DEF t

\* What Redis sends for an event.
LEMMA DeliveredOK == ASSUME IInv, pub = "sending" PROVE Delivered \in Seq(Events)
<1>1. inHand \in Events /\ wire \in Seq(Events)
  BY DEF IInv, Kept, Listens
<1>2. IsFiniteSet(Subscriptions)
  BY FS_AddElement DEF Subscriptions
<1>3. Copies \in Nat
  BY <1>2, FS_Subset, FS_CardinalityType DEF Copies, IInv, Listens
<1>4. [i \in 1..Copies |-> inHand] \in Seq(Events)
  BY <1>1, <1>3
<1> QED
  BY <1>1, <1>4, ConcatProperties DEF Delivered

---------------------------------------------------------------------------
(* The publisher's steps.                                                  *)

\* Where the events are when the one in hand goes: the rest is untouched.
LEMMA AcceptKeeps == ASSUME IInv, Accept PROVE Kept'
<1>1. /\ taken' = taken + 1 /\ taken' \in 0..MaxEvents /\ taken \in Nat
      /\ queue' = Append(queue, taken') /\ Len(queue) < QueueSize
      /\ UNCHANGED <<pub, inHand, published, lost, torn>>
  BY DEF Accept, IInv, Kept
<1>2. Events' = Events \cup {taken'} /\ taken' \notin Events /\ taken' # Nothing
  BY <1>1 DEF Events, Nothing
<1>3. queue \in Seq(Events') /\ Distinct(queue) /\ taken' \in Events' /\ taken' \notin Range(queue)
  BY <1>2, SeqMonotonic, RangeOfSeq DEF IInv, Kept
<1>4. /\ queue' \in Seq(Events') /\ Len(queue') = Len(queue) + 1
      /\ Distinct(queue') /\ Range(queue') = Range(queue) \cup {taken'}
  BY <1>1, <1>3, QueueGrows
<1>5. Len(queue') <= QueueSize
  BY <1>1, <1>3, <1>4, LenProperties
<1>6. inHand' \in Events' \cup {Nothing} /\ inHand' \notin Range(queue')
  BY <1>1, <1>2, <1>4 DEF IInv, Kept
<1>7. NothingVanishes'
  BY <1>1, <1>2, <1>4 DEF IInv, Kept, NothingVanishes
<1> QED
  BY <1>1, <1>2, <1>4, <1>5, <1>6, <1>7 DEF IInv, Kept

LEMMA TakeOffKeeps == ASSUME IInv, TakeOff PROVE Kept'
<1>1. /\ pub = "idle" /\ queue # <<>> /\ inHand' = Head(queue) /\ queue' = Tail(queue)
      /\ pub' = "sending" /\ UNCHANGED <<taken, published, lost, torn>>
  BY DEF TakeOff
<1>2. /\ queue' \in Seq(Events) /\ Len(queue') = Len(queue) - 1 /\ Len(queue) \in Nat
      /\ inHand' \in Events /\ Distinct(queue') /\ inHand' \notin Range(queue')
      /\ Range(queue) = Range(queue') \cup {inHand'}
  BY <1>1, QueueShrinks DEF IInv, Kept
<1>3. Events' = Events /\ inHand' # Nothing /\ inHand = Nothing
  BY <1>1, <1>2 DEF Events, Nothing, IInv, Kept
<1>4. NothingVanishes'
  BY <1>1, <1>2, <1>3 DEF IInv, Kept, NothingVanishes
<1> QED
  BY <1>1, <1>2, <1>3, <1>4 DEF IInv, Kept

\* The event in hand is taken by Redis, given up or both, and nothing else
\* changes.
LEMMA HandEmptied ==
    ASSUME IInv, pub = "sending", inHand' = Nothing, pub' \in {"idle", "waiting"},
           UNCHANGED <<taken, queue, torn>>,
           published' \in {published, published \cup {inHand}},
           lost' \in {lost, lost \cup {inHand}},
           inHand \in published' \cup lost'
    PROVE  Kept'
<1>1. Events' = Events /\ inHand \in Events
  BY DEF Events, IInv, Kept
<1>2. NothingVanishes'
  BY <1>1 DEF IInv, Kept, NothingVanishes
<1>3. inHand' \notin Range(queue')
  BY RangeOfSeq DEF IInv, Kept, Events, Nothing
<1> QED
  BY <1>1, <1>2, <1>3 DEF IInv, Kept

\* The event in hand goes back to the queue.
LEMMA HandPutBack ==
    ASSUME IInv, pub = "sending", Len(queue) < QueueSize, queue' = Append(queue, inHand),
           inHand' = Nothing, pub' = "waiting", UNCHANGED <<taken, lost, torn>>,
           published' \in {published, published \cup {inHand}}
    PROVE  Kept'
<1>1. Events' = Events /\ inHand \in Events /\ inHand \notin Range(queue)
  BY DEF Events, IInv, Kept
<1>2. /\ queue' \in Seq(Events') /\ Len(queue') = Len(queue) + 1
      /\ Distinct(queue') /\ Range(queue') = Range(queue) \cup {inHand}
  BY <1>1, QueueGrows DEF IInv, Kept
<1>3. Len(queue') <= QueueSize
  BY <1>2, LenProperties DEF IInv, Kept
<1>4. NothingVanishes'
  BY <1>1, <1>2 DEF IInv, Kept, NothingVanishes
<1>5. inHand' \notin Range(queue')
  BY <1>1, <1>2, RangeOfSeq DEF IInv, Kept, Events, Nothing
<1> QED
  BY <1>1, <1>2, <1>3, <1>4, <1>5 DEF IInv, Kept

\* Stopping puts what is in hand aside, reconnecting touches no event.
LEMMA StopKeeps == ASSUME IInv, Stop PROVE Kept'
<1>1. /\ pub' = "off" /\ inHand' = Nothing /\ UNCHANGED <<queue, taken, published, lost>>
      /\ torn' = IF inHand = Nothing THEN torn ELSE torn \cup {inHand}
  BY DEF Stop
<1>2. Events' = Events /\ (inHand = Nothing \/ inHand \in Events)
  BY <1>1 DEF Events, IInv, Kept
<1>3. NothingVanishes'
  BY <1>1, <1>2 DEF IInv, Kept, NothingVanishes
<1>4. inHand' \notin Range(queue')
  BY <1>1, RangeOfSeq DEF IInv, Kept, Events, Nothing
<1> QED
  BY <1>1, <1>2, <1>3, <1>4 DEF IInv, Kept

\* A step that leaves every event where it is.
LEMMA Elsewhere ==
    ASSUME IInv, UNCHANGED <<taken, queue, inHand, published, lost, torn>>,
           pub' = pub \/ (pub # "sending" /\ pub' = "idle")
    PROVE  Kept'
<1>1. Events' = Events
  BY DEF Events
<1> QED
  BY <1>1 DEF IInv, Kept, NothingVanishes

\* Every step of the bus and of Redis keeps the publisher's half.
LEMMA KeptStep == ASSUME IInv, [Next]_vars PROVE Kept'
<1>1. CASE Accept
  BY <1>1, AcceptKeeps
<1>2. CASE TakeOff
  BY <1>2, TakeOffKeeps
<1>3. CASE Publish
  BY <1>3, HandEmptied DEF Publish
<1>4. CASE PublishErrs
  BY <1>4, HandEmptied DEF PublishErrs
<1>5. CASE PublishFails \/ PublishUnanswered
  <2>1. CASE Len(queue) < QueueSize
    BY <1>5, <2>1, HandPutBack DEF PublishFails, PublishUnanswered, listener
  <2>2. CASE ~(Len(queue) < QueueSize)
    BY <1>5, <2>2, HandEmptied DEF PublishFails, PublishUnanswered, listener
  <2> QED
    BY <2>1, <2>2
<1>6. CASE Stop
  BY <1>6, StopKeeps
<1>7. CASE ReconnectPublisher
  BY <1>7, Elsewhere DEF ReconnectPublisher
<1>8. CASE Start \/ StartUnsynced
  <2>1. pub = "off"
    BY <1>8 DEF Start, StartUnsynced, IInv, Listens
  <2> QED
    BY <1>8, <2>1, Elsewhere DEF Start, StartUnsynced
<1>9. CASE \/ \E p \in Subscriptions : Subscribe(p) \/ Unsubscribe(p)
           \/ Synced \/ SyncFails \/ StartFails \/ Receive \/ ListenFails
           \/ ReconnectSubscriber \/ GoesDown \/ ComesBack
  BY <1>9, Elsewhere DEF Subscribe, Unsubscribe, Synced, SyncFails, StartFails, Receive,
     ListenFails, ReconnectSubscriber, GoesDown, ComesBack, publisher
<1>10. CASE UNCHANGED vars
  BY <1>10, Elsewhere DEF vars
<1> QED
  BY <1>1, <1>2, <1>3, <1>4, <1>5, <1>6, <1>7, <1>8, <1>9, <1>10 DEF Next

---------------------------------------------------------------------------
(* The listener's steps.                                                   *)

\* Accepting an event widens what may be on its way; nothing else does.
LEMMA WireStays == ASSUME IInv, [Next]_vars, wire \in Seq(Events) PROVE wire \in Seq(Events')
<1>1. taken' = taken \/ taken' = taken + 1
  BY DEF Next, vars, Subscribe, Unsubscribe, Synced, SyncFails, Start, StartUnsynced, StartFails,
     Stop, Accept, TakeOff, Publish, PublishFails, PublishUnanswered, PublishErrs,
     ReconnectPublisher, Receive, ListenFails, ReconnectSubscriber, GoesDown, ComesBack,
     publisher
<1>2. Events \subseteq Events'
  BY <1>1 DEF Events, IInv, Kept
<1> QED
  BY <1>2, SeqMonotonic

\* A new client is subscribed to all of the table, or has no connection.
LEMMA OpensHears ==
    ASSUME IInv, NEW answered \in BOOLEAN, Opens(answered), local' = local
    PROVE  /\ wire' \in Seq(Events') /\ link' \in {"none", "alive", "lost"}
           /\ link' = "alive" => answered
           /\ remote' \subseteq Subscriptions
           /\ remote' # {} => link' = "alive"
           /\ ListenerHears'
<1>1. wire' \in Seq(Events')
  BY DEF Opens
<1>2. CASE answered /\ local # {}
  BY <1>1, <1>2 DEF Opens, IInv, Listens, ListenerHears
<1>3. CASE ~(answered /\ local # {})
  BY <1>1, <1>3 DEF Opens, IInv, Listens, ListenerHears
<1> QED
  BY <1>2, <1>3

LEMMA SubscribeListens ==
    ASSUME IInv, NEW p \in Subscriptions, Subscribe(p) \/ Unsubscribe(p)
    PROVE  Listens'
<1>1. /\ UNCHANGED <<redis, running, pub, sub, link, remote, wire, outages, taken>>
      /\ Resync /\ local' \subseteq Subscriptions
  BY DEF Subscribe, Unsubscribe, publisher, IInv, Listens
<1>2. Events' = Events
  BY <1>1 DEF Events
<1>3. syncs' \in 0..1 /\ (sub' = "off" => syncs' = 0)
  BY <1>1 DEF Resync, IInv, Listens
<1>4. ListenerHears'
  <2>1. CASE running /\ sub # "off"
    BY <1>1, <2>1 DEF Resync, ListenerHears
  <2>2. CASE ~(running /\ sub # "off")
    BY <1>1, <2>2 DEF ListenerHears, IInv, Listens
  <2> QED
    BY <2>1, <2>2
<1> QED
  BY <1>1, <1>2, <1>3, <1>4 DEF IInv, Listens

LEMMA SyncedListens == ASSUME IInv, Synced \/ SyncFails PROVE Listens'
<1>1. Events' = Events /\ UNCHANGED <<redis, running, pub, sub, local, wire, outages>>
  BY DEF Synced, SyncFails, publisher, Events
<1>2. syncs' \in 0..1
  BY DEF Synced, SyncFails
<1>3. CASE Synced
  BY <1>1, <1>2, <1>3 DEF Synced, Mirrored, IInv, Listens, ListenerHears
<1>4. CASE SyncFails
  BY <1>1, <1>2, <1>4 DEF SyncFails, IInv, Listens, ListenerHears
<1> QED
  BY <1>3, <1>4

LEMMA StartListens == ASSUME IInv, Start \/ StartUnsynced \/ StartFails PROVE Listens'
<1>1. CASE Start
  <2>1. /\ UNCHANGED <<redis, local, syncs, outages, taken>>
        /\ running' = TRUE /\ pub' = "idle" /\ sub' = "listening" /\ Opens(redis) /\ redis
    BY <1>1 DEF Start
  <2> QED
    BY <2>1, OpensHears DEF IInv, Listens
<1>2. CASE StartUnsynced
  <2>1. /\ UNCHANGED <<local, syncs, taken>> /\ outages' = outages + 1 /\ outages < MaxOutages
        /\ redis' = FALSE /\ running' = TRUE /\ pub' = "idle" /\ sub' = "listening"
        /\ Opens(FALSE)
    BY <1>2 DEF StartUnsynced
  <2>2. outages' \in 0..MaxOutages
    BY <2>1 DEF IInv, Listens
  <2> QED
    BY <2>1, <2>2, OpensHears DEF IInv, Listens
<1>3. CASE StartFails
  <2>1. /\ UNCHANGED <<redis, local, sub, link, remote, wire, syncs, outages, taken, pub>>
        /\ running' = TRUE
    BY <1>3 DEF StartFails, listener, publisher
  <2>2. Events' = Events
    BY <2>1 DEF Events
  <2> QED
    BY <2>1, <2>2 DEF IInv, Listens, ListenerHears
<1> QED
  BY <1>1, <1>2, <1>3

LEMMA StopListens == ASSUME IInv, Stop PROVE Listens'
<1>1. /\ UNCHANGED <<redis, local, outages>> /\ running' = FALSE
      /\ pub' = "off" /\ sub' = "off" /\ link' = "none" /\ remote' = {} /\ wire' = <<>>
      /\ syncs' = 0
  BY DEF Stop
<1>2. wire' \in Seq(Events')
  BY <1>1
<1>3. running' \in BOOLEAN
  BY DEF Stop
<1>4. ListenerHears'
  BY <1>1 DEF ListenerHears
<1> QED
  BY <1>1, <1>2, <1>3, <1>4 DEF IInv, Listens

\* Publishing appends to what is on its way, if anything.
LEMMA PublishListens ==
    ASSUME IInv, [Next]_vars, Publish \/ PublishFails \/ PublishUnanswered \/ PublishErrs
    PROVE  Listens'
<1>1. /\ UNCHANGED <<redis, running, local, sub, link, remote, syncs, taken>>
      /\ wire' \in {wire, Delivered} /\ pub = "sending" /\ pub' \in {"idle", "waiting"}
      /\ outages' = outages \/ (outages' = outages + 1 /\ outages < MaxOutages)
  BY DEF Publish, PublishFails, PublishUnanswered, PublishErrs, listener
<1>2. Events' = Events
  BY <1>1 DEF Events
<1>3. wire' \in Seq(Events')
  BY <1>1, <1>2, DeliveredOK DEF IInv, Listens
<1>4. outages' \in 0..MaxOutages
  BY <1>1 DEF IInv, Listens
<1> QED
  BY <1>1, <1>3, <1>4 DEF IInv, Listens, ListenerHears

\* The publisher's other steps do not concern the listener.
LEMMA PublisherElsewhere ==
    ASSUME IInv, [Next]_vars, UNCHANGED <<redis, running, local, listener, outages>>,
           pub = "off" <=> pub' = "off"
    PROVE  Listens'
<1>1. wire' \in Seq(Events')
  BY WireStays DEF listener, IInv, Listens
<1> QED
  BY <1>1 DEF listener, IInv, Listens, ListenerHears

LEMMA ReceiveListens == ASSUME IInv, Receive \/ ListenFails PROVE Listens'
<1>1. /\ UNCHANGED <<redis, running, local, pub, link, remote, syncs, outages, taken>>
      /\ sub = "listening" /\ sub' \in {"listening", "waiting"}
      /\ (wire # <<>> /\ wire' = Tail(wire)) \/ wire' = wire
  BY DEF Receive, ListenFails, publisher
<1>2. Events' = Events
  BY <1>1 DEF Events
<1>3. wire' \in Seq(Events')
  BY <1>1, <1>2, HeadTailProperties DEF IInv, Listens
<1> QED
  BY <1>1, <1>3 DEF IInv, Listens, ListenerHears

LEMMA ReconnectListens == ASSUME IInv, ReconnectSubscriber PROVE Listens'
<1>1. /\ UNCHANGED <<redis, running, local, pub, syncs, outages, taken>>
      /\ sub = "waiting" /\ sub' = "listening" /\ Opens(redis)
  BY DEF ReconnectSubscriber, publisher
<1>2. redis \in BOOLEAN
  BY DEF IInv, Listens
<1> QED
  BY <1>1, <1>2, OpensHears DEF IInv, Listens

LEMMA RedisListens == ASSUME IInv, GoesDown \/ ComesBack PROVE Listens'
<1>1. UNCHANGED <<running, local, pub, sub, syncs, taken>>
  BY DEF GoesDown, ComesBack, publisher, listener
<1>2. Events' = Events
  BY <1>1 DEF Events
<1>3. CASE GoesDown
  <2>1. PICK n \in 0..Len(wire) : wire' = SubSeq(wire, 1, n)
    BY <1>3 DEF GoesDown
  <2>2. wire' \in Seq(Events')
    <3>1. Len(wire) \in Nat /\ wire \in Seq(Events)
      BY LenProperties DEF IInv, Listens
    <3>2. \A i \in 1..n : wire[i] \in Events
      BY <3>1, ElementOfSeq
    <3> QED
      BY <1>2, <2>1, <3>1, <3>2, SubSeqProperties
  <2>3. /\ redis' = FALSE /\ link' \in {"none", "lost"} /\ remote' = {}
        /\ link' = IF link = "alive" THEN "lost" ELSE link
        /\ outages' \in 0..MaxOutages
    BY <1>3 DEF GoesDown, IInv, Listens
  <2> QED
    BY <1>1, <2>2, <2>3 DEF IInv, Listens, ListenerHears
<1>4. CASE ComesBack
  BY <1>1, <1>2, <1>4 DEF ComesBack, listener, IInv, Listens, ListenerHears
<1> QED
  BY <1>3, <1>4

\* Every step keeps the listener's half.
LEMMA ListensStep == ASSUME IInv, [Next]_vars PROVE Listens'
<1>1. CASE \E p \in Subscriptions : Subscribe(p) \/ Unsubscribe(p)
  BY <1>1, SubscribeListens
<1>2. CASE Synced \/ SyncFails
  BY <1>2, SyncedListens
<1>3. CASE Start \/ StartUnsynced \/ StartFails
  BY <1>3, StartListens
<1>4. CASE Stop
  BY <1>4, StopListens
<1>5. CASE Publish \/ PublishFails \/ PublishUnanswered \/ PublishErrs
  BY <1>5, PublishListens
<1>6. CASE Accept \/ TakeOff \/ ReconnectPublisher \/ UNCHANGED vars
  BY <1>6, PublisherElsewhere DEF Accept, TakeOff, ReconnectPublisher, vars, listener
<1>7. CASE Receive \/ ListenFails
  BY <1>7, ReceiveListens
<1>8. CASE ReconnectSubscriber
  BY <1>8, ReconnectListens
<1>9. CASE GoesDown \/ ComesBack
  BY <1>9, RedisListens
<1> QED
  BY <1>1, <1>2, <1>3, <1>4, <1>5, <1>6, <1>7, <1>8, <1>9 DEF Next

---------------------------------------------------------------------------
(* The theorems.                                                           *)

\* The inductive invariant holds in every reachable state.
THEOREM RedisBusSafety == Spec => []IInv
<1>1. Init => IInv
  BY InitIInv
<1>2. IInv /\ [Next]_vars => IInv'
  BY KeptStep, ListensStep DEF IInv
<1> QED
  BY <1>1, <1>2, PTL DEF Spec

\* Type correctness (core/event_bus_redis.py:274-320, 416-445).
THEOREM RedisBusTypeOK == Spec => []TypeOK
<1>1. IInv => TypeOK
  BY DEF IInv, Kept, Listens, TypeOK, Distinct
<1> QED
  BY <1>1, RedisBusSafety, PTL

\* An accepted event is queued, in hand, taken by Redis, given up or cut off
\* by a stop (core/event_bus_redis.py:274-320).
THEOREM NoEventVanishes == Spec => []NothingVanishes
<1>1. IInv => NothingVanishes
  BY DEF IInv, Kept
<1> QED
  BY <1>1, RedisBusSafety, PTL

\* A live connection is subscribed to what local callbacks wait for, or a
\* synchronisation is under way (core/event_bus_redis.py:416-445, 470-493).
THEOREM LiveConnectionsHear == Spec => []ListenerHears
<1>1. IInv => ListenerHears
  BY DEF IInv, Listens
<1> QED
  BY <1>1, RedisBusSafety, PTL

===============================================================================
