--------------------------------- MODULE EventBus --------------------------------
(***************************************************************************)
(* The in-process event bus (core/event_bus.py): a bounded queue, a table  *)
(* of subscriptions, and one task that takes an event off the queue and    *)
(* awaits every callback that matches it, one after the other.  The list   *)
(* of callbacks is made when the event is taken: a callback that is        *)
(* unsubscribed meanwhile is still called.                                 *)
(*                                                                         *)
(* A callback is named by its subscription, a pattern and a subscriber.    *)
(* What a callback does is up to the module that extends this one.         *)
(***************************************************************************)
EXTENDS Integers, Sequences, SequencesExt

CONSTANTS
    Subscribers,
    QueueSize      \* max_queue_size

ASSUME QueueAssumption == QueueSize \in Nat \ {0}

VARIABLES
    running,     \* _running, and the dispatch task
    queue,       \* _queue
    subscribed,  \* _wildcard_subscribers and _subscribers, by pattern
    event,       \* the event being dispatched
    calls,       \* the subscriptions still to be called with it, the current one first
    \* history
    taken,       \* events accepted so far: each has its number
    heard,       \* the latest event each subscription was called with
    times        \* how often each subscription was called

busVars == <<running, queue, subscribed, event, calls, taken, heard, times>>

---------------------------------------------------------------------------
Types == {"point.reported", "point.quality_changed"}
Prefix == "point.*"
Patterns == {"*", Prefix} \cup Types
Subscriptions == Patterns \X Subscribers

NoEvent == [n |-> 0, type |-> "none", about |-> "none", value |-> 0]

Under(pattern) == [i \in DOMAIN subscribed[pattern] |-> <<pattern, subscribed[pattern][i]>>]

\* Who is called with an event: the wildcard, the type, the prefix.
Matching(e) == Under("*") \o Under(e.type) \o Under(Prefix)

\* The list s without e, which stands in it at most once.
Without(s, e) == IF e \in Range(s) THEN RemoveAt(s, CHOOSE i \in DOMAIN s : s[i] = e) ELSE s

Subscribe(pattern, who) ==
    /\ subscribed' = [subscribed EXCEPT ![pattern] = Append(@, who)]
    /\ UNCHANGED <<running, queue, event, calls, taken, heard, times>>

Unsubscribe(pattern, who) ==
    /\ subscribed' = [subscribed EXCEPT ![pattern] = Without(@, who)]
    /\ UNCHANGED <<running, queue, event, calls, taken, heard, times>>

HasRoom == Len(queue) < QueueSize

\* publish_nowait with room in the queue, or publish once there is room.
Accept(type, about, value) ==
    /\ HasRoom
    /\ taken' = taken + 1
    /\ queue' = Append(queue, [n |-> taken', type |-> type, about |-> about, value |-> value])
    /\ UNCHANGED <<running, subscribed, event, calls, heard, times>>

\* publish_nowait drops what it is given when the queue is full.
PublishNowait(type, about, value) ==
    \/ Accept(type, about, value)
    \/ ~HasRoom /\ UNCHANGED busVars

\* The next callback starts as soon as the one before it is over.
CallNext(e, cs) ==
    /\ calls' = cs
    /\ event' = IF cs = <<>> THEN NoEvent ELSE e
    /\ heard' = IF cs = <<>> THEN heard ELSE [heard EXCEPT ![Head(cs)] = e.n]
    /\ times' = IF cs = <<>> THEN times ELSE [times EXCEPT ![Head(cs)] = @ + 1]

\* Mutant of TakeOff: the task ends with the first event it has dispatched.
TakeOffOnce ==
    /\ running /\ event = NoEvent /\ queue # <<>> /\ heard = [s \in Subscriptions |-> 0]
    /\ queue' = Tail(queue)
    /\ CallNext(Head(queue), Matching(Head(queue)))
    /\ UNCHANGED <<running, subscribed, taken>>

\* The dispatch loop gets an event.
TakeOff ==
    /\ running /\ event = NoEvent /\ queue # <<>>
    /\ queue' = Tail(queue)
    /\ CallNext(Head(queue), Matching(Head(queue)))
    /\ UNCHANGED <<running, subscribed, taken>>

\* Mutant of Returns: a callback that raises is tried again, after the others.
ReturnsAgain ==
    /\ event # NoEvent
    /\ CallNext(event, Append(Tail(calls), Head(calls)))
    /\ UNCHANGED <<running, queue, subscribed, taken>>

\* The callback returned or raised: the loop goes on either way.
Returns ==
    /\ event # NoEvent
    /\ CallNext(event, Tail(calls))
    /\ UNCHANGED <<running, queue, subscribed, taken>>

StartBus ==
    /\ ~running /\ running' = TRUE
    /\ UNCHANGED <<queue, subscribed, event, calls, taken, heard, times>>

\* The task is cancelled, in the middle of a callback if there is one; what is
\* queued stays queued.
StopBus ==
    /\ running /\ running' = FALSE
    /\ event' = NoEvent /\ calls' = <<>>
    /\ UNCHANGED <<queue, subscribed, taken, heard, times>>

BusInit ==
    /\ running = FALSE
    /\ queue = <<>>
    /\ subscribed = [p \in Patterns |-> <<>>]
    /\ event = NoEvent
    /\ calls = <<>>
    /\ taken = 0
    /\ heard = [s \in Subscriptions |-> 0]
    /\ times = [s \in Subscriptions |-> 0]

\* Events about some things, with some values.
Events(abouts, values) == [n : 1..taken, type : Types, about : abouts, value : values]

BusTypeOK(abouts, values) ==
    /\ running \in BOOLEAN
    /\ queue \in Seq(Events(abouts, values)) /\ Len(queue) <= QueueSize
    /\ subscribed \in [Patterns -> Seq(Subscribers)]
    /\ calls \in Seq(Subscriptions)
    /\ event \in Events(abouts, values) \cup {NoEvent}
    /\ event = NoEvent <=> calls = <<>>
    /\ ~running => event = NoEvent
    /\ taken \in Nat
    /\ heard \in [Subscriptions -> 0..taken] /\ times \in [Subscriptions -> Nat]

\* The bus keeps the contract its users count on (BusContract): in order, at
\* most once, nothing invented (core/event_bus.py:104-131).
Contract == INSTANCE BusContract

===============================================================================
