------------------------------- MODULE PointValues -------------------------------
(***************************************************************************)
(* How a reading becomes the last-known value and reaches the clients that *)
(* watch.  A reader (the polling scheduler, an API request, an agent)      *)
(* awaits the adapter, saves the value under the store's write lock and    *)
(* publishes point.reported (core/registry.py:207-228).  The engine        *)
(* subscribes to that event and saves the value again, without its raw     *)
(* form (core/engine.py:231-239).  The agents' event streams               *)
(* (agent/events.py) subscribe too and queue it for each client.           *)
(*                                                                         *)
(* The nth reading the device gives of a point has the value n.  A write   *)
(* that fails may have changed the row before it did: SQLite's connection  *)
(* is shared, the row is seen by readers and committed by the next writer. *)
(***************************************************************************)
EXTENDS EventBus, FiniteSets

CONSTANTS
    Points,
    Readers,       \* calls of read_point that may be under way at once
    Clients,       \* SSE clients
    Wants,         \* [Clients -> set of points], the devices filter; empty: no filter
    WatchedFor,    \* patterns some other subscriber comes and goes under
    ClientQueue,   \* max_queue_per_client
    MaxReadings,   \* bound: readings a device gives of a point
    MaxEvents,     \* bound: events the bus takes
    MaxFaults      \* bound: writes that fail or are cancelled half way

ASSUME WatchedAssumption == WatchedFor \subseteq Patterns
ASSUME FiltersAssumption == Wants \in [Clients -> SUBSET Points]
ASSUME PeopleAssumption == {"engine", "stream", "watcher"} \subseteq Subscribers
ASSUME ReadersAssumption == "dispatcher" \notin Readers
ASSUME LimitsAssumption ==
    /\ ClientQueue \in Nat \ {0}
    /\ MaxReadings \in Nat /\ MaxEvents \in Nat /\ MaxFaults \in Nat

VARIABLES
    reader,    \* where each read_point is, and what it read
    writers,   \* who holds _write_lock, then who waits for it
    stored,    \* point_values
    readings,  \* readings the device has given of each point
    client,    \* _clients: each client's queue and counts
    faults,
    \* history
    saved,     \* the reading of each point that a reader saved last
    spoiled    \* points of which an event was dropped or lost, or a write failed

valueVars == <<reader, writers, stored, readings, faults, saved, spoiled>>
vars == <<busVars, valueVars, client>>

---------------------------------------------------------------------------
Dispatcher == "dispatcher"
Idle == [pc |-> "idle", point |-> "none", value |-> 0]
Off == [on |-> FALSE, box |-> <<>>, sent |-> 0, dropped |-> 0, yielded |-> 0]
Persists == <<"point.reported", "engine">>
Streams == <<"point.reported", "stream">>

\* Engine.start has subscribed the callback that persists.
Wired == subscribed[Persists[1]] # <<>>

Holds(w) == writers # <<>> /\ Head(writers) = w

\* Mutant of Line: every callback takes the lock.
LineBlind(ws, cs) == IF cs # <<>> THEN Append(ws, Dispatcher) ELSE ws

\* The current callback of the dispatcher queues for the lock if it persists.
Line(ws, cs) == IF cs # <<>> /\ Head(cs) = Persists THEN Append(ws, Dispatcher) ELSE ws

\* Events taken, and those of the readings that are being saved.
Foreseen == taken + Cardinality({r \in Readers : reader[r].pc = "saving"})

---------------------------------------------------------------------------
(* read_point.                                                             *)

ReadBegins(r, p) ==
    /\ Wired /\ reader[r].pc = "idle" /\ readings[p] < MaxReadings
    /\ reader' = [reader EXCEPT ![r] = [Idle EXCEPT !.pc = "reading", !.point = p]]
    /\ UNCHANGED <<busVars, writers, stored, readings, client, faults, saved, spoiled>>

\* The adapter answers, and save_point_value waits for the lock.
ReadReturns(r) ==
    /\ reader[r].pc = "reading"
    /\ readings[reader[r].point] < MaxReadings /\ Foreseen < MaxEvents
    /\ readings' = [readings EXCEPT ![reader[r].point] = @ + 1]
    /\ reader' = [reader EXCEPT ![r].pc = "saving", ![r].value = readings'[reader[r].point]]
    /\ writers' = Append(writers, r)
    /\ UNCHANGED <<busVars, stored, client, faults, saved, spoiled>>

\* It raised, or the scheduler's time-out cancelled it.
ReadFails(r) ==
    /\ reader[r].pc = "reading"
    /\ reader' = [reader EXCEPT ![r] = Idle]
    /\ UNCHANGED <<busVars, writers, stored, readings, client, faults, saved, spoiled>>

\* Mutant of Saves: published before it is saved.
SavesUnsaved(r) ==
    LET p == reader[r].point
    IN  /\ reader[r].pc = "saving" /\ Holds(r)
        /\ PublishNowait("point.reported", p, reader[r].value)
        /\ saved' = [saved EXCEPT ![p] = reader[r].value]
        /\ spoiled' = spoiled
        /\ reader' = [reader EXCEPT ![r] = Idle]
        /\ writers' = Tail(writers)
        /\ UNCHANGED <<stored, readings, client, faults>>

\* The row is committed, the lock released and the event published without
\* an await between them.
Saves(r) ==
    LET p == reader[r].point
    IN  /\ reader[r].pc = "saving" /\ Holds(r)
        /\ stored' = [stored EXCEPT ![p] = [value |-> reader[r].value, raw |-> TRUE]]
        /\ saved' = [saved EXCEPT ![p] = reader[r].value]
        /\ PublishNowait("point.reported", p, reader[r].value)
        /\ spoiled' = IF HasRoom THEN spoiled ELSE spoiled \cup {p}
        /\ reader' = [reader EXCEPT ![r] = Idle]
        /\ writers' = Tail(writers)
        /\ UNCHANGED <<readings, client, faults>>

\* The write failed, or the call was cancelled in the line or while it wrote.
SaveFails(r) ==
    LET p == reader[r].point
    IN  /\ reader[r].pc = "saving" /\ faults < MaxFaults
        /\ faults' = faults + 1
        /\ stored' \in {stored} \cup
              IF Holds(r) THEN {[stored EXCEPT ![p] = [value |-> reader[r].value, raw |-> TRUE]]}
              ELSE {}
        /\ spoiled' = spoiled \cup {p}
        /\ reader' = [reader EXCEPT ![r] = Idle]
        /\ writers' = Without(writers, r)
        /\ UNCHANGED <<busVars, readings, client, saved>>

---------------------------------------------------------------------------
(* The bus at work.                                                        *)

\* The scheduler suspends a point and says so.
QualityChanges(p) ==
    /\ Wired /\ Foreseen < MaxEvents
    /\ PublishNowait("point.quality_changed", p, 0)
    /\ UNCHANGED <<valueVars, client>>

Dispatches ==
    /\ TakeOff
    /\ writers' = Line(writers, calls')
    /\ UNCHANGED <<reader, stored, readings, client, faults, saved, spoiled>>

\* _on_point_reported: the value is written again, now without its raw form.
Persisted ==
    /\ calls # <<>> /\ Head(calls) = Persists /\ Holds(Dispatcher)
    /\ stored' = [stored EXCEPT ![event.about] = [value |-> event.value, raw |-> FALSE]]
    /\ Returns
    /\ writers' = Line(Tail(writers), calls')
    /\ UNCHANGED <<reader, readings, client, faults, saved, spoiled>>

PersistFails ==
    /\ calls # <<>> /\ Head(calls) = Persists /\ Holds(Dispatcher) /\ faults < MaxFaults
    /\ faults' = faults + 1
    /\ stored' \in {stored, [stored EXCEPT ![event.about] = [value |-> event.value, raw |-> FALSE]]}
    /\ Returns
    /\ writers' = Line(Tail(writers), calls')
    /\ spoiled' = spoiled \cup {event.about}
    /\ UNCHANGED <<reader, readings, client, saved>>

Watched ==
    /\ calls # <<>> /\ Head(calls)[2] = "watcher"
    /\ Returns
    /\ writers' = Line(writers, calls')
    /\ UNCHANGED <<reader, stored, readings, client, faults, saved, spoiled>>

\* Mutant of Put: a full queue refuses what comes last.
PutRefused(c, n) ==
    IF Len(c.box) < ClientQueue THEN [c EXCEPT !.box = Append(@, n), !.sent = @ + 1]
    ELSE [c EXCEPT !.dropped = @ + 1]

\* A full queue loses its oldest event to the new one.
Put(c, n) ==
    IF Len(c.box) < ClientQueue THEN [c EXCEPT !.box = Append(@, n), !.sent = @ + 1]
    ELSE [c EXCEPT !.box = Append(Tail(@), n), !.sent = @ + 1, !.dropped = @ + 1]

\* ClientFilter.matches, for the devices: an empty set filters nothing.
Passes(c, p) == Wants[c] = {} \/ p \in Wants[c]

\* dispatch: nothing is awaited once the list of clients is made.
Streamed ==
    /\ calls # <<>> /\ Head(calls) = Streams
    /\ client' = [c \in Clients |->
          IF client[c].on /\ Passes(c, event.about) THEN Put(client[c], event.n) ELSE client[c]]
    /\ Returns
    /\ writers' = Line(writers, calls')
    /\ UNCHANGED <<reader, stored, readings, faults, saved, spoiled>>

Watches(pattern) ==
    /\ Wired /\ "watcher" \notin Range(subscribed[pattern])
    /\ Subscribe(pattern, "watcher")
    /\ UNCHANGED <<valueVars, client>>

Unwatches(pattern) ==
    /\ "watcher" \in Range(subscribed[pattern])
    /\ Unsubscribe(pattern, "watcher")
    /\ UNCHANGED <<valueVars, client>>

\* bind_event_bus.
Binds ==
    /\ Wired /\ "stream" \notin Range(subscribed["point.reported"])
    /\ Subscribe("point.reported", "stream")
    /\ UNCHANGED <<valueVars, client>>

\* Engine.start: the bus, and the subscription that persists.  Nothing reads yet.
Starts ==
    /\ subscribed[Persists[1]] = <<>>
    /\ StartBus
    /\ UNCHANGED <<valueVars, client>>

Wires ==
    /\ running /\ subscribed[Persists[1]] = <<>>
    /\ Subscribe(Persists[1], Persists[2])
    /\ UNCHANGED <<valueVars, client>>

\* Engine.stop: what is queued or being dispatched is never persisted.
Stops ==
    /\ Wired /\ StopBus
    /\ writers' = Without(writers, Dispatcher)
    /\ spoiled' = spoiled \cup {queue[i].about : i \in DOMAIN queue}
                          \cup (IF event = NoEvent THEN {} ELSE {event.about})
    /\ UNCHANGED <<reader, stored, readings, client, faults, saved>>

---------------------------------------------------------------------------
(* The streams.                                                            *)

\* A new connection takes the place of one that has the id already.
Connects(c) ==
    /\ client' = [client EXCEPT ![c] = [Off EXCEPT !.on = TRUE]]
    /\ UNCHANGED <<busVars, valueVars>>

\* The generator is closed, or its request cancelled.
Disconnects(c) ==
    /\ client[c].on
    /\ client' = [client EXCEPT ![c] = Off]
    /\ UNCHANGED <<busVars, valueVars>>

Yields(c) ==
    /\ client[c].on /\ client[c].box # <<>>
    /\ client' = [client EXCEPT ![c].box = Tail(@), ![c].yielded = @ + 1]
    /\ UNCHANGED <<busVars, valueVars>>

---------------------------------------------------------------------------
Init ==
    /\ BusInit
    /\ reader = [r \in Readers |-> Idle]
    /\ writers = <<>>
    /\ stored = [p \in Points |-> [value |-> 0, raw |-> FALSE]]
    /\ readings = [p \in Points |-> 0]
    /\ client = [c \in Clients |-> Off]
    /\ faults = 0
    /\ saved = [p \in Points |-> 0]
    /\ spoiled = {}

Next ==
    \/ \E r \in Readers : \/ \E p \in Points : ReadBegins(r, p)
                          \/ ReadReturns(r) \/ ReadFails(r) \/ Saves(r) \/ SaveFails(r)
    \/ \E p \in Points : QualityChanges(p)
    \/ Dispatches \/ Persisted \/ PersistFails \/ Watched \/ Streamed
    \/ \E pattern \in WatchedFor : Watches(pattern) \/ Unwatches(pattern)
    \/ Starts \/ Wires \/ Binds \/ Stops
    \/ \E c \in Clients : Connects(c) \/ Disconnects(c) \/ Yields(c)

\* The event loop runs what is ready and SQLite answers.
Fairness ==
    /\ WF_vars(Dispatches) /\ WF_vars(Persisted) /\ WF_vars(Watched) /\ WF_vars(Streamed)
    /\ \A r \in Readers : WF_vars(Saves(r) \/ SaveFails(r))

Spec == Init /\ [][Next]_vars /\ Fairness

---------------------------------------------------------------------------
(* Properties.                                                             *)

\* The state has its shape, and each writer in the line is one that stands
\* there (core/state_store.py:355, core/event_bus.py:104-131).
TypeOK ==
    /\ BusTypeOK(Points, 0..MaxReadings)
    /\ reader \in [Readers -> [pc : {"idle", "reading", "saving"},
                               point : Points \cup {"none"}, value : 0..MaxReadings]]
    /\ writers \in Seq(Readers \cup {Dispatcher})
    /\ \A i, j \in DOMAIN writers : writers[i] = writers[j] => i = j
    /\ Range(writers) = {r \in Readers : reader[r].pc = "saving"} \cup
                        {d \in {Dispatcher} : calls # <<>> /\ Head(calls) = Persists}
    /\ stored \in [Points -> [value : 0..MaxReadings, raw : BOOLEAN]]
    /\ client \in [Clients -> [on : BOOLEAN, box : Seq(1..taken), sent : 0..taken,
                               dropped : 0..taken, yielded : 0..taken]]
    /\ saved \in [Points -> 0..MaxReadings] /\ spoiled \subseteq Points
    /\ readings \in [Points -> 0..MaxReadings] /\ faults \in 0..MaxFaults

\* The stored value is the reading saved last, or an event that will write that
\* reading again is still under way: although every value is written twice, the
\* second time late and perhaps over a newer one, the point settles on its last
\* reading, unless an event or a write of it was lost
\* (core/registry.py:213-226, core/engine.py:231-239).
SettlesOnTheLast ==
    \A p \in Points \ spoiled :
        \/ stored[p].value = saved[p]
        \/ \E i \in DOMAIN queue : queue[i].about = p /\ queue[i].value = saved[p]
        \/ event.about = p /\ event.value = saved[p] /\ Persists \in Range(calls)

\* A client's queue holds the newest events it asked for, in order, and every
\* event counted as sent was yielded, dropped or is still there
\* (agent/events.py:155-189).
StreamAccounts ==
    \A c \in Clients :
        LET box == client[c].box
        IN  /\ Len(box) <= ClientQueue
            /\ \A i, j \in DOMAIN box : i < j => box[i] < box[j]
            /\ client[c].sent = client[c].yielded + client[c].dropped + Len(box)
            /\ (running /\ event = NoEvent /\ Wants[c] = {} /\ box # <<>>)
                   => Last(box) = heard[Streams]

\* The bus keeps its contract: see EventBus.
KeepsBusContract == Contract!Spec

\* What the bus took it dispatches, whatever the callbacks do
\* (core/event_bus.py:122-131).
EveryEventIsDispatched ==
    \A n \in 1..MaxEvents :
        (\E i \in DOMAIN queue : queue[i].n = n) ~>
            (~running \/ \A i \in DOMAIN queue : queue[i].n # n)

===============================================================================
