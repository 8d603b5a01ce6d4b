------------------------------- MODULE Lifecycle -------------------------------
(***************************************************************************)
(* Connections from commissioning to teardown, across restarts: the API's  *)
(* connect and disconnect handlers (core/api.py), the registry's map of    *)
(* live connections (core/registry.py), the sessions the adapters hold,    *)
(* the rows in SQLite (core/state_store.py), the polling targets           *)
(* (core/scheduler.py) and the engine that restores connections at its     *)
(* start and tears them down at its stop (core/engine.py).                 *)
(*                                                                         *)
(* Every row is written through one SQLite connection under one FIFO lock, *)
(* so whoever commits also commits what a failed writer left behind.       *)
(*                                                                         *)
(* Left out: what a profile, a device or a point contains.  A profile is a *)
(* bridge; its one device stands for all of them, with the same id in every *)
(* inventory, and its points are written after its devices.                *)
(***************************************************************************)
EXTENDS Integers, FiniteSets, Sequences, SequencesExt

CONSTANTS
    Handlers,      \* API requests that may be under way at once
    Engine,        \* the engine's own task: restores and teardowns
    Profiles,
    Restores,      \* FALSE in it: the engine may be started with --no-restore
    MaxConns,      \* bound: connections ever commissioned
    MaxFaults,     \* bound: writes that SQLite refuses
    MaxCrashes     \* bound: times the process is killed

ASSUME WorkersAssumption == Engine \notin Handlers
ASSUME RestoresAssumption == Restores \subseteq BOOLEAN
ASSUME BoundsAssumption == MaxConns \in Nat /\ MaxFaults \in Nat /\ MaxCrashes \in Nat

Conns == 1..MaxConns
Nobody == 0        \* no connection
Workers == Handlers \cup {Engine}

VARIABLES
    phase,     \* of the process: down, starting, up, stopping
    live,      \* _connection_to_adapter: connections the registry knows
    sessions,  \* the adapters' own _connections
    targets,   \* _targets: which connection a profile's points are polled over
    store,     \* the rows as the program sees them
    durable,   \* the rows as last committed
    writers,   \* who holds _write_lock, then who waits for it
    frame,     \* where each worker is, with its connection, profile and restored row
    todo,      \* the rows or connections the engine still has to handle
    issued,    \* connection ids handed out so far
    faults, crashes,
    \* history
    acked,     \* connections a client was told of and nobody has taken down
    gone,      \* connections a client was told are disconnected
    overtaken, \* connections whose disconnect began before their connect ended
    torn,      \* profiles of which an inventory failed half way
    lastLive   \* the connections that were active when the process last ended

memory == <<live, sessions, targets, writers, frame, todo>>
history == <<acked, gone, overtaken, torn, lastLive>>
vars == <<phase, memory, store, durable, issued, faults, crashes, history>>

---------------------------------------------------------------------------
NoRow == [status |-> "none", profile |-> "none"]

Idle == [pc |-> "idle", conn |-> Nobody, profile |-> "none", old |-> Nobody]

At(w, pc) == frame[w].pc = pc

Goto(w, pc) == frame' = [frame EXCEPT ![w].pc = pc]

\* A store call waits for the lock; the first in line has it.
Queue(w) == writers' = Append(writers, w)
Holds(w) == writers # <<>> /\ Head(writers) = w
Unlock == writers' = Tail(writers)

Status(s, c) == s.rows[c].status

\* Mutant of WithRow: a status nobody looks for.
WithRowMisspelt(s, c, p, status) ==
    [s EXCEPT !.rows[c] = [status |-> IF status = "commissioned" THEN "connected" ELSE status,
                           profile |-> p]]

\* save_connection: a row that is there keeps its adapter and takes the rest.
WithRow(s, c, p, status) == [s EXCEPT !.rows[c] = [status |-> status, profile |-> p]]

\* db.commit: everything written through the connection becomes durable.
Commit(s) == store' = s /\ durable' = s

---------------------------------------------------------------------------
(* What a worker does when its call fails.  A handler answers with an      *)
(* error; a restore marks the row it was restoring.                        *)

GiveUp(w) ==
    IF w = Engine /\ frame[w].old # Nobody
    THEN Goto(w, "marking") /\ Queue(w)
    ELSE frame' = [frame EXCEPT ![w] = Idle] /\ UNCHANGED writers

\* The same, from inside the lock.
GiveUpLocked(w) ==
    IF w = Engine /\ frame[w].old # Nobody
    THEN Goto(w, "marking") /\ writers' = Append(Tail(writers), w)
    ELSE frame' = [frame EXCEPT ![w] = Idle] /\ Unlock

---------------------------------------------------------------------------
(* POST /api/connections: commission, inventory, schedule polling.         *)

Connect(w, p) ==
    /\ phase = "up" /\ w \in Handlers /\ At(w, "idle")
    /\ frame' = [frame EXCEPT ![w] = [Idle EXCEPT !.pc = "commissioning", !.profile = p]]
    /\ UNCHANGED <<phase, live, sessions, targets, store, durable, writers, todo, issued,
                   faults, crashes, history>>

\* The adapter opened a session under a fresh id; commission registers it and
\* goes to save its row.
Commissioned(w) ==
    /\ At(w, "commissioning") /\ issued < MaxConns
    /\ issued' = issued + 1
    /\ sessions' = sessions \cup {issued'}
    /\ live' = live \cup {issued'}
    /\ frame' = [frame EXCEPT ![w].pc = "saving", ![w].conn = issued']
    /\ Queue(w)
    /\ UNCHANGED <<phase, targets, store, durable, todo, faults, crashes, history>>

\* The adapter failed, raised or ran into COMMISSION_TIMEOUT.
NotCommissioned(w) ==
    /\ At(w, "commissioning")
    /\ IF w = Engine
       THEN \/ Goto(w, "refused") /\ Queue(w)
            \/ GiveUp(w)
       ELSE GiveUp(w)
    /\ UNCHANGED <<phase, live, sessions, targets, store, durable, todo, issued, faults,
                   crashes, history>>

\* The row is committed.  inventory looks the connection up again, and the
\* adapter its session.
SaveCommissioned(w) ==
    /\ At(w, "saving") /\ Holds(w)
    /\ Commit(WithRow(store, frame[w].conn, frame[w].profile, "commissioned"))
    /\ IF frame[w].conn \in live \cap sessions
       THEN Goto(w, "inventory") /\ Unlock
       ELSE GiveUpLocked(w)
    /\ UNCHANGED <<phase, live, sessions, targets, todo, issued, faults, crashes, history>>

InventoryReturns(w) ==
    /\ At(w, "inventory")
    /\ Goto(w, "devices") /\ Queue(w)
    /\ UNCHANGED <<phase, live, sessions, targets, store, durable, todo, issued, faults,
                   crashes, history>>

\* The adapter raised or ran into INVENTORY_TIMEOUT.
InventoryFails(w) ==
    /\ At(w, "inventory")
    /\ GiveUp(w)
    /\ UNCHANGED <<phase, live, sessions, targets, store, durable, todo, issued, faults,
                   crashes, history>>

\* Mutant of PersistDevices: each row is committed by itself.
PersistDevicesEach(w) ==
    /\ At(w, "devices") /\ Holds(w)
    /\ Commit([store EXCEPT !.device[frame[w].profile] =
                 IF @ = Nobody THEN frame[w].conn ELSE @])
    /\ Goto(w, "points")
    /\ UNCHANGED <<phase, live, sessions, targets, writers, todo, issued, faults,
                   crashes, history>>

\* persist_inventory up to the points.  The row of a device that is there
\* already keeps its connection.
PersistDevices(w) ==
    /\ At(w, "devices") /\ Holds(w)
    /\ store' = [store EXCEPT !.device[frame[w].profile] =
                   IF @ = Nobody THEN frame[w].conn ELSE @]
    /\ Goto(w, "points")
    /\ UNCHANGED <<phase, live, sessions, targets, durable, writers, todo, issued, faults,
                   crashes, history>>

\* Mutant of PersistPoints: the answer does not wait for the commit.
PersistPointsUncommitted(w) ==
    /\ At(w, "points") /\ Holds(w)
    /\ store' = [store EXCEPT !.points = @ \cup {frame[w].profile}]
    /\ IF w = Engine THEN UNCHANGED <<targets, acked>>
       ELSE /\ targets' = [targets EXCEPT ![frame[w].profile] = frame[w].conn]
            /\ acked' = acked \cup ({frame[w].conn} \ overtaken)
    /\ frame' = [frame EXCEPT ![w] = Idle] /\ Unlock
    /\ UNCHANGED <<phase, live, sessions, durable, todo, issued, faults, crashes, gone, overtaken,
                   torn, lastLive>>

\* The points, the commit and, for a client, the targets and the answer.
PersistPoints(w) ==
    /\ At(w, "points") /\ Holds(w)
    /\ Commit([store EXCEPT !.points = @ \cup {frame[w].profile}])
    /\ IF w = Engine THEN UNCHANGED <<targets, acked>>
       ELSE /\ targets' = [targets EXCEPT ![frame[w].profile] = frame[w].conn]
            /\ acked' = acked \cup ({frame[w].conn} \ overtaken)
    /\ frame' = [frame EXCEPT ![w] = Idle] /\ Unlock
    /\ UNCHANGED <<phase, live, sessions, todo, issued, faults, crashes, gone, overtaken, torn,
                   lastLive>>

---------------------------------------------------------------------------
(* DELETE /api/connections/{id}, and teardown_all.                         *)

\* Mutant of Untargeted: remove_connection forgets the targets.
UntargetedNot(c) == targets

\* remove_connection.
Untargeted(c) == [p \in Profiles |-> IF targets[p] = c THEN Nobody ELSE targets[p]]

\* Connections whose connect handler is still under way.
Connecting ==
    {frame[w].conn : w \in {x \in Handlers :
        frame[x].pc \in {"saving", "inventory", "devices", "points"}}}

\* An adapter forgets the session before it closes it.
StartTeardown(w, c) ==
    IF c \in live
    THEN /\ sessions' = sessions \ {c}
         /\ frame' = [frame EXCEPT ![w] = [Idle EXCEPT !.pc = "closing", !.conn = c]]
    ELSE UNCHANGED <<sessions, frame>>

Disconnect(w, c) ==
    /\ phase = "up" /\ w \in Handlers /\ At(w, "idle") /\ c <= issued
    /\ targets' = Untargeted(c)
    /\ StartTeardown(w, c)
    /\ acked' = acked \ {c}
    /\ overtaken' = IF c \in Connecting THEN overtaken \cup {c} ELSE overtaken
    /\ UNCHANGED <<phase, live, store, durable, writers, todo, issued, faults, crashes, gone,
                   torn, lastLive>>

Closed(w) ==
    /\ At(w, "closing")
    /\ live' = live \ {frame[w].conn}
    /\ Goto(w, "dropping") /\ Queue(w)
    /\ UNCHANGED <<phase, sessions, targets, store, durable, todo, issued, faults, crashes,
                   history>>

\* The adapter raised: the connection stays in the map.
CloseFails(w) ==
    /\ At(w, "closing")
    /\ frame' = [frame EXCEPT ![w] = Idle]
    /\ UNCHANGED <<phase, live, sessions, targets, store, durable, writers, todo, issued,
                   faults, crashes, history>>

\* Mutant of SaveDisconnected: the status is left at its default.
SaveDisconnectedDefault(w) ==
    /\ At(w, "dropping") /\ Holds(w)
    /\ Commit(WithRow(store, frame[w].conn, "none", "commissioned"))
    /\ gone' = IF w = Engine THEN gone ELSE gone \cup {frame[w].conn}
    /\ frame' = [frame EXCEPT ![w] = Idle] /\ Unlock
    /\ UNCHANGED <<phase, live, sessions, targets, todo, issued, faults, crashes, acked,
                   overtaken, torn, lastLive>>

\* The row is marked, and loses its profile.
SaveDisconnected(w) ==
    /\ At(w, "dropping") /\ Holds(w)
    /\ Commit(WithRow(store, frame[w].conn, "none", "disconnected"))
    /\ gone' = IF w = Engine THEN gone ELSE gone \cup {frame[w].conn}
    /\ frame' = [frame EXCEPT ![w] = Idle] /\ Unlock
    /\ UNCHANGED <<phase, live, sessions, targets, todo, issued, faults, crashes, acked,
                   overtaken, torn, lastLive>>

---------------------------------------------------------------------------
(* SQLite refuses a write.  Nothing rolls back: what was written before it *)
(* in the same transaction stays for the next commit.                      *)

WriteFails(w) ==
    /\ Holds(w) /\ faults < MaxFaults
    /\ faults' = faults + 1
    /\ IF frame[w].pc = "marking"
       THEN \* nobody catches it but Engine.start: the other rows are not restored
            /\ frame' = [frame EXCEPT ![w] = Idle] /\ Unlock /\ todo' = {}
       ELSE GiveUpLocked(w) /\ UNCHANGED todo
    /\ torn' = IF frame[w].pc = "points" THEN torn \cup {frame[w].profile} ELSE torn
    /\ UNCHANGED <<phase, live, sessions, targets, store, durable, issued, crashes, acked, gone,
                   overtaken, lastLive>>

---------------------------------------------------------------------------
(* Engine.start, restore_connections, Engine.stop, and a kill.             *)

\* The rows and the connections are taken in the order they were created.
First(c, S) == c \in S /\ \A d \in S : c <= d

CommissionedRows == {c \in Conns : Status(store, c) = "commissioned"}

\* Components up, rows listed.  --no-restore skips the rest.
Start ==
    /\ phase = "down"
    /\ phase' = "starting"
    /\ \E restore \in Restores : todo' = IF restore THEN CommissionedRows ELSE {}
    /\ UNCHANGED <<live, sessions, targets, store, durable, writers, frame, issued, faults,
                   crashes, history>>

\* The next row: its adapter commissions it again, or is not installed any more.
RestoreNext ==
    /\ phase = "starting" /\ At(Engine, "idle")
    /\ \E c \in todo :
         LET at(pc) == [Idle EXCEPT !.pc = pc, !.profile = store.rows[c].profile, !.old = c]
         IN  /\ First(c, todo)
             /\ \/ frame' = [frame EXCEPT ![Engine] = at("commissioning")] /\ UNCHANGED writers
                \/ frame' = [frame EXCEPT ![Engine] = at("marking")] /\ Queue(Engine)
             /\ acked' = acked \ {c}
             /\ todo' = todo \ {c}
    /\ UNCHANGED <<phase, live, sessions, targets, store, durable, issued, faults, crashes,
                   gone, overtaken, torn, lastLive>>

\* A row that could not be restored is marked.
MarkDisconnected ==
    /\ frame[Engine].pc \in {"refused", "marking"} /\ Holds(Engine)
    /\ Commit(WithRow(store, frame[Engine].old, frame[Engine].profile, "disconnected"))
    /\ frame' = [frame EXCEPT ![Engine] = Idle] /\ Unlock
    /\ UNCHANGED <<phase, live, sessions, targets, todo, issued, faults, crashes, history>>

Started ==
    /\ phase = "starting" /\ At(Engine, "idle") /\ todo = {}
    /\ phase' = "up"
    /\ UNCHANGED <<memory, store, durable, issued, faults, crashes, history>>

\* The server has finished its requests before the engine stops.
Stop ==
    /\ phase = "up" /\ \A w \in Handlers : At(w, "idle")
    /\ phase' = "stopping"
    /\ todo' = live
    /\ lastLive' = live
    /\ UNCHANGED <<live, sessions, targets, store, durable, writers, frame, issued, faults,
                   crashes, acked, gone, overtaken, torn>>

TeardownNext ==
    /\ phase = "stopping" /\ At(Engine, "idle")
    /\ \E c \in todo :
         /\ First(c, todo)
         /\ StartTeardown(Engine, c)
         /\ acked' = acked \ {c}
         /\ todo' = todo \ {c}
    /\ UNCHANGED <<phase, live, targets, store, durable, writers, issued, faults, crashes,
                   gone, overtaken, torn, lastLive>>

\* Live, or on its way to be marked disconnected.
Active == live \cup {frame[w].conn : w \in {x \in Workers : At(x, "dropping")}}

\* What the process knows ends with it, and so does an open transaction.
Forget ==
    /\ phase' = "down"
    /\ live' = {} /\ sessions' = {} /\ targets' = [p \in Profiles |-> Nobody]
    /\ store' = durable
    /\ writers' = <<>> /\ frame' = [w \in Workers |-> Idle] /\ todo' = {}

Stopped ==
    /\ phase = "stopping" /\ At(Engine, "idle") /\ todo = {}
    /\ Forget
    /\ UNCHANGED <<durable, issued, faults, crashes, history>>

Crash ==
    /\ phase # "down" /\ crashes < MaxCrashes
    /\ crashes' = crashes + 1
    /\ Forget
    /\ lastLive' = IF phase = "up" THEN Active ELSE lastLive \cup Active
    /\ UNCHANGED <<durable, issued, faults, acked, gone, overtaken, torn>>

---------------------------------------------------------------------------
Init ==
    /\ phase = "down"
    /\ live = {} /\ sessions = {} /\ targets = [p \in Profiles |-> Nobody]
    /\ store = [rows |-> [c \in Conns |-> NoRow], device |-> [p \in Profiles |-> Nobody],
                points |-> {}]
    /\ durable = store
    /\ writers = <<>> /\ frame = [w \in Workers |-> Idle] /\ todo = {}
    /\ issued = 0 /\ faults = 0 /\ crashes = 0
    /\ acked = {} /\ gone = {} /\ overtaken = {} /\ torn = {} /\ lastLive = {}

Api(w) ==
    \/ \E p \in Profiles : Connect(w, p)
    \/ \E c \in Conns : Disconnect(w, c)

Work(w) ==
    \/ Commissioned(w) \/ NotCommissioned(w) \/ SaveCommissioned(w)
    \/ InventoryReturns(w) \/ InventoryFails(w) \/ PersistDevices(w) \/ PersistPoints(w)
    \/ Closed(w) \/ CloseFails(w) \/ SaveDisconnected(w) \/ WriteFails(w)

Runtime ==
    Start \/ RestoreNext \/ MarkDisconnected \/ Started \/ Stop \/ TeardownNext \/ Stopped

Next == (\E w \in Workers : Api(w) \/ Work(w)) \/ Runtime \/ Crash

Spec == Init /\ [][Next]_vars

---------------------------------------------------------------------------
(* Properties.                                                             *)

Row == [status : {"none", "commissioned", "disconnected"}, profile : Profiles \cup {"none"}]
Rows == [rows : [Conns -> Row], device : [Profiles -> Conns \cup {Nobody}],
         points : SUBSET Profiles]
Frame == [pc : {"idle", "commissioning", "saving", "inventory", "devices", "points", "closing",
                "dropping", "refused", "marking"},
          conn : Conns \cup {Nobody}, profile : Profiles \cup {"none"},
          old : Conns \cup {Nobody}]

TypeOK ==
    /\ phase \in {"down", "starting", "up", "stopping"}
    /\ live \subseteq Conns /\ sessions \subseteq Conns
    /\ targets \in [Profiles -> Conns \cup {Nobody}]
    /\ store \in Rows /\ durable \in Rows
    /\ writers \in Seq(Workers) /\ frame \in [Workers -> Frame] /\ todo \subseteq Conns
    /\ issued \in 0..MaxConns /\ faults \in 0..MaxFaults /\ crashes \in 0..MaxCrashes
    /\ acked \subseteq Conns /\ gone \subseteq Conns /\ overtaken \subseteq Conns
    /\ torn \subseteq Profiles /\ lastLive \subseteq Conns

\* A connection the client was told of is in the database, with its device and
\* its points, until somebody takes it down or restores it: a crash at any
\* moment after the answer leaves something to restore (core/api.py:418-443).
AckedIsDurable ==
    \A c \in acked :
        LET row == durable.rows[c] IN
        row.status = "commissioned" /\ durable.device[row.profile] # Nobody
            /\ row.profile \in durable.points

\* A connection the client was told is disconnected stays so: no handler that is
\* still busy with it, no later write and no restart brings it back
\* (core/registry.py:307-335).
DisconnectedForGood ==
    \A c \in gone : c \notin live /\ Status(durable, c) = "disconnected"

\* A point is polled over a connection that is gone only if the disconnect
\* overtook the connect: the handler then adds the targets that the disconnect
\* had already removed (core/api.py:432, 463).
StaleTargetsWereOvertaken ==
    phase = "up" =>
        \A p \in Profiles : targets[p] \in live \cup overtaken \cup {Nobody}

\* A device is in the database with its points or not at all, whenever the
\* process dies, unless an inventory failed between them: then the half that was
\* written is committed by the next writer (core/state_store.py:416-447).
WholeInventory ==
    \A p \in Profiles \ torn : durable.device[p] # Nobody => p \in durable.points

---------------------------------------------------------------------------
(* What the documents say and the code does not do.                        *)

\* core/registry.py:342 "Re-commissions all previously active connections."
\* What is restored was active when the process last ended.
RestoresWhatWasActive ==
    [][\A c \in Conns :
        frame[Engine].old # c /\ frame'[Engine].old = c => c \in lastLive]_vars
================================================================================
