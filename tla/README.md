# Smartspaces: specifications, model checking and proofs

Smartspaces drives devices of many protocols behind one HTTP API and offers them
to AI agents through a small set of tools. The program is one Python process
with one asyncio event loop. Between two `await`s a handler runs alone; at an
`await` any other handler, timer or request may run. That, time-outs,
cancellation and restarts are what these modules are about.

Everything is translated from the source; `PROJECT.json` maps each definition to
its lines. Python 3.11, the image's (`Dockerfile`), is assumed where asyncio's own
behaviour matters.

## The system

| part | state it keeps | operations | talks to |
|---|---|---|---|
| AI safety guard, `agent/safety.py` | rate window per device, pending confirmations | check_write, record_write, request / approve / deny / list | asked by the agent tools; answered by a human over the API |
| Agent tools, `agent/tools.py` | none of its own | set_device, scenes, groups, intents, schedules, locks | guard, coordinator, scheduler, registry |
| Coordination, `agent/coordination.py` | lease per device | acquire, release, check_write, list | the lock tools and endpoints |
| Action scheduler, `agent/agent_scheduler.py` | schedules and their asyncio tasks | schedule, cancel, run | calls the tools |
| Registry, `core/registry.py` | connection to adapter | commission, inventory, read, execute, teardown, restore | adapters, state store, event bus |
| State store, `core/state_store.py` | SQLite: connections, devices, values, audit | save, list, audit, prune | everything above it; survives restarts |
| REST API, `core/api.py` | idempotency cache | commands, connections, confirmations | registry, tools |
| Polling scheduler, `core/scheduler.py` | poll targets with error counts | add, remove, poll, suspend, recover | registry.read_point |
| Event buses, `core/event_bus*.py` | bounded queue, subscribers, Redis connections | publish, dispatch, reconnect, stop | registry publishes, engine subscribes |
| Engine, `core/engine.py` | start/stop order | start, stop, persist reported points | all of core |
| Event streams, `agent/events.py` | queue per client | connect, dispatch, disconnect | event bus (not wired) |
| Spaces, scenes, groups, intents, analytics, history | look-up tables, statistics | resolve, suggest | read only |
| Adapters and SDK | protocol connections | discover, commission, read, execute | devices |

What is hard, and what has to hold:

* guard and tools: the verdict is computed before, and the write counted after,
  the await of the adapter. Gated devices must never be written, limits may be
  overshot only by those in flight, a confirmation is answered once and in time.
* commands: lookup, audit, device, audit and cache are separated by awaits, time
  out, fail and crash. Nothing may reach a device unaudited, no success may be
  invented, a replay must be the truth.
* leases: expiry is noticed lazily and priorities preempt. What an agent was
  told must stay true.
* schedules: a status in a table and a task on the loop, changed by different
  parties. They must agree as far as asyncio lets them, and a schedule that is
  cancelled while it waits must not run.
* connections and inventory: partly written transactions, restarts, teardown
  while in use. What a client was told must be what the database holds.
* polling: targets change while their reads are under way. Errors must be
  counted on the right target, and nobody may be forgotten.
* events and point values: bounded queues, late second writes, connections that
  are lost. The stored value must settle on the latest reading, and no event
  may vanish unaccounted.
* adapters: ids that are glued together in one place and cut up in another,
  commands of several requests, of which some look at the verdict and others do
  not, clients opened before their connection exists. It must be known which
  values are the equipment's, which successes are real, and which clients can be
  left open.

The full list of hazards, at their lines and with the properties that cover
them, is `hazards` in `PROJECT.json`.

## The modules

**AgentGateway** models `_tool_set_device`, `AISafetyGuard` and the confirmation
endpoints. `rate` and `confirmations` are the guard's two dicts; `caller` is what
each concurrent call has in its frame. `StartWrite` is the code up to the first
await (`SetDevice` from an agent, `Approve` from a human's approval),
`AdapterApplies` is the device, `ExecuteReturns`, `ExecuteRaises` and
`ReadbackDone` are the ways on. An id that left the confirmation dict keeps a
status that says how, which the code forgets; `lastEffect`, `recordedEffect`
and the call's `prior` are history. A device's effect falls before its adapter
call ends; one that comes even later, after a time-out, is not modelled.
Scenes, groups, schedules and intents reach a device only through `set_device`
and are callers like any other. `RateLimitState()` starts at 0.0, taken to be
outside window and cooldown, which needs a host that has been up for a minute.

**CommandPath** models `POST /api/commands`, `AdapterRegistry.execute`, the audit
table and a restart. Each request is a record that moves through the handler's
awaits; `audit` survives `Crash`, `cache` and `elders` (the dict's insertion
order, by which it evicts: for each key, the keys older than it) do not. A row
whose commit failed stays in the shared connection's transaction and may still be
committed by the next writer: `Raises` leaves both outcomes open. `gap` and `promise` are history. Adapters are assumed
to report success only for what the device did.

**DeviceCoordinator** models the lease table. Its lock is never held across an
await, so every operation is one action, and `acquire` is split by what it finds:
`Extend`, `Deny`, `Acquire`. `told` is history: what each agent was last told,
withdrawn when it releases or meets a higher priority.
**LeaseContract** is the abstract specification: a lease is exclusive until it
runs out with the clock, is given up, or is taken by a higher priority. The
refinement mapping `Grants` forgets expired rows; `KeepsContract` says the
detailed module implements the abstract one.

**LeasedGateway** puts AgentGateway and DeviceCoordinator on one clock, as
`create_api` wires them into one ToolExecutor.

**ActionScheduler** models the schedules and the life of their tasks: `created`,
`asleep`, `woken` (the timer has fired, the loop has not come round), `executing`,
`answered` (the awaited answer is there, the loop has not come round), `done`. An
action awaits several things one after the other: the audit rows, the adapter, the
readback, and for a scene all of it again for each device. So a task goes from
`executing` to `answered` and back (`GoesOn`) as often as it has more to await, and
`Finish`, `Fail` or `MeetCancellation` ends it; `RunAtOnce` is an action that awaits
nothing. `thrown` is a CancelledError on its way. With `WaitForSwallows` an answer
that is there beats the CancelledError, as in `asyncio.wait_for`
(`core/registry.py:244`) up to Python 3.11: the action goes on with its row
cancelled and nothing pending, and its end overwrites the row. Which await of an
action is the one in `wait_for` is not distinguished: any of them may drop a
cancellation, or let it through. What is left of absolute times is their order.

**Lifecycle** models connecting and disconnecting from the API handler down to
the rows, and the engine's start, restore, stop and kill. `live` is the
registry's map, `sessions` the adapters' own, `targets` the poll table as far as
it names connections, `frame` where each handler and the engine is. SQLite is
two copies of the rows: `store`, what the shared connection sees, and `durable`,
what was committed; `writers` is the queue for `_write_lock`. A write that fails
is not rolled back, so the half it left in `store` becomes durable with the next
`Commit` of anybody. A profile stands for its bridge with one device.
`PersistDevices` and `PersistPoints` are two steps because the transaction can
fail or the process die between them. `acked`, `gone`, `overtaken`, `torn` and
`lastLive` are history.

**Poller** models the table of poll targets and the loop. `before` is the dict's
insertion order, for each key the keys inserted before it; `Check` is one pass up
to `gather`: recovery, the due targets, the first `BatchSize` of them. A poll keeps the PollTarget it was begun
with; when that leaves the table (`Orphaned`) what it counts is lost
(`OrphanEnds`). Time is kept as ages, so the clock has no bound. `begun` and
`wait` are history.

**EventBus** models the in-process bus: `queue`, the table of subscriptions and
the list of callbacks (`calls`) that was made when the event was taken off.
**PointValues** extends it with what hangs on it: `read_point`, which saves and
publishes; the engine's callback, which saves once more; the stream clients with
their dropping queues; the store's lock. `stored` is the row, `saved` the
reading that was saved last. Points of which an event or a write was lost are
`spoiled`. **BusContract** is the abstract specification of a bus: in order, at
most once, nothing invented.

**RedisBus** models the publish loop (`pub`, `inHand`, `queue`), the listen loop
(`sub`, `link`, `wire`), the subscriptions here (`local`) and on Redis
(`remote`), and a Redis that goes and comes back (external). It is not shown to
keep BusContract because it does not: Redis sends one message for every
matching subscription of the connection and each is dispatched to every
callback, and an event that could not be published goes to the end of the queue.

**AdapterSdk** has the answers adapters give and the means to cut up an id;
**HttpAdapters**, **BusAdapters** and **BridgeAdapters** have, for each of the
fifteen, six operators: what `discover`, `commission`, `inventory`, `read_point`,
`execute` and `health` do of their own. **Adapters** chooses one installation and
runs them. A quantity is a thing the equipment has, `<<part, number, of>>`.

* *Ids* are sequences of words, the pieces between underscores. `inventory` glues
  the device's name (itself several words) and the quantity's into one, and
  `read_point` and `execute` cut it up again as their code does: the word after
  the first `_relay_`, the ending, the first three numbers in a row, what is left
  behind a prefix. Where an adapter uses an id whole, as a key or as a node id, so
  does the model.
* *Values*: a read is one request that raises when the object is missing
  (`Requested`), a look into a status report with a default for what it does not
  mention (`Reported`, of `Default`), or an answer from a dictionary, which may
  hold what a command asked for (`Asked`). `gone` is what the equipment lacks at
  the moment; board files, register maps and profiles (`listed`) go on listing it.
* *Commands* are requests awaited one by one. Of a `Put` the adapter looks at the
  verdict, of a `Told` request only at there being an answer, and a `Queue` is
  handed on. The equipment may carry out, or refuse, any of them.
* *Clients*: `Commission` opens one and awaits the probe (`probing`),
  `Commissioned` registers it or closes it, and `CutOff` is the registry's
  time-out, which no adapter's `except Exception` catches. `stray` is history:
  the clients that `CutOff`, or Tasmota's reopening, left behind.

`MC...` modules give the constants their values.

## The runs

| run | bounds | shows |
|---|---|---|
| AgentGateway | 5 devices (free, class S3, confirm, blocked capability, read-only), 2 callers, 2 confirmations, cooldown 1, window 2, 2 writes per window, ttl 1, 4 ticks | gated devices are never written; the limit is overshot by at most the racers; sequential writes cool down; humans are asked about the right devices; answers come once and in time |
| CommandPath | 3 requests, 3 keys, cache of 2, ttl 1, 3 instants, 1 crash | write-ahead audit, true outcomes, replays of recorded answers only, no re-run of an answered key, bounded cache |
| DeviceCoordinator | 2 devices, 3 agents, 2 priorities, durations 0, 1 and 9 with limits 1 and 2, 5 instants | promises are kept; the contract is implemented |
| ActionScheduler | 2 schedules of 2 initiators, limits 0, 1, 2 and none, counts up to 3, any number of awaits in an action | status and task agree, but for an action in which a cancellation was dropped; runs are counted right; cancelled asleep means never run; under fairness what is created gets going |
| Lifecycle | 2 handlers and the engine, 1 bridge, 3 connections, 1 refused write, 1 crash | what a client was told of is durable and complete; disconnected is for good; targets of dead connections come only from an overtaken connect; inventories are whole |
| Poller | 2 points over 2 connections, intervals 4 and 5, batches of 1, 2 errors, recovery 3 | the table is sound, errors are earned, active targets are polled in time, suspended ones come back |
| PointValues | 1 point, 2 readers, queue of 2, 3 readings, 3 events, 1 client with a queue of 2, 1 watcher, 1 fault | the value settles on the last reading, clients are counted right, the bus keeps its contract and dispatches what it took |
| RedisBus | 1 channel, 1 pattern and `*`, queue of 2, 3 events, 2 outages, 3 messages under way | events are accounted for, live connections hear, the queue drains |
| Adapters | 19 installations of 15 adapters, 1 session, 1 caller, 5 verbs, 2 values (one that is true, one that is not), 1 thing missing at a time, profiles with up to two things amiss | see below |

Why the bounds are enough. Two callers, handlers, readers are enough for a race;
that the overshoot grows by one with each further caller is proved for every
number of them. Clocks run past window plus cooldown, past the time to live and
past the longest lease. Three requests make an original, a retry and one that
evicts. Limits of 0, 1 and 2 are below, at and above the first comparison, and a
count of 3 is one more than any limit. Three connections are one that is
commissioned before a crash, the one that restores it and one more beside
either; one refused write can fall at any write of any of them. A batch of one
with two points makes one wait for the other, as a batch of ten does with eleven.
A queue of two fills, and three events leave one over; two outages are one during
the recovery from another. The Adapters installations have two objects of a kind
wherever an index could be lost, device names of several words, and a BACnet
device with an instance in its name and one without. They are well addressed
(`SitesAssumption`): no BACnet or DNP3 object has number zero, which a command
without the protocol's own address would write
(`adapters/bacnet/adapter.py:364-365`); each has only what its adapter looks for
(`Vocabulary`: a Hue resource has the keys Hue knows); and no device is called
after a word its ids are cut at (`WellNamed`, `Cuts`), without which they do not
lead back. Three of the installations have ids that are ambiguous: a KNX area that
is a number, DNP3 objects of several groups, two MQTT entities. One session and one
caller suffice because sessions share nothing but the equipment, and a second
command on the same session could only change the equipment and the dictionary,
which the first one's readings and requests may find in any state anyway.

Symmetry is used only where a run checks no liveness. AgentGateway, CommandPath,
DeviceCoordinator, Lifecycle, PointValues and ActionScheduler stop at their
bounds (ids, clocks, readings, schedules), so deadlock is not checked there;
Poller, RedisBus and Adapters never stop and it is.

Adapters checks:

* AnswersItsOwn: a value given as good is that of the point asked for, in
  installations that are `Unambiguous` (in the others the code does mix points up,
  see below), or one the adapter has made up: a default, of a thing the equipment
  does not have or report, by Shelly, Hue and KinCony, or a value that a command
  asked for, by KNX and DNP3 (`MadeUp`).
* EffectsOnEndpoint: effects stay on the endpoint the command names, also when it
  fails half way.
* SucceededMeansDone, for the adapters that look at the verdict: Shelly's switches,
  ESPHome, Modbus, BACnet and OPC UA. A success has changed the equipment, to what
  was asked for (`Meant`: ESPHome and coils know on and off only). The others
  declare success without knowing (`Unchecked`, `DeclaredOnly`), and nothing is
  claimed of them.
* NoStrayClient: an open client belongs to a registered connection or to a
  commissioning under way, except those that are `stray`.
* ReadableMeansAnswered: every point listed as readable is answered with the
  equipment's value while the thing is there, except those in `NeverRead`, the
  points that the code declares and has no way to read: every point of Zigbee,
  Z-Wave, Matter, Lutron, OPC UA and MQTT (whose one answer is the first entity's),
  Shelly's energy and motor, Hue's colours, ONVIF's motion, BACnet points behind a
  device instance, KNX points behind an area that is a number, and the DNP3 points
  that are not analog inputs.

Fairness:

* ActionScheduler: weak fairness of a timer and of the loop resuming one task,
  which is what asyncio promises. Nothing is assumed of the answer, because the
  readback in `set_device` has no time-out (`core/registry.py:210`).
* Poller: weak fairness of the loop's pass, of the clock, and of the end of each
  read, which `wait_for` brings about (`core/scheduler.py:161-165`). Not of success.
* PointValues: weak fairness of the dispatcher, its callbacks and each save, all
  of which asyncio and the FIFO lock resume. Not of readings or clients.
* RedisBus: weak fairness of both loops, of their reconnections after the delay,
  and of Redis coming back; not of Redis staying up.

Three runs expect a violation, each of a sentence in the code or its comments:

| run | what is said | what happens |
|---|---|---|
| ApprovalExecutes | `core/api.py:810` "Approve a pending confirmation and execute the operation." | the approved call is gated again and only makes a new confirmation |
| LeaseBlocksOthers | `agent/coordination.py:4-6` "Other agents are blocked with a clear error" | `set_device` never asks the coordinator |
| RestoresWhatWasActive | `core/registry.py:342` "Re-commissions all previously active connections." | a restored connection leaves its old row commissioned; the next start restores both |

Seen while modelling, and visible in the models, without a run of their own:

* Two racing writes pass the cooldown together (`agent/tools.py:540, 585-586`).
* Two overlapping requests with one idempotency key both execute
  (`core/api.py:545-562`).
* Cancelling is not final, although `cancel` returns True
  (`agent/agent_scheduler.py:218`): when the adapter's answer is already there,
  `wait_for` drops the cancellation (`core/registry.py:244`), the action goes on, and
  its end makes the row completed (`agent/agent_scheduler.py:272`), or pending and to
  run again (293). What still holds is StatusMatchesTask and
  CancelledAsleepNeverRuns.
* A clean stop marks every connection disconnected, so nothing is restored after
  it. Restored connections get no poll targets.
* `EventBus.stop` leaves the queue behind (`core/event_bus.py:45` says it drains).
* The second save of a value may put an older one over a newer for a moment, and
  erases the raw form for good (`core/engine.py:231-239`, `core/state_store.py:346`).
* The streams subscribe to `command.result`, the registry publishes
  `command.{status}`; and nothing calls `bind_event_bus`.
* Values that are made up and given as good: Shelly
  (`adapters/shelly/adapter.py:332-362`), Hue (`adapters/hue/adapter.py:321-334`) and
  KinCony (`adapters/kincony/adapter.py:432`, `tasmota.py:61, 73`) fill in what is not
  reported; KNX keeps what it sent (`adapters/knx/adapter.py:183-186`), and DNP3
  what it operated (`adapters/dnp3/adapter.py:396-400`), under an index the
  outstation may not have. KinCony's points come from its board file
  (`adapters/kincony/adapter.py:216-272`), whatever the board has.
* Success without knowing: DNP3 drops the outstation's verdict
  (`adapters/dnp3/adapter.py:352`); MQTT and KNX hand the message on
  (`adapters/mqtt_generic/adapter.py:129-135`); Hue, Zigbee, Z-Wave, Matter and Lutron
  believe any 2xx; what Tasmota says is not read (`tasmota.py:36-38`); Shelly covers
  succeed with any verb, and a set ignores the value. ESPHome sends turn_on or
  turn_off for any value and type of entity (`adapters/esphome/adapter.py:253-257`).
  Zigbee addresses the bridge by the endpoint id, which names no device. Modbus and
  BACnet commands from `set_device` carry no address.
* A commissioning that takes longer than thirty seconds leaves its client open
  (`core/registry.py:129-134`); `tasmota.py:24` reopens one after its teardown.
* MQTT answers every read with the first entity it has heard of
  (`adapters/mqtt_generic/adapter.py:309`). KNX takes the first three numbers of a
  point id for the group address, the area's included
  (`adapters/knx/adapter.py:388`). DNP3 files whatever is measured under group 30
  (`adapters/dnp3/adapter.py:132`), where a point of another group never finds it.

Each property of a passing run has a mutant: an operator next to the one it
replaces, named in `PROJECT.json`, that changes it as a plausible bug would and
makes TLC find the property violated.

## The proofs

For all values of the constants, under the named assumptions of each module
(types; limits and intervals above zero, `MinLease <= MaxLease`, counts below
`RunCap`; finitely many subscription patterns and polled points; well addressed
installations), TLAPS checks:

* `AgentGateway_proofs`: type correctness and all five properties of the run. The
  invariant is the properties and three facts they need: a call under way is on an ungated device
  (`CallsUngated`), the guard's `last_write` is never older than an effect it has
  recorded (`RecordsLag`), and a call under way was admitted a cooldown after
  what was recorded before it (`AdmittedLate`). The overshoot is bounded because
  a call is admitted only below the limit and each caller has one call in flight;
  the cardinalities of sets of callers need lemmas from `FiniteSetTheorems`.
* `CommandPath_proofs`: TypeOK, WriteAheadAudit, OutcomeIsTrue, ReplayIsRecorded,
  AnsweredKeyNotRerun and CacheBounded. The invariant ties each handler's place to
  its rows, each cache entry to a recorded outcome and to the promise made under
  its key. That the cache keeps its bound needs that there is always an oldest key
  to evict. The order is kept as sets of elders, so this is a fact about finite
  sets: along a strict order the numbers of elders are distinct and below the
  number of keys, so one of them is zero (`FirstExists`, by the pigeonhole).
* `DeviceCoordinator_proofs`: TypeOK, PromiseKept and the refinement
  KeepsContract, step by step: a look-up or a denial stutters, the clock's tick
  takes the lapsed grants with it.
* `ActionScheduler_proofs`: TypeOK, StatusMatchesTask, RunsAsAsked and
  CancelledAsleepNeverRuns, for both values of `WaitForSwallows`. The invariant is
  stated for one schedule at a time: how its row, its task and the pending
  CancelledError fit together. A cancelled row is over, has a CancelledError on its
  way, or is that of an action in which one was dropped; the third can only arise
  from the second at an `answered` await, which is why a schedule cancelled asleep
  never gets there. A second, weaker invariant (`Doomed`) carries a
  cancelled schedule to the end of its task.
* `RedisBus_proofs`: TypeOK, NothingVanishes and ListenerHears. The invariant has
  two halves, where every event is (`Kept`) and what the listener is subscribed
  to (`Listens`); a step of one task changes one of them. That a queue holds an
  event once needs two lemmas about appending and removing.
* `Lifecycle_proofs`: all five invariants of Lifecycle, for any handlers,
  bridges, ids, refused writes and crashes. The invariants speak of what clients
  were told; what keeps them true is spread over the workers, so IInv has five
  parts besides the types. *Placed*: handlers work only while the process is up
  and the engine only while it starts or stops, which is why a restore never
  meets a handler. *Lined*: the line for `_write_lock` holds exactly those whose
  next step is a write, once each, and whoever is between devices and points is
  at its head; a connection's row is saved before anybody who tears it down can
  mark it, because a teardown finds the connection only after its connect has
  queued. *Owned*: a connection is made by one worker, is not acknowledged while
  somebody makes or ends it, and is in `overtaken` when a handler still makes
  what another ends. *Polled* and *Recorded* then relate targets and rows to
  that; Recorded has to say what the open transaction may hold that is not
  committed (the devices of whoever is about to write their points), since any
  writer's commit makes it durable and a crash takes it back.
* `Readings_proofs`, of Poller: PollerTypeOK, ErrorsEarned and PolledInTime, for
  any points, connections, intervals, batch size and limits. The count of errors
  is not inductive alone: a poll under way may still add one, so it is paid for
  when it begins (`Paid`), which holds at the cap of the count because only a
  target that is not suspended, or was cleared in the same pass, is polled.
  PolledInTime says that a target waits at most for its interval and one pass per
  batch of targets. It has the premise `Fits`, that every interval has room for
  all those passes: without it a target early in the table falls due again before
  the late ones had their turn, and they can be passed over for ever. The argument
  is that each pass a due target misses went to a full batch of targets before it
  (`FullBatchBefore`), that none of them comes twice in its wait (`Accounted`), and
  that they run out before the passes do (`RoundsFit`). The wait starts again only
  when a target that stands before it in the table is replaced.
* `Readings_proofs`, of PointValues: TypeOK, SettlesOnTheLast, StreamAccounts and
  the refinement KeepsBusContract, for any readers, watchers, clients and queues.
  A value settles because whatever writes an older reading still has the newer one
  behind it, in the line for the lock or in the queue (`ToldLast`, `Settles`). The
  bus refines its contract because a subscription that has yet to be called has
  heard only of earlier events (`InOrder`).
* `Adapters_proofs`: all six invariants, TypeOK, AnswersItsOwn, EffectsOnEndpoint,
  SucceededMeansDone, NoStrayClient and ReadableMeansAnswered, for any
  installations of the fifteen adapters. `SitesAssumption` is needed because the
  code is wrong without it: a BACnet or DNP3 command without an address goes to the
  object of number 0, MQTT compares the component and the object of an endpoint but
  not its node, and an id with a cutting word in its name is cut there. The proof
  begins with lemmas about words: where a name without cutting words meets the
  rest, what stands after a marker and at the end. With them each adapter has a
  lemma that the id it lists, and the endpoint id, leads back to where it came
  from. For commands, one lemma per adapter says where its requests go and which of
  them is the one the command is about; *OnCourse* carries that from request to
  request, with what has been done so far. For readings, one says which value an id
  can be answered with and one that a listed point is found; for the adapters that
  answer from a dictionary they need *Dictionaries*, that what is filed under an
  address is that address's own, or asked for, or nothing, and for all of them
  *Listings*, that a point listed is one the adapter makes of something the
  installation has.

Each invariant and refinement that a passing run checks is also proved. Only
model-checked are the four liveness properties (ScheduleGetsGoing,
SuspendedComesBack, EveryEventIsDispatched, QueueDrains), because the prover cannot
reason about fairness and ENABLED, and of course every violation. LeasedGateway,
which exists for one of the violations, has no theorem.

## Not modelled

* Spaces, groups and scenes: look-up tables. A scene or group is a sequence of
  `set_device` calls, which AgentGateway has as callers.
* Intents, suggestions, analytics, history, discovery helpers: sequential
  computations over what they are given; every action goes through `set_device`.
  Several have no caller (`evaluate_rules`, `history.record`).
* The network scanner, the MCP server and client, metrics, logging, argument
  parsing: network I/O, translation, text.
* In the adapters: wire formats, value conversion, `subscribe()` (which nothing
  in the core consumes), and the time a request takes.
* In the state store: settings, pruning and queries. In the API: endpoints that
  only read; authentication.
* `max_concurrent_writes` and `recur_times`, which the code stores and never
  reads.
* Stale answers as such: the BACnet, KNX, OPC UA and DNP3 adapters answer from
  their dictionary, for ever, as "good". AnswersItsOwn is about whose value it
  is, not about its age.
