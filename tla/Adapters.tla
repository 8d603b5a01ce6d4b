------------------------------ MODULE Adapters ------------------------------
(***************************************************************************)
(* The protocol adapters at work.  One of the installations in Sites is    *)
(* chosen and its adapter discovers, commissions, inventories, reads,      *)
(* executes and is torn down, while the equipment goes and comes back.     *)
(*                                                                         *)
(* The adapters differ in what they do with ids and requests; that is in   *)
(* HttpAdapters, BusAdapters and BridgeAdapters.  What is common is here:  *)
(* the dictionary of connections, the client each one holds, and execute() *)
(* as requests awaited one after the other, between which anything else    *)
(* can happen: another command, a loss of the equipment, a teardown or the *)
(* registry's time-out.                                                    *)
(***************************************************************************)
EXTENDS HttpAdapters, BusAdapters, BridgeAdapters

CONSTANTS Sites,      \* each [adapter, name, instance, has, port, endpoints]
          Callers,    \* the tasks that execute commands
          Sessions,   \* connection ids
          Verbs,
          Values,
          MaxGone     \* how many things the equipment may lack at a time

Names == {"shelly", "hue", "esphome", "kincony", "onvif", "modbus", "bacnet", "knx", "opcua",
          "dnp3", "zigbee", "zwave", "matter", "lutron", "mqtt"}

\* What there is to ask for, by the keys the adapter looks for in the equipment's
\* answers; the other adapters take the names as they come.
ShellyKeys == {<<"switch", "output">>, <<"switch", "apower">>, <<"switch", "aenergy">>,
               <<"input", "input">>, <<"cover", "current_pos">>, <<"cover", "motor">>}

Channels == {"relay", "dinput", "ainput"}

Vocabulary(s) ==
    \A q \in s.has :
        /\ q = <<q[1], q[2], q[3]>>
        /\ s.adapter = "shelly"  => <<q[1], q[3]>> \in ShellyKeys
        /\ s.adapter = "hue"     => q[1] = "light" /\ q[3] \in DOMAIN HueSuffix
        /\ s.adapter = "esphome" => q[3] = "state"
        /\ s.adapter = "kincony" =>
              /\ q[1] = "ir" \/ (q[1] \in Channels /\ q[2] \in Digits)
              /\ q[1] = "ainput" => q[3] = "channel"
        /\ s.adapter = "onvif"   =>
              q[3] \in {"motion", "image"} \/ q = <<"stream", "main", "uri">>
        /\ s.adapter = "bacnet"  => q[1] \notin Digits /\ q[2] \in Digits /\ q[3] = "pv"
        /\ s.adapter = "dnp3"    => q[3] = "value"

\* The words at which an adapter cuts an id are not part of what the device or
\* the thing is called.
Cuts == {"switch", "input", "cover", "light"} \cup Channels

WellNamed(s) ==
    /\ s.name \in Seq(STRING) /\ s.name # <<>>
    /\ s.instance \in Seq(STRING) /\ Len(s.instance) <= 1
    /\ s.adapter \in {"shelly", "hue", "kincony"} =>
          /\ \A k \in DOMAIN s.name : s.name[k] \notin Cuts
          /\ \A q \in s.has : q[2] \notin Cuts

\* Each installation has one of the adapters and is well addressed: nothing is
\* at the addresses a command goes to that gives none (BACnet's and DNP3's
\* object of number 0), and no two MQTT entities differ in their node alone.
ASSUME SitesAssumption ==
    \A s \in Sites :
        /\ s.adapter \in Names
        /\ Vocabulary(s) /\ WellNamed(s)
        /\ s.endpoints \subseteq {EndpointOf(q) : q \in s.has}
        /\ {Nobody, <<"analogOutput", "0", "pv">>, <<"crob", "0", "value">>} \cap s.has = {}
        /\ s.adapter = "mqtt" =>
              \A q, r \in s.has : q[1] = r[1] /\ q[2][1] = r[2][1] => q[2] = r[2]

VARIABLES site,       \* the installation looked at
          up,         \* the equipment answers
          gone,       \* what it no longer has, or does not report
          targets,    \* what discover() returned, until it is commissioned
          probing,    \* the commissionings under way: what the caller supplied
          sessions,   \* _connections
          clients,    \* the connections whose client is open
          stray,      \* the connections whose client was left open: by a
                      \* commissioning cut off, or opened anew after a teardown
          known,      \* per connection, what its dictionary holds
          topics,     \* per connection, the state topics subscribed (MQTT)
          snapshot,   \* per connection, the last inventory
          answer,     \* what read_point() or health() just answered
          task        \* per caller, the command under way

vars == <<site, up, gone, targets, probing, sessions, clients, stray, known, topics,
          snapshot, answer, task>>

A == site.adapter

\* What the equipment has now, and what a board file, register map or profile
\* says it has.
Present == site.has \ gone

Equipped(k) == [name |-> site.name, instance |-> site.instance, has |-> Present,
                listed |-> site.has, port |-> site.port, up |-> up, known |-> k]

Equipment == Equipped(<<>>)
At(i) == Equipped(known[i])          \* as the adapter of connection i meets it

Remembering == {"bacnet", "knx", "opcua", "dnp3"}

NoAnswer == [native |-> Nothing, quality |-> "none", of |-> Nothing]
Idle == [state |-> "idle", on |-> "none", cmd |-> Nothing, todo |-> <<>>,
         ends |-> "none", effects |-> {}]

-----------------------------------------------------------------------------
(* Which adapter.                                                          *)

Discovers(r, s) ==
    CASE A = "shelly"  -> ShellyDiscover(r, s)  [] A = "hue"    -> HueDiscover(r, s)
      [] A = "esphome" -> EspHomeDiscover(r, s) [] A = "kincony" -> KinConyDiscover(r, s)
      [] A = "onvif"   -> OnvifDiscover(r, s)   [] A = "modbus" -> ModbusDiscover(r, s)
      [] A = "bacnet"  -> BacnetDiscover(r, s)  [] A = "knx"    -> KnxDiscover(r, s)
      [] A = "opcua"   -> OpcUaDiscover(r, s)   [] A = "dnp3"   -> Dnp3Discover(r, s)
      [] A = "zigbee"  -> ZigbeeDiscover(r, s)  [] A = "zwave"  -> ZWaveDiscover(r, s)
      [] A = "matter"  -> MatterDiscover(r, s)  [] A = "lutron" -> LutronDiscover(r, s)
      [] A = "mqtt"    -> MqttDiscover(r, s)

Commissions(r, s) ==
    CASE A = "shelly"  -> ShellyCommission(r, s)  [] A = "hue"    -> HueCommission(r, s)
      [] A = "esphome" -> EspHomeCommission(r, s) [] A = "kincony" -> KinConyCommission(r, s)
      [] A = "onvif"   -> OnvifCommission(r, s)   [] A = "modbus" -> ModbusCommission(r, s)
      [] A = "bacnet"  -> BacnetCommission(r, s)  [] A = "knx"    -> KnxCommission(r, s)
      [] A = "opcua"   -> OpcUaCommission(r, s)   [] A = "dnp3"   -> Dnp3Commission(r, s)
      [] A = "zigbee"  -> ZigbeeCommission(r, s)  [] A = "zwave"  -> ZWaveCommission(r, s)
      [] A = "matter"  -> MatterCommission(r, s)  [] A = "lutron" -> LutronCommission(r, s)
      [] A = "mqtt"    -> MqttCommission(r, s)

\* The inventories that can come back; none when inventory() raises.
Inventories(s) ==
    LET asked(points) == IF s.up THEN {points} ELSE {}
    IN  CASE A = "shelly"  -> asked(ShellyPoints(s)) [] A = "hue" -> asked(HuePoints(s))
          [] A = "esphome" -> {EspHomePoints(s, t) : t \in
                                 SUBSET (IF s.up THEN {q[1] : q \in s.has} ELSE {})}
          [] A = "kincony" -> {KinConyPoints(s)} [] A = "onvif"  -> {OnvifPoints(s)}
          [] A = "modbus"  -> {ModbusPoints(s)}  [] A = "bacnet" -> {BacnetPoints(s)}
          [] A = "knx"     -> {KnxPoints(s)}     [] A = "opcua"  -> {OpcUaPoints(s)}
          [] A = "dnp3"    -> {Dnp3Points(s)}    [] A = "lutron" -> {LutronPoints(s)}
          [] A = "zigbee"  -> asked(ZigbeePoints(s))
          [] A = "zwave"   -> asked(ZWavePoints(s))
          [] A = "matter"  -> asked(MatterPoints(s))
          [] A = "mqtt"    -> {MqttPoints(s)}

\* The readings that can come back, with the dictionary afterwards.
Reads(id, s) ==
    LET asked(a) == {Reading(a, s.known)}
    IN  CASE A = "shelly"  -> asked(ShellyRead(id, s))  [] A = "hue" -> asked(HueRead(id, s))
          [] A = "esphome" -> asked(EspHomeRead(id, s)) [] A = "onvif" -> asked(OnvifRead(id, s))
          [] A = "kincony" -> asked(KinConyRead(id, s)) [] A = "modbus" -> ModbusReads(id, s)
          [] A = "bacnet"  -> BacnetReads(id, s)        [] A = "knx" -> KnxReads(id, s)
          [] A = "opcua"   -> OpcUaReads(id, s)         [] A = "dnp3" -> Dnp3Reads(id, s)
          [] A = "zigbee"  -> asked(ZigbeeRead(id, s))  [] A = "zwave" -> asked(ZWaveRead(id, s))
          [] A = "matter"  -> asked(MatterRead(id, s))  [] A = "lutron" -> asked(LutronRead(id, s))
          [] A = "mqtt"    -> {Reading(a, s.known) : a \in MqttReads(id, s)}

Executes(cmd, s) ==
    CASE A = "shelly"  -> {ShellyExecute(cmd)}  [] A = "hue"    -> {HueExecute(cmd)}
      [] A = "esphome" -> {EspHomeExecute(cmd, s)} [] A = "kincony" -> {KinConyExecute(cmd)}
      [] A = "onvif"   -> {OnvifExecute(cmd)}   [] A = "modbus" -> {ModbusExecute(cmd, s)}
      [] A = "bacnet"  -> {BacnetExecute(cmd)}  [] A = "knx"    -> {KnxExecute(cmd, s)}
      [] A = "opcua"   -> {OpcUaExecute(cmd)}   [] A = "dnp3"   -> {Dnp3Execute(cmd)}
      [] A = "zigbee"  -> {ZigbeeExecute(cmd)}  [] A = "zwave"  -> {ZWaveExecute(cmd)}
      [] A = "matter"  -> {MatterExecute(cmd)}  [] A = "lutron" -> {LutronExecute(cmd)}
      [] A = "mqtt"    -> MqttExecute(cmd, s)

Healths(s) ==
    CASE A = "shelly"  -> ShellyHealth(s)  [] A = "hue"    -> HueHealth(s)
      [] A = "esphome" -> EspHomeHealth(s) [] A = "kincony" -> KinConyHealth(s)
      [] A = "onvif"   -> OnvifHealth(s)   [] A = "modbus" -> ModbusHealth(s)
      [] A = "bacnet"  -> BacnetHealth(s)  [] A = "knx"    -> KnxHealth(s)
      [] A = "opcua"   -> OpcUaHealth(s)   [] A = "dnp3"   -> Dnp3Health(s)
      [] A = "zigbee"  -> ZigbeeHealth(s)  [] A = "zwave"  -> ZWaveHealth(s)
      [] A = "matter"  -> MatterHealth(s)  [] A = "lutron" -> LutronHealth(s)
      [] A = "mqtt"    -> MqttHealth(s)

-----------------------------------------------------------------------------
(* The adapter's operations.                                               *)

Init ==
    /\ site \in Sites /\ up = TRUE /\ gone = {}
    /\ targets = {} /\ probing = <<>>
    /\ sessions = {} /\ clients = {} /\ stray = {}
    /\ known = [i \in Sessions |-> <<>>]
    /\ topics = [i \in Sessions |-> {}]
    /\ snapshot = [i \in Sessions |-> {}]
    /\ answer = NoAnswer
    /\ task = [c \in Callers |-> Idle]

Ports == {"usual", "other"}
Requests == [methods : {{"http_probe"}, {"mdns"}}, host : BOOLEAN, port : Ports]

\* What a caller of commission() supplies and meets: with everything in order,
\* or with up to two things amiss.
Complete == [host |-> TRUE, target |-> TRUE, secret |-> TRUE, button |-> TRUE,
             board |-> TRUE, library |-> TRUE, opens |-> TRUE, listed |-> TRUE]

Profiles ==
    {[k \in DOMAIN Complete \cup {"port"} |-> IF k = "port" THEN p ELSE k \notin amiss] :
        p \in Ports,
        amiss \in {{k, l} : k, l \in DOMAIN Complete} \cup {{}}}

Discover ==
    /\ \E r \in Requests : targets' = Discovers(r, Equipment)
    /\ answer' = NoAnswer
    /\ UNCHANGED <<site, up, gone, probing, sessions, clients, stray, known, topics, snapshot,
                   task>>

\* The client is opened and the first request awaited; what was refused before
\* that has opened none.  A key that pairing gave is in hand by then.
Commission(i) ==
    /\ i \notin sessions \cup clients
    /\ \A c \in Callers : task[c].state = "idle" \/ task[c].on # i
    /\ \E r \in Profiles :
         /\ r.target => targets # {}
         /\ Commissions(r, Equipment).client # "none"
         /\ probing' = [j \in DOMAIN probing \cup {i} |->
                         IF j = i THEN [r EXCEPT !.secret = TRUE] ELSE probing[j]]
    /\ clients' = clients \cup {i} /\ targets' = {}
    /\ answer' = NoAnswer
    /\ UNCHANGED <<site, up, gone, sessions, stray, known, topics, snapshot, task>>

\* Only a probe that succeeded puts the connection in the dictionary; one that
\* failed closes the client.
Commissioned(i) ==
    /\ i \in DOMAIN probing
    /\ LET result == Commissions(probing[i], Equipment) IN
       /\ sessions' = IF result.status = "ok" THEN sessions \cup {i} ELSE sessions
       /\ clients' = IF result.client = "kept" THEN clients ELSE clients \ {i}
       /\ known' = IF result.status = "ok" /\ A \in Remembering
                   THEN [known EXCEPT ![i] = Preloaded(probing[i], Equipment)] ELSE known
    /\ probing' = [j \in DOMAIN probing \ {i} |-> probing[j]]
    /\ answer' = NoAnswer
    /\ UNCHANGED <<site, up, gone, targets, stray, topics, snapshot, task>>

\* The registry's thirty seconds are over: the cancellation passes through every
\* "except Exception", and with it the closing of the client.
CutOff(i) ==
    /\ i \in DOMAIN probing
    /\ probing' = [j \in DOMAIN probing \ {i} |-> probing[j]]
    /\ stray' = stray \cup {i}
    /\ answer' = NoAnswer
    /\ UNCHANGED <<site, up, gone, targets, sessions, clients, known, topics, snapshot, task>>

\* Registered until the teardown: _get_conn raises for any other id.
Inventory(i) ==
    /\ i \in sessions
    /\ \E points \in Inventories(At(i)) : snapshot' = [snapshot EXCEPT ![i] = points]
    /\ known' = IF A = "opcua" THEN [known EXCEPT ![i] = OpcUaBrowsed(At(i))] ELSE known
    /\ topics' = IF A = "mqtt" THEN [topics EXCEPT ![i] = DOMAIN known[i]] ELSE topics
    /\ answer' = NoAnswer
    /\ UNCHANGED <<site, up, gone, targets, probing, sessions, clients, stray, task>>

ReadPoint(i) ==
    /\ i \in sessions
    /\ \E p \in snapshot[i] : \E r \in Reads(p.id, At(i)) :
         /\ answer' = [native |-> p.native, quality |-> r.answer.quality, of |-> r.answer.of]
         /\ known' = [known EXCEPT ![i] = r.known]
    /\ UNCHANGED <<site, up, gone, targets, probing, sessions, clients, stray, topics, snapshot,
                   task>>

\* The endpoint ids the adapters cut up, as inventory() glues them; a Hue light's
\* device is the light's own.
EndpointId(e) ==
    CASE A \in {"shelly", "esphome", "kincony"} -> site.name \o e
      [] A = "hue"                              -> <<"dev", "hue", e[2], e[1]>>
      [] OTHER                                  -> e

\* Where execute() looks for the protocol's own address in the target.
Addressable == {"modbus", "bacnet", "knx", "opcua", "dnp3", "zwave", "matter", "lutron"}

\* A command names an endpoint of the inventory, ep, which stands for of; native:
\* and carries the protocol's own address as well, as a caller of the REST API
\* may but set_device does not.
CommandsOn(i) ==
    {[ep |-> EndpointId(e), of |-> e, verb |-> verb, v |-> v, native |-> native] :
        e \in {EndpointOf(p.native) : p \in snapshot[i]} \cup site.endpoints,
        verb \in Verbs, v \in Values, native \in {FALSE, (A \in Addressable)}}

Execute(c, i) ==
    /\ i \in sessions /\ task[c].state = "idle"
    /\ \E cmd \in CommandsOn(i) : \E plan \in Executes(cmd, At(i)) :
         task' = [task EXCEPT ![c] =
                    [state |-> IF plan.todo = <<>> THEN "done" ELSE "running",
                     on |-> i, cmd |-> cmd, todo |-> plan.todo, ends |-> plan.ends,
                     effects |-> {}]]
    /\ answer' = NoAnswer
    /\ UNCHANGED <<site, up, gone, targets, probing, sessions, clients, stray, known, topics,
                   snapshot>>

-----------------------------------------------------------------------------
(* The requests of a command.                                              *)

\* TasmotaProfile makes itself a new client when its own is closed.
Reopens(c) == IF A = "kincony" THEN {task[c].on} ELSE {}

\* What the request changes where it arrives.
Effect(rq) == IF rq.do # "get" /\ up /\ rq.q \in Present THEN {<<rq.q, rq.v>>} ELSE {}

\* Good enough for the adapter to go on: a put that was carried out, any answer
\* to a told request or a question, a queue that takes the message.
GoodEnough(c, rq, did) ==
    /\ task[c].on \in clients \cup Reopens(c)
    /\ rq.do = "put" => did # {}
    /\ rq.do # "queue" => up

\* The adapter goes on to its next request.  What was written is also put down
\* in the dictionary, by the adapters that keep one, as it was asked for.
Answered(c) ==
    LET rq == Head(task[c].todo)  i == task[c].on IN
    /\ task[c].state = "running"
    /\ \E did \in {{}, Effect(rq)} :
         /\ GoodEnough(c, rq, did)
         /\ task' = [task EXCEPT
              ![c].todo = Tail(@), ![c].effects = @ \cup did,
              ![c].state = IF Len(task[c].todo) = 1 THEN "done" ELSE "running"]
         /\ known' = IF A \in Remembering /\ rq.do # "get" /\ i \in sessions
                     THEN [known EXCEPT ![i] =
                             Learns(At(i), rq.q, IF did = {} THEN Asked ELSE rq.q)]
                     ELSE known
    /\ clients' = clients \cup Reopens(c)
    /\ stray' = stray \cup (Reopens(c) \ sessions)
    /\ answer' = NoAnswer
    /\ UNCHANGED <<site, up, gone, targets, probing, sessions, topics, snapshot>>

\* The next request is not sent, fails, is refused to the adapter's knowledge, or
\* the registry's thirty seconds are over: whatever it did was done, and the rest
\* is not sent.
Unanswered(c) ==
    /\ task[c].state = "running"
    /\ \E sent \in SUBSET Reopens(c) :
         /\ clients' = clients \cup sent
         /\ stray' = stray \cup (sent \ sessions)
         /\ \E did \in {{}, IF task[c].on \in clients \cup sent
                          THEN Effect(Head(task[c].todo)) ELSE {}} :
              task' = [task EXCEPT ![c].todo = <<>>, ![c].ends = "failed",
                                   ![c].effects = @ \cup did, ![c].state = "done"]
    /\ answer' = NoAnswer
    /\ UNCHANGED <<site, up, gone, targets, probing, sessions, known, topics, snapshot>>

Returned(c) ==
    /\ task[c].state = "done"
    /\ task' = [task EXCEPT ![c] = Idle]
    /\ answer' = NoAnswer
    /\ UNCHANGED <<site, up, gone, targets, probing, sessions, clients, stray, known, topics,
                   snapshot>>

-----------------------------------------------------------------------------
(* The rest of a connection's life, and the equipment's.                   *)

Health(i) ==
    /\ i \in sessions
    /\ \E h \in Healths(At(i)) :
         answer' = [native |-> Nothing, quality |-> h, of |-> Nothing]
    /\ UNCHANGED <<site, up, gone, targets, probing, sessions, clients, stray, known, topics,
                   snapshot, task>>

\* Taken out of the dictionary first, then closed; commands that already have
\* the connection in hand go on with it.
Teardown(i) ==
    /\ i \in sessions
    /\ sessions' = sessions \ {i} /\ clients' = clients \ {i}
    /\ known' = [known EXCEPT ![i] = <<>>] /\ topics' = [topics EXCEPT ![i] = {}]
    /\ snapshot' = [snapshot EXCEPT ![i] = {}]
    /\ answer' = NoAnswer
    /\ UNCHANGED <<site, up, gone, targets, probing, stray, task>>

\* The equipment goes; an MQTT broker forgets the state topics with it, and
\* after the reconnection only the discovery prefix is subscribed again.
Goes ==
    /\ up /\ up' = FALSE
    /\ topics' = [i \in Sessions |-> {}]
    /\ answer' = NoAnswer
    /\ UNCHANGED <<site, gone, targets, probing, sessions, clients, stray, known, snapshot, task>>

Returns ==
    /\ ~up /\ up' = TRUE
    /\ answer' = NoAnswer
    /\ UNCHANGED <<site, gone, targets, probing, sessions, clients, stray, known, topics, snapshot,
                   task>>

\* A light is unpaired, a channel unplugged, a register taken out of service; or
\* it is back.
Changes ==
    /\ \/ Cardinality(gone) < MaxGone /\ \E q \in Present : gone' = gone \cup {q}
       \/ \E q \in gone : gone' = gone \ {q}
    /\ answer' = NoAnswer
    /\ UNCHANGED <<site, up, targets, probing, sessions, clients, stray, known, topics, snapshot,
                   task>>

\* An entity is announced under the discovery prefix, or its state topic is
\* heard.
Announced(i) ==
    /\ A = "mqtt" /\ up /\ i \in sessions
    /\ \/ \E q \in Present \ DOMAIN known[i] :
            known' = [known EXCEPT ![i] = Learns(At(i), q, Nothing)]
       \/ \E q \in topics[i] \cap Present : known' = [known EXCEPT ![i] = Learns(At(i), q, q)]
    /\ answer' = NoAnswer
    /\ UNCHANGED <<site, up, gone, targets, probing, sessions, clients, stray, topics, snapshot,
                   task>>

\* The outstation reports without being asked.
Unsolicited(i) ==
    /\ A = "dnp3" /\ up /\ i \in sessions
    /\ \E k \in Dnp3Scans(At(i)) : known' = [known EXCEPT ![i] = k]
    /\ answer' = NoAnswer
    /\ UNCHANGED <<site, up, gone, targets, probing, sessions, clients, stray, topics, snapshot,
                   task>>

Next ==
    \/ Discover \/ Goes \/ Returns \/ Changes
    \/ \E i \in Sessions :
          Commission(i) \/ Commissioned(i) \/ CutOff(i) \/ Inventory(i) \/ ReadPoint(i)
          \/ Health(i) \/ Teardown(i) \/ Announced(i) \/ Unsolicited(i)
    \/ \E c \in Callers :
          (\E i \in Sessions : Execute(c, i)) \/ Answered(c) \/ Unanswered(c) \/ Returned(c)

Spec == Init /\ [][Next]_vars

-----------------------------------------------------------------------------
(* Properties.                                                             *)

Quantities == site.has

\* The keys of a dictionary: what there is, where DNP3 files it, and the relay
\* block a DNP3 command without an address goes to.
Slots == Quantities \cup {Filed(q) : q \in Quantities} \cup {<<"crob", "0", "value">>}

\* The type invariant: what the adapter classes and the SDK's models declare.
TypeOK ==
    /\ site \in Sites /\ up \in BOOLEAN /\ gone \subseteq Quantities
    /\ targets \subseteq {"target"}
    /\ DOMAIN probing \subseteq Sessions
    /\ sessions \subseteq Sessions /\ clients \subseteq Sessions /\ stray \subseteq Sessions
    /\ \A i \in Sessions :
          /\ DOMAIN known[i] \subseteq Slots
          /\ \A k \in DOMAIN known[i] : known[i][k] \in Quantities \cup {Nothing, Asked}
          /\ topics[i] \subseteq Quantities
          /\ \A p \in snapshot[i] : p.native \in Slots /\ {p.readable, p.writable} \subseteq BOOLEAN
    /\ answer.quality \in {"none", "good", "stale", "bad", "raises",
                           "healthy", "degraded", "error", "offline"}
    /\ answer.of \in Quantities \cup {Nothing, Default, Asked}
    /\ \A c \in Callers :
          /\ task[c].state \in {"idle", "running", "done"}
          /\ task[c].ends \in {"none", "succeeded", "failed"}
          /\ task[c].state = "running" <=> task[c].todo # <<>>

\* The installations whose ids lead back to what they were made from.  KNX looks
\* for the first three numbers in the id, which must be the group address and not
\* begin with the area; DNP3 files every measurement as an analog input; MQTT
\* answers every read with the first entity it has heard of.
Addressed(q) == q[1] \notin Digits /\ q[2] \in Digits \X Digits \X Digits

Unambiguous(s) ==
    /\ s.adapter = "knx" =>
          \A q \in s.has : Addressed(q) /\ \A r \in s.has : q[2] = r[2] => q = r
    /\ s.adapter = "dnp3" => \A q \in s.has : q[1] \notin Commands => Filed(q) = q
    /\ s.adapter = "mqtt" => \A q, r \in s.has : q = r

\* The values that are given as good and were never the equipment's: Shelly, Hue
\* and Tasmota fill in what the equipment does not report
\* (adapters/shelly/adapter.py:332, adapters/hue/adapter.py:324,
\* firmware_profiles/tasmota.py:61), KNX and DNP3 keep what a command asked for
\* (adapters/knx/adapter.py:183-186, adapters/dnp3/adapter.py:396-400).
MadeUp(a) ==
    \/ a.of = Default /\ A \in {"shelly", "hue", "kincony"} /\ a.native \in gone
    \/ a.of = Asked /\ A \in {"knx", "dnp3"}

\* A value that read_point() gives as good is the value of the quantity that
\* inventory() listed under the point id asked for, in the code of every
\* adapter that glues the id together and takes it apart again (for instance
\* adapters/kincony/adapter.py:389-441 and adapters/shelly/adapter.py:326-366),
\* however the dictionaries of the bus adapters were filled before; or it is one
\* of those made up, of a thing the equipment no longer has or of a command.
AnswersItsOwn ==
    Unambiguous(site) =>
        (answer.quality = "good" => answer.of = answer.native \/ MadeUp(answer))

\* Whatever a command changes in the equipment, also when it fails halfway, it
\* changes on the endpoint it was sent to (for instance
\* adapters/kincony/adapter.py:443-505).
EffectsOnEndpoint ==
    \A c \in Callers : \A e \in task[c].effects : EndpointOf(e[1]) = task[c].cmd.of

\* Commands that execute() declares done without knowing.  KNX and MQTT hand the
\* message on (adapters/knx/adapter.py:350-362,
\* adapters/mqtt_generic/adapter.py:129-135), DNP3 drops the outstation's verdict
\* (adapters/dnp3/adapter.py:352), Tasmota and the bridges are believed when the
\* HTTP status is good (for instance adapters/zigbee/adapter.py:250-254), and a
\* Shelly cover has no unsupported verbs and reads its position from another
\* parameter (adapters/shelly/adapter.py:391-403).
Unchecked == {"knx", "mqtt", "dnp3", "kincony", "hue", "zigbee", "zwave", "matter", "lutron"}

DeclaredOnly(cmd) == A \in Unchecked \/ (A = "shelly" /\ cmd.of[1] = "cover")

\* ESPHome only turns on and off, and a coil is on or off.
Meant(cmd) ==
    IF A = "esphome" \/ (A = "modbus" /\ cmd.of[1] = "coil") THEN Turned(cmd.v) ELSE cmd.v

\* When a Shelly switch, ESPHome, Modbus, BACnet or OPC UA command is reported a
\* success, the equipment has been changed, and a "set" has left the value asked
\* for among the changes: over the loss of the equipment, of the thing commanded
\* and of the connection between the requests.
SucceededMeansDone ==
    \A c \in Callers :
        (task[c].state = "done" /\ task[c].ends = "succeeded" /\ ~DeclaredOnly(task[c].cmd)) =>
            /\ task[c].effects # {}
            /\ task[c].cmd.verb = "set" =>
                  \E e \in task[c].effects : e[2] = Meant(task[c].cmd)

\* A client that is open belongs to a registered connection or to a commissioning
\* under way: commission() closes the client of a probe that failed and teardown()
\* closes the rest (for instance adapters/zigbee/adapter.py:109-124, 266-269).
\* Clients are left behind in two ways and no other: the registry cuts the
\* commissioning off (core/registry.py:129-134), and a Tasmota command that
\* outlives the teardown opens a client anew (firmware_profiles/tasmota.py:24-28).
NoStrayClient == clients \subseteq sessions \cup DOMAIN probing \cup stray

\* Points that inventory() lists as readable and read_point() never answers:
\* the code has no branch for them, or cannot find what the id names.
NeverRead(p) ==
    \/ A \in {"zigbee", "zwave", "matter", "lutron", "opcua"}
    \/ A = "shelly" /\ p.native[3] \in {"aenergy", "motor"}
    \/ A = "hue" /\ p.native[3] \in {"mirek", "xy"}
    \/ A = "onvif" /\ p.native[3] = "motion"
    \/ A = "bacnet" /\ site.instance # <<>>
    \/ A = "knx" /\ ~Addressed(p.native)
    \/ A = "dnp3" /\ p.native # Filed(p.native)
    \/ A = "mqtt"

\* Every other point listed as readable is answered, and not with a default, as
\* long as the connection and the equipment are up and the thing is there:
\* inventory() promises nothing that read_point() has no way to keep.
ReadableMeansAnswered ==
    \A i \in sessions \cap clients : \A p \in snapshot[i] :
        (p.readable /\ up /\ p.native \in Present /\ ~NeverRead(p)) =>
            \E r \in Reads(p.id, At(i)) : r.answer.quality = "good" /\ r.answer.of # Default
=============================================================================
