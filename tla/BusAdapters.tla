---------------------------- MODULE BusAdapters -----------------------------
(***************************************************************************)
(* The adapters of the field buses: Modbus, BACnet, KNX, OPC UA and DNP3.  *)
(*                                                                         *)
(* All but Modbus keep a dictionary of objects: preloaded from the         *)
(* profile, written by reads and by commands, listed by inventory() and    *)
(* answered from when the bus does not.  A reading is therefore a pair of  *)
(* the answer and the dictionary afterwards.  The branches for a           *)
(* connection that was never connected are left out: commission()          *)
(* registers none.                                                         *)
(***************************************************************************)
EXTENDS AdapterSdk, Functions

Learns(s, key, q) == [k \in DOMAIN s.known \cup {key} |-> IF k = key THEN q ELSE s.known[k]]

Reading(answer, known) == [answer |-> answer, known |-> known]

\* What is known right after commissioning: the objects the profile lists.
Preloaded(r, s) == [q \in (IF r.listed THEN s.listed ELSE {}) |-> Nothing]

-----------------------------------------------------------------------------
(* Modbus.                                                                 *)

ModbusDiscover(r, s) == {}

\* Only an address in the profile counts; a target's is not looked at.
ModbusCommission(r, s) == ThroughLibrary(r.host, r, s.up)

\* The register map is the inventory, bus or no bus.
ModbusPoints(s) == {Point(q, q, TRUE, q[3] = "rw") : q \in s.listed}

\* An exception response is a bad reading, a dead connection raises.
ModbusRegister(reg, s) ==
    IF s.up THEN {IF reg \in s.has THEN Good(reg) ELSE Bad} ELSE {Bad, Raises}

\* The point id is the register's key in the map, and looked up whole.
ModbusReads(id, s) ==
    {Reading(a, s.known) : a \in IF id \in s.listed THEN ModbusRegister(id, s) ELSE {Raises}}

\* Mutant of ModbusExecute: a register that cannot be written is passed over
\* and the command called done.
ModbusExecuteQuiet(cmd, s) ==
    LET q == <<cmd.of[1], cmd.of[2], "rw">>
    IN  IF cmd.native
        THEN Sends(IF cmd.of[1] \in {"coil", "holding_register"}
                   THEN <<Put(q, cmd.v), Get(q)>> ELSE <<>>)
        ELSE Fails

\* Only coils, which take a truth value, and holding registers can be written.
ModbusWrites(reg, v) ==
    CASE reg[1] = "coil"             -> <<Put(reg, Turned(v))>>
      [] reg[1] = "holding_register" -> <<Put(reg, v)>>
      [] OTHER                       -> <<>>

\* The register is named by "point_id" and read back when the map says so,
\* without a look at what is read.
ModbusExecute(cmd, s) ==
    LET q == <<cmd.of[1], cmd.of[2], "rw">>
    IN  IF cmd.native /\ q \in s.listed /\ ModbusWrites(q, cmd.v) # <<>>
        THEN Sends(ModbusWrites(q, cmd.v) \o <<Get(q)>>) ELSE Fails

ModbusHealth(s) == {IF s.up THEN "healthy" ELSE "offline"}

-----------------------------------------------------------------------------
(* BACnet.                                                                 *)

\* Nothing is asked of the host.
BacnetDiscover(r, s) == Found(r.host, TRUE)

\* Connecting opens the local interface: the device is not asked either.
BacnetConnects(r) == r.opens

BacnetCommission(r, s) == ThroughLibrary(r.host \/ r.target, r, BacnetConnects(r))

Written == {"analogOutput", "analogValue", "binaryOutput", "binaryValue"}

\* The device's name ends with its instance when the profile gives one.
BacnetPoints(s) ==
    {Point(s.name \o s.instance \o q, q, TRUE, q[1] \in Written) : q \in DOMAIN s.known}

\* Mutant of BacnetProperty: what is read is kept under the type alone.
BacnetPropertyByType(q, s) ==
    IF s.up /\ q \in s.has
    THEN {Reading(Good(q), Learns(s, <<q[1], "0", q[3]>>, q))}
    ELSE {Reading(Recalled(Remembers(s, q)), s.known)}

\* What is read is kept under type and number, and a read that fails is
\* answered from there.
BacnetProperty(q, s) ==
    IF s.up /\ q \in s.has THEN {Reading(Good(q), Learns(s, q, q))}
    ELSE {Reading(Recalled(Remembers(s, q)), s.known)}

\* What follows the device's name is taken for type and number: behind a device
\* instance the type is in the number's place, and int() raises.
BacnetReads(id, s) ==
    LET type == id[Len(s.name) + 1]
        number == id[Len(s.name) + 2]
    IN  IF number \in Digits THEN BacnetProperty(<<type, number, "pv">>, s)
        ELSE {Reading(Raises, s.known)}

BacnetWrites(q, v) == <<Put(q, v)>>

\* The object is named by "object_type" and "object_instance": without them it
\* is analogOutput 0, whatever the endpoint.
BacnetExecute(cmd) ==
    Sends(BacnetWrites(IF cmd.native THEN <<cmd.of[1], cmd.of[2], "pv">>
                       ELSE <<"analogOutput", "0", "pv">>, cmd.v))

BacnetHealth(s) == {"healthy"}

-----------------------------------------------------------------------------
(* KNX.                                                                    *)

\* Some gateways have a web page: that is the whole search.
KnxDiscover(r, s) == Found(r.host, s.up)

\* A tunnel is opened to the gateway.
KnxConnects(s) == s.up

KnxCommission(r, s) == ThroughLibrary(r.host \/ r.target, r, KnxConnects(s))

KnxSensors == {"temperature"}

\* A quantity is <<area, group address, kind>>, and the address's slashes become
\* underscores in the id.
KnxPoints(s) ==
    {Point(<<"dev", "knx", q[1]>> \o q[2] \o <<"ep", "value">>, q, TRUE, q[3] \notin KnxSensors) :
        q \in DOMAIN s.known}

\* _extract_ga: the first three numbers in a row between "dev_knx_" and "_ep_",
\* the area's included.
KnxAddress(id) ==
    LET numeric == {i \in 3..(Len(id) - 4) : \A k \in 0..2 : id[i + k] \in Digits}
    IN  IF numeric = {} THEN Nothing
        ELSE LET i == CHOOSE i \in numeric : \A j \in numeric : i <= j
             IN  <<id[i], id[i + 1], id[i + 2]>>

\* Two seconds for the bus, then the dictionary; the quality is the same.
KnxGroup(q, s) ==
    IF s.up /\ q \in s.has THEN Reading(Good(q), Learns(s, q, q))
    ELSE Reading(Recalled(Remembers(s, q)), s.known)

KnxReads(id, s) ==
    LET at == {q \in s.has \cup DOMAIN s.known : q[2] = KnxAddress(id)}
    IN  IF at = {} THEN {Reading(Stale, s.known)} ELSE {KnxGroup(q, s) : q \in at}

\* The telegram is queued for sending and the dictionary updated: that is
\* success.
KnxWrites(q, v) == <<Queue(q, v)>>

\* Named by "group_address".
KnxExecute(cmd, s) ==
    IF cmd.native
    THEN Sends(KnxWrites(CHOOSE q \in s.listed : EndpointOf(q) = cmd.of, cmd.v)) ELSE Fails

KnxHealth(s) == {"healthy"}

-----------------------------------------------------------------------------
(* OPC UA.                                                                 *)

OpcUaDiscover(r, s) == Found(r.host, TRUE)

OpcUaConnects(s) == s.up

OpcUaCommission(r, s) == ThroughLibrary(r.host \/ r.target, r, OpcUaConnects(s))

\* Browsing adds what it finds; when it fails the nodes known so far are all.
OpcUaBrowsed(s) ==
    IF s.up THEN [q \in s.has \cup DOMAIN s.known |-> Remembers(s, q)] ELSE s.known

OpcUaPoints(s) == {Point(q, q, TRUE, q[3] = "rw") : q \in DOMAIN OpcUaBrowsed(s)}

\* A node that is read is kept, and answered from there when it cannot be.
OpcUaValue(node, s) ==
    IF s.up /\ node \in s.has THEN {Reading(Good(node), Learns(s, node, node))}
    ELSE {Reading(Recalled(Remembers(s, node)), s.known)}

\* The id still carries the server's address when it is used as a node id: no
\* such node, on the server or in the dictionary.
OpcUaReads(id, s) == OpcUaValue(Nobody, s)

\* The node's type is asked first, and done without when it is not told.
OpcUaWrites(node, v) == <<Put(node, v)>>

\* Named by "node_id".
OpcUaExecute(cmd) ==
    IF cmd.native THEN Sends(OpcUaWrites(<<cmd.of[1], cmd.of[2], "rw">>, cmd.v)) ELSE Fails

OpcUaHealth(s) == {"healthy"}

-----------------------------------------------------------------------------
(* DNP3.                                                                   *)

Dnp3Discover(r, s) == Found(r.host, TRUE)

\* The channel is set up and connects by itself later.
Dnp3Connects(r) == r.opens

Dnp3Commission(r, s) == ThroughLibrary(r.host \/ r.target, r, Dnp3Connects(r))

Commands == {"crob", "analog_output_command"}     \* groups 12 and 41

Dnp3Points(s) ==
    {Point(s.name \o q, q, q[1] \notin Commands,
           q[1] \in Commands \cup {"binary_output", "analog_output"}) :
        q \in DOMAIN s.known}

Measured(s) == {q \in s.has : q[1] \notin Commands}

\* The visitor files every measurement under group 30, whatever its group.
Filed(q) == <<"analog_input", q[2], "value">>

\* A scan reports everything; of two with one index the later stands, and the
\* order is the outstation's.
Dnp3Scans(s) ==
    LET slots  == {Filed(q) : q \in Measured(s)}
        stands == {f \in [slots -> Measured(s)] : \A k \in slots : Filed(f[k]) = k}
    IN  {[k \in DOMAIN s.known \cup slots |-> IF k \in slots THEN f[k] ELSE s.known[k]] :
            f \in stands}

\* What is in the dictionary is the answer, for as long as it is there; a scan
\* is asked for only where there is nothing.
Dnp3Value(q, s) ==
    IF Remembers(s, q) # Nothing \/ ~s.up
    THEN {Reading(Recalled(Remembers(s, q)), s.known)}
    ELSE {Reading(Recalled(Remembers([known |-> k], q)), k) : k \in Dnp3Scans(s)}

\* Group and index are the last words of the id that look like them.
Dnp3Reads(id, s) == Dnp3Value(<<id[Len(id) - 2], id[Len(id) - 1], "value">>, s)

\* Only the output groups take commands, the binary ones as on or off; the
\* outstation's verdict on one is not looked at.
Dnp3Operates(q, v) ==
    CASE q[1] \in {"crob", "binary_output"} -> Sends(<<Told(q, Turned(v))>>)
      [] q[1] \in {"analog_output_command", "analog_output"} -> Sends(<<Told(q, v)>>)
      [] OTHER -> Fails

\* Named by "group" and "index": without them it is the relay block of index
\* 0.
Dnp3Execute(cmd) ==
    Dnp3Operates(IF cmd.native THEN <<cmd.of[1], cmd.of[2], "value">>
                 ELSE <<"crob", "0", "value">>, cmd.v)

Dnp3Health(s) == {"healthy"}
=============================================================================
