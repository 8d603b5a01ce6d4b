--------------------------- MODULE BridgeAdapters ---------------------------
(***************************************************************************)
(* The adapters that speak to a controller, which speaks to the devices:   *)
(* Zigbee2MQTT, Z-Wave JS, Matter and Lutron over HTTP, and an MQTT broker *)
(* with discovery.                                                         *)
(***************************************************************************)
EXTENDS AdapterSdk

AsksTheHost(r) == "http_probe" \in r.methods /\ r.host

-----------------------------------------------------------------------------
(* Zigbee2MQTT.  A quantity's third piece is its access: r, w or rw.       *)

ZigbeeDiscover(r, s) == Found(AsksTheHost(r), Reaches(r, s))

\* Mutant of ZigbeeCommission: the client stays open when the probe fails.
ZigbeeCommissionLeaks(r, s) ==
    IF ~(r.host \/ r.target) THEN TurnedAway
    ELSE IF Reaches(r, s) THEN Opened ELSE [status |-> "failed", client |-> "kept"]

ZigbeeCommission(r, s) == Probed(r.host \/ r.target, Reaches(r, s))

\* Every feature of every expose becomes an endpoint with one point.
ZigbeePoints(s) ==
    {Point(q, q, q[3] \in {"r", "rw"}, q[3] \in {"w", "rw"}) : q \in s.has}

ZigbeeRead(id, s) == Stale

\* The set command names the device by the endpoint id, which the bridge has
\* never heard of; what a bridge answers to a command is not looked into, here
\* and in the next three.
ZigbeeExecute(cmd) == Sends(<<Told(Nobody, cmd.v)>>)

ZigbeeHealth(s) == {IF s.up THEN "healthy" ELSE "error"}

-----------------------------------------------------------------------------
(* Z-Wave JS.                                                              *)

ZWaveDiscover(r, s) == Found(AsksTheHost(r), Reaches(r, s))

ZWaveCommission(r, s) == Probed(r.host \/ r.target, Reaches(r, s))

Bookkeeping == {"Version", "Manufacturer Specific", "Association"}

\* Every value of every node but the controller's own bookkeeping.
ZWavePoints(s) ==
    {Point(q, q, q[3] \in {"r", "rw"}, q[3] \in {"w", "rw"}) :
        q \in {h \in s.has : h[1] \notin Bookkeeping}}

ZWaveRead(id, s) == Stale

\* Node, command class and property are taken from the target as they are.
ZWaveExecute(cmd) ==
    Sends(<<Told(IF cmd.native THEN <<cmd.of[1], cmd.of[2], "rw">> ELSE Nobody, cmd.v)>>)

ZWaveHealth(s) == {IF s.up THEN "healthy" ELSE "error"}

-----------------------------------------------------------------------------
(* Matter.                                                                 *)

\* Asked for "mdns" as well, it probes the host just the same.
MatterDiscover(r, s) ==
    Found(AsksTheHost(r) \/ ("mdns" \in r.methods /\ r.host), Reaches(r, s))

MatterCommission(r, s) == Probed(r.host \/ r.target, Reaches(r, s))

Clusters == {"on_off", "level_control", "temperature", "door_lock"}

\* A cluster outside MATTER_CLUSTER_MAP is left out; every attribute of the
\* others is readable.
MatterPoints(s) ==
    {Point(q, q, TRUE, q[3] = "rw") : q \in {h \in s.has : h[1] \in Clusters}}

MatterRead(id, s) == Stale

MatterExecute(cmd) ==
    Sends(<<Told(IF cmd.native THEN <<cmd.of[1], cmd.of[2], "rw">> ELSE Nobody, cmd.v)>>)

MatterHealth(s) == {IF s.up THEN "healthy" ELSE "error"}

-----------------------------------------------------------------------------
(* Lutron.                                                                 *)

\* Whatever the method asked for, and on the usual port only.
LutronDiscover(r, s) == Found(r.host, s.up /\ s.port = "usual")

LutronCommission(r, s) == Probed(r.host \/ r.target, Reaches(r, s))

\* One level per zone.  A bridge that does not answer is inventoried as one
\* without devices.
LutronPoints(s) ==
    IF s.up THEN {Point(q, q, TRUE, q[3] = "rw") : q \in s.has} ELSE {}

LutronRead(id, s) == Stale

\* The zone is "zone_href"; every verb goes to the level in the parameters.
LutronExecute(cmd) ==
    Sends(<<Told(IF cmd.native THEN <<cmd.of[1], cmd.of[2], "rw">> ELSE Nobody, cmd.v)>>)

LutronHealth(s) == {IF s.up THEN "healthy" ELSE "error"}

-----------------------------------------------------------------------------
(* MQTT.  A quantity is <<component, <<object, node>>, access>>; known maps *)
(* the entities announced so far to Nothing, or to themselves once their   *)
(* state topic has been heard.                                             *)

MqttDiscover(r, s) == {}

\* A broker that does not answer within five seconds is left.
MqttConnects(r, s) == r.host /\ Reaches(r, s)

\* Only the broker of the profile.
MqttCommission(r, s) ==
    ThroughLibrary(TRUE, r, MqttConnects(r, s))

\* What was announced when commissioning waited, and is listed from memory.
MqttPoints(s) == {Point(q, q, TRUE, q[3] = "rw") : q \in DOMAIN s.known}

\* The first entity whose state was heard, whichever point is asked for; the
\* order is that of the announcements.
MqttReads(id, s) ==
    LET heard == {q \in DOMAIN s.known : s.known[q] # Nothing}
    IN  IF heard = {} THEN {Stale} ELSE {Good(q) : q \in heard}

\* The first entity whose component and object the endpoint's id ends with:
\* the node before them is not compared.  To publish is to hand the message to
\* the socket.
MqttExecute(cmd, s) ==
    LET alike == {q \in DOMAIN s.known :
                    /\ q[1] = cmd.of[1] /\ q[2][1] = cmd.of[2][1]
                    /\ q[3] = "rw"}
    IN  IF alike = {} THEN {Fails} ELSE {Sends(<<Queue(q, cmd.v)>>) : q \in alike}

\* _connected is set by the first connection and never cleared.
MqttHealth(s) == {"healthy"}
=============================================================================
