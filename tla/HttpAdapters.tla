---------------------------- MODULE HttpAdapters ----------------------------
(***************************************************************************)
(* The adapters that speak HTTP to the equipment itself: Shelly, Hue,      *)
(* ESPHome, KinCony (through Tasmota) and ONVIF.                           *)
(*                                                                         *)
(* Each has the same six operators: what discover(), commission(),         *)
(* inventory(), read_point(), execute() and health() do of their own.  A   *)
(* state s of the equipment says what it has and whether it is up; r is    *)
(* what the caller supplies to discover() or commission().                 *)
(***************************************************************************)
EXTENDS AdapterSdk

Probes(r) == "http_probe" \in r.methods /\ r.host

-----------------------------------------------------------------------------
(* Shelly.                                                                 *)

ShellyDiscover(r, s) == Found(Probes(r), s.up)

ShellyCommission(r, s) == Probed(r.host \/ r.target, s.up)

ShellySuffix == [output |-> "state", apower |-> "power", aenergy |-> "energy",
                 input |-> "state", current_pos |-> "position", motor |-> "state"]

\* Every switch has its state point, power and energy only when reported; a
\* cover has a position and a motor state.
ShellyPoints(s) ==
    {Point(s.name \o <<q[1], q[2], ShellySuffix[q[3]]>>, q, TRUE,
           q[3] \in {"output", "current_pos"}) : q \in s.has}

\* Mutant of ShellyRead: a "state" is taken for a switch's, whatever has it.
ShellyReadSwitch(id, s) ==
    IF Ending(id) = "state" THEN Reported(<<"switch", id[Len(id) - 1], "output">>, s)
    ELSE Raises

\* One GetStatus, then the id is taken apart; energy and the motor's state are
\* declared and not understood.
ShellyRead(id, s) ==
    LET of(part, key) == <<part, After(id, part), key>>
    IN  CASE Has(id, "switch") /\ Ending(id) = "state" -> Reported(of("switch", "output"), s)
          [] Has(id, "switch") /\ Ending(id) = "power" -> Reported(of("switch", "apower"), s)
          [] Has(id, "input")                          -> Reported(of("input", "input"), s)
          [] Has(id, "cover") /\ Ending(id) = "position" ->
               Reported(of("cover", "current_pos"), s)
          [] OTHER -> Raises

\* Mutant of ShellyExecute: the channel is lost on the way.
ShellyExecuteFirst(cmd) ==
    LET out == <<"switch", "0", "output">>
    IN  IF cmd.verb = "set" THEN Sends(<<Put(out, cmd.v), Get(out)>>) ELSE Fails

\* The device answers a switch it does not have with an error, and what the
\* status says of it afterwards is passed on unread.  A cover is told, and
\* "succeeded" whatever the verb; set goes to the default position, for only
\* "position" is read.
ShellyExecute(cmd) ==
    LET out == <<"switch", After(cmd.ep, "switch"), "output">>
        pos == <<"cover", After(cmd.ep, "cover"), "current_pos">>
        turned == [open |-> "100", close |-> "0", stop |-> "here", set |-> "100"]
        switch == Has(cmd.ep, "switch")
    IN  CASE switch /\ cmd.verb = "set"    -> Sends(<<Put(out, cmd.v), Get(out)>>)
          [] switch /\ cmd.verb = "toggle" -> Sends(<<Put(out, "flip"), Get(out)>>)
          [] ~switch /\ Has(cmd.ep, "cover") ->
               Sends(IF cmd.verb \in DOMAIN turned
                     THEN <<Put(pos, turned[cmd.verb])>> ELSE <<>>)
          [] OTHER -> Fails

ShellyHealth(s) == {IF s.up THEN "healthy" ELSE "error"}

-----------------------------------------------------------------------------
(* Hue.                                                                    *)

HueDiscover(r, s) == Found(Probes(r), s.up)

\* Without a key the link button has to have been pressed; the bridge then
\* makes one, which is lost when the probe after it fails.
HueCommission(r, s) ==
    IF (r.host \/ r.target) /\ (r.secret \/ (r.button /\ s.up))
    THEN Probed(TRUE, s.up) ELSE TurnedAway

HueSuffix == [on |-> "on", brightness |-> "brightness",
              mirek |-> "color_temp", xy |-> "color_xy"]

\* A light is a device of its own: its name is "dev_hue_" and its number.
HuePoints(s) ==
    {Point(<<"dev", "hue", q[2], q[1], HueSuffix[q[3]]>>, q, TRUE, TRUE) : q \in s.has}

\* A light the bridge does not have is an error; of one it has, what it does not
\* report is given a default.  _extract_light_id takes what is between "hue"
\* and "light".
HueRead(id, s) ==
    LET light == <<"light", After(id, "hue")>>
    IN  IF /\ Has(id, "light") /\ Ending(id) \in {"on", "brightness"}
           /\ light \in {EndpointOf(q) : q \in s.has}
        THEN Reported(light \o <<Ending(id)>>, s) ELSE Raises

\* The bridge has no toggle: the adapter reads the state and writes its
\* negation.  A "dim" takes its level from "level", by default the middle.  The
\* bridge's answer to a write is good when its HTTP status is.
HueExecute(cmd) ==
    LET light == After(cmd.ep, "hue")
        on == <<"light", light, "on">>
    IN  CASE cmd.verb = "set"    -> Sends(<<Told(on, Turned(cmd.v))>>)
          [] cmd.verb = "toggle" -> Sends(<<Get(on), Told(on, "flip")>>)
          [] cmd.verb = "dim"    -> Sends(<<Told(<<"light", light, "brightness">>, "half")>>)
          [] OTHER -> Fails

\* A bridge that answers without a bridge in the answer is "degraded".
HueHealth(s) == IF s.up THEN {"healthy", "degraded"} ELSE {"error"}

-----------------------------------------------------------------------------
(* ESPHome.                                                                *)

EspHomeDiscover(r, s) == Found(Probes(r), s.up)

EspHomeCommission(r, s) == Probed(r.host \/ r.target, s.up)

\* ENTITY_CAP_MAP, as directions.
Reports == {"switch", "light", "binary_sensor", "sensor", "fan", "cover",
            "climate", "number", "select", "lock", "text_sensor"}
Obeys   == {"switch", "light", "fan", "cover", "climate", "number", "select",
            "lock", "button"}

\* Every entity type is asked for by itself, and one that does not answer is
\* left out without a word: answered are the types that did.
EspHomePoints(s, answered) ==
    {Point(s.name \o q, q, q[1] \in Reports, q[1] \in Obeys) :
        q \in {h \in s.has : h[1] \in answered \cap (Reports \cup Obeys)}}

\* What follows the device's name: the entity's type and its own id.
EspHomeEntity(id, s) == <<id[Len(s.name) + 1], id[Len(s.name) + 2], "state">>

EspHomeRead(id, s) ==
    LET q == EspHomeEntity(id, s)
    IN  IF q[1] \in Reports \cup Obeys THEN Requested(q, s) ELSE Raises

\* turn_on, turn_off or toggle, for every verb, value and type of entity; one
\* that only reports has no such page.
EspHomeExecute(cmd, s) ==
    LET q == EspHomeEntity(cmd.ep, s)
        action == IF cmd.verb = "toggle" THEN "flip" ELSE Turned(cmd.v)
    IN  IF q[1] \in Reports \cup Obeys
        THEN Sends(<<Put(IF q[1] \in Obeys THEN q ELSE Nobody, action)>>) ELSE Fails

EspHomeHealth(s) == {IF s.up THEN "healthy" ELSE "error"}

-----------------------------------------------------------------------------
(* KinCony, over TasmotaProfile.                                           *)

\* ping() first, then the status whose failure is not caught: the same host.
KinConyDiscover(r, s) == Found(Probes(r), s.up)

\* An unknown board raises before the client exists; ping() never raises.
KinConyCommission(r, s) ==
    CASE ~(r.host \/ r.target) -> TurnedAway
      [] ~r.board              -> Uncaught
      [] OTHER                 -> Probed(TRUE, s.up)

\* The channels come from the board's file, whether it answers or not; an
\* analog input has two points, the infrared parts have an endpoint only.
KinConyPoints(s) ==
    LET digital == {q \in s.listed : q[1] \in {"relay", "dinput"} /\ q[3] = "channel"}
        analog  == {q \in s.listed : q[1] = "ainput"}
        point(q, suffix) ==
            Point(s.name \o <<q[1], q[2], suffix>>, q, TRUE, q[1] = "relay")
    IN  {point(q, "state") : q \in digital}
        \cup {point(q, suffix) : q \in analog, suffix \in {"raw", "voltage"}}

\* _extract_index: the digits after the marker, and 1 when there are none.
ChannelAfter(id, marker) == IF After(id, marker) \in Digits THEN After(id, marker) ELSE "1"

\* Mutant of KinConyRead: the digital inputs are read as relays.
KinConyReadRelay(id, s) == Reported(<<"relay", id[Len(id) - 1], "channel">>, s)

\* What the board does not report is "OFF", or 0.
KinConyRead(id, s) ==
    LET of(part) == <<part, ChannelAfter(id, part), "channel">>
    IN  CASE Has(id, "relay") /\ Ending(id) = "state" -> Reported(of("relay"), s)
          [] Has(id, "ainput") /\ Ending(id) \in {"raw", "voltage"} ->
               Reported(of("ainput"), s)
          [] Has(id, "dinput") /\ Ending(id) = "state" -> Reported(of("dinput"), s)
          [] OTHER -> Raises

\* What Tasmota says of a command ("Unknown" for one it cannot follow) is passed
\* on unread, and so is the state read back.  A pulse leaves the relay's
\* PulseTime behind.
KinConyExecute(cmd) ==
    LET relay == ChannelAfter(cmd.ep, "relay")
        power == <<"relay", relay, "channel">>
        pulse == <<"relay", relay, "pulse_time">>
        switch == Has(cmd.ep, "relay")
        switched(requests) == Sends(requests \o <<Get(power)>>)
    IN  CASE switch /\ cmd.verb = "set"    -> switched(<<Told(power, Turned(cmd.v))>>)
          [] switch /\ cmd.verb = "toggle" -> switched(<<Told(power, "flip")>>)
          [] switch /\ cmd.verb = "pulse"  ->
               switched(<<Told(pulse, "duration"), Told(power, "on")>>)
          [] ~switch /\ Ending(cmd.ep) = "tx" ->
               Sends(<<Told(<<"ir", "tx", "channel">>, "code")>>)
          [] OTHER -> Fails

\* The signal's strength is asked for after the ping and may not come.
KinConyHealth(s) == IF s.up THEN {"healthy", "error"} ELSE {"offline"}

-----------------------------------------------------------------------------
(* ONVIF.                                                                  *)

OnvifDiscover(r, s) == Found(Probes(r), Reaches(r, s))

\* Every failure is turned into an empty answer, and that into a failure.
OnvifDeviceInfo(r, s) == Reaches(r, s)

OnvifCommission(r, s) == Probed(r.host \/ r.target, OnvifDeviceInfo(r, s))

\* The same for every camera: nothing is asked.
OnvifPoints(s) == {Point(q, q, TRUE, FALSE) : q \in {h \in s.listed : h[3] # "image"}}

\* A camera that does not give the stream's address is a bad reading rather
\* than an error.
OnvifStreamUri(s) ==
    LET stream == <<"stream", "main", "uri">>
    IN  IF s.up /\ stream \in s.has THEN Good(stream) ELSE Bad

OnvifRead(id, s) == IF Ending(id) = "uri" THEN OnvifStreamUri(s) ELSE Raises

OnvifExecute(cmd) == Fails

OnvifHealth(s) == {IF s.up THEN "healthy" ELSE "offline"}
=============================================================================
