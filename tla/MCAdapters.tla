----------------------------- MODULE MCAdapters -----------------------------
(* One or two installations per adapter, small and well addressed: no BACnet *)
(* or DNP3 object has the number zero.  The last three are ambiguous.        *)
EXTENDS Adapters

Installed(adapter, has) ==
    [adapter |-> adapter, name |-> <<"dev", "unit">>, instance |-> <<>>, has |-> has,
     port |-> "usual", endpoints |-> {}]

MCSites ==
    {Installed("shelly",
         {<<"switch", "0", "output">>, <<"switch", "1", "output">>, <<"switch", "1", "apower">>,
          <<"input", "0", "input">>, <<"cover", "0", "current_pos">>, <<"cover", "0", "motor">>}),
     Installed("hue",
         {<<"light", "1", "on">>, <<"light", "2", "on">>, <<"light", "2", "brightness">>,
          <<"light", "2", "xy">>}),
     Installed("esphome",
         {<<"switch", "1", "state">>, <<"sensor", "1", "state">>, <<"button", "1", "state">>}),
     [Installed("kincony",
         {<<"relay", "1", "channel">>, <<"relay", "2", "channel">>, <<"relay", "1", "pulse_time">>,
          <<"dinput", "1", "channel">>, <<"ainput", "1", "channel">>, <<"ir", "tx", "channel">>})
         EXCEPT !.endpoints = {<<"ir", "tx">>}],
     [Installed("onvif", {<<"stream", "main", "uri">>, <<"motion", "main", "motion">>})
         EXCEPT !.port = "other"],
     Installed("modbus",
         {<<"coil", "1", "rw">>, <<"holding_register", "1", "rw">>, <<"holding_register", "2", "r">>,
          <<"input_register", "1", "r">>}),
     Installed("bacnet",
         {<<"analogOutput", "1", "pv">>, <<"analogInput", "1", "pv">>}),
     [Installed("bacnet", {<<"binaryValue", "1", "pv">>}) EXCEPT !.instance = <<"3">>],
     Installed("knx",
         {<<"hall", <<"1", "2", "3">>, "switch">>, <<"hall", <<"1", "2", "1">>, "temperature">>}),
     Installed("opcua", {<<"node", "1", "rw">>, <<"node", "2", "r">>}),
     Installed("dnp3",
         {<<"analog_input", "1", "value">>, <<"crob", "1", "value">>}),
     Installed("zigbee", {<<"plug", "state", "rw">>, <<"plug", "power", "r">>}),
     Installed("zwave",
         {<<"Binary Switch", "2", "rw">>, <<"Meter", "2", "r">>, <<"Version", "2", "r">>}),
     Installed("matter",
         {<<"on_off", "1", "rw">>, <<"temperature", "1", "r">>, <<"groups", "1", "rw">>}),
     Installed("lutron", {<<"dimmer", "1", "rw">>, <<"sensor", "2", "r">>}),
     Installed("mqtt", {<<"switch", <<"lamp", "n1">>, "rw">>}),
     \* Where the ids do not lead back.
     Installed("knx",
         {<<"1", <<"2", "3", "1">>, "switch">>, <<"hall", <<"1", "2", "3">>, "switch">>}),
     Installed("dnp3", {<<"analog_input", "1", "value">>, <<"binary_output", "1", "value">>}),
     Installed("mqtt",
         {<<"switch", <<"lamp", "n1">>, "rw">>, <<"sensor", <<"lux", "n1">>, "r">>})}

MCVerbs == {"set", "toggle", "pulse", "dim", "open"}
=============================================================================
