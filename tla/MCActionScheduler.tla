-------------------------- MODULE MCActionScheduler --------------------------
(* ActionScheduler with two schedules of different initiators.               *)
EXTENDS ActionScheduler

CONSTANTS s1, s2

MCNoLimit == -1
MCIds == {s1, s2}
MCInitiatorOf == [s \in MCIds |-> IF s = s1 THEN "agent" ELSE "user"]
==============================================================================
