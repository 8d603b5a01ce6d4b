---------------------------- MODULE MCLeasedGateway ----------------------------
(* LeasedGateway on two devices without restrictions of their own.             *)
EXTENDS LeasedGateway

MCDurations == {1, 9}
MCAiAccess == [d \in Devices |-> "full"]
MCSafetyClass == [d \in Devices |-> 1]
================================================================================
