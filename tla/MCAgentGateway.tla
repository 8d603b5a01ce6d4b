----------------------------- MODULE MCAgentGateway -----------------------------
(* AgentGateway on one device any agent may write, two that need a human (by  *)
(* safety class, by access level and capability) and two that are refused     *)
(* outright, one of them although its class would ask for a human.            *)
EXTENDS AgentGateway, TLC

MCDevices == {"lamp", "boiler", "garage", "door", "meter"}
MCAiAccess == [d \in MCDevices |->
    CASE d = "garage" -> "confirm_required"
      [] d = "meter"  -> "read_only"
      [] OTHER        -> "full"]
MCSafetyClass == [d \in MCDevices |-> IF d \in {"boiler", "door"} THEN 3 ELSE 1]
MCBlockedCap == {"door"}
MCConfirmCap == {"garage"}
MCWired == MCDevices

MCSymmetry == Permutations(Callers) \cup Permutations(ConfIds)
================================================================================
