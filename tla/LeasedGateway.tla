----------------------------- MODULE LeasedGateway -----------------------------
(***************************************************************************)
(* The agents' tools together: set_device and its confirmations            *)
(* (AgentGateway) next to acquire_lock and release_lock                    *)
(* (DeviceCoordinator), on one clock, as core/api.py wires them into one   *)
(* ToolExecutor.  A caller of set_device is an agent that may hold leases. *)
(***************************************************************************)
EXTENDS DeviceCoordinator

CONSTANTS ConfIds, AiAccess, SafetyClass, BlockedCap, ConfirmCap, Wired,
          Cooldown, Window, MaxWrites, TTL

VARIABLES rate, confirmations, caller, lastEffect, recordedEffect

gatewayVars == <<rate, confirmations, caller, lastEffect, recordedEffect>>
allVars == <<vars, gatewayVars>>

Gateway == INSTANCE AgentGateway WITH Callers <- Agents

\* One clock: Epoch is the Start of the gateway.
JointInit == Init /\ Gateway!Init

\* Neither component looks at the other's state.
JointNext ==
    \/ Tick /\ UNCHANGED gatewayVars
    \/ Operation /\ UNCHANGED gatewayVars
    \/ Gateway!Operation /\ UNCHANGED <<leases, told>>

JointSpec == JointInit /\ [][JointNext]_allVars

\* agent/coordination.py:4-6 "Agent A acquires a lease on a device or group, gets
\* exclusive write access for the lease duration. Other agents are blocked with
\* a clear error explaining who holds the lease."
LeaseBlocksOthers ==
    [][\A a \in Agents :
        caller[a].st = "idle" /\ caller'[a].st = "executing"
            => CheckWrite(caller'[a].device, a)]_allVars
================================================================================
