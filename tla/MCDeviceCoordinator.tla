-------------------------- MODULE MCDeviceCoordinator --------------------------
(* DeviceCoordinator with durations below, at and above the limits.            *)
EXTENDS DeviceCoordinator, TLC

MCDurations == {0, 1, 9}
MCSymmetry == Permutations(Agents) \cup Permutations(Devices)
================================================================================
