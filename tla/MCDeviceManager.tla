--------------------------- MODULE MCDeviceManager ---------------------------
(* DeviceManager for TLC.                                                     *)
EXTENDS DeviceManager, TLC
Symmetric == Permutations(Camera) \cup Permutations(Manager)
=============================================================================
