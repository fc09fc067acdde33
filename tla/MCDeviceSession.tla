---------------------------- MODULE MCDeviceSession ----------------------------
EXTENDS DeviceSession, TLC

Symmetric == Permutations(Caller) \cup Permutations(Channel)
=============================================================================
