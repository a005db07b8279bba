----------------------------- MODULE MCLapDevice -----------------------------
(* LapDevice with three commands on two devices, two usable addresses the  *)
(* devices compete for, and an address no peer may have.                   *)
EXTENDS LapDevice, TLC

MCIp     == {1, 2, 3}
MCUsable == {2, 3}

Symmetric == Permutations(Device) \cup Permutations(Command)
=============================================================================
