---------------------------- MODULE MCLapGateway -----------------------------
(* LapGateway on two devices, one pppd and two commands: one device is     *)
(* added or removed while the other has a session.                         *)
EXTENDS LapGateway, TLC

MCIp     == {1, 2, 3}
MCSubnet == {1, 2, 3}

Symmetric == Permutations(Device) \cup Permutations(Command)
=============================================================================
