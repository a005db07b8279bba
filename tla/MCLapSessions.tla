---------------------------- MODULE MCLapSessions ----------------------------
(* LapSessions on two devices and two pppd children: enough for a child    *)
(* that was told to stop beside its successor, and for two sessions.       *)
EXTENDS LapSessions

(* On a /22, by the last two octets: three addresses for the devices, of   *)
(* which the first and the third end in one octet.  A file that gives both *)
(* devices one address is refused; the gateway's own, 1, is left out, for  *)
(* load_config refuses it in the same way.                                 *)
MCIp     == {2, 3, 258}
MCSubnet == {2, 3, 258}
=============================================================================
