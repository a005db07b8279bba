------------------------- MODULE MCBluetoothRecovery -------------------------
(* BluetoothRecovery with the seconds of the unit and of the program.      *)
EXTENDS BluetoothRecovery
=============================================================================
