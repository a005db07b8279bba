--------------------------- MODULE MCPairingWindow ---------------------------
(* PairingWindow with two administrators' processes.  D = 2 ticks lets a   *)
(* command straddle the end of its own window; MaxOpens = 2 lets windows   *)
(* overlap and one be opened while another is closed.                      *)
EXTENDS PairingWindow
=============================================================================
