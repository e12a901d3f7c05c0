------------------------------- MODULE MCTunnel -------------------------------
(* Tunnel as it is: its constants are numbers and sets of strings.           *)
EXTENDS Tunnel
=============================================================================
