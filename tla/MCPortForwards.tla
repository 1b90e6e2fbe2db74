--------------------------- MODULE MCPortForwards ---------------------------
(* PortForwards for TLC.                                                   *)
EXTENDS PortForwards
=============================================================================
