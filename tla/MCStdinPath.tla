----------------------------- MODULE MCStdinPath -----------------------------
(* Instances of StdinPath for TLC.                                         *)
EXTENDS StdinPath
=============================================================================
