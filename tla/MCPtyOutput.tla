----------------------------- MODULE MCPtyOutput -----------------------------
(* Instances of PtyOutput for TLC.                                         *)
EXTENDS PtyOutput
=============================================================================
