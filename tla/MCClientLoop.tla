---------------------------- MODULE MCClientLoop ----------------------------
(* An instance of ClientLoop for TLC.                                      *)
EXTENDS ClientLoop
=============================================================================
