---------------------------- MODULE MCConfigFile ----------------------------
(* ConfigFile for TLC: a key of its own in each section and one they share. *)
EXTENDS ConfigFile

TheClientKeys == <<"ssh_port", "address_family">>
TheServerKeys == <<"reconnect_timeout", "address_family">>
=============================================================================
