------------------------------ MODULE MCStartUp ------------------------------
(* StartUp for TLC: a host with addresses of both families, IPv6 first, and *)
(* a client that may have no route to IPv6.                                *)
EXTENDS StartUp

TheEnv == <<"LANG">>
Both == {<<"v4">>, <<"v6", "v4">>}
Reach == {{"v4"}, {"v4", "v6"}}
Plain ==
    {[cmd |-> FALSE, x11 |-> FALSE, display |-> FALSE, flag |-> f, cfg |-> "auto"] : f \in Prefs}
=============================================================================
