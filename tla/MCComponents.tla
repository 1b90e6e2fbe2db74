---------------------------- MODULE MCComponents ----------------------------
(* Components for TLC.  X11 is asked for without and with DISPLAY; there is *)
(* no preference, one from the file, or a flag that overrides it.  Another *)
(* program holds at most one part of the first display: the first one a    *)
(* process meets turns it away whatever the others are.  The etrs          *)
(* processes are alike, and no liveness property mentions them.            *)
EXTENDS Components, TLC

TheClientKeys == <<"ssh_port", "address_family">>
TheServerKeys == <<"reconnect_timeout", "address_family">>
TheEnv == <<"LANG", "LD_PRELOAD">>
TheHosts == {<<>>, <<"v6", "v4">>}
Asked ==
    {[cmd |-> c, x11 |-> x[1], display |-> x[2], flag |-> p[1], cfg |-> p[2]] :
        c \in BOOLEAN, x \in {<<FALSE, FALSE>>, <<TRUE, TRUE>>, <<TRUE, FALSE>>},
        p \in {<<"auto", "auto">>, <<"auto", "v6">>, <<"v4", "v6">>}}

Parts == {{}, {"v4"}, {"v6"}, {"file"}}
Alike == Permutations(Processes)
=============================================================================
