------------------------------- MODULE StartUp -------------------------------
(***************************************************************************)
(* How a session comes about: etr's main checks its input, runs ssh, hands *)
(* etrs the session's header, environment, X11 request, address-family     *)
(* preference and command line by line, and waits for the port;            *)
(* etrs reads until end of file and forks; the child binds and reports the *)
(* port through a pipe, the parent prints it, and ssh ends once the child  *)
(* has let go of its stdout.  Then etr picks the address to dial.  The ssh *)
(* connection may be lost at any point, in the middle of a line too.       *)
(***************************************************************************)
EXTENDS Integers, Sequences, SequencesExt

CONSTANTS
    Env,        \* the environment entries etr sends, in order
    Blocked,    \* those is_safe_client_env_var rejects
    Asks,       \* what the user may ask for
    OwnPrefs,   \* the server's own preferences
    HostAddrs,  \* what the target's name may resolve to: sequences of families
    Routes      \* families the client may have a route to

Prefs == {"auto", "v4", "v6"}  \* AddrPref

\* "torn" marks a value that was cut, and is none itself.
StartUpAssumption ==
    /\ Env \in Seq(STRING \ {"torn"})
    /\ Asks \subseteq [cmd : BOOLEAN, x11 : BOOLEAN, display : BOOLEAN, flag : Prefs, cfg : Prefs]
    /\ OwnPrefs \subseteq Prefs
    /\ Blocked \subseteq ToSet(Env)
    /\ \A a \in HostAddrs : a \in Seq({"v4", "v6"})
    /\ \A r \in Routes : r \subseteq {"v4", "v6"}

VARIABLES
    ask,     \* what the user asked: cmd, x11, flag, cfg; display says DISPLAY is set
    own,     \* the server's own preference
    addrs,   \* addresses of the target; <<>> for a name only ssh can resolve
    routes,  \* families the client has a route to
    client,  \* where etr is; it ends as dial, failed (told to by ssh, etrs or the
             \* environment), unresolved (no address) or broken (a call of its own failed)
    unsent,  \* lines etr has still to write
    ssh,     \* the ssh process: none, connecting, up, lost, failed, unreachable, done
    stdin,   \* lines on their way to etrs
    closed,  \* etr has closed ssh's stdin
    server,  \* the etrs that ssh started: none, read, parent, or its exit status
    child,   \* its child: none, bind, bound (port written), running, gone
    seen,    \* what the server has parsed
    printed, \* PORT ... CERT ... is on ssh's stdout
    addr     \* family of the address etr dials

inputs == <<ask, own, addrs, routes>>
wires == <<unsent, stdin, closed, printed>>
vars == <<inputs, client, wires, ssh, server, child, seen, addr>>
-----------------------------------------------------------------------------
(* addrfam.rs                                                              *)

\* AddrPref::or
Or(pref, fallback) == IF pref = "auto" THEN fallback ELSE pref

\* The addresses of some families, in order.
OfFamilies(as, families) ==
    LET kept[i \in 0 .. Len(as)] ==
            IF i = 0 THEN <<>>
            ELSE IF as[i] \in families THEN Append(kept[i - 1], as[i])
            ELSE kept[i - 1]
    IN  kept[Len(as)]

\* order_by_family: the preferred family first, otherwise in the resolver's order.
OrderByFamily(as, pref) ==
    IF pref = "auto" THEN as
    ELSE OfFamilies(as, {pref}) \o OfFamilies(as, {"v4", "v6"} \ {pref})

\* resolve_preferred: the first address with a route, or else the first one.
ResolvePreferred(as, pref) ==
    LET ordered == OrderByFamily(as, pref)
        routable == OfFamilies(ordered, routes)
    IN  IF routable # <<>> THEN routable[1] ELSE ordered[1]

\* family_available: the name resolves to an address of the family.
FamilyAvailable(pref) == pref # "auto" /\ pref \in ToSet(addrs)

\* effective_bind_ip, as the families a client can use: [::] takes both.
Listens == IF own = "v4" THEN {"v4"} ELSE {"v4", "v6"}

AddrPref == Or(ask.flag, ask.cfg)
-----------------------------------------------------------------------------
Line(kind, val) == [kind |-> kind, val |-> val]

\* What bootstrap_ssh writes, line by line.
Lines ==
    <<Line("header", "whole")>>
      \o [i \in DOMAIN Env |-> Line("env", Env[i])]
      \o (IF ask.x11 THEN <<Line("x11", "whole")>> ELSE <<>>)
      \o (IF AddrPref # "auto" THEN <<Line("prefer", AddrPref)>> ELSE <<>>)
      \o (IF ask.cmd THEN <<Line("cmd", "whole")>> ELSE <<>>)

Nothing == [header |-> "none", env |-> {}, x11 |-> FALSE, pref |-> "auto", cmd |-> "none"]

\* Nothing has happened; etr is at the given place.
StartsAs(place) ==
    /\ ask \in Asks
    /\ own \in OwnPrefs
    /\ addrs \in HostAddrs
    /\ routes \in Routes
    /\ client = place
    /\ unsent = <<>>
    /\ ssh = "none"
    /\ stdin = <<>>
    /\ closed = FALSE
    /\ server = "none"
    /\ child = "none"
    /\ seen = Nothing
    /\ printed = FALSE
    /\ addr = "none"

Init == StartsAs("check")
-----------------------------------------------------------------------------
(* etr                                                                     *)

Fail == client' = "failed" /\ UNCHANGED addr

\* validate_bootstrap_inputs refuses the target, a variable or the command.
Invalid ==
    /\ client = "check"
    /\ Fail
    /\ UNCHANGED <<inputs, wires, ssh, server, child, seen>>

\* ssh is spawned, with a family flag if the name has such an address.
SpawnSsh ==
    /\ client = "check"
    /\ client' = "write"
    /\ ssh' = "connecting"
    /\ unsent' = Lines
    /\ UNCHANGED <<inputs, stdin, closed, server, child, seen, printed, addr>>

\* A line goes into ssh's stdin: it is buffered until ssh is connected.
WriteLine ==
    /\ client = "write"
    /\ unsent # <<>>
    /\ ssh \in {"connecting", "up"}
    /\ stdin' = Append(stdin, Head(unsent))
    /\ unsent' = Tail(unsent)
    /\ UNCHANGED <<inputs, client, closed, ssh, server, child, seen, printed, addr>>

\* The write fails because ssh is gone.
WriteFails ==
    /\ client = "write"
    /\ ssh \in {"lost", "failed", "unreachable"}
    /\ Fail
    /\ UNCHANGED <<inputs, wires, ssh, server, child, seen>>

\* drop(stdin)
CloseStdin ==
    /\ client = "write"
    /\ unsent = <<>>
    /\ client' = "wait"
    /\ closed' = TRUE
    /\ UNCHANGED <<inputs, unsent, stdin, ssh, server, child, seen, printed, addr>>

\* wait_with_output, the exit status, and the search for the PORT line.
SshExits ==
    /\ client = "wait"
    /\ ssh \in {"lost", "failed", "unreachable", "done"}
    /\ IF ssh = "done" /\ server = "exit0" /\ printed
       THEN client' = "x11" /\ UNCHANGED addr
       ELSE Fail
    /\ UNCHANGED <<inputs, wires, ssh, server, child, seen>>

\* wait_with_output fails: etr gives up, ssh and the server go on.
WaitFails ==
    /\ client = "wait"
    /\ client' = "broken"
    /\ UNCHANGED <<inputs, wires, ssh, server, child, seen, addr>>

\* DISPLAY is needed for X11 forwarding, and looked at only now.
CheckDisplay ==
    /\ client = "x11"
    /\ IF ask.x11 /\ ~ask.display
       THEN Fail
       ELSE client' = "resolve" /\ UNCHANGED addr
    /\ UNCHANGED <<inputs, wires, ssh, server, child, seen>>

\* run_connection_loop resolves the name once more, for QUIC: the lookup may fail,
\* whatever an earlier one gave.  Then it makes its TLS configuration and its
\* endpoint, each of which may fail too.
Resolve ==
    /\ client = "resolve"
    /\ \/ client' = "unresolved" /\ UNCHANGED addr
       \/ /\ addrs # <<>>
          /\ addr' = ResolvePreferred(addrs, AddrPref)
          /\ client' \in {"dial", "broken"}
    /\ UNCHANGED <<inputs, wires, ssh, server, child, seen>>

Etr ==
    \/ SpawnSsh \/ WriteLine \/ WriteFails \/ CloseStdin
    \/ SshExits \/ CheckDisplay \/ Resolve
-----------------------------------------------------------------------------
(* ssh                                                                     *)

\* main: -4 or -6 only when the name has an address of that family.
SshFlag == IF FamilyAvailable(AddrPref) THEN AddrPref ELSE "auto"

\* ssh tries every address, with a flag those of that family only; a name of its
\* own configuration always leads somewhere.
SshReaches ==
    \/ addrs = <<>>
    \/ \E a \in ToSet(addrs) : a \in routes /\ SshFlag \in {"auto", a}

SshConnects ==
    /\ ssh = "connecting"
    /\ SshReaches
    /\ ssh' = "up"
    /\ server' = "read"
    /\ UNCHANGED <<inputs, client, wires, child, seen, addr>>

\* No route for ssh, no authentication, or no etrs on the other side.
SshFails ==
    /\ ssh = "connecting"
    /\ ssh' = IF SshReaches THEN "failed" ELSE "unreachable"
    /\ UNCHANGED <<inputs, client, wires, server, child, seen, addr>>

\* The connection is lost: of the lines on their way a prefix arrives, and the
\* last of them possibly in part.
SshLost ==
    /\ ssh = "up"
    /\ ssh' = "lost"
    /\ \E n \in 0 .. Len(stdin) :
          \/ stdin' = SubSeq(stdin, 1, n)
          \/ n > 0 /\ stdin' = Append(SubSeq(stdin, 1, n - 1), [stdin[n] EXCEPT !.val = "torn"])
    /\ UNCHANGED <<inputs, client, unsent, closed, printed, server, child, seen, addr>>

\* The remote process has exited and nobody holds its stdout any more.
SshDone ==
    /\ ssh = "up"
    /\ server \in {"exit0", "exit1"}
    /\ child \in {"none", "running", "gone"}
    /\ ssh' = "done"
    /\ UNCHANGED <<inputs, client, wires, server, child, seen, addr>>
-----------------------------------------------------------------------------
(* etrs                                                                    *)

\* parse_bootstrap_line and what run_server does with the result.  A torn line
\* may have lost its prefix, its = or its last field, and counts for nothing, or
\* only a part of its value.
Parsed(s, line) ==
    CASE line.kind = "header" -> {[s EXCEPT !.header = line.val]}
      [] line.kind = "env"    -> {[s EXCEPT !.env = @ \cup {line.val}]}
      [] line.kind = "x11"    -> {[s EXCEPT !.x11 = TRUE]}
      [] line.kind = "prefer" -> {[s EXCEPT !.pref = IF line.val = "torn" THEN "auto" ELSE line.val]}
      [] line.kind = "cmd"    -> {[s EXCEPT !.cmd = line.val]}

ReadLine ==
    /\ server = "read"
    /\ stdin # <<>>
    /\ stdin' = Tail(stdin)
    /\ seen' \in Parsed(seen, Head(stdin))
                   \cup (IF Head(stdin).val = "torn" THEN {seen} ELSE {})
    /\ UNCHANGED <<inputs, client, unsent, closed, printed, ssh, server, child, addr>>

\* Mutant of ReadEnd: etrs does not wait for the end of its input.
ReadEndEarly ==
    /\ server = "read"
    /\ stdin = <<>>
    /\ IF seen.header = "none"
       THEN server' = "exit1" /\ UNCHANGED child
       ELSE server' = "parent" /\ child' = "bind"
    /\ UNCHANGED <<inputs, client, wires, ssh, seen, addr>>

\* End of file, or of the connection.  Without a header etrs gives up, otherwise
\* it forks.
ReadEnd ==
    /\ server = "read"
    /\ stdin = <<>>
    /\ closed \/ ssh = "lost"
    /\ IF seen.header = "none"
       THEN server' = "exit1" /\ UNCHANGED child
       ELSE server' = "parent" /\ child' = "bind"
    /\ UNCHANGED <<inputs, client, wires, ssh, seen, addr>>

\* The child binds its endpoint and writes the port into the pipe, or fails.
ChildBinds ==
    /\ child = "bind"
    /\ child' \in {"bound", "gone"}
    /\ UNCHANGED <<inputs, client, wires, ssh, server, seen, addr>>

\* Mutant of ParentEnds: the port is not printed.
ParentEndsSilently ==
    /\ server = "parent"
    /\ child # "bind"
    /\ server' = "exit0"
    /\ UNCHANGED <<inputs, client, wires, ssh, child, seen, addr>>

\* The parent reads the port, prints it and exits, or finds the pipe closed.
ParentEnds ==
    /\ server = "parent"
    /\ \/ /\ child \in {"bound", "running"}
          /\ printed' = (ssh = "up")
          /\ server' = "exit0"
       \/ /\ child = "gone"
          /\ server' = "exit1"
          /\ UNCHANGED printed
    /\ UNCHANGED <<inputs, client, unsent, stdin, closed, ssh, child, seen, addr>>

\* Mutant of Detach: the child keeps ssh's stdout.
DetachNothing ==
    /\ child = "bound"
    /\ UNCHANGED vars

\* detach_stdio; run_session starts the shell or the command.
Detach ==
    /\ child = "bound"
    /\ child' = "running"
    /\ UNCHANGED <<inputs, client, wires, ssh, server, seen, addr>>

Etrs == ReadLine \/ ReadEnd \/ ChildBinds \/ ParentEnds \/ Detach

Next == Etr \/ Invalid \/ WaitFails \/ SshConnects \/ SshFails \/ SshLost \/ SshDone \/ Etrs

Spec == Init /\ [][Next]_vars

\* Both programs run on, ssh connects or gives up, and ends when it can.
Fairness == WF_vars(Etr) /\ WF_vars(SshConnects \/ SshFails) /\ WF_vars(SshDone) /\ WF_vars(Etrs)

FairSpec == Spec /\ Fairness
-----------------------------------------------------------------------------
(* Properties.                                                             *)

GaveUp == {"failed", "unresolved", "broken"}

TypeOK ==
    /\ client \in {"check", "write", "wait", "x11", "resolve", "dial"} \cup GaveUp
    /\ ssh \in {"none", "connecting", "up", "lost", "failed", "unreachable", "done"}
    /\ server \in {"none", "read", "parent", "exit0", "exit1"}
    /\ child \in {"none", "bind", "bound", "running", "gone"}
    /\ closed \in BOOLEAN /\ printed \in BOOLEAN
    /\ addr \in {"none", "v4", "v6"}

\* The environment entries the shell gets: etrs drops the blocked ones.
ShellEnv == seen.env \ Blocked

\* The session etr dials is the one that was asked for: its server has the whole
\* header, every permitted variable and no other, the command and nothing else,
\* X11 and the preference, although etrs takes whatever it has when its input
\* ends and a broken ssh connection is an end like any other.
AskedIsRun ==
    client = "dial" =>
        /\ child = "running"
        /\ seen.header = "whole"
        /\ ShellEnv = ToSet(Env) \ Blocked
        /\ seen.cmd = (IF ask.cmd THEN "whole" ELSE "none")
        /\ seen.x11 = ask.x11
        /\ Or(seen.pref, own) = Or(AddrPref, own)

\* etr gives up on a server that lives on only when the ssh connection was lost,
\* DISPLAY was not set, the name did not resolve for QUIC, or waiting for ssh or
\* making the QUIC endpoint failed: a bootstrap that fails in any other way, at
\* either end, leaves no server behind that nobody will dial.
OrphanExplained ==
    client \in GaveUp /\ child \in {"bound", "running"} =>
        ssh = "lost" \/ (ask.x11 /\ ~ask.display) \/ client \in {"unresolved", "broken"}

\* The bootstrap comes to an end: etr does not wait for an ssh that waits for a
\* stdout the server still holds, nor for a port nobody reports.
BootstrapEnds == client = "write" ~> client \in {"dial"} \cup GaveUp

\* addrfam.rs: "Nothing here ever fails a connection purely because the requested
\* family was unavailable": when the client has a route to an address of the
\* host, ssh finds one as well, and the address etr dials is one etrs listens on if
\* there is such an address.
PreferenceIsSoft ==
    LET usable == ToSet(addrs) \cap routes IN
    /\ ssh = "unreachable" => usable = {}
    /\ client = "dial" /\ usable \cap Listens # {} => addr \in Listens
=============================================================================
