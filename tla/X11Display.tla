----------------------------- MODULE X11Display -----------------------------
(***************************************************************************)
(* How the etrs processes of one user choose X11 displays.  A process      *)
(* looks for a free number with bind_free_x11_display (the socket file,    *)
(* the two loopback ports, the Unix socket), puts a cookie of its own      *)
(* under both names of the display with xauth, and X11Cleanup takes file   *)
(* and cookies away again: when xauth fails, after the listeners were      *)
(* dropped; at the end of the session, while the accept tasks still hold   *)
(* them.  An accept error ends its task and drops the listener; what the   *)
(* clean-up cannot remove stays.  Processes interleave between any two     *)
(* system calls.                                                           *)
(***************************************************************************)
EXTENDS Integers

CONSTANTS
    Processes,   \* etrs processes with x11_enabled
    NumDisplays, \* display numbers are 1 .. NumDisplays (10 .. 99)
    Nobody,      \* no owner
    Foreign,     \* a process that is not etrs
    Held         \* what of the first display it may hold: sets of parts

X11DisplayAssumption ==
    /\ NumDisplays \in Nat \ {0}
    /\ Nobody # Foreign /\ {Nobody, Foreign} \cap Processes = {}
    /\ Held \subseteq SUBSET {"v4", "v6", "file"}

Displays == 1 .. NumDisplays

VARIABLES
    v6_on,       \* IPv6 loopback works on this host
    unix_ok,     \* can_use_unix_socket
    v4, v6,      \* who listens on 127.0.0.1 and [::1], per display
    socket_file, \* whose file /tmp/.X11-unix/X<d> is
    auth_unix,   \* whose cookie is under localhost/unix:<d> ...
    auth_tcp,    \* ... and under localhost:<d>
    pc,          \* where each process is
    disp,        \* the display it tries or has
    fate,        \* ghost: whether its xauth failed, or it was killed
    faults,      \* ghost: its accept loops that ended, until all are dropped, and the
                 \* removals that failed
    struck       \* ghost: a process that had let go of the display took its cookies

host == <<v6_on, unix_ok>>
socks == <<v4, v6, socket_file>>
auth == <<auth_unix, auth_tcp>>
vars == <<host, socks, auth, pc, disp, fate, faults, struck>>

\* Who has each display's part when the other program holds these of the first.
HeldAs(parts, part) ==
    [d \in Displays |-> IF d = 1 /\ part \in parts THEN Foreign ELSE Nobody]

Init ==
    /\ v6_on \in BOOLEAN
    /\ unix_ok \in BOOLEAN
    /\ \E parts \in Held :
          /\ v4 = HeldAs(parts, "v4")
          /\ v6 = HeldAs(parts \ (IF v6_on THEN {} ELSE {"v6"}), "v6")
          /\ socket_file = HeldAs(parts, "file")
    /\ auth_unix = [d \in Displays |-> Nobody]
    /\ auth_tcp = [d \in Displays |-> Nobody]
    /\ pc = [p \in Processes |-> "probe"]
    /\ disp = [p \in Processes |-> 1]
    /\ fate = [p \in Processes |-> "fine"]
    /\ faults = [p \in Processes |-> {}]
    /\ struck = [p \in Processes |-> FALSE]

Free(f, d) == f[d] = Nobody
Take(f, p) == [f EXCEPT ![disp[p]] = p]
\* What is left of f when p lets go of its display's entry.
Without(f, p) == [f EXCEPT ![disp[p]] = IF @ = p THEN Nobody ELSE @]

Goto(p, step) == pc' = [pc EXCEPT ![p] = step] /\ UNCHANGED disp

\* `continue` of the loop over the displays; after the last one, None.
NextDisplay(p) ==
    IF disp[p] + 1 \in Displays
    THEN /\ disp' = [disp EXCEPT ![p] = @ + 1]
         /\ pc' = [pc EXCEPT ![p] = "probe"]
    ELSE Goto(p, "off")
-----------------------------------------------------------------------------
(* bind_free_x11_display.                                                  *)

\* A socket file rules the display out.
Probe(p) ==
    /\ pc[p] = "probe"
    /\ IF Free(socket_file, disp[p]) THEN Goto(p, "v4") ELSE NextDisplay(p)
    /\ UNCHANGED <<host, socks, auth, fate, faults, struck>>

BindV4(p) ==
    /\ pc[p] = "v4"
    /\ IF Free(v4, disp[p])
       THEN Goto(p, "v6") /\ v4' = Take(v4, p)
       ELSE NextDisplay(p) /\ UNCHANGED v4
    /\ UNCHANGED <<host, v6, socket_file, auth, fate, faults, struck>>

\* IPv6 being off is no obstacle; an owner of [::1] is, and the IPv4 listener is
\* dropped.
BindV6(p) ==
    /\ pc[p] = "v6"
    /\ \/ /\ v6_on /\ Free(v6, disp[p])
          /\ v6' = Take(v6, p)
          /\ Goto(p, "unix")
          /\ UNCHANGED v4
       \/ /\ ~v6_on
          /\ Goto(p, "unix")
          /\ UNCHANGED <<v4, v6>>
       \/ /\ v6_on /\ ~Free(v6, disp[p])
          /\ v4' = Without(v4, p)
          /\ NextDisplay(p)
          /\ UNCHANGED v6
    /\ UNCHANGED <<host, socket_file, auth, fate, faults, struck>>

\* The Unix socket is bound without removing a file that is in the way.
BindUnix(p) ==
    /\ pc[p] = "unix"
    /\ IF unix_ok /\ ~Free(socket_file, disp[p])
       THEN /\ v4' = Without(v4, p)
            /\ v6' = Without(v6, p)
            /\ NextDisplay(p)
            /\ UNCHANGED socket_file
       ELSE /\ socket_file' = IF unix_ok THEN Take(socket_file, p) ELSE socket_file
            /\ Goto(p, "add_unix")
            /\ UNCHANGED <<v4, v6>>
    /\ UNCHANGED <<host, auth, fate, faults, struck>>
-----------------------------------------------------------------------------
(* run_session: xauth add twice, then the display is exported ...          *)

XauthAdd(p) ==
    /\ \/ /\ pc[p] = "add_unix"
          /\ auth_unix' = Take(auth_unix, p)
          /\ Goto(p, "add_tcp")
          /\ UNCHANGED auth_tcp
       \/ /\ pc[p] = "add_tcp"
          /\ auth_tcp' = Take(auth_tcp, p)
          /\ Goto(p, "exported")
          /\ UNCHANGED auth_unix
    /\ UNCHANGED <<host, socks, fate, faults, struck>>

\* ... or xauth fails: the listeners are dropped, then the clean-up runs.
XauthFails(p) ==
    /\ pc[p] \in {"add_unix", "add_tcp"}
    /\ v4' = Without(v4, p)
    /\ v6' = Without(v6, p)
    /\ fate' = [fate EXCEPT ![p] = "failed"]
    /\ Goto(p, "rm_file")
    /\ UNCHANGED <<host, socket_file, auth, faults, struck>>

\* Mutant of SessionEnds: the listeners are closed before the clean-up.
SessionEndsClosed(p) ==
    /\ pc[p] = "exported"
    /\ v4' = Without(v4, p)
    /\ v6' = Without(v6, p)
    /\ Goto(p, "rm_file")
    /\ UNCHANGED <<host, socket_file, auth, fate, faults, struck>>

\* run_session returns: its locals are dropped while the accept tasks live on.
SessionEnds(p) ==
    /\ pc[p] = "exported"
    /\ Goto(p, "rm_file")
    /\ UNCHANGED <<host, socks, auth, fate, faults, struck>>

TcpLoops == IF v6_on THEN {"v4", "v6"} ELSE {"v4"}

Fault(p, what) == faults' = [faults EXCEPT ![p] = @ \cup {what}]

\* accept fails: the loop ends and drops its listener, which frees the port.  The
\* loop of the Unix socket may end as well: its file stays, and nothing changes here.
AcceptFails(p, loop) ==
    /\ pc[p] \in {"exported", "rm_file", "rm_unix", "rm_tcp", "close"}
    /\ fate[p] = "fine"
    /\ loop \in TcpLoops \ faults[p]
    /\ v4' = IF loop = "v4" THEN Without(v4, p) ELSE v4
    /\ v6' = IF loop = "v6" THEN Without(v6, p) ELSE v6
    /\ Fault(p, loop)
    /\ UNCHANGED <<host, socket_file, auth, pc, disp, fate, struck>>
-----------------------------------------------------------------------------
(* X11Cleanup::drop.                                                       *)

\* The file is removed, or cannot be and stays.
RemoveFile(p) ==
    /\ pc[p] = "rm_file"
    /\ \/ /\ socket_file' = IF unix_ok THEN [socket_file EXCEPT ![disp[p]] = Nobody]
                           ELSE socket_file
          /\ UNCHANGED faults
       \/ unix_ok /\ Fault(p, "rm_file") /\ UNCHANGED socket_file
    /\ Goto(p, "rm_unix")
    /\ UNCHANGED <<host, v4, v6, auth, fate, struck>>

\* p has dropped the ports of its display: after a failed xauth, or one by one.
LetGo(p) == fate[p] = "failed" \/ TcpLoops \subseteq faults[p]

\* Its clean-up hits whoever has the display by now.
Struck(p, f) ==
    struck' = [q \in Processes |-> struck[q] \/ (LetGo(p) /\ q # p /\ f[disp[p]] = q)]

XauthRemove(p) ==
    /\ \/ /\ pc[p] = "rm_unix"
          /\ auth_unix' = [auth_unix EXCEPT ![disp[p]] = Nobody]
          /\ Struck(p, auth_unix)
          /\ Goto(p, "rm_tcp")
          /\ UNCHANGED auth_tcp
       \/ /\ pc[p] = "rm_tcp"
          /\ auth_tcp' = [auth_tcp EXCEPT ![disp[p]] = Nobody]
          /\ Struck(p, auth_tcp)
          /\ Goto(p, "close")
          /\ UNCHANGED auth_unix
    /\ UNCHANGED <<host, socks, fate, faults>>

\* xauth cannot be run or fails: nobody looks at its status.
XauthRemoveFails(p) ==
    /\ \/ pc[p] = "rm_unix" /\ Goto(p, "rm_tcp")
       \/ pc[p] = "rm_tcp" /\ Goto(p, "close")
    /\ Fault(p, pc[p])
    /\ UNCHANGED <<host, socks, auth, fate, struck>>

\* The runtime is dropped, with the accept tasks and their listeners.
Close(p) ==
    /\ pc[p] = "close"
    /\ v4' = Without(v4, p)
    /\ v6' = Without(v6, p)
    /\ faults' = [faults EXCEPT ![p] = @ \ TcpLoops]
    /\ Goto(p, "off")
    /\ UNCHANGED <<host, socket_file, auth, fate, struck>>

\* SIGKILL or a crash: the kernel closes the sockets, file and cookies stay.
Killed(p) ==
    /\ pc[p] # "off"
    /\ v4' = Without(v4, p)
    /\ v6' = Without(v6, p)
    /\ fate' = [fate EXCEPT ![p] = "killed"]
    /\ faults' = [faults EXCEPT ![p] = {}]
    /\ Goto(p, "off")
    /\ UNCHANGED <<host, socket_file, auth, struck>>

Step(p) ==
    \/ Probe(p) \/ BindV4(p) \/ BindV6(p) \/ BindUnix(p)
    \/ XauthAdd(p) \/ XauthFails(p) \/ SessionEnds(p)
    \/ \E loop \in TcpLoops : AcceptFails(p, loop)
    \/ RemoveFile(p) \/ XauthRemove(p) \/ XauthRemoveFails(p) \/ Close(p) \/ Killed(p)

Next == \E p \in Processes : Step(p)

Spec == Init /\ [][Next]_vars
-----------------------------------------------------------------------------
(* Properties.                                                             *)

Owners == Processes \cup {Nobody, Foreign}

TypeOK ==
    /\ v6_on \in BOOLEAN /\ unix_ok \in BOOLEAN
    /\ \A f \in {v4, v6, socket_file, auth_unix, auth_tcp} : f \in [Displays -> Owners]
    /\ pc \in [Processes -> {"probe", "v4", "v6", "unix", "add_unix", "add_tcp", "exported",
                             "rm_file", "rm_unix", "rm_tcp", "close", "off"}]
    /\ disp \in [Processes -> Displays]
    /\ fate \in [Processes -> {"fine", "failed", "killed"}] /\ struck \in [Processes -> BOOLEAN]
    /\ faults \in [Processes -> SUBSET {"v4", "v6", "rm_file", "rm_unix", "rm_tcp"}]

\* p has exported its display and has something of it that no other process gets
\* past: the socket file, or a port.
Holds(p) == pc[p] = "exported" /\ (unix_ok \/ ~(TcpLoops \subseteq faults[p]))

\* Whoever connects to the display a process has exported, by any of its names,
\* reaches that process, or nobody once its accept loop has ended, and finds its
\* cookie: no other etrs or program listens on a socket it has, no other session
\* gets the display while it holds any part of it, and no clean-up takes its file
\* or its cookies, except that of a process that had let go of the display, whose
\* xauth or whose accept loops failed (run_session, X11Cleanup).
DisplayIsMine ==
    \A p \in Processes : pc[p] = "exported" =>
        LET d == disp[p] IN
        /\ "v4" \notin faults[p] => v4[d] = p
        /\ v6_on /\ "v6" \notin faults[p] => v6[d] = p
        /\ unix_ok => socket_file[d] = p
        /\ Holds(p) =>
              /\ \A q \in Processes \ {p} : Holds(q) => disp[q] # d
              /\ (auth_unix[d] = p /\ auth_tcp[d] = p) \/ struck[p]

\* A process that came to its end by itself leaves neither a socket file, which
\* would rule the number out for ever, nor a cookie behind, except what it tried
\* and failed to remove: the clean-up runs whatever else failed before.
NothingLeft ==
    \A p \in Processes : pc[p] = "off" /\ fate[p] # "killed" =>
        \A d \in Displays :
            /\ socket_file[d] = p => "rm_file" \in faults[p]
            /\ auth_unix[d] = p => "rm_unix" \in faults[p]
            /\ auth_tcp[d] = p => "rm_tcp" \in faults[p]
=============================================================================
