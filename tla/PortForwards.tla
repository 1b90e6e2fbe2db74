---------------------------- MODULE PortForwards ----------------------------
(***************************************************************************)
(* Port forwards across reconnects: who holds the listening sockets, and   *)
(* over which connection what arrives on them is carried.                  *)
(*                                                                         *)
(* Each run_session of the client starts its -L forwards anew and aborts   *)
(* their tasks when it ends; the per-socket tasks those had spawned are    *)
(* detached, not aborted.  The server starts each -R listener once and     *)
(* lets it look the connection up in active_conn every time.               *)
(*                                                                         *)
(* There is one forward of each kind; a request is a TCP connection or a   *)
(* datagram that arrives on its port.  What happens inside a TCP           *)
(* connection or between UDP senders is in TcpPipe and UdpDemux.           *)
(***************************************************************************)
EXTENDS Integers

CONSTANTS
    Forwards,    \* the kinds of forward configured
    MaxSessions  \* bound: connections; the last one is not lost

Local == {"Ltcp", "Ludp"}
Reverse == {"Rtcp", "Rudp"}

ASSUME PortForwardsAssumption ==
    /\ Forwards \subseteq Local \cup Reverse
    /\ MaxSessions \in Nat \ {0}

VARIABLES
    sess,        \* number of the client's current session
    phase,       \* of that session: away (none running), up, broken
    active_conn, \* server: session whose connection is in the slot, 0 if none
    outer,       \* -L: off, bind, join (running), failed
    holder,      \* -L: session whose listener or socket holds the port, 0 if free
    started,     \* -R: active_reverse_listeners
    listener,    \* -R: none, bind, bound, failed: the listener task last spawned
    rport,       \* -R ports held by a listener of this etrs
    tx,          \* -R UDP: session whose connection carries current_quic_tx, or 0
    foreign,     \* ports another process holds
    req,         \* session whose connection was looked up for a request, 0 if idle
    served,      \* ghost: sessions in which the forward has carried a request
    blocked,     \* ghost: forwards that met a foreign process on their port
    ended,       \* ghost: sessions whose -L UDP stream ended before their connection
    wasted       \* ghost: forwards that dropped a request whose connection was up

sessVars == <<sess, phase, active_conn>>
localVars == <<outer, holder>>
reverseVars == <<started, listener, rport>>
ghosts == <<served, wasted, ended>>
vars == <<sessVars, localVars, reverseVars, tx, foreign, req, ghosts, blocked>>

LocalF == Forwards \cap Local
ReverseF == Forwards \cap Reverse

\* The connection of session c works.
Alive(c) == c = sess /\ phase = "up"

Init ==
    /\ sess = 0
    /\ phase = "away"
    /\ active_conn = 0
    /\ outer = [f \in LocalF |-> "off"]
    /\ holder = [f \in LocalF |-> 0]
    /\ started = {}
    /\ listener = [f \in ReverseF |-> "none"]
    /\ rport = {}
    /\ tx = 0
    /\ foreign \in SUBSET Forwards
    /\ req = [f \in Forwards |-> 0]
    /\ served = [f \in Forwards |-> {}]
    /\ wasted = {}
    /\ blocked = {}
    /\ ended = {}
-----------------------------------------------------------------------------
(* Sessions.                                                               *)

\* Mutant of StartReverse: the set is not looked at.
StartReverseAgain ==
    /\ started' = started \cup ReverseF
    /\ listener' = [f \in ReverseF |-> "bind"]

\* -R listeners are spawned for the specs that are not in the set yet.
StartReverse ==
    /\ started' = started \cup ReverseF
    /\ listener' = [f \in ReverseF |-> IF f \in started THEN listener[f] ELSE "bind"]

\* A connection is set up: the server puts it in active_conn, and run_session
\* spawns the -L forwards.  The previous session's UDP sockets are closed by
\* then: their tasks end with the connection, at least 2 s earlier.
SessionStarts ==
    /\ phase = "away"
    /\ active_conn = 0
    /\ sess < MaxSessions
    /\ \A f \in LocalF : f = "Ludp" => holder[f] = 0
    /\ sess' = sess + 1
    /\ phase' = "up"
    /\ active_conn' = sess + 1
    /\ outer' = [f \in LocalF |-> "bind"]
    /\ StartReverse
    /\ UNCHANGED <<holder, rport, tx, foreign, req, ghosts, blocked>>

LinkBreaks ==
    /\ phase = "up"
    /\ sess < MaxSessions
    /\ phase' = "broken"
    /\ UNCHANGED <<sess, active_conn, localVars, reverseVars, tx, foreign, req, ghosts, blocked>>

\* run_session returns and aborts the -L forwards' tasks; what they spawned
\* keeps running.
SessionEnds ==
    /\ phase = "broken"
    /\ phase' = "away"
    /\ outer' = [f \in LocalF |-> "off"]
    /\ UNCHANGED <<sess, active_conn, holder, reverseVars, tx, foreign, req, ghosts, blocked>>

\* handle_connection has returned: active_conn is cleared.
ServerClears ==
    /\ active_conn # 0
    /\ ~Alive(active_conn)
    /\ active_conn' = 0
    /\ UNCHANGED <<sess, phase, localVars, reverseVars, tx, foreign, req, ghosts, blocked>>

\* Another process gives up its port.
ForeignLeaves ==
    /\ foreign # {}
    /\ foreign' = {}
    /\ UNCHANGED <<sessVars, localVars, reverseVars, tx, req, ghosts, blocked>>
-----------------------------------------------------------------------------
(* -L forwards.                                                            *)

\* The bind, once per session: it fails when anyone holds the port.  UDP sockets
\* are bound in the same way by a task of their own.
LocalBind(f) ==
    /\ outer[f] = "bind"
    /\ IF f \notin foreign /\ holder[f] = 0
       THEN /\ outer' = [outer EXCEPT ![f] = "join"]
            /\ holder' = [holder EXCEPT ![f] = sess]
       ELSE /\ outer' = [outer EXCEPT ![f] = "failed"]
            /\ UNCHANGED holder
    /\ blocked' = blocked \cup (foreign \cap {f})
    /\ UNCHANGED <<sessVars, reverseVars, tx, foreign, req, ghosts>>

UdpSocketGone ==
    /\ holder' = [holder EXCEPT !["Ludp"] = 0]
    /\ req' = [req EXCEPT !["Ludp"] = 0]

\* The UDP socket's task ends with its connection, and closes the socket.  (A
\* TCP listener's accept loop has no such end.)
UdpSocketCloses ==
    /\ "Ludp" \in LocalF
    /\ holder["Ludp"] # 0 /\ ~Alive(holder["Ludp"])
    /\ UdpSocketGone
    /\ UNCHANGED <<sessVars, outer, reverseVars, tx, foreign, ghosts, blocked>>

\* It ends on a connection that is up when the server, which cannot resolve the
\* target, finishes the stream, or when the socket fails: until the next session
\* nobody listens.
UdpStreamEnds ==
    /\ "Ludp" \in LocalF
    /\ holder["Ludp"] # 0 /\ Alive(holder["Ludp"])
    /\ UdpSocketGone
    /\ ended' = ended \cup {sess}
    /\ UNCHANGED <<sessVars, outer, reverseVars, tx, foreign, served, wasted, blocked>>

\* A request is accepted; its connection is the one the listener was given.
LocalAccept(f) ==
    /\ holder[f] # 0
    /\ req[f] = 0
    /\ req' = [req EXCEPT ![f] = holder[f]]
    /\ UNCHANGED <<sessVars, localVars, reverseVars, tx, foreign, ghosts, blocked>>
-----------------------------------------------------------------------------
(* -R forwards.                                                            *)

\* The listener task binds, once: the spec stays in `started` if it fails.
ReverseBind(f) ==
    /\ listener[f] = "bind"
    /\ IF f \notin foreign \cup rport
       THEN /\ listener' = [listener EXCEPT ![f] = "bound"]
            /\ rport' = rport \cup {f}
       ELSE /\ listener' = [listener EXCEPT ![f] = "failed"]
            /\ UNCHANGED rport
    /\ blocked' = blocked \cup (foreign \cap {f})
    /\ UNCHANGED <<sessVars, localVars, started, tx, foreign, req, ghosts>>

\* Mutant of ReverseAccept: the listener keeps the connection it was started on.
ReverseAcceptFirst(f) ==
    /\ f \in rport
    /\ req[f] = 0
    /\ req' = [req EXCEPT ![f] = 1]
    /\ UNCHANGED <<sessVars, localVars, reverseVars, tx, foreign, ghosts, blocked>>

\* A request is accepted and active_conn looked up; without one it is dropped.
ReverseAccept(f) ==
    /\ f \in rport
    /\ req[f] = 0
    /\ active_conn # 0
    /\ req' = [req EXCEPT ![f] = active_conn]
    /\ UNCHANGED <<sessVars, localVars, reverseVars, tx, foreign, ghosts, blocked>>
-----------------------------------------------------------------------------
(* Carrying a request.                                                     *)

\* The request is over: carried on connection c, or dropped because c is dead.
Carry(f, c) ==
    /\ UNCHANGED ended
    /\ req' = [req EXCEPT ![f] = 0]
    /\ served' = IF Alive(c) THEN [served EXCEPT ![f] = @ \cup {c}] ELSE served
    /\ wasted' = IF Alive(req[f]) /\ ~Alive(c) THEN wasted \cup {f} ELSE wasted

\* TCP, and UDP from the client: a stream on the connection looked up.
CarryDirect(f) ==
    /\ req[f] # 0
    /\ f # "Rudp"
    /\ Carry(f, req[f])
    /\ UNCHANGED <<sessVars, localVars, reverseVars, tx, foreign, blocked>>

\* Mutant of NeedNewStream: a stream is kept whatever its connection.
KeepStream(c) == tx = 0

\* The reverse UDP loop keeps one stream, for as long as active_conn stays what
\* it was when the stream was opened.
NeedNewStream(c) == tx = 0 \/ tx # c

\* The stream the loop writes the datagram to (0 if it could not be opened).
StreamFor(c) == IF NeedNewStream(c) THEN (IF Alive(c) THEN c ELSE 0) ELSE tx

\* One turn of that loop: a failed open leaves the old stream, a failed write
\* clears it.
CarryUdpReverse ==
    /\ "Rudp" \in Forwards
    /\ req["Rudp"] # 0
    /\ LET s == StreamFor(req["Rudp"]) IN
          /\ Carry("Rudp", s)
          /\ tx' = IF s = 0 THEN tx ELSE IF Alive(s) THEN s ELSE 0
    /\ UNCHANGED <<sessVars, localVars, reverseVars, foreign, blocked>>
-----------------------------------------------------------------------------
Sessions == SessionStarts \/ LinkBreaks \/ SessionEnds \/ ServerClears \/ ForeignLeaves

Requests ==
    \/ UdpSocketCloses \/ UdpStreamEnds
    \/ \E f \in LocalF : LocalBind(f) \/ LocalAccept(f)
    \/ \E f \in ReverseF : ReverseBind(f) \/ ReverseAccept(f)
    \/ \E f \in Forwards : CarryDirect(f)
    \/ CarryUdpReverse

Next == Sessions \/ Requests

Spec == Init /\ [][Next]_vars

\* Tasks run, both sides notice a dead connection, the client reconnects, and
\* every forward is used again and again.
Fairness ==
    /\ WF_vars(SessionStarts) /\ WF_vars(SessionEnds) /\ WF_vars(ServerClears)
    /\ WF_vars(UdpSocketCloses) /\ WF_vars(CarryUdpReverse)
    /\ \A f \in LocalF : WF_vars(LocalBind(f)) /\ WF_vars(LocalAccept(f))
    /\ \A f \in ReverseF : WF_vars(ReverseBind(f)) /\ WF_vars(ReverseAccept(f))
    /\ \A f \in Forwards : WF_vars(CarryDirect(f))

FairSpec == Spec /\ Fairness
-----------------------------------------------------------------------------
(* Properties.                                                             *)

Numbers == 0 .. MaxSessions

TypeOK ==
    /\ sess \in Numbers
    /\ phase \in {"away", "up", "broken"}
    /\ active_conn \in Numbers
    /\ outer \in [LocalF -> {"off", "bind", "join", "failed"}]
    /\ holder \in [LocalF -> Numbers]
    /\ started \subseteq ReverseF
    /\ listener \in [ReverseF -> {"none", "bind", "bound", "failed"}]
    /\ rport \subseteq ReverseF
    /\ tx \in Numbers
    /\ foreign \subseteq Forwards
    /\ req \in [Forwards -> Numbers]
    /\ served \in [Forwards -> SUBSET Numbers]
    /\ wasted \subseteq Forwards
    /\ blocked \subseteq Forwards
    /\ ended \subseteq Numbers

\* A listener fails to bind only because of another process: a reconnect never
\* makes a forward fight over its port with its own earlier self, except for a
\* -L TCP forward, whose accept loop outlives the session that started it.
BindFailureExplained ==
    /\ \A f \in ReverseF : listener[f] = "failed" => f \in blocked
    /\ \A f \in LocalF :
          outer[f] = "failed" =>
              f \in blocked \/ (f = "Ltcp" /\ holder[f] \in 1 .. (sess - 1))

\* A request whose connection is up is carried: the stream the reverse UDP loop
\* has kept from an earlier connection is never used in place of a new one.
NothingWasted == wasted = {}

\* A forward that found its port free carries requests over the last connection
\* once connections stop breaking: its listener outlives a connection (-R) or is
\* set up anew for the next one (-L UDP, unless its stream ends before that
\* connection).  -L TCP is the exception.
Survives(f) == f \in blocked \/ sess \in served[f] \/ (f = "Ludp" /\ sess \in ended)
OthersSurvive == <>[](\A f \in Forwards \ {"Ltcp"} : Survives(f))

\* README.md: "Port forwards survive the same reconnect cycle as the PTY
\* session."  The same of every forward.
ForwardsSurvive == <>[](\A f \in Forwards : Survives(f))
=============================================================================
