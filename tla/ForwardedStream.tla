--------------------------- MODULE ForwardedStream ---------------------------
(***************************************************************************)
(* A forwarded connection from its acceptance to its end: a TCP forward,   *)
(* which is piped at once (TcpPipe), or an X11 client of the display etrs  *)
(* exports.  For the latter etrs looks up the connection to the client and *)
(* the real cookie, reads the X client's set-up, checks the fake cookie in *)
(* it, puts the real one in its place, opens a stream on the connection it *)
(* looked up before and pipes; the set-up block is the first chunk of that *)
(* stream.  Meanwhile connections break and are replaced.                  *)
(*                                                                         *)
(* near is etrs and the X client, far is etr and the X server.             *)
(***************************************************************************)
EXTENDS Integers, Sequences, SequencesExt

CONSTANTS
    MaxChunks, FlowWindow, SockBuf,  \* as in TcpPipe
    FakeCookie,  \* the cookie etrs put under its display
    Offers,      \* cookies X clients may offer
    MaxConns     \* bound: connections of the session

VARIABLES
    \* TcpPipe
    app, written, consumed, pipe, t1, t2, taken, sent, fin, stopped,
    received, put, eof, link, refused, cut, reset,
    \* the X11 set-up
    kind,         \* "tcp" or "x11"
    cookie,       \* etr found the X server's cookie
    offer,        \* what the X client offers
    setup,        \* accept, read, open, then piped or dropped
    real_cookie,  \* x11_real_cookie is set
    active_conn,  \* the session's connection, 0 for None
    conns,        \* connections so far
    dead,         \* those that are broken
    conn,         \* the one this X client's task looked up
    block         \* the cookie in the block that is sent: none, real or empty

P == INSTANCE TcpPipe

endVars == <<pipe, t1, t2, eof, refused>>  \* what Drop changes
dataVars == <<app, written, consumed, sent, fin, stopped, received, put, link, cut, reset>>
pipeVars == <<endVars, dataVars, taken>>
setupVars == <<kind, cookie, offer, setup, real_cookie, active_conn, conns, dead, conn, block>>
vars == <<pipeVars, setupVars>>

ASSUME ForwardedStreamAssumption ==
    /\ P!TcpPipeAssumption
    /\ FakeCookie \in Seq(Nat) /\ FakeCookie # <<>>
    /\ Offers \subseteq Seq(Nat)
    /\ MaxConns \in Nat

Init ==
    /\ kind \in {"tcp", "x11"}
    /\ cookie \in IF kind = "tcp" THEN {FALSE} ELSE BOOLEAN
    /\ offer \in IF kind = "tcp" THEN {<<>>} ELSE Offers
    /\ setup = IF kind = "tcp" THEN "piped" ELSE "accept"
    /\ real_cookie = FALSE
    /\ active_conn = 0
    /\ conns = 0
    /\ dead = {}
    /\ conn = 0
    /\ block = "none"
    /\ P!Start(IF kind = "tcp" THEN P!Opened ELSE [p \in P!Sides |-> "idle"])

SettingUp == setup \in {"accept", "read", "open"}
-----------------------------------------------------------------------------
(* The session's connections, as far as an X client depends on them.       *)

\* handle_connection stores the cookie of SessionOpen ...
CookieStored ==
    /\ SettingUp /\ ~real_cookie
    /\ real_cookie' = TRUE
    /\ UNCHANGED <<pipeVars, kind, cookie, offer, setup, active_conn, conns, dead, conn, block>>

\* ... and later fills active_conn.
ConnFilled ==
    /\ SettingUp /\ real_cookie
    /\ active_conn = 0 /\ conns < MaxConns
    /\ conns' = conns + 1
    /\ active_conn' = conns + 1
    /\ UNCHANGED <<pipeVars, kind, cookie, offer, setup, real_cookie, dead, conn, block>>

ConnBreaks ==
    /\ SettingUp
    /\ active_conn \notin dead \cup {0}
    /\ dead' = dead \cup {active_conn}
    /\ UNCHANGED <<pipeVars, kind, cookie, offer, setup, real_cookie, active_conn, conns, conn, block>>

\* The accept loop notices and clears active_conn.
ConnCleared ==
    /\ SettingUp
    /\ active_conn \in dead
    /\ active_conn' = 0
    /\ UNCHANGED <<pipeVars, kind, cookie, offer, setup, real_cookie, conns, dead, conn, block>>
-----------------------------------------------------------------------------
(* The task of one X client.                                               *)

\* The task returns and with it the X client's socket is closed.
Drop ==
    /\ setup' = "dropped"
    /\ pipe' = [p \in P!Sides |-> "ended"]
    /\ t1' = [p \in P!Sides |-> "off"] /\ t2' = [p \in P!Sides |-> "off"]
    /\ eof' = [eof EXCEPT !["near"] = TRUE]
    /\ refused' = TRUE
    /\ UNCHANGED dataVars

\* active_conn and x11_real_cookie are looked up once.
Accept ==
    /\ setup = "accept"
    /\ conn' = active_conn
    /\ IF active_conn # 0 /\ real_cookie
       THEN setup' = "read" /\ UNCHANGED pipeVars
       ELSE Drop /\ UNCHANGED taken
    /\ UNCHANGED <<kind, cookie, offer, real_cookie, active_conn, conns, dead, block>>

\* Mutant of Authentic: a short cookie is compared as far as it goes.
AuthenticSoFar(c) == IsPrefix(c, FakeCookie) \/ IsPrefix(FakeCookie, c)

\* The offered cookie is long enough and begins with the fake one.
Authentic(c) == Len(c) >= Len(FakeCookie) /\ SubSeq(c, 1, Len(FakeCookie)) = FakeCookie

\* process_x11_setup: the block goes on with the real cookie, or with none when
\* etr had none; anything but the fake cookie ends the task.
ReadSetup ==
    /\ setup = "read"
    /\ taken["near"] < written["near"]
    /\ taken' = [taken EXCEPT !["near"] = @ + 1]
    /\ \/ /\ Authentic(offer)
          /\ setup' = "open"
          /\ block' = IF cookie THEN "real" ELSE "empty"
          /\ UNCHANGED <<endVars, dataVars>>
       \/ /\ ~Authentic(offer)
          /\ Drop
          /\ UNCHANGED block
    /\ UNCHANGED <<kind, cookie, offer, real_cookie, active_conn, conns, dead, conn>>

\* The X client goes away before it has sent its set-up.
SetupEof ==
    /\ setup = "read"
    /\ taken["near"] = written["near"] /\ app["near"] # "open"
    /\ Drop
    /\ UNCHANGED <<taken, kind, cookie, offer, real_cookie, active_conn, conns, dead, conn, block>>

\* forward_x11_connection: the stream is opened on the connection found at first,
\* even if that is broken by now and nobody has noticed; block and stream header
\* are written and both directions piped.
OpenStream ==
    /\ setup = "open"
    /\ setup' = "piped"
    /\ pipe' = P!Opened
    /\ sent' = [sent EXCEPT !["near"] = 1]
    /\ link' = IF conn \in dead THEN "broken" ELSE "up"
    /\ UNCHANGED <<t1, t2, eof, refused, app, written, consumed, fin, stopped, received, put, cut,
                    reset, taken>>
    \* from here on the stream's connection is `link`
    /\ active_conn' = 0 /\ conns' = 0 /\ dead' = {} /\ conn' = 0
    /\ UNCHANGED <<kind, cookie, offer, real_cookie, block>>

\* open_bi or one of the writes fails.
OpenFails ==
    /\ setup = "open"
    /\ conn \in dead
    /\ Drop
    /\ UNCHANGED <<taken, kind, cookie, offer, real_cookie, active_conn, conns, dead, conn, block>>
-----------------------------------------------------------------------------
\* Until it is piped the X client can write its set-up, or close.
XClient ==
    /\ SettingUp
    /\ P!AppWrite("near") \/ P!AppClose("near")
    /\ UNCHANGED setupVars

Pipe ==
    /\ setup \in {"piped", "dropped"}
    /\ P!Next
    /\ UNCHANGED setupVars

Task == Accept \/ ReadSetup \/ SetupEof \/ OpenStream \/ OpenFails

Next == CookieStored \/ ConnFilled \/ ConnBreaks \/ ConnCleared \/ XClient \/ Task \/ Pipe

Spec == Init /\ [][Next]_vars

\* TcpPipe's fairness, and the task of an accepted X client runs.
FairSpec == Spec /\ P!Fairness /\ WF_vars(Task)
-----------------------------------------------------------------------------
(* Properties.                                                             *)

TypeOK ==
    /\ kind \in {"tcp", "x11"} /\ cookie \in BOOLEAN /\ offer \in Offers \cup {<<>>}
    /\ setup \in {"accept", "read", "open", "piped", "dropped"}
    /\ real_cookie \in BOOLEAN /\ active_conn \in 0 .. MaxConns /\ conns \in 0 .. MaxConns
    /\ dead \subseteq 1 .. MaxConns /\ conn \in 0 .. MaxConns
    /\ block \in {"none", "real", "empty"}

\* Only an X client that knows the cookie of the exported display reaches the X
\* server, and it arrives with the cookie etr found there and no other; a client
\* that knows it and stays is turned away only when there was no connection at
\* the time it was accepted or the one found then is broken, although the session
\* may have a new one by now (run_session, process_x11_setup).
X11Admission ==
    kind = "x11" =>
        /\ sent["near"] > 0 =>
              /\ IsPrefix(FakeCookie, offer)
              /\ block = IF cookie THEN "real" ELSE "empty"
        /\ setup = "dropped" /\ IsPrefix(FakeCookie, offer) /\ app["near"] = "open" =>
              conn = 0 \/ conn \in dead

\* TcpPipe's properties hold for X11 connections as well.
TruncationExplained == P!TruncationExplained
NoSpuriousEof == P!NoSpuriousEof
BothEnd == P!BothEnd
=============================================================================
