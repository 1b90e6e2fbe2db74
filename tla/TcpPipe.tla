------------------------------- MODULE TcpPipe -------------------------------
(***************************************************************************)
(* One forwarded TCP connection (-L, -R; an X11 connection is piped the    *)
(* same way): the application that connected, the accepting process (near) *)
(* with its two copy tasks, one QUIC stream, the connecting process (far)  *)
(* with its two, and the target application.  On each side t1 copies from  *)
(* the socket to the stream, t2 from the stream to the socket, and the     *)
(* first of them to finish has the other one aborted.                      *)
(*                                                                         *)
(* Data is counted, not stored: both hops are ordered byte streams.  What  *)
(* matters is which of it is still delivered when a side ends.             *)
(***************************************************************************)
EXTENDS Integers

CONSTANTS
    MaxChunks,  \* bound: chunks each application writes
    FlowWindow, \* chunks the QUIC stream takes before its reader must read
    SockBuf     \* chunks a socket takes before the application must read

TcpPipeAssumption ==
    /\ MaxChunks \in Nat
    /\ FlowWindow \in Nat \ {0}
    /\ SockBuf \in Nat \ {0}

Sides == {"near", "far"}
Other(p) == IF p = "near" THEN "far" ELSE "near"

VARIABLES
    app,      \* the application: open, half (it shut down its sending side), closed
    written,  \* chunks the application has written
    consumed, \* chunks the application has read
    pipe,     \* idle (no stream yet), wait (target not connected yet), run, ended
    t1, t2,   \* copy tasks: reading, writing (holding one chunk), done, off
    taken,    \* chunks t1 has read from the socket
    sent,     \* chunks t1 has written to the QUIC stream
    fin,      \* the QUIC send stream is finished
    stopped,  \* the peer has dropped its receive stream (STOP_SENDING)
    received, \* chunks t2 has read from the QUIC stream
    put,      \* chunks t2 has written to the socket
    eof,      \* the socket's write half is shut down: the application sees EOF
    link,     \* the QUIC connection
    refused,  \* ghost: the target could not be reached
    cut,      \* ghost: t1 met STOP_SENDING while it had a chunk to write
    reset     \* ghost: t2 had a chunk to write and the application was gone

appVars == <<app, written, consumed>>
t1Vars == <<t1, taken, sent, cut>>
t2Vars == <<t2, received, put, reset>>
endVars == <<pipe, fin, stopped, eof>>
vars == <<appVars, t1Vars, t2Vars, endVars, link, refused>>

\* Nothing is written yet and the pipes are in the given states.
Start(pipes) ==
    /\ app = [p \in Sides |-> "open"]
    /\ written = [p \in Sides |-> 0]
    /\ consumed = [p \in Sides |-> 0]
    /\ pipe = pipes
    /\ t1 = [p \in Sides |-> "read"]
    /\ t2 = [p \in Sides |-> "read"]
    /\ taken = [p \in Sides |-> 0]
    /\ sent = [p \in Sides |-> 0]
    /\ fin = [p \in Sides |-> FALSE]
    /\ stopped = [p \in Sides |-> FALSE]
    /\ received = [p \in Sides |-> 0]
    /\ put = [p \in Sides |-> 0]
    /\ eof = [p \in Sides |-> FALSE]
    /\ link = "up"
    /\ refused = FALSE
    /\ cut = [p \in Sides |-> FALSE]
    /\ reset = [p \in Sides |-> FALSE]

\* A connection was accepted and its stream opened.
Opened == [p \in Sides |-> IF p = "near" THEN "run" ELSE "wait"]
Init == Start(Opened)
-----------------------------------------------------------------------------
(* The applications and the network.                                       *)

AppWrite(p) ==
    /\ app[p] = "open"
    /\ pipe[p] # "ended"
    /\ written[p] < MaxChunks
    /\ written' = [written EXCEPT ![p] = @ + 1]
    /\ UNCHANGED <<app, consumed, t1Vars, t2Vars, endVars, link, refused>>

AppRead(p) ==
    /\ app[p] # "closed"
    /\ consumed[p] < put[p]
    /\ consumed' = [consumed EXCEPT ![p] = @ + 1]
    /\ UNCHANGED <<app, written, t1Vars, t2Vars, endVars, link, refused>>

\* The application sends no more, and may or may not go on reading.
AppClose(p) ==
    /\ app[p] # "closed"
    /\ \E s \in {"half", "closed"} :
          /\ s # app[p]
          /\ app' = [app EXCEPT ![p] = s]
    /\ UNCHANGED <<written, consumed, t1Vars, t2Vars, endVars, link, refused>>

LinkBreaks ==
    /\ link = "up"
    /\ link' = "broken"
    /\ UNCHANGED <<appVars, t1Vars, t2Vars, endVars, refused>>
-----------------------------------------------------------------------------
(* The far side connects to the target, and pipes ...                      *)
Connect ==
    /\ pipe["far"] = "wait"
    /\ pipe' = [pipe EXCEPT !["far"] = "run"]
    /\ UNCHANGED <<appVars, t1Vars, t2Vars, fin, stopped, eof, link, refused>>

\* ... or finishes its send stream and drops the other.
ConnectFails ==
    /\ pipe["far"] = "wait"
    /\ pipe' = [pipe EXCEPT !["far"] = "ended"]
    /\ fin' = [fin EXCEPT !["far"] = TRUE]
    /\ stopped' = [stopped EXCEPT !["near"] = TRUE]
    /\ refused' = TRUE
    /\ UNCHANGED <<appVars, t1Vars, t2Vars, eof, link>>
-----------------------------------------------------------------------------
(* t1: socket to QUIC stream.                                              *)

T1Read(p) ==
    /\ pipe[p] = "run" /\ t1[p] = "read"
    /\ taken[p] < written[p]
    /\ taken' = [taken EXCEPT ![p] = @ + 1]
    /\ t1' = [t1 EXCEPT ![p] = "write"]
    /\ UNCHANGED <<appVars, sent, cut, t2Vars, endVars, link, refused>>

T1Write(p) ==
    /\ pipe[p] = "run" /\ t1[p] = "write"
    /\ link = "up" /\ ~stopped[p]
    /\ sent[p] - received[Other(p)] < FlowWindow
    /\ sent' = [sent EXCEPT ![p] = @ + 1]
    /\ t1' = [t1 EXCEPT ![p] = "read"]
    /\ UNCHANGED <<appVars, taken, cut, t2Vars, endVars, link, refused>>

\* t1 leaves its loop and finishes the stream.
T1Ends(p) ==
    /\ t1' = [t1 EXCEPT ![p] = "done"]
    /\ fin' = [fin EXCEPT ![p] = TRUE]
    /\ UNCHANGED <<appVars, taken, sent, t2Vars, pipe, stopped, eof, link, refused>>

\* Mutant of T1Eof: an idle socket is taken for one at its end.
T1EofIdle(p) ==
    /\ pipe[p] = "run" /\ t1[p] = "read"
    /\ taken[p] = written[p]
    /\ T1Ends(p)
    /\ UNCHANGED cut

\* End of file on the socket, once all that was written has been read.
T1Eof(p) ==
    /\ pipe[p] = "run" /\ t1[p] = "read"
    /\ taken[p] = written[p] /\ app[p] # "open"
    /\ T1Ends(p)
    /\ UNCHANGED cut

\* The write fails: the peer stopped the stream or the connection is lost.
T1Fails(p) ==
    /\ pipe[p] = "run" /\ t1[p] = "write"
    /\ stopped[p] \/ link = "broken"
    /\ T1Ends(p)
    /\ cut' = [cut EXCEPT ![p] = @ \/ stopped[p]]
-----------------------------------------------------------------------------
(* t2: QUIC stream to socket.                                              *)

T2Read(p) ==
    /\ pipe[p] = "run" /\ t2[p] = "read"
    /\ link = "up"
    /\ received[p] < sent[Other(p)]
    /\ received' = [received EXCEPT ![p] = @ + 1]
    /\ t2' = [t2 EXCEPT ![p] = "write"]
    /\ UNCHANGED <<appVars, t1Vars, put, reset, endVars, link, refused>>

T2Write(p) ==
    /\ pipe[p] = "run" /\ t2[p] = "write"
    /\ app[p] # "closed"
    /\ put[p] - consumed[p] < SockBuf
    /\ put' = [put EXCEPT ![p] = @ + 1]
    /\ t2' = [t2 EXCEPT ![p] = "read"]
    /\ UNCHANGED <<appVars, t1Vars, received, reset, endVars, link, refused>>

\* t2 leaves its loop and shuts the socket's write half down.
T2Ends(p) ==
    /\ t2' = [t2 EXCEPT ![p] = "done"]
    /\ eof' = [eof EXCEPT ![p] = TRUE]
    /\ UNCHANGED <<appVars, t1Vars, received, put, pipe, fin, stopped, link, refused>>

\* End of the stream, once all that was sent has been read.
T2Eof(p) ==
    /\ pipe[p] = "run" /\ t2[p] = "read" /\ link = "up"
    /\ fin[Other(p)] /\ received[p] = sent[Other(p)]
    /\ T2Ends(p)
    /\ UNCHANGED reset

\* Mutant of T2Fails: a full socket is taken for a closed one.
T2FailsFull(p) ==
    /\ pipe[p] = "run"
    /\ t2[p] = "write"
    /\ put[p] - consumed[p] = SockBuf
    /\ T2Ends(p)
    /\ UNCHANGED reset

\* The connection is lost, or the application that should get a chunk is gone.
T2Fails(p) ==
    /\ pipe[p] = "run"
    /\ \/ t2[p] = "read" /\ link = "broken"
       \/ t2[p] = "write" /\ app[p] = "closed"
    /\ T2Ends(p)
    /\ reset' = [reset EXCEPT ![p] = @ \/ t2[p] = "write"]

\* Mutant of PipeEnds: both tasks are waited for.
PipeEndsWithBoth(p) ==
    /\ pipe[p] = "run"
    /\ t1[p] = "done" /\ t2[p] = "done"
    /\ pipe' = [pipe EXCEPT ![p] = "ended"]
    /\ stopped' = [stopped EXCEPT ![Other(p)] = TRUE]
    /\ UNCHANGED <<appVars, t1Vars, t2Vars, fin, eof, link, refused>>

\* The select! ends with the first task; aborting the other one drops what it
\* held: an unfinished send stream is finished, the receive stream stopped, and
\* the socket's write half shut down.
PipeEnds(p) ==
    /\ pipe[p] = "run"
    /\ t1[p] = "done" \/ t2[p] = "done"
    /\ pipe' = [pipe EXCEPT ![p] = "ended"]
    /\ t1' = [t1 EXCEPT ![p] = "off"]
    /\ t2' = [t2 EXCEPT ![p] = "off"]
    /\ fin' = [fin EXCEPT ![p] = TRUE]
    /\ stopped' = [stopped EXCEPT ![Other(p)] = TRUE]
    /\ eof' = [eof EXCEPT ![p] = TRUE]
    /\ UNCHANGED <<appVars, taken, sent, cut, received, put, reset, link, refused>>

\* Both sides have ended.
Ended ==
    /\ \A p \in Sides : pipe[p] = "ended"
    /\ UNCHANGED vars
-----------------------------------------------------------------------------
Side(p) ==
    \/ AppWrite(p) \/ AppRead(p) \/ AppClose(p)
    \/ T1Read(p) \/ T1Write(p) \/ T1Eof(p) \/ T1Fails(p)
    \/ T2Read(p) \/ T2Write(p) \/ T2Eof(p) \/ T2Fails(p) \/ PipeEnds(p)

Next == (\E p \in Sides : Side(p)) \/ LinkBreaks \/ Connect \/ ConnectFails \/ Ended

Spec == Init /\ [][Next]_vars

\* Tasks that can run do run, a connection attempt comes to an end, and an
\* application that has not closed its socket goes on reading it.
Fairness ==
    /\ WF_vars(Connect \/ ConnectFails)
    /\ \A p \in Sides :
          /\ WF_vars(AppRead(p)) /\ WF_vars(PipeEnds(p))
          /\ WF_vars(T1Read(p) \/ T1Write(p) \/ T1Eof(p) \/ T1Fails(p))
          /\ WF_vars(T2Read(p) \/ T2Write(p) \/ T2Eof(p) \/ T2Fails(p))

FairSpec == Spec /\ Fairness
-----------------------------------------------------------------------------
(* Properties.                                                             *)

TypeOK ==
    /\ app \in [Sides -> {"open", "half", "closed"}]
    /\ written \in [Sides -> 0 .. MaxChunks]
    /\ consumed \in [Sides -> 0 .. MaxChunks]
    /\ pipe \in [Sides -> {"idle", "wait", "run", "ended"}]
    /\ t1 \in [Sides -> {"read", "write", "done", "off"}]
    /\ t2 \in [Sides -> {"read", "write", "done", "off"}]
    /\ taken \in [Sides -> 0 .. MaxChunks]
    /\ sent \in [Sides -> 0 .. MaxChunks]
    /\ fin \in [Sides -> BOOLEAN]
    /\ stopped \in [Sides -> BOOLEAN]
    /\ received \in [Sides -> 0 .. MaxChunks]
    /\ put \in [Sides -> 0 .. MaxChunks]
    /\ eof \in [Sides -> BOOLEAN]
    /\ link \in {"up", "broken"}
    /\ refused \in BOOLEAN
    /\ cut \in [Sides -> BOOLEAN]
    /\ reset \in [Sides -> BOOLEAN]

\* An application that sees the end of the stream before all of its peer's data
\* has itself closed its sending side, or had a chunk stopped after the peer
\* closed, or the peer was gone with data on its way to it, or the connection
\* broke, or there was no target.  In every other case closing one end delivers
\* everything written before, although the side that ends aborts its other task
\* (pipe_tcp_quic, run_tcp_connection_quic).
TruncationExplained ==
    \A p \in Sides :
        eof[p] /\ put[p] < written[Other(p)] =>
            \/ app[p] # "open" \/ cut[p] \/ reset[Other(p)]
            \/ link = "broken" \/ refused

\* Nobody is shown the end of the stream while both applications are open, the
\* target was reached and the connection holds.
NoSpuriousEof ==
    (\E p \in Sides : eof[p]) =>
        (\E p \in Sides : app[p] # "open") \/ link = "broken" \/ refused

\* When an application closes its socket or the connection is lost, both sides
\* end: no copy task is left waiting for ever, whoever was blocked on a full
\* socket or stream.
BothEnd ==
    ((\E p \in Sides : app[p] = "closed") \/ link = "broken" \/ refused)
        ~> (\A p \in Sides : pipe[p] = "ended")
=============================================================================
