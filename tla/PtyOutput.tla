------------------------------ MODULE PtyOutput ------------------------------
(***************************************************************************)
(* Terminal output on its way from the shell's PTY to the user's screen,   *)
(* across connection losses: the PTY reader thread of etrs, the server's   *)
(* handle_connection (handshake, replay queue, PTY writer), the QUIC PTY   *)
(* stream, and etr's pty_recv_task and stdout_task.                        *)
(*                                                                         *)
(* A chunk is its sequence number.  The reader thread takes the session    *)
(* lock to number and record a chunk and then, in a separate step, looks   *)
(* at the outbound_pty_tx slot; handle_connection takes the same lock to   *)
(* compute the replay and only later fills the slot.  The interleavings of *)
(* these steps are the point of this module.                               *)
(*                                                                         *)
(* Each way a chunk can go missing, or arrive twice or out of order, is    *)
(* recorded in the ghost variable hazard when it happens.                  *)
(***************************************************************************)
EXTENDS WindowOps, Sequences

CONSTANTS
    HistoryCap,  \* chunks that fit in MAX_HISTORY_BYTES
    ChannelCap,  \* capacity of the per-connection pty_ob channel (1000)
    StdoutCap,   \* capacity of the client's stdout channel (512)
    MaxChunks,   \* bound: chunks the shell produces
    MaxConns     \* bound: connections the client opens; the last one is not lost

ASSUME PtyOutputAssumption ==
    /\ HistoryCap \in Nat \ {0}
    /\ ChannelCap \in Nat \ {0}
    /\ StdoutCap \in Nat \ {0}
    /\ MaxChunks \in Nat
    /\ MaxConns \in Nat \ {0}

VARIABLES
    hist,      \* server: send_history and next_out_seq of stream 0
    reader,    \* server: where the PTY reader thread is
    handler,   \* server: where handle_connection is
    attached,  \* the connection being handled is the client's current one
    replays,   \* server: replays not yet queued, an interval [lo, hi]
    chan,      \* server: the pty_ob channel of the connection
    wire,      \* PTY stream, server to client
    client,    \* client: where run_session is
    next_in,   \* client: next_in_seq of stream 0
    high,      \* ghost: one above the highest number the client has received
    hb,        \* client heartbeat in flight: its ack, or NoHeartbeat
    stdout_q,  \* client: stdout channel
    screen,    \* client: chunks written to the terminal
    conns,     \* connections opened so far
    hazard     \* ghost: chunks that met each hazard

serverVars == <<hist, reader, handler, replays, chan>>
clientVars == <<client, next_in, high, stdout_q, screen, conns>>
linkVars == <<attached, wire, hb>>
vars == <<serverVars, clientVars, linkVars, hazard>>

Hazards == {"evicted",     \* popped from a full history before being acknowledged
            "windowed",    \* recorded after the replay was computed, slot still empty
            "overflow",    \* replay dropped by try_send on a full channel
            "overtaken",   \* still queued behind a later chunk when the link broke
            "stdout_full", \* dropped by the client's try_send on a full channel
            "aborted",     \* in the client's stdout channel when run_session ended
            "ahead",       \* replay queued after a live chunk
            "duplicate"}   \* queued both as a replay and as a live chunk

NoHeartbeat == -1

Mark(class, chunks) == hazard' = [hazard EXCEPT ![class] = @ \cup chunks]

\* The chunk the reader thread is working on; it is the only one to record.
Current == hist.next - 1

\* outbound_pty_tx is Some.  It is cleared when handle_connection returns.
SlotFull == handler \in {"slotted", "up"}

Init ==
    /\ hist = NewWindow
    /\ reader = "read"
    /\ handler = "idle"
    /\ attached = FALSE
    /\ replays = [lo |-> 1, hi |-> 0]
    /\ chan = <<>>
    /\ wire = <<>>
    /\ client = "down"
    /\ next_in = 1
    /\ high = 1
    /\ hb = NoHeartbeat
    /\ stdout_q = <<>>
    /\ screen = <<>>
    /\ conns = 0
    /\ hazard = [c \in Hazards |-> {}]
-----------------------------------------------------------------------------
(* The PTY reader thread.                                                  *)

\* A chunk is read, numbered and recorded under the session lock.
PtyRead ==
    /\ reader = "read"
    /\ hist.next <= MaxChunks
    /\ hist' = RecordSend(hist, HistoryCap)
    /\ reader' = "look"
    /\ Mark("evicted", hist.first .. (hist'.first - 1))
    /\ UNCHANGED <<handler, replays, chan, clientVars, linkVars>>

\* The slot is locked, its sender cloned and the lock released.  A chunk
\* recorded after collect_replays that finds the slot still empty is on neither
\* path of this connection.
PtyLook ==
    /\ reader = "look"
    /\ reader' = IF SlotFull THEN "send" ELSE "read"
    /\ IF handler \in {"collected", "accepted"} /\ Current > replays.hi
       THEN Mark("windowed", {Current})
       ELSE UNCHANGED hazard
    /\ UNCHANGED <<hist, handler, replays, chan, clientVars, linkVars>>

\* blocking_send into the connection's channel, once there is room.
PtySend ==
    /\ reader = "send"
    /\ Len(chan) < ChannelCap
    /\ chan' = Append(chan, Current)
    /\ reader' = "read"
    /\ hazard' = [hazard EXCEPT
                    !["ahead"] = @ \cup (replays.lo .. replays.hi),
                    !["duplicate"] = @ \cup ({Current} \cap (1 .. replays.hi))]
    /\ UNCHANGED <<hist, handler, replays, clientVars, linkVars>>

\* Mutant of PtySendFails: the dead channel is waited for.
PtySendWaits ==
    /\ reader = "stale"
    /\ UNCHANGED vars

\* blocking_send on a channel whose receiver is gone: the error is ignored.
PtySendFails ==
    /\ reader = "stale"
    /\ reader' = "read"
    /\ UNCHANGED <<hist, handler, replays, chan, clientVars, linkVars, hazard>>
-----------------------------------------------------------------------------
(* handle_connection.                                                      *)

\* The connection is accepted and its SessionOpen verified; under the session
\* lock the client's watermark trims the history and the replay is computed from
\* what is left.
CollectReplays ==
    /\ handler = "idle"
    /\ client = "dialing"
    /\ handler' = "collected"
    /\ client' = "opening"
    /\ attached' = TRUE
    /\ hist' = AcknowledgeUpTo(hist, next_in - 1)
    /\ replays' = [lo |-> ReplayStart(hist', next_in - 1), hi |-> hist.next - 1]
    /\ UNCHANGED <<reader, chan, wire, hb, next_in, high, stdout_q, screen, conns, hazard>>

\* SessionAccept is written (and the reverse listeners are started).
WriteAccept ==
    /\ handler = "collected"
    /\ handler' = "accepted"
    /\ UNCHANGED <<hist, reader, replays, chan, clientVars, linkVars, hazard>>

\* The connection's channel is created and put in the slot.
FillSlot ==
    /\ handler = "accepted"
    /\ handler' = "slotted"
    /\ chan' = <<>>
    /\ UNCHANGED <<hist, reader, replays, clientVars, linkVars, hazard>>

\* try_send of the next replay: silently dropped when the channel is full.
QueueReplay ==
    /\ handler = "slotted"
    /\ replays.lo <= replays.hi
    /\ replays' = [replays EXCEPT !.lo = @ + 1]
    /\ IF Len(chan) < ChannelCap
       THEN /\ chan' = Append(chan, replays.lo)
            /\ UNCHANGED hazard
       ELSE /\ Mark("overflow", {replays.lo})
            /\ UNCHANGED chan
    /\ UNCHANGED <<hist, reader, handler, clientVars, linkVars>>

\* The client's PTY stream is dispatched and the connection's tasks start.
PtyStreamArrives ==
    /\ handler = "slotted"
    /\ replays.lo > replays.hi
    /\ attached /\ client = "up"
    /\ handler' = "up"
    /\ UNCHANGED <<hist, reader, replays, chan, clientVars, linkVars, hazard>>

\* pty_writer_task: channel to PTY stream; lost when the client has moved on.
WriteChunk ==
    /\ handler = "up"
    /\ chan # <<>>
    /\ chan' = Tail(chan)
    /\ wire' = IF attached THEN Append(wire, Head(chan)) ELSE wire
    /\ UNCHANGED <<hist, reader, handler, replays, attached, hb, clientVars, hazard>>

\* ctrl_reader_task: a client heartbeat trims the history.
RecvHeartbeat ==
    /\ handler = "up"
    /\ hb # NoHeartbeat
    /\ hist' = AcknowledgeUpTo(hist, hb)
    /\ hb' = NoHeartbeat
    /\ UNCHANGED <<reader, handler, replays, chan, attached, wire, clientVars, hazard>>

\* What the connection still owes the client besides what is on the wire.
Queued == (replays.lo .. replays.hi) \cup Elems(chan)

\* The client has received, or will still read, a chunk with a higher number.
Overtaken(s) == s < high \/ \E t \in Elems(wire) : s < t

\* handle_connection returns: SessionAccept could not be written, no PTY stream
\* came, or a task ended (between the two it cannot).  Channel and slot are gone;
\* a reader thread that had cloned the sender is left with a dead one.
ServerDrop ==
    /\ \/ handler \in {"collected", "up"}
       \/ handler = "slotted" /\ replays.lo > replays.hi
    /\ attached => conns < MaxConns
    /\ handler' = "idle"
    /\ attached' = FALSE
    /\ chan' = <<>>
    /\ replays' = [lo |-> 1, hi |-> 0]
    /\ hb' = NoHeartbeat
    /\ reader' = IF reader = "send" THEN "stale" ELSE reader
    /\ Mark("overtaken", IF attached THEN {s \in Queued : Overtaken(s)} ELSE {})
    /\ UNCHANGED <<hist, wire, clientVars>>
-----------------------------------------------------------------------------
(* The client.                                                             *)

\* A new connection is attempted; SessionOpen will carry last_received_map,
\* which cannot change before the PTY stream is up.
ClientOpen ==
    /\ client = "down"
    /\ conns < MaxConns
    /\ client' = "dialing"
    /\ conns' = conns + 1
    /\ UNCHANGED <<next_in, high, stdout_q, screen, serverVars, linkVars, hazard>>

\* SessionAccept is read, the PTY stream opened and the tasks started.
ClientAccepted ==
    /\ client = "opening"
    /\ attached /\ handler \in {"accepted", "slotted"}
    /\ client' = "up"
    /\ UNCHANGED <<next_in, high, stdout_q, screen, conns, serverVars, linkVars, hazard>>

\* Mutant of RecvChunk: the watermark is not kept up.
RecvUncounted ==
    /\ client = "up"
    /\ wire # <<>>
    /\ Len(stdout_q) < StdoutCap
    /\ wire' = Tail(wire)
    /\ stdout_q' = Append(stdout_q, Head(wire))
    /\ UNCHANGED <<client, next_in, high, screen, conns, attached, hb, serverVars, hazard>>

\* pty_recv_task: the watermark becomes seq + 1, whatever it was, and the
\* payload is handed to stdout_task unless its channel is full.
RecvChunk ==
    /\ client = "up"
    /\ wire # <<>>
    /\ wire' = Tail(wire)
    /\ next_in' = Head(wire) + 1
    /\ high' = Larger(high, Head(wire) + 1)
    /\ IF Len(stdout_q) < StdoutCap
       THEN /\ stdout_q' = Append(stdout_q, Head(wire))
            /\ UNCHANGED hazard
       ELSE /\ Mark("stdout_full", {Head(wire)})
            /\ UNCHANGED stdout_q
    /\ UNCHANGED <<client, screen, conns, attached, hb, serverVars>>

\* stdout_task writes a chunk to the terminal.
WriteStdout ==
    /\ client = "up"
    /\ stdout_q # <<>>
    /\ screen' = Append(screen, Head(stdout_q))
    /\ stdout_q' = Tail(stdout_q)
    /\ UNCHANGED <<client, next_in, high, conns, serverVars, linkVars, hazard>>

\* ctrl_send_task: a heartbeat every 5 s; one in flight at a time.
SendHeartbeat ==
    /\ client = "up"
    /\ attached
    /\ hb = NoHeartbeat
    /\ hb' = next_in - 1
    /\ UNCHANGED <<attached, wire, clientVars, serverVars, hazard>>

\* run_session ends (connection lost, or the handshake timed out): its tasks are
\* aborted and what sits in the stdout channel goes with them.
ClientDrop ==
    /\ client # "down"
    /\ conns < MaxConns
    /\ client' = "down"
    /\ attached' = FALSE
    /\ wire' = <<>>
    /\ stdout_q' = <<>>
    /\ hazard' = [hazard EXCEPT
                    !["aborted"] = @ \cup Elems(stdout_q),
                    !["overtaken"] =
                        @ \cup {s \in Elems(wire) \cup (IF attached THEN Queued ELSE {}) :
                                    s < high}]
    /\ UNCHANGED <<next_in, high, screen, conns, hb, serverVars>>
-----------------------------------------------------------------------------
Server ==
    \/ PtyRead \/ PtyLook \/ PtySend \/ PtySendFails
    \/ CollectReplays \/ WriteAccept \/ FillSlot \/ QueueReplay
    \/ PtyStreamArrives \/ WriteChunk \/ RecvHeartbeat \/ ServerDrop

Client ==
    \/ ClientOpen \/ ClientAccepted \/ RecvChunk \/ WriteStdout
    \/ SendHeartbeat \/ ClientDrop

Next == Server \/ Client

Spec == Init /\ [][Next]_vars

\* Threads and tasks that can run do run; nothing is assumed about losses,
\* except that the handler of a connection the client has left ends (idle
\* timeout) and that a client whose server has gone notices it (idle timeout).
Fairness ==
    /\ WF_vars(PtyRead) /\ WF_vars(PtyLook) /\ WF_vars(PtySend) /\ WF_vars(PtySendFails)
    /\ WF_vars(CollectReplays) /\ WF_vars(WriteAccept) /\ WF_vars(FillSlot)
    /\ WF_vars(QueueReplay) /\ WF_vars(PtyStreamArrives) /\ WF_vars(WriteChunk)
    /\ WF_vars(RecvHeartbeat) /\ WF_vars(~attached /\ ServerDrop)
    /\ WF_vars(ClientOpen) /\ WF_vars(ClientAccepted) /\ WF_vars(RecvChunk)
    /\ WF_vars(WriteStdout) /\ WF_vars(SendHeartbeat)
    /\ WF_vars(~attached /\ client \in {"opening", "up"} /\ ClientDrop)

FairSpec == Spec /\ Fairness
-----------------------------------------------------------------------------
(* Properties.                                                             *)

Chunks == 1 .. MaxChunks

TypeOK ==
    /\ hist \in Window
    /\ reader \in {"read", "look", "send", "stale"}
    /\ handler \in {"idle", "collected", "accepted", "slotted", "up"}
    /\ attached \in BOOLEAN
    /\ replays \in [lo : Nat, hi : Nat]
    /\ chan \in Seq(Nat) /\ Len(chan) <= ChannelCap
    /\ wire \in Seq(Nat)
    /\ client \in {"down", "dialing", "opening", "up"}
    /\ next_in \in Nat \ {0}
    /\ high \in Nat \ {0}
    /\ hb \in Nat \cup {NoHeartbeat}
    /\ stdout_q \in Seq(Nat) /\ Len(stdout_q) <= StdoutCap
    /\ screen \in Seq(Nat)
    /\ conns \in 0 .. MaxConns
    /\ hazard \in [Hazards -> SUBSET Nat]

\* Chunks the client has, and chunks this connection will still bring it.
Shown == Elems(screen) \cup Elems(stdout_q)
OnTheWay == Elems(wire) \cup (IF attached THEN Queued ELSE {})

\* The hazards that can cost a chunk, as opposed to its place or uniqueness.
Losses == {"evicted", "windowed", "overflow", "overtaken", "stdout_full", "aborted"}
Lost == UNION {hazard[c] : c \in Losses}

\* The chunks pty_recv_task has received: shown, about to be, or dropped after it.
Received == Shown \cup hazard["stdout_full"] \cup hazard["aborted"]

\* What missed the client for good, or will come behind a later chunk: an
\* acknowledgement is a watermark and covers these once that chunk is received.
PassedOver == OnTheWay \cup hazard["windowed"] \cup hazard["overflow"] \cup hazard["overtaken"]

\* The server has trimmed from its replay history (etrs.rs apply_server_acks) only
\* what the client received, what a full history had evicted, and what a chunk that
\* the client did receive had passed over by a named hazard: an acknowledgement that
\* comes late or from an earlier connection never discards output that is still to
\* be sent.
TrimmedIsAccounted ==
    \A s \in 1 .. (hist.first - 1) :
        s \in Received \cup hazard["evicted"] \/ (s < high /\ s \in PassedOver)

\* Every chunk below the highest watermark the client has had is on its screen,
\* on its way over the current connection, or met one of the named hazards: a
\* reconnect (SessionOpen, collect_replays, replay queue) has no other way to
\* lose output.
LossExplained == \A s \in 1 .. (high - 1) : s \in Shown \cup OnTheWay \cup Lost

\* As long as no chunk met a hazard, the screen shows exactly the shell's output,
\* in order and without repetition, across any number of reconnects.
ExactUnlessHazard ==
    (\A c \in Hazards : hazard[c] = {}) =>
        screen \o stdout_q = [i \in 1 .. (next_in - 1) |-> i]

\* Once the network stops breaking, every chunk the shell produced is shown or
\* was lost to a hazard; in particular the PTY reader thread is never stuck in
\* blocking_send.
EventuallyShown == <>[](\A s \in Chunks : s \in Elems(screen) \cup Lost)

\* PROTOCOL.md section 8: both sides replay unacknowledged chunks (seq above the
\* peer's watermark).  A chunk the client's watermark has passed was brought to
\* it, unless a bounded buffer overflowed or an aborted task held it.
ReplayComplete ==
    \A s \in 1 .. (next_in - 1) :
        s \in Shown \cup OnTheWay \cup UNION {hazard[c] : c \in Losses \ {"windowed"}}
=============================================================================
