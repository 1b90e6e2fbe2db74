------------------------------ MODULE StdinPath ------------------------------
(***************************************************************************)
(* Keystrokes on their way from etr's stdin to the shell's PTY, across     *)
(* connection losses: the stdin channel, stdin_task, the replay of the     *)
(* client's history on reconnect, the server's pty_reader_task, the pty_in *)
(* channel and the PTY writer thread.                                      *)
(*                                                                         *)
(* A payload gets its identity when stdin_task numbers it; before that it  *)
(* is only counted.  The client writes the whole replay while it holds the *)
(* session lock and starts stdin_task afterwards, and the server handles   *)
(* one connection at a time, so its last_received_map is final when it is  *)
(* sent: that is what keeps a keystroke from being typed twice.            *)
(***************************************************************************)
EXTENDS WindowOps, Sequences

CONSTANTS
    HistoryCap,  \* payloads that fit in MAX_HISTORY_BYTES
    StdinCap,    \* capacity of the client's stdin channel (1000)
    PtyInCap,    \* capacity of the server's pty_in channel (1000)
    MaxTyped,    \* bound: payloads the user types
    MaxConns     \* bound: connections the client opens; the last one is not lost

ASSUME StdinPathAssumption ==
    /\ HistoryCap \in Nat \ {0}
    /\ StdinCap \in Nat \ {0}
    /\ PtyInCap \in Nat \ {0}
    /\ MaxTyped \in Nat
    /\ MaxConns \in Nat \ {0}

VARIABLES
    typed,     \* payloads put in the stdin channel so far
    stdin_q,   \* how many of them are still there
    task,      \* client: where stdin_task is
    hist,      \* client: send_history and next_out_seq of stream 0
    client,    \* client: where run_session is
    conns,     \* connections opened so far
    handler,   \* server: where handle_connection is
    link,      \* "live" while the connection handled is the client's current one
    accept,    \* last_received_seq in the connection's SessionAccept
    wire,      \* PTY stream, client to server
    next_in,   \* server: next_in_seq of stream 0
    taken,     \* server: chunk read and not yet in pty_in (NoChunk if none)
    pty_in,    \* server: pty_in channel
    applied,   \* chunks written to the PTY
    hb,        \* server heartbeat in flight: its ack, or NoHeartbeat
    evicted,   \* ghost: popped from a full history before being acknowledged
    lost       \* ghost: acknowledged, then dropped with the aborted reader task

clientVars == <<typed, stdin_q, task, hist, client, conns, evicted>>
serverVars == <<handler, accept, next_in, taken, pty_in, applied, lost>>
linkVars == <<link, wire, hb>>
vars == <<clientVars, serverVars, linkVars>>

attached == link = "live"

NoChunk == 0
NoHeartbeat == -1

\* The numbers lo .. hi in order.
Interval(lo, hi) == [i \in 1 .. (hi + 1 - lo) |-> lo + i - 1]

Init ==
    /\ typed = 0
    /\ stdin_q = 0
    /\ task = "off"
    /\ hist = NewWindow
    /\ client = "down"
    /\ conns = 0
    /\ handler = "idle"
    /\ link = "cut"
    /\ accept = 0
    /\ wire = <<>>
    /\ next_in = 1
    /\ taken = NoChunk
    /\ pty_in = <<>>
    /\ applied = <<>>
    /\ hb = NoHeartbeat
    /\ evicted = {}
    /\ lost = {}
-----------------------------------------------------------------------------
(* The client.                                                             *)

\* The stdin reader thread: blocking_send, also while disconnected.
Type ==
    /\ typed < MaxTyped
    /\ stdin_q < StdinCap
    /\ typed' = typed + 1
    /\ stdin_q' = stdin_q + 1
    /\ UNCHANGED <<task, hist, client, conns, evicted, serverVars, linkVars>>

\* stdin_task takes a payload out of the channel; it has no number yet.
Dequeue ==
    /\ task = "recv"
    /\ stdin_q > 0
    /\ stdin_q' = stdin_q - 1
    /\ task' = "lock"
    /\ UNCHANGED <<typed, hist, client, conns, evicted, serverVars, linkVars>>

\* Under the session lock the payload is numbered and recorded.
Record ==
    /\ task = "lock"
    /\ hist' = RecordSend(hist, HistoryCap)
    /\ evicted' = evicted \cup (hist.first .. (hist'.first - 1))
    /\ task' = "write"
    /\ UNCHANGED <<typed, stdin_q, client, conns, serverVars, linkVars>>

\* write_pty_chunk; nothing is written once the server has left.
WriteChunk ==
    /\ task = "write"
    /\ wire' = IF attached THEN Append(wire, hist.next - 1) ELSE wire
    /\ task' = "recv"
    /\ UNCHANGED <<typed, stdin_q, hist, client, conns, evicted, link, hb, serverVars>>

\* A new connection is attempted.
ClientOpen ==
    /\ client = "down"
    /\ conns < MaxConns
    /\ client' = "dialing"
    /\ conns' = conns + 1
    /\ UNCHANGED <<typed, stdin_q, task, hist, evicted, serverVars, linkVars>>

\* Mutant of ClientAccepted: all that is retained is replayed.
ClientReplaysAll ==
    /\ client = "opening"
    /\ attached
    /\ client' = "up"
    /\ task' = "recv"
    /\ wire' = wire \o Interval(hist.first, hist.next - 1)
    /\ UNCHANGED <<typed, stdin_q, hist, conns, evicted, link, hb, serverVars>>

\* SessionAccept is read: the history is trimmed, the rest of it replayed on
\* the new PTY stream under the session lock, and stdin_task started.
ClientAccepted ==
    /\ client = "opening"
    /\ attached
    /\ client' = "up"
    /\ task' = "recv"
    /\ hist' = AcknowledgeUpTo(hist, accept)
    /\ wire' = wire \o Interval(ReplayStart(hist', accept), hist.next - 1)
    /\ UNCHANGED <<typed, stdin_q, conns, evicted, link, hb, serverVars>>

\* ctrl_reader_task: a server heartbeat trims the history.
RecvHeartbeat ==
    /\ client = "up"
    /\ hb # NoHeartbeat
    /\ hist' = AcknowledgeUpTo(hist, hb)
    /\ hb' = NoHeartbeat
    /\ UNCHANGED <<typed, stdin_q, task, client, conns, evicted, link, wire, serverVars>>

\* run_session ends and aborts stdin_task; a payload it had dequeued and not
\* yet recorded is gone.
ClientDrop ==
    /\ client # "down"
    /\ conns < MaxConns
    /\ client' = "down"
    /\ task' = "off"
    /\ link' = "cut"
    /\ hb' = NoHeartbeat
    /\ UNCHANGED <<typed, stdin_q, hist, conns, evicted, wire, serverVars>>
-----------------------------------------------------------------------------
(* The server.                                                             *)

\* The connection is accepted, SessionOpen verified, and last_received_map
\* put in the SessionAccept.
SendAccept ==
    /\ handler = "idle"
    /\ client = "dialing"
    /\ handler' = "open"
    /\ client' = "opening"
    /\ link' = "live"
    /\ accept' = next_in - 1
    /\ wire' = <<>>
    /\ UNCHANGED <<next_in, taken, pty_in, applied, lost, hb,
                   typed, stdin_q, task, hist, conns, evicted>>

\* The PTY stream is dispatched and pty_reader_task started.
PtyStreamArrives ==
    /\ handler = "open"
    /\ attached /\ client = "up"
    /\ handler' = "up"
    /\ UNCHANGED <<accept, next_in, taken, pty_in, applied, lost, clientVars, linkVars>>

\* pty_reader_task: the watermark passes the chunk before the PTY has it.
ReadChunk ==
    /\ handler = "up"
    /\ taken = NoChunk
    /\ wire # <<>>
    /\ wire' = Tail(wire)
    /\ next_in' = Head(wire) + 1
    /\ taken' = Head(wire)
    /\ UNCHANGED <<handler, accept, pty_in, applied, lost, link, hb, clientVars>>

\* pty_in_tx.send, once there is room.
HandOver ==
    /\ taken # NoChunk
    /\ Len(pty_in) < PtyInCap
    /\ pty_in' = Append(pty_in, taken)
    /\ taken' = NoChunk
    /\ UNCHANGED <<handler, accept, next_in, applied, lost, clientVars, linkVars>>

\* The PTY writer thread.
PtyWrite ==
    /\ pty_in # <<>>
    /\ applied' = Append(applied, Head(pty_in))
    /\ pty_in' = Tail(pty_in)
    /\ UNCHANGED <<handler, accept, next_in, taken, lost, clientVars, linkVars>>

\* hb_task: one heartbeat in flight at a time.
SendHeartbeat ==
    /\ handler = "up"
    /\ attached
    /\ hb = NoHeartbeat
    /\ hb' = next_in - 1
    /\ UNCHANGED <<link, wire, clientVars, serverVars>>

\* handle_connection returns and aborts pty_reader_task; a chunk it was still
\* trying to hand over is gone although the watermark has passed it.
ServerDrop ==
    /\ handler # "idle"
    /\ attached => conns < MaxConns
    /\ handler' = "idle"
    /\ link' = "cut"
    /\ wire' = <<>>
    /\ lost' = lost \cup ({taken} \ {NoChunk})
    /\ taken' = NoChunk
    /\ UNCHANGED <<accept, next_in, pty_in, applied, hb, clientVars>>
-----------------------------------------------------------------------------
Next ==
    \/ Type \/ Dequeue \/ Record \/ WriteChunk
    \/ ClientOpen \/ ClientAccepted \/ RecvHeartbeat \/ ClientDrop
    \/ SendAccept \/ PtyStreamArrives \/ ReadChunk \/ HandOver
    \/ PtyWrite \/ SendHeartbeat \/ ServerDrop

Spec == Init /\ [][Next]_vars

\* Tasks and threads that can run do run; the user need not type, and a
\* connection need not break, but each side notices (idle timeout) that the
\* other has gone.
Fairness ==
    /\ WF_vars(Dequeue) /\ WF_vars(Record) /\ WF_vars(WriteChunk)
    /\ WF_vars(ClientOpen) /\ WF_vars(ClientAccepted) /\ WF_vars(RecvHeartbeat)
    /\ WF_vars(SendAccept) /\ WF_vars(PtyStreamArrives) /\ WF_vars(ReadChunk)
    /\ WF_vars(HandOver) /\ WF_vars(PtyWrite) /\ WF_vars(SendHeartbeat)
    /\ WF_vars(~attached /\ ServerDrop)
    /\ WF_vars(~attached /\ client \in {"opening", "up"} /\ ClientDrop)

FairSpec == Spec /\ Fairness
-----------------------------------------------------------------------------
(* Properties.                                                             *)

TypeOK ==
    /\ typed \in Nat
    /\ stdin_q \in Nat /\ stdin_q <= StdinCap
    /\ task \in {"off", "recv", "lock", "write"}
    /\ hist \in Window
    /\ client \in {"down", "dialing", "opening", "up"}
    /\ conns \in Nat /\ conns <= MaxConns
    /\ handler \in {"idle", "open", "up"}
    /\ link \in {"live", "cut"}
    /\ accept \in Nat
    /\ wire \in Seq(Nat)
    /\ next_in \in Nat \ {0}
    /\ taken \in Nat
    /\ pty_in \in Seq(Nat) /\ Len(pty_in) <= PtyInCap
    /\ applied \in Seq(Nat)
    /\ hb \in Nat \cup {NoHeartbeat}
    /\ evicted \subseteq Nat
    /\ lost \subseteq Nat

Increasing(s) == \A i, j \in DOMAIN s : i < j => s[i] < s[j]

\* Keystrokes reach the PTY in the order they were numbered and none reaches it
\* twice, whatever was replayed (etr.rs replay of collect_replays, etrs.rs
\* pty_reader_task, which does not filter duplicates).
TypedAtMostOnce == Increasing(applied)

\* Every chunk below the server's watermark was typed into the PTY or is on its
\* way to it, unless the client's history had evicted it or an aborted
\* pty_reader_task held it: acknowledging before the hand-over loses nothing else.
NothingSkipped ==
    \A s \in 1 .. (next_in - 1) :
        s \in Elems(applied) \cup Elems(pty_in) \cup {taken} \cup evicted \cup lost

\* The client discards a chunk only when the server has taken it or the history
\* is full: whatever the server lacks can still be replayed.
TrimmedWasTaken ==
    \A s \in 1 .. (hist.first - 1) : s < next_in \/ s \in evicted

\* The stream as its receiver sees it.
Fifo == INSTANCE AtMostOnceFifo
            WITH sent <- hist.next - 1, delivered <- applied

\* The path implements the in-order, at-most-once stream.
ImplementsFifo == Fifo!Spec

\* Once the network stops breaking, everything that was numbered has reached the
\* PTY, except for what a hazard had cost by then, and of what was typed at most
\* one payload for each lost connection was never numbered: the one an aborted
\* stdin_task had taken out of the channel.
EventuallyTyped ==
    <>[](/\ \A s \in 1 .. (hist.next - 1) : s \in Elems(applied) \cup evicted \cup lost
         /\ stdin_q = 0
         /\ typed - (hist.next - 1) < conns)
=============================================================================
