------------------------------ MODULE UdpDemux ------------------------------
(***************************************************************************)
(* The forwarding side of a UDP forward: serve_udp_forward in etrs for -L, *)
(* and its twin in etr's reverse acceptor for -R.  Each sender that shows  *)
(* up on the stream gets a socket of its own towards the target and a      *)
(* reader task that sends the target's replies back through one channel.   *)
(* The sender map drops entries that are idle and, when it is full, the    *)
(* one used least recently; dropping an entry aborts its reader.           *)
(*                                                                         *)
(* A socket is identified by its sender: the kernel is assumed not to hand *)
(* out a port again while replies to its previous owner are under way.     *)
(* Time is kept as ages, in ticks, which stop at SenderIdle.               *)
(***************************************************************************)
EXTENDS Integers, Sequences, FiniteSets

CONSTANTS
    Senders,     \* peer_addr and peer_port pairs
    MaxSenders,  \* MAX_UDP_SENDERS
    SenderIdle,  \* SENDER_IDLE, in ticks
    ReplyCap     \* capacity of the reply channel (256)

UdpDemuxAssumption ==
    /\ IsFiniteSet(Senders)
    /\ MaxSenders \in Nat \ {0}
    /\ SenderIdle \in Nat \ {0}
    /\ ReplyCap \in Nat \ {0}

VARIABLES
    stream,   \* the forward's QUIC stream: "open" or "closed"
    mapped,   \* senders in sender_map
    age,      \* time since the entry's `last`
    reader,   \* none, wait (in recv_from), send (into the channel), dead
    quiet,    \* how long the reader has been waiting
    inbox,    \* a reply sits in the sender's socket
    replies,  \* the reply channel: the sender each reply is for
    silent    \* ghost: time since a datagram of a mapped sender was last forwarded

vars == <<stream, mapped, age, reader, quiet, inbox, replies, silent>>

\* No sender yet, on a stream that is open or, for a forward that is over, closed.
StartsAs(state) ==
    /\ stream = state
    /\ mapped = {}
    /\ age = [s \in Senders |-> 0]
    /\ reader = [s \in Senders |-> "none"]
    /\ quiet = [s \in Senders |-> 0]
    /\ inbox = [s \in Senders |-> FALSE]
    /\ replies = <<>>
    /\ silent = [s \in Senders |-> 0]

Init == StartsAs("open")

\* What is left of f when the entries of `gone` are dropped, and with them their
\* sockets and readers.
Dropping(f, gone, none) == [s \in Senders |-> IF s \in gone THEN none ELSE f[s]]

Idle == {s \in mapped : age[s] >= SenderIdle}

\* Mutant of Victims: nothing makes room.
NoVictim(kept) == {{}}

\* The entries that may be evicted for a new one: the oldest, when the map is full.
Victims(kept) ==
    IF Cardinality(kept) < MaxSenders THEN {{}}
    ELSE {{v} : v \in {v \in kept : \A t \in kept : age[t] <= age[v]}}
-----------------------------------------------------------------------------
\* Mutant of KnownSender: `last` stays what it was when the entry was made.
KnownSenderStale(s) ==
    /\ stream = "open"
    /\ s \in mapped \ Idle
    /\ mapped' = mapped \ Idle
    /\ age' = Dropping(age, Idle, 0)
    /\ silent' = [Dropping(silent, Idle, 0) EXCEPT ![s] = 0]
    /\ reader' = Dropping(reader, Idle, "none")
    /\ quiet' = Dropping(quiet, Idle, 0)
    /\ inbox' = Dropping(inbox, Idle, FALSE)
    /\ UNCHANGED <<stream, replies>>

\* A datagram of a sender that is in the map once the idle ones are out.
KnownSender(s) ==
    /\ stream = "open"
    /\ s \in mapped \ Idle
    /\ mapped' = mapped \ Idle
    /\ age' = [Dropping(age, Idle, 0) EXCEPT ![s] = 0]
    /\ silent' = [Dropping(silent, Idle, 0) EXCEPT ![s] = 0]
    /\ reader' = Dropping(reader, Idle, "none")
    /\ quiet' = Dropping(quiet, Idle, 0)
    /\ inbox' = Dropping(inbox, Idle, FALSE)
    /\ UNCHANGED <<stream, replies>>

\* A datagram of a new one: a socket is bound, the oldest entry makes room, and a
\* reader is spawned.
NewSender(s) ==
    /\ stream = "open"
    /\ s \notin mapped \ Idle
    /\ \E victim \in Victims(mapped \ Idle) :
          LET gone == Idle \cup victim IN
          /\ mapped' = (mapped \ gone) \cup {s}
          /\ age' = [Dropping(age, gone, 0) EXCEPT ![s] = 0]
          /\ silent' = [Dropping(silent, gone, 0) EXCEPT ![s] = 0]
          /\ reader' = [Dropping(reader, gone, "none") EXCEPT ![s] = "wait"]
          /\ quiet' = [Dropping(quiet, gone, 0) EXCEPT ![s] = 0]
          /\ inbox' = [Dropping(inbox, gone, FALSE) EXCEPT ![s] = FALSE]
    /\ UNCHANGED <<stream, replies>>

\* The bind fails: the datagram is dropped, the idle entries are out already.
BindFails(s) ==
    /\ stream = "open"
    /\ s \notin mapped \ Idle
    /\ mapped' = mapped \ Idle
    /\ age' = Dropping(age, Idle, 0)
    /\ silent' = Dropping(silent, Idle, 0)
    /\ reader' = Dropping(reader, Idle, "none")
    /\ quiet' = Dropping(quiet, Idle, 0)
    /\ inbox' = Dropping(inbox, Idle, FALSE)
    /\ UNCHANGED <<stream, replies>>

\* The target replies to a socket that is open.
TargetReplies(s) ==
    /\ s \in mapped
    /\ ~inbox[s]
    /\ inbox' = [inbox EXCEPT ![s] = TRUE]
    /\ UNCHANGED <<stream, mapped, age, reader, quiet, replies, silent>>

\* The reader receives the reply ...
ReaderReceives(s) ==
    /\ reader[s] = "wait"
    /\ inbox[s]
    /\ inbox' = [inbox EXCEPT ![s] = FALSE]
    /\ reader' = [reader EXCEPT ![s] = "send"]
    /\ quiet' = [quiet EXCEPT ![s] = 0]
    /\ UNCHANGED <<stream, mapped, age, replies, silent>>

\* Mutant of ReaderSends: the channel has no bound.
ReaderSendsUnbounded(s) ==
    /\ reader[s] = "send"
    /\ replies' = Append(replies, s)
    /\ reader' = [reader EXCEPT ![s] = "wait"]
    /\ UNCHANGED <<stream, mapped, age, quiet, inbox, silent>>

\* ... and hands it over, once there is room; then its time-out starts anew.
ReaderSends(s) ==
    /\ reader[s] = "send"
    /\ Len(replies) < ReplyCap
    /\ replies' = Append(replies, s)
    /\ reader' = [reader EXCEPT ![s] = "wait"]
    /\ UNCHANGED <<stream, mapped, age, quiet, inbox, silent>>

\* No reply for SenderIdle: the reader ends.  The entry stays.
ReaderTimesOut(s) ==
    /\ reader[s] = "wait"
    /\ ~inbox[s]
    /\ quiet[s] >= SenderIdle
    /\ reader' = [reader EXCEPT ![s] = "dead"]
    /\ quiet' = [quiet EXCEPT ![s] = 0]
    /\ UNCHANGED <<stream, mapped, age, inbox, replies, silent>>

\* recv_from fails, with or without a reply behind it: the reader ends as well.
ReaderFails(s) ==
    /\ reader[s] = "wait"
    /\ reader' = [reader EXCEPT ![s] = "dead"]
    /\ quiet' = [quiet EXCEPT ![s] = 0]
    /\ UNCHANGED <<stream, mapped, age, inbox, replies, silent>>

\* Mutant of WriteReply: the task waits for one reply more than the channel holds.
WriteReplyBatch ==
    /\ stream = "open"
    /\ Len(replies) > ReplyCap
    /\ replies' = <<>>
    /\ UNCHANGED <<stream, mapped, age, reader, quiet, inbox, silent>>

\* reply_task writes a reply to the stream.
WriteReply ==
    /\ stream = "open"
    /\ replies # <<>>
    /\ replies' = Tail(replies)
    /\ UNCHANGED <<stream, mapped, age, reader, quiet, inbox, silent>>

\* The stream ends: one of the two tasks finishes, the other one is aborted, and
\* the map is dropped with send_task.
StreamEnds ==
    /\ stream = "open"
    /\ stream' = "closed"
    /\ mapped' = {}
    /\ age' = [s \in Senders |-> 0]
    /\ silent' = [s \in Senders |-> 0]
    /\ quiet' = [s \in Senders |-> 0]
    /\ reader' = [s \in Senders |-> "none"]
    /\ inbox' = [s \in Senders |-> FALSE]
    /\ replies' = <<>>

Older(f, those) ==
    [s \in Senders |-> IF s \in those /\ f[s] < SenderIdle THEN f[s] + 1 ELSE f[s]]

Tick ==
    /\ age' = Older(age, mapped)
    /\ silent' = Older(silent, mapped)
    /\ quiet' = Older(quiet, {s \in Senders : reader[s] = "wait"})
    /\ UNCHANGED <<stream, mapped, reader, inbox, replies>>

Next ==
    \/ \E s \in Senders :
          \/ KnownSender(s) \/ NewSender(s) \/ BindFails(s)
          \/ TargetReplies(s) \/ ReaderReceives(s) \/ ReaderSends(s)
          \/ ReaderTimesOut(s) \/ ReaderFails(s)
    \/ WriteReply \/ StreamEnds \/ Tick

Spec == Init /\ [][Next]_vars

\* Tasks that can run do run, and a channel's waiting senders are served in turn
\* (tokio's mpsc is fair); nobody has to send, reply or close the stream.
Fairness ==
    /\ WF_vars(WriteReply)
    /\ \A s \in Senders :
          WF_vars(ReaderReceives(s)) /\ SF_vars(ReaderSends(s)) /\ WF_vars(ReaderTimesOut(s))

FairSpec == Spec /\ Fairness
-----------------------------------------------------------------------------
(* Properties.                                                             *)

TypeOK ==
    /\ stream \in {"open", "closed"}
    /\ mapped \subseteq Senders
    /\ age \in [Senders -> 0 .. SenderIdle]
    /\ reader \in [Senders -> {"none", "wait", "send", "dead"}]
    /\ quiet \in [Senders -> 0 .. SenderIdle]
    /\ inbox \in [Senders -> BOOLEAN]
    /\ replies \in Seq(Senders) /\ Len(replies) <= ReplyCap
    /\ silent \in [Senders -> 0 .. SenderIdle]

Running(s) == reader[s] \in {"wait", "send"}

\* The number of reader tasks, and of sockets they and the map keep open, never
\* exceeds MAX_UDP_SENDERS between two datagrams, through any sequence of
\* expiries, evictions, bind failures and the end of the stream (forward.rs:
\* "Bounding the map prevents a flood of packets with varying source ports from
\* exhausting RLIMIT_NOFILE").
SocketsBounded == Cardinality(mapped \cup {s \in Senders : Running(s)}) <= MaxSenders

\* A sender whose datagrams keep coming keeps its socket, and with it the replies
\* that are under way: while the stream is open an entry leaves the map only when
\* nothing was forwarded for its sender for SENDER_IDLE, or, one at a time, when the
\* map is full and no other sender has been silent for longer.
EvictsOldest ==
    [][stream' = "open" =>
         \A v \in mapped \ mapped' :
            \/ silent[v] >= SenderIdle
            \/ /\ Cardinality(mapped) = MaxSenders
               /\ \A t \in mapped \ {v} : t \in mapped' /\ silent[t] <= silent[v]]_vars

\* A reply that reaches a sender's socket is taken from it: readers do not starve
\* one another however full the channel is.  Only a reader that has given up, 30 s
\* after the last reply or on an error of its socket, leaves it there, although the
\* entry may be in use.
ReplyTaken == \A s \in Senders : inbox[s] ~> ~inbox[s] \/ reader[s] = "dead"
=============================================================================
