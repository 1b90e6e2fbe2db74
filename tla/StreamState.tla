----------------------------- MODULE StreamState -----------------------------
(***************************************************************************)
(* The send side of session::StreamState: the deque of (seq, payload)      *)
(* entries, its running byte total, eviction at MAX_HISTORY_BYTES,         *)
(* acknowledgement and replay.  A payload is its length.  The loops that   *)
(* pop the front are given by the number of entries they pop: the least    *)
(* one at which the loop stops, which is at the latest when the deque is   *)
(* empty.                                                                  *)
(***************************************************************************)
EXTENDS WindowOps, Sequences

CONSTANTS
    MaxHistoryBytes,  \* MAX_HISTORY_BYTES
    PayloadLens,      \* lengths of the payloads that are sent
    MaxSent           \* bound: payloads recorded

StreamStateAssumption ==
    /\ MaxHistoryBytes \in Nat
    /\ PayloadLens \subseteq Nat
    /\ MaxSent \in Nat

VARIABLES
    next_out_seq,
    send_history,   \* front first
    history_bytes

vars == <<next_out_seq, send_history, history_bytes>>

Entry == [seq : Nat, len : Nat]

\* Sum of the payload lengths of a deque.
Bytes[h \in Seq(Entry)] == IF h = <<>> THEN 0 ELSE h[1].len + Bytes[Tail(h)]

\* pop_front, k times.
Popped(h, k) == SubSeq(h, 1, k)
Rest(h, k) == SubSeq(h, k + 1, Len(h))

\* The least number of pops in a set of numbers at which a loop may stop.
FirstStop(stops) == CHOOSE k \in stops : \A j \in stops : k <= j

\* Mutant of EvictCount: a history of exactly the limit is evicted from.
EvictAtLimit(full, bytes) ==
    FirstStop({k \in 0 .. Len(full) :
                 k = Len(full) \/ bytes - Bytes[Popped(full, k)] < MaxHistoryBytes})

\* record_send: `full` and `bytes` are the deque and the total after push_back.
EvictCount(full, bytes) ==
    FirstStop({k \in 0 .. Len(full) :
                 k = Len(full) \/ bytes - Bytes[Popped(full, k)] <= MaxHistoryBytes})

\* acknowledge_up_to: the loop stops at the first entry above ack.
AckCount(h, ack) ==
    FirstStop({k \in 0 .. Len(h) : k = Len(h) \/ h[k + 1].seq > ack})

\* replay_from: entries above the peer's watermark, oldest first.
ReplayFrom(h, last) ==
    LET kept[i \in 0 .. Len(h)] ==
            IF i = 0 THEN <<>>
            ELSE IF h[i].seq > last THEN Append(kept[i - 1], h[i])
            ELSE kept[i - 1]
    IN  kept[Len(h)]

\* StreamState::new
Init ==
    /\ next_out_seq = 1
    /\ send_history = <<>>
    /\ history_bytes = 0

\* Mutant of RecordPayload: the number is used again.
RecordSameSeq(len) ==
    /\ Len(send_history) < MaxSent
    /\ history_bytes + len <= MaxHistoryBytes
    /\ send_history' = Append(send_history, [seq |-> next_out_seq, len |-> len])
    /\ history_bytes' = history_bytes + len
    /\ UNCHANGED next_out_seq

\* A sender takes the next number and records the payload.
RecordPayload(len) ==
    LET full == Append(send_history, [seq |-> next_out_seq, len |-> len])
        bytes == history_bytes + len
        k == EvictCount(full, bytes)
    IN  /\ next_out_seq <= MaxSent
        /\ next_out_seq' = next_out_seq + 1
        /\ send_history' = Rest(full, k)
        /\ history_bytes' = bytes - Bytes[Popped(full, k)]

\* Mutant of Acknowledge: the popped payloads stay in the total.
AcknowledgeUncounted(ack) ==
    /\ send_history' = Rest(send_history, AckCount(send_history, ack))
    /\ UNCHANGED <<next_out_seq, history_bytes>>

\* A SessionOpen, SessionAccept or Heartbeat acknowledges up to ack.
Acknowledge(ack) ==
    LET k == AckCount(send_history, ack)
    IN  /\ send_history' = Rest(send_history, k)
        /\ history_bytes' = history_bytes - Bytes[Popped(send_history, k)]
        /\ UNCHANGED next_out_seq

Next ==
    \/ \E len \in PayloadLens : RecordPayload(len)
    \/ \E ack \in 0 .. (MaxSent + 1) : Acknowledge(ack)

Spec == Init /\ [][Next]_vars
-----------------------------------------------------------------------------
(* Properties.                                                             *)

TypeOK ==
    /\ next_out_seq \in Nat \ {0}
    /\ send_history \in Seq(Entry)
    /\ history_bytes \in Nat

\* The running total never drifts from the payloads it stands for, so that the
\* unsigned subtraction in both pop loops cannot underflow.
BytesExact == history_bytes = Bytes[send_history]

\* The window this deque stands for.
AsWindow == [first |-> next_out_seq - Len(send_history), next |-> next_out_seq]

\* For every watermark a peer can report, replay_from returns exactly the
\* retained numbers above it, oldest first and without a hole: what the data
\* paths assume of a replay.
ReplayIsInterval ==
    \A last \in 0 .. next_out_seq :
        LET r == ReplayFrom(send_history, last)
            start == ReplayStart(AsWindow, last)
        IN  /\ Len(r) = next_out_seq - start
            /\ \A i \in DOMAIN r : r[i].seq = start + i - 1

\* Recording keeps the longest run of recent payloads that fits: the total is
\* within MAX_HISTORY_BYTES, and with one more of the entries that were evicted
\* it would not be.
KeepsLongestSuffix ==
    [][\A len \in PayloadLens : RecordPayload(len) =>
          LET full == Append(send_history, [seq |-> next_out_seq, len |-> len])
              k == Len(full) - Len(send_history')
          IN  /\ history_bytes' <= MaxHistoryBytes
              /\ k > 0 => Bytes[Rest(full, k - 1)] > MaxHistoryBytes]_vars

\* The deque with its byte accounting implements the window.
Win == INSTANCE ReplayWindow WITH w <- AsWindow
ImplementsWindow == Win!Spec
=============================================================================
