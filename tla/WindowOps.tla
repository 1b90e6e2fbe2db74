------------------------------ MODULE WindowOps ------------------------------
(***************************************************************************)
(* The replay history of a stream (StreamState::send_history) seen from    *)
(* outside: sequence numbers are handed out one by one and pushed at the   *)
(* back, and are only ever popped from the front, so what is retained is   *)
(* the interval first .. next - 1, where next is next_out_seq.  Module     *)
(* StreamState models the deque itself, with payload sizes, and is shown   *)
(* to implement ReplayWindow, which is built from these operators.  The    *)
(* two data paths (PtyOutput, StdinPath) use them directly.                *)
(***************************************************************************)
EXTENDS Integers

Larger(a, b) == IF a >= b THEN a ELSE b
Smaller(a, b) == IF a <= b THEN a ELSE b

\* What a channel or a stream holds, as a set.
Elems(s) == {s[i] : i \in DOMAIN s}

\* StreamState::new: nothing sent, the first sequence number is 1.
NewWindow == [first |-> 1, next |-> 1]

\* Every window a stream can have.
Window == {w \in [first : Nat \ {0}, next : Nat \ {0}] : w.first <= w.next}

\* The sequence numbers the history still holds.
Retained(w) == w.first .. (w.next - 1)

\* next_out_seq += 1; record_send(seq, ..) where eviction stops at `keep`, the
\* smallest sequence number that is not popped.
RecordKeeping(w, keep) == [first |-> keep, next |-> w.next + 1]

\* record_send with chunks of one size, of which `cap` fit in MAX_HISTORY_BYTES.
RecordSend(w, cap) == RecordKeeping(w, Larger(w.first, w.next + 1 - cap))

\* Mutant of AcknowledgeUpTo: one entry too many is popped.
AcknowledgePast(w, ack) == [w EXCEPT !.first = Larger(@, Smaller(ack + 2, w.next))]

\* acknowledge_up_to(ack): pop the front while its number is at most ack.
AcknowledgeUpTo(w, ack) == [w EXCEPT !.first = Larger(@, Smaller(ack + 1, w.next))]

\* Mutant of ReplayStart: the first chunk above the watermark is left out.
ReplaySkipping(w, last) == Larger(w.first, Smaller(last + 2, w.next))

\* replay_from(last): the smallest retained number above `last` (w.next if none).
\* The replay is the interval from there to w.next - 1, in order.
ReplayStart(w, last) == Larger(w.first, Smaller(last + 1, w.next))
=============================================================================
