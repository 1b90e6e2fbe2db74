---------------------------- MODULE ReplayWindow ----------------------------
(***************************************************************************)
(* What a replay history promises: it retains an interval of sequence      *)
(* numbers that ends at the newest one, grows only at that end and shrinks *)
(* only at the other, by eviction or by acknowledgement.                   *)
(***************************************************************************)
EXTENDS WindowOps

VARIABLE w

Init == w = NewWindow

\* A new number, and any eviction up to and including the new entry itself.
Record == \E keep \in w.first .. (w.next + 1) : w' = RecordKeeping(w, keep)

\* An acknowledgement; one beyond the newest number acknowledges everything.
Acknowledge == \E ack \in (w.first - 1) .. (w.next - 1) : w' = AcknowledgeUpTo(w, ack)

Next == Record \/ Acknowledge

Spec == Init /\ [][Next]_w
=============================================================================
