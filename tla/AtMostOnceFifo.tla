--------------------------- MODULE AtMostOnceFifo ---------------------------
(***************************************************************************)
(* What a stream's receiver may rely on whatever the connections do:       *)
(* numbered items are handed over in the order of their numbers and none   *)
(* is handed over twice.  Items may be skipped, never reordered.           *)
(***************************************************************************)
EXTENDS Integers, Sequences

VARIABLES
    sent,      \* numbers handed out so far
    delivered  \* numbers handed to the receiver, in order

vars == <<sent, delivered>>

\* The last number handed over, 0 before the first one.
LastDelivered == IF delivered = <<>> THEN 0 ELSE delivered[Len(delivered)]

Init == sent = 0 /\ delivered = <<>>

Send ==
    /\ sent' = sent + 1
    /\ UNCHANGED delivered

Deliver ==
    /\ \E n \in (LastDelivered + 1) .. sent : delivered' = Append(delivered, n)
    /\ UNCHANGED sent

Next == Send \/ Deliver

Spec == Init /\ [][Next]_vars
=============================================================================
