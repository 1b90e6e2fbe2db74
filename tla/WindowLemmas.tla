---------------------------- MODULE WindowLemmas ----------------------------
(***************************************************************************)
(* What the operators of WindowOps and the sequences of the two data paths *)
(* do, in the form in which the proofs about those paths use it.           *)
(***************************************************************************)
EXTENDS WindowOps, SequenceTheorems, TLAPS

\* Appending adds one element, behind the others.
LEMMA AppendFacts ==
    ASSUME NEW s \in Seq(Nat), NEW e \in Nat
    PROVE  /\ Append(s, e) \in Seq(Nat)
           /\ Len(Append(s, e)) = Len(s) + 1
           /\ DOMAIN Append(s, e) = 1 .. (Len(s) + 1)
           /\ \A i \in DOMAIN s : Append(s, e)[i] = s[i]
           /\ Append(s, e)[Len(s) + 1] = e
           /\ Elems(Append(s, e)) = Elems(s) \cup {e}
  <1>1. /\ Append(s, e) \in Seq(Nat)
        /\ Len(Append(s, e)) = Len(s) + 1
        /\ DOMAIN Append(s, e) = 1 .. (Len(s) + 1)
        /\ \A i \in DOMAIN s : Append(s, e)[i] = s[i]
        /\ Append(s, e)[Len(s) + 1] = e
    BY AppendProperties, LenProperties
  <1>2. DOMAIN s = 1 .. Len(s) /\ Len(s) \in Nat
    BY LenProperties
  <1>3. DOMAIN Append(s, e) = DOMAIN s \cup {Len(s) + 1}
    BY <1>1, <1>2
  <1> QED
    BY <1>1, <1>2, <1>3 DEF Elems

\* Removing the head shifts the others by one.
LEMMA TailFacts ==
    ASSUME NEW s \in Seq(Nat), s # <<>>
    PROVE  /\ Head(s) \in Nat /\ Head(s) = s[1] /\ 1 \in DOMAIN s
           /\ Tail(s) \in Seq(Nat)
           /\ Len(Tail(s)) = Len(s) - 1
           /\ \A i \in DOMAIN Tail(s) : i + 1 \in DOMAIN s /\ Tail(s)[i] = s[i + 1]
           /\ Elems(s) = {Head(s)} \cup Elems(Tail(s))
  <1>1. /\ Head(s) \in Nat /\ Head(s) = s[1]
        /\ Tail(s) \in Seq(Nat)
        /\ Len(Tail(s)) = Len(s) - 1
        /\ \A i \in 1 .. Len(Tail(s)) : Tail(s)[i] = s[i + 1]
    BY HeadTailProperties, ElementOfSeq, EmptySeq
  <1>2. DOMAIN s = 1 .. Len(s) /\ Len(s) \in Nat /\ Len(s) # 0
    BY LenProperties, EmptySeq
  <1>3. DOMAIN Tail(s) = 1 .. (Len(s) - 1)
    BY <1>1, LenProperties
  <1>4. \A i \in DOMAIN Tail(s) : i + 1 \in DOMAIN s /\ Tail(s)[i] = s[i + 1]
    BY <1>1, <1>2, <1>3
  <1>5. \A i \in DOMAIN s : i = 1 \/ (i - 1 \in DOMAIN Tail(s) /\ Tail(s)[i - 1] = s[i])
    BY <1>1, <1>2, <1>3
  <1>6. Elems(s) = {Head(s)} \cup Elems(Tail(s))
    <2>1. ASSUME NEW e \in Elems(s) PROVE e \in {Head(s)} \cup Elems(Tail(s))
      <3>1. PICK i \in DOMAIN s : e = s[i]
        BY DEF Elems
      <3>2. CASE i = 1
        BY <1>1, <3>1, <3>2
      <3>3. CASE i - 1 \in DOMAIN Tail(s) /\ Tail(s)[i - 1] = s[i]
        BY <3>1, <3>3 DEF Elems
      <3> QED
        BY <1>5, <3>2, <3>3
    <2>2. ASSUME NEW e \in Elems(Tail(s)) PROVE e \in Elems(s)
      BY <1>4 DEF Elems
    <2>3. Head(s) \in Elems(s)
      BY <1>1, <1>2 DEF Elems
    <2> QED
      BY <2>1, <2>2, <2>3
  <1> QED
    BY <1>1, <1>2, <1>4, <1>6

\* Recording yields a window whose top has moved up by one.
LEMMA RecordFacts ==
    ASSUME NEW w \in Window, NEW cap \in Nat \ {0}
    PROVE  /\ RecordSend(w, cap) \in Window
           /\ RecordSend(w, cap).next = w.next + 1
           /\ w.first <= RecordSend(w, cap).first
  BY DEF Window, RecordSend, RecordKeeping, Larger

\* Acknowledging yields a window with the same top, trimmed at most to the ack.
LEMMA AckFacts ==
    ASSUME NEW w \in Window, NEW ack \in Nat
    PROVE  /\ AcknowledgeUpTo(w, ack) \in Window
           /\ AcknowledgeUpTo(w, ack).next = w.next
           /\ \A s \in Nat : s < AcknowledgeUpTo(w, ack).first => s < w.first \/ s <= ack
  BY DEF Window, AcknowledgeUpTo, Larger, Smaller

\* The replay starts at what is retained above the watermark.
LEMMA ReplayFacts ==
    ASSUME NEW w \in Window, NEW last \in Nat, last < w.next
    PROVE  /\ ReplayStart(w, last) \in Nat
           /\ last < ReplayStart(w, last) /\ ReplayStart(w, last) <= w.next
           /\ ReplayStart(w, last) = w.first \/ ReplayStart(w, last) = last + 1
  BY DEF Window, ReplayStart, Larger, Smaller
=============================================================================
