--------------------------- MODULE StdinPathProofs ---------------------------
(***************************************************************************)
(* Proofs about StdinPath, for every capacity and every number of payloads *)
(* and connections: keystrokes are typed at most once and in order, the    *)
(* client trims only what the server took, the server's watermark skips    *)
(* only what was evicted or lost with an aborted task, and the path        *)
(* implements AtMostOnceFifo.                                              *)
(***************************************************************************)
EXTENDS StdinPath, WindowLemmas

\* Which phases of the two sides go together.
Phases ==
    /\ client # "up" => task = "off"
    /\ attached => handler # "idle" /\ client \in {"opening", "up"}
    /\ attached /\ client = "opening" =>
            handler = "open" /\ accept = next_in - 1 /\ wire = <<>>
    /\ taken # NoChunk => handler = "up"

\* No acknowledgement under way exceeds the watermark it was read from, and the
\* watermark never exceeds what the client has numbered.
AcksBounded ==
    /\ next_in <= hist.next
    /\ hb # NoHeartbeat => hb < next_in
    /\ accept < next_in

\* Everything between the PTY stream and the PTY is below the watermark, in
\* order, and in order from one stage to the next.
PipelineOrdered ==
    /\ Increasing(applied)
    /\ Increasing(pty_in)
    /\ \A i \in DOMAIN applied : applied[i] < next_in
    /\ \A i \in DOMAIN pty_in : 0 < pty_in[i] /\ pty_in[i] < next_in
    /\ \A i \in DOMAIN applied, j \in DOMAIN pty_in : applied[i] < pty_in[j]
    /\ taken # NoChunk =>
         /\ taken < next_in
         /\ \A i \in DOMAIN applied : applied[i] < taken
         /\ \A i \in DOMAIN pty_in : pty_in[i] < taken

\* The newest number is recorded and not yet written to the connection.
Unwritten == task = "write"

\* The PTY stream carries numbers the server has not seen, in order.
WireOrdered ==
    /\ Increasing(wire)
    /\ \A i \in DOMAIN wire : next_in <= wire[i] /\ wire[i] < hist.next
    /\ attached /\ Unwritten =>
         /\ next_in < hist.next
         /\ \A i \in DOMAIN wire : wire[i] < hist.next - 1

\* What the server has not seen and the PTY stream skips was evicted, both
\* before the last chunk on the stream and up to the last number written.
WireComplete ==
    /\ \A i \in DOMAIN wire : \A s \in next_in .. wire[i] : s \in Elems(wire) \cup evicted
    /\ attached /\ client = "up" =>
         \A s \in next_in .. (hist.next - 1) :
            \/ s \in Elems(wire) \cup evicted
            \/ Unwritten /\ s = hist.next - 1

IInv ==
    /\ TypeOK
    /\ Phases
    /\ AcksBounded
    /\ PipelineOrdered
    /\ WireOrdered
    /\ WireComplete
    /\ TrimmedWasTaken
    /\ NothingSkipped
-----------------------------------------------------------------------------
(* Increasing sequences.                                                   *)

\* A larger number at the end keeps a sequence increasing.
LEMMA AppendIncreasing ==
    ASSUME NEW s \in Seq(Nat), NEW e \in Nat, Increasing(s),
           \A i \in DOMAIN s : s[i] < e
    PROVE  Increasing(Append(s, e))
  <1> DEFINE t == Append(s, e)
  <1>1. /\ DOMAIN t = 1 .. (Len(s) + 1) /\ DOMAIN s = 1 .. Len(s) /\ Len(s) \in Nat
        /\ \A i \in DOMAIN s : t[i] = s[i]
        /\ t[Len(s) + 1] = e
    BY AppendFacts, LenProperties
  <1> HIDE DEF t
  <1> SUFFICES ASSUME NEW i \in DOMAIN t, NEW j \in DOMAIN t, i < j
               PROVE  t[i] < t[j]
    BY DEF Increasing, t
  <1>2. i \in DOMAIN s
    BY <1>1
  <1>3. CASE j \in DOMAIN s
    BY <1>1, <1>2, <1>3 DEF Increasing
  <1>4. CASE j = Len(s) + 1
    BY <1>1, <1>2, <1>4
  <1> QED
    BY <1>1, <1>3, <1>4

\* An interval is an increasing sequence of exactly its numbers.
LEMMA IntervalFacts ==
    ASSUME NEW lo \in Nat, NEW top \in Nat, lo <= top
    PROVE  /\ Interval(lo, top - 1) \in Seq(Nat)
           /\ Increasing(Interval(lo, top - 1))
           /\ \A i \in DOMAIN Interval(lo, top - 1) :
                 lo <= Interval(lo, top - 1)[i] /\ Interval(lo, top - 1)[i] < top
           /\ Elems(Interval(lo, top - 1)) = lo .. (top - 1)
  <1>1. PICK n \in Nat : n = top - lo
    OBVIOUS
  <1>2. PICK r : r = [i \in 1 .. n |-> lo + i - 1]
    OBVIOUS
  <1>3. Interval(lo, top - 1) = r
    <2>1. top - 1 + 1 - lo = n
      BY <1>1
    <2> QED
      BY <1>2, <2>1 DEF Interval
  <1>4. DOMAIN r = 1 .. n
    BY <1>2
  <1>5. ASSUME NEW i \in 1 .. n PROVE r[i] = lo + i - 1 /\ r[i] \in Nat
    BY <1>2
  <1>6. r \in Seq(Nat)
    <2>1. \A i \in 1 .. n : lo + i - 1 \in Nat
      OBVIOUS
    <2> QED
      BY <1>2, <2>1, IsASeq
  <1>7. Increasing(r)
    BY <1>4, <1>5 DEF Increasing
  <1>8. \A i \in 1 .. n : lo <= r[i] /\ r[i] < top
    BY <1>1, <1>5
  <1>9. ASSUME NEW s \in lo .. (top - 1) PROVE s \in Elems(r)
    <2>1. s - lo + 1 \in 1 .. n
      BY <1>1
    <2>2. r[s - lo + 1] = s
      BY <1>5, <2>1
    <2> QED
      BY <2>1, <2>2, <1>4 DEF Elems
  <1>10. ASSUME NEW s \in Elems(r) PROVE s \in lo .. (top - 1)
    <2>1. PICK i \in 1 .. n : s = r[i]
      BY <1>4 DEF Elems
    <2> QED
      BY <2>1, <1>5, <1>8
  <1> QED
    BY <1>3, <1>4, <1>6, <1>7, <1>8, <1>9, <1>10

-----------------------------------------------------------------------------
(* The inductive invariant.                                                *)

USE DEF NoChunk, NoHeartbeat, attached

\* Nothing typed, numbered or connected: the invariant holds at the start.
LEMMA InitInv == Init => IInv
  <1> SUFFICES ASSUME Init PROVE IInv
    OBVIOUS
  <1>1. DOMAIN << >> = {} /\ << >> \in Seq(Nat) /\ Len(<< >>) = 0
    BY EmptySeq
  <1>2. TypeOK
    <2>1. NewWindow \in Window
      BY DEF NewWindow, Window
    <2>2. link \in {"live", "cut"}
      BY DEF Init
    <2>3. 0 <= StdinCap /\ 0 <= PtyInCap /\ 0 <= MaxConns
      BY StdinPathAssumption
    <2> QED
      BY <1>1, <2>1, <2>2, <2>3 DEF Init, TypeOK
  <1> QED
    BY <1>1, <1>2 DEF Init, IInv, Phases, AcksBounded, PipelineOrdered, WireOrdered,
       WireComplete, TrimmedWasTaken, NothingSkipped, Increasing, NewWindow, Unwritten

\* The steps that touch neither the numbers nor the sequences.
LEMMA ControlSteps ==
    ASSUME IInv, Type \/ Dequeue \/ ClientOpen \/ ClientDrop \/ PtyStreamArrives
    PROVE  IInv'
  <1>1. /\ UNCHANGED <<hist, accept, next_in, taken, pty_in, applied, wire, evicted, lost>>
        /\ hb' \in {hb, NoHeartbeat}
        /\ attached' => attached
        /\ task' = "write" => task = "write"
    BY DEF Type, Dequeue, ClientOpen, ClientDrop, PtyStreamArrives,
           clientVars, serverVars, linkVars
  <1>2. TypeOK'
    <2>1. link' \in {"live", "cut"}
      BY DEF IInv, TypeOK, Type, Dequeue, ClientOpen, ClientDrop,
         PtyStreamArrives, clientVars, serverVars, linkVars
    <2>2. /\ task' \in {"off", "recv", "lock", "write"}
          /\ client' \in {"down", "dialing", "opening", "up"}
          /\ handler' \in {"idle", "open", "up"}
      BY DEF IInv, TypeOK, Type, Dequeue, ClientOpen, ClientDrop,
         PtyStreamArrives, clientVars, serverVars, linkVars
    <2>3. /\ typed' \in Nat
          /\ stdin_q' \in Nat /\ stdin_q' <= StdinCap
          /\ conns' \in Nat /\ conns' <= MaxConns
      <3>1. /\ typed \in Nat /\ stdin_q \in Nat /\ stdin_q <= StdinCap
            /\ conns \in Nat /\ conns <= MaxConns
        BY DEF IInv, TypeOK
      <3>2. /\ typed' \in {typed, typed + 1}
            /\ \/ stdin_q' = stdin_q
               \/ stdin_q' = stdin_q + 1 /\ stdin_q < StdinCap
               \/ stdin_q' = stdin_q - 1 /\ stdin_q > 0
            /\ \/ conns' = conns
               \/ conns' = conns + 1 /\ conns < MaxConns
        BY DEF Type, Dequeue, ClientOpen, ClientDrop, PtyStreamArrives,
           clientVars, serverVars, linkVars
      <3> QED
        BY <3>1, <3>2, StdinPathAssumption
    <2> QED
      BY <1>1, <2>1, <2>2, <2>3 DEF IInv, TypeOK
  <1>3. Phases'
    <2>1. CASE Type
      BY <2>1 DEF IInv, Phases, Type, serverVars, linkVars
    <2>2. CASE Dequeue
      BY <2>2 DEF IInv, Phases, Dequeue, serverVars, linkVars
    <2>3. CASE ClientOpen
      BY <2>3 DEF IInv, TypeOK, Phases, ClientOpen, serverVars, linkVars
    <2>4. CASE ClientDrop
      BY <2>4 DEF IInv, TypeOK, Phases, ClientDrop, serverVars
    <2>5. CASE PtyStreamArrives
      BY <2>5 DEF IInv, TypeOK, Phases, PtyStreamArrives, clientVars, linkVars
    <2> QED
      BY <2>1, <2>3, <2>4, <2>5, <2>2
  <1>4. AcksBounded' /\ PipelineOrdered' /\ WireOrdered' /\ TrimmedWasTaken' /\ NothingSkipped'
    BY <1>1 DEF IInv, AcksBounded, PipelineOrdered, WireOrdered, TrimmedWasTaken,
       NothingSkipped, Increasing, Elems, Unwritten
  <1>5. attached' /\ client' = "up" =>
            attached /\ client = "up" /\ (task = "write" => task' = "write")
    BY DEF IInv, TypeOK, Phases, Type, Dequeue, ClientOpen, ClientDrop,
       PtyStreamArrives, clientVars, serverVars, linkVars
  <1>6. WireComplete'
    BY <1>1, <1>5 DEF IInv, WireComplete, Elems, Unwritten
  <1> QED
    BY <1>2, <1>3, <1>4, <1>6 DEF IInv

\* stdin_task numbers its payload: the history gains the next number, and may
\* evict its oldest one, which the gap of the invariant then covers.
LEMMA RecordStep ==
    ASSUME IInv, Record
    PROVE  IInv'
  <1>1. /\ TypeOK /\ hist \in Window /\ HistoryCap \in Nat \ {0}
        /\ hist.first \in Nat /\ hist.next \in Nat /\ evicted \subseteq Nat /\ next_in \in Nat
        /\ client = "up" /\ task = "lock" /\ task' = "write"
    BY StdinPathAssumption DEF IInv, TypeOK, Phases, Window, Record
  <1>2. /\ hist' \in Window /\ hist'.next = hist.next + 1 /\ hist.first <= hist'.first
        /\ hist'.first \in Nat /\ hist'.next \in Nat
        /\ evicted' = evicted \cup (hist.first .. (hist'.first - 1))
    BY <1>1, RecordFacts DEF Record, Window
  <1>3. UNCHANGED <<typed, stdin_q, client, conns, handler, accept, next_in, taken, pty_in,
                    applied, lost, link, wire, hb>>
    BY DEF Record, serverVars, linkVars
  <1>4. TypeOK'
    <2>1. link' \in {"live", "cut"}
      BY <1>1, <1>3 DEF TypeOK
    <2>2. evicted' \subseteq Nat
      <3>1. \A s \in hist.first .. (hist'.first - 1) : s \in Nat
        BY <1>1, <1>2
      <3> QED
        BY <1>1, <1>2, <3>1
    <2>3. task' \in {"off", "recv", "lock", "write"}
      BY <1>1
    <2> HIDE DEF NoHeartbeat
    <2> QED
      BY <1>1, <1>2, <1>3, <2>1, <2>2, <2>3 DEF TypeOK
  <1>5. Phases'
    BY <1>1, <1>3 DEF IInv, Phases
  <1>6. AcksBounded' /\ PipelineOrdered'
    BY <1>1, <1>2, <1>3 DEF IInv, TypeOK, AcksBounded, PipelineOrdered, Increasing
  <1>7. WireOrdered'
    <2>1. Increasing(wire')
      BY <1>3 DEF IInv, WireOrdered, Increasing
    <2>2. /\ \A i \in DOMAIN wire : wire[i] \in Nat /\ next_in <= wire[i] /\ wire[i] < hist.next
          /\ next_in <= hist.next
      BY <1>1, ElementOfSeq, LenProperties DEF IInv, TypeOK, AcksBounded, WireOrdered
    <2> QED
      BY <1>1, <1>2, <1>3, <2>1, <2>2 DEF WireOrdered
  <1>8. WireComplete'
    <2>1. \A i \in DOMAIN wire : \A s \in next_in .. wire[i] : s \in Elems(wire) \cup evicted
      BY DEF IInv, WireComplete
    <2>2. attached => \A s \in next_in .. (hist.next - 1) : s \in Elems(wire) \cup evicted
      BY <1>1 DEF IInv, WireComplete, Unwritten
    <2>3. Elems(wire') = Elems(wire)
      BY <1>3 DEF Elems
    <2>4. attached => \A s \in next_in .. hist.next :
                        s \in Elems(wire) \cup evicted \/ s = hist.next
      BY <1>1, <2>2
    <2> QED
      BY <1>1, <1>2, <1>3, <2>1, <2>3, <2>4 DEF WireComplete, Unwritten
  <1>9. TrimmedWasTaken'
    <2> SUFFICES ASSUME NEW s \in 1 .. (hist'.first - 1) PROVE s < next_in \/ s \in evicted'
      BY <1>3 DEF TrimmedWasTaken
    <2>1. CASE s < hist.first
      BY <1>1, <1>2, <2>1 DEF IInv, TrimmedWasTaken
    <2>2. CASE ~(s < hist.first)
      BY <1>1, <1>2, <2>2
    <2> QED
      BY <2>1, <2>2
  <1>10. NothingSkipped'
    <2>1. Elems(applied') = Elems(applied) /\ Elems(pty_in') = Elems(pty_in)
      BY <1>3 DEF Elems
    <2> QED
      BY <1>2, <1>3, <2>1 DEF IInv, NothingSkipped
  <1> QED
    BY <1>4, <1>5, <1>6, <1>7, <1>8, <1>9, <1>10 DEF IInv

\* stdin_task writes the numbered payload behind everything on the stream.
LEMMA WriteStep ==
    ASSUME IInv, WriteChunk
    PROVE  IInv'
  <1>1. /\ TypeOK /\ hist.next \in Nat \ {0} /\ wire \in Seq(Nat) /\ next_in \in Nat
        /\ client = "up" /\ task = "write" /\ task' = "recv"
    BY DEF IInv, TypeOK, Phases, Window, WriteChunk
  <1>2. UNCHANGED <<typed, stdin_q, hist, client, conns, evicted, link, hb,
                    handler, accept, next_in, taken, pty_in, applied, lost>>
    BY DEF WriteChunk, serverVars
  <1>3. PICK n \in Nat : n = hist.next - 1
    BY <1>1
  <1>4. wire' = IF attached THEN Append(wire, n) ELSE wire
    BY <1>3 DEF WriteChunk
  <1>5. Phases' /\ AcksBounded' /\ PipelineOrdered' /\ TrimmedWasTaken' /\ NothingSkipped'
    BY <1>1, <1>2 DEF IInv, Phases, AcksBounded, PipelineOrdered, TrimmedWasTaken,
       NothingSkipped, Increasing, Elems
  <1>6. CASE attached
    <2>1. /\ wire' \in Seq(Nat) /\ DOMAIN wire' = 1 .. (Len(wire) + 1)
          /\ DOMAIN wire = 1 .. Len(wire) /\ Len(wire) \in Nat
          /\ \A i \in DOMAIN wire : wire'[i] = wire[i]
          /\ wire'[Len(wire) + 1] = n
          /\ Elems(wire') = Elems(wire) \cup {n}
      BY <1>1, <1>4, <1>6, AppendFacts, LenProperties
    <2>2. /\ next_in <= n
          /\ \A i \in DOMAIN wire : wire[i] \in Nat /\ wire[i] < n /\ next_in <= wire[i]
      BY <1>1, <1>3, <1>6, ElementOfSeq, LenProperties DEF IInv, WireOrdered, Unwritten
    <2>3. TypeOK'
      BY <1>1, <1>2, <2>1 DEF TypeOK
    <2>4. Increasing(wire)
      BY DEF IInv, WireOrdered
    <2>5. Increasing(wire')
      BY <2>1, <2>2, <2>4 DEF Increasing
    <2>6. \A i \in DOMAIN wire' : wire'[i] \in Nat /\ next_in <= wire'[i] /\ wire'[i] <= n
      BY <2>1, <2>2
    <2>7. WireOrdered'
      BY <1>1, <1>2, <1>3, <2>6, <2>5 DEF WireOrdered, Unwritten
    <2>8. \A s \in next_in .. n : s \in Elems(wire') \cup evicted
      BY <1>1, <1>3, <1>6, <2>1 DEF IInv, WireComplete, Unwritten
    <2>9. WireComplete'
      <3>1. \A i \in DOMAIN wire' : \A s \in next_in .. wire'[i] : s \in next_in .. n
        BY <1>1, <2>6
      <3> QED
        BY <1>2, <1>3, <2>8, <3>1 DEF WireComplete
    <2> QED
      BY <1>5, <2>3, <2>7, <2>9 DEF IInv
  <1>7. CASE ~attached
    <2>1. wire' = wire
      BY <1>4, <1>7
    <2>2. TypeOK'
      BY <1>1, <1>2, <2>1 DEF TypeOK
    <2>3. WireOrdered' /\ WireComplete'
      BY <1>2, <1>7, <2>1 DEF IInv, WireOrdered, WireComplete, Increasing, Elems
    <2> QED
      BY <1>5, <2>2, <2>3 DEF IInv
  <1> QED
    BY <1>6, <1>7

\* SessionAccept: the replay puts everything the server lacks and the history
\* still holds on the empty stream.
LEMMA AcceptedStep ==
    ASSUME IInv, ClientAccepted
    PROVE  IInv'
  <1>1. /\ TypeOK /\ hist \in Window /\ hist.first \in Nat /\ hist.next \in Nat
        /\ next_in \in Nat \ {0} /\ accept \in Nat
        /\ attached /\ client = "opening" /\ client' = "up" /\ task' = "recv"
        /\ handler = "open" /\ accept = next_in - 1 /\ wire = << >> /\ next_in <= hist.next
    BY DEF IInv, TypeOK, Phases, AcksBounded, Window, ClientAccepted
  <1>2. UNCHANGED <<typed, stdin_q, conns, evicted, link, hb,
                    handler, accept, next_in, taken, pty_in, applied, lost>>
    BY DEF ClientAccepted, serverVars
  <1>3. /\ hist' \in Window /\ hist'.next = hist.next
        /\ hist'.first \in Nat /\ hist'.next \in Nat
        /\ \A s \in Nat : s < hist'.first => s < hist.first \/ s <= accept
    BY <1>1, AckFacts DEF ClientAccepted, Window
  <1>4. PICK lo \in Nat : /\ lo = ReplayStart(hist', accept)
                          /\ accept < lo /\ lo <= hist.next
                          /\ lo = hist'.first \/ lo = accept + 1
    <2>1. accept < hist'.next
      BY <1>1, <1>3
    <2> QED
      BY <1>1, <1>3, <2>1, ReplayFacts
  <1>5. wire' = Interval(lo, hist.next - 1)
    <2>1. Interval(lo, hist.next - 1) \in Seq(Nat)
      BY <1>1, <1>4, IntervalFacts
    <2>2. << >> \o Interval(lo, hist.next - 1) = Interval(lo, hist.next - 1)
      BY <2>1, ConcatEmptySeq
    <2> QED
      BY <1>1, <1>4, <2>2 DEF ClientAccepted
  <1>6. /\ wire' \in Seq(Nat) /\ Increasing(wire')
        /\ \A i \in DOMAIN wire' : lo <= wire'[i] /\ wire'[i] < hist.next
        /\ Elems(wire') = lo .. (hist.next - 1)
    BY <1>1, <1>4, <1>5, IntervalFacts
  <1>7. TypeOK'
    BY <1>1, <1>2, <1>3, <1>6 DEF TypeOK
  <1>8. Phases'
    BY <1>1, <1>2 DEF IInv, Phases
  <1>9. AcksBounded' /\ PipelineOrdered'
    BY <1>1, <1>2, <1>3 DEF IInv, AcksBounded, PipelineOrdered, Increasing
  <1>10. WireOrdered'
    <2>1. \A i \in DOMAIN wire' : wire'[i] \in Nat
      BY <1>6, ElementOfSeq, LenProperties
    <2> QED
      BY <1>1, <1>2, <1>3, <1>4, <1>6, <2>1 DEF WireOrdered, Unwritten
  <1>11. \A s \in next_in .. (hist.next - 1) : s \in Elems(wire') \cup evicted
    <2> SUFFICES ASSUME NEW s \in next_in .. (hist.next - 1) PROVE s \in Elems(wire') \cup evicted
      OBVIOUS
    <2>1. CASE lo <= s
      BY <1>1, <1>4, <1>6, <2>1
    <2>2. CASE s < lo
      <3>1. s < hist.first
        BY <1>1, <1>3, <1>4, <2>2
      <3>2. s \in 1 .. (hist.first - 1)
        BY <1>1, <3>1
      <3> QED
        BY <1>1, <3>2 DEF IInv, TrimmedWasTaken
    <2> QED
      BY <1>1, <1>4, <2>1, <2>2
  <1>12. WireComplete'
    <2>1. \A i \in DOMAIN wire' : \A s \in next_in .. wire'[i] : s \in next_in .. (hist.next - 1)
      <3>1. \A i \in DOMAIN wire' : wire'[i] \in Nat
        BY <1>6, ElementOfSeq, LenProperties
      <3> QED
        BY <1>1, <1>6, <3>1
    <2> QED
      BY <1>2, <1>3, <1>11, <2>1 DEF WireComplete
  <1>13. TrimmedWasTaken'
    BY <1>1, <1>2, <1>3 DEF IInv, TrimmedWasTaken
  <1>14. NothingSkipped'
    BY <1>2 DEF IInv, NothingSkipped, Elems
  <1> QED
    BY <1>7, <1>8, <1>9, <1>10, <1>12, <1>13, <1>14 DEF IInv

\* A heartbeat carries an old watermark: trimming up to it is safe.
LEMMA HeartbeatStep ==
    ASSUME IInv, RecvHeartbeat
    PROVE  IInv'
  <1>1. /\ TypeOK /\ hist \in Window /\ hist.first \in Nat /\ hist.next \in Nat
        /\ next_in \in Nat /\ hb \in Nat /\ hb < next_in
    BY DEF IInv, TypeOK, AcksBounded, Window, RecvHeartbeat
  <1>2. UNCHANGED <<typed, stdin_q, task, client, conns, evicted, link, wire,
                    handler, accept, next_in, taken, pty_in, applied, lost>>
    BY DEF RecvHeartbeat, serverVars
  <1>3. /\ hist' \in Window /\ hist'.next = hist.next
        /\ hist'.first \in Nat /\ hist'.next \in Nat
        /\ \A s \in Nat : s < hist'.first => s < hist.first \/ s <= hb
        /\ hb' = NoHeartbeat
    BY <1>1, AckFacts DEF RecvHeartbeat, Window
  <1>4. TypeOK'
    BY <1>1, <1>2, <1>3 DEF TypeOK
  <1>5. TrimmedWasTaken'
    BY <1>1, <1>2, <1>3 DEF IInv, TrimmedWasTaken
  <1>6. Phases' /\ AcksBounded'
    BY <1>2, <1>3 DEF IInv, Phases, AcksBounded
  <1>7. PipelineOrdered' /\ WireOrdered' /\ WireComplete' /\ NothingSkipped'
    BY <1>2, <1>3 DEF IInv, PipelineOrdered, WireOrdered, WireComplete, NothingSkipped,
       Increasing, Elems, Unwritten
  <1> QED
    BY <1>4, <1>5, <1>6, <1>7 DEF IInv

\* A heartbeat takes the server's watermark of this moment with it.
LEMMA SendHeartbeatStep ==
    ASSUME IInv, SendHeartbeat
    PROVE  IInv'
  <1>1. UNCHANGED <<typed, stdin_q, task, hist, client, conns, evicted, link, wire,
                    handler, accept, next_in, taken, pty_in, applied, lost>>
    BY DEF SendHeartbeat, clientVars, serverVars
  <1>2. hb' \in Nat /\ hb' < next_in
    BY DEF IInv, TypeOK, SendHeartbeat
  <1>3. TypeOK'
    BY <1>1, <1>2 DEF IInv, TypeOK
  <1>4. Phases' /\ AcksBounded' /\ PipelineOrdered' /\ WireOrdered'
    BY <1>1, <1>2 DEF IInv, Phases, AcksBounded, PipelineOrdered, WireOrdered,
       Increasing, Unwritten
  <1>5. WireComplete' /\ NothingSkipped' /\ TrimmedWasTaken'
    BY <1>1 DEF IInv, WireComplete, NothingSkipped, TrimmedWasTaken, Elems, Unwritten
  <1> QED
    BY <1>3, <1>4, <1>5 DEF IInv

\* SessionAccept carries the final watermark: no reader task is left.
LEMMA SendAcceptStep ==
    ASSUME IInv, SendAccept
    PROVE  IInv'
  <1>1. /\ TypeOK /\ next_in \in Nat \ {0} /\ taken = NoChunk /\ task = "off"
        /\ client = "dialing" /\ wire' = << >>
    BY DEF IInv, TypeOK, Phases, SendAccept
  <1>2. UNCHANGED <<typed, stdin_q, task, hist, conns, evicted, hb,
                    next_in, taken, pty_in, applied, lost>>
    BY DEF SendAccept
  <1>3. /\ accept' = next_in - 1 /\ client' = "opening" /\ handler' = "open"
        /\ link' = "live"
    BY DEF SendAccept
  <1>4. DOMAIN wire' = {} /\ wire' \in Seq(Nat)
    BY <1>1, EmptySeq
  <1>5. TypeOK'
    BY <1>1, <1>2, <1>3, <1>4 DEF TypeOK
  <1>6. Phases' /\ AcksBounded'
    BY <1>1, <1>2, <1>3 DEF IInv, Phases, AcksBounded
  <1>7. PipelineOrdered' /\ TrimmedWasTaken' /\ NothingSkipped'
    BY <1>2 DEF IInv, PipelineOrdered, TrimmedWasTaken, NothingSkipped, Increasing, Elems
  <1>8. WireOrdered' /\ WireComplete'
    BY <1>1, <1>2, <1>3, <1>4 DEF WireOrdered, WireComplete, Increasing, Unwritten
  <1> QED
    BY <1>5, <1>6, <1>7, <1>8 DEF IInv

\* The watermark jumps over numbers that the stream skips: all evicted.
LEMMA ReadStep ==
    ASSUME IInv, ReadChunk
    PROVE  IInv'
  <1>1. /\ TypeOK /\ wire \in Seq(Nat) /\ wire # << >> /\ next_in \in Nat \ {0}
        /\ taken = NoChunk /\ handler = "up" /\ hist.next \in Nat
        /\ pty_in \in Seq(Nat) /\ applied \in Seq(Nat)
    BY DEF IInv, TypeOK, Window, ReadChunk
  <1>2. UNCHANGED <<typed, stdin_q, task, hist, client, conns, evicted, link, hb,
                    handler, accept, pty_in, applied, lost>>
    BY DEF ReadChunk, clientVars
  <1>3. PICK h \in Nat : /\ h = Head(wire) /\ h = wire[1] /\ 1 \in DOMAIN wire
                         /\ Elems(wire) = {h} \cup Elems(Tail(wire))
    BY <1>1, TailFacts
  <1>4. /\ Tail(wire) \in Seq(Nat)
        /\ \A i \in DOMAIN Tail(wire) : i + 1 \in DOMAIN wire /\ Tail(wire)[i] = wire[i + 1]
    BY <1>1, TailFacts
  <1>5. wire' = Tail(wire) /\ next_in' = h + 1 /\ taken' = h
    BY <1>3 DEF ReadChunk
  <1>6. next_in <= h /\ h < hist.next
    BY <1>3 DEF IInv, WireOrdered
  <1>7. \A i \in DOMAIN wire' : wire'[i] \in Nat /\ h < wire'[i] /\ wire'[i] < hist.next
    <2>1. \A i \in DOMAIN wire' : wire'[i] \in Nat /\ i \in Nat /\ i >= 1
      BY <1>4, <1>5, ElementOfSeq, LenProperties
    <2>2. \A i \in DOMAIN wire : 1 < i => wire[1] < wire[i]
      BY <1>3 DEF IInv, WireOrdered, Increasing
    <2>3. \A i \in DOMAIN wire' : wire[1] < wire[i + 1] /\ wire[i + 1] < hist.next
      BY <1>4, <1>5, <2>1, <2>2 DEF IInv, WireOrdered
    <2> QED
      BY <1>3, <1>4, <1>5, <2>1, <2>3
  <1>8. TypeOK'
    BY <1>1, <1>2, <1>4, <1>5 DEF TypeOK
  <1>9. Phases'
    BY <1>1, <1>2 DEF IInv, Phases
  <1>10. AcksBounded'
    <2>1. hb # NoHeartbeat => hb \in Nat
      BY <1>1 DEF TypeOK
    <2>2. accept \in Nat
      BY <1>1 DEF TypeOK
    <2> QED
      BY <1>1, <1>2, <1>5, <1>6, <2>1, <2>2 DEF IInv, AcksBounded
  <1>11. PipelineOrdered'
    <2>1. /\ \A i \in DOMAIN applied : applied[i] \in Nat
          /\ \A i \in DOMAIN pty_in : pty_in[i] \in Nat
      BY <1>1, ElementOfSeq, LenProperties
    <2>2. /\ \A i \in DOMAIN applied : applied[i] < h
          /\ \A i \in DOMAIN pty_in : pty_in[i] < h
      BY <1>1, <1>6, <2>1 DEF IInv, PipelineOrdered
    <2> QED
      BY <1>2, <1>5, <2>1, <2>2 DEF IInv, PipelineOrdered, Increasing
  <1>12. Increasing(wire')
    <2> SUFFICES ASSUME NEW i \in DOMAIN wire', NEW j \in DOMAIN wire', i < j
                 PROVE  wire'[i] < wire'[j]
      BY DEF Increasing
    <2>1. i \in Nat /\ j \in Nat /\ i + 1 < j + 1
      BY <1>4, <1>5, LenProperties
    <2> QED
      BY <1>4, <1>5, <2>1 DEF IInv, WireOrdered, Increasing
  <1>13. WireOrdered'
    <2>1. attached /\ task = "write" =>
             h < hist.next - 1 /\ \A i \in DOMAIN wire' : wire'[i] < hist.next - 1
      BY <1>3, <1>4, <1>5 DEF IInv, WireOrdered, Unwritten
    <2>2. \A i \in DOMAIN wire' : next_in' <= wire'[i] /\ wire'[i] < hist'.next
      BY <1>2, <1>5, <1>7
    <2>3. attached' /\ Unwritten' =>
             /\ next_in' < hist'.next
             /\ \A i \in DOMAIN wire' : wire'[i] < hist'.next - 1
      BY <1>1, <1>2, <1>5, <2>1 DEF Unwritten
    <2> QED
      BY <1>12, <2>2, <2>3 DEF WireOrdered
  <1>14. WireComplete'
    <2>1. \A i \in DOMAIN wire' : \A s \in (h + 1) .. wire'[i] : s \in Elems(wire') \cup evicted
      <3> SUFFICES ASSUME NEW i \in DOMAIN wire', NEW s \in (h + 1) .. wire'[i]
                   PROVE  s \in Elems(wire') \cup evicted
        OBVIOUS
      <3>1. s \in next_in .. wire[i + 1] /\ i + 1 \in DOMAIN wire /\ s # h
        BY <1>1, <1>4, <1>5, <1>6, <1>7
      <3>2. s \in Elems(wire) \cup evicted
        BY <3>1 DEF IInv, WireComplete
      <3> QED
        BY <1>3, <1>5, <3>1, <3>2
    <2>2. ASSUME attached, client = "up", NEW s \in (h + 1) .. (hist.next - 1)
          PROVE  s \in Elems(wire') \cup evicted \/ (Unwritten /\ s = hist.next - 1)
      <3>1. s \in next_in .. (hist.next - 1) /\ s # h
        BY <1>1, <1>6
      <3>2. s \in Elems(wire) \cup evicted \/ (Unwritten /\ s = hist.next - 1)
        BY <2>2, <3>1 DEF IInv, WireComplete
      <3> QED
        BY <1>3, <1>5, <3>1, <3>2
    <2> QED
      BY <1>2, <1>5, <2>1, <2>2 DEF WireComplete, Unwritten
  <1>15. TrimmedWasTaken'
    <2>1. hist.first \in Nat
      BY <1>1 DEF TypeOK, Window
    <2> QED
      BY <1>1, <1>2, <1>5, <1>6, <2>1 DEF IInv, TrimmedWasTaken
  <1>16. NothingSkipped'
    <2> SUFFICES ASSUME NEW s \in 1 .. h
                 PROVE  s \in Elems(applied) \cup Elems(pty_in) \cup {h} \cup evicted \cup lost
      BY <1>2, <1>5 DEF NothingSkipped, Elems
    <2>1. CASE s < next_in
      <3>1. s \in 1 .. (next_in - 1) /\ s # 0
        BY <1>1, <2>1
      <3> QED
        BY <1>1, <3>1 DEF IInv, NothingSkipped
    <2>2. CASE ~(s < next_in)
      <3>1. s \in next_in .. wire[1]
        BY <1>1, <1>3, <2>2
      <3>2. s \in Elems(wire) \cup evicted
        BY <1>3, <3>1 DEF IInv, WireComplete
      <3>3. ASSUME s \in Elems(Tail(wire)) PROVE FALSE
        <4>1. PICK i \in DOMAIN wire' : s = wire'[i]
          BY <1>5, <3>3 DEF Elems
        <4> QED
          BY <1>7, <4>1
      <3> QED
        BY <1>3, <3>2, <3>3
    <2> QED
      BY <2>1, <2>2
  <1> QED
    BY <1>8, <1>9, <1>10, <1>11, <1>13, <1>14, <1>15, <1>16 DEF IInv

\* The two steps behind the watermark keep the order of the pipeline.
LEMMA HandOverStep ==
    ASSUME IInv, HandOver
    PROVE  IInv'
  <1>1. /\ TypeOK /\ taken \in Nat /\ taken # NoChunk /\ pty_in \in Seq(Nat)
        /\ applied \in Seq(Nat) /\ next_in \in Nat
    BY DEF IInv, TypeOK, HandOver
  <1>2. UNCHANGED <<typed, stdin_q, task, hist, client, conns, evicted, link, wire, hb,
                    handler, accept, next_in, applied, lost>>
    BY DEF HandOver, clientVars, linkVars
  <1>3. pty_in' = Append(pty_in, taken) /\ taken' = NoChunk /\ Len(pty_in) < PtyInCap
    BY DEF HandOver
  <1>4. /\ pty_in' \in Seq(Nat) /\ Len(pty_in') = Len(pty_in) + 1
        /\ DOMAIN pty_in' = 1 .. (Len(pty_in) + 1)
        /\ DOMAIN pty_in = 1 .. Len(pty_in) /\ Len(pty_in) \in Nat
        /\ \A i \in DOMAIN pty_in : pty_in'[i] = pty_in[i]
        /\ pty_in'[Len(pty_in) + 1] = taken
        /\ Elems(pty_in') = Elems(pty_in) \cup {taken}
    BY <1>1, <1>3, AppendFacts, LenProperties
  <1>5. TypeOK'
    <2>1. Len(pty_in') <= PtyInCap
      BY <1>3, <1>4, StdinPathAssumption
    <2> QED
      BY <1>1, <1>2, <1>3, <1>4, <2>1 DEF TypeOK
  <1>6. Phases' /\ AcksBounded' /\ WireOrdered' /\ WireComplete' /\ TrimmedWasTaken'
    BY <1>2, <1>3 DEF IInv, Phases, AcksBounded, WireOrdered, WireComplete, TrimmedWasTaken,
       Increasing, Elems, Unwritten
  <1>7. PipelineOrdered'
    <2>1. /\ taken < next_in
          /\ \A i \in DOMAIN applied : applied[i] < taken
          /\ \A i \in DOMAIN pty_in : pty_in[i] < taken
      BY <1>1 DEF IInv, PipelineOrdered
    <2>2. Increasing(pty_in')
      BY <1>1, <1>3, <2>1, AppendIncreasing DEF IInv, PipelineOrdered
    <2>3. \A i \in DOMAIN pty_in : 0 < pty_in[i] /\ pty_in[i] < next_in
      BY DEF IInv, PipelineOrdered
    <2>4. 0 < taken
      BY <1>1
    <2>5. \A i \in DOMAIN pty_in' : i \in DOMAIN pty_in \/ i = Len(pty_in) + 1
      BY <1>4
    <2>6. /\ \A i \in DOMAIN pty_in' : 0 < pty_in'[i] /\ pty_in'[i] < next_in
          /\ \A i \in DOMAIN applied, j \in DOMAIN pty_in' : applied[i] < pty_in'[j]
      BY <1>4, <2>1, <2>3, <2>4, <2>5 DEF IInv, PipelineOrdered
    <2> QED
      BY <1>2, <1>3, <2>2, <2>6 DEF IInv, PipelineOrdered, Increasing
  <1>8. NothingSkipped'
    <2>1. Elems(applied') = Elems(applied)
      BY <1>2 DEF Elems
    <2> QED
      BY <1>2, <1>4, <2>1 DEF IInv, NothingSkipped
  <1> QED
    BY <1>5, <1>6, <1>7, <1>8 DEF IInv

\* The PTY writer thread types the head of its channel, the oldest number there.
LEMMA PtyWriteStep ==
    ASSUME IInv, PtyWrite
    PROVE  IInv'
  <1>1. /\ TypeOK /\ pty_in \in Seq(Nat) /\ pty_in # << >> /\ applied \in Seq(Nat)
        /\ next_in \in Nat /\ taken \in Nat /\ Len(pty_in) <= PtyInCap
    BY DEF IInv, TypeOK, PtyWrite
  <1>2. UNCHANGED <<typed, stdin_q, task, hist, client, conns, evicted, link, wire, hb,
                    handler, accept, next_in, taken, lost>>
    BY DEF PtyWrite, clientVars, linkVars
  <1>3. PICK h \in Nat : /\ h = Head(pty_in) /\ h = pty_in[1] /\ 1 \in DOMAIN pty_in
                         /\ Elems(pty_in) = {h} \cup Elems(Tail(pty_in))
    BY <1>1, TailFacts
  <1>4. /\ Tail(pty_in) \in Seq(Nat) /\ Len(Tail(pty_in)) = Len(pty_in) - 1
        /\ \A i \in DOMAIN Tail(pty_in) :
              i + 1 \in DOMAIN pty_in /\ Tail(pty_in)[i] = pty_in[i + 1]
        /\ Len(pty_in) \in Nat
        /\ \A i \in DOMAIN Tail(pty_in) : i \in Nat /\ 1 <= i
    BY <1>1, TailFacts, LenProperties
  <1>5. pty_in' = Tail(pty_in) /\ applied' = Append(applied, h)
    BY <1>3 DEF PtyWrite
  <1>6. /\ applied' \in Seq(Nat)
        /\ DOMAIN applied' = 1 .. (Len(applied) + 1)
        /\ DOMAIN applied = 1 .. Len(applied) /\ Len(applied) \in Nat
        /\ \A i \in DOMAIN applied : applied'[i] = applied[i]
        /\ applied'[Len(applied) + 1] = h
        /\ Elems(applied') = Elems(applied) \cup {h}
    BY <1>1, <1>5, AppendFacts, LenProperties
  <1>7. TypeOK'
    <2>1. Len(pty_in') <= PtyInCap
      BY <1>1, <1>4, <1>5, StdinPathAssumption
    <2> QED
      BY <1>1, <1>2, <1>4, <1>5, <1>6, <2>1 DEF TypeOK
  <1>8. Phases' /\ AcksBounded' /\ WireOrdered' /\ WireComplete' /\ TrimmedWasTaken'
    BY <1>2 DEF IInv, Phases, AcksBounded, WireOrdered, WireComplete, TrimmedWasTaken,
       Increasing, Elems, Unwritten
  <1>9. PipelineOrdered'
    <2>1. /\ h < next_in
          /\ \A i \in DOMAIN applied : applied[i] < h
          /\ taken # NoChunk => h < taken
      BY <1>3 DEF IInv, PipelineOrdered
    <2>2. Increasing(applied')
      BY <1>1, <1>5, <2>1, AppendIncreasing DEF IInv, PipelineOrdered
    <2>3. \A i \in DOMAIN pty_in' : h < pty_in'[i] /\ 0 < pty_in'[i] /\ pty_in'[i] < next_in
                                    /\ (taken # NoChunk => pty_in'[i] < taken)
      <3>1. Increasing(pty_in)
        BY DEF IInv, PipelineOrdered
      <3>2. \A i \in DOMAIN pty_in' : i + 1 \in DOMAIN pty_in /\ 1 < i + 1
        BY <1>4, <1>5
      <3>3. \A i \in DOMAIN pty_in' : h < pty_in'[i]
        BY <1>3, <1>4, <1>5, <3>1, <3>2 DEF Increasing
      <3>4. \A i \in DOMAIN pty_in : 0 < pty_in[i] /\ pty_in[i] < next_in
                                      /\ (taken # NoChunk => pty_in[i] < taken)
        BY DEF IInv, PipelineOrdered
      <3> QED
        BY <1>4, <1>5, <3>3, <3>4
    <2>4. Increasing(pty_in')
      <3> SUFFICES ASSUME NEW i \in DOMAIN pty_in', NEW j \in DOMAIN pty_in', i < j
                   PROVE  pty_in'[i] < pty_in'[j]
        BY DEF Increasing
      <3>1. i + 1 < j + 1
        BY <1>4, <1>5
      <3> QED
        BY <1>4, <1>5, <3>1 DEF IInv, PipelineOrdered, Increasing
    <2>5. \A i \in DOMAIN applied' : applied'[i] < next_in
                                     /\ (taken # NoChunk => applied'[i] < taken)
      BY <1>6, <2>1 DEF IInv, PipelineOrdered
    <2>6. \A i \in DOMAIN applied', j \in DOMAIN pty_in' : applied'[i] < pty_in'[j]
      <3>1. \A i \in DOMAIN applied, j \in DOMAIN pty_in' : applied[i] < pty_in'[j]
        BY <1>4, <1>5 DEF IInv, PipelineOrdered
      <3> QED
        BY <1>6, <2>3, <3>1
    <2>7. taken # NoChunk =>
             /\ taken < next_in
             /\ \A i \in DOMAIN applied' : applied'[i] < taken
             /\ \A i \in DOMAIN pty_in' : pty_in'[i] < taken
      BY <2>3, <2>5 DEF IInv, PipelineOrdered
    <2> QED
      BY <1>2, <2>2, <2>3, <2>4, <2>5, <2>6, <2>7 DEF PipelineOrdered
  <1>10. NothingSkipped'
    BY <1>2, <1>3, <1>5, <1>6 DEF IInv, NothingSkipped
  <1> QED
    BY <1>7, <1>8, <1>9, <1>10 DEF IInv

\* A chunk lost with the aborted reader task is accounted for.
LEMMA ServerDropStep ==
    ASSUME IInv, ServerDrop
    PROVE  IInv'
  <1>1. TypeOK /\ taken \in Nat
    BY DEF IInv, TypeOK
  <1>2. UNCHANGED <<typed, stdin_q, task, hist, client, conns, evicted, hb,
                    accept, next_in, pty_in, applied>>
    BY DEF ServerDrop, clientVars
  <1>3. /\ handler' = "idle" /\ link' = "cut" /\ wire' = << >> /\ taken' = NoChunk
        /\ lost' = lost \cup ({taken} \ {NoChunk})
    BY DEF ServerDrop
  <1>4. DOMAIN wire' = {} /\ wire' \in Seq(Nat)
    BY <1>3, EmptySeq
  <1>5. TypeOK'
    BY <1>1, <1>2, <1>3, <1>4 DEF TypeOK
  <1>6. Phases' /\ AcksBounded' /\ PipelineOrdered' /\ TrimmedWasTaken'
    BY <1>2, <1>3 DEF IInv, Phases, AcksBounded, PipelineOrdered, TrimmedWasTaken, Increasing
  <1>7. WireOrdered' /\ WireComplete'
    BY <1>3, <1>4 DEF WireOrdered, WireComplete, Increasing
  <1>8. NothingSkipped'
    <2>1. Elems(applied') = Elems(applied) /\ Elems(pty_in') = Elems(pty_in)
      BY <1>2 DEF Elems
    <2>2. \A s \in 1 .. (next_in - 1) : s # 0
      OBVIOUS
    <2> QED
      BY <1>2, <1>3, <2>1, <2>2 DEF IInv, NothingSkipped
  <1> QED
    BY <1>5, <1>6, <1>7, <1>8 DEF IInv
-----------------------------------------------------------------------------
(* The theorems.                                                           *)

\* Every step keeps the inductive invariant, one case per action.
LEMMA NextInv == IInv /\ [Next]_vars => IInv'
  <1> SUFFICES ASSUME IInv, [Next]_vars PROVE IInv'
    OBVIOUS
  <1>1. CASE UNCHANGED vars
    <2>1. UNCHANGED <<typed, stdin_q, task, hist, client, conns, handler, link, accept, wire,
                      next_in, taken, pty_in, applied, hb, evicted, lost>>
      BY <1>1 DEF vars, clientVars, serverVars, linkVars
    <2> QED
      BY <2>1 DEF IInv, TypeOK, Phases, AcksBounded, PipelineOrdered, WireOrdered,
         WireComplete, TrimmedWasTaken, NothingSkipped, Increasing, Elems, Unwritten
  <1>2. CASE Type \/ Dequeue \/ ClientOpen \/ ClientDrop \/ PtyStreamArrives
    BY <1>2, ControlSteps
  <1>3. CASE Record
    BY <1>3, RecordStep
  <1>4. CASE WriteChunk
    BY <1>4, WriteStep
  <1>5. CASE ClientAccepted
    BY <1>5, AcceptedStep
  <1>6. CASE RecvHeartbeat
    BY <1>6, HeartbeatStep
  <1>7. CASE SendAccept
    BY <1>7, SendAcceptStep
  <1>8. CASE ReadChunk
    BY <1>8, ReadStep
  <1>9. CASE HandOver
    BY <1>9, HandOverStep
  <1>10. CASE PtyWrite
    BY <1>10, PtyWriteStep
  <1>11. CASE SendHeartbeat
    BY <1>11, SendHeartbeatStep
  <1>12. CASE ServerDrop
    BY <1>12, ServerDropStep
  <1> QED
    BY <1>1, <1>2, <1>3, <1>4, <1>5, <1>6, <1>7, <1>8, <1>9, <1>10, <1>11, <1>12 DEF Next

\* The inductive invariant holds in every reachable state of the keystroke path.
THEOREM Invariance == Spec => []IInv
  BY InitInv, NextInv, PTL DEF Spec

\* Every state variable keeps its type, for every value of the constants.
THEOREM TypeCorrect == Spec => []TypeOK
  <1>1. IInv => TypeOK
    BY DEF IInv
  <1> QED
    BY <1>1, Invariance, PTL

\* Keystrokes reach the PTY in order and none of them twice.
THEOREM AtMostOnce == Spec => []TypedAtMostOnce
  <1>1. IInv => TypedAtMostOnce
    BY DEF IInv, PipelineOrdered, TypedAtMostOnce
  <1> QED
    BY <1>1, Invariance, PTL

\* The server's watermark passes nothing but what reached the PTY side, was
\* evicted from a full history or was lost with an aborted reader task.
THEOREM NoneSkipped == Spec => []NothingSkipped
  <1>1. IInv => NothingSkipped
    BY DEF IInv
  <1> QED
    BY <1>1, Invariance, PTL

\* The client discards only what the server has taken or its history cannot hold.
THEOREM TrimIsSafe == Spec => []TrimmedWasTaken
  <1>1. IInv => TrimmedWasTaken
    BY DEF IInv
  <1> QED
    BY <1>1, Invariance, PTL

\* The path implements the in-order, at-most-once stream: numbering a payload
\* sends it, the PTY writer thread delivers it, every other step is invisible.
THEOREM Refinement == Spec => ImplementsFifo
  <1>1. Init => Fifo!Init
    BY DEF Init, Fifo!Init, NewWindow
  <1>2. IInv /\ [Next]_vars => [Fifo!Next]_Fifo!vars
    <2> SUFFICES ASSUME IInv, [Next]_vars PROVE [Fifo!Next]_Fifo!vars
      OBVIOUS
    <2>1. hist \in Window /\ hist.next \in Nat \ {0} /\ HistoryCap \in Nat \ {0}
      BY StdinPathAssumption DEF IInv, TypeOK, Window
    <2>2. CASE Record
      <3>1. hist'.next = hist.next + 1 /\ applied' = applied
        BY <2>1, <2>2, RecordFacts DEF Record, serverVars
      <3> QED
        BY <2>1, <3>1 DEF Fifo!Next, Fifo!Send, Fifo!vars
    <2>3. CASE PtyWrite
      <3>1. /\ pty_in \in Seq(Nat) /\ pty_in # << >> /\ applied \in Seq(Nat)
            /\ next_in \in Nat /\ next_in <= hist.next
        BY <2>3 DEF IInv, TypeOK, AcksBounded, PtyWrite
      <3>2. PICK h \in Nat : h = Head(pty_in) /\ h = pty_in[1] /\ 1 \in DOMAIN pty_in
        BY <3>1, TailFacts
      <3>3. h <= hist.next - 1 /\ \A i \in DOMAIN applied : applied[i] < h
        BY <2>1, <3>1, <3>2 DEF IInv, PipelineOrdered
      <3>4. 1 <= h
        BY <3>2 DEF IInv, PipelineOrdered
      <3>5. h \in (Fifo!LastDelivered + 1) .. (hist.next - 1)
        <4>1. CASE applied = << >>
          BY <2>1, <3>3, <3>4, <4>1 DEF Fifo!LastDelivered
        <4>2. CASE applied # << >>
          <5>1. Len(applied) \in DOMAIN applied /\ applied[Len(applied)] \in Nat
            BY <3>1, <4>2, EmptySeq, LenProperties, ElementOfSeq
          <5> QED
            BY <2>1, <3>3, <4>2, <5>1 DEF Fifo!LastDelivered
        <4> QED
          BY <4>1, <4>2
      <3>6. applied' = Append(applied, h) /\ hist' = hist
        BY <2>3, <3>2 DEF PtyWrite, clientVars
      <3> QED
        BY <3>5, <3>6 DEF Fifo!Next, Fifo!Deliver
    <2>4. CASE ClientAccepted \/ RecvHeartbeat
      <3>1. PICK ack \in Nat : hist' = AcknowledgeUpTo(hist, ack)
        BY <2>4 DEF IInv, TypeOK, ClientAccepted, RecvHeartbeat
      <3>2. hist'.next = hist.next
        BY <2>1, <3>1, AckFacts
      <3>3. applied' = applied
        BY <2>4 DEF ClientAccepted, RecvHeartbeat, serverVars
      <3> QED
        BY <3>2, <3>3 DEF Fifo!vars
    <2>5. CASE \/ Type \/ Dequeue \/ WriteChunk \/ ClientOpen \/ ClientDrop \/ SendAccept
               \/ PtyStreamArrives \/ ReadChunk \/ HandOver \/ SendHeartbeat \/ ServerDrop
               \/ UNCHANGED vars
      <3>1. hist' = hist /\ applied' = applied
        BY <2>5 DEF Type, Dequeue, WriteChunk, ClientOpen, ClientDrop, SendAccept,
           PtyStreamArrives, ReadChunk, HandOver, SendHeartbeat, ServerDrop,
           vars, clientVars, serverVars, linkVars
      <3> QED
        BY <3>1 DEF Fifo!vars
    <2> QED
      BY <2>2, <2>3, <2>4, <2>5 DEF Next
  <1> QED
    BY <1>1, <1>2, Invariance, PTL DEF Spec, ImplementsFifo, Fifo!Spec
=============================================================================
