--------------------------- MODULE PtyOutputProofs ---------------------------
(***************************************************************************)
(* Proofs about PtyOutput, for every capacity and every number of chunks   *)
(* and connections: the server trims only what the client has received or  *)
(* a full history evicted, every gap in the output has a named cause, and  *)
(* output that meets no hazard is shown exactly.                           *)
(***************************************************************************)
EXTENDS PtyOutput, WindowLemmas

\* Which phases of the reader thread, the handler and the client go together.
Phases ==
    /\ reader = "send" => SlotFull
    /\ ~SlotFull => chan = <<>>
    /\ attached => handler # "idle" /\ client \in {"opening", "up"}
    /\ client \in {"down", "dialing"} => wire = <<>>

\* Watermarks, acknowledgements and everything queued stay below the next number
\* to be given out, and acknowledgements below the highest number received.
Bounds ==
    /\ next_in <= high /\ high <= hist.next
    /\ hb < high
    /\ reader # "read" => Current > 0
    /\ replays.lo > 0 /\ replays.hi < hist.next
    /\ \A i \in DOMAIN chan : 0 < chan[i] /\ chan[i] < hist.next
    /\ \A i \in DOMAIN wire : 0 < wire[i] /\ wire[i] < hist.next

\* The client has the chunk, will get it over this connection, or never.
Accounted(s) == s \in Shown \cup OnTheWay \cup Lost

\* The reader thread has recorded its chunk after the replay was computed, and
\* has not put it into the connection's channel yet.
Unsent == reader \in {"look", "send"} /\ Current > replays.hi

\* While a connection holds, it accounts for every chunk recorded.
ConnectionCovers ==
    attached => \A s \in 1 .. (hist.next - 1) : Accounted(s) \/ (Unsent /\ s = Current)

\* Whatever the client is yet to read, it will not make a gap that nothing
\* explains: this outlives the server's end of the connection.
WireCovers == \A i \in DOMAIN wire : \A s \in 1 .. wire[i] : Accounted(s)

\* No chunk has met a hazard.
Clean == \A c \in Hazards : hazard[c] = {}

\* The number behind everything the connection has queued.
QueueEnd == IF replays.lo <= replays.hi THEN replays.hi + 1
            ELSE next_in + Len(wire) + Len(chan)

\* Without a hazard, screen, stdout channel, PTY stream, server channel and
\* replays are consecutive runs of numbers, up to the chunk just recorded.
Screened ==
    /\ high = next_in
    /\ \A i \in DOMAIN screen : screen[i] = i
    /\ \A i \in DOMAIN stdout_q : stdout_q[i] = Len(screen) + i
    /\ Len(screen) + Len(stdout_q) = next_in - 1
    /\ \A i \in DOMAIN wire : wire[i] = next_in + i - 1

Queue ==
    /\ \A i \in DOMAIN chan : chan[i] = next_in + Len(wire) + i - 1
    /\ replays.lo <= replays.hi => replays.lo = next_in + Len(wire) + Len(chan)
    /\ QueueEnd = IF Unsent THEN Current ELSE hist.next

InOrder == Clean => Screened /\ (attached => Queue)

\* What is gone from the history lies below the watermark or was evicted.
TrimmedBelow == \A s \in 1 .. (hist.first - 1) : s < high \/ s \in hazard["evicted"]

IInv ==
    /\ TypeOK
    /\ Phases
    /\ Bounds
    /\ TrimmedBelow
    /\ LossExplained
    /\ ConnectionCovers
    /\ WireCovers
    /\ InOrder
-----------------------------------------------------------------------------
(* Hazards.                                                                *)

\* Marking adds chunks to one class and leaves the others alone.
LEMMA MarkFacts ==
    ASSUME hazard \in [Hazards -> SUBSET Nat], NEW class \in Hazards,
           NEW chunks \in SUBSET Nat, Mark(class, chunks)
    PROVE  /\ hazard' \in [Hazards -> SUBSET Nat]
           /\ hazard'[class] = hazard[class] \cup chunks
           /\ \A c \in Hazards : hazard[c] \subseteq hazard'[c]
  BY DEF Mark

\* Hazards are never taken back: what is lost stays lost, and an unblemished
\* state has unblemished predecessors only.
LEMMA HazardsGrow ==
    ASSUME hazard \in [Hazards -> SUBSET Nat], hazard' \in [Hazards -> SUBSET Nat],
           \A c \in Hazards : hazard[c] \subseteq hazard'[c]
    PROVE  /\ Lost \subseteq Lost'
           /\ Clean' => Clean
  <1>1. Losses \subseteq Hazards
    BY DEF Losses, Hazards
  <1>2. Lost \subseteq Lost'
    <2>1. ASSUME NEW s \in Lost PROVE s \in Lost'
      <3>1. PICK c \in Losses : s \in hazard[c]
        BY DEF Lost
      <3>2. s \in hazard'[c]
        BY <1>1, <3>1
      <3> QED
        BY <3>2 DEF Lost
    <2> QED
      BY <2>1
  <1>3. Clean' => Clean
    BY DEF Clean
  <1> QED
    BY <1>2, <1>3

\* A chunk that met one of the hazards that cost chunks is lost.
LEMMA MarkedIsLost ==
    ASSUME NEW c \in Losses
    PROVE  hazard[c] \subseteq Lost
  BY DEF Lost
-----------------------------------------------------------------------------
(* The inductive invariant.                                                *)

USE DEF NoHeartbeat, Current, SlotFull

\* Nothing recorded, sent or connected: the invariant holds at the start.
LEMMA InitInv == Init => IInv
  <1> SUFFICES ASSUME Init PROVE IInv
    OBVIOUS
  <1>1. DOMAIN << >> = {} /\ << >> \in Seq(Nat) /\ Len(<< >>) = 0
    BY EmptySeq
  <1>2. TypeOK
    <2>1. NewWindow \in Window
      BY DEF NewWindow, Window
    <2>2. 0 <= ChannelCap /\ 0 <= StdoutCap /\ 0 \in 0 .. MaxConns
      BY PtyOutputAssumption
    <2>3. [c \in Hazards |-> {}] \in [Hazards -> SUBSET Nat]
      OBVIOUS
    <2>4. [lo |-> 1, hi |-> 0] \in [lo : Nat, hi : Nat]
      OBVIOUS
    <2>5. attached \in BOOLEAN
      BY DEF Init
    <2>6. /\ hist = NewWindow /\ reader = "read" /\ handler = "idle" /\ client = "down"
          /\ replays = [lo |-> 1, hi |-> 0] /\ chan = <<>> /\ wire = <<>>
          /\ next_in = 1 /\ high = 1 /\ hb = NoHeartbeat
          /\ stdout_q = <<>> /\ screen = <<>> /\ conns = 0
          /\ hazard = [c \in Hazards |-> {}]
      BY DEF Init
    <2> QED
      BY <1>1, <2>1, <2>2, <2>3, <2>4, <2>5, <2>6 DEF TypeOK
  <1> QED
    BY <1>1, <1>2 DEF Init, IInv, Phases, Bounds, TrimmedBelow, LossExplained,
       ConnectionCovers, WireCovers, InOrder, Screened, NewWindow

\* The steps that move nothing.
LEMMA ControlSteps ==
    ASSUME IInv,
           \/ WriteAccept \/ FillSlot \/ PtyStreamArrives \/ PtySendFails
           \/ ClientOpen \/ ClientAccepted \/ SendHeartbeat
    PROVE  IInv'
  <1>1. TypeOK /\ conns \in 0 .. MaxConns /\ MaxConns \in Nat /\ next_in \in Nat \ {0}
    BY PtyOutputAssumption DEF IInv, TypeOK
  <1>2. /\ UNCHANGED <<hist, replays, wire, attached, next_in, high, stdout_q, screen, hazard>>
        /\ chan' = chan
    BY DEF IInv, Phases, WriteAccept, FillSlot, PtyStreamArrives, PtySendFails, ClientOpen,
       ClientAccepted, SendHeartbeat, serverVars, clientVars, linkVars
  <1>3. /\ hb' \in {hb, next_in - 1}
        /\ reader' = reader \/ (reader = "stale" /\ reader' = "read")
        /\ handler' \in {handler, "accepted", "slotted", "up"}
        /\ client' \in {client, "dialing", "up"}
        /\ conns' = conns \/ (conns < MaxConns /\ conns' = conns + 1)
    BY DEF WriteAccept, FillSlot, PtyStreamArrives, PtySendFails, ClientOpen,
       ClientAccepted, SendHeartbeat, serverVars, clientVars, linkVars
  <1>4. TypeOK'
    <2>1. conns' \in 0 .. MaxConns
      BY <1>1, <1>3
    <2>2. hb' \in Nat \cup {-1}
      BY <1>1, <1>3 DEF TypeOK
    <2> QED
      BY <1>1, <1>2, <1>3, <2>1, <2>2 DEF TypeOK
  <1>5. Phases'
    BY <1>2 DEF IInv, Phases, WriteAccept, FillSlot, PtyStreamArrives, PtySendFails, ClientOpen,
       ClientAccepted, SendHeartbeat, serverVars, clientVars, linkVars
  <1>6. Bounds'
    BY <1>1, <1>2, <1>3 DEF IInv, TypeOK, Bounds
  <1>7. TrimmedBelow'
    BY <1>2 DEF IInv, TrimmedBelow
  <1>8. Shown' = Shown /\ OnTheWay' = OnTheWay /\ Lost' = Lost /\ (Clean' <=> Clean)
    BY <1>2 DEF Shown, OnTheWay, Queued, Lost, Clean, Elems
  <1>9. Unsent <=> Unsent'
    BY <1>2, <1>3 DEF Unsent
  <1>10. LossExplained' /\ ConnectionCovers' /\ WireCovers'
    BY <1>2, <1>8, <1>9 DEF IInv, LossExplained, ConnectionCovers, WireCovers, Accounted
  <1>11. InOrder'
    BY <1>2, <1>8, <1>9 DEF IInv, InOrder, Screened, Queue, QueueEnd
  <1> QED
    BY <1>4, <1>5, <1>6, <1>7, <1>10, <1>11 DEF IInv

\* A chunk is recorded: the only number nobody has queued yet.  What a full
\* history evicts for it counts as lost.
LEMMA ReadStep ==
    ASSUME IInv, PtyRead
    PROVE  IInv'
  <1>1. /\ TypeOK /\ hist \in Window /\ HistoryCap \in Nat \ {0}
        /\ hist.first \in Nat \ {0} /\ hist.next \in Nat \ {0}
        /\ reader = "read" /\ reader' = "look" /\ high \in Nat /\ next_in \in Nat
        /\ replays.hi \in Nat /\ hb < high
    BY PtyOutputAssumption DEF IInv, TypeOK, Window, PtyRead, Bounds
  <1>2. /\ hist' \in Window /\ hist'.next = hist.next + 1 /\ hist.first <= hist'.first
        /\ hist'.first \in Nat
    BY <1>1, RecordFacts DEF PtyRead, Window
  <1>3. UNCHANGED <<handler, replays, chan, wire, attached, client, next_in, high, hb,
                    stdout_q, screen, conns>>
    BY DEF PtyRead, clientVars, linkVars
  <1>4. /\ hazard' \in [Hazards -> SUBSET Nat]
        /\ hazard'["evicted"] = hazard["evicted"] \cup (hist.first .. (hist'.first - 1))
        /\ \A c \in Hazards : hazard[c] \subseteq hazard'[c]
    <2>1. hist.first .. (hist'.first - 1) \in SUBSET Nat /\ "evicted" \in Hazards
      BY <1>1, <1>2 DEF Hazards
    <2> QED
      BY <1>1, <2>1, MarkFacts DEF PtyRead, TypeOK
  <1>5. Lost \subseteq Lost' /\ (Clean' => Clean)
    BY <1>1, <1>4, HazardsGrow DEF TypeOK
  <1>6. TypeOK'
    BY <1>1, <1>2, <1>3, <1>4 DEF TypeOK
  <1>7. Phases'
    BY <1>1, <1>3 DEF IInv, Phases
  <1>8. Bounds'
    <2>1. /\ \A i \in DOMAIN chan : chan[i] \in Nat
          /\ \A i \in DOMAIN wire : wire[i] \in Nat
      BY <1>1, ElementOfSeq, LenProperties DEF TypeOK
    <2> QED
      BY <1>1, <1>2, <1>3, <2>1 DEF IInv, Bounds
  <1>9. TrimmedBelow'
    <2> SUFFICES ASSUME NEW s \in 1 .. (hist'.first - 1)
                 PROVE  s < high \/ s \in hazard'["evicted"]
      BY <1>3 DEF TrimmedBelow
    <2>1. CASE s < hist.first
      BY <1>1, <1>2, <1>4, <2>1 DEF IInv, TrimmedBelow, Hazards
    <2>2. CASE ~(s < hist.first)
      BY <1>1, <1>2, <1>4, <2>2
    <2> QED
      BY <2>1, <2>2
  <1>10. \A s : Accounted(s) => Accounted(s)'
    BY <1>3, <1>5 DEF Accounted, Shown, OnTheWay, Queued, Elems
  <1>11. LossExplained' /\ WireCovers'
    BY <1>3, <1>10 DEF IInv, LossExplained, WireCovers, Accounted
  <1>12. Unsent' /\ ~Unsent
    BY <1>1, <1>2, <1>3 DEF IInv, Bounds, Unsent
  <1>13. ConnectionCovers'
    <2> SUFFICES ASSUME attached, NEW s \in 1 .. hist.next
                 PROVE  Accounted(s)' \/ (Unsent' /\ s = hist.next)
      BY <1>1, <1>2, <1>3 DEF ConnectionCovers
    <2>1. CASE s = hist.next
      BY <1>12, <2>1
    <2>2. CASE s # hist.next
      <3>1. s \in 1 .. (hist.next - 1)
        BY <1>1, <2>2
      <3> QED
        BY <1>10, <1>12, <3>1 DEF IInv, ConnectionCovers
    <2> QED
      BY <2>1, <2>2
  <1>14. InOrder'
    BY <1>1, <1>2, <1>3, <1>5, <1>12 DEF IInv, InOrder, Screened, Queue, QueueEnd
  <1> QED
    BY <1>6, <1>7, <1>8, <1>9, <1>11, <1>13, <1>14 DEF IInv

\* The reader thread looks at the slot: a chunk recorded after the replay was
\* computed is queued later, or lost to the window.
LEMMA LookStep ==
    ASSUME IInv, PtyLook
    PROVE  IInv'
  <1>1. /\ TypeOK /\ hist.next \in Nat \ {0} /\ reader = "look" /\ hist.next - 1 > 0
        /\ reader' \in {"send", "read"} /\ (reader' = "send" <=> SlotFull)
        /\ replays.hi \in Nat
    BY DEF IInv, TypeOK, Window, Bounds, PtyLook
  <1>2. UNCHANGED <<hist, handler, replays, chan, wire, attached, client, next_in, high, hb,
                    stdout_q, screen, conns>>
    BY DEF PtyLook, clientVars, linkVars
  <1>3. /\ hazard' \in [Hazards -> SUBSET Nat]
        /\ \A c \in Hazards : hazard[c] \subseteq hazard'[c]
        /\ handler \in {"collected", "accepted"} /\ hist.next - 1 > replays.hi
              => hist.next - 1 \in hazard'["windowed"]
    <2>1. {hist.next - 1} \in SUBSET Nat /\ "windowed" \in Hazards
      BY <1>1 DEF Hazards
    <2>2. CASE handler \in {"collected", "accepted"} /\ hist.next - 1 > replays.hi
      <3>1. Mark("windowed", {hist.next - 1})
        BY <2>2 DEF PtyLook
      <3> QED
        BY <1>1, <2>1, <3>1, MarkFacts DEF TypeOK
    <2>3. CASE ~(handler \in {"collected", "accepted"} /\ hist.next - 1 > replays.hi)
      BY <1>1, <2>3 DEF PtyLook, TypeOK
    <2> QED
      BY <2>2, <2>3
  <1>4. Lost \subseteq Lost' /\ (Clean' => Clean)
    BY <1>1, <1>3, HazardsGrow DEF TypeOK
  <1>5. TypeOK' /\ Phases' /\ Bounds'
    BY <1>1, <1>2, <1>3 DEF IInv, TypeOK, Phases, Bounds
  <1>6. TrimmedBelow'
    BY <1>2, <1>3 DEF IInv, TrimmedBelow, Hazards
  <1>7. \A s : Accounted(s) => Accounted(s)'
    BY <1>2, <1>4 DEF Accounted, Shown, OnTheWay, Queued, Elems
  <1>8. LossExplained' /\ WireCovers'
    BY <1>2, <1>7 DEF IInv, LossExplained, WireCovers, Accounted
  <1>9. attached => handler \in {"collected", "accepted"} \/ SlotFull
    BY <1>1 DEF IInv, TypeOK, Phases
  <1>10. ConnectionCovers'
    <2> SUFFICES ASSUME attached, Unsent, ~Unsent'
                 PROVE  Accounted(hist.next - 1)'
      BY <1>2, <1>7 DEF IInv, ConnectionCovers
    <2>1. hist.next - 1 \in hazard'["windowed"]
      BY <1>1, <1>2, <1>3, <1>9 DEF Unsent
    <2>2. hazard'["windowed"] \subseteq Lost'
      BY DEF Lost, Losses
    <2> QED
      BY <1>2, <2>1, <2>2 DEF Accounted
  <1>11. InOrder'
    <2> SUFFICES ASSUME Clean' PROVE Screened' /\ (attached' => Queue')
      BY DEF InOrder
    <2>1. Screened'
      BY <1>2, <1>4 DEF IInv, InOrder, Screened
    <2>2. ASSUME attached PROVE Unsent <=> Unsent'
      <3>1. hazard'["windowed"] = {}
        BY DEF Clean, Hazards
      <3> QED
        BY <1>1, <1>2, <1>3, <1>9, <2>2, <3>1 DEF Unsent
    <2> QED
      BY <1>2, <1>4, <2>1, <2>2 DEF IInv, InOrder, Queue, QueueEnd
  <1> QED
    BY <1>5, <1>6, <1>8, <1>10, <1>11 DEF IInv

\* A heartbeat trims at most up to the highest number received.
LEMMA HeartbeatStep ==
    ASSUME IInv, RecvHeartbeat
    PROVE  IInv'
  <1>1. /\ TypeOK /\ hist \in Window /\ hist.first \in Nat /\ hist.next \in Nat
        /\ hb \in Nat /\ hb < high /\ high \in Nat /\ hb' = NoHeartbeat
    BY DEF IInv, TypeOK, Window, Bounds, RecvHeartbeat
  <1>2. /\ hist' \in Window /\ hist'.next = hist.next /\ hist'.first \in Nat
        /\ \A s \in Nat : s < hist'.first => s < hist.first \/ s <= hb
    BY <1>1, AckFacts DEF RecvHeartbeat, Window
  <1>3. UNCHANGED <<reader, handler, replays, chan, wire, attached, client, next_in, high,
                    stdout_q, screen, conns, hazard>>
    BY DEF RecvHeartbeat, clientVars
  <1>4. TypeOK' /\ Phases' /\ Bounds'
    BY <1>1, <1>2, <1>3 DEF IInv, TypeOK, Phases, Bounds
  <1>5. TrimmedBelow'
    BY <1>1, <1>2, <1>3 DEF IInv, TrimmedBelow
  <1>6. Shown' = Shown /\ OnTheWay' = OnTheWay /\ Lost' = Lost /\ (Clean' <=> Clean)
    BY <1>3 DEF Shown, OnTheWay, Queued, Lost, Clean, Elems
  <1>7. Unsent <=> Unsent'
    BY <1>2, <1>3 DEF Unsent
  <1>8. LossExplained' /\ ConnectionCovers' /\ WireCovers'
    BY <1>2, <1>3, <1>6, <1>7 DEF IInv, LossExplained, ConnectionCovers, WireCovers, Accounted
  <1>9. InOrder'
    BY <1>2, <1>3, <1>6, <1>7 DEF IInv, InOrder, Screened, Queue, QueueEnd
  <1> QED
    BY <1>4, <1>5, <1>8, <1>9 DEF IInv

\* The reader thread's chunk goes to the end of the channel.
LEMMA SendStep ==
    ASSUME IInv, PtySend
    PROVE  IInv'
  <1>1. /\ TypeOK /\ hist.next \in Nat /\ hist.next - 1 \in Nat /\ hist.next - 1 > 0
        /\ chan \in Seq(Nat) /\ Len(chan) < ChannelCap /\ ChannelCap \in Nat
        /\ reader = "send" /\ reader' = "read" /\ SlotFull
        /\ replays.lo \in Nat /\ replays.hi \in Nat /\ wire \in Seq(Nat)
        /\ next_in \in Nat
    BY PtyOutputAssumption DEF IInv, TypeOK, Window, Bounds, Phases, PtySend
  <1>2. UNCHANGED <<hist, handler, replays, wire, attached, client, next_in, high, hb,
                    stdout_q, screen, conns>>
    BY DEF PtySend, clientVars, linkVars
  <1>3. PICK n \in Nat : n = hist.next - 1
    BY <1>1
  <1>4. /\ chan' = Append(chan, n) /\ chan' \in Seq(Nat) /\ Len(chan') = Len(chan) + 1
        /\ DOMAIN chan' = 1 .. (Len(chan) + 1)
        /\ DOMAIN chan = 1 .. Len(chan) /\ Len(chan) \in Nat /\ Len(wire) \in Nat
        /\ \A i \in DOMAIN chan : chan'[i] = chan[i]
        /\ chan'[Len(chan) + 1] = n
        /\ Elems(chan') = Elems(chan) \cup {n}
    <2>1. chan' = Append(chan, n)
      BY <1>3 DEF PtySend
    <2> QED
      BY <1>1, <2>1, AppendFacts, LenProperties
  <1>5. /\ hazard' \in [Hazards -> SUBSET Nat]
        /\ \A c \in Hazards : hazard[c] \subseteq hazard'[c]
        /\ replays.lo .. replays.hi \subseteq hazard'["ahead"]
        /\ {n} \cap (1 .. replays.hi) \subseteq hazard'["duplicate"]
    <2>1. replays.lo .. replays.hi \in SUBSET Nat /\ {n} \cap (1 .. replays.hi) \in SUBSET Nat
      BY <1>1
    <2>2. hazard' = [hazard EXCEPT
                       !["ahead"] = @ \cup (replays.lo .. replays.hi),
                       !["duplicate"] = @ \cup ({n} \cap (1 .. replays.hi))]
      BY <1>3 DEF PtySend
    <2>3. "ahead" \in Hazards /\ "duplicate" \in Hazards /\ hazard \in [Hazards -> SUBSET Nat]
      BY <1>1 DEF Hazards, TypeOK
    <2> QED
      BY <2>1, <2>2, <2>3
  <1>6. Lost \subseteq Lost' /\ (Clean' => Clean)
    BY <1>1, <1>5, HazardsGrow DEF TypeOK
  <1>7. TypeOK' /\ Phases'
    <2>1. Len(chan') <= ChannelCap
      BY <1>1, <1>4
    <2> QED
      BY <1>1, <1>2, <1>4, <1>5, <2>1 DEF IInv, TypeOK, Phases
  <1>8. Bounds'
    <2>1. \A i \in DOMAIN chan' : 0 < chan'[i] /\ chan'[i] < hist.next
      <3>1. \A i \in DOMAIN chan' : i \in DOMAIN chan \/ i = Len(chan) + 1
        BY <1>4
      <3>2. \A i \in DOMAIN chan : 0 < chan[i] /\ chan[i] < hist.next
        BY DEF IInv, Bounds
      <3> QED
        BY <1>1, <1>3, <1>4, <3>1, <3>2
    <2> QED
      BY <1>1, <1>2, <2>1 DEF IInv, Bounds
  <1>9. TrimmedBelow'
    BY <1>2, <1>5 DEF IInv, TrimmedBelow, Hazards
  <1>10. \A s : Accounted(s) => Accounted(s)'
    <2>1. Shown' = Shown /\ Elems(wire') = Elems(wire)
      BY <1>2 DEF Shown, Elems
    <2>2. Queued \subseteq Queued'
      BY <1>2, <1>4 DEF Queued
    <2> QED
      BY <1>2, <1>6, <2>1, <2>2 DEF Accounted, OnTheWay
  <1>11. LossExplained' /\ WireCovers'
    BY <1>2, <1>10 DEF IInv, LossExplained, WireCovers, Accounted
  <1>12. ConnectionCovers'
    <2> SUFFICES ASSUME attached PROVE Accounted(n)'
      BY <1>2, <1>3, <1>10 DEF IInv, ConnectionCovers
    <2> QED
      BY <1>2, <1>4 DEF Accounted, OnTheWay, Queued
  <1>13. InOrder'
    <2> SUFFICES ASSUME Clean' PROVE Screened' /\ (attached' => Queue')
      BY DEF InOrder
    <2>1. Screened'
      BY <1>2, <1>6 DEF IInv, InOrder, Screened
    <2>2. hazard'["ahead"] = {} /\ hazard'["duplicate"] = {}
      BY DEF Clean, Hazards
    <2>3. ~(replays.lo <= replays.hi)
      <3>1. replays.lo <= replays.hi => replays.lo \in replays.lo .. replays.hi
        BY <1>1
      <3> QED
        BY <1>5, <2>2, <3>1
    <2>4. n > replays.hi
      <3>1. n <= replays.hi => n \in {n} \cap (1 .. replays.hi)
        BY <1>1, <1>3
      <3> QED
        BY <1>1, <1>5, <2>2, <3>1
    <2>5. ASSUME attached PROVE Queue'
      <3>1. Queue /\ Unsent
        BY <1>1, <1>3, <1>6, <2>4, <2>5 DEF IInv, InOrder, Unsent
      <3>2. next_in + Len(wire) + Len(chan) = n
        BY <1>3, <2>3, <3>1 DEF Queue, QueueEnd
      <3>3. \A i \in DOMAIN chan : chan[i] = next_in + Len(wire) + i - 1
        BY <3>1 DEF Queue
      <3>4. \A i \in DOMAIN chan' : chan'[i] = next_in + Len(wire) + i - 1
        <4>1. \A i \in DOMAIN chan' : i \in DOMAIN chan \/ i = Len(chan) + 1
          BY <1>4
        <4>2. n = next_in + Len(wire) + (Len(chan) + 1) - 1
          BY <1>1, <1>4, <3>2
        <4> QED
          BY <1>4, <3>3, <4>1, <4>2
      <3>5. next_in + Len(wire) + Len(chan') = hist.next
        BY <1>1, <1>3, <1>4, <3>2
      <3>6. ~Unsent'
        BY <1>1 DEF Unsent
      <3> QED
        BY <1>2, <2>3, <3>4, <3>5, <3>6 DEF Queue, QueueEnd
    <2> QED
      BY <1>2, <2>1, <2>5
  <1> QED
    BY <1>7, <1>8, <1>9, <1>11, <1>12, <1>13 DEF IInv

\* The replays lose their first number.
LEMMA ReplaysAdvance ==
    ASSUME NEW r \in [lo : Nat, hi : Nat]
    PROVE  /\ [r EXCEPT !.lo = @ + 1] \in [lo : Nat, hi : Nat]
           /\ [r EXCEPT !.lo = @ + 1].lo = r.lo + 1
           /\ [r EXCEPT !.lo = @ + 1].hi = r.hi
  OBVIOUS

\* A replay moves from the list to the channel, or overflows it.
LEMMA QueueStep ==
    ASSUME IInv, QueueReplay
    PROVE  IInv'
  <1>1. /\ TypeOK /\ hist.next \in Nat /\ chan \in Seq(Nat) /\ ChannelCap \in Nat
        /\ handler = "slotted" /\ replays \in [lo : Nat, hi : Nat]
        /\ replays.lo \in Nat /\ replays.hi \in Nat /\ replays.lo <= replays.hi
        /\ replays.lo > 0 /\ replays.hi < hist.next
        /\ wire \in Seq(Nat) /\ next_in \in Nat
    BY PtyOutputAssumption DEF IInv, TypeOK, Window, Bounds, QueueReplay
  <1>2. /\ UNCHANGED <<hist, reader, handler, wire, attached, client, next_in, high, hb,
                       stdout_q, screen, conns>>
        /\ replays' = [replays EXCEPT !.lo = @ + 1]
    BY DEF QueueReplay, clientVars, linkVars
  <1>3. PICK n \in Nat : n = replays.lo
    BY <1>1
  <1>4. /\ replays' \in [lo : Nat, hi : Nat] /\ replays'.lo = n + 1 /\ replays'.hi = replays.hi
        /\ replays.lo .. replays.hi = {n} \cup (replays'.lo .. replays'.hi)
    <2>1. replays' \in [lo : Nat, hi : Nat] /\ replays'.lo = n + 1 /\ replays'.hi = replays.hi
      BY <1>1, <1>2, <1>3, ReplaysAdvance
    <2>2. n .. replays.hi = {n} \cup ((n + 1) .. replays.hi)
      BY <1>1, <1>3
    <2> QED
      BY <1>3, <2>1, <2>2
  <1>5. /\ DOMAIN chan = 1 .. Len(chan) /\ Len(chan) \in Nat /\ Len(wire) \in Nat
        /\ \A i \in DOMAIN chan : 0 < chan[i] /\ chan[i] < hist.next
    BY <1>1, LenProperties DEF IInv, Bounds
  <1>6. Unsent' <=> Unsent
    BY <1>2, <1>4 DEF Unsent
  <1>7. CASE Len(chan) < ChannelCap
    <2>1. chan' = Append(chan, n) /\ UNCHANGED hazard
      BY <1>3, <1>7 DEF QueueReplay
    <2>2. /\ chan' \in Seq(Nat) /\ Len(chan') = Len(chan) + 1
          /\ DOMAIN chan' = 1 .. (Len(chan) + 1)
          /\ \A i \in DOMAIN chan : chan'[i] = chan[i]
          /\ chan'[Len(chan) + 1] = n
          /\ Elems(chan') = Elems(chan) \cup {n}
      BY <1>1, <2>1, AppendFacts
    <2>3. \A i \in DOMAIN chan' : i \in DOMAIN chan \/ i = Len(chan) + 1
      BY <1>5, <2>2
    <2>4. TypeOK' /\ Phases'
      <3>1. Len(chan') <= ChannelCap
        BY <1>1, <1>5, <1>7, <2>2
      <3>2. TypeOK'
        BY <1>1, <1>2, <1>4, <2>1, <2>2, <3>1 DEF TypeOK
      <3> QED
        BY <1>1, <1>2, <3>2 DEF IInv, Phases
    <2>5. Bounds'
      <3>1. \A i \in DOMAIN chan' : 0 < chan'[i] /\ chan'[i] < hist.next
        <4>1. 0 < n /\ n < hist.next
          BY <1>1, <1>3
        <4>2. ASSUME NEW i \in DOMAIN chan'
              PROVE  chan'[i] = n \/ \E j \in DOMAIN chan : chan'[i] = chan[j]
          BY <2>2, <2>3
        <4> QED
          BY <1>5, <4>1, <4>2
      <3> QED
        BY <1>1, <1>2, <1>3, <1>4, <3>1 DEF IInv, Bounds
    <2>6. Shown' = Shown /\ OnTheWay' = OnTheWay /\ Lost' = Lost /\ (Clean' <=> Clean)
      <3>1. Queued' = Queued
        BY <1>4, <2>2 DEF Queued
      <3> QED
        BY <1>2, <2>1, <3>1 DEF Shown, OnTheWay, Lost, Clean, Elems
    <2>7. TrimmedBelow' /\ LossExplained' /\ ConnectionCovers' /\ WireCovers'
      BY <1>2, <1>6, <2>1, <2>6 DEF IInv, TrimmedBelow, LossExplained, ConnectionCovers,
         WireCovers, Accounted
    <2>8. InOrder'
      <3> SUFFICES ASSUME Clean PROVE Screened' /\ (attached => Queue')
        BY <1>2, <2>6 DEF InOrder
      <3>1. Screened'
        BY <1>2 DEF IInv, InOrder, Screened
      <3>2. ASSUME attached PROVE Queue'
        <4>1. Queue
          BY <3>2 DEF IInv, InOrder
        <4>2. n = next_in + Len(wire) + Len(chan)
          BY <1>1, <1>3, <4>1 DEF Queue
        <4>3. \A i \in DOMAIN chan' : chan'[i] = next_in + Len(wire) + i - 1
          <5>1. n = next_in + Len(wire) + (Len(chan) + 1) - 1
            BY <1>1, <1>5, <4>2
          <5> QED
            BY <2>2, <2>3, <4>1, <5>1 DEF Queue
        <4>4. n + 1 = next_in + Len(wire) + Len(chan')
          BY <1>1, <1>5, <2>2, <4>2
        <4>5. QueueEnd' = QueueEnd
          <5>1. QueueEnd = replays.hi + 1
            BY <1>1 DEF QueueEnd
          <5>2. CASE n + 1 <= replays.hi
            BY <1>4, <5>1, <5>2 DEF QueueEnd
          <5>3. CASE ~(n + 1 <= replays.hi)
            <6>1. replays.hi = n
              BY <1>1, <1>3, <5>3
            <6> QED
              BY <1>2, <1>4, <4>4, <5>1, <5>3, <6>1 DEF QueueEnd
          <5> QED
            BY <5>2, <5>3
        <4> QED
          BY <1>2, <1>4, <1>6, <4>1, <4>3, <4>4, <4>5 DEF Queue
      <3> QED
        BY <3>1, <3>2
    <2> QED
      BY <2>4, <2>5, <2>7, <2>8 DEF IInv
  <1>8. CASE ~(Len(chan) < ChannelCap)
    <2>1. Mark("overflow", {n}) /\ chan' = chan
      BY <1>3, <1>8 DEF QueueReplay
    <2>2. /\ hazard' \in [Hazards -> SUBSET Nat]
          /\ n \in hazard'["overflow"]
          /\ \A c \in Hazards : hazard[c] \subseteq hazard'[c]
      <3>1. {n} \in SUBSET Nat /\ "overflow" \in Hazards
        BY DEF Hazards
      <3> QED
        BY <1>1, <2>1, <3>1, MarkFacts DEF TypeOK
    <2>3. Lost \subseteq Lost' /\ (Clean' => Clean)
      BY <1>1, <2>2, HazardsGrow DEF TypeOK
    <2>4. TypeOK' /\ Phases' /\ Bounds'
      BY <1>1, <1>2, <1>3, <1>4, <2>1, <2>2 DEF IInv, TypeOK, Phases, Bounds
    <2>5. n \in Lost'
      BY <2>2 DEF Lost, Losses
    <2>6. \A s : Accounted(s) => Accounted(s)'
      <3>1. Shown' = Shown /\ Elems(wire') = Elems(wire) /\ Elems(chan') = Elems(chan)
        BY <1>2, <2>1 DEF Shown, Elems
      <3>2. Queued \subseteq Queued' \cup {n}
        BY <1>4, <3>1 DEF Queued
      <3> QED
        BY <1>2, <2>3, <2>5, <3>1, <3>2 DEF Accounted, OnTheWay
    <2>7. TrimmedBelow'
      BY <1>2, <2>2 DEF IInv, TrimmedBelow, Hazards
    <2>8. LossExplained' /\ ConnectionCovers' /\ WireCovers'
      BY <1>2, <1>6, <2>6 DEF IInv, LossExplained, ConnectionCovers, WireCovers, Accounted
    <2>9. ~Clean'
      BY <2>2 DEF Clean, Hazards
    <2> QED
      BY <2>4, <2>7, <2>8, <2>9 DEF IInv, InOrder
  <1> QED
    BY <1>7, <1>8

\* The replay takes up everything recorded from the client's watermark on; what
\* lies below it the client has received, or a full history had evicted it.
LEMMA CollectStep ==
    ASSUME IInv, CollectReplays
    PROVE  IInv'
  <1>1. /\ TypeOK /\ hist \in Window /\ hist.next \in Nat \ {0}
        /\ next_in \in Nat \ {0} /\ high \in Nat /\ next_in <= high /\ high <= hist.next
        /\ handler = "idle" /\ client = "dialing" /\ hb < high /\ hb \in Nat \cup {-1}
    BY DEF IInv, TypeOK, Window, Bounds, CollectReplays
  <1>2. ~attached /\ wire = <<>> /\ chan = <<>> /\ reader # "send"
    BY <1>1 DEF IInv, Phases
  <1>3. /\ UNCHANGED <<reader, chan, wire, hb, next_in, high, stdout_q, screen, conns, hazard>>
        /\ handler' = "collected" /\ client' = "opening"
    BY DEF CollectReplays
  <1>4. attached'
    BY DEF CollectReplays
  <1>5. PICK ack \in Nat : ack = next_in - 1 /\ ack < hist.next
    BY <1>1
  <1>6. /\ hist' \in Window /\ hist'.next = hist.next /\ hist'.first \in Nat
        /\ \A s \in Nat : s < hist'.first => s < hist.first \/ s < next_in
    <2>1. hist' = AcknowledgeUpTo(hist, ack)
      BY <1>5 DEF CollectReplays
    <2>2. /\ hist' \in Window /\ hist'.next = hist.next
          /\ \A s \in Nat : s < hist'.first => s < hist.first \/ s <= ack
      BY <1>1, <2>1, AckFacts
    <2>3. hist'.first \in Nat
      BY <2>2 DEF Window
    <2>4. \A s \in Nat : s <= ack => s < next_in
      BY <1>1, <1>5
    <2> QED
      BY <2>2, <2>3, <2>4
  <1>7. /\ replays' \in [lo : Nat, hi : Nat] /\ replays'.hi = hist.next - 1
        /\ replays'.lo \in Nat /\ next_in <= replays'.lo /\ replays'.lo <= hist.next
        /\ replays'.lo = hist'.first \/ replays'.lo = next_in
    <2>1. PICK lo : lo = ReplayStart(hist', ack)
      OBVIOUS
    <2>2. replays' = [lo |-> lo, hi |-> hist.next - 1]
      BY <1>5, <2>1 DEF CollectReplays
    <2>3. /\ lo \in Nat /\ ack < lo /\ lo <= hist.next
          /\ lo = hist'.first \/ lo = next_in
      BY <1>1, <1>5, <1>6, <2>1, ReplayFacts
    <2>4. replays'.lo = lo /\ replays'.hi = hist.next - 1
      BY <2>2
    <2>5. hist.next - 1 \in Nat
      BY <1>1
    <2> QED
      BY <1>1, <1>5, <2>2, <2>3, <2>4, <2>5
  <1>8. DOMAIN << >> = {} /\ Len(<< >>) = 0 /\ Elems(<< >>) = {}
    BY EmptySeq DEF Elems
  <1>9. TypeOK'
    <2>1. attached' \in BOOLEAN
      BY <1>4
    <2> QED
      BY <1>1, <1>3, <1>6, <1>7, <2>1 DEF TypeOK
  <1>10. Phases'
    BY <1>2, <1>3 DEF Phases
  <1>11. Bounds'
    BY <1>1, <1>2, <1>3, <1>6, <1>7, <1>8 DEF IInv, Bounds
  <1>12. TrimmedBelow'
    <2> SUFFICES ASSUME NEW s \in 1 .. (hist'.first - 1)
                 PROVE  s < high \/ s \in hazard["evicted"]
      BY <1>3 DEF TrimmedBelow
    <2>1. s \in Nat /\ s < hist'.first /\ (s < hist.first \/ s < next_in)
      BY <1>6
    <2>2. CASE s < hist.first
      BY <1>1, <2>1, <2>2 DEF IInv, TrimmedBelow, Window
    <2>3. CASE s < next_in
      BY <1>1, <2>1, <2>3
    <2> QED
      BY <2>1, <2>2, <2>3
  <1>13. Shown' = Shown /\ Lost' = Lost /\ OnTheWay = {} /\ OnTheWay' = Queued'
    BY <1>2, <1>3, <1>4, <1>8 DEF Shown, Lost, OnTheWay, Elems
  <1>14. LossExplained' /\ WireCovers'
    BY <1>2, <1>3, <1>8, <1>13 DEF IInv, LossExplained, WireCovers
  <1>15. ConnectionCovers'
    <2> SUFFICES ASSUME NEW s \in 1 .. (hist.next - 1)
                 PROVE  Accounted(s)'
      BY <1>6 DEF ConnectionCovers
    <2>1. CASE s >= replays'.lo
      <3>1. s \in replays'.lo .. replays'.hi
        BY <1>1, <1>7, <2>1
      <3> QED
        BY <1>13, <3>1 DEF Accounted, Queued
    <2>2. CASE s < high
      BY <1>1, <1>13, <2>2 DEF IInv, LossExplained, Accounted
    <2>3. CASE ~(s >= replays'.lo) /\ ~(s < high)
      <3>1. s \in 1 .. (hist'.first - 1)
        BY <1>1, <1>6, <1>7, <2>3
      <3>2. s \in hazard["evicted"]
        BY <1>3, <1>12, <2>3, <3>1 DEF TrimmedBelow
      <3>3. hazard["evicted"] \subseteq Lost
        BY DEF Lost, Losses
      <3> QED
        BY <1>13, <3>2, <3>3 DEF Accounted
    <2> QED
      BY <2>1, <2>2, <2>3
  <1>16. InOrder'
    <2> SUFFICES ASSUME Clean PROVE Screened' /\ Queue'
      BY <1>3 DEF InOrder, Clean
    <2>1. Screened /\ Screened'
      BY <1>3 DEF IInv, InOrder, Screened
    <2>2. replays'.lo = next_in
      <3> SUFFICES ASSUME replays'.lo = hist'.first, next_in < hist'.first PROVE FALSE
        BY <1>1, <1>6, <1>7
      <3>1. next_in \in 1 .. (hist'.first - 1)
        BY <1>1, <1>6
      <3>2. next_in \in hazard["evicted"] \/ next_in < high
        BY <1>3, <1>12, <3>1 DEF TrimmedBelow
      <3>3. hazard["evicted"] = {}
        BY DEF Clean, Hazards
      <3> QED
        BY <1>1, <2>1, <3>2, <3>3 DEF Screened
    <2>3. ~Unsent'
      BY <1>1, <1>2, <1>3, <1>6, <1>7 DEF Unsent
    <2>4. next_in + Len(wire) + Len(chan) = next_in
      BY <1>1, <1>2, <1>8
    <2>5. QueueEnd' = hist.next
      <3>1. CASE replays'.lo <= replays'.hi
        BY <1>1, <1>7, <3>1 DEF QueueEnd
      <3>2. CASE ~(replays'.lo <= replays'.hi)
        <4>1. next_in = hist.next
          BY <1>1, <1>7, <2>2, <3>2
        <4> QED
          BY <1>3, <2>4, <3>2, <4>1 DEF QueueEnd
      <3> QED
        BY <3>1, <3>2
    <2>6. DOMAIN chan' = {}
      BY <1>2, <1>3, <1>8
    <2> QED
      BY <1>3, <1>6, <2>1, <2>2, <2>3, <2>4, <2>5, <2>6 DEF Queue
  <1> QED
    BY <1>9, <1>10, <1>11, <1>12, <1>14, <1>15, <1>16 DEF IInv

\* The head of the channel goes onto the PTY stream: everything below it is
\* accounted for, because the connection accounts for all there is.
LEMMA WriteStep ==
    ASSUME IInv, WriteChunk
    PROVE  IInv'
  <1>1. /\ TypeOK /\ hist.next \in Nat /\ chan \in Seq(Nat) /\ chan # <<>> /\ wire \in Seq(Nat)
        /\ ChannelCap \in Nat /\ Len(chan) <= ChannelCap /\ handler = "up"
        /\ next_in \in Nat /\ replays.lo \in Nat /\ replays.hi \in Nat
    BY PtyOutputAssumption DEF IInv, TypeOK, Window, WriteChunk
  <1>2. /\ UNCHANGED <<hist, reader, handler, replays, attached, hb, client, next_in, high,
                       stdout_q, screen, conns, hazard>>
        /\ chan' = Tail(chan)
    BY DEF WriteChunk, clientVars
  <1>3. PICK h : h = Head(chan)
    OBVIOUS
  <1>4. /\ h \in Nat /\ h = chan[1] /\ 1 \in DOMAIN chan
        /\ chan' \in Seq(Nat) /\ Len(chan') = Len(chan) - 1
        /\ \A i \in DOMAIN chan' : i + 1 \in DOMAIN chan /\ chan'[i] = chan[i + 1]
        /\ Elems(chan) = {h} \cup Elems(chan')
    BY <1>1, <1>2, <1>3, TailFacts
  <1>5. /\ Len(chan) \in Nat /\ Len(wire) \in Nat /\ DOMAIN wire = 1 .. Len(wire)
        /\ DOMAIN chan' \subseteq Nat
    BY <1>1, <1>4, LenProperties
  <1>6. 0 < h /\ h < hist.next
    BY <1>4 DEF IInv, Bounds
  <1>7. Shown' = Shown /\ Lost' = Lost /\ (Clean' <=> Clean) /\ (Unsent' <=> Unsent)
    BY <1>2 DEF Shown, Lost, Clean, Unsent, Elems
  <1>8. CASE attached
    <2>1. wire' = Append(wire, h)
      BY <1>3, <1>8 DEF WriteChunk
    <2>2. /\ wire' \in Seq(Nat) /\ Len(wire') = Len(wire) + 1
          /\ DOMAIN wire' = 1 .. (Len(wire) + 1)
          /\ \A i \in DOMAIN wire : wire'[i] = wire[i]
          /\ wire'[Len(wire) + 1] = h
          /\ Elems(wire') = Elems(wire) \cup {h}
      BY <1>1, <1>4, <2>1, AppendFacts
    <2>3. \A i \in DOMAIN wire' : i \in DOMAIN wire \/ i = Len(wire) + 1
      BY <1>5, <2>2
    <2>4. TypeOK'
      <3>1. Len(chan') <= ChannelCap
        BY <1>1, <1>4, <1>5
      <3> QED
        BY <1>1, <1>2, <1>4, <2>2, <3>1 DEF TypeOK
    <2>5. Phases'
      BY <1>1, <1>2, <1>8 DEF IInv, Phases
    <2>6. Bounds'
      <3>1. \A i \in DOMAIN wire' : 0 < wire'[i] /\ wire'[i] < hist.next
        <4>1. \A i \in DOMAIN wire : 0 < wire[i] /\ wire[i] < hist.next
          BY DEF IInv, Bounds
        <4> QED
          BY <1>6, <2>2, <2>3, <4>1
      <3>2. \A i \in DOMAIN chan' : 0 < chan'[i] /\ chan'[i] < hist.next
        BY <1>4 DEF IInv, Bounds
      <3> QED
        BY <1>2, <3>1, <3>2 DEF IInv, Bounds
    <2>7. OnTheWay' = OnTheWay
      BY <1>2, <1>4, <1>8, <2>2 DEF OnTheWay, Queued
    <2>8. TrimmedBelow' /\ LossExplained' /\ ConnectionCovers'
      BY <1>2, <1>7, <2>7 DEF IInv, TrimmedBelow, LossExplained, ConnectionCovers, Accounted
    <2>9. WireCovers'
      <3>1. \A s : Accounted(s)' <=> Accounted(s)
        BY <1>7, <2>7 DEF Accounted
      <3>2. Accounted(h)
        BY <1>4, <1>8 DEF Accounted, OnTheWay, Queued
      <3>3. ASSUME NEW s \in 1 .. h PROVE Accounted(s)
        <4>1. s \in 1 .. (hist.next - 1) /\ (s = hist.next - 1 => s = h)
          BY <1>1, <1>4, <1>6
        <4> QED
          BY <1>8, <3>2, <4>1 DEF IInv, ConnectionCovers
      <3>4. \A i \in DOMAIN wire : \A s \in 1 .. wire[i] : Accounted(s)
        BY DEF IInv, WireCovers
      <3>5. \A i \in DOMAIN wire' : \A s \in 1 .. wire'[i] : Accounted(s)
        BY <2>2, <2>3, <3>3, <3>4
      <3> QED
        BY <3>1, <3>5 DEF WireCovers
    <2>10. InOrder'
      <3> SUFFICES ASSUME Clean PROVE Screened' /\ Queue'
        BY <1>7 DEF InOrder
      <3>1. Screened /\ Queue
        BY <1>8 DEF IInv, InOrder
      <3>2. h = next_in + (Len(wire) + 1) - 1
        <4>1. chan[1] = next_in + Len(wire) + 1 - 1
          BY <1>4, <3>1 DEF Queue
        <4> QED
          BY <1>1, <1>4, <1>5, <4>1
      <3>3. \A i \in DOMAIN wire' : wire'[i] = next_in + i - 1
        BY <2>2, <2>3, <3>1, <3>2 DEF Screened
      <3>4. Screened'
        BY <1>2, <3>1, <3>3 DEF Screened
      <3>5. Len(wire') + Len(chan') = Len(wire) + Len(chan)
        BY <1>4, <1>5, <2>2
      <3>6. next_in + Len(wire') + Len(chan') = next_in + Len(wire) + Len(chan)
        BY <1>1, <1>4, <1>5, <2>2
      <3>7. \A i \in DOMAIN chan' : chan'[i] = next_in + Len(wire') + i - 1
        <4> SUFFICES ASSUME NEW i \in DOMAIN chan'
                     PROVE  chan'[i] = next_in + Len(wire') + i - 1
          OBVIOUS
        <4>1. chan'[i] = next_in + Len(wire) + (i + 1) - 1
          BY <1>4, <3>1 DEF Queue
        <4> QED
          BY <1>1, <1>5, <2>2, <4>1
      <3>8. QueueEnd' = QueueEnd
        BY <1>2, <3>6 DEF QueueEnd
      <3> QED
        BY <1>2, <1>7, <3>1, <3>4, <3>6, <3>7, <3>8 DEF Queue
    <2> QED
      BY <2>4, <2>5, <2>6, <2>8, <2>9, <2>10 DEF IInv
  <1>9. CASE ~attached
    <2>1. wire' = wire
      BY <1>9 DEF WriteChunk
    <2>2. TypeOK'
      <3>1. Len(chan') <= ChannelCap
        BY <1>1, <1>4, <1>5
      <3> QED
        BY <1>1, <1>2, <1>4, <2>1, <3>1 DEF TypeOK
    <2>3. Phases'
      BY <1>1, <1>2, <2>1 DEF IInv, Phases
    <2>4. Bounds'
      <3>1. \A i \in DOMAIN chan' : 0 < chan'[i] /\ chan'[i] < hist.next
        BY <1>4 DEF IInv, Bounds
      <3> QED
        BY <1>2, <2>1, <3>1 DEF IInv, Bounds
    <2>5. OnTheWay' = OnTheWay
      BY <1>2, <1>9, <2>1 DEF OnTheWay, Elems
    <2>6. TrimmedBelow' /\ LossExplained' /\ ConnectionCovers' /\ WireCovers'
      BY <1>2, <1>7, <2>1, <2>5 DEF IInv, TrimmedBelow, LossExplained, ConnectionCovers,
         WireCovers, Accounted
    <2>7. InOrder'
      BY <1>2, <1>7, <1>9, <2>1 DEF IInv, InOrder, Screened
    <2> QED
      BY <2>2, <2>3, <2>4, <2>6, <2>7 DEF IInv
  <1> QED
    BY <1>8, <1>9

\* handle_connection returns: what it had queued and the client has gone past is
\* lost; what it had queued above that, the next replay will bring.
LEMMA ServerDropStep ==
    ASSUME IInv, ServerDrop
    PROVE  IInv'
  <1>1. /\ TypeOK /\ hist.next \in Nat /\ chan \in Seq(Nat) /\ wire \in Seq(Nat)
        /\ ChannelCap \in Nat /\ high \in Nat /\ replays.lo \in Nat /\ replays.hi \in Nat
        /\ hb \in Nat \cup {-1} /\ hb < high
    BY PtyOutputAssumption DEF IInv, TypeOK, Window, Bounds
  <1>2. /\ UNCHANGED <<hist, wire, client, next_in, high, stdout_q, screen, conns>>
        /\ handler' = "idle" /\ chan' = <<>> /\ replays' = [lo |-> 1, hi |-> 0]
        /\ hb' = -1 /\ reader' = IF reader = "send" THEN "stale" ELSE reader
    BY DEF ServerDrop, clientVars
  <1>3. ~attached'
    BY DEF ServerDrop
  <1>4. DOMAIN << >> = {} /\ << >> \in Seq(Nat) /\ Len(<< >>) = 0
    BY EmptySeq
  <1>5. replays' \in [lo : Nat, hi : Nat] /\ replays'.lo = 1 /\ replays'.hi = 0
    BY <1>2
  <1>6. Queued \subseteq Nat
    BY <1>1, ElementOfSeq, LenProperties DEF Queued, Elems
  <1>7. /\ hazard' \in [Hazards -> SUBSET Nat]
        /\ \A c \in Hazards : hazard[c] \subseteq hazard'[c]
        /\ attached => {s \in Queued : Overtaken(s)} \subseteq hazard'["overtaken"]
    <2>1. PICK chunks : chunks = IF attached THEN {s \in Queued : Overtaken(s)} ELSE {}
      OBVIOUS
    <2>2. chunks \in SUBSET Nat /\ "overtaken" \in Hazards
      BY <1>6, <2>1 DEF Hazards
    <2>3. Mark("overtaken", chunks)
      BY <2>1 DEF ServerDrop
    <2>4. /\ hazard' \in [Hazards -> SUBSET Nat]
          /\ hazard'["overtaken"] = hazard["overtaken"] \cup chunks
          /\ \A c \in Hazards : hazard[c] \subseteq hazard'[c]
      BY <1>1, <2>2, <2>3, MarkFacts DEF TypeOK
    <2> QED
      BY <2>1, <2>4
  <1>8. Lost \subseteq Lost' /\ (Clean' => Clean)
    BY <1>1, <1>7, HazardsGrow DEF TypeOK
  <1>9. TypeOK'
    <2>1. attached' \in BOOLEAN
      BY DEF ServerDrop
    <2>2. reader' \in {"read", "look", "send", "stale"}
      BY <1>1, <1>2 DEF TypeOK
    <2>3. chan' \in Seq(Nat) /\ Len(chan') <= ChannelCap
      BY <1>1, <1>2, <1>4
    <2>4. hb' \in Nat \cup {-1}
      BY <1>2
    <2>5. /\ UNCHANGED <<hist, wire, client, next_in, high, stdout_q, screen, conns>>
          /\ handler' = "idle"
      BY <1>2
    <2> QED
      BY <1>1, <1>5, <1>7, <2>1, <2>2, <2>3, <2>4, <2>5 DEF TypeOK
  <1>10. Phases'
    BY <1>2, <1>3 DEF IInv, Phases
  <1>11. Bounds'
    <2>1. hb' < high
      BY <1>1, <1>2
    <2>2. replays'.hi < hist.next
      BY <1>1, <1>5 DEF IInv, TypeOK, Window
    <2>3. reader' # "read" => reader # "read"
      BY <1>2
    <2> QED
      BY <1>2, <1>4, <1>5, <2>1, <2>2, <2>3 DEF IInv, Bounds
  <1>12. TrimmedBelow'
    BY <1>2, <1>7 DEF IInv, TrimmedBelow, Hazards
  <1>13. Shown' = Shown /\ OnTheWay' = Elems(wire)
    BY <1>2, <1>3 DEF Shown, OnTheWay, Elems
  <1>14. ASSUME NEW s \in Nat, Accounted(s), Overtaken(s) \/ s \in Elems(wire)
         PROVE  Accounted(s)'
    <2>1. CASE attached /\ s \in Queued /\ Overtaken(s)
      <3>1. s \in hazard'["overtaken"]
        BY <1>7, <2>1
      <3>2. hazard'["overtaken"] \subseteq Lost'
        BY DEF Lost, Losses
      <3> QED
        BY <3>1, <3>2 DEF Accounted
    <2>2. CASE s \in Shown \cup Elems(wire) \cup Lost
      BY <1>8, <1>13, <2>2 DEF Accounted
    <2> QED
      BY <1>14, <2>1, <2>2 DEF Accounted, OnTheWay
  <1>15. LossExplained'
    <2> SUFFICES ASSUME NEW s \in 1 .. (high - 1) PROVE Accounted(s)'
      BY <1>2 DEF LossExplained, Accounted
    <2>1. Accounted(s) /\ s < high /\ s \in Nat
      BY <1>1 DEF IInv, LossExplained, Accounted
    <2> QED
      BY <1>14, <2>1 DEF Overtaken
  <1>16. ConnectionCovers'
    BY <1>3 DEF ConnectionCovers
  <1>17. WireCovers'
    <2> SUFFICES ASSUME NEW i \in DOMAIN wire, NEW s \in 1 .. wire[i] PROVE Accounted(s)'
      BY <1>2 DEF WireCovers
    <2>1. wire[i] \in Elems(wire) /\ wire[i] \in Nat
      BY <1>1, ElementOfSeq, LenProperties DEF Elems
    <2>2. Overtaken(s) \/ s \in Elems(wire)
      BY <2>1 DEF Overtaken
    <2>3. Accounted(s) /\ s \in Nat
      BY DEF IInv, WireCovers
    <2> QED
      BY <1>14, <2>2, <2>3
  <1>18. InOrder'
    BY <1>2, <1>3, <1>8 DEF IInv, InOrder, Screened
  <1> QED
    BY <1>9, <1>10, <1>11, <1>12, <1>15, <1>16, <1>17, <1>18 DEF IInv

\* The client takes the next chunk off the stream: every number up to it is
\* accounted for, so its watermark may pass them all.
LEMMA RecvStep ==
    ASSUME IInv, RecvChunk
    PROVE  IInv'
  <1>1. /\ TypeOK /\ hist.next \in Nat /\ wire \in Seq(Nat) /\ wire # <<>>
        /\ stdout_q \in Seq(Nat) /\ StdoutCap \in Nat /\ screen \in Seq(Nat)
        /\ high \in Nat \ {0} /\ next_in \in Nat \ {0} /\ next_in <= high /\ high <= hist.next
        /\ hb \in Nat \cup {-1} /\ hb < high /\ client = "up"
    BY PtyOutputAssumption DEF IInv, TypeOK, Window, Bounds, RecvChunk
  <1>2. /\ UNCHANGED <<hist, reader, handler, replays, chan, attached, hb, client, screen, conns>>
        /\ wire' = Tail(wire) /\ next_in' = Head(wire) + 1 /\ high' = Larger(high, Head(wire) + 1)
    BY DEF RecvChunk, serverVars
  <1>3. PICK h : h = Head(wire)
    OBVIOUS
  <1>4. /\ h \in Nat /\ h = wire[1] /\ 1 \in DOMAIN wire
        /\ wire' \in Seq(Nat) /\ Len(wire') = Len(wire) - 1
        /\ \A i \in DOMAIN wire' : i + 1 \in DOMAIN wire /\ wire'[i] = wire[i + 1]
        /\ Elems(wire) = {h} \cup Elems(wire')
    BY <1>1, <1>2, <1>3, TailFacts
  <1>5. 0 < h /\ h < hist.next
    BY <1>4 DEF IInv, Bounds
  <1>6. /\ next_in' = h + 1 /\ high' \in Nat \ {0} /\ next_in' \in Nat \ {0}
        /\ high <= high' /\ next_in' <= high' /\ high' <= hist.next
        /\ high' = high \/ high' = h + 1
    BY <1>1, <1>2, <1>3, <1>4, <1>5 DEF Larger
  <1>7. /\ Len(stdout_q) \in Nat /\ Len(wire) \in Nat /\ Len(chan) \in Nat
        /\ Len(screen) \in Nat
        /\ DOMAIN stdout_q = 1 .. Len(stdout_q) /\ DOMAIN wire' \subseteq Nat
        /\ DOMAIN chan \subseteq Nat
    <2>1. chan \in Seq(Nat)
      BY <1>1 DEF TypeOK
    <2>2. wire' \in Seq(Nat)
      BY <1>4
    <2> QED
      BY <1>1, <2>1, <2>2, LenProperties
  <1>8. /\ stdout_q' \in Seq(Nat) /\ Len(stdout_q') <= StdoutCap
        /\ hazard' \in [Hazards -> SUBSET Nat]
        /\ \A c \in Hazards : hazard[c] \subseteq hazard'[c]
        /\ Elems(stdout_q) \subseteq Elems(stdout_q')
        /\ h \in Elems(stdout_q') \cup hazard'["stdout_full"]
    <2>1. CASE Len(stdout_q) < StdoutCap
      <3>1. stdout_q' = Append(stdout_q, h) /\ hazard' = hazard
        BY <1>3, <2>1 DEF RecvChunk
      <3>2. /\ stdout_q' \in Seq(Nat) /\ Len(stdout_q') = Len(stdout_q) + 1
            /\ Elems(stdout_q') = Elems(stdout_q) \cup {h}
        BY <1>1, <1>4, <3>1, AppendFacts
      <3>3. Len(stdout_q') <= StdoutCap
        BY <1>1, <1>7, <2>1, <3>2
      <3> QED
        BY <1>1, <3>1, <3>2, <3>3 DEF TypeOK
    <2>2. CASE ~(Len(stdout_q) < StdoutCap)
      <3>1. Mark("stdout_full", {h}) /\ stdout_q' = stdout_q
        BY <1>3, <2>2 DEF RecvChunk
      <3>2. {h} \in SUBSET Nat /\ "stdout_full" \in Hazards
        BY <1>4 DEF Hazards
      <3> QED
        BY <1>1, <3>1, <3>2, MarkFacts DEF TypeOK
    <2> QED
      BY <2>1, <2>2
  <1>9. Lost \subseteq Lost' /\ (Clean' => Clean)
    BY <1>1, <1>8, HazardsGrow DEF TypeOK
  <1>10. TypeOK'
    <2>1. UNCHANGED <<hist, reader, handler, replays, chan, attached, hb, client, screen, conns>>
      BY <1>2
    <2> QED
      BY <1>1, <1>4, <1>6, <1>8, <2>1 DEF TypeOK
  <1>11. Phases'
    BY <1>1, <1>2 DEF IInv, Phases
  <1>12. Bounds'
    <2>1. \A i \in DOMAIN wire' : 0 < wire'[i] /\ wire'[i] < hist.next
      BY <1>4 DEF IInv, Bounds
    <2>2. hb < high'
      BY <1>1, <1>6
    <2> QED
      BY <1>2, <1>6, <2>1, <2>2 DEF IInv, Bounds
  <1>13. TrimmedBelow'
    <2> SUFFICES ASSUME NEW s \in 1 .. (hist.first - 1)
                 PROVE  s < high' \/ s \in hazard'["evicted"]
      BY <1>2 DEF TrimmedBelow
    <2>1. s < high \/ s \in hazard["evicted"]
      BY DEF IInv, TrimmedBelow
    <2>2. hazard["evicted"] \subseteq hazard'["evicted"]
      BY <1>8 DEF Hazards
    <2> QED
      BY <1>1, <1>6, <2>1, <2>2
  <1>14. h \in Shown' \cup Lost'
    <2>1. hazard'["stdout_full"] \subseteq Lost'
      BY DEF Lost, Losses
    <2> QED
      BY <1>8, <2>1 DEF Shown
  <1>15. \A s : Accounted(s) => Accounted(s)'
    <2>1. Shown \subseteq Shown' /\ Queued' = Queued
      BY <1>2, <1>8 DEF Shown, Queued, Elems
    <2>2. OnTheWay \subseteq OnTheWay' \cup {h}
      BY <1>2, <1>4, <2>1 DEF OnTheWay
    <2> QED
      BY <1>9, <1>14, <2>1, <2>2 DEF Accounted
  <1>16. LossExplained'
    <2>1. \A s \in 1 .. (high' - 1) : s \in Nat /\ 1 <= s /\ s < high'
      <3>1. PICK m \in Nat : m = high'
        BY <1>6
      <3>2. \A s \in 1 .. (m - 1) : s \in Nat /\ 1 <= s /\ s < m
        OBVIOUS
      <3> QED
        BY <3>1, <3>2
    <2> SUFFICES ASSUME NEW s \in Nat, 1 <= s, s < high' PROVE Accounted(s)
      BY <1>15, <2>1 DEF LossExplained, Accounted
    <2>2. CASE s < high
      <3>1. s \in 1 .. (high - 1)
        BY <1>1, <2>2
      <3> QED
        BY <3>1 DEF IInv, LossExplained, Accounted
    <2>3. CASE ~(s < high)
      <3>1. s \in 1 .. wire[1]
        BY <1>1, <1>4, <1>6, <2>3
      <3> QED
        BY <1>4, <3>1 DEF IInv, WireCovers
    <2> QED
      BY <2>2, <2>3
  <1>17. ConnectionCovers'
    BY <1>2, <1>15 DEF IInv, ConnectionCovers, Unsent
  <1>18. WireCovers'
    BY <1>4, <1>15 DEF IInv, WireCovers
  <1>19. InOrder'
    <2> SUFFICES ASSUME Clean' PROVE Screened' /\ (attached => Queue')
      BY <1>2 DEF InOrder
    <2>1. Screened /\ (attached => Queue)
      BY <1>9 DEF IInv, InOrder
    <2>2. h = next_in
      <3>1. wire[1] = next_in + 1 - 1
        BY <1>4, <2>1 DEF Screened
      <3> QED
        BY <1>1, <1>4, <3>1
    <2>3. Len(stdout_q) < StdoutCap
      <3> SUFFICES ASSUME ~(Len(stdout_q) < StdoutCap) PROVE FALSE
        OBVIOUS
      <3>1. Mark("stdout_full", {h})
        BY <1>3 DEF RecvChunk
      <3>2. {h} \in SUBSET Nat /\ "stdout_full" \in Hazards
        BY <1>4 DEF Hazards
      <3>3. hazard \in [Hazards -> SUBSET Nat]
        BY <1>1 DEF TypeOK
      <3>4. hazard'["stdout_full"] = hazard["stdout_full"] \cup {h}
        BY <3>1, <3>2, <3>3, MarkFacts
      <3> QED
        BY <3>2, <3>4 DEF Clean
    <2>4. /\ Len(stdout_q') = Len(stdout_q) + 1
          /\ DOMAIN stdout_q' = 1 .. (Len(stdout_q) + 1)
          /\ \A i \in DOMAIN stdout_q : stdout_q'[i] = stdout_q[i]
          /\ stdout_q'[Len(stdout_q) + 1] = h
      <3>1. stdout_q' = Append(stdout_q, h)
        BY <1>3, <2>3 DEF RecvChunk
      <3> QED
        BY <1>1, <1>4, <3>1, AppendFacts
    <2>5. next_in' = next_in + 1 /\ high' = next_in + 1
      BY <1>1, <1>6, <2>1, <2>2 DEF Screened
    <2>6. Len(screen) + Len(stdout_q) = next_in - 1
      BY <2>1 DEF Screened
    <2>7. Len(screen) + Len(stdout_q') = next_in' - 1
      BY <1>1, <1>7, <2>4, <2>5, <2>6
    <2>8. \A i \in DOMAIN stdout_q' : stdout_q'[i] = Len(screen) + i
      <3>1. \A i \in DOMAIN stdout_q' : i \in DOMAIN stdout_q \/ i = Len(stdout_q) + 1
        BY <1>7, <2>4
      <3>2. h = Len(screen) + (Len(stdout_q) + 1)
        BY <1>1, <1>7, <2>2, <2>6
      <3> QED
        BY <2>1, <2>4, <3>1, <3>2 DEF Screened
    <2>9. \A i \in DOMAIN wire' : wire'[i] = next_in' + i - 1
      <3> SUFFICES ASSUME NEW i \in DOMAIN wire' PROVE wire'[i] = next_in' + i - 1
        OBVIOUS
      <3>1. wire'[i] = next_in + (i + 1) - 1
        BY <1>4, <2>1 DEF Screened
      <3>2. i \in Nat
        BY <1>7
      <3> QED
        BY <1>1, <2>5, <3>1, <3>2
    <2>10. Screened'
      BY <1>2, <2>1, <2>5, <2>7, <2>8, <2>9 DEF Screened
    <2>11. next_in' + Len(wire') = next_in + Len(wire)
      BY <1>1, <1>4, <1>7, <2>5
    <2>12. QueueEnd' = QueueEnd /\ (Unsent' <=> Unsent)
      BY <1>2, <2>11 DEF QueueEnd, Unsent
    <2> QED
      BY <1>2, <2>1, <2>10, <2>11, <2>12 DEF Queue
  <1> QED
    BY <1>10, <1>11, <1>12, <1>13, <1>16, <1>17, <1>18, <1>19 DEF IInv

\* A chunk moves from the stdout channel to the screen.
LEMMA StdoutStep ==
    ASSUME IInv, WriteStdout
    PROVE  IInv'
  <1>1. /\ TypeOK /\ screen \in Seq(Nat) /\ stdout_q \in Seq(Nat) /\ stdout_q # <<>>
        /\ StdoutCap \in Nat /\ Len(stdout_q) <= StdoutCap
    BY PtyOutputAssumption DEF TypeOK, IInv, WriteStdout
  <1>2. /\ UNCHANGED <<hist, reader, handler, replays, chan, wire, attached, hb, client, next_in,
                       high, conns, hazard>>
        /\ stdout_q' = Tail(stdout_q) /\ screen' = Append(screen, Head(stdout_q))
    BY DEF WriteStdout, serverVars, linkVars
  <1>3. PICK h : h = Head(stdout_q)
    OBVIOUS
  <1>4. /\ h \in Nat /\ h = stdout_q[1] /\ 1 \in DOMAIN stdout_q
        /\ stdout_q' \in Seq(Nat) /\ Len(stdout_q') = Len(stdout_q) - 1
        /\ \A i \in DOMAIN stdout_q' : i + 1 \in DOMAIN stdout_q /\ stdout_q'[i] = stdout_q[i + 1]
        /\ Elems(stdout_q) = {h} \cup Elems(stdout_q')
    BY <1>1, <1>2, <1>3, TailFacts
  <1>5. /\ screen' \in Seq(Nat) /\ Len(screen') = Len(screen) + 1
        /\ DOMAIN screen' = 1 .. (Len(screen) + 1)
        /\ \A i \in DOMAIN screen : screen'[i] = screen[i]
        /\ screen'[Len(screen) + 1] = h
        /\ Elems(screen') = Elems(screen) \cup {h}
    BY <1>1, <1>2, <1>3, <1>4, AppendFacts
  <1>6. /\ Len(screen) \in Nat /\ Len(stdout_q) \in Nat /\ DOMAIN screen = 1 .. Len(screen)
        /\ DOMAIN stdout_q' \subseteq Nat
    BY <1>1, <1>4, LenProperties
  <1>7. TypeOK'
    <2>1. Len(stdout_q') <= StdoutCap
      BY <1>1, <1>4, <1>6
    <2> QED
      BY <1>1, <1>2, <1>4, <1>5, <2>1 DEF TypeOK
  <1>8. Phases' /\ Bounds' /\ TrimmedBelow'
    BY <1>2 DEF IInv, Phases, Bounds, TrimmedBelow
  <1>9. Shown' = Shown /\ OnTheWay' = OnTheWay /\ Lost' = Lost /\ (Clean' <=> Clean)
    <2>1. Shown' = Shown
      BY <1>4, <1>5 DEF Shown
    <2> QED
      BY <1>2, <2>1 DEF OnTheWay, Queued, Lost, Clean, Elems
  <1>10. LossExplained' /\ ConnectionCovers' /\ WireCovers'
    BY <1>2, <1>9 DEF IInv, LossExplained, ConnectionCovers, WireCovers, Accounted, Unsent
  <1>11. InOrder'
    <2> SUFFICES ASSUME Clean PROVE Screened' /\ (attached => Queue')
      BY <1>2, <1>9 DEF InOrder
    <2>1. Screened /\ (attached => Queue)
      BY DEF IInv, InOrder
    <2>2. h = Len(screen) + 1
      BY <1>4, <2>1 DEF Screened
    <2>3. \A i \in DOMAIN screen' : screen'[i] = i
      <3>1. \A i \in DOMAIN screen' : i \in DOMAIN screen \/ i = Len(screen) + 1
        BY <1>5, <1>6
      <3> QED
        BY <1>5, <2>1, <2>2, <3>1 DEF Screened
    <2>4. \A i \in DOMAIN stdout_q' : stdout_q'[i] = Len(screen') + i
      <3> SUFFICES ASSUME NEW i \in DOMAIN stdout_q' PROVE stdout_q'[i] = Len(screen') + i
        OBVIOUS
      <3>1. stdout_q'[i] = Len(screen) + (i + 1) /\ i \in Nat
        BY <1>4, <1>6, <2>1 DEF Screened
      <3> QED
        BY <1>5, <1>6, <3>1
    <2>5. Len(screen') + Len(stdout_q') = Len(screen) + Len(stdout_q)
      BY <1>4, <1>5, <1>6
    <2>6. Screened'
      BY <1>2, <2>1, <2>3, <2>4, <2>5 DEF Screened
    <2>7. attached => Queue'
      BY <1>2, <2>1 DEF Queue, QueueEnd, Unsent
    <2> QED
      BY <2>6, <2>7
  <1> QED
    BY <1>7, <1>8, <1>10, <1>11 DEF IInv

\* run_session ends: what its stdout channel held is lost, and so is whatever
\* was on its way below the watermark; the next connection replays the rest.
LEMMA ClientDropStep ==
    ASSUME IInv, ClientDrop
    PROVE  IInv'
  <1>1. /\ TypeOK /\ wire \in Seq(Nat) /\ stdout_q \in Seq(Nat) /\ chan \in Seq(Nat)
        /\ StdoutCap \in Nat /\ replays.lo \in Nat /\ replays.hi \in Nat /\ high \in Nat
        /\ hazard \in [Hazards -> SUBSET Nat] /\ screen \in Seq(Nat)
    BY PtyOutputAssumption DEF IInv, TypeOK
  <1>2. /\ UNCHANGED <<hist, reader, handler, replays, chan, hb, next_in, high, screen, conns>>
        /\ client' = "down" /\ wire' = <<>> /\ stdout_q' = <<>>
    BY DEF ClientDrop, serverVars
  <1>3. ~attached'
    BY DEF ClientDrop
  <1>4. DOMAIN << >> = {} /\ << >> \in Seq(Nat) /\ Len(<< >>) = 0 /\ Elems(<< >>) = {}
    BY EmptySeq DEF Elems
  <1>5. Elems(stdout_q) \subseteq Nat /\ OnTheWay \subseteq Nat
    <2>1. Elems(stdout_q) \subseteq Nat /\ Elems(wire) \subseteq Nat /\ Elems(chan) \subseteq Nat
      BY <1>1, ElementOfSeq, LenProperties DEF Elems
    <2>2. replays.lo .. replays.hi \subseteq Nat
      BY <1>1
    <2> QED
      BY <2>1, <2>2 DEF OnTheWay, Queued
  <1>6. /\ hazard' \in [Hazards -> SUBSET Nat]
        /\ \A c \in Hazards : hazard[c] \subseteq hazard'[c]
        /\ Elems(stdout_q) \subseteq hazard'["aborted"]
        /\ {s \in OnTheWay : s < high} \subseteq hazard'["overtaken"]
    <2>1. PICK gone : gone = {s \in OnTheWay : s < high}
      OBVIOUS
    <2>2. hazard' = [hazard EXCEPT !["aborted"] = @ \cup Elems(stdout_q),
                                   !["overtaken"] = @ \cup gone]
      BY <2>1 DEF ClientDrop, OnTheWay
    <2>3. "aborted" \in Hazards /\ "overtaken" \in Hazards /\ gone \subseteq Nat
      BY <1>5, <2>1 DEF Hazards
    <2>4. PICK kept : kept = Elems(stdout_q) /\ kept \subseteq Nat
      BY <1>5
    <2>5. hazard' = [hazard EXCEPT !["aborted"] = @ \cup kept, !["overtaken"] = @ \cup gone]
      BY <2>2, <2>4
    <2>6. /\ hazard' \in [Hazards -> SUBSET Nat]
          /\ \A c \in Hazards : hazard[c] \subseteq hazard'[c]
          /\ kept \subseteq hazard'["aborted"]
          /\ gone \subseteq hazard'["overtaken"]
      BY <1>1, <2>3, <2>4, <2>5
    <2> QED
      BY <2>1, <2>4, <2>6
  <1>7. Lost \subseteq Lost' /\ (Clean' => Clean)
    BY <1>1, <1>6, HazardsGrow
  <1>8. TypeOK'
    <2>1. attached' \in BOOLEAN
      BY DEF ClientDrop
    <2>2. wire' \in Seq(Nat) /\ stdout_q' \in Seq(Nat) /\ Len(stdout_q') <= StdoutCap
      BY <1>1, <1>2, <1>4
    <2>3. /\ UNCHANGED <<hist, reader, handler, replays, chan, hb, next_in, high, screen, conns>>
          /\ client' = "down"
      BY <1>2
    <2> QED
      BY <1>1, <1>6, <2>1, <2>2, <2>3 DEF TypeOK
  <1>9. Phases'
    BY <1>2, <1>3 DEF IInv, Phases
  <1>10. Bounds'
    BY <1>2, <1>4 DEF IInv, Bounds
  <1>11. TrimmedBelow'
    BY <1>2, <1>6 DEF IInv, TrimmedBelow, Hazards
  <1>12. LossExplained'
    <2> SUFFICES ASSUME NEW s \in 1 .. (high - 1) PROVE s \in Shown' \cup Lost'
      BY <1>2 DEF LossExplained
    <2>1. s \in Shown \cup OnTheWay \cup Lost
      BY DEF IInv, LossExplained
    <2>2. s < high
      BY <1>1
    <2>3. hazard'["aborted"] \subseteq Lost' /\ hazard'["overtaken"] \subseteq Lost'
      BY DEF Lost, Losses
    <2>4. CASE s \in Elems(screen)
      BY <1>2, <2>4 DEF Shown
    <2>5. CASE s \in Elems(stdout_q)
      BY <1>6, <2>3, <2>5
    <2>6. CASE s \in OnTheWay
      BY <1>6, <2>2, <2>3, <2>6
    <2> QED
      BY <1>7, <2>1, <2>4, <2>5, <2>6 DEF Shown
  <1>13. ConnectionCovers' /\ WireCovers'
    BY <1>2, <1>3, <1>4 DEF ConnectionCovers, WireCovers
  <1>14. InOrder'
    <2> SUFFICES ASSUME Clean' PROVE Screened'
      BY <1>3 DEF InOrder
    <2>1. Screened
      BY <1>7 DEF IInv, InOrder
    <2>2. Elems(stdout_q) = {}
      BY <1>6 DEF Clean, Hazards
    <2>3. stdout_q = <<>>
      BY <1>1, <2>2, EmptySeq, TailFacts
    <2> QED
      BY <1>2, <1>4, <2>1, <2>3 DEF Screened
  <1> QED
    BY <1>8, <1>9, <1>10, <1>11, <1>12, <1>13, <1>14 DEF IInv

\* A stuttering step changes nothing the invariant speaks of.
LEMMA StutterStep ==
    ASSUME IInv, UNCHANGED vars
    PROVE  IInv'
  <1>1. UNCHANGED <<hist, reader, handler, attached, replays, chan, wire, client, next_in, high,
                    hb, stdout_q, screen, conns, hazard>>
    BY DEF vars, serverVars, clientVars, linkVars
  <1>2. Shown' = Shown /\ OnTheWay' = OnTheWay /\ Lost' = Lost /\ (Clean' <=> Clean)
    BY <1>1 DEF Shown, OnTheWay, Queued, Lost, Clean, Elems
  <1>3. TypeOK' /\ Phases' /\ Bounds' /\ TrimmedBelow'
    BY <1>1 DEF IInv, TypeOK, Phases, Bounds, TrimmedBelow
  <1>4. LossExplained' /\ ConnectionCovers' /\ WireCovers'
    BY <1>1, <1>2 DEF IInv, LossExplained, ConnectionCovers, WireCovers, Accounted, Unsent
  <1>5. InOrder'
    BY <1>1, <1>2 DEF IInv, InOrder, Screened, Queue, QueueEnd, Unsent
  <1> QED
    BY <1>3, <1>4, <1>5 DEF IInv

\* Every step of the reader thread, the handler or the client keeps the invariant.
LEMMA NextInv == IInv /\ [Next]_vars => IInv'
  <1> SUFFICES ASSUME IInv, [Next]_vars PROVE IInv'
    OBVIOUS
  <1>1. CASE UNCHANGED vars
    BY <1>1, StutterStep
  <1>2. CASE \/ WriteAccept \/ FillSlot \/ PtyStreamArrives \/ PtySendFails
             \/ ClientOpen \/ ClientAccepted \/ SendHeartbeat
    BY <1>2, ControlSteps
  <1>3. CASE PtyRead
    BY <1>3, ReadStep
  <1>4. CASE PtyLook
    BY <1>4, LookStep
  <1>5. CASE PtySend
    BY <1>5, SendStep
  <1>6. CASE CollectReplays
    BY <1>6, CollectStep
  <1>7. CASE QueueReplay
    BY <1>7, QueueStep
  <1>8. CASE WriteChunk
    BY <1>8, WriteStep
  <1>9. CASE RecvHeartbeat
    BY <1>9, HeartbeatStep
  <1>10. CASE ServerDrop
    BY <1>10, ServerDropStep
  <1>11. CASE RecvChunk
    BY <1>11, RecvStep
  <1>12. CASE WriteStdout
    BY <1>12, StdoutStep
  <1>13. CASE ClientDrop
    BY <1>13, ClientDropStep
  <1> QED
    BY <1>1, <1>2, <1>3, <1>4, <1>5, <1>6, <1>7, <1>8, <1>9, <1>10, <1>11, <1>12, <1>13
       DEF Next, Server, Client
-----------------------------------------------------------------------------
(* The results.                                                            *)

\* The inductive invariant holds in every reachable state of the output path.
THEOREM Invariance == Spec => []IInv
  BY InitInv, NextInv, PTL DEF Spec

\* Every state variable keeps its type, and no channel outgrows its capacity.
THEOREM TypeCorrect == Spec => []TypeOK
  <1>1. IInv => TypeOK
    BY DEF IInv
  <1> QED
    BY <1>1, Invariance, PTL

\* Heartbeats and SessionOpen watermarks, however late they are applied, trim
\* nothing from the replay history but what the client received, what had no room,
\* and what a received chunk passed over by a named hazard.
THEOREM TrimIsSafe == Spec => []TrimmedIsAccounted
  <1>1. IInv => TrimmedIsAccounted
    <2> SUFFICES ASSUME IInv, NEW s \in 1 .. (hist.first - 1), s \notin hazard["evicted"]
                 PROVE  s \in Received \/ (s < high /\ s \in PassedOver)
      BY DEF TrimmedIsAccounted
    <2>1. hist.first \in Nat /\ high \in Nat
      BY DEF IInv, TypeOK, Window
    <2>2. s < high
      BY DEF IInv, TrimmedBelow
    <2>3. s \in Shown \cup OnTheWay \cup Lost
      BY <2>1, <2>2 DEF IInv, LossExplained
    <2>4. CASE s \in Lost
      BY <2>2, <2>4 DEF Lost, Losses, Received, PassedOver
    <2> QED
      BY <2>2, <2>3, <2>4 DEF Received, PassedOver
  <1> QED
    BY <1>1, Invariance, PTL

\* A gap below the client's watermark always has one of the named causes, for
\* any interleaving of reader thread, handshake, replay and loss.
THEOREM GapsExplained == Spec => []LossExplained
  <1>1. IInv => LossExplained
    BY DEF IInv
  <1> QED
    BY <1>1, Invariance, PTL

\* Output that meets no hazard is shown exactly once and in order, over any
\* number of reconnects.
THEOREM ShownExactly == Spec => []ExactUnlessHazard
  <1>1. IInv => ExactUnlessHazard
    <2> SUFFICES ASSUME IInv, Clean
                 PROVE  screen \o stdout_q = [i \in 1 .. (next_in - 1) |-> i]
      BY DEF ExactUnlessHazard, Clean
    <2>1. screen \in Seq(Nat) /\ stdout_q \in Seq(Nat) /\ next_in \in Nat
      BY DEF IInv, TypeOK
    <2>2. Screened
      BY DEF IInv, InOrder
    <2>3. /\ Len(screen) \in Nat /\ Len(stdout_q) \in Nat
          /\ DOMAIN screen = 1 .. Len(screen) /\ DOMAIN stdout_q = 1 .. Len(stdout_q)
      BY <2>1, LenProperties
    <2>4. PICK both : both = screen \o stdout_q
      OBVIOUS
    <2>5. /\ both \in Seq(Nat) /\ Len(both) = next_in - 1
          /\ \A i \in 1 .. Len(both) :
                both[i] = IF i <= Len(screen) THEN screen[i] ELSE stdout_q[i - Len(screen)]
      BY <2>1, <2>2, <2>4, ConcatProperties DEF Screened
    <2>6. \A i \in 1 .. (next_in - 1) : both[i] = i
      <3> SUFFICES ASSUME NEW i \in 1 .. (next_in - 1) PROVE both[i] = i
        OBVIOUS
      <3>1. CASE i <= Len(screen)
        <4>1. i \in DOMAIN screen
          BY <2>1, <2>3, <3>1
        <4> QED
          BY <2>2, <2>5, <3>1, <4>1 DEF Screened
      <3>2. CASE ~(i <= Len(screen))
        <4>1. Len(screen) + Len(stdout_q) = next_in - 1
          BY <2>2 DEF Screened
        <4>2. i - Len(screen) \in DOMAIN stdout_q
          BY <2>1, <2>3, <3>2, <4>1
        <4>3. stdout_q[i - Len(screen)] = Len(screen) + (i - Len(screen))
          BY <2>2, <4>2 DEF Screened
        <4>4. Len(screen) + (i - Len(screen)) = i
          BY <2>1, <2>3
        <4> QED
          BY <2>5, <3>2, <4>3, <4>4
      <3> QED
        BY <3>1, <3>2
    <2>7. both = [i \in 1 .. (next_in - 1) |-> both[i]]
      BY <2>5, LenProperties
    <2> QED
      BY <2>4, <2>6, <2>7
  <1> QED
    BY <1>1, Invariance, PTL
=============================================================================
