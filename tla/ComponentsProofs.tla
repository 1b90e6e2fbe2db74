-------------------------- MODULE ComponentsProofs --------------------------
(***************************************************************************)
(* Proofs about the components that share no state.  Each one has an       *)
(* inductive invariant of its own, shown to be kept by its steps; a step   *)
(* of another component leaves it alone.                                   *)
(***************************************************************************)
EXTENDS Components, SequenceTheorems, FiniteSetTheorems, WellFoundedInduction, TLAPS

\* Every step is one of the subject's, or leaves the component alone.
LEMMA StepOfUdp == [Next]_vars => [U!Next]_(U!vars)
  <1> SUFFICES ASSUME [Next]_vars PROVE [U!Next]_(U!vars)
    OBVIOUS
  <1>1. ASSUME Udp PROVE U!Next
    BY <1>1 DEF Udp
  <1>2. ASSUME ~Udp PROVE UNCHANGED uVars
    BY <1>2 DEF Next, vars, History, Escape, Frames, Display, Config, Bootstrap
  <1> QED
    BY <1>1, <1>2 DEF U!vars, uVars

\* The instances' finite sets are the ones of this module.
LEMMA UdpCardinality ==
    ASSUME NEW T
    PROVE  /\ U!IsFiniteSet(T) <=> IsFiniteSet(T)
           /\ U!Cardinality(T) = Cardinality(T)
  <1>1. U!IsFiniteSet(T) <=> IsFiniteSet(T)
    BY Zenon DEF U!IsFiniteSet, IsFiniteSet
  <1>2. U!Cardinality(T) = Cardinality(T)
    BY Zenon DEF U!Cardinality, Cardinality
  <1> QED
    BY <1>1, <1>2
-----------------------------------------------------------------------------
(* UdpDemux.  A socket that is open belongs to an entry of the map, the    *)
(* map is bounded by the eviction, and the age of an entry is the time for *)
(* which its sender has been silent.                                       *)

ReadersMapped == \A s \in Senders : U!Running(s) => s \in mapped

MapBounded == Cardinality(mapped) <= MaxSenders

AgesTrue == silent = age

UdpInv == U!TypeOK /\ ReadersMapped /\ MapBounded /\ AgesTrue

\* The senders are finitely many, and so are those of any part of the map.
LEMMA UdpSets ==
    ASSUME NEW T \in SUBSET Senders
    PROVE  IsFiniteSet(T) /\ Cardinality(T) \in Nat
  <1>1. IsFiniteSet(Senders)
    BY ComponentsAssumption, UdpCardinality DEF U!UdpDemuxAssumption
  <1> QED
    BY <1>1, FS_Subset, FS_CardinalityType

LEMMA UdpInit == Init => UdpInv
  <1> SUFFICES ASSUME Init PROVE UdpInv
    OBVIOUS
  <1>1. PICK st \in {"open", "closed"} : U!StartsAs(st)
    BY DEF Init
  <1>2. SenderIdle \in Nat /\ ReplyCap \in Nat /\ MaxSenders \in Nat
    BY ComponentsAssumption DEF U!UdpDemuxAssumption
  <1>3. U!TypeOK
    BY <1>1, <1>2 DEF U!StartsAs, U!TypeOK
  <1>4. ReadersMapped
    BY <1>1 DEF U!StartsAs, ReadersMapped, U!Running
  <1>5. MapBounded
    BY <1>1, <1>2, FS_EmptySet DEF U!StartsAs, MapBounded
  <1>6. AgesTrue
    BY <1>1 DEF U!StartsAs, AgesTrue
  <1> QED
    BY <1>3, <1>4, <1>5, <1>6 DEF UdpInv

\* Making room: with an entry evicted when the map is full, one more fits.
LEMMA RoomForOne ==
    ASSUME UdpInv, NEW victim \in U!Victims(mapped \ U!Idle), NEW s \in Senders,
           s \notin mapped \ U!Idle
    PROVE  /\ victim \subseteq mapped \ U!Idle
           /\ Cardinality((mapped \ (U!Idle \cup victim)) \cup {s}) <= MaxSenders
  <1> DEFINE kept == mapped \ U!Idle
             left == mapped \ (U!Idle \cup victim)
  <1>1. kept \in SUBSET Senders /\ left \in SUBSET Senders /\ left = kept \ victim
    BY DEF UdpInv, U!TypeOK
  <1>2. MaxSenders \in Nat
    BY ComponentsAssumption DEF U!UdpDemuxAssumption
  <1>3. IsFiniteSet(kept) /\ Cardinality(kept) \in Nat
    BY <1>1, UdpSets
  <1>4. Cardinality(kept) <= MaxSenders
    <2>1. IsFiniteSet(mapped) /\ Cardinality(mapped) \in Nat /\ kept \in SUBSET mapped
      BY UdpSets DEF UdpInv, U!TypeOK
    <2>2. Cardinality(kept) <= Cardinality(mapped)
      BY <2>1, FS_Subset
    <2> QED
      BY <1>2, <1>3, <2>1, <2>2 DEF UdpInv, MapBounded
  <1>5. victim \subseteq kept /\ Cardinality(left) < MaxSenders
    <2>1. CASE Cardinality(kept) < MaxSenders
      <3>1. victim = {}
        BY <2>1, UdpCardinality DEF U!Victims
      <3>2. left = kept
        BY <1>1, <3>1
      <3> QED
        BY <2>1, <3>1, <3>2
    <2>2. CASE ~(Cardinality(kept) < MaxSenders)
      <3>1. PICK v \in kept : victim = {v}
        BY <2>2, UdpCardinality DEF U!Victims
      <3>2. Cardinality(kept \ {v}) = Cardinality(kept) - 1
        BY <1>3, FS_RemoveElement
      <3>3. left = kept \ {v}
        BY <1>1, <3>1
      <3> QED
        BY <1>2, <1>3, <1>4, <3>1, <3>2, <3>3
    <2> QED
      BY <2>1, <2>2
  <1>6. IsFiniteSet(left) /\ Cardinality(left) \in Nat /\ s \notin left
    BY <1>1, UdpSets
  <1>7. Cardinality(left \cup {s}) = Cardinality(left) + 1
    BY <1>6, FS_AddElement
  <1> QED
    BY <1>2, <1>5, <1>6, <1>7

\* A part of the map is within the bound.
LEMMA FewerSenders ==
    ASSUME UdpInv, NEW T \in SUBSET mapped
    PROVE  Cardinality(T) <= MaxSenders
  <1>1. MaxSenders \in Nat
    BY ComponentsAssumption DEF U!UdpDemuxAssumption
  <1>2. IsFiniteSet(mapped) /\ Cardinality(mapped) \in Nat /\ Cardinality(T) \in Nat
    BY UdpSets DEF UdpInv, U!TypeOK
  <1>3. Cardinality(T) <= Cardinality(mapped)
    BY <1>2, FS_Subset
  <1> QED
    BY <1>1, <1>2, <1>3 DEF UdpInv, MapBounded

\* Types, for the steps of one sender and for the others.
LEMMA UdpTypeStep ==
    ASSUME UdpInv, U!Next
    PROVE  U!TypeOK'
  <1> USE DEF UdpInv, U!TypeOK
  <1>1. SenderIdle \in Nat /\ ReplyCap \in Nat \ {0}
    BY ComponentsAssumption DEF U!UdpDemuxAssumption
  <1>2. ASSUME NEW f \in [Senders -> 0 .. SenderIdle], NEW gone \in SUBSET Senders, NEW s \in Senders
        PROVE  /\ U!Dropping(f, gone, 0) \in [Senders -> 0 .. SenderIdle]
               /\ [U!Dropping(f, gone, 0) EXCEPT ![s] = 0] \in [Senders -> 0 .. SenderIdle]
               /\ [f EXCEPT ![s] = 0] \in [Senders -> 0 .. SenderIdle]
    <2>1. 0 \in 0 .. SenderIdle
      BY <1>1
    <2> QED
      BY <2>1 DEF U!Dropping
  <1>3. U!Idle \in SUBSET Senders
    BY DEF U!Idle
  <1>4. ASSUME NEW s \in Senders, U!KnownSender(s) PROVE U!TypeOK'
    <2>1. /\ age' \in [Senders -> 0 .. SenderIdle] /\ silent' \in [Senders -> 0 .. SenderIdle]
          /\ quiet' \in [Senders -> 0 .. SenderIdle]
      BY <1>2, <1>3, <1>4 DEF U!KnownSender
    <2>2. udp_reader' \in [Senders -> {"none", "wait", "send", "dead"}]
      BY <1>4 DEF U!KnownSender, U!Dropping
    <2>3. inbox' \in [Senders -> BOOLEAN]
      BY <1>4 DEF U!KnownSender, U!Dropping
    <2> QED
      BY <1>4, <2>1, <2>2, <2>3 DEF U!KnownSender
  <1>5. ASSUME NEW s \in Senders, U!NewSender(s) PROVE U!TypeOK'
    <2>1. PICK victim \in U!Victims(mapped \ U!Idle) :
             LET gone == U!Idle \cup victim IN
             /\ mapped' = (mapped \ gone) \cup {s}
             /\ age' = [U!Dropping(age, gone, 0) EXCEPT ![s] = 0]
             /\ silent' = [U!Dropping(silent, gone, 0) EXCEPT ![s] = 0]
             /\ udp_reader' = [U!Dropping(udp_reader, gone, "none") EXCEPT ![s] = "wait"]
             /\ quiet' = [U!Dropping(quiet, gone, 0) EXCEPT ![s] = 0]
             /\ inbox' = [U!Dropping(inbox, gone, FALSE) EXCEPT ![s] = FALSE]
      BY <1>5 DEF U!NewSender
    <2>2. mapped' \subseteq Senders
      BY <2>1
    <2>3. udp_reader' \in [Senders -> {"none", "wait", "send", "dead"}]
      BY <2>1 DEF U!Dropping
    <2>4. inbox' \in [Senders -> BOOLEAN]
      BY <2>1 DEF U!Dropping
    <2>5. victim \subseteq mapped
      BY <1>5, RoomForOne DEF U!NewSender
    <2>6. /\ age' \in [Senders -> 0 .. SenderIdle] /\ silent' \in [Senders -> 0 .. SenderIdle]
          /\ quiet' \in [Senders -> 0 .. SenderIdle]
      BY <1>2, <1>3, <2>1, <2>5
    <2> QED
      BY <1>5, <2>2, <2>3, <2>4, <2>6 DEF U!NewSender
  <1>6. ASSUME NEW s \in Senders, U!BindFails(s) PROVE U!TypeOK'
    <2>1. /\ age' \in [Senders -> 0 .. SenderIdle] /\ silent' \in [Senders -> 0 .. SenderIdle]
          /\ quiet' \in [Senders -> 0 .. SenderIdle]
      BY <1>2, <1>3, <1>6 DEF U!BindFails
    <2>2. udp_reader' \in [Senders -> {"none", "wait", "send", "dead"}]
      BY <1>6 DEF U!BindFails, U!Dropping
    <2>3. inbox' \in [Senders -> BOOLEAN]
      BY <1>6 DEF U!BindFails, U!Dropping
    <2> QED
      BY <1>6, <2>1, <2>2, <2>3 DEF U!BindFails
  <1>7. ASSUME NEW s \in Senders, U!TargetReplies(s) \/ U!ReaderReceives(s) PROVE U!TypeOK'
    <2>1. [quiet EXCEPT ![s] = 0] \in [Senders -> 0 .. SenderIdle]
      BY <1>2
    <2> QED
      BY <1>7, <2>1 DEF U!TargetReplies, U!ReaderReceives
  <1>8. ASSUME NEW s \in Senders, U!ReaderSends(s) PROVE U!TypeOK'
    BY <1>1, <1>8 DEF U!ReaderSends
  <1>9. ASSUME NEW s \in Senders, U!ReaderTimesOut(s) \/ U!ReaderFails(s) PROVE U!TypeOK'
    <2>1. [quiet EXCEPT ![s] = 0] \in [Senders -> 0 .. SenderIdle]
      BY <1>2
    <2> QED
      BY <1>9, <2>1 DEF U!ReaderTimesOut, U!ReaderFails
  <1>10. ASSUME U!WriteReply PROVE U!TypeOK'
    BY <1>1, <1>10 DEF U!WriteReply
  <1>11. ASSUME U!StreamEnds PROVE U!TypeOK'
    BY <1>1, <1>11 DEF U!StreamEnds
  <1>12. ASSUME U!Tick PROVE U!TypeOK'
    <2>1. /\ age' \in [Senders -> 0 .. SenderIdle] /\ silent' \in [Senders -> 0 .. SenderIdle]
          /\ quiet' \in [Senders -> 0 .. SenderIdle]
      BY <1>1, <1>12 DEF U!Tick, U!Older
    <2> QED
      BY <1>12, <2>1 DEF U!Tick
  <1> QED
    BY <1>4, <1>5, <1>6, <1>7, <1>8, <1>9, <1>10, <1>11, <1>12 DEF U!Next

\* A reader runs for an entry of the map: whatever drops an entry aborts its reader.
LEMMA UdpReadersStep ==
    ASSUME UdpInv, U!Next
    PROVE  ReadersMapped'
  <1> USE DEF UdpInv, U!TypeOK, ReadersMapped, U!Running
  <1>1. ASSUME NEW s \in Senders, U!KnownSender(s) \/ U!BindFails(s) PROVE ReadersMapped'
    BY <1>1 DEF U!KnownSender, U!BindFails, U!Dropping
  <1>2. ASSUME NEW s \in Senders, U!NewSender(s) PROVE ReadersMapped'
    <2>1. PICK victim \in U!Victims(mapped \ U!Idle) :
             LET gone == U!Idle \cup victim IN
             /\ mapped' = (mapped \ gone) \cup {s}
             /\ udp_reader' = [U!Dropping(udp_reader, gone, "none") EXCEPT ![s] = "wait"]
      BY <1>2 DEF U!NewSender
    <2>2. ASSUME NEW t \in Senders, t # s, U!Running(t)' PROVE t \in mapped'
      <3>1. udp_reader'[t] = IF t \in U!Idle \cup victim THEN "none" ELSE udp_reader[t]
        BY <2>1, <2>2 DEF U!Dropping
      <3> QED
        BY <2>1, <2>2, <3>1
    <2> QED
      BY <2>1, <2>2
  <1>3. ASSUME NEW s \in Senders,
               \/ U!TargetReplies(s) \/ U!ReaderReceives(s)
               \/ U!ReaderSends(s) \/ U!ReaderTimesOut(s) \/ U!ReaderFails(s)
        PROVE  ReadersMapped'
    BY <1>3 DEF U!TargetReplies, U!ReaderReceives, U!ReaderSends, U!ReaderTimesOut, U!ReaderFails
  <1>4. ASSUME U!WriteReply \/ U!StreamEnds \/ U!Tick PROVE ReadersMapped'
    BY <1>4 DEF U!WriteReply, U!StreamEnds, U!Tick
  <1> QED
    BY <1>1, <1>2, <1>3, <1>4 DEF U!Next

\* The map is bounded: only a new sender adds to it.
LEMMA UdpMapStep ==
    ASSUME UdpInv, U!Next
    PROVE  MapBounded'
  <1>1. ASSUME mapped' \subseteq mapped PROVE MapBounded'
    BY <1>1, FewerSenders DEF MapBounded
  <1>2. ASSUME NEW s \in Senders, U!NewSender(s) PROVE MapBounded'
    <2>1. PICK victim \in U!Victims(mapped \ U!Idle) :
             mapped' = (mapped \ (U!Idle \cup victim)) \cup {s}
      BY <1>2 DEF U!NewSender
    <2>2. s \notin mapped \ U!Idle
      BY <1>2 DEF U!NewSender
    <2> QED
      BY <2>1, <2>2, RoomForOne DEF MapBounded
  <1>3. ASSUME NEW s \in Senders,
               \/ U!KnownSender(s) \/ U!BindFails(s) \/ U!TargetReplies(s)
               \/ U!ReaderReceives(s) \/ U!ReaderSends(s) \/ U!ReaderTimesOut(s)
               \/ U!ReaderFails(s)
        PROVE  mapped' \subseteq mapped
    BY <1>3 DEF U!KnownSender, U!BindFails, U!TargetReplies, U!ReaderReceives,
                U!ReaderSends, U!ReaderTimesOut, U!ReaderFails
  <1>4. ASSUME U!WriteReply \/ U!StreamEnds \/ U!Tick PROVE mapped' \subseteq mapped
    BY <1>4 DEF U!WriteReply, U!StreamEnds, U!Tick
  <1> QED
    BY <1>1, <1>2, <1>3, <1>4 DEF U!Next

\* The age of an entry starts anew with every datagram of its sender.
LEMMA UdpAgesStep ==
    ASSUME UdpInv, U!Next
    PROVE  AgesTrue'
  <1> USE DEF AgesTrue
  <1>1. silent = age
    BY DEF UdpInv
  <1>2. ASSUME NEW s \in Senders, U!KnownSender(s) \/ U!NewSender(s) \/ U!BindFails(s)
        PROVE  AgesTrue'
    <2>1. ASSUME U!KnownSender(s) PROVE silent' = age'
      <3>1. /\ age' = [U!Dropping(age, U!Idle, 0) EXCEPT ![s] = 0]
            /\ silent' = [U!Dropping(silent, U!Idle, 0) EXCEPT ![s] = 0]
        BY <2>1 DEF U!KnownSender
      <3> QED
        BY <1>1, <3>1
    <2>2. ASSUME U!NewSender(s) PROVE silent' = age'
      <3>1. PICK victim \in U!Victims(mapped \ U!Idle) :
               /\ age' = [U!Dropping(age, U!Idle \cup victim, 0) EXCEPT ![s] = 0]
               /\ silent' = [U!Dropping(silent, U!Idle \cup victim, 0) EXCEPT ![s] = 0]
        BY <2>2 DEF U!NewSender
      <3> QED
        BY <1>1, <3>1
    <2>3. ASSUME U!BindFails(s) PROVE silent' = age'
      BY <1>1, <2>3 DEF U!BindFails
    <2> QED
      BY <1>2, <2>1, <2>2, <2>3
  <1>3. ASSUME NEW s \in Senders,
               \/ U!TargetReplies(s) \/ U!ReaderReceives(s) \/ U!ReaderSends(s)
               \/ U!ReaderTimesOut(s) \/ U!ReaderFails(s)
        PROVE  AgesTrue'
    BY <1>1, <1>3 DEF U!TargetReplies, U!ReaderReceives, U!ReaderSends, U!ReaderTimesOut,
                      U!ReaderFails
  <1>4. ASSUME U!WriteReply \/ U!StreamEnds \/ U!Tick PROVE AgesTrue'
    BY <1>1, <1>4 DEF U!WriteReply, U!StreamEnds, U!Tick
  <1> QED
    BY <1>2, <1>3, <1>4 DEF U!Next

\* The invariant of the UDP forward.
LEMMA UdpInvariance == Spec => []UdpInv
  <1>1. UdpInv /\ [Next]_vars => UdpInv'
    <2> SUFFICES ASSUME UdpInv, [Next]_vars PROVE UdpInv'
      OBVIOUS
    <2>1. CASE U!Next
      BY <2>1, UdpTypeStep, UdpReadersStep, UdpMapStep, UdpAgesStep DEF UdpInv
    <2>2. CASE UNCHANGED U!vars
      BY <2>2 DEF U!vars, UdpInv, U!TypeOK, ReadersMapped, U!Running, MapBounded, AgesTrue
    <2> QED
      BY <2>1, <2>2, StepOfUdp
  <1> QED
    BY <1>1, UdpInit, PTL DEF Spec

\* However datagrams, expiries, evictions, bind failures and the end of the
\* stream follow one another, the sockets of a UDP forward stay within
\* MAX_UDP_SENDERS (serve_udp_forward).
THEOREM SocketsWithinBound == Spec => []SocketsBounded
  <1>1. ASSUME UdpInv PROVE SocketsBounded
    <2>1. mapped \cup {s \in Senders : U!Running(s)} = mapped
      BY <1>1 DEF UdpInv, ReadersMapped
    <2> QED
      BY <1>1, <2>1, UdpCardinality DEF UdpInv, MapBounded, SocketsBounded, U!SocketsBounded
  <1> QED
    BY <1>1, UdpInvariance, PTL

\* A step that evicts for a new sender takes one entry, that of the sender which
\* has been silent longest, and only from a map that is full of live ones.
LEMMA EvictionStep ==
    ASSUME UdpInv, [U!Next]_(U!vars), udp_stream' = "open", NEW v \in mapped \ mapped'
    PROVE  \/ silent[v] >= SenderIdle
           \/ /\ U!Cardinality(mapped) = MaxSenders
              /\ \A t \in mapped \ {v} : t \in mapped' /\ silent[t] <= silent[v]
  <1>0. silent = age
    BY DEF UdpInv, AgesTrue
  <1> SUFFICES ASSUME v \notin U!Idle
               PROVE  /\ U!Cardinality(mapped) = MaxSenders
                      /\ \A t \in mapped \ {v} : t \in mapped' /\ silent[t] <= silent[v]
    BY <1>0 DEF U!Idle
  <1>1. PICK s \in Senders : U!NewSender(s)
    <2>1. ASSUME NEW s \in Senders, U!KnownSender(s) \/ U!BindFails(s) PROVE FALSE
      BY <2>1 DEF U!KnownSender, U!BindFails
    <2>2. ASSUME NEW s \in Senders,
                 \/ U!TargetReplies(s) \/ U!ReaderReceives(s)
                 \/ U!ReaderSends(s) \/ U!ReaderTimesOut(s) \/ U!ReaderFails(s)
          PROVE  FALSE
      BY <2>2 DEF U!TargetReplies, U!ReaderReceives, U!ReaderSends, U!ReaderTimesOut,
                  U!ReaderFails
    <2>3. ASSUME U!WriteReply \/ U!StreamEnds \/ U!Tick \/ UNCHANGED U!vars PROVE FALSE
      BY <2>3 DEF U!WriteReply, U!StreamEnds, U!Tick, U!vars
    <2> QED
      BY <2>1, <2>2, <2>3 DEF U!Next
  <1> DEFINE kept == mapped \ U!Idle
  <1>2. PICK victim \in U!Victims(kept) : mapped' = (mapped \ (U!Idle \cup victim)) \cup {s}
    BY <1>1 DEF U!NewSender
  <1>3. v \in victim
    BY <1>2
  <1>4. /\ Cardinality(kept) >= MaxSenders /\ victim = {v}
        /\ \A t \in kept : age[t] <= age[v]
    <2>1. MaxSenders \in Nat /\ Cardinality(kept) \in Nat
      BY ComponentsAssumption, UdpSets DEF U!UdpDemuxAssumption, UdpInv, U!TypeOK
    <2>2. ~(U!Cardinality(kept) < MaxSenders)
      BY <1>3 DEF U!Victims
    <2>3. PICK x \in kept : victim = {x} /\ \A t \in kept : age[t] <= age[x]
      BY <2>2 DEF U!Victims
    <2> QED
      BY <1>3, <2>1, <2>2, <2>3, UdpCardinality
  <1>5. U!Idle = {}
    <2> SUFFICES ASSUME NEW x \in U!Idle PROVE FALSE
      OBVIOUS
    <2>1. x \in mapped /\ x \notin kept /\ kept \in SUBSET (mapped \ {x})
      BY DEF U!Idle
    <2>2. /\ IsFiniteSet(mapped) /\ Cardinality(mapped) \in Nat
          /\ IsFiniteSet(mapped \ {x}) /\ Cardinality(kept) \in Nat
      BY UdpSets DEF UdpInv, U!TypeOK
    <2>3. Cardinality(mapped \ {x}) = Cardinality(mapped) - 1
      BY <2>1, <2>2, FS_RemoveElement
    <2>4. Cardinality(kept) <= Cardinality(mapped \ {x})
      BY <2>1, <2>2, FS_Subset
    <2>5. MaxSenders \in Nat
      BY ComponentsAssumption DEF U!UdpDemuxAssumption
    <2> QED
      BY <1>4, <2>2, <2>3, <2>4, <2>5 DEF UdpInv, MapBounded
  <1>6. kept = mapped
    BY <1>5
  <1>7. U!Cardinality(mapped) = MaxSenders
    <2>1. MaxSenders \in Nat /\ Cardinality(mapped) \in Nat
      BY ComponentsAssumption, UdpSets DEF U!UdpDemuxAssumption, UdpInv, U!TypeOK
    <2> QED
      BY <1>4, <1>6, <2>1, UdpCardinality DEF UdpInv, MapBounded
  <1>8. \A t \in mapped \ {v} : t \in mapped'
    BY <1>2, <1>4, <1>5
  <1> QED
    BY <1>0, <1>4, <1>6, <1>7, <1>8

\* A sender in use loses its entry only to a full map, and only when no other sender
\* of the map has been silent for longer: the age the eviction goes by is refreshed by
\* every datagram (serve_udp_forward).
THEOREM EvictionIsLru == Spec => EvictsOldest
  <1>1. UdpInv /\ [Next]_vars =>
          [udp_stream' = "open" =>
             \A v \in mapped \ mapped' :
                \/ silent[v] >= SenderIdle
                \/ /\ U!Cardinality(mapped) = MaxSenders
                   /\ \A t \in mapped \ {v} : t \in mapped' /\ silent[t] <= silent[v]]_(U!vars)
    BY StepOfUdp, EvictionStep
  <1> QED
    BY <1>1, UdpInvariance, PTL DEF Spec, EvictsOldest, U!EvictsOldest

-----------------------------------------------------------------------------
(* X11Display.  A process that serves a display, or cleans up after it in  *)
(* good order, still listens on the display's ports but those whose accept *)
(* loop ended, so no other one gets both ports and as far as xauth there   *)
(* before it has let go of all of them.  One whose xauth failed has let go *)
(* of the ports, but has the socket file, if there is one, until it        *)
(* removes it.                                                             *)

Binding == {"probe", "v4", "v6", "unix"}
Serving == {"add_unix", "add_tcp", "exported"}
Cleaning == {"rm_file", "rm_unix", "rm_tcp", "close"}

\* xauth fails at most once, and whoever was killed is off.
FateFits(p) ==
    /\ pc[p] \in Binding \cup Serving => fate[p] = "fine"
    /\ pc[p] \in Cleaning => fate[p] \in {"fine", "failed"}

\* Accept loops run, and fail, from the export on.
FaultsFit(p) == pc[p] \in Binding \cup {"add_unix", "add_tcp"} => faults[p] = {}

Staged == {"unix"} \cup Serving \cup Cleaning

\* The listeners are held from the bind until the end, unless xauth or their own
\* accept loop failed.
Listens(p) ==
    fate[p] = "fine" =>
        /\ pc[p] \in {"v6"} \cup Staged /\ "v4" \notin faults[p] => v4[disp[p]] = p
        /\ v6_on /\ pc[p] \in Staged /\ "v6" \notin faults[p] => v6[disp[p]] = p

\* The file is held until it is removed, however xauth fares.
HasFile(p) == unix_ok /\ pc[p] \in Serving \cup {"rm_file"} => socket_file[disp[p]] = p

\* A cookie that was added is there, unless the clean-up of a process that had let
\* go of the display took it.
HasCookies(p) ==
    /\ pc[p] = "add_tcp" \/ X!Holds(p) => auth_unix[disp[p]] = p \/ struck[p]
    /\ X!Holds(p) => auth_tcp[disp[p]] = p \/ struck[p]

\* What a process that was not killed has left on the host, and where.
FilePlace(p) ==
    \A d \in X!Displays : socket_file[d] = p =>
        /\ unix_ok
        /\ \/ fate[p] = "killed"
           \/ "rm_file" \in faults[p]
           \/ d = disp[p] /\ pc[p] \in Serving \cup {"rm_file"}

CookiePlace(p) ==
    \A d \in X!Displays :
        /\ auth_unix[d] = p =>
              \/ fate[p] = "killed" \/ "rm_unix" \in faults[p]
              \/ d = disp[p] /\ pc[p] \in {"add_tcp", "exported", "rm_file", "rm_unix"}
        /\ auth_tcp[d] = p =>
              \/ fate[p] = "killed" \/ "rm_tcp" \in faults[p]
              \/ d = disp[p] /\ pc[p] \in {"exported", "rm_file", "rm_unix", "rm_tcp"}

DisplayParts(p) ==
    /\ FateFits(p) /\ FaultsFit(p) /\ Listens(p) /\ HasFile(p)
    /\ HasCookies(p) /\ FilePlace(p) /\ CookiePlace(p)

\* Of two processes that got both ports of a display, one has let go of them.
Apart(p, q) ==
    p # q /\ {pc[p], pc[q]} \subseteq Staged /\ disp[p] = disp[q] => X!LetGo(p) \/ X!LetGo(q)

\* Whoever else got past the socket file of a process has let go of the ports.
FileApart(p, q) ==
    /\ unix_ok /\ p # q /\ disp[p] = disp[q]
    /\ pc[p] \in Serving \cup {"rm_file"} /\ pc[q] \in Serving \cup Cleaning
    => X!LetGo(q)

DisplayOwn == X!TypeOK /\ \A p \in Processes : DisplayParts(p)
DisplayPairs == \A p, q \in Processes : Apart(p, q) /\ FileApart(p, q)

DisplayInv == DisplayOwn /\ DisplayPairs

\* The step of the other processes, and of the other components.
LEMMA StepOfDisplay == [Next]_vars => [X!Next]_(X!vars)
  <1> SUFFICES ASSUME [Next]_vars PROVE [X!Next]_(X!vars)
    OBVIOUS
  <1>1. ASSUME Display PROVE X!Next
    BY <1>1 DEF Display
  <1>2. ASSUME ~Display PROVE UNCHANGED xVars
    BY <1>2 DEF Next, vars, History, Escape, Frames, Config, Udp, Bootstrap
  <1> QED
    BY <1>1, <1>2 DEF X!vars, X!host, X!socks, X!auth, xVars

LEMMA DisplayConstants ==
    /\ NumDisplays \in Nat \ {0} /\ 1 \in X!Displays
    /\ Nobody \notin Processes /\ Foreign \notin Processes
    /\ \A p, part : X!HeldAs(p, part) \in [X!Displays -> {Nobody, Foreign}]
  BY ComponentsAssumption DEF X!X11DisplayAssumption, X!Displays, X!HeldAs

\* The types, with the five tables of the host one by one.
DisplayTyped ==
    /\ v6_on \in BOOLEAN /\ unix_ok \in BOOLEAN
    /\ v4 \in [X!Displays -> X!Owners] /\ v6 \in [X!Displays -> X!Owners]
    /\ socket_file \in [X!Displays -> X!Owners]
    /\ auth_unix \in [X!Displays -> X!Owners] /\ auth_tcp \in [X!Displays -> X!Owners]
    /\ pc \in [Processes -> Binding \cup Serving \cup Cleaning \cup {"off"}]
    /\ disp \in [Processes -> X!Displays]
    /\ fate \in [Processes -> {"fine", "failed", "killed"}]
    /\ struck \in [Processes -> BOOLEAN]
    /\ faults \in [Processes -> SUBSET {"v4", "v6", "rm_file", "rm_unix", "rm_tcp"}]

LEMMA DisplayTypes == (X!TypeOK <=> DisplayTyped) /\ (X!TypeOK' <=> DisplayTyped')
  BY Zenon DEF X!TypeOK, DisplayTyped, Binding, Serving, Cleaning

LEMMA DisplayInit == Init => DisplayInv
  <1> SUFFICES ASSUME X!Init PROVE DisplayInv
    BY DEF Init
  <1>1. /\ v4 \in [X!Displays -> {Nobody, Foreign}] /\ v6 \in [X!Displays -> {Nobody, Foreign}]
        /\ socket_file \in [X!Displays -> {Nobody, Foreign}]
    BY DisplayConstants DEF X!Init
  <1>2. X!TypeOK
    BY <1>1, DisplayConstants, DisplayTypes DEF DisplayTyped, X!Init, X!Owners, Binding
  <1>3. ASSUME NEW p \in Processes PROVE DisplayParts(p)
    BY <1>1, DisplayConstants
    DEF X!Init, DisplayParts, FateFits, FaultsFit, Listens, HasFile, HasCookies, FilePlace,
        CookiePlace, X!Holds, Staged, Serving, Cleaning
  <1>4. DisplayPairs
    BY DEF X!Init, DisplayPairs, Apart, FileApart, Staged, Serving, Cleaning
  <1> QED
    BY <1>2, <1>3, <1>4 DEF DisplayInv, DisplayOwn

\* The steps of a process that try a display, in the form the proofs use.
LEMMA NextDisplayFacts ==
    ASSUME X!TypeOK, NEW p \in Processes, X!NextDisplay(p)
    PROVE  /\ disp' \in [Processes -> X!Displays]
           /\ pc' \in [Processes -> Binding \cup Serving \cup Cleaning \cup {"off"}]
           /\ pc'[p] \in {"probe", "off"}
           /\ \A q \in Processes \ {p} : pc'[q] = pc[q] /\ disp'[q] = disp[q]
  <1> USE DisplayTypes DEF DisplayTyped, Binding
  <1>1. CASE disp[p] + 1 \in X!Displays
    BY <1>1 DEF X!NextDisplay
  <1>2. CASE disp[p] + 1 \notin X!Displays
    BY <1>2 DEF X!NextDisplay, X!Goto
  <1> QED
    BY <1>1, <1>2

LEMMA GotoFacts ==
    ASSUME X!TypeOK, NEW p \in Processes,
           NEW step \in Binding \cup Serving \cup Cleaning \cup {"off"}, X!Goto(p, step)
    PROVE  /\ disp' = disp
           /\ pc' \in [Processes -> Binding \cup Serving \cup Cleaning \cup {"off"}]
           /\ pc'[p] = step
           /\ \A q \in Processes \ {p} : pc'[q] = pc[q]
  BY DisplayTypes DEF DisplayTyped, X!Goto

\* Taking an entry of a table and letting go of it.
LEMMA TableFacts ==
    ASSUME X!TypeOK, NEW p \in Processes, NEW f \in [X!Displays -> X!Owners]
    PROVE  /\ X!Take(f, p) \in [X!Displays -> X!Owners]
           /\ X!Take(f, p)[disp[p]] = p
           /\ \A d \in X!Displays \ {disp[p]} : X!Take(f, p)[d] = f[d]
           /\ X!Without(f, p) \in [X!Displays -> X!Owners]
           /\ \A d \in X!Displays : f[d] # p => X!Without(f, p)[d] = f[d]
           /\ \A d \in X!Displays : X!Without(f, p)[d] \in {f[d], Nobody}
           /\ [f EXCEPT ![disp[p]] = Nobody] \in [X!Displays -> X!Owners]
           /\ [f EXCEPT ![disp[p]] = Nobody][disp[p]] = Nobody
           /\ \A d \in X!Displays \ {disp[p]} : [f EXCEPT ![disp[p]] = Nobody][d] = f[d]
  BY DisplayTypes DEF DisplayTyped, X!Take, X!Without, X!Owners

LEMMA FaultFacts ==
    ASSUME X!TypeOK, NEW p \in Processes,
           NEW what \in {"v4", "v6", "rm_file", "rm_unix", "rm_tcp"}, X!Fault(p, what)
    PROVE  /\ faults' \in [Processes -> SUBSET {"v4", "v6", "rm_file", "rm_unix", "rm_tcp"}]
           /\ faults'[p] = faults[p] \cup {what}
           /\ \A q \in Processes \ {p} : faults'[q] = faults[q]
  BY DisplayTypes DEF DisplayTyped, X!Fault

\* What a step of one process must leave to another, q, for q's part to hold.
LEMMA OthersKeep ==
    ASSUME DisplayInv, NEW q \in Processes,
           UNCHANGED <<v6_on, unix_ok>>,
           pc'[q] = pc[q], disp'[q] = disp[q], fate'[q] = fate[q], faults'[q] = faults[q],
           struck[q] => struck'[q],
           v4[disp[q]] = q => v4'[disp[q]] = q,
           v6[disp[q]] = q => v6'[disp[q]] = q,
           socket_file[disp[q]] = q => socket_file'[disp[q]] = q,
           (pc[q] = "add_tcp" \/ X!Holds(q)) /\ auth_unix[disp[q]] = q =>
               auth_unix'[disp[q]] = q \/ struck'[q],
           X!Holds(q) /\ auth_tcp[disp[q]] = q => auth_tcp'[disp[q]] = q \/ struck'[q],
           \A d \in X!Displays :
              /\ socket_file'[d] = q => socket_file[d] = q
              /\ auth_unix'[d] = q => auth_unix[d] = q
              /\ auth_tcp'[d] = q => auth_tcp[d] = q
    PROVE  DisplayParts(q)'
  <1> USE DEF DisplayInv, DisplayOwn, DisplayParts
  <1>1. FateFits(q)' /\ FaultsFit(q)'
    BY DEF FateFits, FaultsFit
  <1>2. Listens(q)'
    BY DEF Listens
  <1>3. HasFile(q)'
    BY DEF HasFile
  <1>4. HasCookies(q)'
    <2>1. X!Holds(q)' <=> X!Holds(q)
      BY DEF X!Holds, X!TcpLoops
    <2> QED
      BY <2>1 DEF HasCookies
  <1>5. FilePlace(q)'
    BY DEF FilePlace
  <1>6. CookiePlace(q)'
    BY DEF CookiePlace
  <1> QED
    BY <1>1, <1>2, <1>3, <1>4, <1>5, <1>6

\* A process stays in its stage or leaves it, and what it has let go of it does not
\* get back, unless it is one of the two binds.
Stays(q) ==
    /\ pc'[q] \in Staged =>
          pc[q] \in Staged /\ disp'[q] = disp[q] /\ (X!LetGo(q) => X!LetGo(q)')
    /\ pc'[q] \in Serving \cup Cleaning => pc[q] \in Serving \cup Cleaning
    /\ pc'[q] \in Serving \cup {"rm_file"} => pc[q] \in Serving \cup {"rm_file"}

LEMMA OthersStay ==
    ASSUME NEW q \in Processes, UNCHANGED v6_on,
           pc'[q] = pc[q], disp'[q] = disp[q], fate'[q] = fate[q], faults'[q] = faults[q]
    PROVE  Stays(q)
  BY DEF Stays, X!LetGo, X!TcpLoops

LEMMA FileApartStays ==
    ASSUME DisplayInv, UNCHANGED unix_ok, NEW p \in Processes, NEW q \in Processes,
           Stays(p), Stays(q)
    PROVE  FileApart(p, q)'
  <1> SUFFICES ASSUME unix_ok, p # q, disp'[p] = disp'[q],
                      pc'[p] \in Serving \cup {"rm_file"}, pc'[q] \in Serving \cup Cleaning
               PROVE  X!LetGo(q)'
    BY DEF FileApart
  <1>1. pc'[p] \in Staged /\ pc'[q] \in Staged
    BY DEF Staged, Cleaning
  <1>2. /\ disp'[p] = disp[p] /\ pc[p] \in Serving \cup {"rm_file"}
        /\ disp'[q] = disp[q] /\ pc[q] \in Serving \cup Cleaning
        /\ X!LetGo(q) => X!LetGo(q)'
    BY <1>1 DEF Stays
  <1>3. X!LetGo(q)
    BY <1>2 DEF DisplayInv, DisplayPairs, FileApart
  <1> QED
    BY <1>2, <1>3

LEMMA PairsStay ==
    ASSUME DisplayInv, UNCHANGED unix_ok, \A q \in Processes : Stays(q)
    PROVE  DisplayPairs'
  <1>1. ASSUME NEW p \in Processes, NEW q \in Processes PROVE Apart(p, q)'
    BY DEF DisplayInv, DisplayPairs, Stays, Apart
  <1>2. ASSUME NEW p \in Processes, NEW q \in Processes PROVE FileApart(p, q)'
    BY FileApartStays
  <1> QED
    BY <1>1, <1>2 DEF DisplayPairs

LEMMA ProbeKeeps ==
    ASSUME DisplayInv, NEW p \in Processes, X!Probe(p)
    PROVE  DisplayInv'
  <1> USE DEF X!host, X!socks, X!auth
  <1>1. /\ pc[p] = "probe" /\ UNCHANGED <<v6_on, unix_ok, v4, v6, socket_file>>
        /\ UNCHANGED <<auth_unix, auth_tcp, fate, faults, struck>>
    BY DEF X!Probe
  <1>2. /\ disp' \in [Processes -> X!Displays]
        /\ pc' \in [Processes -> Binding \cup Serving \cup Cleaning \cup {"off"}]
        /\ pc'[p] \in {"probe", "off", "v4"}
        /\ \A q \in Processes \ {p} : pc'[q] = pc[q] /\ disp'[q] = disp[q]
    BY NextDisplayFacts, GotoFacts, DisplayTypes DEF DisplayTyped, X!Probe, DisplayInv, DisplayOwn, Binding
  <1>3. X!TypeOK'
    BY <1>1, <1>2, DisplayTypes DEF DisplayTyped, DisplayInv, DisplayOwn
  <1>4. DisplayParts(p)'
    BY <1>1, <1>2
    DEF DisplayInv, DisplayOwn, DisplayParts, FateFits, FaultsFit, Listens, HasFile, HasCookies,
        FilePlace, CookiePlace, X!Holds, Staged, Binding, Serving, Cleaning
  <1>5. ASSUME NEW q \in Processes, q # p PROVE DisplayParts(q)'
    BY <1>1, <1>2, <1>5, OthersKeep
  <1>6. DisplayPairs'
    <2>1. Stays(p)
      BY <1>1, <1>2 DEF Stays, X!LetGo, X!TcpLoops, Staged, Binding, Serving, Cleaning
    <2>2. ASSUME NEW q \in Processes, q # p PROVE Stays(q)
      BY <1>1, <1>2, <2>2, OthersStay
    <2> QED
      BY <1>1, <2>1, <2>2, PairsStay
  <1> QED
    BY <1>3, <1>4, <1>5, <1>6 DEF DisplayInv, DisplayOwn

LEMMA BindV4Keeps ==
    ASSUME DisplayInv, NEW p \in Processes, X!BindV4(p)
    PROVE  DisplayInv'
  <1> USE DEF X!host, X!auth
  <1>1. /\ pc[p] = "v4" /\ UNCHANGED <<v6_on, unix_ok, v6, socket_file>>
        /\ UNCHANGED <<auth_unix, auth_tcp, fate, faults, struck>>
    BY DEF X!BindV4
  <1>2. /\ disp' \in [Processes -> X!Displays]
        /\ pc' \in [Processes -> Binding \cup Serving \cup Cleaning \cup {"off"}]
        /\ \/ pc'[p] \in {"probe", "off"}
           \/ pc'[p] = "v6" /\ disp'[p] = disp[p] /\ v4'[disp[p]] = p
        /\ \A q \in Processes \ {p} : pc'[q] = pc[q] /\ disp'[q] = disp[q]
        /\ v4' \in [X!Displays -> X!Owners]
        /\ \A d \in X!Displays : v4[d] # Nobody => v4'[d] = v4[d]
    <2>1. CASE X!Free(v4, disp[p])
      BY <2>1, GotoFacts, TableFacts, DisplayTypes
      DEF DisplayTyped, X!BindV4, X!Free, DisplayInv, DisplayOwn, Binding
    <2>2. CASE ~X!Free(v4, disp[p])
      BY <2>2, NextDisplayFacts, DisplayTypes DEF DisplayTyped, X!BindV4, DisplayInv, DisplayOwn
    <2> QED
      BY <2>1, <2>2
  <1>3. X!TypeOK'
    BY <1>1, <1>2, DisplayTypes DEF DisplayTyped, DisplayInv, DisplayOwn
  <1>4. DisplayParts(p)'
    BY <1>1, <1>2
    DEF DisplayInv, DisplayOwn, DisplayParts, FateFits, FaultsFit, Listens, HasFile, HasCookies,
        FilePlace, CookiePlace, X!Holds, Staged, Binding, Serving, Cleaning
  <1>5. ASSUME NEW q \in Processes, q # p PROVE DisplayParts(q)'
    <2>1. v4[disp[q]] = q => v4'[disp[q]] = q
      BY <1>2, DisplayConstants, DisplayTypes DEF DisplayTyped, DisplayInv, DisplayOwn
    <2> QED
      BY <1>1, <1>2, <1>5, <2>1, OthersKeep
  <1>6. DisplayPairs'
    <2>1. Stays(p)
      BY <1>1, <1>2 DEF Stays, X!LetGo, X!TcpLoops, Staged, Binding, Serving, Cleaning
    <2>2. ASSUME NEW q \in Processes, q # p PROVE Stays(q)
      BY <1>1, <1>2, <2>2, OthersStay
    <2> QED
      BY <1>1, <2>1, <2>2, PairsStay
  <1> QED
    BY <1>3, <1>4, <1>5, <1>6 DEF DisplayInv, DisplayOwn

LEMMA BindV6Keeps ==
    ASSUME DisplayInv, NEW p \in Processes, X!BindV6(p)
    PROVE  DisplayInv'
  <1> USE DEF X!host, X!auth
  <1>1. /\ pc[p] = "v6" /\ UNCHANGED <<v6_on, unix_ok, socket_file>>
        /\ UNCHANGED <<auth_unix, auth_tcp, fate, faults, struck>>
    BY DEF X!BindV6
  <1>2. /\ disp' \in [Processes -> X!Displays]
        /\ pc' \in [Processes -> Binding \cup Serving \cup Cleaning \cup {"off"}]
        /\ \/ pc'[p] \in {"probe", "off"}
           \/ /\ pc'[p] = "unix" /\ disp'[p] = disp[p] /\ v4' = v4
              /\ v6_on => v6'[disp[p]] = p
        /\ \A q \in Processes \ {p} : pc'[q] = pc[q] /\ disp'[q] = disp[q]
        /\ v4' \in [X!Displays -> X!Owners] /\ v6' \in [X!Displays -> X!Owners]
        /\ \A d \in X!Displays : v4[d] # p => v4'[d] = v4[d]
        /\ \A d \in X!Displays : v6[d] # Nobody => v6'[d] = v6[d]
    <2>1. CASE v6_on /\ X!Free(v6, disp[p])
      BY <2>1, GotoFacts, TableFacts, DisplayTypes
      DEF DisplayTyped, X!BindV6, X!Free, DisplayInv, DisplayOwn, Binding
    <2>2. CASE ~v6_on
      BY <2>2, GotoFacts, DisplayTypes DEF DisplayTyped, X!BindV6, DisplayInv, DisplayOwn, Binding
    <2>3. CASE v6_on /\ ~X!Free(v6, disp[p])
      BY <2>3, NextDisplayFacts, TableFacts, DisplayTypes DEF DisplayTyped, X!BindV6, DisplayInv, DisplayOwn
    <2> QED
      BY <2>1, <2>2, <2>3
  <1>3. X!TypeOK'
    BY <1>1, <1>2, DisplayTypes DEF DisplayTyped, DisplayInv, DisplayOwn
  <1>4. DisplayParts(p)'
    BY <1>1, <1>2
    DEF DisplayInv, DisplayOwn, DisplayParts, FateFits, FaultsFit, Listens, HasFile, HasCookies,
        FilePlace, CookiePlace, X!Holds, Staged, Binding, Serving, Cleaning
  <1>5. ASSUME NEW q \in Processes, q # p PROVE DisplayParts(q)'
    <2>1. (v4[disp[q]] = q => v4'[disp[q]] = q) /\ (v6[disp[q]] = q => v6'[disp[q]] = q)
      BY <1>2, <1>5, DisplayConstants, DisplayTypes DEF DisplayTyped, DisplayInv, DisplayOwn
    <2> QED
      BY <1>1, <1>2, <1>5, <2>1, OthersKeep
  <1>6. DisplayPairs'
    <2>1. ASSUME NEW q \in Processes, q # p PROVE Stays(q)
      BY <1>1, <1>2, <2>1, OthersStay
    <2>2. CASE pc'[p] \in {"probe", "off"}
      <3>1. Stays(p)
        BY <2>2 DEF Stays, Staged, Serving, Cleaning
      <3> QED
        BY <1>1, <2>1, <3>1, PairsStay
    <2>3. CASE pc'[p] = "unix" /\ disp'[p] = disp[p] /\ v4' = v4 /\ (v6_on => v6'[disp[p]] = p)
      <3>1. v4[disp[p]] = p
        BY <1>1 DEF DisplayInv, DisplayOwn, DisplayParts, FateFits, FaultsFit, Listens, Binding
      <3>2. ASSUME NEW q \in Processes, q # p, pc[q] \in Staged, disp[q] = disp[p]
            PROVE  X!LetGo(q)'
        <4>1. CASE fate[q] = "failed"
          BY <1>1, <4>1 DEF X!LetGo
        <4>2. CASE fate[q] = "fine"
          <5>1. "v4" \in faults[q]
            BY <3>1, <3>2, <4>2 DEF DisplayInv, DisplayOwn, DisplayParts, Listens
          <5>2. v6_on => v6[disp[p]] # q
            BY <1>2, <2>3, <3>2, DisplayConstants, DisplayTypes
            DEF DisplayTyped, DisplayInv, DisplayOwn
          <5>3. v6_on => "v6" \in faults[q]
            BY <3>2, <4>2, <5>2 DEF DisplayInv, DisplayOwn, DisplayParts, Listens
          <5> QED
            BY <1>1, <5>1, <5>3 DEF X!LetGo, X!TcpLoops
        <4>3. fate[q] \in {"fine", "failed"}
          BY <3>2 DEF DisplayInv, DisplayOwn, DisplayParts, FateFits, Staged, Binding
        <4> QED
          BY <4>1, <4>2, <4>3
      <3>3. ASSUME NEW q \in Processes PROVE Apart(p, q)' /\ Apart(q, p)'
        BY <1>2, <2>3, <3>2, <3>3 DEF Apart
      <3>4. ASSUME NEW t \in Processes, NEW q \in Processes, t # p, q # p PROVE Apart(t, q)'
        BY <2>1, <3>4 DEF DisplayInv, DisplayPairs, Stays, Apart
      <3>5. ASSUME NEW t \in Processes, NEW q \in Processes PROVE FileApart(t, q)'
        <4>1. CASE t = p \/ q = p
          BY <2>3, <4>1 DEF FileApart, Serving, Cleaning
        <4>2. CASE t # p /\ q # p
          BY <1>1, <2>1, <4>2, FileApartStays
        <4> QED
          BY <4>1, <4>2
      <3> QED
        BY <3>3, <3>4, <3>5 DEF DisplayPairs
    <2> QED
      BY <1>2, <2>2, <2>3
  <1> QED
    BY <1>3, <1>4, <1>5, <1>6 DEF DisplayInv, DisplayOwn

\* A process that has not exported its display yet has let go of nothing.
LEMMA StillHas ==
    ASSUME DisplayInv, NEW p \in Processes, pc[p] \in {"unix", "add_unix", "add_tcp"}
    PROVE  ~X!LetGo(p)
  <1>1. fate[p] = "fine" /\ faults[p] = {}
    BY DEF DisplayInv, DisplayOwn, DisplayParts, FateFits, FaultsFit, Binding, Serving
  <1> QED
    BY <1>1 DEF X!LetGo, X!TcpLoops

LEMMA BindUnixKeeps ==
    ASSUME DisplayInv, NEW p \in Processes, X!BindUnix(p)
    PROVE  DisplayInv'
  <1> USE DEF X!host, X!auth
  <1>1. /\ pc[p] = "unix" /\ UNCHANGED <<v6_on, unix_ok>>
        /\ UNCHANGED <<auth_unix, auth_tcp, fate, faults, struck>>
    BY DEF X!BindUnix
  <1>2. /\ disp' \in [Processes -> X!Displays]
        /\ pc' \in [Processes -> Binding \cup Serving \cup Cleaning \cup {"off"}]
        /\ \/ pc'[p] \in {"probe", "off"} /\ socket_file' = socket_file
           \/ /\ pc'[p] = "add_unix" /\ disp'[p] = disp[p] /\ v4' = v4 /\ v6' = v6
              /\ unix_ok => /\ socket_file'[disp[p]] = p
                            /\ \A d \in X!Displays \ {disp[p]} : socket_file'[d] = socket_file[d]
              /\ ~unix_ok => socket_file' = socket_file
        /\ \A q \in Processes \ {p} : pc'[q] = pc[q] /\ disp'[q] = disp[q]
        /\ v4' \in [X!Displays -> X!Owners] /\ v6' \in [X!Displays -> X!Owners]
        /\ socket_file' \in [X!Displays -> X!Owners]
        /\ \A d \in X!Displays : (v4[d] # p => v4'[d] = v4[d]) /\ (v6[d] # p => v6'[d] = v6[d])
        /\ \A d \in X!Displays : socket_file[d] # Nobody => socket_file'[d] = socket_file[d]
    <2>1. CASE unix_ok /\ ~X!Free(socket_file, disp[p])
      BY <2>1, NextDisplayFacts, TableFacts, DisplayTypes
      DEF DisplayTyped, X!BindUnix, DisplayInv, DisplayOwn, Binding
    <2>2. CASE unix_ok /\ X!Free(socket_file, disp[p])
      BY <2>2, GotoFacts, TableFacts, DisplayTypes
      DEF DisplayTyped, X!BindUnix, X!Free, DisplayInv, DisplayOwn, Serving
    <2>3. CASE ~unix_ok
      BY <2>3, GotoFacts, DisplayTypes DEF DisplayTyped, X!BindUnix, DisplayInv, DisplayOwn, Serving
    <2> QED
      BY <2>1, <2>2, <2>3
  <1>3. X!TypeOK'
    BY <1>1, <1>2, DisplayTypes DEF DisplayTyped, DisplayInv, DisplayOwn
  <1>4. DisplayParts(p)'
    BY <1>1, <1>2
    DEF DisplayInv, DisplayOwn, DisplayParts, FateFits, FaultsFit, Listens, HasFile, HasCookies,
        FilePlace, CookiePlace, X!Holds, Staged, Binding, Serving, Cleaning
  <1>5. ASSUME NEW q \in Processes, q # p PROVE DisplayParts(q)'
    <2>1. /\ (v4[disp[q]] = q => v4'[disp[q]] = q) /\ (v6[disp[q]] = q => v6'[disp[q]] = q)
          /\ socket_file[disp[q]] = q => socket_file'[disp[q]] = q
      BY <1>2, <1>5, DisplayConstants, DisplayTypes DEF DisplayTyped, DisplayInv, DisplayOwn
    <2>2. \A d \in X!Displays : socket_file'[d] = q => socket_file[d] = q
      BY <1>2, <1>5
    <2> QED
      BY <1>1, <1>2, <1>5, <2>1, <2>2, OthersKeep
  <1>6. DisplayPairs'
    <2>1. ASSUME NEW q \in Processes, q # p PROVE Stays(q)
      BY <1>1, <1>2, <2>1, OthersStay
    <2>2. CASE pc'[p] \in {"probe", "off"}
      <3>1. Stays(p)
        BY <2>2 DEF Stays, Staged, Serving, Cleaning
      <3> QED
        BY <1>1, <2>1, <3>1, PairsStay
    <2>3. CASE /\ pc'[p] = "add_unix" /\ disp'[p] = disp[p]
               /\ unix_ok => socket_file'[disp[p]] = p
      <3>1. ASSUME NEW t \in Processes, NEW q \in Processes PROVE Apart(t, q)'
        <4>1. \A u \in {t, q} : pc'[u] \in Staged =>
                 pc[u] \in Staged /\ disp'[u] = disp[u] /\ (X!LetGo(u) => X!LetGo(u)')
          BY <1>1, <2>1, <2>3 DEF Stays, X!LetGo, X!TcpLoops, Staged
        <4> QED
          BY <4>1 DEF DisplayInv, DisplayPairs, Apart
      <3>2. ASSUME NEW q \in Processes, unix_ok PROVE FileApart(p, q)'
        <4>1. SUFFICES ASSUME q # p, disp[q] = disp[p], pc[q] \in Serving \cup Cleaning
                       PROVE  X!LetGo(q)'
          BY <1>2, <2>3 DEF FileApart
        <4>2. X!LetGo(q)
          BY <1>1, <4>1, StillHas DEF DisplayInv, DisplayPairs, Apart, Staged
        <4> QED
          BY <1>1, <4>2 DEF X!LetGo, X!TcpLoops
      <3>3. ASSUME NEW t \in Processes, unix_ok PROVE FileApart(t, p)'
        <4>1. SUFFICES ASSUME t # p, disp[t] = disp[p], pc[t] \in Serving \cup {"rm_file"}
                       PROVE  FALSE
          BY <1>2, <2>3 DEF FileApart
        <4>2. socket_file[disp[p]] = t
          BY <3>3, <4>1 DEF DisplayInv, DisplayOwn, DisplayParts, HasFile
        <4> QED
          BY <1>2, <2>3, <3>3, <4>1, <4>2, DisplayConstants, DisplayTypes
          DEF DisplayTyped, DisplayInv, DisplayOwn
      <3>4. ASSUME NEW t \in Processes, NEW q \in Processes, t # p, q # p PROVE FileApart(t, q)'
        BY <1>1, <2>1, <3>4, FileApartStays
      <3>5. ASSUME NEW t \in Processes, NEW q \in Processes PROVE FileApart(t, q)'
        <4>1. CASE ~unix_ok
          BY <1>1, <4>1 DEF FileApart
        <4> QED
          BY <3>2, <3>3, <3>4, <4>1
      <3> QED
        BY <3>1, <3>5 DEF DisplayPairs
    <2> QED
      BY <1>2, <2>2, <2>3
  <1> QED
    BY <1>3, <1>4, <1>5, <1>6 DEF DisplayInv, DisplayOwn

\* Two processes that hold a display, or are about to export it, have not the same.
LEMMA HeldAlone ==
    ASSUME DisplayInv, NEW p \in Processes, NEW q \in Processes, p # q, disp[p] = disp[q],
           pc[p] \in {"add_unix", "add_tcp"} \/ X!Holds(p),
           pc[q] \in {"add_unix", "add_tcp"} \/ X!Holds(q)
    PROVE  FALSE
  <1>1. pc[p] \in Serving /\ pc[q] \in Serving
    BY DEF X!Holds, Serving
  <1>2. CASE unix_ok
    BY <1>1, <1>2 DEF DisplayInv, DisplayOwn, DisplayParts, HasFile
  <1>3. CASE ~unix_ok
    <2>1. ASSUME NEW t \in {p, q} PROVE ~X!LetGo(t)
      <3>1. CASE pc[t] \in {"add_unix", "add_tcp"}
        BY <3>1, StillHas
      <3>2. CASE X!Holds(t)
        <4>1. fate[t] = "fine"
          BY <1>1 DEF DisplayInv, DisplayOwn, DisplayParts, FateFits
        <4> QED
          BY <1>3, <3>2, <4>1 DEF X!Holds, X!LetGo
      <3> QED
        BY <3>1, <3>2
    <2>2. X!LetGo(p) \/ X!LetGo(q)
      BY <1>1 DEF DisplayInv, DisplayPairs, Apart, Staged
    <2> QED
      BY <2>1, <2>2
  <1> QED
    BY <1>2, <1>3

\* Whoever adds a cookie has the display, so nobody else has one there to lose.
LEMMA XauthAddKeeps ==
    ASSUME DisplayInv, NEW p \in Processes, X!XauthAdd(p)
    PROVE  DisplayInv'
  <1> USE DEF X!host, X!socks
  <1>1. UNCHANGED <<v6_on, unix_ok, v4, v6, socket_file, fate, faults, struck>>
    BY DEF X!XauthAdd
  <1>2. /\ disp' = disp
        /\ pc' \in [Processes -> Binding \cup Serving \cup Cleaning \cup {"off"}]
        /\ \A q \in Processes \ {p} : pc'[q] = pc[q]
        /\ auth_unix' \in [X!Displays -> X!Owners] /\ auth_tcp' \in [X!Displays -> X!Owners]
        /\ \A d \in X!Displays \ {disp[p]} :
              auth_unix'[d] = auth_unix[d] /\ auth_tcp'[d] = auth_tcp[d]
        /\ auth_unix'[disp[p]] \in {auth_unix[disp[p]], p}
        /\ auth_tcp'[disp[p]] \in {auth_tcp[disp[p]], p}
        /\ \/ pc[p] = "add_unix" /\ pc'[p] = "add_tcp" /\ auth_unix'[disp[p]] = p
              /\ auth_tcp' = auth_tcp
           \/ pc[p] = "add_tcp" /\ pc'[p] = "exported" /\ auth_tcp'[disp[p]] = p
              /\ auth_unix' = auth_unix
    <2>1. CASE pc[p] = "add_unix"
      BY <2>1, GotoFacts, TableFacts, DisplayTypes
      DEF DisplayTyped, X!XauthAdd, DisplayInv, DisplayOwn, Serving
    <2>2. CASE pc[p] = "add_tcp"
      BY <2>2, GotoFacts, TableFacts, DisplayTypes
      DEF DisplayTyped, X!XauthAdd, DisplayInv, DisplayOwn, Serving
    <2> QED
      BY <2>1, <2>2 DEF X!XauthAdd
  <1>3. X!TypeOK'
    BY <1>1, <1>2, DisplayTypes DEF DisplayTyped, DisplayInv, DisplayOwn
  <1>4. DisplayParts(p)'
    BY <1>1, <1>2
    DEF DisplayInv, DisplayOwn, DisplayParts, FateFits, FaultsFit, Listens, HasFile, HasCookies,
        FilePlace, CookiePlace, X!Holds, Staged, Binding, Serving, Cleaning
  <1>5. ASSUME NEW q \in Processes, q # p PROVE DisplayParts(q)'
    <2>1. pc[p] \in {"add_unix", "add_tcp"}
      BY <1>2
    <2>2. pc[q] = "add_tcp" \/ X!Holds(q) => disp[q] # disp[p]
      BY <1>5, <2>1, HeldAlone
    <2>3. disp[q] \in X!Displays
      BY DisplayTypes DEF DisplayTyped, DisplayInv, DisplayOwn
    <2>4. \A d \in X!Displays :
             (auth_unix'[d] = q => auth_unix[d] = q) /\ (auth_tcp'[d] = q => auth_tcp[d] = q)
      BY <1>2, <1>5
    <2> QED
      BY <1>1, <1>2, <1>5, <2>2, <2>3, <2>4, OthersKeep
  <1>6. DisplayPairs'
    <2>1. Stays(p)
      BY <1>1, <1>2 DEF Stays, X!LetGo, X!TcpLoops, Staged, Binding, Serving, Cleaning
    <2>2. ASSUME NEW q \in Processes, q # p PROVE Stays(q)
      BY <1>1, <1>2, <2>2, OthersStay
    <2> QED
      BY <1>1, <2>1, <2>2, PairsStay
  <1> QED
    BY <1>3, <1>4, <1>5, <1>6 DEF DisplayInv, DisplayOwn

LEMMA XauthFailsKeeps ==
    ASSUME DisplayInv, NEW p \in Processes, X!XauthFails(p)
    PROVE  DisplayInv'
  <1> USE DEF X!host, X!auth
  <1>1. /\ pc[p] \in {"add_unix", "add_tcp"} /\ UNCHANGED <<v6_on, unix_ok, socket_file>>
        /\ UNCHANGED <<auth_unix, auth_tcp, faults, struck>>
        /\ fate' = [fate EXCEPT ![p] = "failed"]
    BY DEF X!XauthFails
  <1>2. /\ disp' = disp
        /\ pc' \in [Processes -> Binding \cup Serving \cup Cleaning \cup {"off"}]
        /\ pc'[p] = "rm_file"
        /\ \A q \in Processes \ {p} : pc'[q] = pc[q]
        /\ v4' \in [X!Displays -> X!Owners] /\ v6' \in [X!Displays -> X!Owners]
        /\ \A d \in X!Displays : (v4[d] # p => v4'[d] = v4[d]) /\ (v6[d] # p => v6'[d] = v6[d])
    BY GotoFacts, TableFacts, DisplayTypes
    DEF DisplayTyped, X!XauthFails, DisplayInv, DisplayOwn, Cleaning
  <1>3. /\ fate' \in [Processes -> {"fine", "failed", "killed"}]
        /\ fate'[p] = "failed" /\ \A q \in Processes \ {p} : fate'[q] = fate[q]
    BY <1>1, DisplayTypes DEF DisplayTyped, DisplayInv, DisplayOwn
  <1>4. X!TypeOK'
    BY <1>1, <1>2, <1>3, DisplayTypes DEF DisplayTyped, DisplayInv, DisplayOwn
  <1>5. DisplayParts(p)'
    BY <1>1, <1>2, <1>3
    DEF DisplayInv, DisplayOwn, DisplayParts, FateFits, FaultsFit, Listens, HasFile, HasCookies,
        FilePlace, CookiePlace, X!Holds, Staged, Binding, Serving, Cleaning
  <1>6. ASSUME NEW q \in Processes, q # p PROVE DisplayParts(q)'
    <2>1. (v4[disp[q]] = q => v4'[disp[q]] = q) /\ (v6[disp[q]] = q => v6'[disp[q]] = q)
      BY <1>2, <1>6, DisplayTypes DEF DisplayTyped, DisplayInv, DisplayOwn
    <2> QED
      BY <1>1, <1>2, <1>3, <1>6, <2>1, OthersKeep
  <1>7. DisplayPairs'
    <2>1. Stays(p)
      BY <1>1, <1>2, <1>3 DEF Stays, X!LetGo, X!TcpLoops, Staged, Binding, Serving, Cleaning
    <2>2. ASSUME NEW q \in Processes, q # p PROVE Stays(q)
      BY <1>1, <1>2, <1>3, <2>2, OthersStay
    <2> QED
      BY <1>1, <2>1, <2>2, PairsStay
  <1> QED
    BY <1>4, <1>5, <1>6, <1>7 DEF DisplayInv, DisplayOwn

LEMMA SessionEndsKeeps ==
    ASSUME DisplayInv, NEW p \in Processes, X!SessionEnds(p)
    PROVE  DisplayInv'
  <1> USE DEF X!host, X!socks, X!auth
  <1>1. /\ pc[p] = "exported" /\ UNCHANGED <<v6_on, unix_ok, v4, v6, socket_file>>
        /\ UNCHANGED <<auth_unix, auth_tcp, fate, faults, struck>>
    BY DEF X!SessionEnds
  <1>2. /\ disp' = disp
        /\ pc' \in [Processes -> Binding \cup Serving \cup Cleaning \cup {"off"}]
        /\ pc'[p] = "rm_file"
        /\ \A q \in Processes \ {p} : pc'[q] = pc[q]
    BY GotoFacts DEF X!SessionEnds, DisplayInv, DisplayOwn, Cleaning
  <1>3. X!TypeOK'
    BY <1>1, <1>2, DisplayTypes DEF DisplayTyped, DisplayInv, DisplayOwn
  <1>4. DisplayParts(p)'
    BY <1>1, <1>2
    DEF DisplayInv, DisplayOwn, DisplayParts, FateFits, FaultsFit, Listens, HasFile, HasCookies,
        FilePlace, CookiePlace, X!Holds, Staged, Binding, Serving, Cleaning
  <1>5. ASSUME NEW q \in Processes, q # p PROVE DisplayParts(q)'
    BY <1>1, <1>2, <1>5, OthersKeep
  <1>6. DisplayPairs'
    <2>1. Stays(p)
      BY <1>1, <1>2 DEF Stays, X!LetGo, X!TcpLoops, Staged, Binding, Serving, Cleaning
    <2>2. ASSUME NEW q \in Processes, q # p PROVE Stays(q)
      BY <1>1, <1>2, <2>2, OthersStay
    <2> QED
      BY <1>1, <2>1, <2>2, PairsStay
  <1> QED
    BY <1>3, <1>4, <1>5, <1>6 DEF DisplayInv, DisplayOwn

\* An accept loop that ends takes nothing but its own port.
LEMMA AcceptFailsKeeps ==
    ASSUME DisplayInv, NEW p \in Processes, NEW loop \in X!TcpLoops, X!AcceptFails(p, loop)
    PROVE  DisplayInv'
  <1> USE DEF X!host, X!auth
  <1>1. /\ pc[p] \in {"exported"} \cup Cleaning /\ fate[p] = "fine" /\ loop \in {"v4", "v6"}
        /\ UNCHANGED <<v6_on, unix_ok, socket_file, auth_unix, auth_tcp, pc, disp, fate, struck>>
        /\ X!Fault(p, loop)
    BY DEF X!AcceptFails, X!TcpLoops, Cleaning
  <1>2. /\ faults' \in [Processes -> SUBSET {"v4", "v6", "rm_file", "rm_unix", "rm_tcp"}]
        /\ faults'[p] = faults[p] \cup {loop}
        /\ \A q \in Processes \ {p} : faults'[q] = faults[q]
    BY <1>1, FaultFacts DEF DisplayInv, DisplayOwn
  <1>3. /\ v4' \in [X!Displays -> X!Owners] /\ v6' \in [X!Displays -> X!Owners]
        /\ \A d \in X!Displays : (v4[d] # p => v4'[d] = v4[d]) /\ (v6[d] # p => v6'[d] = v6[d])
        /\ (loop # "v4" => v4' = v4) /\ (loop # "v6" => v6' = v6)
    BY TableFacts, DisplayTypes DEF DisplayTyped, X!AcceptFails, DisplayInv, DisplayOwn
  <1>4. X!TypeOK'
    BY <1>1, <1>2, <1>3, DisplayTypes DEF DisplayTyped, DisplayInv, DisplayOwn
  <1>5. DisplayParts(p)'
    <2>1. X!Holds(p)' => X!Holds(p)
      BY <1>1, <1>2 DEF X!Holds, X!TcpLoops
    <2>2. HasCookies(p)'
      BY <1>1, <2>1 DEF DisplayInv, DisplayOwn, DisplayParts, HasCookies, Cleaning
    <2>3. FateFits(p)' /\ FaultsFit(p)' /\ HasFile(p)' /\ FilePlace(p)' /\ CookiePlace(p)'
      BY <1>1, <1>2
      DEF DisplayInv, DisplayOwn, DisplayParts, FateFits, FaultsFit, HasFile, FilePlace,
          CookiePlace, Binding, Cleaning
    <2>4. Listens(p)'
      BY <1>1, <1>2, <1>3 DEF DisplayInv, DisplayOwn, DisplayParts, Listens
    <2> QED
      BY <2>2, <2>3, <2>4 DEF DisplayParts
  <1>6. ASSUME NEW q \in Processes, q # p PROVE DisplayParts(q)'
    <2>1. (v4[disp[q]] = q => v4'[disp[q]] = q) /\ (v6[disp[q]] = q => v6'[disp[q]] = q)
      BY <1>3, <1>6, DisplayTypes DEF DisplayTyped, DisplayInv, DisplayOwn
    <2> QED
      BY <1>1, <1>2, <1>6, <2>1, OthersKeep
  <1>7. DisplayPairs'
    <2>1. Stays(p)
      BY <1>1, <1>2 DEF Stays, X!LetGo, X!TcpLoops, Staged, Binding, Serving, Cleaning
    <2>2. ASSUME NEW q \in Processes, q # p PROVE Stays(q)
      BY <1>1, <1>2, <2>2, OthersStay
    <2> QED
      BY <1>1, <2>1, <2>2, PairsStay
  <1> QED
    BY <1>4, <1>5, <1>6, <1>7 DEF DisplayInv, DisplayOwn

\* The file that is removed, or not, is the process's own.
LEMMA RemoveFileKeeps ==
    ASSUME DisplayInv, NEW p \in Processes, X!RemoveFile(p)
    PROVE  DisplayInv'
  <1> USE DEF X!host, X!auth
  <1>1. /\ pc[p] = "rm_file" /\ UNCHANGED <<v6_on, unix_ok, v4, v6>>
        /\ UNCHANGED <<auth_unix, auth_tcp, fate, struck>>
    BY DEF X!RemoveFile
  <1>2. /\ disp' = disp
        /\ pc' \in [Processes -> Binding \cup Serving \cup Cleaning \cup {"off"}]
        /\ pc'[p] = "rm_unix"
        /\ \A q \in Processes \ {p} : pc'[q] = pc[q]
    BY GotoFacts DEF X!RemoveFile, DisplayInv, DisplayOwn, Cleaning
  <1>3. /\ faults' \in [Processes -> SUBSET {"v4", "v6", "rm_file", "rm_unix", "rm_tcp"}]
        /\ faults'[p] \in {faults[p], faults[p] \cup {"rm_file"}}
        /\ \A q \in Processes \ {p} : faults'[q] = faults[q]
        /\ socket_file' \in [X!Displays -> X!Owners]
        /\ \A d \in X!Displays \ {disp[p]} : socket_file'[d] = socket_file[d]
        /\ socket_file'[disp[p]] \in {socket_file[disp[p]], Nobody}
        /\ unix_ok => socket_file'[disp[p]] = Nobody \/ "rm_file" \in faults'[p]
        /\ ~unix_ok => socket_file' = socket_file
    <2>1. CASE unix_ok /\ socket_file' = [socket_file EXCEPT ![disp[p]] = Nobody] /\ UNCHANGED faults
      <3>1. /\ socket_file' \in [X!Displays -> X!Owners]
            /\ socket_file'[disp[p]] = Nobody
            /\ \A d \in X!Displays \ {disp[p]} : socket_file'[d] = socket_file[d]
        BY <2>1, DisplayTypes DEF DisplayTyped, DisplayInv, DisplayOwn, X!Owners
      <3> QED
        BY <2>1, <3>1, DisplayTypes DEF DisplayTyped, DisplayInv, DisplayOwn
    <2>2. CASE unix_ok /\ X!Fault(p, "rm_file") /\ UNCHANGED socket_file
      BY <2>2, FaultFacts, DisplayTypes DEF DisplayTyped, DisplayInv, DisplayOwn
    <2>3. CASE ~unix_ok /\ UNCHANGED <<socket_file, faults>>
      BY <2>3, DisplayTypes DEF DisplayTyped, DisplayInv, DisplayOwn
    <2> QED
      BY <2>1, <2>2, <2>3 DEF X!RemoveFile
  <1>4. X!TypeOK'
    BY <1>1, <1>2, <1>3, DisplayTypes DEF DisplayTyped, DisplayInv, DisplayOwn
  <1>5. DisplayParts(p)'
    BY <1>1, <1>2, <1>3, DisplayConstants
    DEF DisplayInv, DisplayOwn, DisplayParts, FateFits, FaultsFit, Listens, HasFile, HasCookies,
        FilePlace, CookiePlace, X!Holds, Staged, Binding, Serving, Cleaning
  <1>6. ASSUME NEW q \in Processes, q # p PROVE DisplayParts(q)'
    <2>1. unix_ok => socket_file[disp[p]] = p
      BY <1>1 DEF DisplayInv, DisplayOwn, DisplayParts, HasFile
    <2>2. disp[q] \in X!Displays
      BY DisplayTypes DEF DisplayTyped, DisplayInv, DisplayOwn
    <2>3. socket_file[disp[q]] = q => socket_file'[disp[q]] = q
      BY <1>3, <1>6, <2>1, <2>2
    <2>4. \A d \in X!Displays : socket_file'[d] = q => socket_file[d] = q
      BY <1>3, <1>6, DisplayConstants
    <2> QED
      BY <1>1, <1>2, <1>3, <1>6, <2>3, <2>4, OthersKeep
  <1>7. DisplayPairs'
    <2>1. Stays(p)
      BY <1>1, <1>2, <1>3 DEF Stays, X!LetGo, X!TcpLoops, Staged, Binding, Serving, Cleaning
    <2>2. ASSUME NEW q \in Processes, q # p PROVE Stays(q)
      BY <1>1, <1>2, <1>3, <2>2, OthersStay
    <2> QED
      BY <1>1, <2>1, <2>2, PairsStay
  <1> QED
    BY <1>4, <1>5, <1>6, <1>7 DEF DisplayInv, DisplayOwn

\* A cookie that cannot be removed is marked as such.
LEMMA XauthRemoveFailsKeeps ==
    ASSUME DisplayInv, NEW p \in Processes, X!XauthRemoveFails(p)
    PROVE  DisplayInv'
  <1> USE DEF X!host, X!socks, X!auth
  <1>1. /\ UNCHANGED <<v6_on, unix_ok, v4, v6, socket_file, auth_unix, auth_tcp, fate, struck>>
        /\ pc[p] \in {"rm_unix", "rm_tcp"} /\ X!Fault(p, pc[p])
    BY DEF X!XauthRemoveFails
  <1>2. /\ disp' = disp
        /\ pc' \in [Processes -> Binding \cup Serving \cup Cleaning \cup {"off"}]
        /\ \/ pc[p] = "rm_unix" /\ pc'[p] = "rm_tcp"
           \/ pc[p] = "rm_tcp" /\ pc'[p] = "close"
        /\ \A q \in Processes \ {p} : pc'[q] = pc[q]
    BY GotoFacts DEF X!XauthRemoveFails, DisplayInv, DisplayOwn, Cleaning
  <1>3. /\ faults' \in [Processes -> SUBSET {"v4", "v6", "rm_file", "rm_unix", "rm_tcp"}]
        /\ faults'[p] = faults[p] \cup {pc[p]}
        /\ \A q \in Processes \ {p} : faults'[q] = faults[q]
    BY <1>1, FaultFacts DEF DisplayInv, DisplayOwn
  <1>4. X!TypeOK'
    BY <1>1, <1>2, <1>3, DisplayTypes DEF DisplayTyped, DisplayInv, DisplayOwn
  <1>5. DisplayParts(p)'
    BY <1>1, <1>2, <1>3
    DEF DisplayInv, DisplayOwn, DisplayParts, FateFits, FaultsFit, Listens, HasFile, HasCookies,
        FilePlace, CookiePlace, X!Holds, Staged, Binding, Serving, Cleaning
  <1>6. ASSUME NEW q \in Processes, q # p PROVE DisplayParts(q)'
    BY <1>1, <1>2, <1>3, <1>6, OthersKeep
  <1>7. DisplayPairs'
    <2>1. Stays(p)
      BY <1>1, <1>2, <1>3 DEF Stays, X!LetGo, X!TcpLoops, Staged, Binding, Serving, Cleaning
    <2>2. ASSUME NEW q \in Processes, q # p PROVE Stays(q)
      BY <1>1, <1>2, <1>3, <2>2, OthersStay
    <2> QED
      BY <1>1, <2>1, <2>2, PairsStay
  <1> QED
    BY <1>4, <1>5, <1>6, <1>7 DEF DisplayInv, DisplayOwn

\* A clean-up in good order takes its own cookies; one of a process that has let go
\* of its ports may take another's, who is struck then.
LEMMA XauthRemoveKeeps ==
    ASSUME DisplayInv, NEW p \in Processes, X!XauthRemove(p)
    PROVE  DisplayInv'
  <1> USE DEF X!host, X!socks
  <1>1. UNCHANGED <<v6_on, unix_ok, v4, v6, socket_file, fate, faults>>
    BY DEF X!XauthRemove
  <1>2. /\ disp' = disp
        /\ pc' \in [Processes -> Binding \cup Serving \cup Cleaning \cup {"off"}]
        /\ \A q \in Processes \ {p} : pc'[q] = pc[q]
        /\ \/ /\ pc[p] = "rm_unix" /\ pc'[p] = "rm_tcp" /\ X!Struck(p, auth_unix)
              /\ auth_unix' = [auth_unix EXCEPT ![disp[p]] = Nobody] /\ auth_tcp' = auth_tcp
           \/ /\ pc[p] = "rm_tcp" /\ pc'[p] = "close" /\ X!Struck(p, auth_tcp)
              /\ auth_tcp' = [auth_tcp EXCEPT ![disp[p]] = Nobody] /\ auth_unix' = auth_unix
    BY GotoFacts DEF X!XauthRemove, DisplayInv, DisplayOwn, Cleaning
  <1>3. /\ struck' \in [Processes -> BOOLEAN]
        /\ \A q \in Processes : struck[q] => struck'[q]
    <2>1. \A f : X!Struck(p, f) =>
             /\ struck' \in [Processes -> BOOLEAN]
             /\ \A q \in Processes : struck[q] => struck'[q]
      <3> TAKE f
      <3> HAVE X!Struck(p, f)
      <3> DEFINE hit(q) == X!LetGo(p) /\ q # p /\ f[disp[p]] = q
      <3>1. struck' = [q \in Processes |-> struck[q] \/ hit(q)]
        BY DEF X!Struck
      <3> HIDE DEF hit
      <3> QED
        BY <3>1, Zenon
    <2> QED
      BY <1>2, <2>1
  <1>4. /\ auth_unix' \in [X!Displays -> X!Owners] /\ auth_tcp' \in [X!Displays -> X!Owners]
        /\ \A d \in X!Displays \ {disp[p]} :
              auth_unix'[d] = auth_unix[d] /\ auth_tcp'[d] = auth_tcp[d]
        /\ auth_unix'[disp[p]] \in {auth_unix[disp[p]], Nobody}
        /\ auth_tcp'[disp[p]] \in {auth_tcp[disp[p]], Nobody}
        /\ pc[p] = "rm_unix" => auth_unix'[disp[p]] = Nobody
        /\ pc[p] = "rm_tcp" => auth_tcp'[disp[p]] = Nobody
    BY <1>2, DisplayTypes DEF DisplayTyped, DisplayInv, DisplayOwn, X!Owners
  <1>5. X!TypeOK'
    BY <1>1, <1>2, <1>3, <1>4, DisplayTypes DEF DisplayTyped, DisplayInv, DisplayOwn
  <1>6. DisplayParts(p)'
    BY <1>1, <1>2, <1>4, DisplayConstants
    DEF DisplayInv, DisplayOwn, DisplayParts, FateFits, FaultsFit, Listens, HasFile, HasCookies,
        FilePlace, CookiePlace, X!Holds, Staged, Binding, Serving, Cleaning
  <1>7. ASSUME NEW q \in Processes, q # p PROVE DisplayParts(q)'
    <2>1. disp[q] \in X!Displays /\ disp[p] \in X!Displays
      BY DisplayTypes DEF DisplayTyped, DisplayInv, DisplayOwn
    <2>2. ASSUME pc[q] = "add_tcp" \/ X!Holds(q), disp[q] = disp[p]
          PROVE  X!LetGo(p)
      <3>1. pc[p] \in Cleaning /\ pc[q] \in Serving
        BY <1>2, <2>2 DEF X!Holds, Serving, Cleaning
      <3>2. X!LetGo(p) \/ X!LetGo(q)
        BY <1>7, <2>2, <3>1 DEF DisplayInv, DisplayPairs, Apart, Staged
      <3>3. CASE unix_ok
        BY <1>7, <2>2, <3>1, <3>3 DEF DisplayInv, DisplayPairs, FileApart
      <3>4. CASE ~unix_ok
        <4>1. fate[q] = "fine"
          BY <3>1 DEF DisplayInv, DisplayOwn, DisplayParts, FateFits
        <4>2. X!Holds(q) => ~X!LetGo(q)
          BY <3>4, <4>1 DEF X!Holds, X!LetGo
        <4> QED
          BY <2>2, <3>2, <4>2, StillHas
      <3> QED
        BY <3>3, <3>4
    <2>3. /\ pc[p] = "rm_unix" /\ X!LetGo(p) /\ auth_unix[disp[p]] = q => struck'[q]
          /\ pc[p] = "rm_tcp" /\ X!LetGo(p) /\ auth_tcp[disp[p]] = q => struck'[q]
      <3>1. ASSUME NEW f, X!Struck(p, f), X!LetGo(p), f[disp[p]] = q PROVE struck'[q]
        BY <1>7, <3>1, Zenon DEF X!Struck
      <3> QED
        BY <1>2, <3>1
    <2>4. (pc[q] = "add_tcp" \/ X!Holds(q)) /\ auth_unix[disp[q]] = q =>
             auth_unix'[disp[q]] = q \/ struck'[q]
      BY <1>2, <1>4, <2>1, <2>2, <2>3
    <2>5. X!Holds(q) /\ auth_tcp[disp[q]] = q => auth_tcp'[disp[q]] = q \/ struck'[q]
      BY <1>2, <1>4, <2>1, <2>2, <2>3
    <2>6. \A d \in X!Displays :
             (auth_unix'[d] = q => auth_unix[d] = q) /\ (auth_tcp'[d] = q => auth_tcp[d] = q)
      BY <1>4, DisplayConstants
    <2> QED
      BY <1>1, <1>2, <1>3, <1>7, <2>4, <2>5, <2>6, OthersKeep
  <1>8. DisplayPairs'
    <2>1. Stays(p)
      BY <1>1, <1>2 DEF Stays, X!LetGo, X!TcpLoops, Staged, Binding, Serving, Cleaning
    <2>2. ASSUME NEW q \in Processes, q # p PROVE Stays(q)
      BY <1>1, <1>2, <2>2, OthersStay
    <2> QED
      BY <1>1, <2>1, <2>2, PairsStay
  <1> QED
    BY <1>5, <1>6, <1>7, <1>8 DEF DisplayInv, DisplayOwn

LEMMA CloseKeeps ==
    ASSUME DisplayInv, NEW p \in Processes, X!Close(p)
    PROVE  DisplayInv'
  <1> USE DEF X!host, X!auth
  <1>1. /\ pc[p] = "close" /\ UNCHANGED <<v6_on, unix_ok, socket_file>>
        /\ UNCHANGED <<auth_unix, auth_tcp, fate, struck>>
        /\ faults' = [faults EXCEPT ![p] = @ \ X!TcpLoops]
    BY DEF X!Close
  <1>2. /\ disp' = disp
        /\ pc' \in [Processes -> Binding \cup Serving \cup Cleaning \cup {"off"}]
        /\ pc'[p] = "off"
        /\ \A q \in Processes \ {p} : pc'[q] = pc[q]
        /\ v4' \in [X!Displays -> X!Owners] /\ v6' \in [X!Displays -> X!Owners]
        /\ \A d \in X!Displays : (v4[d] # p => v4'[d] = v4[d]) /\ (v6[d] # p => v6'[d] = v6[d])
    BY GotoFacts, TableFacts, DisplayTypes DEF DisplayTyped, X!Close, DisplayInv, DisplayOwn
  <1>3. /\ faults' \in [Processes -> SUBSET {"v4", "v6", "rm_file", "rm_unix", "rm_tcp"}]
        /\ \A what \in {"rm_file", "rm_unix", "rm_tcp"} : what \in faults[p] => what \in faults'[p]
        /\ \A q \in Processes \ {p} : faults'[q] = faults[q]
    BY <1>1, DisplayTypes DEF DisplayTyped, DisplayInv, DisplayOwn, X!TcpLoops
  <1>4. X!TypeOK'
    BY <1>1, <1>2, <1>3, DisplayTypes DEF DisplayTyped, DisplayInv, DisplayOwn
  <1>5. DisplayParts(p)'
    BY <1>1, <1>2, <1>3
    DEF DisplayInv, DisplayOwn, DisplayParts, FateFits, FaultsFit, Listens, HasFile, HasCookies,
        FilePlace, CookiePlace, X!Holds, Staged, Binding, Serving, Cleaning
  <1>6. ASSUME NEW q \in Processes, q # p PROVE DisplayParts(q)'
    <2>1. (v4[disp[q]] = q => v4'[disp[q]] = q) /\ (v6[disp[q]] = q => v6'[disp[q]] = q)
      BY <1>2, <1>6, DisplayTypes DEF DisplayTyped, DisplayInv, DisplayOwn
    <2> QED
      BY <1>1, <1>2, <1>3, <1>6, <2>1, OthersKeep
  <1>7. DisplayPairs'
    <2>1. Stays(p)
      BY <1>1, <1>2, <1>3 DEF Stays, X!LetGo, X!TcpLoops, Staged, Binding, Serving, Cleaning
    <2>2. ASSUME NEW q \in Processes, q # p PROVE Stays(q)
      BY <1>1, <1>2, <1>3, <2>2, OthersStay
    <2> QED
      BY <1>1, <2>1, <2>2, PairsStay
  <1> QED
    BY <1>4, <1>5, <1>6, <1>7 DEF DisplayInv, DisplayOwn

LEMMA KilledKeeps ==
    ASSUME DisplayInv, NEW p \in Processes, X!Killed(p)
    PROVE  DisplayInv'
  <1> USE DEF X!host, X!auth
  <1>1. /\ UNCHANGED <<v6_on, unix_ok, socket_file, auth_unix, auth_tcp, struck>>
        /\ fate' = [fate EXCEPT ![p] = "killed"] /\ faults' = [faults EXCEPT ![p] = {}]
    BY DEF X!Killed
  <1>2. /\ disp' = disp
        /\ pc' \in [Processes -> Binding \cup Serving \cup Cleaning \cup {"off"}]
        /\ pc'[p] = "off"
        /\ \A q \in Processes \ {p} : pc'[q] = pc[q]
        /\ v4' \in [X!Displays -> X!Owners] /\ v6' \in [X!Displays -> X!Owners]
        /\ \A d \in X!Displays : (v4[d] # p => v4'[d] = v4[d]) /\ (v6[d] # p => v6'[d] = v6[d])
    BY GotoFacts, TableFacts, DisplayTypes DEF DisplayTyped, X!Killed, DisplayInv, DisplayOwn
  <1>3. /\ fate' \in [Processes -> {"fine", "failed", "killed"}]
        /\ fate'[p] = "killed" /\ \A q \in Processes \ {p} : fate'[q] = fate[q]
        /\ faults' \in [Processes -> SUBSET {"v4", "v6", "rm_file", "rm_unix", "rm_tcp"}]
        /\ \A q \in Processes \ {p} : faults'[q] = faults[q]
    BY <1>1, DisplayTypes DEF DisplayTyped, DisplayInv, DisplayOwn
  <1>4. X!TypeOK'
    BY <1>1, <1>2, <1>3, DisplayTypes DEF DisplayTyped, DisplayInv, DisplayOwn
  <1>5. DisplayParts(p)'
    BY <1>1, <1>2, <1>3
    DEF DisplayInv, DisplayOwn, DisplayParts, FateFits, FaultsFit, Listens, HasFile, HasCookies,
        FilePlace, CookiePlace, X!Holds, Staged, Binding, Serving, Cleaning
  <1>6. ASSUME NEW q \in Processes, q # p PROVE DisplayParts(q)'
    <2>1. (v4[disp[q]] = q => v4'[disp[q]] = q) /\ (v6[disp[q]] = q => v6'[disp[q]] = q)
      BY <1>2, <1>6, DisplayTypes DEF DisplayTyped, DisplayInv, DisplayOwn
    <2> QED
      BY <1>1, <1>2, <1>3, <1>6, <2>1, OthersKeep
  <1>7. DisplayPairs'
    <2>1. Stays(p)
      BY <1>1, <1>2, <1>3 DEF Stays, X!LetGo, X!TcpLoops, Staged, Binding, Serving, Cleaning
    <2>2. ASSUME NEW q \in Processes, q # p PROVE Stays(q)
      BY <1>1, <1>2, <1>3, <2>2, OthersStay
    <2> QED
      BY <1>1, <2>1, <2>2, PairsStay
  <1> QED
    BY <1>4, <1>5, <1>6, <1>7 DEF DisplayInv, DisplayOwn

LEMMA DisplayInvariance == Spec => []DisplayInv
  <1>1. DisplayInv /\ [Next]_vars => DisplayInv'
    <2> SUFFICES ASSUME DisplayInv, [Next]_vars PROVE DisplayInv'
      OBVIOUS
    <2>1. ASSUME NEW p \in Processes, X!Step(p) PROVE DisplayInv'
      BY <2>1, ProbeKeeps, BindV4Keeps, BindV6Keeps, BindUnixKeeps, XauthAddKeeps,
         XauthFailsKeeps, SessionEndsKeeps, AcceptFailsKeeps, RemoveFileKeeps, XauthRemoveKeeps,
         XauthRemoveFailsKeeps, CloseKeeps, KilledKeeps DEF X!Step
    <2>2. CASE UNCHANGED X!vars
      <3>1. UNCHANGED <<v6_on, unix_ok, v4, v6, socket_file, auth_unix, auth_tcp, pc, disp,
                        fate, faults, struck>>
        BY <2>2 DEF X!vars, X!host, X!socks, X!auth
      <3>2. X!TypeOK'
        BY <3>1 DEF DisplayInv, DisplayOwn, X!TypeOK
      <3>3. ASSUME NEW q \in Processes PROVE DisplayParts(q)'
        BY <3>1, OthersKeep
      <3>4. DisplayPairs'
        BY <3>1, OthersStay, PairsStay
      <3> QED
        BY <3>2, <3>3, <3>4 DEF DisplayInv, DisplayOwn
    <2> QED
      BY <2>1, <2>2, StepOfDisplay DEF X!Next
  <1> QED
    BY <1>1, DisplayInit, PTL DEF Spec

\* However many etrs processes of a user look for a display at the same time, on
\* any host, one that has exported a display has it to itself for as long as it
\* holds any part of it, its cookies included unless the clean-up of one that had
\* let go of the display took them; and one that ends by itself leaves neither file
\* nor cookie behind but what it failed to remove (bind_free_x11_display, X11Cleanup).
THEOREM DisplaysAreOwned == Spec => []DisplaysOwned
  <1>1. ASSUME DisplayInv PROVE X!DisplayIsMine
    <2> SUFFICES ASSUME NEW p \in Processes, pc[p] = "exported"
                 PROVE  /\ "v4" \notin faults[p] => v4[disp[p]] = p
                        /\ v6_on /\ "v6" \notin faults[p] => v6[disp[p]] = p
                        /\ unix_ok => socket_file[disp[p]] = p
                        /\ X!Holds(p) =>
                              /\ \A q \in Processes \ {p} : X!Holds(q) => disp[q] # disp[p]
                              /\ \/ auth_unix[disp[p]] = p /\ auth_tcp[disp[p]] = p
                                 \/ struck[p]
      BY Zenon DEF X!DisplayIsMine
    <2>1. /\ "v4" \notin faults[p] => v4[disp[p]] = p
          /\ v6_on /\ "v6" \notin faults[p] => v6[disp[p]] = p
      BY <1>1 DEF DisplayInv, DisplayOwn, DisplayParts, FateFits, Listens, Staged, Serving
    <2>2. unix_ok => socket_file[disp[p]] = p
      BY <1>1 DEF DisplayInv, DisplayOwn, DisplayParts, HasFile, Serving
    <2>3. X!Holds(p) => (auth_unix[disp[p]] = p /\ auth_tcp[disp[p]] = p) \/ struck[p]
      BY <1>1 DEF DisplayInv, DisplayOwn, DisplayParts, HasCookies
    <2>4. X!Holds(p) => \A q \in Processes \ {p} : X!Holds(q) => disp[q] # disp[p]
      BY <1>1, HeldAlone
    <2> QED
      BY <2>1, <2>2, <2>3, <2>4
  <1>2. ASSUME DisplayInv PROVE X!NothingLeft
    BY <1>2
    DEF DisplayInv, DisplayOwn, DisplayParts, FilePlace, CookiePlace, Serving, X!NothingLeft
  <1> QED
    BY <1>1, <1>2, DisplayInvariance, PTL DEF DisplaysOwned

-----------------------------------------------------------------------------
(* StartUp.  While the ssh connection holds, every line the session asks   *)
(* for is still to be written, on its way, or in what etrs has parsed, and *)
(* etrs has parsed nothing else.  etrs forks only after both are empty.    *)

AskedLines == S!ToSet(S!Lines)

\* What etrs has from a line.
Absorbed(line) ==
    /\ line.kind = "header" => seen.header = "whole"
    /\ line.kind = "env" => line.val \in seen.env
    /\ line.kind = "x11" => seen.x11
    /\ line.kind = "prefer" => seen.pref = line.val
    /\ line.kind = "cmd" => seen.cmd = "whole"

\* etrs has parsed nothing but what was asked for.
SeenWasAsked ==
    /\ seen \in [header : {"none", "whole"}, env : SUBSET S!ToSet(Env), x11 : BOOLEAN,
                 pref : S!Prefs, cmd : {"none", "whole"}]
    /\ seen.x11 => ask.x11
    /\ seen.pref \in {"auto", S!AddrPref}
    /\ seen.cmd = "whole" => ask.cmd

LinesAccounted ==
    ssh \in {"connecting", "up", "done"} =>
        /\ unsent \in Seq(AskedLines) /\ stdin \in Seq(AskedLines)
        /\ \A line \in AskedLines :
              line \in S!ToSet(unsent) \cup S!ToSet(stdin) \/ Absorbed(line)
        /\ SeenWasAsked

BootTyped ==
    /\ ask \in Asks
    /\ closed \in BOOLEAN /\ printed \in BOOLEAN
    /\ child \in {"none", "bind", "bound", "running", "gone"}

\* How far etr, ssh, etrs and its child can be apart.
BootPhases ==
    /\ client \in {"off", "check"} =>
          /\ ssh = "none" /\ ~closed
          /\ unsent = <<>> /\ stdin = <<>> /\ seen = S!Nothing
    /\ ssh \in {"none", "connecting", "failed", "unreachable"} => server = "none"
    /\ server \in {"none", "read"} => child = "none"
    /\ server = "exit1" => child \in {"none", "gone"}
    /\ server = "exit0" => child \in {"bound", "running"}
    /\ ssh = "done" => server = "exit1" \/ (server = "exit0" /\ child = "running")
    /\ server = "exit0" /\ ssh \in {"up", "done"} => printed
    /\ client \in {"x11", "resolve", "dial"} => ssh = "done" /\ server = "exit0"

\* etrs forks at the end of its input, which etr has closed or the connection lost.
InputOver ==
    /\ closed => unsent = <<>> /\ client # "write"
    /\ server \in {"parent", "exit0", "exit1"} /\ ssh \in {"up", "done"} =>
          closed /\ stdin = <<>>

\* Why etr was told to give up.
FailureExplained ==
    client = "failed" =>
        \/ ssh \in {"none", "lost", "failed", "unreachable"}
        \/ ssh = "done" /\ server = "exit1"
        \/ ask.x11 /\ ~ask.display

BootInv ==
    /\ BootTyped /\ BootPhases /\ InputOver
    /\ FailureExplained /\ LinesAccounted

LEMMA StepOfStartUp == [Next]_vars => [S!Next]_(S!vars)
  <1> SUFFICES ASSUME [Next]_vars PROVE [S!Next]_(S!vars)
    OBVIOUS
  <1>1. ASSUME Bootstrap PROVE S!Next
    BY <1>1 DEF Bootstrap
  <1>2. ASSUME ~Bootstrap PROVE UNCHANGED sVars
    BY <1>2 DEF Next, vars, History, Escape, Frames, Display, Config, Udp
  <1> QED
    BY <1>1, <1>2 DEF S!vars, S!inputs, S!wires, sVars

\* The elements of a sequence, under the operators that move lines.
LEMMA ToSetAppend ==
    ASSUME NEW T, NEW s \in Seq(T), NEW e \in T
    PROVE  Append(s, e) \in Seq(T) /\ S!ToSet(Append(s, e)) = S!ToSet(s) \cup {e}
  <1>1. /\ Append(s, e) \in Seq(T) /\ DOMAIN s = 1 .. Len(s) /\ Len(s) \in Nat
        /\ DOMAIN Append(s, e) = 1 .. (Len(s) + 1)
        /\ \A i \in 1 .. Len(s) : Append(s, e)[i] = s[i]
        /\ Append(s, e)[Len(s) + 1] = e
    BY AppendProperties, LenProperties
  <1>2. \A i : i \in 1 .. (Len(s) + 1) <=> i \in 1 .. Len(s) \/ i = Len(s) + 1
    BY <1>1
  <1> QED
    BY <1>1, <1>2, Zenon DEF S!ToSet

LEMMA ToSetTail ==
    ASSUME NEW T, NEW s \in Seq(T), s # <<>>
    PROVE  /\ Head(s) \in T /\ Tail(s) \in Seq(T)
           /\ S!ToSet(s) = {Head(s)} \cup S!ToSet(Tail(s))
  <1>1. /\ Head(s) \in T /\ Tail(s) \in Seq(T) /\ Head(s) = s[1]
        /\ DOMAIN s = 1 .. Len(s) /\ Len(s) \in Nat /\ Len(s) # 0
        /\ DOMAIN Tail(s) = 1 .. (Len(s) - 1)
        /\ \A i \in 1 .. (Len(s) - 1) : Tail(s)[i] = s[i + 1]
    BY HeadTailProperties, LenProperties, EmptySeq
  <1>2. \A i \in 1 .. (Len(s) - 1) : i + 1 \in 1 .. Len(s)
    BY <1>1
  <1>3. 1 \in 1 .. Len(s) /\ \A i \in 1 .. Len(s) : i # 1 => i - 1 \in 1 .. (Len(s) - 1)
    BY <1>1
  <1>4. S!ToSet(s) \subseteq {Head(s)} \cup S!ToSet(Tail(s))
    <2> SUFFICES ASSUME NEW i \in 1 .. Len(s) PROVE s[i] \in {Head(s)} \cup S!ToSet(Tail(s))
      BY <1>1 DEF S!ToSet
    <2>1. CASE i = 1
      BY <1>1, <2>1
    <2>2. CASE i # 1
      <3>1. Tail(s)[i - 1] = s[i]
        BY <1>1, <1>3, <2>2
      <3> QED
        BY <1>1, <1>3, <2>2, <3>1 DEF S!ToSet
    <2> QED
      BY <2>1, <2>2
  <1>5. {Head(s)} \cup S!ToSet(Tail(s)) \subseteq S!ToSet(s)
    BY <1>1, <1>2, <1>3 DEF S!ToSet
  <1> QED
    BY <1>1, <1>4, <1>5

LEMMA ToSetConcat ==
    ASSUME NEW T, NEW s \in Seq(T), NEW t \in Seq(T)
    PROVE  s \o t \in Seq(T) /\ S!ToSet(s \o t) = S!ToSet(s) \cup S!ToSet(t)
  <1>1. /\ s \o t \in Seq(T) /\ DOMAIN s = 1 .. Len(s) /\ DOMAIN t = 1 .. Len(t)
        /\ Len(s) \in Nat /\ Len(t) \in Nat
        /\ DOMAIN (s \o t) = 1 .. (Len(s) + Len(t))
        /\ \A i \in 1 .. (Len(s) + Len(t)) :
              (s \o t)[i] = IF i <= Len(s) THEN s[i] ELSE t[i - Len(s)]
    BY ConcatProperties, LenProperties
  <1>2. S!ToSet(s \o t) \subseteq S!ToSet(s) \cup S!ToSet(t)
    <2> SUFFICES ASSUME NEW i \in 1 .. (Len(s) + Len(t))
                 PROVE  (s \o t)[i] \in S!ToSet(s) \cup S!ToSet(t)
      BY <1>1 DEF S!ToSet
    <2>1. CASE i <= Len(s)
      BY <1>1, <2>1 DEF S!ToSet
    <2>2. CASE ~(i <= Len(s))
      <3>1. i - Len(s) \in 1 .. Len(t) /\ (s \o t)[i] = t[i - Len(s)]
        BY <1>1, <2>2
      <3> QED
        BY <1>1, <3>1 DEF S!ToSet
    <2> QED
      BY <2>1, <2>2
  <1>3. S!ToSet(s) \subseteq S!ToSet(s \o t)
    <2> SUFFICES ASSUME NEW i \in 1 .. Len(s) PROVE s[i] \in S!ToSet(s \o t)
      BY <1>1 DEF S!ToSet
    <2>1. i \in 1 .. (Len(s) + Len(t)) /\ (s \o t)[i] = s[i]
      BY <1>1
    <2> QED
      BY <1>1, <2>1 DEF S!ToSet
  <1>4. S!ToSet(t) \subseteq S!ToSet(s \o t)
    <2> SUFFICES ASSUME NEW i \in 1 .. Len(t) PROVE t[i] \in S!ToSet(s \o t)
      BY <1>1 DEF S!ToSet
    <2>1. /\ i + Len(s) \in 1 .. (Len(s) + Len(t))
          /\ (s \o t)[i + Len(s)] = t[i]
      BY <1>1
    <2> QED
      BY <1>1, <2>1 DEF S!ToSet
  <1> QED
    BY <1>1, <1>2, <1>3, <1>4

LEMMA ToSetSmall == ASSUME NEW x PROVE S!ToSet(<<x>>) = {x} /\ S!ToSet(<<>>) = {}
  BY DEF S!ToSet

LEMMA BootConstants ==
    /\ Env \in Seq(STRING \ {"torn"}) /\ \A v \in S!ToSet(Env) : v # "torn"
    /\ \A a \in Asks : /\ a.cmd \in BOOLEAN /\ a.x11 \in BOOLEAN
                       /\ a.flag \in S!Prefs /\ a.cfg \in S!Prefs
  <1>1. Env \in Seq(STRING \ {"torn"})
    BY ComponentsAssumption DEF S!StartUpAssumption
  <1>2. \A v \in S!ToSet(Env) : v # "torn"
    BY <1>1, LenProperties, ElementOfSeq DEF S!ToSet
  <1>3. Asks \subseteq [cmd : BOOLEAN, x11 : BOOLEAN, display : BOOLEAN,
                        flag : S!Prefs, cfg : S!Prefs]
    BY ComponentsAssumption DEF S!StartUpAssumption
  <1> QED
    BY <1>1, <1>2, <1>3

\* The lines of a session, whatever their order.
LEMMA LinesAre ==
    ASSUME ask \in Asks
    PROVE  /\ S!Lines \in Seq(AskedLines)
           /\ \A line : line \in AskedLines <=>
                 \/ line = S!Line("header", "whole")
                 \/ \E v \in S!ToSet(Env) : line = S!Line("env", v)
                 \/ ask.x11 /\ line = S!Line("x11", "whole")
                 \/ S!AddrPref # "auto" /\ line = S!Line("prefer", S!AddrPref)
                 \/ ask.cmd /\ line = S!Line("cmd", "whole")
  <1> DEFINE T == {S!Line("header", "whole"), S!Line("x11", "whole"), S!Line("cmd", "whole"),
                    S!Line("prefer", S!AddrPref)} \cup {S!Line("env", v) : v \in S!ToSet(Env)}
             hdr == <<S!Line("header", "whole")>>
             env == [i \in DOMAIN Env |-> S!Line("env", Env[i])]
             x == IF ask.x11 THEN <<S!Line("x11", "whole")>> ELSE <<>>
             pref == IF S!AddrPref # "auto" THEN <<S!Line("prefer", S!AddrPref)>> ELSE <<>>
             cmd == IF ask.cmd THEN <<S!Line("cmd", "whole")>> ELSE <<>>
  <1>1. hdr \in Seq(T) /\ x \in Seq(T) /\ pref \in Seq(T) /\ cmd \in Seq(T)
    <2>1. S!Line("header", "whole") \in T /\ S!Line("x11", "whole") \in T
          /\ S!Line("cmd", "whole") \in T /\ S!Line("prefer", S!AddrPref) \in T
      OBVIOUS
    <2> HIDE DEF T
    <2>2. \A e \in T : <<e>> \in Seq(T)
      OBVIOUS
    <2> QED
      BY <2>1, <2>2, EmptySeq
  <1>2. env \in Seq(T)
    <2>1. DOMAIN Env = 1 .. Len(Env) /\ Len(Env) \in Nat
      BY BootConstants, LenProperties
    <2>2. \A i \in 1 .. Len(Env) : env[i] \in T
      BY <2>1 DEF S!ToSet
    <2> HIDE DEF T
    <2>3. env \in [1 .. Len(Env) -> T]
      BY <2>1, <2>2
    <2> QED
      BY <2>1, <2>3
  <1>3. S!ToSet(env) = {S!Line("env", v) : v \in S!ToSet(Env)}
    BY Zenon DEF S!ToSet
  <1> HIDE DEF T, hdr, env, x, pref, cmd
  <1>4. S!Lines = hdr \o env \o x \o pref \o cmd
    BY DEF S!Lines, hdr, env, x, pref, cmd
  <1>5. /\ S!Lines \in Seq(T)
        /\ S!ToSet(S!Lines)
             = S!ToSet(hdr) \cup S!ToSet(env) \cup S!ToSet(x) \cup S!ToSet(pref) \cup S!ToSet(cmd)
    <2> DEFINE a == hdr \o env
               b == a \o x
               c == b \o pref
    <2>1. a \in Seq(T) /\ S!ToSet(a) = S!ToSet(hdr) \cup S!ToSet(env)
      BY <1>1, <1>2, ToSetConcat
    <2>2. S!Lines = c \o cmd
      BY <1>4
    <2> HIDE DEF a
    <2>3. b \in Seq(T) /\ S!ToSet(b) = S!ToSet(a) \cup S!ToSet(x)
      BY <1>1, <2>1, ToSetConcat
    <2> HIDE DEF b
    <2>4. c \in Seq(T) /\ S!ToSet(c) = S!ToSet(b) \cup S!ToSet(pref)
      BY <1>1, <2>3, ToSetConcat
    <2> HIDE DEF c
    <2>5. c \o cmd \in Seq(T) /\ S!ToSet(c \o cmd) = S!ToSet(c) \cup S!ToSet(cmd)
      BY <1>1, <2>4, ToSetConcat
    <2> QED
      BY <2>1, <2>2, <2>3, <2>4, <2>5
  <1>6. S!Lines \in Seq(AskedLines)
    <2>1. S!Lines \in Seq(T)
      BY <1>5
    <2>2. DOMAIN S!Lines = 1 .. Len(S!Lines) /\ Len(S!Lines) \in Nat
      BY <2>1, LenProperties
    <2>3. \A i \in 1 .. Len(S!Lines) : S!Lines[i] \in AskedLines
      BY <2>2 DEF AskedLines, S!ToSet
    <2>4. S!Lines = [i \in 1 .. Len(S!Lines) |-> S!Lines[i]]
      BY <2>1, LenProperties
    <2> QED
      BY <2>2, <2>3, <2>4, IsASeq
  <1>7. /\ S!ToSet(hdr) = {S!Line("header", "whole")}
        /\ S!ToSet(x) = IF ask.x11 THEN {S!Line("x11", "whole")} ELSE {}
        /\ S!ToSet(pref) = IF S!AddrPref # "auto" THEN {S!Line("prefer", S!AddrPref)} ELSE {}
        /\ S!ToSet(cmd) = IF ask.cmd THEN {S!Line("cmd", "whole")} ELSE {}
    BY ToSetSmall DEF hdr, x, pref, cmd
  <1> QED
    BY <1>3, <1>4, <1>5, <1>6, <1>7 DEF AskedLines

LEMMA BootInit == Init => BootInv
  <1> SUFFICES ASSUME Init PROVE BootInv
    OBVIOUS
  <1>1. PICK at \in {"check", "off"} : S!StartsAs(at)
    BY DEF Init
  <1> QED
    BY <1>1
    DEF S!StartsAs, BootInv, BootTyped, BootPhases, InputOver, FailureExplained, LinesAccounted

\* The control of etr, ssh and etrs: every step but what it does to the lines.
LEMMA BootControlStep ==
    ASSUME BootInv, S!Next
    PROVE  BootTyped' /\ BootPhases' /\ InputOver' /\ FailureExplained'
  <1> USE DEF BootInv, BootTyped, BootPhases, InputOver, FailureExplained,
              S!inputs, S!wires, S!Fail
  <1> DEFINE Goal == BootTyped' /\ BootPhases' /\ InputOver' /\ FailureExplained'
  <1>1. ASSUME S!Invalid \/ S!SpawnSsh PROVE Goal
    BY <1>1 DEF S!Invalid, S!SpawnSsh
  <1>2. ASSUME S!WriteLine PROVE Goal
    BY <1>2 DEF S!WriteLine
  <1>3. ASSUME S!WriteFails PROVE Goal
    BY <1>3 DEF S!WriteFails
  <1>4. ASSUME S!CloseStdin PROVE Goal
    BY <1>4 DEF S!CloseStdin
  <1>5. ASSUME S!SshExits PROVE Goal
    <2>1. CASE ssh = "done" /\ server = "exit0" /\ printed
      BY <1>5, <2>1 DEF S!SshExits
    <2>2. CASE ~(ssh = "done" /\ server = "exit0" /\ printed)
      BY <1>5, <2>2 DEF S!SshExits
    <2> QED
      BY <2>1, <2>2
  <1>6. ASSUME S!CheckDisplay PROVE Goal
    <2>1. CASE ask.x11 /\ ~ask.display
      BY <1>6, <2>1 DEF S!CheckDisplay
    <2>2. CASE ~(ask.x11 /\ ~ask.display)
      BY <1>6, <2>2 DEF S!CheckDisplay
    <2> QED
      BY <2>1, <2>2
  <1>7. ASSUME S!WaitFails \/ S!Resolve PROVE Goal
    BY <1>7 DEF S!WaitFails, S!Resolve
  <1>8. ASSUME S!SshConnects \/ S!SshFails PROVE Goal
    BY <1>8 DEF S!SshConnects, S!SshFails
  <1>9. ASSUME S!SshLost PROVE Goal
    BY <1>9 DEF S!SshLost
  <1>10. ASSUME S!SshDone PROVE Goal
    BY <1>10 DEF S!SshDone
  <1>11. ASSUME S!ReadLine PROVE Goal
    BY <1>11 DEF S!ReadLine
  <1>12. ASSUME S!ReadEnd PROVE Goal
    BY <1>12 DEF S!ReadEnd
  <1>13. ASSUME S!ChildBinds PROVE Goal
    BY <1>13 DEF S!ChildBinds
  <1>14. ASSUME S!ParentEnds PROVE Goal
    BY <1>14 DEF S!ParentEnds
  <1>15. ASSUME S!Detach PROVE Goal
    BY <1>15 DEF S!Detach
  <1> QED
    BY <1>1, <1>2, <1>3, <1>5, <1>6, <1>7, <1>8, <1>9, <1>10, <1>11, <1>12, <1>13, <1>14,
       <1>15, <1>4 DEF S!Next, S!Etr, S!Etrs

LEMMA AskedLineFacts ==
    ASSUME ask \in Asks, NEW l \in AskedLines
    PROVE  /\ l.val # "torn"
           /\ l.kind \in {"header", "env", "x11", "prefer", "cmd"}
           /\ l.kind \in {"header", "x11", "cmd"} => l.val = "whole"
           /\ l.kind = "env" => l.val \in S!ToSet(Env)
           /\ l.kind = "x11" => ask.x11
           /\ l.kind = "prefer" => l.val = S!AddrPref
           /\ l.kind = "cmd" => ask.cmd
  <1>1. S!AddrPref # "torn" /\ \A v \in S!ToSet(Env) : v # "torn"
    BY BootConstants DEF S!AddrPref, S!Or, S!Prefs
  <1>2. CASE l = S!Line("header", "whole")
    BY <1>2 DEF S!Line
  <1>3. CASE \E v \in S!ToSet(Env) : l = S!Line("env", v)
    BY <1>1, <1>3 DEF S!Line
  <1>4. CASE ask.x11 /\ l = S!Line("x11", "whole")
    BY <1>4 DEF S!Line
  <1>5. CASE S!AddrPref # "auto" /\ l = S!Line("prefer", S!AddrPref)
    BY <1>1, <1>5 DEF S!Line
  <1>6. CASE ask.cmd /\ l = S!Line("cmd", "whole")
    BY <1>6 DEF S!Line
  <1> QED
    BY <1>2, <1>3, <1>4, <1>5, <1>6, LinesAre

\* etrs takes from an asked line what it stands for, and forgets nothing.
LEMMA ParsedFacts ==
    ASSUME ask \in Asks, UNCHANGED <<ask, own, addrs, routes>>, SeenWasAsked,
           NEW line \in AskedLines, seen' \in S!Parsed(seen, line)
    PROVE  /\ SeenWasAsked' /\ Absorbed(line)'
           /\ \A l \in AskedLines : Absorbed(l) => Absorbed(l)'
  <1> DEFINE Seen == [header : {"none", "whole"}, env : SUBSET S!ToSet(Env), x11 : BOOLEAN,
                      pref : S!Prefs, cmd : {"none", "whole"}]
  <1>1. S!AddrPref' = S!AddrPref /\ S!AddrPref \in S!Prefs
    BY BootConstants DEF S!AddrPref, S!Or, S!Prefs
  <1>2. seen \in Seen
    BY DEF SeenWasAsked
  <1>3. \A l \in AskedLines : l.kind = "prefer" => l.val = S!AddrPref
    BY AskedLineFacts
  <1>4. /\ line.kind \in {"header", "env", "x11", "prefer", "cmd"} /\ line.val # "torn"
        /\ line.kind \in {"header", "x11", "cmd"} => line.val = "whole"
        /\ line.kind = "env" => line.val \in S!ToSet(Env)
        /\ line.kind = "x11" => ask.x11
        /\ line.kind = "cmd" => ask.cmd
    BY AskedLineFacts
  <1>5. /\ seen' \in Seen
        /\ seen'.header = (IF line.kind = "header" THEN "whole" ELSE seen.header)
        /\ seen'.env = (IF line.kind = "env" THEN seen.env \cup {line.val} ELSE seen.env)
        /\ seen'.x11 = (IF line.kind = "x11" THEN TRUE ELSE seen.x11)
        /\ seen'.pref = (IF line.kind = "prefer" THEN S!AddrPref ELSE seen.pref)
        /\ seen'.cmd = (IF line.kind = "cmd" THEN "whole" ELSE seen.cmd)
    <2>1. CASE line.kind = "header"
      <3>1. seen' = [seen EXCEPT !.header = "whole"]
        BY <1>4, <2>1 DEF S!Parsed
      <3> QED
        BY <1>2, <2>1, <3>1
    <2>2. CASE line.kind = "env"
      <3>1. seen' = [seen EXCEPT !.env = seen.env \cup {line.val}]
        BY <1>4, <2>2 DEF S!Parsed
      <3> QED
        BY <1>2, <1>4, <2>2, <3>1
    <2>3. CASE line.kind = "x11"
      <3>1. seen' = [seen EXCEPT !.x11 = TRUE]
        BY <1>4, <2>3 DEF S!Parsed
      <3> QED
        BY <1>2, <2>3, <3>1
    <2>4. CASE line.kind = "prefer"
      <3>1. seen' = [seen EXCEPT !.pref = S!AddrPref]
        BY <1>3, <1>4, <2>4 DEF S!Parsed
      <3> QED
        BY <1>1, <1>2, <2>4, <3>1
    <2>5. CASE line.kind = "cmd"
      <3>1. seen' = [seen EXCEPT !.cmd = "whole"]
        BY <1>4, <2>5 DEF S!Parsed
      <3> QED
        BY <1>2, <2>5, <3>1
    <2> QED
      BY <1>4, <2>1, <2>2, <2>3, <2>4, <2>5
  <1>6. SeenWasAsked'
    BY <1>1, <1>5, <1>4 DEF SeenWasAsked
  <1>7. Absorbed(line)'
    BY <1>5, <1>3, <1>4 DEF Absorbed
  <1>8. ASSUME NEW l \in AskedLines, Absorbed(l) PROVE Absorbed(l)'
    BY <1>5, <1>3, <1>4, <1>8 DEF Absorbed
  <1> QED
    BY <1>6, <1>7, <1>8

\* No line is lost, made up or left unread while the connection holds.
LEMMA LinesStep ==
    ASSUME BootInv, S!Next
    PROVE  LinesAccounted'
  <1> USE DEF S!inputs, S!wires
  <1> SUFFICES ASSUME ssh' \in {"connecting", "up", "done"} PROVE LinesAccounted'
    BY DEF LinesAccounted
  <1>1. ask \in Asks
    BY DEF BootInv, BootTyped
  <1>2. UNCHANGED <<ask, own, addrs, routes>>
    BY DEF S!Next, S!Etr, S!Etrs, S!Invalid, S!SpawnSsh, S!WriteLine, S!WriteFails,
           S!CloseStdin, S!SshExits, S!WaitFails, S!CheckDisplay, S!Resolve, S!SshConnects,
           S!SshFails, S!SshLost, S!SshDone, S!ReadLine, S!ReadEnd, S!ChildBinds, S!ParentEnds, S!Detach
  <1>3. AskedLines' = AskedLines /\ S!AddrPref' = S!AddrPref
    BY <1>2 DEF AskedLines, S!ToSet, S!Lines, S!AddrPref
  <1>4. CASE S!SpawnSsh
    <2>1. unsent' = S!Lines /\ stdin' = <<>> /\ seen' = S!Nothing
      BY <1>4 DEF S!SpawnSsh, BootInv, BootPhases
    <2>2. unsent' \in Seq(AskedLines') /\ stdin' \in Seq(AskedLines')
      BY <1>1, <1>3, <2>1, LinesAre, EmptySeq
    <2>3. S!ToSet(unsent') = AskedLines
      BY <2>1 DEF AskedLines
    <2>4. SeenWasAsked'
      BY <2>1 DEF SeenWasAsked, S!Nothing, S!Prefs
    <2> QED
      BY <1>3, <2>2, <2>3, <2>4 DEF LinesAccounted, S!ToSet
  <1>5. CASE S!WriteLine
    <2>1. /\ stdin' = Append(stdin, Head(unsent)) /\ unsent' = Tail(unsent) /\ unsent # <<>>
          /\ ssh \in {"connecting", "up", "done"} /\ seen' = seen
      BY <1>5 DEF S!WriteLine
    <2>2. unsent \in Seq(AskedLines) /\ stdin \in Seq(AskedLines)
      BY <2>1 DEF BootInv, LinesAccounted
    <2>3. /\ Head(unsent) \in AskedLines /\ unsent' \in Seq(AskedLines)
          /\ S!ToSet(unsent) = {Head(unsent)} \cup S!ToSet(unsent')
      BY <2>1, <2>2, ToSetTail
    <2>4. stdin' \in Seq(AskedLines) /\ S!ToSet(stdin') = S!ToSet(stdin) \cup {Head(unsent)}
      BY <2>1, <2>2, <2>3, ToSetAppend
    <2> QED
      BY <1>2, <1>3, <2>1, <2>3, <2>4
      DEF BootInv, LinesAccounted, Absorbed, SeenWasAsked, S!ToSet
  <1>6. CASE S!ReadLine
    <2>1. /\ stdin # <<>> /\ stdin' = Tail(stdin) /\ unsent' = unsent
          /\ ssh \in {"connecting", "up", "done"}
      BY <1>6 DEF S!ReadLine
    <2>2. stdin \in Seq(AskedLines) /\ unsent \in Seq(AskedLines) /\ SeenWasAsked
      BY <2>1 DEF BootInv, LinesAccounted
    <2>3. PICK line \in AskedLines :
             /\ line = Head(stdin) /\ stdin' \in Seq(AskedLines)
             /\ S!ToSet(stdin) = {line} \cup S!ToSet(stdin')
      BY <2>1, <2>2, ToSetTail
    <2>4. seen' \in S!Parsed(seen, line)
      <3>1. line.val # "torn"
        BY <1>1, AskedLineFacts
      <3> QED
        BY <1>6, <2>3, <3>1 DEF S!ReadLine
    <2>5. /\ SeenWasAsked' /\ Absorbed(line)'
          /\ \A l \in AskedLines : Absorbed(l) => Absorbed(l)'
      BY <1>1, <1>2, <2>2, <2>4, ParsedFacts
    <2> QED
      BY <1>3, <2>1, <2>2, <2>3, <2>5 DEF BootInv, LinesAccounted, S!ToSet
  <1>7. CASE UNCHANGED <<unsent, stdin, seen>> /\ ssh \in {"connecting", "up", "done"}
    <2>1. SeenWasAsked'
      BY <1>7, <1>2, <1>3 DEF BootInv, LinesAccounted, SeenWasAsked
    <2>2. \A line : Absorbed(line) => Absorbed(line)'
      BY <1>7 DEF Absorbed
    <2> QED
      BY <1>7, <1>3, <2>1, <2>2 DEF BootInv, LinesAccounted
  <1>8. ASSUME ~S!SpawnSsh, ~S!WriteLine, ~S!ReadLine
        PROVE  UNCHANGED <<unsent, stdin, seen>> /\ ssh \in {"connecting", "up", "done"}
    BY <1>8
    DEF S!Next, S!Etr, S!Etrs, S!Invalid, S!WriteFails, S!CloseStdin, S!SshExits,
        S!WaitFails, S!CheckDisplay, S!Resolve, S!SshConnects, S!SshFails, S!SshLost, S!SshDone,
        S!ReadEnd, S!ChildBinds, S!ParentEnds, S!Detach
  <1> QED
    BY <1>4, <1>5, <1>6, <1>7, <1>8

LEMMA BootInvariance == Spec => []BootInv
  <1>1. BootInv /\ [Next]_vars => BootInv'
    <2> SUFFICES ASSUME BootInv, [Next]_vars PROVE BootInv'
      OBVIOUS
    <2>1. CASE S!Next
      BY <2>1, BootControlStep, LinesStep DEF BootInv
    <2>2. CASE UNCHANGED S!vars
      <3> USE <2>2 DEF S!vars, S!inputs, S!wires, BootInv
      <3>1. BootTyped' /\ BootPhases' /\ InputOver' /\ FailureExplained'
        BY DEF BootTyped, BootPhases, InputOver, FailureExplained
      <3>2. LinesAccounted'
        <4>1. AskedLines' = AskedLines /\ S!AddrPref' = S!AddrPref
          BY DEF AskedLines, S!ToSet, S!Lines, S!AddrPref
        <4>2. SeenWasAsked => SeenWasAsked'
          BY <4>1 DEF SeenWasAsked
        <4>3. \A line : Absorbed(line) => Absorbed(line)'
          BY DEF Absorbed
        <4> QED
          BY <4>1, <4>2, <4>3 DEF LinesAccounted
      <3> QED
        BY <3>1, <3>2
    <2> QED
      BY <2>1, <2>2, StepOfStartUp
  <1> QED
    BY <1>1, BootInit, PTL DEF Spec

\* The session etr dials is the one that was asked for, for every environment,
\* command and preference and wherever the ssh connection was lost (bootstrap_ssh,
\* run_server).
THEOREM AskedForIsRun == Spec => []AskedIsRun
  <1>1. ASSUME BootInv, client = "dial" PROVE AskedIsRun
    <2>1. /\ ssh = "done" /\ server = "exit0" /\ child = "running"
          /\ unsent = <<>> /\ stdin = <<>> /\ ask \in Asks
      BY <1>1 DEF BootInv, BootTyped, BootPhases, InputOver
    <2>2. SeenWasAsked /\ \A line \in AskedLines : Absorbed(line)
      BY <1>1, <2>1, ToSetSmall DEF BootInv, LinesAccounted
    <2>3. seen.header = "whole"
      <3>1. S!Line("header", "whole") \in AskedLines
        BY <2>1, LinesAre
      <3> QED
        BY <2>2, <3>1 DEF Absorbed, S!Line
    <2>4. seen.env = S!ToSet(Env)
      <3>1. ASSUME NEW v \in S!ToSet(Env) PROVE v \in seen.env
        <4>1. S!Line("env", v) \in AskedLines
          BY <2>1, LinesAre
        <4> QED
          BY <2>2, <4>1 DEF Absorbed, S!Line
      <3> QED
        BY <2>2, <3>1 DEF SeenWasAsked
    <2>5. seen.cmd = (IF ask.cmd THEN "whole" ELSE "none")
      <3>1. ask.cmd => S!Line("cmd", "whole") \in AskedLines
        BY <2>1, LinesAre
      <3> QED
        BY <2>2, <3>1 DEF Absorbed, S!Line, SeenWasAsked
    <2>6. seen.x11 = ask.x11
      <3>1. ask.x11 => S!Line("x11", "whole") \in AskedLines
        BY <2>1, LinesAre
      <3>2. seen.x11 <=> ask.x11
        BY <2>2, <3>1 DEF Absorbed, S!Line, SeenWasAsked
      <3>3. seen.x11 \in BOOLEAN /\ ask.x11 \in BOOLEAN
        BY <2>1, <2>2, BootConstants DEF SeenWasAsked
      <3> QED
        BY <3>2, <3>3
    <2>7. seen.pref = S!AddrPref
      <3>1. S!AddrPref # "auto" => S!Line("prefer", S!AddrPref) \in AskedLines
        BY <2>1, LinesAre
      <3> QED
        BY <2>2, <3>1 DEF Absorbed, S!Line, SeenWasAsked
    <2> QED
      BY <2>1, <2>3, <2>4, <2>5, <2>6, <2>7 DEF AskedIsRun, S!AskedIsRun, S!ShellEnv
  <1>2. ASSUME client # "dial" PROVE AskedIsRun
    BY <1>2 DEF AskedIsRun, S!AskedIsRun
  <1>3. BootInv => AskedIsRun
    BY <1>1, <1>2
  <1> QED
    BY <1>3, BootInvariance, PTL

\* etr leaves a live server behind only when ssh was lost, DISPLAY was missing, the
\* name did not resolve for QUIC, or waiting for ssh or making the endpoint failed
\* (main, bootstrap_ssh, run_connection_loop).
THEOREM OrphansExplained == Spec => []OrphanExplained
  <1>1. ASSUME BootInv PROVE OrphanExplained
    BY <1>1 DEF BootInv, BootPhases, FailureExplained, OrphanExplained, S!OrphanExplained,
               S!GaveUp
  <1> QED
    BY <1>1, BootInvariance, PTL

-----------------------------------------------------------------------------
(* StreamState.  The deque holds consecutive numbers that end at the last  *)
(* one handed out, so the number of entries the pop loops leave says which *)
(* ones they are.                                                          *)

HistoryInv ==
    /\ next_out_seq \in Nat \ {0}
    /\ send_history \in Seq(H!Entry)
    /\ Len(send_history) < next_out_seq
    /\ \A i \in 1 .. Len(send_history) :
          send_history[i].seq = next_out_seq - Len(send_history) + i - 1

LEMMA StepOfHistory == [Next]_vars => [H!Next]_(H!vars)
  <1> SUFFICES ASSUME [Next]_vars PROVE [H!Next]_(H!vars)
    OBVIOUS
  <1>1. ASSUME History PROVE H!Next
    BY <1>1 DEF History
  <1>2. ASSUME ~History PROVE UNCHANGED hVars
    BY <1>2 DEF Next, vars, Escape, Frames, Display, Config, Udp, Bootstrap
  <1> QED
    BY <1>1, <1>2 DEF H!vars, hVars

\* A set of numbers has a least one: what the arguments by induction rest on.
LEMMA LeastNumber ==
    ASSUME NEW T \in SUBSET Nat, T # {}
    PROVE  \E k \in T : \A j \in T : k <= j
  <1>1. PICK k \in T : \A j \in T : ~(<<j, k>> \in OpToRel(<, Nat))
    BY NatLessThanWellFounded, WFMin
  <1>2. \A j \in T : ~(j < k)
    <2>1. ASSUME NEW j \in Nat, j < k PROVE <<j, k>> \in OpToRel(<, Nat)
      BY <2>1 DEF OpToRel
    <2> QED
      BY <1>1, <2>1
  <1> QED
    BY <1>2

\* A pop loop ends, at the first number of pops at which it may stop.
LEMMA FirstStopFacts ==
    ASSUME NEW stops \in SUBSET Nat, stops # {}
    PROVE  /\ H!FirstStop(stops) \in stops
           /\ \A j \in stops : H!FirstStop(stops) <= j
  BY LeastNumber DEF H!FirstStop

\* What is left of a deque after k pops.
LEMMA RestFacts ==
    ASSUME NEW h \in Seq(H!Entry), NEW k \in 0 .. Len(h)
    PROVE  /\ H!Rest(h, k) \in Seq(H!Entry)
           /\ Len(H!Rest(h, k)) = Len(h) - k
           /\ \A i \in 1 .. (Len(h) - k) : H!Rest(h, k)[i] = h[i + k]
  <1>1. Len(h) \in Nat
    BY LenProperties
  <1> QED
    BY <1>1, SubSeqProperties, LenProperties DEF H!Rest

\* Eviction stops, at the latest when the deque is empty.
LEMMA EvictFacts ==
    ASSUME NEW full \in Seq(H!Entry), NEW bytes
    PROVE  H!EvictCount(full, bytes) \in 0 .. Len(full)
  <1> DEFINE Stop(k) == k = Len(full) \/ bytes - H!Bytes[H!Popped(full, k)] <= MaxHistoryBytes
             stops == {k \in 0 .. Len(full) : Stop(k)}
  <1>1. H!EvictCount(full, bytes) = H!FirstStop(stops)
    BY DEF H!EvictCount
  <1>2. Len(full) \in Nat /\ Stop(Len(full))
    BY LenProperties
  <1> HIDE DEF Stop
  <1>3. stops \in SUBSET Nat /\ stops # {}
    BY <1>2
  <1>4. H!FirstStop(stops) \in stops
    BY <1>3, FirstStopFacts
  <1> QED
    BY <1>1, <1>4

LEMMA HistoryInit == Init => HistoryInv
  BY DEF Init, H!Init, HistoryInv

\* Recording pushes the next number and pops any number of entries.
LEMMA RecordStep ==
    ASSUME HistoryInv, NEW len \in PayloadLens, H!RecordPayload(len)
    PROVE  /\ HistoryInv'
           /\ H!AsWindow' \in {H!Win!RecordKeeping(H!AsWindow, keep) :
                                 keep \in H!AsWindow.first .. (H!AsWindow.next + 1)}
  <1> DEFINE e == [seq |-> next_out_seq, len |-> len]
             full == Append(send_history, e)
             k == H!EvictCount(full, history_bytes + len)
  <1>1. e \in H!Entry
    BY ComponentsAssumption DEF HistoryInv, H!Entry, H!StreamStateAssumption
  <1>2. /\ full \in Seq(H!Entry) /\ Len(full) = Len(send_history) + 1
        /\ Len(send_history) \in Nat
        /\ \A i \in 1 .. Len(send_history) : full[i] = send_history[i]
        /\ full[Len(send_history) + 1] = e
    BY <1>1, AppendProperties, LenProperties DEF HistoryInv
  <1> HIDE DEF full
  <1>3. k \in 0 .. Len(full)
    BY <1>2, EvictFacts
  <1> HIDE DEF k
  <1>4. next_out_seq' = next_out_seq + 1 /\ send_history' = H!Rest(full, k)
    BY DEF H!RecordPayload, full, k
  <1>5. /\ send_history' \in Seq(H!Entry) /\ Len(send_history') = Len(full) - k
        /\ \A i \in 1 .. (Len(full) - k) : send_history'[i] = full[i + k]
    BY <1>2, <1>3, <1>4, RestFacts
  <1>6. ASSUME NEW i \in 1 .. Len(full)
        PROVE  full[i].seq = next_out_seq - Len(send_history) + i - 1
    <2>1. CASE i = Len(send_history) + 1
      <3>1. full[i].seq = next_out_seq
        BY <1>2, <2>1
      <3> QED
        BY <1>2, <2>1, <3>1 DEF HistoryInv
    <2>2. CASE i # Len(send_history) + 1
      <3>1. i \in 1 .. Len(send_history) /\ full[i] = send_history[i]
        BY <1>2, <2>2
      <3> QED
        BY <3>1 DEF HistoryInv
    <2> QED
      BY <2>1, <2>2
  <1>7. HistoryInv'
    <2>1. Len(send_history') < next_out_seq' /\ next_out_seq' \in Nat \ {0}
      BY <1>2, <1>3, <1>4, <1>5 DEF HistoryInv
    <2>2. ASSUME NEW i \in 1 .. Len(send_history')
          PROVE  send_history'[i].seq = next_out_seq' - Len(send_history') + i - 1
      <3>1. i \in 1 .. (Len(full) - k) /\ i + k \in 1 .. Len(full)
        BY <1>2, <1>3, <1>5
      <3>2. send_history'[i].seq = next_out_seq - Len(send_history) + (i + k) - 1
        BY <1>5, <1>6, <3>1
      <3>3. next_out_seq \in Nat /\ Len(send_history) \in Nat /\ k \in Int /\ i \in Int
        BY <1>2, <1>3 DEF HistoryInv
      <3>4. Len(send_history') = Len(send_history) + 1 - k
        <4>1. Len(send_history') = Len(full) - k
          BY <1>5
        <4>2. Len(full) = Len(send_history) + 1
          BY <1>2
        <4> QED
          BY <3>3, <4>1, <4>2
      <3> QED
        BY <1>4, <3>2, <3>3, <3>4
    <2> QED
      BY <1>5, <2>1, <2>2 DEF HistoryInv
  <1>8. H!AsWindow' = H!Win!RecordKeeping(H!AsWindow, H!AsWindow.first + k)
    BY <1>2, <1>3, <1>4, <1>5 DEF H!AsWindow, H!Win!RecordKeeping, HistoryInv
  <1>9. H!AsWindow.first + k \in H!AsWindow.first .. (H!AsWindow.next + 1)
    BY <1>2, <1>3 DEF H!AsWindow, HistoryInv
  <1> QED
    BY <1>7, <1>8, <1>9

\* Acknowledging pops exactly what the peer has acknowledged.
LEMMA AckStep ==
    ASSUME HistoryInv, NEW ack \in Nat, H!Acknowledge(ack)
    PROVE  HistoryInv' /\ H!AsWindow' = H!AcknowledgeUpTo(H!AsWindow, ack)
  <1> DEFINE n == Len(send_history)
             k == H!AckCount(send_history, ack)
             first == next_out_seq - n
             stops == {j \in 0 .. n : j = n \/ send_history[j + 1].seq > ack}
  <1>1. n \in Nat /\ stops \in SUBSET Nat /\ n \in stops /\ first \in Nat
    BY LenProperties DEF HistoryInv
  <1>2. k = H!FirstStop(stops)
    BY DEF H!AckCount
  <1>3. k \in stops /\ \A j \in stops : k <= j
    BY <1>1, <1>2, FirstStopFacts
  <1> HIDE DEF k
  <1>4. \A j \in 0 .. (n - 1) : send_history[j + 1].seq = first + j
    BY <1>1 DEF HistoryInv
  <1>5. k \in 0 .. n /\ (k = n \/ first + k > ack) /\ \A j \in 0 .. (k - 1) : first + j <= ack
    <2>1. k \in 0 .. n /\ (k = n \/ send_history[k + 1].seq > ack)
      BY <1>3
    <2>2. k = n \/ first + k > ack
      BY <1>1, <1>4, <2>1
    <2>3. ASSUME NEW j \in 0 .. (k - 1) PROVE first + j <= ack
      <3>1. j \in 0 .. (n - 1) /\ j < k /\ j \in Nat /\ k \in Nat
        BY <1>1, <2>1
      <3>2. j \notin stops
        BY <1>3, <3>1
      <3>3. ~(first + j > ack)
        BY <1>1, <1>4, <3>1, <3>2
      <3> QED
        BY <1>1, <3>1, <3>3
    <2> QED
      BY <2>1, <2>2, <2>3
  <1>6. next_out_seq' = next_out_seq /\ send_history' = H!Rest(send_history, k)
    BY DEF H!Acknowledge, k
  <1>7. /\ send_history' \in Seq(H!Entry) /\ Len(send_history') = n - k
        /\ \A i \in 1 .. (n - k) : send_history'[i] = send_history[i + k]
    BY <1>5, <1>6, RestFacts DEF HistoryInv
  <1>8. HistoryInv'
    <2>1. ASSUME NEW i \in 1 .. Len(send_history')
          PROVE  send_history'[i].seq = next_out_seq' - Len(send_history') + i - 1
      <3>1. i \in 1 .. (n - k) /\ i + k \in 1 .. n
        BY <1>1, <1>5, <1>7
      <3>2. send_history'[i].seq = next_out_seq - n + (i + k) - 1
        BY <1>7, <3>1 DEF HistoryInv
      <3> QED
        BY <1>1, <1>5, <1>6, <1>7, <3>1, <3>2 DEF HistoryInv
    <2> QED
      BY <1>1, <1>5, <1>6, <1>7, <2>1 DEF HistoryInv
  <1>9. H!AsWindow' = H!AcknowledgeUpTo(H!AsWindow, ack)
    <2>1. first + k = H!Larger(first, H!Smaller(ack + 1, next_out_seq))
      <3>1. k = 0 \/ first + (k - 1) <= ack
        BY <1>1, <1>5
      <3>2. next_out_seq \in Nat /\ first + n = next_out_seq /\ k \in Nat /\ k <= n
        BY <1>1, <1>5 DEF HistoryInv
      <3> HIDE DEF first, n
      <3> QED
        BY <1>1, <1>5, <3>1, <3>2 DEF H!Larger, H!Smaller
    <2>2. H!AsWindow' = [first |-> first + k, next |-> next_out_seq]
      BY <1>1, <1>5, <1>6, <1>7 DEF H!AsWindow, HistoryInv
    <2> QED
      BY <2>1, <2>2 DEF H!AsWindow, H!AcknowledgeUpTo
  <1> QED
    BY <1>8, <1>9

LEMMA HistoryInvariance == Spec => []HistoryInv
  <1>1. HistoryInv /\ [Next]_vars => HistoryInv'
    <2> SUFFICES ASSUME HistoryInv, [Next]_vars PROVE HistoryInv'
      OBVIOUS
    <2>1. ASSUME NEW len \in PayloadLens, H!RecordPayload(len) PROVE HistoryInv'
      BY <2>1, RecordStep
    <2>2. ASSUME NEW ack \in 0 .. (MaxSent + 1), H!Acknowledge(ack) PROVE HistoryInv'
      BY <2>2, AckStep
    <2>3. CASE UNCHANGED H!vars
      BY <2>3 DEF H!vars, HistoryInv
    <2> QED
      BY <2>1, <2>2, <2>3, StepOfHistory DEF H!Next
  <1> QED
    BY <1>1, HistoryInit, PTL DEF Spec

\* What an acknowledgement pops is what the data paths' window says: exactly the
\* retained numbers up to ack (acknowledge_up_to).
THEOREM AckIsWindowAck ==
    Spec => [][\A ack \in Nat : H!Acknowledge(ack) =>
                  H!AsWindow' = H!AcknowledgeUpTo(H!AsWindow, ack)]_(H!vars)
  <1>1. HistoryInv => \A ack \in Nat : H!Acknowledge(ack) =>
                          H!AsWindow' = H!AcknowledgeUpTo(H!AsWindow, ack)
    BY AckStep
  <1> QED
    BY <1>1, HistoryInvariance, PTL

\* The deque with its pop loops implements the window of the data paths, for
\* every limit and every payload size: what it retains is an interval that ends
\* at the newest number and loses entries only at the old end (StreamState).
THEOREM HistoryIsWindow == Spec => ImplementsWindow
  <1>1. Init => H!Win!Init
    BY DEF Init, H!Init, H!AsWindow, H!Win!Init, H!Win!NewWindow
  <1>2. HistoryInv /\ [Next]_vars => [H!Win!Next]_(H!AsWindow)
    <2> SUFFICES ASSUME HistoryInv, [Next]_vars PROVE [H!Win!Next]_(H!AsWindow)
      OBVIOUS
    <2>1. ASSUME NEW len \in PayloadLens, H!RecordPayload(len) PROVE H!Win!Next
      BY <2>1, RecordStep DEF H!Win!Next, H!Win!Record
    <2>2. ASSUME NEW ack \in 0 .. (MaxSent + 1), H!Acknowledge(ack) PROVE H!Win!Next
      <3> DEFINE w == H!AsWindow
                 a == H!Larger(w.first - 1, H!Smaller(ack, w.next - 1))
      <3>1. w.first \in Nat /\ w.next \in Nat /\ w.first <= w.next
        BY LenProperties DEF H!AsWindow, HistoryInv
      <3>2. a \in (w.first - 1) .. (w.next - 1)
        BY <3>1 DEF H!Larger, H!Smaller
      <3>3. H!AsWindow' = H!AcknowledgeUpTo(w, ack)
        BY <2>2, AckStep
      <3>4. H!AcknowledgeUpTo(w, ack) = H!Win!AcknowledgeUpTo(w, a)
        BY <3>1 DEF H!AcknowledgeUpTo, H!Win!AcknowledgeUpTo, H!Larger, H!Smaller,
                    H!Win!Larger, H!Win!Smaller
      <3> QED
        BY <3>2, <3>3, <3>4 DEF H!Win!Next, H!Win!Acknowledge
    <2>3. CASE UNCHANGED H!vars
      BY <2>3 DEF H!vars, H!AsWindow
    <2> QED
      BY <2>1, <2>2, <2>3, StepOfHistory DEF H!Next
  <1> QED
    BY <1>1, <1>2, HistoryInvariance, PTL DEF Spec, ImplementsWindow, H!ImplementsWindow, H!Win!Spec

-----------------------------------------------------------------------------
(* The byte total of the deque.  Bytes is defined by recursion, so that it *)
(* sums anything at all has to be shown first: a function that sums the    *)
(* deques of up to n entries exists for every n, and any two agree.        *)

Deques(n) == {h \in Seq(H!Entry) : Len(h) <= n}

Sums(f, n) == f = [h \in Deques(n) |-> IF h = <<>> THEN 0 ELSE h[1].len + f[Tail(h)]]

\* A deque that is not empty, and what is behind its front.
LEMMA DequeFacts ==
    ASSUME NEW h \in Seq(H!Entry)
    PROVE  /\ Len(h) \in Nat
           /\ h = <<>> <=> Len(h) = 0
           /\ h # <<>> => /\ h[1] \in H!Entry /\ h[1].len \in Nat
                          /\ Tail(h) \in Seq(H!Entry) /\ Len(Tail(h)) = Len(h) - 1
  <1>1. Len(h) \in Nat /\ (h = <<>> <=> Len(h) = 0)
    BY LenProperties, EmptySeq
  <1>2. ASSUME h # <<>>
        PROVE  /\ h[1] \in H!Entry /\ h[1].len \in Nat
               /\ Tail(h) \in Seq(H!Entry) /\ Len(Tail(h)) = Len(h) - 1
    <2>1. h[1] \in H!Entry
      BY <1>1, <1>2, ElementOfSeq
    <2> QED
      BY <1>2, <2>1, HeadTailProperties DEF H!Entry
  <1> QED
    BY <1>1, <1>2

LEMMA SumsAgree ==
    ASSUME NEW n \in Nat, NEW m \in Nat, NEW f, NEW g, Sums(f, n), Sums(g, m)
    PROVE  \A h \in Deques(n) \cap Deques(m) : f[h] = g[h]
  <1> DEFINE T == {l \in Nat : \E h \in Deques(n) \cap Deques(m) : Len(h) = l /\ f[h] # g[h]}
  <1>1. ASSUME NEW h \in Deques(n) \cap Deques(m), f[h] # g[h] PROVE FALSE
    <2>1. h \in Seq(H!Entry) /\ Len(h) \in T
      BY <1>1, DequeFacts DEF Deques
    <2>2. PICK l \in T : \A j \in T : l <= j
      BY <2>1, LeastNumber
    <2>3. PICK d \in Deques(n) \cap Deques(m) : Len(d) = l /\ f[d] # g[d]
      BY <2>2
    <2>4. d \in Seq(H!Entry) /\ Len(d) <= n /\ Len(d) <= m /\ Len(d) \in Nat
      BY DequeFacts DEF Deques
    <2>5. /\ f[d] = IF d = <<>> THEN 0 ELSE d[1].len + f[Tail(d)]
          /\ g[d] = IF d = <<>> THEN 0 ELSE d[1].len + g[Tail(d)]
      BY DEF Sums
    <2>6. d # <<>>
      BY <2>3, <2>5
    <2>7. Tail(d) \in Deques(n) \cap Deques(m) /\ Len(Tail(d)) \in Nat /\ Len(Tail(d)) < l
      BY <2>3, <2>4, <2>6, DequeFacts DEF Deques
    <2>8. Len(Tail(d)) \notin T
      BY <2>2, <2>7
    <2>9. f[Tail(d)] = g[Tail(d)]
      BY <2>7, <2>8
    <2> QED
      BY <2>3, <2>5, <2>6, <2>9
  <1> QED
    BY <1>1

LEMMA SumsExist == \A n \in Nat : \E f : Sums(f, n)
  <1> DEFINE T == {n \in Nat : ~\E f : Sums(f, n)}
  <1>1. ASSUME NEW x \in T PROVE FALSE
    <2>1. PICK n \in T : \A j \in T : n <= j
      BY <1>1, LeastNumber
    <2>2. n # 0
      <3> DEFINE f == [h \in Deques(0) |-> 0]
      <3>1. \A h \in Deques(0) : h = <<>>
        BY DequeFacts DEF Deques
      <3>2. Sums(f, 0)
        BY <3>1 DEF Sums
      <3> QED
        BY <3>2
    <2>3. PICK f : Sums(f, n - 1)
      BY <2>1, <2>2
    <2> DEFINE g == [h \in Deques(n) |-> IF h = <<>> THEN 0 ELSE h[1].len + f[Tail(h)]]
    <2>4. ASSUME NEW h \in Deques(n), h # <<>> PROVE g[Tail(h)] = f[Tail(h)]
      <3>1. Tail(h) \in Deques(n - 1) /\ Tail(h) \in Deques(n)
        BY <2>1, <2>4, DequeFacts DEF Deques
      <3>2. f[Tail(h)] = IF Tail(h) = <<>> THEN 0 ELSE Tail(h)[1].len + f[Tail(Tail(h))]
        BY <2>3, <3>1 DEF Sums
      <3> QED
        BY <3>1, <3>2
    <2>5. Sums(g, n)
      BY <2>4 DEF Sums
    <2> QED
      BY <2>5
  <1> QED
    BY <1>1

LEMMA BytesDef ==
    \A h \in Seq(H!Entry) :
        H!Bytes[h] = IF h = <<>> THEN 0 ELSE h[1].len + H!Bytes[Tail(h)]
  <1> DEFINE total == [h \in Seq(H!Entry) |-> (CHOOSE f : Sums(f, Len(h)))[h]]
             Def(f) == f = [h \in Seq(H!Entry) |-> IF h = <<>> THEN 0 ELSE h[1].len + f[Tail(h)]]
  <1>1. \A n \in Nat : Sums(CHOOSE f : Sums(f, n), n)
    BY SumsExist
  <1>2. ASSUME NEW h \in Seq(H!Entry)
        PROVE  total[h] = IF h = <<>> THEN 0 ELSE h[1].len + total[Tail(h)]
    <2>1. Len(h) \in Nat
      BY DequeFacts
    <2>2. PICK f : f = (CHOOSE x : Sums(x, Len(h))) /\ Sums(f, Len(h))
      BY <1>1, <2>1
    <2>3. h \in Deques(Len(h)) /\ total[h] = f[h]
      BY <2>1, <2>2 DEF Deques
    <2>4. f[h] = IF h = <<>> THEN 0 ELSE h[1].len + f[Tail(h)]
      BY <2>2, <2>3 DEF Sums
    <2>5. ASSUME h # <<>> PROVE f[Tail(h)] = total[Tail(h)]
      <3>1. Tail(h) \in Seq(H!Entry) /\ Len(Tail(h)) \in Nat /\ Len(Tail(h)) <= Len(h)
        BY <2>1, <2>5, DequeFacts
      <3>2. PICK g : g = (CHOOSE x : Sums(x, Len(Tail(h)))) /\ Sums(g, Len(Tail(h)))
        BY <1>1, <3>1
      <3>3. Tail(h) \in Deques(Len(h)) \cap Deques(Len(Tail(h)))
        BY <3>1 DEF Deques
      <3>4. f[Tail(h)] = g[Tail(h)]
        BY <2>1, <2>2, <3>1, <3>2, <3>3, SumsAgree
      <3> QED
        BY <3>1, <3>2, <3>4
    <2> QED
      BY <2>3, <2>4, <2>5
  <1>3. DOMAIN total = Seq(H!Entry) /\ total = [h \in DOMAIN total |-> total[h]]
    OBVIOUS
  <1> HIDE DEF total
  <1>4. total = [h \in Seq(H!Entry) |-> IF h = <<>> THEN 0 ELSE h[1].len + total[Tail(h)]]
    BY <1>2, <1>3
  <1>5. Def(total)
    BY <1>4
  <1>6. H!Bytes = CHOOSE f : Def(f)
    BY DEF H!Bytes
  <1>7. Def(H!Bytes)
    BY <1>5, <1>6
  <1> QED
    BY <1>7

LEMMA BytesNat == \A h \in Seq(H!Entry) : H!Bytes[h] \in Nat
  <1> DEFINE T == {l \in Nat : \E h \in Seq(H!Entry) : Len(h) = l /\ H!Bytes[h] \notin Nat}
  <1>1. ASSUME NEW h \in Seq(H!Entry), H!Bytes[h] \notin Nat PROVE FALSE
    <2>1. Len(h) \in T
      BY <1>1, DequeFacts
    <2>2. PICK l \in T : \A j \in T : l <= j
      BY <2>1, LeastNumber
    <2>3. PICK d \in Seq(H!Entry) : Len(d) = l /\ H!Bytes[d] \notin Nat
      BY <2>2
    <2>4. d # <<>>
      BY <2>3, BytesDef
    <2>5. /\ Tail(d) \in Seq(H!Entry) /\ Len(Tail(d)) \in Nat /\ Len(Tail(d)) < l
          /\ d[1].len \in Nat
      BY <2>3, <2>4, DequeFacts
    <2>6. Len(Tail(d)) \notin T
      BY <2>2, <2>5
    <2>7. H!Bytes[Tail(d)] \in Nat
      BY <2>5, <2>6
    <2>8. H!Bytes[d] = d[1].len + H!Bytes[Tail(d)]
      BY <2>4, BytesDef
    <2> QED
      BY <2>3, <2>5, <2>7, <2>8
  <1> QED
    BY <1>1

\* push_back adds the payload's length to the sum.
LEMMA BytesAppend ==
    ASSUME NEW e \in H!Entry
    PROVE  \A h \in Seq(H!Entry) : H!Bytes[Append(h, e)] = H!Bytes[h] + e.len
  <1> DEFINE Holds(h) == H!Bytes[Append(h, e)] = H!Bytes[h] + e.len
             T == {l \in Nat : \E h \in Seq(H!Entry) : Len(h) = l /\ ~Holds(h)}
  <1>1. e.len \in Nat
    BY DEF H!Entry
  <1>2. ASSUME NEW h \in Seq(H!Entry), ~Holds(h) PROVE FALSE
    <2>1. Len(h) \in T
      BY <1>2, DequeFacts
    <2>2. PICK l \in T : \A j \in T : l <= j
      BY <2>1, LeastNumber
    <2>3. PICK d \in Seq(H!Entry) : Len(d) = l /\ ~Holds(d)
      BY <2>2
    <2>4. /\ Append(d, e) \in Seq(H!Entry) /\ Append(d, e) # <<>>
          /\ Len(Append(d, e)) = Len(d) + 1
          /\ \A i \in 1 .. Len(d) : Append(d, e)[i] = d[i]
          /\ Append(d, e)[Len(d) + 1] = e
      BY AppendProperties
    <2>5. H!Bytes[Append(d, e)] = Append(d, e)[1].len + H!Bytes[Tail(Append(d, e))]
      BY <2>4, BytesDef
    <2>6. CASE d = <<>>
      <3>1. Append(d, e)[1] = e
        BY <2>4, <2>6, DequeFacts
      <3>2. Tail(Append(d, e)) = <<>>
        BY <2>4, <2>6, DequeFacts
      <3>3. H!Bytes[<<>>] = 0 /\ H!Bytes[d] = 0
        BY <2>6, BytesDef
      <3>4. H!Bytes[Append(d, e)] = e.len + 0
        BY <2>5, <3>1, <3>2, <3>3
      <3>5. Holds(d)
        BY <1>1, <3>3, <3>4
      <3> QED
        BY <2>3, <3>5
    <2>7. CASE d # <<>>
      <3>1. /\ Tail(d) \in Seq(H!Entry) /\ Len(Tail(d)) \in Nat /\ Len(Tail(d)) < l
            /\ d[1].len \in Nat /\ Len(d) \in Nat /\ Len(d) # 0
        BY <2>3, <2>7, DequeFacts
      <3>2. Len(Tail(d)) \notin T
        BY <2>2, <3>1
      <3>3. Holds(Tail(d))
        BY <3>1, <3>2
      <3>4. Tail(Append(d, e)) = Append(Tail(d), e) /\ Append(d, e)[1] = d[1]
        <4>1. Append(d, e)[1] = d[1]
          BY <2>4, <3>1
        <4>2. /\ Tail(Append(d, e)) \in Seq(H!Entry) /\ Len(Tail(Append(d, e))) = Len(d)
              /\ \A i \in 1 .. Len(d) : Tail(Append(d, e))[i] = Append(d, e)[i + 1]
          BY <2>4, <3>1, HeadTailProperties
        <4>3. /\ Append(Tail(d), e) \in Seq(H!Entry) /\ Len(Append(Tail(d), e)) = Len(d)
              /\ \A i \in 1 .. (Len(d) - 1) : Append(Tail(d), e)[i] = d[i + 1]
              /\ Append(Tail(d), e)[Len(d)] = e
          BY <2>7, <3>1, AppendProperties, HeadTailProperties, DequeFacts
        <4>4. ASSUME NEW i \in 1 .. Len(d)
              PROVE  Tail(Append(d, e))[i] = Append(Tail(d), e)[i]
          <5>1. CASE i = Len(d)
            BY <2>4, <3>1, <4>2, <4>3, <5>1
          <5>2. CASE i \in 1 .. (Len(d) - 1)
            <6>1. i + 1 \in 1 .. Len(d)
              BY <3>1, <5>2
            <6> QED
              BY <2>4, <4>2, <4>3, <5>2, <6>1
          <5> QED
            BY <3>1, <5>1, <5>2
        <4>5. Tail(Append(d, e)) = Append(Tail(d), e)
          <5> DEFINE x == Tail(Append(d, e))
                     y == Append(Tail(d), e)
          <5>1. /\ x \in Seq(H!Entry) /\ y \in Seq(H!Entry) /\ Len(x) = Len(y)
                /\ \A i \in 1 .. Len(x) : x[i] = y[i]
            BY <4>2, <4>3, <4>4, Zenon
          <5> HIDE DEF x, y
          <5>2. x = y
            BY <5>1, SeqEqual
          <5> QED
            BY <5>2 DEF x, y
        <4> QED
          BY <4>1, <4>5
      <3>5. H!Bytes[d] = d[1].len + H!Bytes[Tail(d)]
        BY <2>7, BytesDef
      <3>6. H!Bytes[Tail(d)] \in Nat
        BY <3>1, BytesNat
      <3>7. H!Bytes[Append(d, e)] = d[1].len + H!Bytes[Append(Tail(d), e)]
        BY <2>5, <3>4
      <3>8. H!Bytes[Append(Tail(d), e)] = H!Bytes[Tail(d)] + e.len
        BY <3>3
      <3>9. Holds(d)
        BY <1>1, <3>1, <3>5, <3>6, <3>7, <3>8
      <3> QED
        BY <2>3, <3>9
    <2> QED
      BY <2>6, <2>7
  <1> QED
    BY <1>2

\* Popping the front entry takes its length from what remains and adds it to
\* what is gone.
LEMMA PopOne ==
    ASSUME NEW h \in Seq(H!Entry), NEW k \in 1 .. Len(h)
    PROVE  /\ h[k].len \in Nat
           /\ H!Bytes[H!Rest(h, k - 1)] = h[k].len + H!Bytes[H!Rest(h, k)]
           /\ H!Bytes[H!Popped(h, k)] = H!Bytes[H!Popped(h, k - 1)] + h[k].len
  <1>1. Len(h) \in Nat /\ \A i \in 1 .. Len(h) : h[i] \in H!Entry
    BY LenProperties, ElementOfSeq
  <1>2. h[k] \in H!Entry /\ h[k].len \in Nat
    BY <1>1 DEF H!Entry
  <1>3. H!Bytes[H!Rest(h, k - 1)] = h[k].len + H!Bytes[H!Rest(h, k)]
    <2> DEFINE r == H!Rest(h, k - 1)
    <2>1. r = SubSeq(h, k, Len(h)) /\ H!Rest(h, k) = SubSeq(h, k + 1, Len(h))
      BY <1>1 DEF H!Rest
    <2>2. r \in Seq(H!Entry) /\ Len(r) = Len(h) - (k - 1)
      <3>1. k - 1 \in 0 .. Len(h)
        BY <1>1
      <3> QED
        BY <3>1, RestFacts
    <2>3. r # <<>>
      BY <1>1, <2>2, DequeFacts
    <2>4. r[1] = h[k]
      <3>1. 1 \in 1 .. (Len(h) - (k - 1)) /\ k - 1 \in 0 .. Len(h)
        BY <1>1
      <3>2. r[1] = h[1 + (k - 1)]
        BY <3>1, RestFacts
      <3> QED
        BY <1>1, <3>2
    <2>5. Tail(r) = H!Rest(h, k)
      <3>1. Len(h) \in k .. Len(h)
        BY <1>1
      <3>2. Tail(SubSeq(h, k, Len(h))) = SubSeq(h, k + 1, Len(h))
        BY <3>1, HeadTailOfSubSeq
      <3> QED
        BY <2>1, <3>2
    <2> HIDE DEF r
    <2>6. H!Bytes[r] = r[1].len + H!Bytes[Tail(r)]
      BY <2>2, <2>3, BytesDef
    <2>7. H!Bytes[r] = h[k].len + H!Bytes[H!Rest(h, k)]
      BY <2>4, <2>5, <2>6
    <2> QED
      BY <2>7 DEF r
  <1>4. H!Bytes[H!Popped(h, k)] = H!Bytes[H!Popped(h, k - 1)] + h[k].len
    <2> DEFINE p == H!Popped(h, k - 1)
               q == H!Popped(h, k)
    <2>1. /\ p \in Seq(H!Entry) /\ Len(p) = k - 1
          /\ \A i \in 1 .. (k - 1) : p[i] = h[i]
      BY <1>1, SubSeqProperties DEF H!Popped
    <2>2. q \in Seq(H!Entry) /\ Len(q) = k /\ \A i \in 1 .. k : q[i] = h[i]
      BY <1>1, SubSeqProperties DEF H!Popped
    <2> HIDE DEF p, q
    <2>3. /\ Append(p, h[k]) \in Seq(H!Entry) /\ Len(Append(p, h[k])) = k
          /\ \A i \in 1 .. (k - 1) : Append(p, h[k])[i] = h[i]
          /\ Append(p, h[k])[k] = h[k]
      <3> DEFINE x == Append(p, h[k])
      <3>1. /\ x \in Seq(H!Entry) /\ Len(x) = Len(p) + 1
            /\ \A i \in 1 .. Len(p) : x[i] = p[i]
            /\ x[Len(p) + 1] = h[k]
        BY <1>2, <2>1, AppendProperties
      <3> HIDE DEF x
      <3>2. Len(p) = k - 1 /\ Len(p) + 1 = k
        BY <1>1, <2>1
      <3>3. x \in Seq(H!Entry) /\ Len(x) = k /\ x[k] = h[k]
        BY <3>1, <3>2
      <3>4. ASSUME NEW i \in 1 .. (k - 1) PROVE x[i] = h[i]
        <4>1. i \in 1 .. Len(p) /\ p[i] = h[i]
          BY <2>1, <3>2
        <4> QED
          BY <3>1, <4>1
      <3> QED
        BY <3>3, <3>4 DEF x
    <2>4. ASSUME NEW i \in 1 .. k PROVE q[i] = Append(p, h[k])[i]
      BY <1>1, <2>2, <2>3
    <2>5. q = Append(p, h[k])
      BY <2>2, <2>3, <2>4, SeqEqual
    <2>6. H!Bytes[Append(p, h[k])] = H!Bytes[p] + h[k].len
      BY <1>2, <2>1, BytesAppend
    <2> QED
      BY <2>5, <2>6 DEF p, q
  <1> QED
    BY <1>2, <1>3, <1>4

\* However many entries are popped, what is gone and what remains add up.
LEMMA BytesSplit ==
    ASSUME NEW h \in Seq(H!Entry), NEW n \in 0 .. Len(h)
    PROVE  H!Bytes[H!Popped(h, n)] + H!Bytes[H!Rest(h, n)] = H!Bytes[h]
  <1> DEFINE Splits(k) == H!Bytes[H!Popped(h, k)] + H!Bytes[H!Rest(h, k)] = H!Bytes[h]
             T == {k \in 0 .. Len(h) : ~Splits(k)}
  <1>1. Len(h) \in Nat
    BY LenProperties
  <1>2. Splits(0)
    <2>1. H!Popped(h, 0) = <<>> /\ H!Rest(h, 0) = h
      BY <1>1, SubSeqEmpty, SubSeqFull DEF H!Popped, H!Rest
    <2>2. H!Bytes[<<>>] = 0 /\ H!Bytes[h] \in Nat
      BY BytesDef, BytesNat, EmptySeq
    <2> QED
      BY <2>1, <2>2
  <1>3. ASSUME NEW k \in 1 .. Len(h), Splits(k - 1) PROVE Splits(k)
    <2>1. H!Popped(h, k - 1) \in Seq(H!Entry) /\ H!Rest(h, k) \in Seq(H!Entry)
      BY <1>1, ElementOfSeq, SubSeqProperties DEF H!Popped, H!Rest
    <2>2. H!Bytes[H!Popped(h, k - 1)] \in Nat /\ H!Bytes[H!Rest(h, k)] \in Nat
      BY <2>1, BytesNat
    <2> QED
      BY <1>3, <2>2, PopOne
  <1> HIDE DEF Splits
  <1>4. ASSUME ~Splits(n) PROVE FALSE
    <2>1. n \in T /\ T \in SUBSET Nat
      BY <1>1, <1>4
    <2>2. PICK k \in T : \A j \in T : k <= j
      BY <2>1, LeastNumber
    <2>3. k \in 1 .. Len(h) /\ k - 1 \in 0 .. Len(h)
      BY <1>1, <1>2, <2>2
    <2>4. k - 1 \notin T
      BY <1>1, <2>2, <2>3
    <2> QED
      BY <1>3, <2>2, <2>3, <2>4
  <1> QED
    BY <1>4 DEF Splits

\* The inductive form of BytesExact.
BytesInv == HistoryInv /\ H!BytesExact

LEMMA BytesInit == Init => BytesInv
  <1> SUFFICES ASSUME Init PROVE H!BytesExact
    BY HistoryInit DEF BytesInv
  <1>1. send_history = <<>> /\ history_bytes = 0
    BY DEF Init, H!Init
  <1>2. H!Bytes[<<>>] = 0
    BY BytesDef, EmptySeq
  <1> QED
    BY <1>1, <1>2 DEF H!BytesExact

\* record_send: the total after its loop, and where the loop stopped.
LEMMA RecordBytes ==
    ASSUME BytesInv, NEW len \in PayloadLens, H!RecordPayload(len)
    PROVE  LET full == Append(send_history, [seq |-> next_out_seq, len |-> len])
               k == Len(full) - Len(send_history')
           IN  /\ history_bytes' = H!Bytes[send_history']
               /\ history_bytes' <= MaxHistoryBytes
               /\ k > 0 => H!Bytes[H!Rest(full, k - 1)] > MaxHistoryBytes
  <1> DEFINE e == [seq |-> next_out_seq, len |-> len]
             full == Append(send_history, e)
             bytes == history_bytes + len
             k == H!EvictCount(full, bytes)
             stops == {j \in 0 .. Len(full) :
                         j = Len(full) \/ bytes - H!Bytes[H!Popped(full, j)] <= MaxHistoryBytes}
  <1>1. e \in H!Entry /\ e.len = len /\ len \in Nat /\ MaxHistoryBytes \in Nat
    BY ComponentsAssumption DEF BytesInv, HistoryInv, H!Entry, H!StreamStateAssumption
  <1>2. full \in Seq(H!Entry) /\ Len(full) \in Nat
    BY <1>1, AppendProperties, LenProperties DEF BytesInv, HistoryInv
  <1>3. bytes = H!Bytes[full] /\ H!Bytes[full] \in Nat
    <2>1. H!Bytes[full] = H!Bytes[send_history] + len
      BY <1>1, BytesAppend DEF BytesInv, HistoryInv
    <2> QED
      BY <1>2, <2>1, BytesNat DEF BytesInv, H!BytesExact
  <1>4. k = H!FirstStop(stops)
    BY DEF H!EvictCount
  <1>5. /\ send_history' = H!Rest(full, k)
        /\ history_bytes' = bytes - H!Bytes[H!Popped(full, k)]
    BY DEF H!RecordPayload
  <1> HIDE DEF full, bytes, k
  <1>6. k \in stops /\ \A j \in stops : k <= j
    <2>1. stops \in SUBSET Nat /\ Len(full) \in stops
      BY <1>2
    <2> QED
      BY <1>4, <2>1, FirstStopFacts
  <1>7. k \in 0 .. Len(full)
    BY <1>6
  <1>8. ASSUME NEW j \in 0 .. Len(full)
        PROVE  /\ H!Bytes[H!Rest(full, j)] \in Nat
               /\ bytes - H!Bytes[H!Popped(full, j)] = H!Bytes[H!Rest(full, j)]
    <2>1. H!Popped(full, j) \in Seq(H!Entry) /\ H!Rest(full, j) \in Seq(H!Entry)
      BY <1>2, ElementOfSeq, SubSeqProperties DEF H!Popped, H!Rest
    <2>2. H!Bytes[H!Popped(full, j)] \in Nat /\ H!Bytes[H!Rest(full, j)] \in Nat
      BY <2>1, BytesNat
    <2>3. H!Bytes[H!Popped(full, j)] + H!Bytes[H!Rest(full, j)] = H!Bytes[full]
      BY <1>2, BytesSplit
    <2> QED
      BY <1>3, <2>2, <2>3
  <1>9. history_bytes' = H!Bytes[send_history']
    BY <1>5, <1>7, <1>8
  <1>10. history_bytes' <= MaxHistoryBytes
    <2>1. CASE k = Len(full)
      <3>1. H!Rest(full, k) = <<>>
        BY <1>2, <2>1, SubSeqEmpty DEF H!Rest
      <3>2. H!Bytes[<<>>] = 0
        BY BytesDef, EmptySeq
      <3> QED
        BY <1>1, <1>5, <1>9, <3>1, <3>2
    <2>2. CASE k # Len(full)
      BY <1>5, <1>6, <2>2
    <2> QED
      BY <2>1, <2>2
  <1>11. Len(full) - Len(send_history') = k
    <2>1. Len(send_history') = Len(full) - k
      BY <1>2, <1>5, <1>7, RestFacts
    <2> QED
      BY <1>2, <1>7, <2>1
  <1>12. k > 0 => H!Bytes[H!Rest(full, k - 1)] > MaxHistoryBytes
    <2> SUFFICES ASSUME k > 0 PROVE H!Bytes[H!Rest(full, k - 1)] > MaxHistoryBytes
      OBVIOUS
    <2>1. k - 1 \in 0 .. Len(full) /\ k - 1 # Len(full)
      BY <1>2, <1>7
    <2>2. k - 1 \notin stops
      BY <1>6, <1>7
    <2>3. ~(bytes - H!Bytes[H!Popped(full, k - 1)] <= MaxHistoryBytes)
      BY <2>1, <2>2
    <2>4. /\ H!Bytes[H!Rest(full, k - 1)] \in Nat
          /\ bytes - H!Bytes[H!Popped(full, k - 1)] = H!Bytes[H!Rest(full, k - 1)]
      BY <1>8, <2>1
    <2> QED
      BY <1>1, <2>3, <2>4
  <1> QED
    BY <1>9, <1>10, <1>11, <1>12 DEF full

\* acknowledge_up_to takes from the total what it pops.
LEMMA AckBytes ==
    ASSUME BytesInv, NEW ack \in Nat, H!Acknowledge(ack)
    PROVE  H!BytesExact'
  <1> DEFINE h == send_history
             k == H!AckCount(h, ack)
             stops == {j \in 0 .. Len(h) : j = Len(h) \/ h[j + 1].seq > ack}
  <1>1. h \in Seq(H!Entry) /\ Len(h) \in Nat
    BY LenProperties DEF BytesInv, HistoryInv
  <1>2. k \in 0 .. Len(h)
    <2>1. stops \in SUBSET Nat /\ Len(h) \in stops /\ k = H!FirstStop(stops)
      BY <1>1 DEF H!AckCount
    <2> QED
      BY <2>1, FirstStopFacts
  <1> HIDE DEF k
  <1>3. /\ send_history' = H!Rest(h, k)
        /\ history_bytes' = H!Bytes[h] - H!Bytes[H!Popped(h, k)]
    BY DEF H!Acknowledge, BytesInv, H!BytesExact, k
  <1>4. H!Popped(h, k) \in Seq(H!Entry) /\ H!Rest(h, k) \in Seq(H!Entry)
    BY <1>1, <1>2, ElementOfSeq, SubSeqProperties DEF H!Popped, H!Rest
  <1>5. H!Bytes[H!Popped(h, k)] \in Nat /\ H!Bytes[H!Rest(h, k)] \in Nat
    BY <1>4, BytesNat
  <1>6. H!Bytes[H!Popped(h, k)] + H!Bytes[H!Rest(h, k)] = H!Bytes[h]
    BY <1>1, <1>2, BytesSplit
  <1>7. history_bytes' = H!Bytes[send_history']
    BY <1>3, <1>5, <1>6
  <1> QED
    BY <1>7 DEF H!BytesExact

LEMMA BytesInvariance == Spec => []BytesInv
  <1>1. BytesInv /\ [Next]_vars => BytesInv'
    <2> SUFFICES ASSUME BytesInv, [Next]_vars PROVE BytesInv'
      OBVIOUS
    <2>1. ASSUME NEW len \in PayloadLens, H!RecordPayload(len) PROVE BytesInv'
      <3>1. HistoryInv'
        BY <2>1, RecordStep DEF BytesInv
      <3>2. history_bytes' = H!Bytes[send_history']
        BY <2>1, RecordBytes
      <3> QED
        BY <3>1, <3>2 DEF BytesInv, H!BytesExact
    <2>2. ASSUME NEW ack \in 0 .. (MaxSent + 1), H!Acknowledge(ack) PROVE BytesInv'
      BY <2>2, AckStep, AckBytes DEF BytesInv
    <2>3. CASE UNCHANGED H!vars
      BY <2>3 DEF H!vars, BytesInv, HistoryInv, H!BytesExact
    <2> QED
      BY <2>1, <2>2, <2>3, StepOfHistory DEF H!Next
  <1> QED
    BY <1>1, BytesInit, PTL DEF Spec

\* history_bytes never drifts from the payloads it stands for, whatever is
\* recorded, evicted and acknowledged: the unsigned subtractions of both pop
\* loops cannot underflow (record_send, acknowledge_up_to).
THEOREM BytesNeverDrift == Spec => [](H!BytesExact /\ history_bytes \in Nat)
  <1>1. BytesInv => H!BytesExact /\ history_bytes \in Nat
    BY BytesNat DEF BytesInv, HistoryInv, H!BytesExact
  <1> QED
    BY <1>1, BytesInvariance, PTL

\* record_send keeps the longest run of recent payloads within MAX_HISTORY_BYTES.
THEOREM LongestSuffixKept == Spec => KeepsLongestSuffix
  <1> DEFINE A == \A len \in PayloadLens : H!RecordPayload(len) =>
                    LET full == Append(send_history, [seq |-> next_out_seq, len |-> len])
                        k == Len(full) - Len(send_history')
                    IN  /\ history_bytes' <= MaxHistoryBytes
                        /\ k > 0 => H!Bytes[H!Rest(full, k - 1)] > MaxHistoryBytes
  <1>1. BytesInv => A
    BY RecordBytes
  <1>2. KeepsLongestSuffix <=> [][A]_(H!vars)
    BY DEF KeepsLongestSuffix, H!KeepsLongestSuffix
  <1> QED
    BY <1>1, <1>2, BytesInvariance, PTL

-----------------------------------------------------------------------------
(* Filtering a sequence.  replay_from and the reference of the escape      *)
(* filter run over a sequence and keep some of its elements; both are      *)
(* recursive functions, of which these lemmas show the equations.          *)

Filters(f, s, keep, n) ==
    f = [i \in 0 .. n |-> IF i = 0 THEN <<>>
                          ELSE IF i \in keep THEN Append(f[i - 1], s[i])
                          ELSE f[i - 1]]

\* What is kept of the first n elements.
Filtered(s, keep, n) == (CHOOSE f : Filters(f, s, keep, n))[n]

LEMMA FiltersExist ==
    ASSUME NEW s, NEW keep
    PROVE  \A n \in Nat : \E f : Filters(f, s, keep, n)
  <1> DEFINE T == {n \in Nat : ~\E f : Filters(f, s, keep, n)}
  <1>1. ASSUME NEW x \in T PROVE FALSE
    <2>1. PICK n \in T : \A j \in T : n <= j
      BY <1>1, LeastNumber
    <2>2. n # 0
      <3> DEFINE f == [i \in 0 .. 0 |-> <<>>]
      <3>1. Filters(f, s, keep, 0)
        BY DEF Filters
      <3> QED
        BY <3>1
    <2>3. n \in Nat /\ n - 1 \in Nat /\ n - 1 \notin T
      BY <2>1, <2>2
    <2>4. PICK f : Filters(f, s, keep, n - 1)
      BY <2>3
    <2> DEFINE g == [i \in 0 .. n |-> IF i < n THEN f[i]
                                      ELSE IF n \in keep THEN Append(f[n - 1], s[n])
                                      ELSE f[n - 1]]
    <2>5. ASSUME NEW i \in 0 .. n
          PROVE  g[i] = IF i = 0 THEN <<>>
                        ELSE IF i \in keep THEN Append(g[i - 1], s[i])
                        ELSE g[i - 1]
      <3>1. CASE i = n
        BY <2>2, <2>3, <3>1
      <3>2. CASE i < n
        <4>1. i \in 0 .. (n - 1)
          BY <2>3, <3>2
        <4>2. f[i] = IF i = 0 THEN <<>>
                     ELSE IF i \in keep THEN Append(f[i - 1], s[i])
                     ELSE f[i - 1]
          BY <2>4, <4>1 DEF Filters
        <4>3. g[i] = f[i] /\ (i # 0 => g[i - 1] = f[i - 1])
          BY <2>3, <3>2
        <4> QED
          BY <4>2, <4>3
      <3> QED
        BY <2>3, <3>1, <3>2
    <2>6. Filters(g, s, keep, n)
      BY <2>5 DEF Filters
    <2> QED
      BY <2>6
  <1> QED
    BY <1>1

\* What is kept of the first elements depends on nothing behind them.
LEMMA FiltersAgree ==
    ASSUME NEW n \in Nat, NEW m \in Nat, NEW l \in Nat, l <= n, l <= m,
           NEW f, NEW g, NEW s, NEW t, NEW keep, NEW have,
           Filters(f, s, keep, n), Filters(g, t, have, m),
           \A i \in 1 .. l : s[i] = t[i] /\ (i \in keep <=> i \in have)
    PROVE  f[l] = g[l]
  <1> DEFINE T == {i \in 0 .. l : f[i] # g[i]}
  <1>1. ASSUME l \in T PROVE FALSE
    <2>1. T \in SUBSET Nat /\ T # {}
      BY <1>1
    <2>2. PICK i \in T : \A j \in T : i <= j
      BY <2>1, LeastNumber
    <2>3. /\ f[i] = IF i = 0 THEN <<>>
                    ELSE IF i \in keep THEN Append(f[i - 1], s[i])
                    ELSE f[i - 1]
          /\ g[i] = IF i = 0 THEN <<>>
                    ELSE IF i \in have THEN Append(g[i - 1], t[i])
                    ELSE g[i - 1]
      <3>1. i \in 0 .. n /\ i \in 0 .. m
        BY <2>2
      <3> QED
        BY <3>1 DEF Filters
    <2>4. i # 0
      BY <2>2, <2>3
    <2>5. i \in 1 .. l /\ i - 1 \in 0 .. l /\ i - 1 \notin T
      BY <2>2, <2>4
    <2>6. f[i - 1] = g[i - 1]
      BY <2>5
    <2>7. s[i] = t[i] /\ (i \in keep <=> i \in have)
      BY <2>5
    <2>8. f[i] = g[i]
      BY <2>3, <2>4, <2>6, <2>7
    <2> QED
      BY <2>2, <2>8
  <1> QED
    BY <1>1

LEMMA FilteredIs ==
    ASSUME NEW n \in Nat, NEW m \in 0 .. n, NEW f, NEW s, NEW keep, Filters(f, s, keep, n)
    PROVE  f[m] = Filtered(s, keep, m)
  <1>1. PICK g : g = (CHOOSE x : Filters(x, s, keep, m)) /\ Filters(g, s, keep, m)
    BY FiltersExist
  <1>2. f[m] = g[m]
    BY <1>1, FiltersAgree
  <1> QED
    BY <1>1, <1>2 DEF Filtered

LEMMA FilteredSame ==
    ASSUME NEW n \in Nat, NEW s, NEW t, NEW keep, NEW have,
           \A i \in 1 .. n : s[i] = t[i] /\ (i \in keep <=> i \in have)
    PROVE  Filtered(s, keep, n) = Filtered(t, have, n)
  <1>1. PICK f : Filters(f, s, keep, n)
    BY FiltersExist
  <1>2. PICK g : Filters(g, t, have, n)
    BY FiltersExist
  <1>3. f[n] = g[n]
    BY <1>1, <1>2, FiltersAgree
  <1>4. f[n] = Filtered(s, keep, n) /\ g[n] = Filtered(t, have, n)
    BY <1>1, <1>2, FilteredIs
  <1> QED
    BY <1>3, <1>4

\* The equations of Filtered.
LEMMA FilteredNone ==
    ASSUME NEW s, NEW keep
    PROVE  Filtered(s, keep, 0) = <<>>
  <1>1. PICK f : Filters(f, s, keep, 0)
    BY FiltersExist
  <1>2. f[0] = <<>>
    BY <1>1 DEF Filters
  <1>3. f[0] = Filtered(s, keep, 0)
    BY <1>1, FilteredIs
  <1> QED
    BY <1>2, <1>3

LEMMA FilteredStep ==
    ASSUME NEW s, NEW keep, NEW n \in Nat \ {0}
    PROVE  Filtered(s, keep, n) =
               IF n \in keep THEN Append(Filtered(s, keep, n - 1), s[n])
               ELSE Filtered(s, keep, n - 1)
  <1>1. PICK f : Filters(f, s, keep, n)
    BY FiltersExist
  <1>2. n \in 0 .. n /\ n # 0 /\ n - 1 \in 0 .. n
    OBVIOUS
  <1>3. f[n] = IF n \in keep THEN Append(f[n - 1], s[n]) ELSE f[n - 1]
    BY <1>1, <1>2 DEF Filters
  <1>4. f[n] = Filtered(s, keep, n) /\ f[n - 1] = Filtered(s, keep, n - 1)
    BY <1>1, <1>2, FilteredIs
  <1> QED
    BY <1>3, <1>4

\* replay_from keeps the entries above the watermark.
LEMMA ReplayIsFiltered ==
    ASSUME NEW h \in Seq(H!Entry), NEW ack
    PROVE  H!ReplayFrom(h, ack) = Filtered(h, {i \in 1 .. Len(h) : h[i].seq > ack}, Len(h))
  <1> DEFINE n == Len(h)
             keep == {i \in 1 .. n : h[i].seq > ack}
             Def(f) == f = [i \in 0 .. n |-> IF i = 0 THEN <<>>
                                             ELSE IF h[i].seq > ack THEN Append(f[i - 1], h[i])
                                             ELSE f[i - 1]]
  <1>1. n \in Nat
    BY LenProperties
  <1>2. ASSUME NEW f PROVE Def(f) <=> Filters(f, h, keep, n)
    <2> DEFINE A == [i \in 0 .. n |-> IF i = 0 THEN <<>>
                                      ELSE IF h[i].seq > ack THEN Append(f[i - 1], h[i])
                                      ELSE f[i - 1]]
               B == [i \in 0 .. n |-> IF i = 0 THEN <<>>
                                      ELSE IF i \in keep THEN Append(f[i - 1], h[i])
                                      ELSE f[i - 1]]
    <2>1. \A i \in 0 .. n : i # 0 => (i \in keep <=> h[i].seq > ack)
      BY <1>1
    <2>2. A = B
      <3> HIDE DEF keep, n
      <3> QED
        BY <2>1
    <2> QED
      BY <2>2 DEF Filters
  <1>3. H!ReplayFrom(h, ack) = (CHOOSE f : Def(f))[n]
    BY DEF H!ReplayFrom
  <1>4. PICK f : f = (CHOOSE x : Def(x)) /\ Filters(f, h, keep, n)
    <2> HIDE DEF Def, keep
    <2>1. \E x : Def(x)
      BY <1>1, <1>2, FiltersExist
    <2>2. Def(CHOOSE x : Def(x))
      BY <2>1
    <2> QED
      BY <1>2, <2>2
  <1> HIDE DEF Def, keep
  <1>5. f[n] = Filtered(h, keep, n)
    BY <1>1, <1>4, FilteredIs
  <1>6. H!ReplayFrom(h, ack) = Filtered(h, keep, n)
    BY <1>3, <1>4, <1>5
  <1> QED
    BY <1>6 DEF keep

\* Where the entries that are kept are the last ones, the replay is a suffix.
LEMMA ReplayIsSuffix ==
    ASSUME NEW h \in Seq(H!Entry), NEW ack, NEW m \in 0 .. Len(h),
           \A i \in 1 .. Len(h) : h[i].seq > ack <=> i > m
    PROVE  H!ReplayFrom(h, ack) = SubSeq(h, m + 1, Len(h))
  <1> DEFINE n == Len(h)
             keep == {i \in 1 .. n : h[i].seq > ack}
             T == {i \in 0 .. n : Filtered(h, keep, i) # SubSeq(h, m + 1, i)}
  <1>1. n \in Nat /\ \A i \in 1 .. n : h[i] \in H!Entry
    BY LenProperties, ElementOfSeq
  <1>2. \A i \in 1 .. n : i \in keep <=> i > m
    OBVIOUS
  <1>3. H!ReplayFrom(h, ack) = Filtered(h, keep, n)
    BY ReplayIsFiltered
  <1> HIDE DEF keep
  <1>4. ASSUME n \in T PROVE FALSE
    <2>1. T \in SUBSET Nat /\ T # {}
      BY <1>4
    <2>2. PICK i \in T : \A j \in T : i <= j
      BY <2>1, LeastNumber
    <2>3. i # 0
      <3>1. SubSeq(h, m + 1, 0) = <<>>
        BY <1>1, SubSeqEmpty
      <3> QED
        BY <2>2, <3>1, FilteredNone
    <2>4. i \in 1 .. n /\ i - 1 \in 0 .. n /\ i - 1 \notin T
      <3>1. i \in 0 .. n
        BY <2>2
      <3>2. i - 1 \notin T
        BY <2>2, <3>1
      <3> QED
        BY <1>1, <2>3, <3>1, <3>2
    <2>5. Filtered(h, keep, i - 1) = SubSeq(h, m + 1, i - 1)
      BY <2>4
    <2>6. Filtered(h, keep, i) = IF i > m THEN Append(SubSeq(h, m + 1, i - 1), h[i])
                                 ELSE SubSeq(h, m + 1, i - 1)
      <3>1. i \in Nat \ {0} /\ (i \in keep <=> i > m)
        BY <1>1, <1>2, <2>4
      <3>2. Filtered(h, keep, i) = IF i \in keep THEN Append(Filtered(h, keep, i - 1), h[i])
                                   ELSE Filtered(h, keep, i - 1)
        BY <3>1, FilteredStep
      <3> QED
        BY <2>5, <3>1, <3>2
    <2>7. CASE i > m
      <3>1. h[i] \in H!Entry
        BY <1>1, <2>4
      <3>2. SubSeq(h, m + 1, i - 1) \in Seq(H!Entry)
        BY <1>1, <2>4, SubSeqProperties
      <3>3. SubSeq(h, m + 1, i) = SubSeq(h, m + 1, i - 1) \o <<h[i]>>
        <4>1. m + 1 \in 1 .. Len(h) /\ i \in (m + 1) .. Len(h)
          BY <1>1, <2>4, <2>7
        <4> QED
          BY <4>1, SubSeqRecursiveSecond
      <3>4. Append(SubSeq(h, m + 1, i - 1), h[i]) = SubSeq(h, m + 1, i - 1) \o <<h[i]>>
        BY <3>1, <3>2, AppendIsConcat
      <3> QED
        BY <2>2, <2>6, <2>7, <3>3, <3>4
    <2>8. CASE i <= m
      <3>1. SubSeq(h, m + 1, i) = <<>> /\ SubSeq(h, m + 1, i - 1) = <<>>
        BY <1>1, <2>4, <2>8, SubSeqEmpty
      <3> QED
        BY <1>1, <2>2, <2>4, <2>6, <2>8, <3>1
    <2> QED
      BY <1>1, <2>4, <2>7, <2>8
  <1>5. Filtered(h, keep, n) = SubSeq(h, m + 1, n)
    BY <1>1, <1>4
  <1> QED
    BY <1>3, <1>5

\* A replay is the run of numbers the window says.
LEMMA ReplayInterval == HistoryInv => H!ReplayIsInterval
  <1> SUFFICES ASSUME HistoryInv, NEW w \in 0 .. next_out_seq
               PROVE  LET r == H!ReplayFrom(send_history, w)
                          start == H!ReplayStart(H!AsWindow, w)
                      IN  /\ Len(r) = next_out_seq - start
                          /\ \A i \in DOMAIN r : r[i].seq = start + i - 1
    BY DEF H!ReplayIsInterval
  <1> DEFINE h == send_history
             n == Len(h)
             first == next_out_seq - n
             start == H!ReplayStart(H!AsWindow, w)
             m == start - first
             r == H!ReplayFrom(h, w)
  <1>1. /\ h \in Seq(H!Entry) /\ n \in Nat /\ next_out_seq \in Nat \ {0} /\ n < next_out_seq
        /\ \A i \in 1 .. n : h[i].seq = first + i - 1 /\ h[i] \in H!Entry
    BY LenProperties, ElementOfSeq DEF HistoryInv
  <1>2. start = IF w + 1 <= first THEN first
                ELSE IF w + 1 <= next_out_seq THEN w + 1
                ELSE next_out_seq
    BY <1>1 DEF H!ReplayStart, H!AsWindow, H!Larger, H!Smaller
  <1> HIDE DEF start
  <1>3. m \in 0 .. n
    BY <1>1, <1>2
  <1>4. \A i \in 1 .. n : h[i].seq > w <=> i > m
    BY <1>1, <1>2
  <1>5. r = SubSeq(h, m + 1, n)
    BY <1>1, <1>3, <1>4, ReplayIsSuffix
  <1>6. /\ r \in Seq(H!Entry) /\ Len(r) = n - m
        /\ \A i \in 1 .. (n - m) : r[i] = h[m + i]
    <2>1. \A i \in (m + 1) .. n : h[i] \in H!Entry
      BY <1>1, <1>3
    <2>2. m + 1 \in Int /\ n \in Int
      BY <1>1, <1>3
    <2>3. /\ SubSeq(h, m + 1, n) \in Seq(H!Entry)
          /\ Len(SubSeq(h, m + 1, n)) = IF m + 1 <= n THEN n - (m + 1) + 1 ELSE 0
          /\ \A i \in 1 .. (n - (m + 1) + 1) : SubSeq(h, m + 1, n)[i] = h[m + 1 + i - 1]
      BY <2>1, <2>2, SubSeqProperties
    <2> HIDE DEF r, m
    <2> QED
      BY <1>1, <1>3, <1>5, <2>3
  <1> HIDE DEF r
  <1>7. Len(r) = next_out_seq - start
    BY <1>1, <1>2, <1>6
  <1>8. ASSUME NEW i \in DOMAIN r PROVE r[i].seq = start + i - 1
    <2>1. i \in 1 .. (n - m) /\ m + i \in 1 .. n
      BY <1>1, <1>3, <1>6, LenProperties
    <2>2. r[i].seq = first + (m + i) - 1
      BY <1>1, <1>6, <2>1
    <2> QED
      BY <1>1, <1>2, <2>1, <2>2
  <1> QED
    BY <1>7, <1>8 DEF r, start

\* The byte total of the replay history is that of its entries, and a replay is
\* an unbroken run of numbers for every watermark a peer can report, for every
\* limit, payload size and history (record_send, acknowledge_up_to, replay_from).
THEOREM HistoryIsExact == Spec => []HistoryExact
  <1>1. BytesInv => HistoryExact
    BY ReplayInterval DEF BytesInv, HistoryExact
  <1> QED
    BY <1>1, BytesInvariance, PTL

-----------------------------------------------------------------------------
(* The escape filter.  The reference is a function of the input and of     *)
(* where it stops; a byte changes nothing of what it yields for the bytes  *)
(* before the last one.                                                    *)

OpensIn(s, i) == s[i] = "~" /\ (i = 1 \/ s[i - 1] = "nl")
PairIn(s, i, b) == OpensIn(s, i) /\ i < Len(s) /\ s[i + 1] = b

\* What the first n bytes of s yield.
Yield(s, n) == Filtered(s, {i \in 1 .. Len(s) : ~PairIn(s, i, "~")}, n)

\* An opener at the end of s is pending.
Pends(s) == s # <<>> /\ OpensIn(s, Len(s))

\* Unescaped, of any input.
UnescapedOf(s, n) ==
    LET kept[i \in 0 .. n] ==
            IF i = 0 THEN <<>>
            ELSE IF PairIn(s, i, "~") THEN kept[i - 1]
            ELSE Append(kept[i - 1], s[i])
    IN  kept[n]

LEMMA UnescapedIsYield ==
    ASSUME NEW s \in Seq(Typed), NEW n \in 0 .. Len(s)
    PROVE  UnescapedOf(s, n) = Yield(s, n)
  <1> DEFINE keep == {i \in 1 .. Len(s) : ~PairIn(s, i, "~")}
             Def(f) == f = [i \in 0 .. n |-> IF i = 0 THEN <<>>
                                             ELSE IF PairIn(s, i, "~") THEN f[i - 1]
                                             ELSE Append(f[i - 1], s[i])]
  <1>1. n \in Nat /\ Len(s) \in Nat /\ n <= Len(s)
    BY LenProperties
  <1>2. ASSUME NEW f PROVE Def(f) <=> Filters(f, s, keep, n)
    <2> DEFINE A == [i \in 0 .. n |-> IF i = 0 THEN <<>>
                                      ELSE IF PairIn(s, i, "~") THEN f[i - 1]
                                      ELSE Append(f[i - 1], s[i])]
               B == [i \in 0 .. n |-> IF i = 0 THEN <<>>
                                      ELSE IF i \in keep THEN Append(f[i - 1], s[i])
                                      ELSE f[i - 1]]
    <2>1. \A i \in 0 .. n : i # 0 => (i \in keep <=> ~PairIn(s, i, "~"))
      BY <1>1
    <2>2. A = B
      <3> HIDE DEF keep
      <3> QED
        BY <2>1
    <2> QED
      BY <2>2 DEF Filters
  <1>3. UnescapedOf(s, n) = (CHOOSE f : Def(f))[n]
    BY DEF UnescapedOf
  <1>4. PICK f : f = (CHOOSE x : Def(x)) /\ Filters(f, s, keep, n)
    <2> HIDE DEF Def, keep
    <2>1. \E x : Def(x)
      BY <1>1, <1>2, FiltersExist
    <2>2. Def(CHOOSE x : Def(x))
      BY <2>1
    <2> QED
      BY <1>2, <2>2
  <1> HIDE DEF Def, keep
  <1>5. f[n] = Filtered(s, keep, n)
    BY <1>1, <1>4, FilteredIs
  <1>6. UnescapedOf(s, n) = Filtered(s, keep, n)
    BY <1>3, <1>4, <1>5
  <1> QED
    BY <1>6 DEF keep, Yield

\* One more byte: which openers and pairs there are then.
LEMMA OpensAppend ==
    ASSUME NEW s \in Seq(Typed), NEW b \in Typed
    PROVE  LET t == Append(s, b)
               n == Len(s)
           IN  /\ t \in Seq(Typed) /\ n \in Nat /\ Len(t) = n + 1 /\ t # <<>>
               /\ \A i \in 1 .. n : t[i] = s[i]
               /\ t[n + 1] = b
               /\ Pends(t) <=> b = "~" /\ (s = <<>> \/ s[n] = "nl")
               /\ \A i \in 1 .. (n - 1) : \A c : PairIn(t, i, c) <=> PairIn(s, i, c)
               /\ n > 0 => \A c : PairIn(t, n, c) <=> Pends(s) /\ b = c
               /\ n > 0 => \A c : ~PairIn(s, n, c)
               /\ \A c : ~PairIn(t, n + 1, c)
               /\ (s = <<>>) <=> (n = 0)
  <1> DEFINE t == Append(s, b)
             n == Len(s)
  <1>1. /\ t \in Seq(Typed) /\ n \in Nat /\ Len(t) = n + 1 /\ t # <<>>
        /\ \A i \in 1 .. n : t[i] = s[i]
        /\ t[n + 1] = b
    BY AppendProperties, LenProperties
  <1>2. (s = <<>>) <=> (n = 0)
    BY EmptySeq, <1>1
  <1> HIDE DEF t
  <1>3. Pends(t) <=> b = "~" /\ (s = <<>> \/ s[n] = "nl")
    <2>1. Pends(t) <=> t[n + 1] = "~" /\ (n + 1 = 1 \/ t[n + 1 - 1] = "nl")
      BY <1>1 DEF Pends, OpensIn
    <2>2. n # 0 => t[n + 1 - 1] = s[n]
      BY <1>1
    <2> QED
      BY <1>1, <1>2, <2>1, <2>2
  <1>4. ASSUME NEW i \in 1 .. n PROVE OpensIn(t, i) <=> OpensIn(s, i)
    <2>1. t[i] = s[i] /\ (i # 1 => t[i - 1] = s[i - 1])
      BY <1>1
    <2> QED
      BY <2>1 DEF OpensIn
  <1>5. ASSUME NEW i \in 1 .. (n - 1), NEW c PROVE PairIn(t, i, c) <=> PairIn(s, i, c)
    <2>1. i \in 1 .. n /\ i < n /\ i < Len(t) /\ t[i + 1] = s[i + 1]
      BY <1>1
    <2> QED
      BY <1>4, <2>1 DEF PairIn
  <1>6. ASSUME n > 0, NEW c PROVE PairIn(t, n, c) <=> Pends(s) /\ b = c
    <2>1. n \in 1 .. n /\ n < Len(t) /\ t[n + 1] = b /\ s # <<>>
      BY <1>1, <1>2, <1>6
    <2> QED
      BY <1>4, <2>1 DEF PairIn, Pends
  <1>7. ASSUME NEW c PROVE ~PairIn(t, n + 1, c) /\ ~PairIn(s, n, c)
    BY <1>1 DEF PairIn
  <1> QED
    BY <1>1, <1>2, <1>3, <1>5, <1>6, <1>7 DEF t

\* One more byte: what the input yields then.
LEMMA YieldAppend ==
    ASSUME NEW s \in Seq(Typed), NEW b \in Typed
    PROVE  LET t == Append(s, b)
               n == Len(s)
           IN  /\ Yield(t, n + 1) = Append(Yield(t, n), b)
               /\ ~(Pends(s) /\ b = "~") => Yield(t, n) = Yield(s, n)
               /\ n > 0 => Yield(t, n - 1) = Yield(s, n - 1)
               /\ n > 0 => Yield(t, n) = IF Pends(s) /\ b = "~" THEN Yield(s, n - 1)
                                         ELSE Append(Yield(s, n - 1), s[n])
  <1> DEFINE t == Append(s, b)
             n == Len(s)
             keepS == {i \in 1 .. Len(s) : ~PairIn(s, i, "~")}
             keepT == {i \in 1 .. Len(t) : ~PairIn(t, i, "~")}
  <1>1. /\ n \in Nat /\ Len(t) = n + 1
        /\ \A i \in 1 .. n : t[i] = s[i]
        /\ t[n + 1] = b
        /\ \A i \in 1 .. (n - 1) : PairIn(t, i, "~") <=> PairIn(s, i, "~")
        /\ n > 0 => (PairIn(t, n, "~") <=> Pends(s) /\ b = "~")
        /\ n > 0 => ~PairIn(s, n, "~")
        /\ ~PairIn(t, n + 1, "~")
    BY OpensAppend
  <1>2. \A m \in Nat : Yield(t, m) = Filtered(t, keepT, m) /\ Yield(s, m) = Filtered(s, keepS, m)
    BY DEF Yield
  <1> HIDE DEF t
  <1>3. /\ n + 1 \in keepT
        /\ n > 0 => (n \in keepT <=> ~(Pends(s) /\ b = "~")) /\ n \in keepS
        /\ \A i \in 1 .. (n - 1) : i \in keepT <=> i \in keepS
    BY <1>1
  <1> HIDE DEF keepS, keepT
  <1>4. Yield(t, n + 1) = Append(Yield(t, n), b)
    <2>1. n + 1 \in Nat \ {0} /\ n + 1 - 1 = n
      BY <1>1
    <2>2. ASSUME NEW m \in Nat \ {0}
          PROVE  Filtered(t, keepT, m) =
                     IF m \in keepT THEN Append(Filtered(t, keepT, m - 1), t[m])
                     ELSE Filtered(t, keepT, m - 1)
      BY FilteredStep
    <2>3. Filtered(t, keepT, n + 1) = Append(Filtered(t, keepT, n), b)
      BY <1>1, <1>3, <2>1, <2>2
    <2> QED
      BY <1>1, <1>2, <2>1, <2>3
  <1>5. ASSUME n > 0 PROVE Yield(t, n - 1) = Yield(s, n - 1)
    <2>1. n - 1 \in Nat
      BY <1>1, <1>5
    <2>2. \A i \in 1 .. (n - 1) : t[i] = s[i] /\ (i \in keepT <=> i \in keepS)
      BY <1>1, <1>3
    <2>3. Filtered(t, keepT, n - 1) = Filtered(s, keepS, n - 1)
      BY <2>1, <2>2, FilteredSame
    <2> QED
      BY <1>2, <2>1, <2>3
  <1>6. ASSUME ~(Pends(s) /\ b = "~") PROVE Yield(t, n) = Yield(s, n)
    <2>1. \A i \in 1 .. n : t[i] = s[i] /\ (i \in keepT <=> i \in keepS)
      BY <1>1, <1>3, <1>6
    <2>2. Filtered(t, keepT, n) = Filtered(s, keepS, n)
      BY <1>1, <2>1, FilteredSame
    <2> QED
      BY <1>1, <1>2, <2>2
  <1>7. ASSUME n > 0
        PROVE  Yield(t, n) = IF Pends(s) /\ b = "~" THEN Yield(s, n - 1)
                             ELSE Append(Yield(s, n - 1), s[n])
    <2>1. n \in Nat \ {0} /\ n - 1 \in Nat
      BY <1>1, <1>7
    <2>2. Filtered(t, keepT, n) = IF n \in keepT THEN Append(Filtered(t, keepT, n - 1), t[n])
                                  ELSE Filtered(t, keepT, n - 1)
      BY <2>1, FilteredStep
    <2>3. t[n] = s[n] /\ (n \in keepT <=> ~(Pends(s) /\ b = "~"))
      BY <1>1, <1>3, <1>7
    <2>4. Yield(t, n) = Filtered(t, keepT, n) /\ Yield(t, n - 1) = Filtered(t, keepT, n - 1)
      BY <1>2, <2>1
    <2> QED
      BY <1>5, <1>7, <2>2, <2>3, <2>4
  <1> QED
    BY <1>4, <1>5, <1>6, <1>7 DEF t

\* The inductive invariant: the two flags say what the input ends in, no ~. at a
\* line start was passed, and what has left the filter is what the input yields.
EscapeTyped ==
    /\ input \in Seq(Typed) /\ out \in Seq(Typed) /\ sent \in Seq(Typed)
    /\ key_reader \in {"read", "chunk", "escaped", "ended"}
    /\ at_line_start \in BOOLEAN /\ escape_pending \in BOOLEAN

EscapeRuns ==
    key_reader # "escaped" =>
        /\ escape_pending <=> Pends(input)
        /\ ~escape_pending => (at_line_start <=> (input = <<>> \/ input[Len(input)] = "nl"))
        /\ \A i \in 1 .. Len(input) : ~PairIn(input, i, ".")
        /\ sent \o out = Yield(input, IF Pends(input) THEN Len(input) - 1 ELSE Len(input))

EscapeQuit ==
    key_reader = "escaped" =>
        /\ Len(input) >= 2 /\ PairIn(input, Len(input) - 1, ".")
        /\ sent \o out = Yield(input, Len(input) - 2)

EscapeInv == EscapeTyped /\ EscapeRuns /\ EscapeQuit

LEMMA StepOfEscape == [Next]_vars => [E!Next]_(E!vars)
  <1> SUFFICES ASSUME [Next]_vars PROVE [E!Next]_(E!vars)
    OBVIOUS
  <1>1. ASSUME Escape PROVE E!Next
    BY <1>1 DEF Escape
  <1>2. ASSUME ~Escape PROVE UNCHANGED eVars
    BY <1>2 DEF Next, vars, History, Frames, Display, Config, Udp, Bootstrap
  <1> QED
    BY <1>1, <1>2 DEF E!vars, eVars

LEMMA EscapeInit == Init => EscapeInv
  <1> SUFFICES ASSUME Init PROVE EscapeInv
    OBVIOUS
  <1>1. /\ input = <<>> /\ key_reader = "read" /\ out = <<>> /\ sent = <<>>
        /\ at_line_start = TRUE /\ escape_pending = FALSE
    BY DEF Init, E!Init
  <1>2. Len(<<>>) = 0 /\ <<>> \in Seq(Typed) /\ <<>> \o <<>> = <<>>
    BY EmptySeq
  <1>3. Yield(<<>>, 0) = <<>>
    BY FilteredNone DEF Yield
  <1>4. EscapeRuns
    BY <1>1, <1>2, <1>3 DEF EscapeRuns, Pends
  <1> QED
    BY <1>1, <1>2, <1>4 DEF EscapeInv, EscapeTyped, EscapeQuit

\* Concatenation, as the channel and the chunk see it.
LEMMA ChunkFacts ==
    ASSUME NEW s \in Seq(Typed), NEW o \in Seq(Typed), NEW b \in Typed, NEW c \in Typed
    PROVE  /\ s \o o \in Seq(Typed)
           /\ s \o Append(o, b) = Append(s \o o, b)
           /\ s \o (o \o <<b, c>>) = Append(Append(s \o o, b), c)
           /\ o \o <<b, c>> \in Seq(Typed) /\ Append(o, b) \in Seq(Typed)
  <1>1. /\ s \o o \in Seq(Typed) /\ <<b>> \in Seq(Typed) /\ <<c>> \in Seq(Typed)
        /\ Append(o, b) \in Seq(Typed) /\ Append(s \o o, b) \in Seq(Typed)
    BY ConcatProperties, AppendProperties
  <1>2. /\ Append(o, b) = o \o <<b>> /\ Append(s \o o, b) = (s \o o) \o <<b>>
        /\ Append(Append(s \o o, b), c) = Append(s \o o, b) \o <<c>>
    BY <1>1, AppendIsConcat
  <1>3. s \o (o \o <<b>>) = (s \o o) \o <<b>>
    BY <1>1, ConcatAssociative
  <1>4. <<b, c>> = <<b>> \o <<c>> /\ <<b, c>> \in Seq(Typed)
    <2> DEFINE a == Append(<<b>>, c)
               d == <<b, c>>
    <2>1. d \in Seq(Typed) /\ Len(d) = 2 /\ d[1] = b /\ d[2] = c
      OBVIOUS
    <2>2. Len(<<b>>) = 1 /\ <<b>>[1] = b
      OBVIOUS
    <2>3. a \in Seq(Typed) /\ Len(a) = 2 /\ a[1] = b /\ a[2] = c
      BY <1>1, <2>2, AppendProperties
    <2>4. a = <<b>> \o <<c>>
      BY <1>1, AppendIsConcat
    <2> HIDE DEF a, d
    <2>5. \A i \in 1 .. Len(a) : a[i] = d[i]
      BY <2>1, <2>3
    <2>6. a = d
      BY <2>1, <2>3, <2>5, SeqEqual
    <2> QED
      BY <2>1, <2>4, <2>6 DEF d
  <1>5. o \o <<b, c>> \in Seq(Typed) /\ o \o <<b, c>> = (o \o <<b>>) \o <<c>>
    BY <1>1, <1>4, ConcatAssociative, ConcatProperties
  <1>6. s \o ((o \o <<b>>) \o <<c>>) = (s \o (o \o <<b>>)) \o <<c>>
    BY <1>1, <1>2, ConcatAssociative
  <1> QED
    BY <1>1, <1>2, <1>3, <1>5, <1>6

\* One byte, the state of the filter before and after it.
LEMMA ByteKeeps ==
    ASSUME EscapeInv, NEW b \in Typed, E!Byte(b)
    PROVE  EscapeInv'
  <1> DEFINE n == Len(input)
  <1>1. /\ key_reader \in {"read", "chunk"} /\ input' = Append(input, b) /\ sent' = sent
        /\ E!Plain(b) \/ E!AfterTilde(b)
    BY DEF E!Byte
  <1>2. /\ input \in Seq(Typed) /\ out \in Seq(Typed) /\ sent \in Seq(Typed) /\ "~" \in Typed
        /\ at_line_start \in BOOLEAN /\ escape_pending \in BOOLEAN
    BY ComponentsAssumption DEF EscapeInv, EscapeTyped, E!EscapeFilterAssumption, E!Tilde
  <1>3. /\ escape_pending <=> Pends(input)
        /\ ~escape_pending => (at_line_start <=> (input = <<>> \/ input[n] = "nl"))
        /\ \A i \in 1 .. n : ~PairIn(input, i, ".")
        /\ sent \o out = Yield(input, IF Pends(input) THEN n - 1 ELSE n)
    BY <1>1 DEF EscapeInv, EscapeRuns
  <1>4. /\ input' \in Seq(Typed) /\ n \in Nat /\ Len(input') = n + 1 /\ input' # <<>>
        /\ input'[n + 1] = b
        /\ Pends(input') <=> b = "~" /\ (input = <<>> \/ input[n] = "nl")
        /\ \A i \in 1 .. (n - 1) : \A c : PairIn(input', i, c) <=> PairIn(input, i, c)
        /\ n > 0 => \A c : PairIn(input', n, c) <=> Pends(input) /\ b = c
        /\ \A c : ~PairIn(input', n + 1, c)
        /\ (input = <<>>) <=> (n = 0)
    BY <1>1, <1>2, OpensAppend
  <1>5. /\ Yield(input', n + 1) = Append(Yield(input', n), b)
        /\ ~(Pends(input) /\ b = "~") => Yield(input', n) = Yield(input, n)
        /\ n > 0 => Yield(input', n - 1) = Yield(input, n - 1)
        /\ n > 0 => Yield(input', n) = IF Pends(input) /\ b = "~" THEN Yield(input, n - 1)
                                       ELSE Append(Yield(input, n - 1), input[n])
    BY <1>1, <1>2, YieldAppend
  <1>6. \A i \in 1 .. (n + 1) : PairIn(input', i, ".") => i = n /\ Pends(input) /\ b = "."
    <2> SUFFICES ASSUME NEW i \in 1 .. (n + 1), PairIn(input', i, ".")
                 PROVE  i = n /\ Pends(input) /\ b = "."
      OBVIOUS
    <2>1. i # n + 1
      BY <1>4
    <2>2. i \notin 1 .. (n - 1)
      BY <1>3, <1>4
    <2>3. i = n /\ n > 0
      BY <1>4, <2>1, <2>2
    <2> QED
      BY <1>4, <2>3
  <1>7. Pends(input) => n > 0 /\ input[n] = "~"
    BY <1>4 DEF Pends, OpensIn
  <1>8. (input' = <<>> \/ input'[Len(input')] = "nl") <=> b = "nl"
    BY <1>4
  <1>9. CASE E!Plain(b)
    <2>1. ~escape_pending /\ ~Pends(input) /\ key_reader' = "chunk"
      BY <1>3, <1>9 DEF E!Plain
    <2>2. sent \o out = Yield(input, n) /\ Yield(input', n) = Yield(input, n)
      BY <1>3, <1>5, <2>1
    <2>3. CASE b = "~" /\ at_line_start
      <3>1. escape_pending' = TRUE /\ out' = out /\ at_line_start' = at_line_start
        BY <1>9, <2>3 DEF E!Plain, E!Tilde
      <3>2. Pends(input')
        BY <1>3, <1>4, <2>1, <2>3
      <3>3. sent' \o out' = Yield(input', Len(input') - 1)
        BY <1>1, <1>4, <2>2, <3>1
      <3>4. \A i \in 1 .. Len(input') : ~PairIn(input', i, ".")
        BY <1>4, <1>6, <2>1
      <3>5. EscapeRuns'
        BY <3>1, <3>2, <3>3, <3>4 DEF EscapeRuns
      <3> QED
        BY <1>1, <1>2, <1>4, <2>1, <3>1, <3>5 DEF EscapeInv, EscapeTyped, EscapeQuit
    <2>4. CASE ~(b = "~" /\ at_line_start)
      <3>1. /\ escape_pending' = escape_pending /\ out' = Append(out, b)
            /\ at_line_start' = (b = "nl")
        BY <1>9, <2>4 DEF E!Plain, E!Tilde, E!Newline
      <3>2. ~Pends(input')
        BY <1>3, <1>4, <2>1, <2>4
      <3>3. sent' \o out' = Yield(input', Len(input'))
        <4>1. sent \o Append(out, b) = Append(sent \o out, b)
          BY <1>2, ChunkFacts
        <4> QED
          BY <1>1, <1>4, <1>5, <2>2, <3>1, <4>1
      <3>4. \A i \in 1 .. Len(input') : ~PairIn(input', i, ".")
        BY <1>4, <1>6, <2>1
      <3>5. EscapeRuns'
        BY <1>8, <2>1, <3>1, <3>2, <3>3, <3>4 DEF EscapeRuns
      <3>6. out' \in Seq(Typed) /\ at_line_start' \in BOOLEAN
        BY <1>2, <3>1
      <3> QED
        BY <1>1, <1>2, <1>4, <2>1, <3>1, <3>5, <3>6 DEF EscapeInv, EscapeTyped, EscapeQuit
    <2> QED
      BY <2>3, <2>4
  <1>10. CASE E!AfterTilde(b)
    <2>1. escape_pending /\ Pends(input) /\ escape_pending' = FALSE
      BY <1>3, <1>10 DEF E!AfterTilde
    <2>2. n > 0 /\ input[n] = "~" /\ input # <<>> /\ ~Pends(input')
      BY <1>4, <1>7, <2>1
    <2>3. sent \o out = Yield(input, n - 1) /\ Yield(input', n - 1) = Yield(input, n - 1)
      BY <1>3, <1>5, <2>1, <2>2
    <2>4. CASE b = "."
      <3>1. key_reader' = "escaped" /\ out' = out /\ at_line_start' = at_line_start
        BY <1>10, <2>4 DEF E!AfterTilde, E!Dot, E!Tilde
      <3>2. Len(input') >= 2 /\ Len(input') - 1 = n /\ Len(input') - 2 = n - 1
        BY <1>4, <2>2
      <3>3. PairIn(input', n, ".")
        BY <1>4, <2>1, <2>2, <2>4
      <3>4. sent' \o out' = Yield(input', n - 1)
        BY <1>1, <2>3, <3>1
      <3>5. EscapeQuit'
        BY <3>2, <3>3, <3>4 DEF EscapeQuit
      <3> QED
        BY <1>1, <1>2, <1>4, <2>1, <3>1, <3>5 DEF EscapeInv, EscapeTyped, EscapeRuns
    <2>5. CASE b = "~"
      <3>1. key_reader' = "chunk" /\ out' = Append(out, "~") /\ at_line_start' = FALSE
        BY <1>10, <2>5 DEF E!AfterTilde, E!Dot, E!Tilde
      <3>2. sent' \o out' = Yield(input', Len(input'))
        <4>1. sent \o Append(out, "~") = Append(sent \o out, "~")
          BY <1>2, ChunkFacts
        <4>2. Yield(input', n) = Yield(input, n - 1)
          BY <1>5, <2>1, <2>2, <2>5
        <4> QED
          BY <1>1, <1>4, <1>5, <2>3, <2>5, <3>1, <4>1, <4>2
      <3>3. \A i \in 1 .. Len(input') : ~PairIn(input', i, ".")
        BY <1>4, <1>6, <2>5
      <3>4. EscapeRuns'
        BY <1>8, <2>1, <2>2, <2>5, <3>1, <3>2, <3>3 DEF EscapeRuns
      <3>5. out' \in Seq(Typed)
        BY <1>2, <3>1
      <3> QED
        BY <1>1, <1>2, <1>4, <2>1, <3>1, <3>4, <3>5 DEF EscapeInv, EscapeTyped, EscapeQuit
    <2>6. CASE b \notin {".", "~"}
      <3>1. key_reader' = "chunk" /\ out' = out \o <<"~", b>> /\ at_line_start' = (b = "nl")
        BY <1>10, <2>6 DEF E!AfterTilde, E!Dot, E!Tilde, E!Newline
      <3>2. sent' \o out' = Yield(input', Len(input'))
        <4>1. sent \o (out \o <<"~", b>>) = Append(Append(sent \o out, "~"), b)
          BY <1>2, ChunkFacts, SMTT(20)
        <4>2. Yield(input', n) = Append(Yield(input, n - 1), "~")
          BY <1>5, <2>2, <2>6
        <4>3. Yield(input', Len(input')) = Append(Append(Yield(input, n - 1), "~"), b)
          BY <1>4, <1>5, <4>2
        <4>4. sent' \o out' = Append(Append(sent \o out, "~"), b)
          BY <1>1, <3>1, <4>1
        <4> QED
          BY <2>3, <4>3, <4>4
      <3>3. \A i \in 1 .. Len(input') : ~PairIn(input', i, ".")
        BY <1>4, <1>6, <2>6
      <3>4. EscapeRuns'
        BY <1>8, <2>1, <2>2, <3>1, <3>2, <3>3 DEF EscapeRuns
      <3>5. out' \in Seq(Typed) /\ at_line_start' \in BOOLEAN
        BY <1>2, <3>1, ChunkFacts
      <3> QED
        BY <1>1, <1>2, <1>4, <2>1, <3>1, <3>4, <3>5 DEF EscapeInv, EscapeTyped, EscapeQuit
    <2> QED
      BY <2>4, <2>5, <2>6
  <1> QED
    BY <1>1, <1>9, <1>10

LEMMA EscapeInvariance == Spec => []EscapeInv
  <1>1. EscapeInv /\ [Next]_vars => EscapeInv'
    <2> SUFFICES ASSUME EscapeInv, [Next]_vars PROVE EscapeInv'
      OBVIOUS
    <2>1. ASSUME NEW b \in Typed, E!Byte(b) PROVE EscapeInv'
      BY <2>1, ByteKeeps
    <2>2. CASE E!ChunkEnds
      <3>1. /\ input' = input /\ at_line_start' = at_line_start
            /\ escape_pending' = escape_pending
            /\ key_reader = "chunk" /\ key_reader' = "read"
            /\ sent' = sent \o out /\ out' = <<>>
        BY <2>2 DEF E!ChunkEnds
      <3>2. /\ sent' \in Seq(Typed) /\ out' \in Seq(Typed) /\ sent' \o out' = sent \o out
        BY <3>1, ConcatProperties DEF EscapeInv, EscapeTyped
      <3> QED
        BY <3>1, <3>2 DEF EscapeInv, EscapeTyped, EscapeRuns, EscapeQuit
    <2>3. CASE E!StdinEnds
      BY <2>3 DEF E!StdinEnds, EscapeInv, EscapeTyped, EscapeRuns, EscapeQuit
    <2>4. CASE E!Done \/ UNCHANGED E!vars
      <3>1. /\ input' = input /\ key_reader' = key_reader /\ out' = out /\ sent' = sent
            /\ at_line_start' = at_line_start /\ escape_pending' = escape_pending
        BY <2>4 DEF E!Done, E!vars
      <3>2. EscapeTyped' /\ EscapeQuit'
        BY <3>1 DEF EscapeInv, EscapeTyped, EscapeQuit
      <3>3. EscapeRuns'
        BY <3>1 DEF EscapeInv, EscapeRuns
      <3> QED
        BY <3>2, <3>3 DEF EscapeInv
    <2> QED
      BY <2>1, <2>2, <2>3, <2>4, StepOfEscape DEF E!Next
  <1> QED
    BY <1>1, EscapeInit, PTL DEF Spec

\* However read() cuts stdin into chunks, what leaves the filter is what was
\* typed less the first ~ of each ~~ at a line start, and the thread quits
\* exactly at the first ~. that stands at a line start (the reader thread of
\* run_session and its escape filter), for every input of every length.
THEOREM FilterIsExact == Spec => []FilterExact
  <1>1. EscapeInv => FilterExact
    <2> SUFFICES ASSUME EscapeInv PROVE E!Transparent /\ E!EscapeExact
      BY DEF FilterExact
    <2> DEFINE n == Len(input)
    <2>1. input \in Seq(Typed) /\ n \in Nat /\ DOMAIN input = 1 .. n
      BY LenProperties DEF EscapeInv, EscapeTyped
    <2>2. ASSUME NEW i, NEW b
          PROVE  /\ E!Opens(i) <=> OpensIn(input, i)
                 /\ E!OpensPair(i, b) <=> PairIn(input, i, b)
      BY DEF E!Opens, E!OpensPair, OpensIn, PairIn, E!Tilde, E!Newline
    <2>3. ASSUME NEW m \in 0 .. n PROVE E!Unescaped(m) = Yield(input, m)
      <3>1. E!Unescaped(m) = UnescapedOf(input, m)
        BY DEF E!Unescaped, UnescapedOf, E!Opens, E!OpensPair, OpensIn, PairIn, E!Tilde,
               E!Newline
      <3> QED
        BY <2>1, <3>1, UnescapedIsYield
    <2>4. E!Reference = E!Unescaped(IF Pends(input) THEN n - 1
                                    ELSE IF key_reader = "escaped" THEN n - 2
                                    ELSE n)
      BY <2>2 DEF E!Reference, Pends
    <2>5. CASE key_reader # "escaped"
      <3>1. Pends(input) => n > 0
        BY <2>1, EmptySeq DEF Pends
      <3>2. E!Reference = Yield(input, IF Pends(input) THEN n - 1 ELSE n)
        BY <2>1, <2>3, <2>4, <2>5, <3>1
      <3>3. E!Transparent
        BY <2>5, <3>2 DEF E!Transparent, EscapeInv, EscapeRuns
      <3>4. E!EscapeExact
        BY <2>1, <2>2, <2>5 DEF E!EscapeExact, E!Dot, EscapeInv, EscapeRuns
      <3> QED
        BY <3>3, <3>4
    <2>6. CASE key_reader = "escaped"
      <3>1. n >= 2 /\ PairIn(input, n - 1, ".") /\ sent \o out = Yield(input, n - 2)
        BY <2>6 DEF EscapeInv, EscapeQuit
      <3>2. input[n] = "."
        <4>1. input[n - 1 + 1] = "." /\ n - 1 + 1 = n
          BY <2>1, <3>1 DEF PairIn
        <4> QED
          BY <4>1
      <3>3. ~Pends(input)
        BY <3>2 DEF Pends, OpensIn
      <3>4. E!Transparent
        BY <2>1, <2>3, <2>4, <2>6, <3>1, <3>3 DEF E!Transparent
      <3>5. n - 1 \in DOMAIN input /\ E!OpensPair(n - 1, ".")
        BY <2>1, <2>2, <3>1
      <3>6. E!EscapeExact
        BY <2>6, <3>5 DEF E!EscapeExact, E!Dot
      <3> QED
        BY <3>4, <3>6
    <2> QED
      BY <2>5, <2>6
  <1> QED
    BY <1>1, EscapeInvariance, PTL

-----------------------------------------------------------------------------
(* Framing.  A header is read back as the number and the length it was     *)
(* written from.                                                           *)

Shifts(f, n, k) == f = [i \in 0 .. k |-> IF i = 0 THEN n ELSE f[i - 1] \div Radix]

LEMMA DivMod ==
    ASSUME NEW n \in Int, NEW r \in Int, r > 1
    PROVE  n = (n \div r) * r + (n % r)
  OBVIOUS

LEMMA RadixFacts ==
    /\ Radix \in Nat /\ Radix > 1
    /\ \A n \in Nat : n \div Radix \in Nat /\ n % Radix \in Nat
    /\ \A n \in Nat : n = (n \div Radix) * Radix + (n % Radix)
  <1>1. Radix \in Nat /\ Radix > 1
    BY ComponentsAssumption DEF F!FramingAssumption
  <1>2. ASSUME NEW n \in Nat
        PROVE  n \div Radix \in Nat /\ n % Radix \in Nat
    BY <1>1
  <1>3. ASSUME NEW n \in Nat
        PROVE  n = (n \div Radix) * Radix + (n % Radix)
    <2>1. n \in Int /\ Radix \in Int
      BY <1>1
    <2> QED
      BY <1>1, <2>1, DivMod, Zenon
  <1> QED
    BY <1>1, <1>2, <1>3

LEMMA ShiftsExist ==
    ASSUME NEW n \in Nat
    PROVE  \A k \in Nat : \E f \in [0 .. k -> Nat] : Shifts(f, n, k)
  <1> DEFINE T == {k \in Nat : ~\E f \in [0 .. k -> Nat] : Shifts(f, n, k)}
  <1>1. ASSUME NEW x \in T PROVE FALSE
    <2>1. PICK k \in T : \A j \in T : k <= j
      BY <1>1, LeastNumber
    <2>2. k # 0
      <3> DEFINE f == [i \in 0 .. 0 |-> n]
      <3>1. Shifts(f, n, 0) /\ f \in [0 .. 0 -> Nat]
        BY DEF Shifts
      <3> QED
        BY <3>1
    <2>3. k \in Nat /\ k - 1 \in Nat /\ k - 1 \notin T
      <3>1. k \in Nat
        BY <2>1
      <3>2. k - 1 \in Nat
        BY <2>2, <3>1
      <3>3. ASSUME k - 1 \in T PROVE FALSE
        <4>1. k <= k - 1
          BY <2>1, <3>3
        <4> QED
          BY <3>1, <4>1
      <3> QED
        BY <3>1, <3>2, <3>3
    <2>4. PICK f \in [0 .. (k - 1) -> Nat] : Shifts(f, n, k - 1)
      BY <2>3
    <2> DEFINE g == [i \in 0 .. k |-> IF i < k THEN f[i] ELSE f[k - 1] \div Radix]
    <2>5. ASSUME NEW i \in 0 .. k
          PROVE  g[i] \in Nat /\ g[i] = IF i = 0 THEN n ELSE g[i - 1] \div Radix
      <3>1. CASE i = k
        <4>1. f[k - 1] \in Nat /\ k - 1 \in 0 .. (k - 1) /\ k - 1 \in 0 .. k
          BY <2>3, <2>4
        <4>2. g[i] = f[k - 1] \div Radix /\ g[i - 1] = f[k - 1]
          BY <2>2, <2>3, <3>1, <4>1
        <4> QED
          BY <2>2, <3>1, <4>1, <4>2, RadixFacts
      <3>2. CASE i < k
        <4>1. i \in 0 .. (k - 1)
          BY <2>3, <3>2
        <4>2. f[i] = IF i = 0 THEN n ELSE f[i - 1] \div Radix
          BY <2>4, <4>1 DEF Shifts
        <4>3. g[i] = f[i] /\ (i # 0 => g[i - 1] = f[i - 1])
          BY <2>3, <3>2
        <4> QED
          BY <2>4, <4>1, <4>2, <4>3
      <3> QED
        BY <2>3, <3>1, <3>2
    <2>6. Shifts(g, n, k) /\ g \in [0 .. k -> Nat]
      BY <2>5 DEF Shifts
    <2> QED
      BY <2>6
  <1> QED
    BY <1>1

LEMMA ShiftsAgree ==
    ASSUME NEW n, NEW k \in Nat, NEW m \in Nat, NEW l \in Nat, l <= k, l <= m,
           NEW f, NEW g, Shifts(f, n, k), Shifts(g, n, m)
    PROVE  f[l] = g[l]
  <1> DEFINE T == {i \in 0 .. l : f[i] # g[i]}
  <1>1. ASSUME l \in T PROVE FALSE
    <2>1. T \in SUBSET Nat /\ T # {}
      BY <1>1
    <2>2. PICK i \in T : \A j \in T : i <= j
      BY <2>1, LeastNumber
    <2>3. /\ f[i] = IF i = 0 THEN n ELSE f[i - 1] \div Radix
          /\ g[i] = IF i = 0 THEN n ELSE g[i - 1] \div Radix
      <3>1. i \in 0 .. k /\ i \in 0 .. m
        BY <2>2
      <3> QED
        BY <3>1 DEF Shifts
    <2>4. i # 0
      BY <2>2, <2>3
    <2>5. i - 1 \in 0 .. l /\ i - 1 \notin T
      BY <2>2, <2>4
    <2>6. f[i - 1] = g[i - 1]
      BY <2>5
    <2> QED
      BY <2>2, <2>3, <2>4, <2>6
  <1> QED
    BY <1>1

\* The equations of Shifted.
LEMMA ShiftedIs ==
    ASSUME NEW n \in Nat, NEW k \in Nat, NEW m \in 0 .. k, NEW f, Shifts(f, n, k)
    PROVE  f[m] = F!Shifted(n, m)
  <1> DEFINE Def(g) == g = [i \in 0 .. m |-> IF i = 0 THEN n ELSE g[i - 1] \div Radix]
  <1>1. F!Shifted(n, m) = (CHOOSE g : Def(g))[m]
    BY DEF F!Shifted
  <1>2. \E g : Def(g)
    <2>1. m \in Nat
      OBVIOUS
    <2>2. PICK g \in [0 .. m -> Nat] : Shifts(g, n, m)
      BY <2>1, ShiftsExist
    <2> QED
      BY <2>2 DEF Shifts
  <1> HIDE DEF Def
  <1>3. PICK g : g = (CHOOSE x : Def(x)) /\ Def(g)
    BY <1>2
  <1>4. Shifts(g, n, m)
    BY <1>3 DEF Def, Shifts
  <1>5. f[m] = g[m]
    BY <1>4, ShiftsAgree
  <1> QED
    BY <1>1, <1>3, <1>5

LEMMA ShiftedStep ==
    ASSUME NEW n \in Nat, NEW k \in Nat
    PROVE  /\ F!Shifted(n, k) \in Nat
           /\ F!Shifted(n, 0) = n
           /\ F!Shifted(n, k + 1) = F!Shifted(n, k) \div Radix
  <1>1. PICK f \in [0 .. (k + 1) -> Nat] : Shifts(f, n, k + 1)
    <2>1. k + 1 \in Nat
      OBVIOUS
    <2> QED
      BY <2>1, ShiftsExist
  <1>2. 0 \in 0 .. (k + 1) /\ k \in 0 .. (k + 1) /\ k + 1 \in 0 .. (k + 1) /\ k + 1 \in Nat
    OBVIOUS
  <1>3. f[0] = n /\ f[k + 1] = f[k] \div Radix /\ f[k] \in Nat
    BY <1>1, <1>2 DEF Shifts
  <1>4. /\ f[0] = F!Shifted(n, 0) /\ f[k] = F!Shifted(n, k)
        /\ f[k + 1] = F!Shifted(n, k + 1)
    BY <1>1, <1>2, ShiftedIs
  <1> QED
    BY <1>3, <1>4

\* What to_be_bytes writes of a number that fits, from_be_bytes reads.
LEMMA DigitsRoundTrip ==
    ASSUME NEW n \in Nat, NEW w \in Nat, F!Shifted(n, w) = 0
    PROVE  /\ F!ToDigits(n, w) \in Seq(Nat) /\ Len(F!ToDigits(n, w)) = w
           /\ F!FromDigits(F!ToDigits(n, w)) = n
  <1> DEFINE d == F!ToDigits(n, w)
             Def(v) == v = [i \in 0 .. Len(d) |->
                               IF i = 0 THEN 0 ELSE v[i - 1] * Radix + d[i]]
             s == [i \in 0 .. w |-> F!Shifted(n, w - i)]
  <1>1. ASSUME NEW i \in 0 .. w PROVE F!Shifted(n, w - i) \in Nat
    <2>1. w - i \in Nat
      OBVIOUS
    <2> QED
      BY <2>1, ShiftedStep
  <1>2. d \in Seq(Nat) /\ Len(d) = w
        /\ \A i \in 1 .. w : d[i] = F!Shifted(n, w - i) % Radix
    <2>1. d = [i \in 1 .. w |-> F!Shifted(n, w - i) % Radix]
      BY DEF F!ToDigits
    <2>2. \A i \in 1 .. w : F!Shifted(n, w - i) % Radix \in Nat
      BY <1>1, RadixFacts
    <2> QED
      BY <2>1, <2>2
  <1> HIDE DEF d
  <1>3. ASSUME NEW i \in 1 .. w
        PROVE  F!Shifted(n, w - i) = F!Shifted(n, w - (i - 1)) * Radix + d[i]
    <2>1. w - i \in Nat /\ w - (i - 1) = (w - i) + 1 /\ i \in 0 .. w
      OBVIOUS
    <2>2. F!Shifted(n, w - (i - 1)) = F!Shifted(n, w - i) \div Radix
      BY <2>1, ShiftedStep
    <2> QED
      BY <1>1, <1>2, <2>1, <2>2, RadixFacts
  <1>4. Def(s)
    <2>1. ASSUME NEW i \in 0 .. w
          PROVE  s[i] = IF i = 0 THEN 0 ELSE s[i - 1] * Radix + d[i]
      <3>1. CASE i = 0
        BY <3>1
      <3>2. CASE i # 0
        <4>1. i \in 1 .. w /\ i - 1 \in 0 .. w
          BY <3>2
        <4>2. s[i] = F!Shifted(n, w - i) /\ s[i - 1] = F!Shifted(n, w - (i - 1))
          BY <4>1
        <4> QED
          BY <1>3, <3>2, <4>1, <4>2
      <3> QED
        BY <3>1, <3>2
    <2>2. DOMAIN s = 0 .. w /\ s = [i \in DOMAIN s |-> s[i]]
      OBVIOUS
    <2> HIDE DEF s
    <2> QED
      BY <1>2, <2>1, <2>2
  <1>5. F!FromDigits(d) = (CHOOSE v : Def(v))[Len(d)]
    BY DEF F!FromDigits
  <1>6. s[w] = n
    BY ShiftedStep
  <1> HIDE DEF s
  <1>7. PICK v : v = (CHOOSE x : Def(x)) /\ Def(v)
    <2> HIDE DEF Def
    <2> QED
      BY <1>4
  <1>8. v[w] = s[w]
    <2> DEFINE T == {i \in 0 .. w : v[i] # s[i]}
    <2>1. ASSUME w \in T PROVE FALSE
      <3>1. T \in SUBSET Nat /\ T # {}
        BY <2>1
      <3>2. PICK i \in T : \A j \in T : i <= j
        BY <3>1, LeastNumber
      <3>3. /\ v[i] = IF i = 0 THEN 0 ELSE v[i - 1] * Radix + d[i]
            /\ s[i] = IF i = 0 THEN 0 ELSE s[i - 1] * Radix + d[i]
        BY <1>2, <1>4, <1>7, <3>2
      <3>4. i # 0
        BY <3>2, <3>3
      <3>5. i - 1 \in 0 .. w /\ i - 1 \notin T
        BY <3>2, <3>4
      <3>6. v[i - 1] = s[i - 1]
        BY <3>5
      <3> QED
        BY <3>2, <3>3, <3>4, <3>6
    <2> QED
      BY <2>1
  <1> HIDE DEF Def
  <1> QED
    BY <1>2, <1>5, <1>6, <1>7, <1>8 DEF d

\* Where the elements of a concatenation come from.
LEMMA ConcatFacts ==
    ASSUME NEW Q, NEW s \in Seq(Q), NEW t \in Seq(Q)
    PROVE  /\ s \o t \in Seq(Q) /\ Len(s) \in Nat /\ Len(t) \in Nat
           /\ Len(s \o t) = Len(s) + Len(t)
           /\ \A i \in 1 .. Len(s) : (s \o t)[i] = s[i]
           /\ \A i \in 1 .. Len(t) : (s \o t)[Len(s) + i] = t[i]
  <1>1. Len(s) \in Nat /\ Len(t) \in Nat
    BY LenProperties
  <1>2. /\ s \o t \in Seq(Q) /\ Len(s \o t) = Len(s) + Len(t)
        /\ \A i \in 1 .. Len(s) + Len(t) : (s \o t)[i] =
                     IF i <= Len(s) THEN s[i] ELSE t[i - Len(s)]
    BY ConcatProperties
  <1>3. ASSUME NEW i \in 1 .. Len(s) PROVE (s \o t)[i] = s[i]
    BY <1>1, <1>2
  <1>4. ASSUME NEW i \in 1 .. Len(t) PROVE (s \o t)[Len(s) + i] = t[i]
    <2>1. Len(s) + i \in 1 .. Len(s) + Len(t) /\ ~(Len(s) + i <= Len(s)) /\ Len(s) + i - Len(s) = i
      BY <1>1
    <2> QED
      BY <1>2, <2>1
  <1> QED
    BY <1>1, <1>2, <1>3, <1>4

(* What a message looks like on the wire, as a function of the message     *)
(* alone: the encoder that is kept between datagrams must not show.        *)

FrameUnit == Nat \cup Ips \cup Ports

Sendable(k, m) ==
    /\ m \in [seq : Nat, peer : (Ips \X Ports) \cup {F!NoPeer}, data : Seq(Nat)]
    /\ m.seq \in 1 .. MaxHanded
    /\ Len(m.data) \in BodyLens
    /\ (k = "udp") <=> (m.peer # F!NoPeer)

BodyOf(k, m) == IF k = "udp" THEN <<m.peer[1], m.peer[2]>> \o m.data ELSE m.data
HeaderOf(k, m) ==
    IF k = "chunk" THEN F!ToDigits(m.seq, SeqDigits) \o F!ToDigits(Len(BodyOf(k, m)), LenDigits)
    ELSE F!ToDigits(Len(BodyOf(k, m)), LenDigits)
FrameOf(k, m) == HeaderOf(k, m) \o BodyOf(k, m)
HeaderSize(k) == LenDigits + (IF k = "chunk" THEN SeqDigits ELSE 0)

LEMMA FrameConstants ==
    /\ SeqDigits \in Nat /\ LenDigits \in Nat /\ LenDigits > 0 /\ MaxHanded \in Nat
    /\ \A n \in 1 .. MaxHanded : F!Shifted(n, SeqDigits) = 0
    /\ BodyLens \subseteq Nat
    /\ \A n \in BodyLens : F!Shifted(n, LenDigits) = 0 /\ F!Shifted(n + 2, LenDigits) = 0
    /\ \A k : HeaderSize(k) \in Nat /\ HeaderSize(k) >= LenDigits
  <1>1. /\ SeqDigits \in Nat /\ LenDigits \in Nat /\ LenDigits > 0 /\ MaxHanded \in Nat
        /\ \A n \in 1 .. MaxHanded : F!Shifted(n, SeqDigits) = 0
        /\ BodyLens \subseteq Nat
        /\ \A n \in BodyLens : F!Shifted(n, LenDigits) = 0 /\ F!Shifted(n + 2, LenDigits) = 0
    BY ComponentsAssumption DEF F!FramingAssumption
  <1> QED
    BY <1>1 DEF HeaderSize

\* A body fits its length field, and is what the reader takes apart again.
LEMMA BodyFacts ==
    ASSUME NEW k, NEW m, Sendable(k, m)
    PROVE  LET b == BodyOf(k, m) IN
           /\ b \in Seq(FrameUnit) /\ Len(b) \in Nat /\ F!Shifted(Len(b), LenDigits) = 0
           /\ k # "udp" => b = m.data /\ m.peer = F!NoPeer /\ Len(b) = Len(m.data)
           /\ k = "udp" => /\ Len(b) = Len(m.data) + 2
                           /\ m.peer = <<b[1], b[2]>>
                           /\ SubSeq(b, 3, Len(b)) = m.data
  <1> DEFINE b == BodyOf(k, m)
             d == m.data
  <1>1. d \in Seq(Nat) /\ d \in Seq(FrameUnit) /\ Len(d) \in Nat /\ Len(d) \in BodyLens
    <2>1. d \in Seq(Nat) /\ Len(d) \in Nat /\ Len(d) \in BodyLens
      BY LenProperties DEF Sendable
    <2>2. \A i \in 1 .. Len(d) : d[i] \in FrameUnit
      BY <2>1, ElementOfSeq DEF FrameUnit
    <2> QED
      BY <2>1, <2>2
  <1>2. CASE k # "udp"
    <2>1. b = d /\ m.peer = F!NoPeer
      BY <1>2 DEF BodyOf, Sendable
    <2> QED
      BY <1>1, <1>2, <2>1, FrameConstants
  <1>3. CASE k = "udp"
    <2> DEFINE p == <<m.peer[1], m.peer[2]>>
    <2>1. m.peer \in Ips \X Ports /\ m.peer = p
      BY <1>3 DEF Sendable
    <2>2. p \in Seq(FrameUnit) /\ Len(p) = 2 /\ p[1] = m.peer[1] /\ p[2] = m.peer[2]
      BY <2>1 DEF FrameUnit
    <2>3. b = p \o d
      BY <1>3 DEF BodyOf
    <2> HIDE DEF p, d, b
    <2>4. /\ b \in Seq(FrameUnit) /\ Len(b) = Len(d) + 2
          /\ b[1] = p[1] /\ b[2] = p[2]
          /\ \A i \in 1 .. Len(d) : b[2 + i] = d[i]
      <3>1. p \in Seq(FrameUnit) /\ d \in Seq(FrameUnit)
        BY <1>1, <2>2
      <3>2. /\ p \o d \in Seq(FrameUnit) /\ Len(p \o d) = Len(p) + Len(d)
            /\ \A i \in 1 .. Len(p) : (p \o d)[i] = p[i]
            /\ \A i \in 1 .. Len(d) : (p \o d)[Len(p) + i] = d[i]
        BY <3>1, ConcatFacts
      <3> QED
        BY <1>1, <2>2, <2>3, <3>2
    <2>5. SubSeq(b, 3, Len(b)) = d
      <3>1. /\ SubSeq(b, 3, Len(b)) \in Seq(FrameUnit)
            /\ Len(SubSeq(b, 3, Len(b))) = Len(d)
            /\ \A i \in 1 .. Len(d) : SubSeq(b, 3, Len(b))[i] = b[3 + i - 1]
        BY <1>1, <2>4, SubSeqProperties
      <3>2. \A i \in 1 .. Len(d) : b[3 + i - 1] = d[i]
        BY <1>1, <2>4
      <3> QED
        BY <1>1, <3>1, <3>2, SeqEqual
    <2>6. F!Shifted(Len(b), LenDigits) = 0
      BY <1>1, <2>4, FrameConstants
    <2>7. m.peer = <<b[1], b[2]>>
      BY <2>1, <2>2, <2>4 DEF p
    <2> QED
      BY <1>1, <1>3, <2>4, <2>5, <2>6, <2>7 DEF b, d
  <1> QED
    BY <1>2, <1>3

\* A header says what stands behind it.
LEMMA HeaderFacts ==
    ASSUME NEW k, NEW m, Sendable(k, m)
    PROVE  LET hdr == HeaderOf(k, m)
               h == HeaderSize(k)
           IN  /\ hdr \in Seq(FrameUnit) /\ Len(hdr) = h
               /\ F!FromDigits(SubSeq(hdr, 1, h - LenDigits)) = (IF k = "chunk" THEN m.seq ELSE 0)
               /\ F!FromDigits(SubSeq(hdr, h - LenDigits + 1, h)) = Len(BodyOf(k, m))
  <1> DEFINE n == Len(BodyOf(k, m))
             ld == F!ToDigits(n, LenDigits)
             hdr == HeaderOf(k, m)
             h == HeaderSize(k)
  <1>1. n \in Nat /\ F!Shifted(n, LenDigits) = 0
    BY BodyFacts
  <1>2. ld \in Seq(Nat) /\ Len(ld) = LenDigits /\ F!FromDigits(ld) = n
    BY <1>1, DigitsRoundTrip, FrameConstants
  <1>3. ASSUME NEW s \in Seq(Nat) PROVE s \in Seq(FrameUnit)
    <2>1. \A i \in 1 .. Len(s) : s[i] \in FrameUnit
      BY ElementOfSeq DEF FrameUnit
    <2> QED
      BY <2>1
  <1>4. CASE k # "chunk"
    <2>1. hdr = ld /\ h = LenDigits
      BY <1>4, FrameConstants DEF HeaderOf, HeaderSize
    <2> HIDE DEF hdr, ld, h, n
    <2>2. SubSeq(hdr, 1, 0) = <<>>
      BY <1>2, <2>1, SubSeqEmpty
    <2>3. F!FromDigits(<<>>) = 0
      <3>1. F!Shifted(0, 0) = 0
        BY ShiftedStep
      <3>2. /\ F!ToDigits(0, 0) \in Seq(Nat) /\ Len(F!ToDigits(0, 0)) = 0
            /\ F!FromDigits(F!ToDigits(0, 0)) = 0
        BY <3>1, DigitsRoundTrip
      <3> QED
        BY <3>2, EmptySeq
    <2>4. SubSeq(hdr, 1, h) = hdr
      BY <1>2, <2>1, SubSeqFull
    <2>5. h - LenDigits = 0 /\ h - LenDigits + 1 = 1
      BY <2>1, FrameConstants
    <2>6. hdr \in Seq(FrameUnit) /\ Len(hdr) = h
      BY <1>2, <1>3, <2>1
    <2> QED
      BY <1>2, <1>4, <2>1, <2>2, <2>3, <2>4, <2>5, <2>6 DEF hdr, h, n
  <1>5. CASE k = "chunk"
    <2> DEFINE sd == F!ToDigits(m.seq, SeqDigits)
    <2>1. hdr = sd \o ld /\ h = LenDigits + SeqDigits
      BY <1>5 DEF HeaderOf, HeaderSize
    <2>2. m.seq \in Nat /\ F!Shifted(m.seq, SeqDigits) = 0
      BY FrameConstants DEF Sendable
    <2>3. sd \in Seq(Nat) /\ Len(sd) = SeqDigits /\ F!FromDigits(sd) = m.seq
      BY <2>2, DigitsRoundTrip, FrameConstants
    <2> HIDE DEF hdr, ld, h, n, sd
    <2>4. hdr \in Seq(Nat) /\ Len(hdr) = h
      <3>1. sd \o ld \in Seq(Nat) /\ Len(sd \o ld) = Len(sd) + Len(ld)
        BY <1>2, <2>3, ConcatProperties
      <3> QED
        BY <1>2, <2>1, <2>3, <3>1, FrameConstants
    <2>5. h - LenDigits = SeqDigits
      BY <2>1, FrameConstants
    <2>6. SubSeq(hdr, 1, SeqDigits) = sd
      BY <1>2, <2>1, <2>3, SubSeqOfConcat1, SubSeqFull, FrameConstants
    <2>7. SubSeq(hdr, SeqDigits + 1, h) = ld
      <3>1. /\ SubSeq(hdr, SeqDigits + 1, h) \in Seq(Nat)
            /\ Len(SubSeq(hdr, SeqDigits + 1, h)) = LenDigits
            /\ \A i \in 1 .. LenDigits : SubSeq(hdr, SeqDigits + 1, h)[i] = hdr[SeqDigits + 1 + i - 1]
        BY <2>1, <2>4, SubSeqProperties, FrameConstants, SMTT(20)
      <3>2. ASSUME NEW i \in 1 .. LenDigits PROVE hdr[SeqDigits + 1 + i - 1] = ld[i]
        <4>1. /\ Len(ld) = LenDigits
              /\ \A e \in 1 .. (Len(sd) + Len(ld)) :
                    (sd \o ld)[e] = IF e <= Len(sd) THEN sd[e] ELSE ld[e - Len(sd)]
          BY <1>2, <2>3, ConcatProperties
        <4>2. /\ SeqDigits + i \in 1 .. (SeqDigits + LenDigits) /\ ~(SeqDigits + i <= SeqDigits)
              /\ SeqDigits + i - SeqDigits = i /\ SeqDigits + 1 + i - 1 = SeqDigits + i
          BY FrameConstants
        <4> QED
          BY <2>1, <2>3, <4>1, <4>2
      <3> QED
        BY <1>2, <3>1, <3>2, SeqEqual
    <2> QED
      BY <1>2, <1>3, <1>5, <2>3, <2>4, <2>5, <2>6, <2>7 DEF hdr, h, n
  <1> QED
    BY <1>4, <1>5

LEMMA FrameFacts ==
    ASSUME NEW k, NEW m, Sendable(k, m)
    PROVE  LET f == FrameOf(k, m)
               h == HeaderSize(k)
           IN  /\ f \in Seq(FrameUnit) /\ Len(f) \in Nat /\ h \in Nat
               /\ Len(f) = h + Len(BodyOf(k, m))
               /\ \A i \in 1 .. h : f[i] = HeaderOf(k, m)[i]
               /\ \A i \in 1 .. Len(BodyOf(k, m)) : f[h + i] = BodyOf(k, m)[i]
  <1> DEFINE b == BodyOf(k, m)
             hdr == HeaderOf(k, m)
             f == FrameOf(k, m)
             h == HeaderSize(k)
  <1>1. b \in Seq(FrameUnit) /\ Len(b) \in Nat
    BY BodyFacts
  <1>2. hdr \in Seq(FrameUnit) /\ Len(hdr) = h /\ h \in Nat
    BY HeaderFacts, FrameConstants
  <1>3. f = hdr \o b
    BY DEF FrameOf
  <1> HIDE DEF f, b, hdr, h
  <1>4. /\ f \in Seq(FrameUnit) /\ Len(f) = h + Len(b)
        /\ \A i \in 1 .. h : f[i] = hdr[i]
        /\ \A i \in 1 .. Len(b) : f[h + i] = b[i]
    <2>1. hdr \in Seq(FrameUnit) /\ b \in Seq(FrameUnit)
      BY <1>1, <1>2
    <2>2. /\ hdr \o b \in Seq(FrameUnit) /\ Len(hdr \o b) = Len(hdr) + Len(b)
          /\ \A i \in 1 .. Len(hdr) : (hdr \o b)[i] = hdr[i]
          /\ \A i \in 1 .. Len(b) : (hdr \o b)[Len(hdr) + i] = b[i]
      BY <2>1, ConcatFacts
    <2> QED
      BY <1>2, <1>3, <2>2
  <1>5. Len(f) \in Nat
    BY <1>1, <1>2, <1>4
  <1> QED
    BY <1>1, <1>2, <1>4, <1>5 DEF f, b, hdr, h

(* The frames of hs follow one another on the stream, frame i from off[i - *)
(* 1] on.  The reader has taken p units; w is what is on its way, q what   *)
(* the writer still has of the last frame.                                 *)

FrameMessage == [seq : Nat, peer : (Ips \X Ports) \cup {F!NoPeer}, data : Seq(Nat)]

HandedWell(k, hs) ==
    /\ hs \in Seq(FrameMessage) /\ Len(hs) <= MaxHanded
    /\ \A i \in 1 .. Len(hs) : Sendable(k, hs[i]) /\ hs[i].seq = i

Offsets(off, k, hs) ==
    /\ off \in [0 .. Len(hs) -> Nat]
    /\ \A i \in 1 .. Len(hs) : off[i] = off[i - 1] + Len(FrameOf(k, hs[i]))
    /\ \A i, j \in 0 .. Len(hs) : i <= j => off[i] <= off[j]

Carries(off, k, hs, p, w) ==
    \A i \in 1 .. Len(hs) : \A j \in 1 .. Len(FrameOf(k, hs[i])) :
        off[i - 1] + j - p \in 1 .. Len(w) => w[off[i - 1] + j - p] = FrameOf(k, hs[i])[j]

Remains(k, hs, q) ==
    LET f == FrameOf(k, hs[Len(hs)]) IN
    q # <<>> => /\ hs # <<>> /\ Len(q) <= Len(f)
                /\ \A j \in 1 .. Len(q) : q[j] = f[Len(f) - Len(q) + j]

Transit(off, k, hs, p, w, q, lost) ==
    /\ Offsets(off, k, hs) /\ Carries(off, k, hs, p, w) /\ Remains(k, hs, q)
    /\ p + Len(w) <= off[Len(hs)]
    /\ ~lost => p + Len(w) + Len(q) = off[Len(hs)]

\* The reader takes c units.
LEMMA TransitRead ==
    ASSUME NEW k, NEW hs, HandedWell(k, hs), NEW w \in Seq(FrameUnit), NEW q, NEW off,
           NEW p \in Nat, NEW lost, Transit(off, k, hs, p, w, q, lost), NEW c \in 0 .. Len(w),
           Len(q) \in Nat
    PROVE  /\ SubSeq(w, c + 1, Len(w)) \in Seq(FrameUnit)
           /\ Transit(off, k, hs, p + c, SubSeq(w, c + 1, Len(w)), q, lost)
  <1> DEFINE v == SubSeq(w, c + 1, Len(w))
  <1>1. Len(w) \in Nat
    BY LenProperties
  <1>2. /\ v \in Seq(FrameUnit) /\ Len(v) = Len(w) - c
        /\ \A i \in 1 .. Len(v) : v[i] = w[i + c]
    <2>1. c + 1 \in 1 .. (Len(w) + 1) /\ Len(w) \in c .. Len(w) /\ c + 1 \in Int
      BY <1>1
    <2>2. /\ v \in Seq(FrameUnit) /\ Len(v) = Len(w) - c
          /\ \A i \in 1 .. (Len(w) - c) : v[i] = w[c + 1 + i - 1]
      BY <1>1, <2>1, SubSeqProperties
    <2>3. \A i \in 1 .. (Len(w) - c) : c + 1 + i - 1 = i + c
      BY <1>1
    <2> QED
      BY <2>2, <2>3
  <1> HIDE DEF v
  <1>3. /\ Offsets(off, k, hs) /\ Remains(k, hs, q) /\ Carries(off, k, hs, p, w)
        /\ p + Len(w) <= off[Len(hs)]
        /\ ~lost => p + Len(w) + Len(q) = off[Len(hs)]
    BY DEF Transit
  <1>4. Len(hs) \in Nat /\ \A i \in 0 .. Len(hs) : off[i] \in Nat
    BY <1>3, LenProperties DEF HandedWell, Offsets
  <1>5. Carries(off, k, hs, p + c, v)
    <2> SUFFICES ASSUME NEW i \in 1 .. Len(hs), NEW j \in 1 .. Len(FrameOf(k, hs[i])),
                        off[i - 1] + j - (p + c) \in 1 .. Len(v)
                 PROVE  v[off[i - 1] + j - (p + c)] = FrameOf(k, hs[i])[j]
      BY DEF Carries
    <2>1. off[i - 1] \in Nat /\ j \in Nat
      BY <1>4
    <2>2. /\ off[i - 1] + j - (p + c) + c = off[i - 1] + j - p
          /\ off[i - 1] + j - p \in 1 .. Len(w)
      <3>1. off[i - 1] + j - (p + c) >= 1 /\ off[i - 1] + j - (p + c) <= Len(w) - c
        BY <1>1, <1>2
      <3>2. p \in Nat /\ c \in Nat
        BY <1>1
      <3> DEFINE x == off[i - 1]
      <3>3. x \in Nat /\ x + j - (p + c) >= 1 /\ x + j - (p + c) <= Len(w) - c
        BY <2>1, <3>1
      <3> HIDE DEF x
      <3>4. x + j - (p + c) + c = x + j - p /\ x + j - p >= 1 /\ x + j - p <= Len(w)
        BY <1>1, <2>1, <3>2, <3>3
      <3> QED
        BY <1>1, <2>1, <3>2, <3>3, <3>4 DEF x
    <2>3. v[off[i - 1] + j - (p + c)] = w[off[i - 1] + j - p]
      BY <1>2, <2>2
    <2> QED
      BY <1>3, <2>2, <2>3 DEF Carries
  <1>6. off[Len(hs)] \in Nat
    BY <1>4
  <1>7. /\ p + c + Len(v) <= off[Len(hs)]
        /\ ~lost => p + c + Len(v) + Len(q) = off[Len(hs)]
    BY <1>1, <1>2, <1>3, <1>6
  <1> QED
    BY <1>2, <1>3, <1>5, <1>7 DEF Transit, v

\* The connection is lost, and the end of what is on its way with it.
LEMMA TransitLose ==
    ASSUME NEW k, NEW hs, HandedWell(k, hs), NEW w \in Seq(FrameUnit), NEW q, NEW off,
           NEW p \in Nat, NEW lost, Transit(off, k, hs, p, w, q, lost), NEW c \in 0 .. Len(w)
    PROVE  /\ SubSeq(w, 1, c) \in Seq(FrameUnit)
           /\ Transit(off, k, hs, p, SubSeq(w, 1, c), q, TRUE)
  <1> DEFINE v == SubSeq(w, 1, c)
  <1>1. Len(w) \in Nat
    BY LenProperties
  <1>2. /\ v \in Seq(FrameUnit) /\ Len(v) = c
        /\ \A i \in 1 .. c : v[i] = w[i]
    BY <1>1, SubSeqProperties
  <1> HIDE DEF v
  <1>3. /\ Offsets(off, k, hs) /\ Remains(k, hs, q) /\ Carries(off, k, hs, p, w)
        /\ p + Len(w) <= off[Len(hs)]
    BY DEF Transit
  <1>4. Len(hs) \in Nat /\ \A i \in 0 .. Len(hs) : off[i] \in Nat
    BY <1>3, LenProperties DEF HandedWell, Offsets
  <1>5. Carries(off, k, hs, p, v)
    <2> SUFFICES ASSUME NEW i \in 1 .. Len(hs), NEW j \in 1 .. Len(FrameOf(k, hs[i])),
                        off[i - 1] + j - p \in 1 .. Len(v)
                 PROVE  v[off[i - 1] + j - p] = FrameOf(k, hs[i])[j]
      BY DEF Carries
    <2>1. off[i - 1] + j - p \in 1 .. Len(w) /\ v[off[i - 1] + j - p] = w[off[i - 1] + j - p]
      BY <1>1, <1>2
    <2> QED
      BY <1>3, <2>1 DEF Carries
  <1>6. off[Len(hs)] \in Nat
    BY <1>4
  <1>7. p + Len(v) <= off[Len(hs)]
    BY <1>1, <1>2, <1>3, <1>6
  <1> QED
    BY <1>2, <1>3, <1>5, <1>7 DEF Transit, v

\* The unit after the ones in transit belongs to the last frame: x and y are the
\* offsets at which its frame, of l units, and the last frame, of g units, begin.
LEMMA NotInAnEarlierFrame ==
    ASSUME NEW x \in Nat, NEW y \in Nat, NEW l \in Nat, NEW g \in Nat, NEW j \in Nat,
           NEW p \in Nat, NEW w \in Nat, NEW q \in Nat,
           j <= l, x + l <= y, x + j - p = w + 1, p + w + q = y + g, q <= g
    PROVE  FALSE
  <1>1. x + j = p + w + 1
    OBVIOUS
  <1>2. p + w + 1 <= y
    BY <1>1
  <1>3. y <= p + w
    OBVIOUS
  <1> QED
    BY <1>2, <1>3

\* One more unit of the last frame is written.
LEMMA TransitWrite ==
    ASSUME NEW k, NEW hs, HandedWell(k, hs), NEW w \in Seq(FrameUnit),
           NEW q \in Seq(FrameUnit), q # <<>>, NEW off,
           NEW p \in Nat, Transit(off, k, hs, p, w, q, FALSE)
    PROVE  Transit(off, k, hs, p, Append(w, Head(q)), Tail(q), FALSE)
  <1> DEFINE v == Append(w, Head(q))
             t == Tail(q)
             n == Len(hs)
             f == FrameOf(k, hs[n])
  <1>1. Len(w) \in Nat /\ Len(q) \in Nat /\ Len(q) > 0
    BY LenProperties, EmptySeq
  <1>2. /\ Head(q) = q[1] /\ q[1] \in FrameUnit
        /\ t \in Seq(FrameUnit) /\ Len(t) = Len(q) - 1
        /\ \A i \in 1 .. Len(t) : t[i] = q[i + 1]
    BY <1>1, HeadTailProperties, ElementOfSeq
  <1>3. /\ v \in Seq(FrameUnit) /\ Len(v) = Len(w) + 1 /\ v[Len(w) + 1] = q[1]
        /\ \A i \in 1 .. Len(w) : v[i] = w[i]
    BY <1>1, <1>2, AppendProperties
  <1>4. /\ Offsets(off, k, hs) /\ Remains(k, hs, q) /\ Carries(off, k, hs, p, w)
        /\ p + Len(w) + Len(q) = off[n]
    BY DEF Transit
  <1>5. /\ hs \in Seq(FrameMessage) /\ n \in Nat /\ hs # <<>> /\ n > 0
        /\ \A i \in 0 .. n : off[i] \in Nat
    <2>1. hs \in Seq(FrameMessage) /\ hs # <<>>
      BY <1>4 DEF HandedWell, Remains
    <2>2. n \in Nat /\ n > 0
      BY <2>1, LenProperties, EmptySeq
    <2> QED
      BY <1>4, <2>1, <2>2 DEF Offsets
  <1>6. /\ Len(f) \in Nat /\ Len(q) <= Len(f) /\ off[n] = off[n - 1] + Len(f)
        /\ \A j \in 1 .. Len(q) : q[j] = f[Len(f) - Len(q) + j]
    <2>1. Sendable(k, hs[n])
      BY <1>5 DEF HandedWell
    <2>2. Len(f) \in Nat
      BY <2>1, FrameFacts
    <2>3. n \in 1 .. n
      BY <1>5
    <2>4. off[n] = off[n - 1] + Len(f)
      BY <1>4, <2>3 DEF Offsets
    <2> QED
      BY <1>4, <2>2, <2>4 DEF Remains
  <1> HIDE DEF v, t
  <1>7. Carries(off, k, hs, p, v)
    <2> SUFFICES ASSUME NEW i \in 1 .. n, NEW j \in 1 .. Len(FrameOf(k, hs[i])),
                        off[i - 1] + j - p \in 1 .. Len(v)
                 PROVE  v[off[i - 1] + j - p] = FrameOf(k, hs[i])[j]
      BY DEF Carries
    <2> HIDE DEF n, f
    <2>1. off[i - 1] \in Nat /\ j \in Nat /\ off[n - 1] \in Nat /\ off[n] \in Nat
      BY <1>5
    <2>2. CASE off[i - 1] + j - p \in 1 .. Len(w)
      BY <1>3, <1>4, <2>2 DEF Carries, n
    <2>3. CASE off[i - 1] + j - p = Len(w) + 1
      <3>1. i = n
        <4>1. ASSUME i < n PROVE FALSE
          <5>1. i \in 0 .. n /\ n - 1 \in 0 .. n /\ i <= n - 1
            BY <1>5, <4>1
          <5>2. off[i] <= off[n - 1]
            BY <1>4, <5>1 DEF Offsets, n
          <5>3. off[i] = off[i - 1] + Len(FrameOf(k, hs[i])) /\ Len(FrameOf(k, hs[i])) \in Nat
            <6>1. Sendable(k, hs[i])
              BY DEF HandedWell, n
            <6> QED
              BY <1>4, <6>1, FrameFacts DEF Offsets, n
          <5> DEFINE x == off[i - 1]
                     y == off[n - 1]
                     l == Len(FrameOf(k, hs[i]))
          <5>4. x \in Nat /\ y \in Nat /\ l \in Nat /\ j \in Nat /\ j <= l
            BY <2>1, <5>3
          <5>5. x + l <= y
            BY <5>2, <5>3
          <5>6. x + j - p = Len(w) + 1
            BY <2>3
          <5>7. p + Len(w) + Len(q) = y + Len(f)
            BY <1>4, <1>6
          <5> HIDE DEF x, y, l
          <5> QED
            BY <1>1, <1>6, <5>4, <5>5, <5>6, <5>7, NotInAnEarlierFrame, SMTT(20)
        <4> QED
          BY <1>5, <4>1
      <3>2. j = Len(f) - Len(q) + 1
        <4>1. off[i - 1] = off[n - 1]
          BY <3>1
        <4> DEFINE x == off[n - 1]
        <4>2. x \in Nat /\ p + Len(w) + Len(q) = x + Len(f) /\ x + j - p = Len(w) + 1
          BY <1>4, <1>6, <2>1, <2>3, <4>1
        <4>3. Len(f) \in Nat /\ Len(w) \in Nat /\ Len(q) \in Nat /\ j \in Nat /\ p \in Nat
          BY <1>1, <1>6, <2>1
        <4> HIDE DEF x
        <4>4. Len(f) = p + Len(w) + Len(q) - x
          BY <4>2, <4>3
        <4>5. j = Len(w) + 1 + p - x
          BY <4>2, <4>3
        <4> QED
          BY <4>2, <4>3, <4>4, <4>5
      <3>3. q[1] = f[Len(f) - Len(q) + 1]
        BY <1>1, <1>6
      <3> QED
        BY <1>3, <2>3, <3>1, <3>2, <3>3 DEF f
    <2> QED
      BY <1>1, <1>3, <2>1, <2>2, <2>3
  <1>8. Remains(k, hs, t)
    <2> SUFFICES ASSUME t # <<>>
                 PROVE  /\ Len(t) <= Len(f)
                        /\ \A j \in 1 .. Len(t) : t[j] = f[Len(f) - Len(t) + j]
      BY <1>5 DEF Remains
    <2> HIDE DEF n, f
    <2>1. ASSUME NEW j \in 1 .. Len(t) PROVE t[j] = f[Len(f) - Len(t) + j]
      <3>1. j + 1 \in 1 .. Len(q) /\ Len(f) - Len(q) + (j + 1) = Len(f) - Len(t) + j
        BY <1>1, <1>2, <1>6
      <3>2. q[j + 1] = f[Len(f) - Len(q) + (j + 1)]
        BY <1>6, <3>1
      <3> QED
        BY <1>2, <3>1, <3>2
    <2> QED
      BY <1>1, <1>2, <1>6, <2>1
  <1>9. p + Len(v) <= off[n] /\ p + Len(v) + Len(t) = off[n]
    BY <1>1, <1>2, <1>3, <1>4
  <1> QED
    BY <1>4, <1>7, <1>8, <1>9 DEF Transit, v, t

\* The frame of m comes behind the others.
Extends(off, k, hs, m, p, w) ==
    \E ext : /\ Transit(ext, k, Append(hs, m), p, w, FrameOf(k, m), FALSE)
             /\ \A i \in 0 .. Len(hs) : ext[i] = off[i]

\* A message is handed over once the one before it is written.
LEMMA TransitHand ==
    ASSUME NEW k, NEW hs, HandedWell(k, hs), NEW w \in Seq(FrameUnit), NEW off,
           NEW p \in Nat, Transit(off, k, hs, p, w, <<>>, FALSE),
           NEW m \in FrameMessage, Sendable(k, m)
    PROVE  Extends(off, k, hs, m, p, w)
  <1> DEFINE n == Len(hs)
             hm == Append(hs, m)
             f == FrameOf(k, m)
             ext == [i \in 0 .. (n + 1) |-> IF i <= n THEN off[i] ELSE off[n] + Len(f)]
  <1>1. Len(w) \in Nat /\ n \in Nat /\ hs \in Seq(FrameMessage) /\ Len(<<>>) = 0
    BY LenProperties DEF HandedWell
  <1>2. /\ hm \in Seq(FrameMessage) /\ Len(hm) = n + 1 /\ hm[n + 1] = m /\ hm # <<>>
        /\ \A i \in 1 .. n : hm[i] = hs[i]
    BY <1>1, AppendProperties
  <1>3. /\ Offsets(off, k, hs) /\ Carries(off, k, hs, p, w)
        /\ p + Len(w) = off[n]
    <2>1. /\ Offsets(off, k, hs) /\ Carries(off, k, hs, p, w)
          /\ p + Len(w) + Len(<<>>) = off[n]
      BY DEF Transit
    <2> QED
      BY <1>1, <2>1
  <1>4. /\ \A i \in 0 .. n : off[i] \in Nat
        /\ \A i \in 1 .. n : off[i] = off[i - 1] + Len(FrameOf(k, hs[i]))
        /\ \A i, j \in 0 .. n : i <= j => off[i] <= off[j]
    BY <1>3 DEF Offsets
  <1>5. f \in Seq(FrameUnit) /\ Len(f) \in Nat
    BY FrameFacts
  <1>6. off[n] \in Nat
    BY <1>1, <1>4
  <1>7. /\ \A i \in 0 .. n : ext[i] = off[i]
        /\ ext[n + 1] = off[n] + Len(f)
        /\ ext \in [0 .. (n + 1) -> Nat]
    <2>1. \A i \in 0 .. (n + 1) : ext[i] = IF i <= n THEN off[i] ELSE off[n] + Len(f)
      OBVIOUS
    <2>2. \A i \in 0 .. n : i \in 0 .. (n + 1) /\ i <= n
      BY <1>1
    <2>3. n + 1 \in 0 .. (n + 1) /\ ~(n + 1 <= n)
      BY <1>1
    <2>4. \A i \in 0 .. (n + 1) : ext[i] \in Nat
      BY <1>1, <1>4, <1>5, <1>6, <2>1
    <2>5. DOMAIN ext = 0 .. (n + 1) /\ ext = [i \in DOMAIN ext |-> ext[i]]
      OBVIOUS
    <2> HIDE DEF ext
    <2> QED
      BY <2>1, <2>2, <2>3, <2>4, <2>5
  <1> HIDE DEF ext, hm, f, n
  <1>8. Offsets(ext, k, hm)
    <2>1. ASSUME NEW i \in 1 .. (n + 1) PROVE ext[i] = ext[i - 1] + Len(FrameOf(k, hm[i]))
      <3>1. CASE i = n + 1
        <4>1. i - 1 = n /\ n \in 0 .. n
          BY <1>1, <3>1
        <4> QED
          BY <1>2, <1>7, <3>1, <4>1 DEF f
      <3>2. CASE i # n + 1
        <4>1. i \in 1 .. n /\ i \in 0 .. n /\ i - 1 \in 0 .. n
          BY <1>1, <3>2
        <4> QED
          BY <1>2, <1>4, <1>7, <4>1
      <3> QED
        BY <3>1, <3>2
    <2>2. ASSUME NEW i \in 0 .. (n + 1), NEW j \in 0 .. (n + 1), i <= j PROVE ext[i] <= ext[j]
      <3>1. CASE j # n + 1
        <4>1. i \in 0 .. n /\ j \in 0 .. n
          BY <1>1, <2>2, <3>1
        <4> QED
          BY <1>4, <1>7, <2>2, <4>1
      <3>2. CASE j = n + 1
        <4>1. ext[j] = off[n] + Len(f)
          BY <1>7, <3>2
        <4>2. CASE i = n + 1
          BY <1>5, <1>6, <4>1, <4>2, <1>7
        <4>3. CASE i # n + 1
          <5>1. i \in 0 .. n /\ n \in 0 .. n /\ i <= n
            BY <1>1, <4>3
          <5>2. off[i] <= off[n] /\ off[i] \in Nat /\ ext[i] = off[i]
            BY <1>4, <1>7, <5>1
          <5> QED
            BY <1>5, <1>6, <4>1, <5>2
        <4> QED
          BY <4>2, <4>3
      <3> QED
        BY <3>1, <3>2
    <2> QED
      BY <1>2, <1>7, <2>1, <2>2 DEF Offsets
  <1>9. Carries(ext, k, hm, p, w)
    <2> SUFFICES ASSUME NEW i \in 1 .. (n + 1), NEW j \in 1 .. Len(FrameOf(k, hm[i])),
                        ext[i - 1] + j - p \in 1 .. Len(w)
                 PROVE  w[ext[i - 1] + j - p] = FrameOf(k, hm[i])[j]
      BY <1>2 DEF Carries
    <2>1. CASE i = n + 1
      <3>1. i - 1 = n /\ n \in 0 .. n /\ j \in Nat /\ j >= 1
        BY <1>1, <2>1
      <3>2. ext[i - 1] = p + Len(w)
        BY <1>3, <1>7, <3>1
      <3>3. ext[i - 1] + j - p = Len(w) + j
        <4>1. \A a, b, c, d \in Nat : a = b + c => a + d - b = c + d
          OBVIOUS
        <4>2. ext[i - 1] \in Nat
          BY <1>1, <3>2
        <4> QED
          BY <1>1, <3>1, <3>2, <4>1, <4>2
      <3>4. Len(w) + j \in 1 .. Len(w)
        BY <3>3
      <3> QED
        BY <1>1, <3>1, <3>4
    <2>2. CASE i # n + 1
      <3>1. i \in 1 .. n /\ i - 1 \in 0 .. n
        BY <1>1, <2>2
      <3>2. hm[i] = hs[i] /\ ext[i - 1] = off[i - 1]
        BY <1>2, <1>7, <3>1
      <3> QED
        BY <1>3, <3>1, <3>2 DEF Carries, n
    <2> QED
      BY <2>1, <2>2
  <1>10. Remains(k, hm, f)
    <2>1. hm[Len(hm)] = m
      BY <1>2
    <2>2. \A j \in 1 .. Len(f) : Len(f) - Len(f) + j = j
      BY <1>5
    <2> QED
      BY <1>2, <1>5, <2>1, <2>2 DEF Remains, f
  <1>11. p + Len(w) <= ext[n + 1] /\ p + Len(w) + Len(f) = ext[n + 1]
    BY <1>1, <1>3, <1>5, <1>6, <1>7
  <1>12. Transit(ext, k, hm, p, w, f, FALSE)
    BY <1>2, <1>8, <1>9, <1>10, <1>11 DEF Transit
  <1> QED
    BY <1>7, <1>12 DEF hm, f, n, Extends

\* The encoder holds the peer and the payload of the last datagram.
Encodes(e, m) == e.addr = m.peer[1] /\ e.port = m.peer[2] /\ e.data = m.data

FrameTyped ==
    /\ kind \in {"msg", "chunk", "udp"}
    /\ frame_stream \in {"open", "finished", "lost"}
    /\ frame_reader \in {"header", "body", "end", "error"}
    /\ head \in Nat \X Nat
    /\ wire \in Seq(FrameUnit) /\ pending \in Seq(FrameUnit)

FrameRead == Len(got) \in 0 .. Len(handed) /\ got = SubSeq(handed, 1, Len(got))

FrameEncoder ==
    /\ enc.cached_ip = enc.addr
    /\ kind = "udp" /\ handed # <<>> => Encodes(enc, handed[Len(handed)])

\* The header that was read is the one of the frame whose body comes next.
FrameHead ==
    frame_reader = "body" =>
        /\ Len(got) < Len(handed)
        /\ head[2] = Len(BodyOf(kind, handed[Len(got) + 1]))
        /\ kind = "chunk" => head[1] = Len(got) + 1

FrameTransit ==
    frame_reader \in {"header", "body"} =>
        \E off : Transit(off, kind, handed,
                         off[Len(got)] + (IF frame_reader = "body" THEN HeaderSize(kind) ELSE 0),
                         wire, pending, frame_stream = "lost")

FrameEnds == F!EndExplained /\ (frame_reader = "end" => frame_stream # "open")

FrameInv ==
    /\ FrameTyped /\ HandedWell(kind, handed) /\ FrameRead /\ FrameEncoder /\ FrameHead
    /\ FrameTransit /\ FrameEnds

LEMMA StepOfFrames == [Next]_vars => [F!Next]_(F!vars)
  <1> SUFFICES ASSUME [Next]_vars PROVE [F!Next]_(F!vars)
    OBVIOUS
  <1>1. ASSUME Frames PROVE F!Next
    BY <1>1 DEF Frames
  <1>2. ASSUME ~Frames PROVE UNCHANGED fVars
    BY <1>2 DEF Next, vars, History, Escape, Display, Config, Udp, Bootstrap
  <1> QED
    BY <1>1, <1>2 DEF F!vars, fVars

LEMMA FrameInit == Init => FrameInv
  <1> SUFFICES ASSUME Init PROVE FrameInv
    OBVIOUS
  <1>1. /\ kind \in {"msg", "chunk", "udp"} /\ handed = <<>> /\ pending = <<>> /\ wire = <<>>
        /\ frame_stream = "open" /\ frame_reader = "header" /\ head = <<0, 0>> /\ got = <<>>
    BY DEF Init, F!Init
  <1>2. /\ Len(handed) = 0 /\ Len(got) = 0 /\ Len(wire) = 0 /\ Len(pending) = 0
        /\ wire \in Seq(FrameUnit) /\ pending \in Seq(FrameUnit)
        /\ handed \in Seq(FrameMessage) /\ got \in Seq(FrameMessage)
    BY <1>1, EmptySeq
  <1>3. FrameTyped /\ FrameEncoder /\ FrameHead
    <2>1. enc = [cached_ip |-> "", addr |-> "", port |-> 0, data |-> <<>>]
      BY DEF Init, F!Init
    <2>2. enc.cached_ip = enc.addr
      BY <2>1
    <2> QED
      BY <1>1, <1>2, <2>2 DEF FrameTyped, FrameEncoder, FrameHead
  <1>4. HandedWell(kind, handed)
    BY <1>2, FrameConstants DEF HandedWell
  <1>5. FrameRead
    <2>1. SubSeq(handed, 1, 0) = <<>>
      BY <1>2, SubSeqEmpty
    <2> QED
      BY <1>1, <1>2, <2>1 DEF FrameRead
  <1>6. FrameTransit
    <2> DEFINE off == [i \in 0 .. 0 |-> 0]
    <2>1. Offsets(off, kind, handed)
      BY <1>2 DEF Offsets
    <2>2. Carries(off, kind, handed, 0, wire) /\ Remains(kind, handed, pending)
      BY <1>1, <1>2 DEF Carries, Remains
    <2>3. off[0] = 0
      OBVIOUS
    <2> HIDE DEF off
    <2>4. Transit(off, kind, handed, 0, wire, pending, frame_stream = "lost")
      BY <1>1, <1>2, <2>1, <2>2, <2>3 DEF Transit
    <2>5. off[Len(got)] + (IF frame_reader = "body" THEN HeaderSize(kind) ELSE 0) = 0
      BY <1>1, <1>2, <2>3
    <2> QED
      BY <2>4, <2>5 DEF FrameTransit
  <1>7. FrameEnds
    BY <1>1 DEF FrameEnds, F!EndExplained
  <1> QED
    BY <1>3, <1>4, <1>5, <1>6, <1>7 DEF FrameInv

\* What the encoder makes of a message is what the message alone determines.
LEMMA EncodedBody ==
    ASSUME NEW m, NEW e, kind = "udp" => Encodes(e, m)
    PROVE  F!Body(m, e) = BodyOf(kind, m) /\ F!Frame(m, e) = FrameOf(kind, m)
  <1>1. F!Body(m, e) = BodyOf(kind, m)
    BY DEF F!Body, BodyOf, Encodes
  <1> QED
    BY <1>1 DEF F!Frame, FrameOf, HeaderOf

LEMMA HandKeeps ==
    ASSUME FrameInv, NEW len \in BodyLens, NEW peer \in (Ips \X Ports) \cup {F!NoPeer},
           F!Hand(len, peer)
    PROVE  FrameInv'
  <1> DEFINE n == Len(handed)
             msg == F!Message(n + 1, len, peer)
  <1>1. /\ frame_stream = "open" /\ pending = <<>> /\ n < MaxHanded
        /\ (kind = "udp") <=> (peer # F!NoPeer)
        /\ handed' = Append(handed, msg)
        /\ enc' = IF kind = "udp" THEN F!Encode(enc, peer, msg.data) ELSE enc
        /\ pending' = F!Frame(msg, enc')
        /\ kind' = kind /\ wire' = wire /\ frame_stream' = frame_stream
        /\ frame_reader' = frame_reader /\ head' = head /\ got' = got
    BY DEF F!Hand
  <1>2. /\ FrameTyped /\ HandedWell(kind, handed) /\ FrameRead /\ FrameEncoder /\ FrameHead
        /\ FrameTransit /\ FrameEnds
    BY DEF FrameInv
  <1>3. handed \in Seq(FrameMessage) /\ n \in Nat /\ Len(got) \in 0 .. n /\ n + 1 \in 1 .. MaxHanded
    BY <1>1, <1>2, LenProperties, FrameConstants DEF HandedWell, FrameRead
  <1>4. msg \in FrameMessage /\ msg.seq = n + 1 /\ msg.peer = peer /\ Sendable(kind, msg)
    <2> DEFINE d == [i \in 1 .. len |-> n + 1]
    <2>1. msg = [seq |-> n + 1, peer |-> peer, data |-> d]
      BY DEF F!Message
    <2>2. len \in Nat /\ n + 1 \in Nat
      BY <1>3, FrameConstants
    <2>3. d \in Seq(Nat) /\ Len(d) = len
      BY <2>2
    <2> HIDE DEF d, msg
    <2> QED
      BY <1>1, <1>3, <2>1, <2>2, <2>3 DEF FrameMessage, Sendable
  <1>5. enc'.cached_ip = enc'.addr /\ (kind = "udp" => Encodes(enc', msg))
    <2>1. CASE kind = "udp"
      <3>1. enc' = [cached_ip |-> peer[1],
                    addr |-> IF enc.cached_ip # peer[1] THEN peer[1] ELSE enc.addr,
                    port |-> peer[2],
                    data |-> msg.data]
        BY <1>1, <2>1 DEF F!Encode
      <3>2. enc.cached_ip = enc.addr
        BY <1>2 DEF FrameEncoder
      <3> HIDE DEF msg
      <3> QED
        BY <1>4, <3>1, <3>2 DEF Encodes
    <2>2. CASE kind # "udp"
      BY <1>1, <1>2, <2>2 DEF FrameEncoder
    <2> QED
      BY <2>1, <2>2
  <1> HIDE DEF msg
  <1>6. pending' = FrameOf(kind, msg) /\ pending' \in Seq(FrameUnit)
    BY <1>1, <1>4, <1>5, EncodedBody, FrameFacts
  <1>7. /\ handed' \in Seq(FrameMessage) /\ Len(handed') = n + 1 /\ handed'[n + 1] = msg
        /\ handed' # <<>> /\ \A i \in 1 .. n : handed'[i] = handed[i]
    BY <1>1, <1>3, <1>4, AppendProperties
  <1>8. FrameTyped'
    BY <1>1, <1>2, <1>6 DEF FrameTyped
  <1>9. HandedWell(kind, handed)'
    <2>1. ASSUME NEW i \in 1 .. (n + 1) PROVE Sendable(kind, handed'[i]) /\ handed'[i].seq = i
      <3>1. CASE i = n + 1
        BY <1>4, <1>7, <3>1
      <3>2. CASE i # n + 1
        <4>1. i \in 1 .. n
          BY <1>3, <3>2
        <4> QED
          BY <1>2, <1>7, <4>1 DEF HandedWell
      <3> QED
        BY <3>1, <3>2
    <2>2. HandedWell(kind, handed')
      BY <1>3, <1>7, <2>1 DEF HandedWell
    <2> QED
      BY <1>1, <2>2
  <1>10. FrameRead'
    <2>1. got = SubSeq(handed, 1, Len(got))
      BY <1>2 DEF FrameRead
    <2>2. SubSeq(handed', 1, Len(got)) = SubSeq(handed, 1, Len(got))
      <3> DEFINE r == Len(got)
                 a == SubSeq(handed', 1, r)
                 b == SubSeq(handed, 1, r)
      <3>1. r \in 0 .. n /\ r \in Nat
        BY <1>3
      <3>2. a \in Seq(FrameMessage) /\ Len(a) = r /\ \A i \in 1 .. r : a[i] = handed'[i]
        BY <1>3, <1>7, <3>1, SubSeqProperties
      <3>3. b \in Seq(FrameMessage) /\ Len(b) = r /\ \A i \in 1 .. r : b[i] = handed[i]
        BY <1>3, <3>1, SubSeqProperties
      <3>4. \A i \in 1 .. r : a[i] = b[i]
        BY <1>3, <1>7, <3>1, <3>2, <3>3
      <3> HIDE DEF a, b, r
      <3>5. a = b
        BY <3>2, <3>3, <3>4, SeqEqual
      <3> QED
        BY <3>5 DEF a, b, r
    <2>3. Len(got) \in 0 .. (n + 1)
      BY <1>3
    <2> QED
      BY <1>1, <1>7, <2>1, <2>2, <2>3 DEF FrameRead
  <1>11. FrameEncoder'
    BY <1>1, <1>5, <1>7 DEF FrameEncoder
  <1>12. FrameHead'
    <2> SUFFICES ASSUME frame_reader' = "body"
                 PROVE  /\ Len(got') < Len(handed')
                        /\ head'[2] = Len(BodyOf(kind', handed'[Len(got') + 1]))
                        /\ kind' = "chunk" => head'[1] = Len(got') + 1
      BY DEF FrameHead
    <2>1. /\ Len(got) < n
          /\ head[2] = Len(BodyOf(kind, handed[Len(got) + 1]))
          /\ kind = "chunk" => head[1] = Len(got) + 1
      BY <1>1, <1>2 DEF FrameHead
    <2>2. Len(got) + 1 \in 1 .. n /\ Len(got) < n + 1
      BY <1>3, <2>1
    <2>3. handed'[Len(got) + 1] = handed[Len(got) + 1]
      BY <1>7, <2>2
    <2> QED
      BY <1>1, <1>7, <2>1, <2>2, <2>3
  <1>13. FrameTransit'
    <2> DEFINE skip == IF frame_reader = "body" THEN HeaderSize(kind) ELSE 0
    <2> SUFFICES ASSUME frame_reader \in {"header", "body"}
                 PROVE  \E off : Transit(off, kind, handed', off[Len(got)] + skip, wire, pending', FALSE)
      BY <1>1 DEF FrameTransit
    <2>1. PICK off : Transit(off, kind, handed, off[Len(got)] + skip, wire, <<>>, FALSE)
      BY <1>1, <1>2 DEF FrameTransit
    <2>2. off[Len(got)] + skip \in Nat
      <3>1. off[Len(got)] \in Nat
        BY <1>3, <2>1 DEF Transit, Offsets
      <3> QED
        BY <3>1, FrameConstants
    <2> HIDE DEF skip
    <2>3. wire \in Seq(FrameUnit)
      BY <1>2 DEF FrameTyped
    <2>4. PICK ext : /\ Transit(ext, kind, Append(handed, msg), off[Len(got)] + skip, wire,
                                FrameOf(kind, msg), FALSE)
                     /\ \A i \in 0 .. Len(handed) : ext[i] = off[i]
      <3> DEFINE at == off[Len(got)] + skip
      <3>1. at \in Nat /\ Transit(off, kind, handed, at, wire, <<>>, FALSE)
        BY <2>1, <2>2
      <3> HIDE DEF at
      <3>2. Extends(off, kind, handed, msg, at, wire)
        BY <1>2, <1>4, <2>3, <3>1, TransitHand
      <3> QED
        BY <3>2 DEF at, Extends
    <2>5. ext[Len(got)] = off[Len(got)]
      BY <1>3, <2>4
    <2> QED
      BY <1>1, <1>6, <2>4, <2>5
  <1>14. FrameEnds'
    <2>1. frame_reader # "end"
      BY <1>1, <1>2 DEF FrameEnds
    <2>2. ASSUME frame_reader = "error" PROVE (\E i \in DOMAIN handed : F!TooLong(handed[i]))'
      <3>1. PICK i \in DOMAIN handed : F!TooLong(handed[i])
        BY <1>1, <1>2, <2>2 DEF FrameEnds, F!EndExplained
      <3>2. i \in 1 .. n /\ i \in 1 .. (n + 1)
        BY <1>3, <3>1
      <3>3. i \in DOMAIN handed' /\ handed'[i] = handed[i]
        BY <1>7, <3>2
      <3> QED
        BY <1>1, <3>1, <3>3 DEF F!TooLong
    <2> QED
      BY <1>1, <2>1, <2>2 DEF FrameEnds, F!EndExplained
  <1> QED
    BY <1>8, <1>9, <1>10, <1>11, <1>12, <1>13, <1>14 DEF FrameInv

\* How the reader stands on the stream: the units it has taken.
Taken(off) == off[Len(got)] + (IF frame_reader = "body" THEN HeaderSize(kind) ELSE 0)

LEMMA ReaderAt ==
    ASSUME FrameInv, frame_reader \in {"header", "body"}
    PROVE  \E off : /\ Transit(off, kind, handed, Taken(off), wire, pending, frame_stream = "lost")
                    /\ Taken(off) \in Nat
                    /\ \A i \in 0 .. Len(handed) : off[i] \in Nat
  <1>1. PICK off : Transit(off, kind, handed, Taken(off), wire, pending, frame_stream = "lost")
    BY DEF FrameInv, FrameTransit, Taken
  <1>2. Len(got) \in 0 .. Len(handed)
    BY DEF FrameInv, FrameRead
  <1>3. \A i \in 0 .. Len(handed) : off[i] \in Nat
    BY <1>1 DEF Transit, Offsets
  <1>4. off[Len(got)] \in Nat
    BY <1>2, <1>3
  <1>5. Taken(off) \in Nat
    BY <1>4, FrameConstants DEF Taken
  <1> QED
    BY <1>1, <1>3, <1>5

LEMMA WriteUnitKeeps ==
    ASSUME FrameInv, F!WriteUnit
    PROVE  FrameInv'
  <1>1. /\ frame_stream = "open" /\ pending # <<>>
        /\ wire' = Append(wire, Head(pending)) /\ pending' = Tail(pending)
        /\ kind' = kind /\ handed' = handed /\ enc' = enc /\ frame_stream' = frame_stream
        /\ frame_reader' = frame_reader /\ head' = head /\ got' = got
    BY DEF F!WriteUnit
  <1>2. /\ FrameTyped /\ HandedWell(kind, handed) /\ FrameRead /\ FrameEncoder /\ FrameHead
        /\ FrameEnds /\ wire \in Seq(FrameUnit) /\ pending \in Seq(FrameUnit)
    BY DEF FrameInv, FrameTyped
  <1>3. FrameTyped'
    <2>1. wire' \in Seq(FrameUnit) /\ pending' \in Seq(FrameUnit)
      BY <1>1, <1>2, HeadTailProperties, AppendProperties
    <2> QED
      BY <1>1, <1>2, <2>1 DEF FrameTyped
  <1>4. HandedWell(kind, handed)' /\ FrameRead' /\ FrameEncoder' /\ FrameHead'
    BY <1>1, <1>2 DEF FrameRead, FrameEncoder, FrameHead
  <1>5. FrameTransit'
    <2> SUFFICES ASSUME frame_reader \in {"header", "body"}
                 PROVE  \E off : Transit(off, kind, handed, Taken(off), wire', pending', FALSE)
      BY <1>1 DEF FrameTransit, Taken
    <2>1. PICK off : /\ Transit(off, kind, handed, Taken(off), wire, pending, FALSE)
                     /\ Taken(off) \in Nat
      BY <1>1, ReaderAt
    <2>2. Transit(off, kind, handed, Taken(off), Append(wire, Head(pending)), Tail(pending), FALSE)
      BY <1>1, <1>2, <2>1, TransitWrite
    <2> QED
      BY <1>1, <2>2
  <1>6. FrameEnds'
    <2>1. frame_reader # "end"
      BY <1>1, <1>2 DEF FrameEnds
    <2>2. frame_reader = "error" => \E i \in DOMAIN handed : F!TooLong(handed[i])
      BY <1>1, <1>2 DEF FrameEnds, F!EndExplained
    <2> QED
      BY <1>1, <2>1, <2>2 DEF FrameEnds, F!EndExplained, F!TooLong
  <1> QED
    BY <1>3, <1>4, <1>5, <1>6 DEF FrameInv

LEMMA FinishKeeps ==
    ASSUME FrameInv, F!Finish
    PROVE  FrameInv'
  <1>1. /\ frame_stream = "open" /\ frame_stream' = "finished"
        /\ kind' = kind /\ handed' = handed /\ enc' = enc /\ pending' = pending /\ wire' = wire
        /\ frame_reader' = frame_reader /\ head' = head /\ got' = got
    BY DEF F!Finish
  <1>2. /\ FrameTyped /\ HandedWell(kind, handed) /\ FrameRead /\ FrameEncoder /\ FrameHead
        /\ FrameTransit /\ FrameEnds
    BY DEF FrameInv
  <1>3. FrameTyped' /\ HandedWell(kind, handed)' /\ FrameRead' /\ FrameEncoder' /\ FrameHead'
    BY <1>1, <1>2 DEF FrameTyped, FrameRead, FrameEncoder, FrameHead
  <1>4. FrameTransit'
    <2>1. (frame_stream = "lost") = FALSE /\ (frame_stream' = "lost") = FALSE
      BY <1>1
    <2> QED
      BY <1>1, <1>2, <2>1 DEF FrameTransit
  <1>5. FrameEnds'
    <2>1. frame_reader # "end"
      BY <1>1, <1>2 DEF FrameEnds
    <2>2. frame_reader = "error" => \E i \in DOMAIN handed : F!TooLong(handed[i])
      BY <1>1, <1>2 DEF FrameEnds, F!EndExplained
    <2> QED
      BY <1>1, <2>1, <2>2 DEF FrameEnds, F!EndExplained, F!TooLong
  <1> QED
    BY <1>3, <1>4, <1>5 DEF FrameInv

LEMMA LoseKeeps ==
    ASSUME FrameInv, F!Lose
    PROVE  FrameInv'
  <1>1. /\ frame_stream' = "lost"
        /\ \E n \in 0 .. Len(wire) : wire' = SubSeq(wire, 1, n)
        /\ kind' = kind /\ handed' = handed /\ enc' = enc /\ pending' = pending
        /\ frame_reader' = frame_reader /\ head' = head /\ got' = got
    BY DEF F!Lose
  <1>2. PICK n \in 0 .. Len(wire) : wire' = SubSeq(wire, 1, n)
    BY <1>1
  <1>3. /\ FrameTyped /\ HandedWell(kind, handed) /\ FrameRead /\ FrameEncoder /\ FrameHead
        /\ FrameEnds /\ wire \in Seq(FrameUnit)
    BY DEF FrameInv, FrameTyped
  <1>4. FrameTyped'
    <2>1. n \in Nat /\ Len(wire) \in Nat
      BY <1>3, LenProperties
    <2>2. wire' \in Seq(FrameUnit)
      BY <1>2, <1>3, <2>1, SubSeqProperties
    <2> QED
      BY <1>1, <1>3, <2>2 DEF FrameTyped
  <1>5. HandedWell(kind, handed)' /\ FrameRead' /\ FrameEncoder' /\ FrameHead'
    BY <1>1, <1>3 DEF FrameRead, FrameEncoder, FrameHead
  <1>6. FrameTransit'
    <2> SUFFICES ASSUME frame_reader \in {"header", "body"}
                 PROVE  \E off : Transit(off, kind, handed, Taken(off), wire', pending, TRUE)
      BY <1>1 DEF FrameTransit, Taken
    <2>1. PICK off : /\ Transit(off, kind, handed, Taken(off), wire, pending, frame_stream = "lost")
                     /\ Taken(off) \in Nat
      BY ReaderAt
    <2>2. Transit(off, kind, handed, Taken(off), SubSeq(wire, 1, n), pending, TRUE)
      BY <1>3, <2>1, TransitLose
    <2> QED
      BY <1>2, <2>2
  <1>7. FrameEnds'
    <2>1. frame_reader = "end" =>
              \/ got = handed
              \/ pending # <<>> /\ got = F!Front(handed) /\ F!LastWritten < F!HeaderLen
      BY <1>3 DEF FrameEnds, F!EndExplained
    <2>2. F!LastWritten' = F!LastWritten /\ F!HeaderLen' = F!HeaderLen
          /\ F!Front(handed)' = F!Front(handed)
      BY <1>1 DEF F!LastWritten, F!HeaderLen, F!Front, F!Body, F!Last
    <2> QED
      BY <1>1, <2>1, <2>2 DEF FrameEnds, F!EndExplained
  <1> QED
    BY <1>4, <1>5, <1>6, <1>7 DEF FrameInv

\* What lies ahead of a reader that has taken all of r frames and `skip` units more.
Ahead(off, k, hs, r, skip, w) ==
    /\ Sendable(k, hs[r + 1]) /\ hs[r + 1].seq = r + 1
    /\ off[r] \in Nat /\ off[r + 1] = off[r] + Len(FrameOf(k, hs[r + 1]))
    /\ \A i \in 1 .. Len(w) :
          skip + i <= Len(FrameOf(k, hs[r + 1])) => w[i] = FrameOf(k, hs[r + 1])[skip + i]

\* The reader stands `skip` units into frame r + 1, and finds that frame before it.
LEMMA NextFrame ==
    ASSUME NEW k, NEW hs, HandedWell(k, hs), NEW w \in Seq(FrameUnit), NEW q, NEW off, NEW lost,
           NEW r \in Nat, r < Len(hs), NEW skip \in Nat,
           Transit(off, k, hs, off[r] + skip, w, q, lost)
    PROVE  Ahead(off, k, hs, r, skip, w)
  <1> DEFINE f == FrameOf(k, hs[r + 1])
  <1>1. Len(hs) \in Nat /\ r + 1 \in 1 .. Len(hs) /\ r \in 0 .. Len(hs) /\ (r + 1) - 1 = r
    BY LenProperties DEF HandedWell
  <1>2. Sendable(k, hs[r + 1]) /\ hs[r + 1].seq = r + 1
    BY <1>1 DEF HandedWell
  <1>3. /\ off[r] \in Nat /\ off[r + 1] = off[r] + Len(f)
        /\ \A j \in 1 .. Len(f) : off[r] + j - (off[r] + skip) \in 1 .. Len(w) =>
               w[off[r] + j - (off[r] + skip)] = f[j]
    <2>1. Offsets(off, k, hs) /\ Carries(off, k, hs, off[r] + skip, w)
      BY DEF Transit
    <2>2. off[r] \in Nat
      BY <1>1, <2>1 DEF Offsets
    <2>3. off[r + 1] = off[r] + Len(f)
      BY <1>1, <2>1 DEF Offsets
    <2>4. \A j \in 1 .. Len(f) : off[(r + 1) - 1] + j - (off[r] + skip) \in 1 .. Len(w) =>
               w[off[(r + 1) - 1] + j - (off[r] + skip)] = f[j]
      BY <1>1, <2>1 DEF Carries
    <2> QED
      BY <1>1, <2>2, <2>3, <2>4
  <1>4. ASSUME NEW i \in 1 .. Len(w), skip + i <= Len(f) PROVE w[i] = f[skip + i]
    <2>1. Len(w) \in Nat /\ Len(f) \in Nat
      BY <1>2, LenProperties, FrameFacts
    <2>2. \A a, b, c \in Nat : a + (b + c) - (a + b) = c
      OBVIOUS
    <2>3. off[r] + (skip + i) - (off[r] + skip) = i
      BY <1>3, <2>1, <2>2
    <2>4. skip + i \in 1 .. Len(f)
      BY <1>4, <2>1
    <2> HIDE DEF f
    <2> QED
      BY <1>3, <2>3, <2>4
  <1> QED
    BY <1>2, <1>3, <1>4 DEF Ahead

\* Frame r + 1 is the last one, and partly written.
Torn(k, hs, r, skip, w, q) ==
    /\ r + 1 = Len(hs) /\ q # <<>>
    /\ skip + Len(w) + Len(q) = Len(FrameOf(k, hs[r + 1]))

\* A writer that stopped inside the frame the reader waits for was at its last one.
LEMMA LastFrame ==
    ASSUME NEW k, NEW hs, HandedWell(k, hs), NEW w \in Seq(FrameUnit),
           NEW q \in Seq(FrameUnit), NEW off,
           NEW r \in Nat, r < Len(hs), NEW skip \in Nat,
           Transit(off, k, hs, off[r] + skip, w, q, FALSE),
           skip + Len(w) < Len(FrameOf(k, hs[r + 1]))
    PROVE  Torn(k, hs, r, skip, w, q)
  <1> DEFINE n == Len(hs)
             f == FrameOf(k, hs[r + 1])
             g == FrameOf(k, hs[n])
  <1>1. /\ n \in Nat /\ n > 0 /\ r + 1 \in 0 .. n /\ n \in 0 .. n /\ n - 1 \in 0 .. n
        /\ r + 1 <= n /\ n \in 1 .. n /\ hs # <<>>
    BY LenProperties, EmptySeq DEF HandedWell
  <1>2. Len(w) \in Nat /\ Len(q) \in Nat /\ (q = <<>> <=> Len(q) = 0)
    BY LenProperties, EmptySeq
  <1>3. Sendable(k, hs[r + 1]) /\ off[r] \in Nat /\ off[r + 1] = off[r] + Len(f)
    <2>1. Ahead(off, k, hs, r, skip, w)
      BY NextFrame
    <2> QED
      BY <2>1 DEF Ahead
  <1>4. Len(f) \in Nat /\ Len(g) \in Nat
    <2>1. Sendable(k, hs[n])
      BY <1>1 DEF HandedWell
    <2> QED
      BY <1>3, <2>1, FrameFacts
  <1>5. Offsets(off, k, hs) /\ Remains(k, hs, q) /\ off[r] + skip + Len(w) + Len(q) = off[n]
    BY DEF Transit
  <1>6. /\ off[r + 1] <= off[n] /\ off[n] = off[n - 1] + Len(g) /\ off[n - 1] \in Nat
        /\ off[n] \in Nat
    BY <1>1, <1>5 DEF Offsets
  <1> HIDE DEF f, g, n
  <1>7. Len(q) > 0
    <2> DEFINE a == off[r]
    <2>1. a \in Nat /\ a + Len(f) <= off[n] /\ a + skip + Len(w) + Len(q) = off[n]
      BY <1>3, <1>5, <1>6
    <2>2. skip + Len(w) < Len(f)
      BY DEF f
    <2> HIDE DEF a
    <2> QED
      BY <1>2, <1>4, <1>6, <2>1, <2>2
  <1>8. q # <<>> /\ Len(q) <= Len(g)
    BY <1>2, <1>5, <1>7 DEF Remains, g, n
  <1>9. r + 1 = n
    <2>1. ASSUME r + 1 < n PROVE FALSE
      <3>1. r + 1 <= n - 1
        BY <1>1, <2>1
      <3>2. off[r + 1] <= off[n - 1]
        BY <1>1, <1>5, <3>1 DEF Offsets, n
      <3> DEFINE a == off[r]
                 b == off[n - 1]
      <3>3. a \in Nat /\ b \in Nat /\ a + Len(f) <= b /\ a + skip + Len(w) + Len(q) = b + Len(g)
        BY <1>3, <1>5, <1>6, <3>2
      <3>4. skip + Len(w) < Len(f)
        BY DEF f
      <3> HIDE DEF a, b
      <3> QED
        BY <1>2, <1>4, <1>8, <3>3, <3>4
    <2> QED
      BY <1>1, <2>1
  <1>10. skip + Len(w) + Len(q) = Len(f)
    <2> DEFINE a == off[r]
               d == skip + Len(w) + Len(q)
    <2>1. a \in Nat /\ d \in Nat /\ a + Len(f) = off[n] /\ a + skip + Len(w) + Len(q) = off[n]
      BY <1>2, <1>3, <1>5, <1>9
    <2>2. a + skip + Len(w) + Len(q) = a + d
      BY <1>2, <2>1
    <2> HIDE DEF a, d
    <2>3. d = Len(f)
      BY <1>4, <2>1, <2>2
    <2> QED
      BY <2>3 DEF d
  <1> QED
    BY <1>8, <1>9, <1>10 DEF f, n, Torn

LEMMA ReadHeaderKeeps ==
    ASSUME FrameInv, F!ReadHeader
    PROVE  FrameInv'
  <1> DEFINE h == HeaderSize(kind)
             r == Len(got)
             m == handed[r + 1]
             hdr == SubSeq(wire, 1, h)
             sq == F!FromDigits(SubSeq(hdr, 1, h - LenDigits))
             ln == F!FromDigits(SubSeq(hdr, h - LenDigits + 1, h))
  <1>1. F!HeaderLen = h
    BY DEF F!HeaderLen, HeaderSize
  <1>2. /\ frame_reader = "header" /\ Len(wire) >= h
        /\ wire' = SubSeq(wire, h + 1, Len(wire))
        /\ head' = <<sq, ln>>
        /\ frame_reader' = IF ln > Limit THEN "error" ELSE "body"
        /\ kind' = kind /\ handed' = handed /\ enc' = enc /\ pending' = pending
        /\ frame_stream' = frame_stream /\ got' = got
    BY <1>1 DEF F!ReadHeader
  <1>3. /\ FrameTyped /\ HandedWell(kind, handed) /\ FrameRead /\ FrameEncoder
        /\ FrameEnds /\ wire \in Seq(FrameUnit) /\ pending \in Seq(FrameUnit)
        /\ r \in 0 .. Len(handed)
    BY DEF FrameInv, FrameTyped, FrameRead
  <1>4. /\ handed \in Seq(FrameMessage) /\ Len(handed) \in Nat /\ r \in Nat
        /\ Len(wire) \in Nat /\ Len(pending) \in Nat
    BY <1>3, LenProperties DEF HandedWell
  <1>5. h \in Nat /\ h >= LenDigits /\ LenDigits \in Nat /\ LenDigits > 0
    BY FrameConstants
  <1>6. PICK off : /\ Transit(off, kind, handed, Taken(off), wire, pending, frame_stream = "lost")
                   /\ \A i \in 0 .. Len(handed) : off[i] \in Nat
    BY <1>2, ReaderAt
  <1>7. Taken(off) = off[r] /\ off[r] \in Nat /\ off[r] + 0 = off[r]
    BY <1>2, <1>3, <1>6 DEF Taken
  <1>8. r < Len(handed)
    <2>1. off[r] + Len(wire) <= off[Len(handed)]
      BY <1>6, <1>7 DEF Transit
    <2>2. r # Len(handed)
      BY <1>2, <1>4, <1>5, <1>7, <2>1
    <2> QED
      BY <1>3, <1>4, <2>2
  <1>9. Transit(off, kind, handed, off[r] + 0, wire, pending, frame_stream = "lost")
    BY <1>6, <1>7
  <1>10. /\ Sendable(kind, m) /\ m.seq = r + 1
         /\ \A i \in 1 .. Len(wire) : 0 + i <= Len(FrameOf(kind, m)) => wire[i] = FrameOf(kind, m)[0 + i]
    <2>1. Ahead(off, kind, handed, r, 0, wire)
      BY <1>3, <1>4, <1>8, <1>9, NextFrame
    <2> QED
      BY <2>1 DEF Ahead
  <1>11. hdr = HeaderOf(kind, m)
    <2>1. /\ hdr \in Seq(FrameUnit) /\ Len(hdr) = h
          /\ \A i \in 1 .. h : hdr[i] = wire[i]
      <3>1. hdr = SubSeq(wire, 1, h) /\ h \in 0 .. Len(wire) /\ wire \in Seq(FrameUnit)
        BY <1>2, <1>3, <1>4, <1>5
      <3> HIDE DEF h, hdr
      <3> QED
        BY <3>1, <1>4, <1>5, SubSeqProperties
    <2>2. HeaderOf(kind, m) \in Seq(FrameUnit) /\ Len(HeaderOf(kind, m)) = h
      BY <1>10, HeaderFacts
    <2>3. ASSUME NEW i \in 1 .. h PROVE wire[i] = HeaderOf(kind, m)[i]
      <3>1. /\ FrameOf(kind, m)[i] = HeaderOf(kind, m)[i]
            /\ Len(FrameOf(kind, m)) = h + Len(BodyOf(kind, m)) /\ Len(BodyOf(kind, m)) \in Nat
        BY <1>10, FrameFacts, BodyFacts
      <3>2. i \in 1 .. Len(wire) /\ 0 + i <= Len(FrameOf(kind, m)) /\ 0 + i = i
        <4> DEFINE l == Len(BodyOf(kind, m))
        <4>1. l \in Nat /\ Len(FrameOf(kind, m)) = h + l
          BY <3>1
        <4> HIDE DEF h, l
        <4>2. i \in Nat /\ i >= 1 /\ i <= h
          BY <1>5
        <4>3. i <= h + l /\ i <= Len(wire)
          BY <1>2, <1>4, <1>5, <4>1, <4>2
        <4> QED
          BY <1>4, <4>1, <4>2, <4>3
      <3> QED
        BY <1>10, <3>1, <3>2
    <2> HIDE DEF hdr, h, m
    <2> QED
      BY <2>1, <2>2, <2>3, SeqEqual
  <1>12. /\ sq = IF kind = "chunk" THEN m.seq ELSE 0
         /\ ln = Len(BodyOf(kind, m)) /\ ln \in Nat /\ sq \in Nat
    <2>1. /\ F!FromDigits(SubSeq(HeaderOf(kind, m), 1, h - LenDigits)) = (IF kind = "chunk" THEN m.seq ELSE 0)
          /\ F!FromDigits(SubSeq(HeaderOf(kind, m), h - LenDigits + 1, h)) = Len(BodyOf(kind, m))
      BY <1>10, HeaderFacts
    <2>2. Len(BodyOf(kind, m)) \in Nat
      BY <1>10, BodyFacts
    <2>3. sq = (IF kind = "chunk" THEN m.seq ELSE 0) /\ ln = Len(BodyOf(kind, m))
      BY <1>11, <2>1
    <2> HIDE DEF sq, ln, m, r
    <2> QED
      BY <1>4, <1>10, <2>2, <2>3
  <1>13. Transit(off, kind, handed, off[r] + h, wire', pending, frame_stream = "lost")
         /\ wire' \in Seq(FrameUnit)
    <2>1. h \in 0 .. Len(wire)
      BY <1>2, <1>4, <1>5
    <2>2. Transit(off, kind, handed, off[r], wire, pending, frame_stream = "lost")
      BY <1>6, <1>7
    <2> HIDE DEF h, r
    <2> QED
      BY <1>2, <1>3, <1>4, <1>7, <2>1, <2>2, TransitRead
  <1> HIDE DEF sq, ln, h, r, m
  <1>14. FrameTyped'
    BY <1>2, <1>3, <1>12, <1>13 DEF FrameTyped
  <1>15. HandedWell(kind, handed)' /\ FrameRead' /\ FrameEncoder'
    BY <1>2, <1>3 DEF FrameRead, FrameEncoder
  <1>16. FrameHead'
    <2>1. head'[1] = sq /\ head'[2] = ln
      BY <1>2
    <2> QED
      BY <1>2, <1>8, <1>10, <1>12, <2>1 DEF FrameHead, r, m
  <1>17. FrameTransit'
    <2> SUFFICES ASSUME frame_reader' = "body"
                 PROVE  \E o : Transit(o, kind, handed, o[r] + h, wire', pending, frame_stream = "lost")
      BY <1>2 DEF FrameTransit, r, h
    <2> QED
      BY <1>13
  <1>18. FrameEnds'
    <2>1. ASSUME ln > Limit PROVE (\E i \in DOMAIN handed : F!TooLong(handed[i]))'
      <3>1. r + 1 \in DOMAIN handed
        BY <1>4, <1>8 DEF r
      <3>2. Len(m.data) + (IF kind = "udp" THEN 2 ELSE 0) = ln
        <4>1. Len(m.data) \in Nat
          BY <1>10, LenProperties DEF Sendable
        <4>2. /\ kind # "udp" => Len(BodyOf(kind, m)) = Len(m.data)
              /\ kind = "udp" => Len(BodyOf(kind, m)) = Len(m.data) + 2
          BY <1>10, BodyFacts
        <4>3. CASE kind = "udp"
          BY <1>12, <4>1, <4>2, <4>3
        <4>4. CASE kind # "udp"
          BY <1>12, <4>1, <4>2, <4>4
        <4> QED
          BY <4>3, <4>4
      <3> QED
        BY <1>2, <2>1, <3>1, <3>2 DEF F!TooLong, m
    <2> QED
      BY <1>2, <2>1 DEF FrameEnds, F!EndExplained
  <1> QED
    BY <1>14, <1>15, <1>16, <1>17, <1>18 DEF FrameInv

LEMMA ReadBodyKeeps ==
    ASSUME FrameInv, F!ReadBody
    PROVE  FrameInv'
  <1> DEFINE h == HeaderSize(kind)
             r == Len(got)
             m == handed[r + 1]
             c == head[2]
             body == SubSeq(wire, 1, c)
             msg == [seq |-> IF kind = "chunk" THEN head[1] ELSE r + 1,
                     peer |-> IF kind = "udp" THEN <<body[1], body[2]>> ELSE F!NoPeer,
                     data |-> IF kind = "udp" THEN SubSeq(body, 3, Len(body)) ELSE body]
  <1>1. /\ frame_reader = "body" /\ Len(wire) >= c
        /\ wire' = SubSeq(wire, c + 1, Len(wire))
        /\ got' = Append(got, msg)
        /\ frame_reader' = "header"
        /\ kind' = kind /\ handed' = handed /\ enc' = enc /\ pending' = pending
        /\ frame_stream' = frame_stream /\ head' = head
    BY DEF F!ReadBody
  <1>2. /\ FrameTyped /\ HandedWell(kind, handed) /\ FrameRead /\ FrameEncoder /\ FrameHead
        /\ FrameEnds /\ wire \in Seq(FrameUnit) /\ pending \in Seq(FrameUnit)
        /\ r \in 0 .. Len(handed)
    BY DEF FrameInv, FrameTyped, FrameRead
  <1>3. /\ handed \in Seq(FrameMessage) /\ Len(handed) \in Nat /\ r \in Nat
        /\ Len(wire) \in Nat /\ Len(pending) \in Nat
    BY <1>2, LenProperties DEF HandedWell
  <1>4. r < Len(handed) /\ c = Len(BodyOf(kind, m)) /\ (kind = "chunk" => head[1] = r + 1)
    BY <1>1, <1>2 DEF FrameHead
  <1>5. PICK off : /\ Transit(off, kind, handed, Taken(off), wire, pending, frame_stream = "lost")
                   /\ Taken(off) \in Nat
    BY <1>1, ReaderAt
  <1>6. Taken(off) = off[r] + h /\ h \in Nat
    BY <1>1, FrameConstants DEF Taken
  <1>7. Transit(off, kind, handed, off[r] + h, wire, pending, frame_stream = "lost")
    BY <1>5, <1>6
  <1>8. /\ Sendable(kind, m) /\ m.seq = r + 1
        /\ off[r] \in Nat /\ off[r + 1] = off[r] + Len(FrameOf(kind, m))
        /\ \A i \in 1 .. Len(wire) : h + i <= Len(FrameOf(kind, m)) => wire[i] = FrameOf(kind, m)[h + i]
    <2> HIDE DEF h, r
    <2>1. Ahead(off, kind, handed, r, h, wire)
      BY <1>2, <1>3, <1>4, <1>6, <1>7, NextFrame
    <2> QED
      BY <2>1 DEF Ahead
  <1>9. c \in Nat /\ c \in 0 .. Len(wire) /\ Len(FrameOf(kind, m)) = h + c
    <2>1. Len(BodyOf(kind, m)) \in Nat /\ Len(FrameOf(kind, m)) = h + Len(BodyOf(kind, m))
      BY <1>8, BodyFacts, FrameFacts
    <2> HIDE DEF h, c, m
    <2> QED
      BY <1>1, <1>3, <1>4, <2>1
  <1>10. body = BodyOf(kind, m)
    <2>1. /\ body \in Seq(FrameUnit) /\ Len(body) = c
          /\ \A i \in 1 .. c : body[i] = wire[i]
      BY <1>2, <1>3, <1>9, SubSeqProperties, SMTT(20)
    <2>2. BodyOf(kind, m) \in Seq(FrameUnit)
      BY <1>8, BodyFacts
    <2>3. ASSUME NEW i \in 1 .. c PROVE wire[i] = BodyOf(kind, m)[i]
      <3>1. FrameOf(kind, m)[h + i] = BodyOf(kind, m)[i]
        BY <1>4, <1>8, FrameFacts, SMTT(20)
      <3>2. i \in 1 .. Len(wire) /\ h + i <= Len(FrameOf(kind, m))
        <4> HIDE DEF c, h
        <4> QED
          BY <1>3, <1>6, <1>9
      <3> QED
        BY <1>8, <3>1, <3>2
    <2> HIDE DEF body, c, m
    <2> QED
      BY <1>4, <2>1, <2>2, <2>3, SeqEqual
  <1>11. msg = m
    <2> DEFINE b == BodyOf(kind, m)
    <2>1. /\ kind # "udp" => b = m.data /\ m.peer = F!NoPeer
          /\ kind = "udp" => m.peer = <<b[1], b[2]>> /\ SubSeq(b, 3, Len(b)) = m.data
      <3>1. Sendable(kind, m)
        BY <1>8
      <3> HIDE DEF m
      <3> QED
        BY <3>1, BodyFacts
    <2>2. /\ msg = [seq |-> r + 1, peer |-> msg.peer, data |-> msg.data]
          /\ msg.peer = (IF kind = "udp" THEN <<body[1], body[2]>> ELSE F!NoPeer)
          /\ msg.data = (IF kind = "udp" THEN SubSeq(body, 3, Len(body)) ELSE body)
      BY <1>4
    <2>3. m = [seq |-> m.seq, peer |-> m.peer, data |-> m.data]
      BY <1>8 DEF Sendable
    <2> HIDE DEF msg, body, m, b
    <2>4. msg.peer = m.peer /\ msg.data = m.data
      BY <1>10, <2>1, <2>2 DEF b
    <2> QED
      BY <1>8, <2>2, <2>3, <2>4
  <1>12. FrameRead' /\ Len(got') = r + 1
    <2>1. r + 1 \in 1 .. Len(handed) /\ r + 1 \in Nat
      BY <1>3, <1>4
    <2>2. got = SubSeq(handed, 1, r)
      BY <1>2 DEF FrameRead
    <2>3. /\ got \in Seq(FrameMessage) /\ \A i \in 1 .. r : got[i] = handed[i]
      <3>1. r \in 0 .. Len(handed)
        BY <1>2
      <3> HIDE DEF r
      <3> QED
        BY <1>3, <2>2, <3>1, SubSeqProperties
    <2>4. m \in FrameMessage
      BY <1>3, <2>1, ElementOfSeq
    <2> DEFINE a == Append(got, m)
               b == SubSeq(handed, 1, r + 1)
    <2>5. /\ a \in Seq(FrameMessage) /\ Len(a) = r + 1 /\ a[r + 1] = m
          /\ \A i \in 1 .. r : a[i] = got[i]
      BY <2>3, <2>4, AppendProperties
    <2>6. b \in Seq(FrameMessage) /\ Len(b) = r + 1 /\ \A i \in 1 .. (r + 1) : b[i] = handed[i]
      BY <1>3, <2>1, SubSeqProperties
    <2>7. \A i \in 1 .. (r + 1) : a[i] = b[i]
      <3> SUFFICES ASSUME NEW i \in 1 .. (r + 1) PROVE a[i] = b[i]
        OBVIOUS
      <3>1. i = r + 1 \/ i \in 1 .. r
        BY <1>3
      <3> HIDE DEF a, b
      <3> QED
        BY <2>3, <2>5, <2>6, <3>1
    <2> HIDE DEF a, b
    <2>8. a = b
      BY <2>5, <2>6, <2>7, SeqEqual
    <2>9. got' = a
      BY <1>1, <1>11 DEF a
    <2>10. Len(got') = r + 1 /\ got' = SubSeq(handed, 1, r + 1) /\ r + 1 \in 0 .. Len(handed)
      BY <2>1, <2>5, <2>8, <2>9 DEF b
    <2> QED
      BY <1>1, <2>10 DEF FrameRead
  <1>13. /\ Transit(off, kind, handed, off[r + 1], wire', pending, frame_stream = "lost")
         /\ wire' \in Seq(FrameUnit)
    <2>1. /\ SubSeq(wire, c + 1, Len(wire)) \in Seq(FrameUnit)
          /\ Transit(off, kind, handed, (off[r] + h) + c, SubSeq(wire, c + 1, Len(wire)), pending,
                     frame_stream = "lost")
      <3> DEFINE p == off[r] + h
      <3>1. p \in Nat /\ Transit(off, kind, handed, p, wire, pending, frame_stream = "lost")
        BY <1>5, <1>6
      <3> HIDE DEF p, c
      <3>2. /\ SubSeq(wire, c + 1, Len(wire)) \in Seq(FrameUnit)
            /\ Transit(off, kind, handed, p + c, SubSeq(wire, c + 1, Len(wire)), pending,
                       frame_stream = "lost")
        BY <1>2, <1>3, <1>9, <3>1, TransitRead
      <3> QED
        BY <3>2 DEF p
    <2>2. off[r + 1] = (off[r] + h) + c
      <3> DEFINE x == off[r]
      <3>1. x \in Nat /\ off[r + 1] = x + (h + c)
        BY <1>8, <1>9
      <3> HIDE DEF x, h, c
      <3>2. off[r + 1] = (x + h) + c
        BY <1>6, <1>9, <3>1
      <3> QED
        BY <3>2 DEF x
    <2> QED
      BY <1>1, <2>1, <2>2
  <1> HIDE DEF msg, body, c, m, r, h
  <1>14. FrameTyped'
    BY <1>1, <1>2, <1>13 DEF FrameTyped
  <1>15. HandedWell(kind, handed)' /\ FrameEncoder' /\ FrameHead'
    BY <1>1, <1>2 DEF FrameEncoder, FrameHead
  <1>16. FrameTransit'
    <2>1. off[r + 1] + 0 = off[r + 1]
      <3>1. off[r + 1] \in Nat
        <4>1. r + 1 \in 0 .. Len(handed)
          BY <1>3, <1>4
        <4> QED
          BY <1>7, <4>1 DEF Transit, Offsets
      <3> QED
        BY <3>1
    <2>2. \E o : Transit(o, kind, handed, o[r + 1] + 0, wire', pending, frame_stream = "lost")
      BY <1>13, <2>1
    <2> QED
      BY <1>1, <1>12, <2>2 DEF FrameTransit
  <1>17. FrameEnds'
    BY <1>1 DEF FrameEnds, F!EndExplained
  <1> QED
    BY <1>12, <1>14, <1>15, <1>16, <1>17 DEF FrameInv

\* A reader that is cut off waits for the last frame, or all frames are read.
LEMMA CutAtLast ==
    ASSUME FrameInv, frame_reader \in {"header", "body"}, frame_stream # "lost",
           Len(wire) < IF frame_reader = "body" THEN head[2] ELSE HeaderSize(kind)
    PROVE  \/ frame_reader = "header" /\ got = handed
           \/ /\ pending # <<>> /\ got = F!Front(handed)
              /\ F!LastWritten = (IF frame_reader = "body" THEN HeaderSize(kind) ELSE 0) + Len(wire)
  <1> DEFINE h == HeaderSize(kind)
             r == Len(got)
             n == Len(handed)
             m == handed[r + 1]
             skip == IF frame_reader = "body" THEN h ELSE 0
  <1>1. /\ HandedWell(kind, handed) /\ FrameRead /\ FrameEncoder /\ FrameHead
        /\ wire \in Seq(FrameUnit) /\ pending \in Seq(FrameUnit)
        /\ r \in 0 .. n
    BY DEF FrameInv, FrameTyped, FrameRead
  <1>2. /\ handed \in Seq(FrameMessage) /\ n \in Nat /\ r \in Nat
        /\ Len(wire) \in Nat /\ Len(pending) \in Nat /\ h \in Nat /\ skip \in Nat
    BY <1>1, LenProperties, FrameConstants DEF HandedWell
  <1>3. CASE r = n
    <2>1. frame_reader = "header"
      BY <1>1, <1>2, <1>3 DEF FrameHead
    <2>2. got = SubSeq(handed, 1, n)
      BY <1>1, <1>3 DEF FrameRead
    <2>3. SubSeq(handed, 1, n) = handed
      BY <1>2, SubSeqFull
    <2> QED
      BY <2>1, <2>2, <2>3
  <1>4. CASE r # n
    <2>1. r < n /\ r + 1 \in 1 .. n
      BY <1>1, <1>2, <1>4
    <2>2. PICK off : Transit(off, kind, handed, Taken(off), wire, pending, frame_stream = "lost")
      BY ReaderAt
    <2>3. Transit(off, kind, handed, off[r] + skip, wire, pending, FALSE)
      BY <2>2 DEF Taken
    <2>4. Sendable(kind, m)
      BY <1>1, <2>1 DEF HandedWell
    <2>5. Len(FrameOf(kind, m)) = h + Len(BodyOf(kind, m)) /\ Len(BodyOf(kind, m)) \in Nat
      BY <2>4, FrameFacts, BodyFacts
    <2>6. skip + Len(wire) < Len(FrameOf(kind, m))
      <3> DEFINE l == Len(BodyOf(kind, m))
      <3>1. CASE frame_reader = "body"
        <4>1. Len(wire) < l /\ skip = h
          BY <1>1, <3>1 DEF FrameHead
        <4> HIDE DEF l, h, skip
        <4>2. h + Len(wire) < h + l
          BY <1>2, <2>5, <4>1 DEF l
        <4> QED
          BY <2>5, <4>1, <4>2 DEF l
      <3>2. CASE frame_reader = "header"
        <4>1. Len(wire) < h /\ skip = 0
          BY <3>2
        <4> HIDE DEF l, h, skip
        <4>2. 0 + Len(wire) < h + l
          BY <1>2, <2>5, <4>1 DEF l
        <4> QED
          BY <2>5, <4>1, <4>2 DEF l
      <3> QED
        BY <3>1, <3>2
    <2>7. /\ r + 1 = n /\ pending # <<>>
          /\ skip + Len(wire) + Len(pending) = Len(FrameOf(kind, m))
      <3> HIDE DEF r, skip
      <3>1. /\ HandedWell(kind, handed) /\ wire \in Seq(FrameUnit) /\ pending \in Seq(FrameUnit)
            /\ r \in Nat /\ r < Len(handed) /\ skip \in Nat
            /\ Transit(off, kind, handed, off[r] + skip, wire, pending, FALSE)
            /\ skip + Len(wire) < Len(FrameOf(kind, handed[r + 1]))
        BY <1>1, <1>2, <2>1, <2>3, <2>6
      <3>2. Torn(kind, handed, r, skip, wire, pending)
        BY <3>1, LastFrame
      <3> QED
        BY <3>2 DEF Torn
    <2>8. got = F!Front(handed)
      <3>1. r = n - 1
        BY <1>2, <2>7
      <3> QED
        BY <1>1, <3>1 DEF FrameRead, F!Front
    <2>9. F!Body(F!Last(handed), enc) = BodyOf(kind, m)
      <3>1. F!Last(handed) = m /\ m = handed[n] /\ handed # <<>>
        BY <1>2, <2>1, <2>7, EmptySeq DEF F!Last
      <3>2. kind = "udp" => Encodes(enc, m)
        BY <1>1, <3>1 DEF FrameEncoder
      <3> HIDE DEF m
      <3> QED
        BY <3>1, <3>2, EncodedBody
    <2>10. F!LastWritten = skip + Len(wire)
      <3> DEFINE l == Len(BodyOf(kind, m))
      <3>1. F!LastWritten = h + l - Len(pending)
        BY <2>9 DEF F!LastWritten, F!HeaderLen, HeaderSize
      <3>2. l \in Nat /\ skip + Len(wire) + Len(pending) = h + l
        BY <2>5, <2>7
      <3> HIDE DEF l, h, skip
      <3> QED
        BY <1>2, <3>1, <3>2
    <2> QED
      BY <2>7, <2>8, <2>10
  <1> QED
    BY <1>3, <1>4

LEMMA CutKeeps ==
    ASSUME FrameInv, F!HeaderCut \/ F!BodyCut
    PROVE  FrameInv'
  <1> DEFINE h == HeaderSize(kind)
  <1>1. /\ kind' = kind /\ handed' = handed /\ enc' = enc /\ pending' = pending /\ wire' = wire
        /\ frame_stream' = frame_stream /\ head' = head /\ got' = got
    BY DEF F!HeaderCut, F!BodyCut
  <1>2. /\ F!HeaderLen = h /\ h \in Nat /\ Len(wire) \in Nat
    BY LenProperties, FrameConstants DEF F!HeaderLen, HeaderSize, FrameInv, FrameTyped
  <1>3. /\ F!LastWritten' = F!LastWritten /\ F!HeaderLen' = F!HeaderLen
        /\ F!Front(handed)' = F!Front(handed)
    BY <1>1 DEF F!LastWritten, F!HeaderLen, F!Front, F!Body, F!Last
  <1>4. /\ FrameTyped /\ HandedWell(kind, handed) /\ FrameRead /\ FrameEncoder
    BY DEF FrameInv
  <1>5. HandedWell(kind, handed)' /\ FrameRead' /\ FrameEncoder'
    BY <1>1, <1>4 DEF FrameRead, FrameEncoder
  <1>6. CASE F!HeaderCut
    <2>1. /\ frame_reader = "header" /\ Len(wire) < h
          /\ \/ frame_stream = "finished" /\ frame_reader' = "end"
             \/ frame_stream = "lost" /\ frame_reader' = "error"
      BY <1>2, <1>6 DEF F!HeaderCut
    <2>2. FrameTyped' /\ FrameHead' /\ FrameTransit'
      BY <1>1, <1>4, <2>1 DEF FrameTyped, FrameHead, FrameTransit
    <2>3. ASSUME frame_stream = "finished"
          PROVE  \/ got = handed
                 \/ pending # <<>> /\ got = F!Front(handed) /\ F!LastWritten < h
      <3>1. \/ got = handed
            \/ pending # <<>> /\ got = F!Front(handed) /\ F!LastWritten = 0 + Len(wire)
        BY <2>1, <2>3, CutAtLast
      <3> QED
        BY <1>2, <2>1, <3>1
    <2>4. FrameEnds'
      BY <1>1, <1>2, <1>3, <2>1, <2>3 DEF FrameEnds, F!EndExplained
    <2> QED
      BY <1>5, <2>2, <2>4 DEF FrameInv
  <1>7. CASE F!BodyCut
    <2>1. /\ frame_reader = "body" /\ Len(wire) < head[2] /\ frame_stream # "open"
          /\ frame_reader' = "error"
      BY <1>7 DEF F!BodyCut
    <2>2. FrameTyped' /\ FrameHead' /\ FrameTransit'
      BY <1>1, <1>4, <2>1 DEF FrameTyped, FrameHead, FrameTransit
    <2>3. frame_stream \in {"finished", "lost"}
      BY <1>4, <2>1 DEF FrameTyped
    <2>4. ASSUME frame_stream # "lost" PROVE pending # <<>> /\ F!LastWritten >= h
      <3>1. pending # <<>> /\ F!LastWritten = h + Len(wire)
        BY <2>1, <2>4, CutAtLast
      <3> HIDE DEF h
      <3> QED
        BY <1>2, <3>1
    <2>5. FrameEnds'
      BY <1>1, <1>2, <1>3, <2>1, <2>3, <2>4 DEF FrameEnds, F!EndExplained
    <2> QED
      BY <1>5, <2>2, <2>5 DEF FrameInv
  <1> QED
    BY <1>6, <1>7

LEMMA FrameInvariance == Spec => []FrameInv
  <1>1. FrameInv /\ [Next]_vars => FrameInv'
    <2> SUFFICES ASSUME FrameInv, [F!Next]_(F!vars) PROVE FrameInv'
      BY StepOfFrames
    <2>1. ASSUME NEW len \in BodyLens, NEW peer \in (Ips \X Ports) \cup {F!NoPeer},
                 F!Hand(len, peer)
          PROVE  FrameInv'
      BY <2>1, HandKeeps
    <2>2. CASE UNCHANGED F!vars
      <3>1. /\ kind' = kind /\ handed' = handed /\ enc' = enc /\ pending' = pending
            /\ wire' = wire /\ frame_stream' = frame_stream /\ frame_reader' = frame_reader
            /\ head' = head /\ got' = got
        BY <2>2 DEF F!vars
      <3>2. /\ F!LastWritten' = F!LastWritten /\ F!HeaderLen' = F!HeaderLen
            /\ F!Front(handed)' = F!Front(handed)
        BY <3>1 DEF F!LastWritten, F!HeaderLen, F!Front, F!Body, F!Last
      <3>3. FrameEnds'
        BY <3>1, <3>2 DEF FrameInv, FrameEnds, F!EndExplained, F!TooLong
      <3>4. FrameTransit'
        BY <3>1 DEF FrameInv, FrameTransit
      <3> QED
        BY <3>1, <3>3, <3>4 DEF FrameInv, FrameTyped, FrameRead, FrameEncoder, FrameHead
    <2> QED
      BY <2>1, <2>2, WriteUnitKeeps, FinishKeeps, LoseKeeps, ReadHeaderKeeps, ReadBodyKeeps,
         CutKeeps
      DEF F!Next, F!Writer, F!Reader
  <1> QED
    BY <1>1, FrameInit, PTL DEF Spec

\* Wherever a stream is cut, the messages read from it are a prefix of those
\* written: whole, in order and unaltered, for every width of the header fields,
\* every limit and every mixture of payloads and peers (write_msg and read_msg,
\* write_pty_chunk and read_pty_chunk, UdpFrameEncoder::frame).
THEOREM FramesAreWhole == Spec => []WholeOrNothing
  <1>1. FrameInv => WholeOrNothing
    <2> SUFFICES ASSUME FrameInv PROVE F!IsPrefix(got, handed)
      BY DEF WholeOrNothing, F!WholeOrNothing
    <2>1. /\ got = SubSeq(handed, 1, Len(got)) /\ Len(got) \in 0 .. Len(handed)
          /\ handed \in Seq(FrameMessage)
      BY DEF FrameInv, FrameRead, HandedWell
    <2>2. got \in Seq(FrameMessage) /\ Len(got) <= Len(handed)
      BY <2>1, LenProperties, SubSeqProperties
    <2>3. SubSeq(got, 1, Len(got)) = got
      BY <2>2, SubSeqFull
    <2> QED
      BY <2>1, <2>2, <2>3 DEF F!IsPrefix
  <1> QED
    BY <1>1, FrameInvariance, PTL

\* A reader is told of a clean end (Ok(None)) only when everything was read, but
\* for a last message torn inside its header, and of an error only after a loss,
\* a message beyond the limit or a torn body (the FinishedEarly arms of read_msg
\* and read_pty_chunk).
THEOREM EndsAreExplained == Spec => []EndExplained
  <1>1. FrameInv => EndExplained
    BY DEF FrameInv, FrameEnds, EndExplained
  <1> QED
    BY <1>1, FrameInvariance, PTL

-----------------------------------------------------------------------------
(* The configuration file.  A file is summed up by the section its end     *)
(* stands in, the sections it has, the settings in force and the keys it   *)
(* names; these lemmas say what one more line does to each.                *)

Lines == C!Headers \cup C!KeyLines

\* Of the first n lines of f.
HeadsOf(f, n) == {f[i].sec : i \in {j \in 1 .. n : C!IsHeader(f[j])}}
NamedIn(f, n) == {f[i].key : i \in {j \in 1 .. n : ~C!IsHeader(f[j])}}
ActiveIn(f, n) == {i \in 1 .. n : ~C!IsHeader(f[i]) /\ f[i].active}
SettingsOf(f, n) == {<<C!SectionAt(f, i), f[i].key>> : i \in ActiveIn(f, n)}

ValidTo(f, n) ==
    /\ \A i, j \in 1 .. n : C!IsHeader(f[i]) /\ C!IsHeader(f[j]) /\ f[i].sec = f[j].sec => i = j
    /\ \A i, j \in ActiveIn(f, n) :
          f[i].key = f[j].key /\ C!SectionAt(f, i) = C!SectionAt(f, j) => i = j

LEMMA HeaderLine ==
    ASSUME NEW sec \in {"client", "server"}, NEW plain \in BOOLEAN
    PROVE  /\ C!Header(sec, plain) \in Lines /\ C!IsHeader(C!Header(sec, plain))
           /\ C!Header(sec, plain).sec = sec /\ C!Header(sec, plain).plain = plain
  BY DEF C!Header, C!IsHeader, C!Headers, Lines

LEMMA KeyLineFacts ==
    ASSUME NEW key \in C!Keys, NEW active \in BOOLEAN
    PROVE  /\ C!KeyLine(key, active) \in Lines /\ ~C!IsHeader(C!KeyLine(key, active))
           /\ C!KeyLine(key, active).key = key /\ C!KeyLine(key, active).active = active
  BY DEF C!KeyLine, C!IsHeader, C!KeyLines, Lines

LEMMA LineFacts ==
    ASSUME NEW line \in Lines
    PROVE  /\ C!IsHeader(line) => line.sec \in {"client", "server"} /\ line.plain \in BOOLEAN
           /\ ~C!IsHeader(line) => line.key \in C!Keys /\ line.active \in BOOLEAN
  <1>1. CASE line \in C!Headers
    <2>1. PICK sec \in {"client", "server"}, plain \in BOOLEAN : line = C!Header(sec, plain)
      BY <1>1 DEF C!Headers
    <2> QED
      BY <2>1, HeaderLine
  <1>2. CASE line \in C!KeyLines
    <2>1. PICK key \in C!Keys, active \in BOOLEAN : line = C!KeyLine(key, active)
      BY <1>2 DEF C!KeyLines
    <2> QED
      BY <2>1, KeyLineFacts
  <1> QED
    BY <1>1, <1>2 DEF Lines

\* The section of a line is its own if it is a header, and else that of the line
\* above it.
LEMMA SectionStep ==
    ASSUME NEW f, NEW i \in Nat
    PROVE  /\ C!SectionAt(f, 0) = ""
           /\ C!SectionAt(f, i + 1) = IF C!IsHeader(f[i + 1]) THEN f[i + 1].sec
                                      ELSE C!SectionAt(f, i)
  <1> DEFINE Above(n) == {j \in 1 .. n : C!IsHeader(f[j])}
  <1>1. \A n : C!SectionAt(f, n) =
                  IF Above(n) = {} THEN ""
                  ELSE f[CHOOSE j \in Above(n) : \A k \in Above(n) : k <= j].sec
    BY DEF C!SectionAt
  <1>2. Above(0) = {}
    OBVIOUS
  <1>3. ASSUME C!IsHeader(f[i + 1]) PROVE C!SectionAt(f, i + 1) = f[i + 1].sec
    <2>1. i + 1 \in Above(i + 1) /\ \A k \in Above(i + 1) : k <= i + 1 /\ k \in Nat
      BY <1>3
    <2> HIDE DEF Above
    <2>2. (CHOOSE j \in Above(i + 1) : \A k \in Above(i + 1) : k <= j) = i + 1
      <3>1. \A j \in Above(i + 1) : (\A k \in Above(i + 1) : k <= j) => j = i + 1
        BY <2>1
      <3> QED
        BY <2>1, <3>1
    <2> QED
      BY <1>1, <2>1, <2>2
  <1>4. ASSUME ~C!IsHeader(f[i + 1]) PROVE Above(i + 1) = Above(i)
    BY <1>4
  <1> HIDE DEF Above
  <1>5. ASSUME ~C!IsHeader(f[i + 1]) PROVE C!SectionAt(f, i + 1) = C!SectionAt(f, i)
    BY <1>1, <1>4, <1>5, Zenon
  <1> QED
    BY <1>1, <1>2, <1>3, <1>5

\* The section of a line depends on nothing below it.
LEMMA SectionSame ==
    ASSUME NEW f, NEW g, NEW n \in Nat, \A i \in 1 .. n : f[i] = g[i]
    PROVE  \A i \in 0 .. n : C!SectionAt(f, i) = C!SectionAt(g, i)
  <1> DEFINE T == {i \in 0 .. n : C!SectionAt(f, i) # C!SectionAt(g, i)}
  <1>1. ASSUME NEW x \in T PROVE FALSE
    <2>1. T \in SUBSET Nat /\ T # {}
      BY <1>1
    <2>2. PICK i \in T : \A j \in T : i <= j
      BY <2>1, LeastNumber
    <2>3. i # 0
      BY <2>2, SectionStep
    <2>4. i \in 1 .. n /\ i - 1 \in Nat /\ i - 1 \in 0 .. n /\ i - 1 \notin T /\ (i - 1) + 1 = i
      BY <2>2, <2>3
    <2>5. C!SectionAt(f, i - 1) = C!SectionAt(g, i - 1) /\ f[i] = g[i]
      BY <2>4
    <2>6. /\ C!SectionAt(f, (i - 1) + 1) = IF C!IsHeader(f[(i - 1) + 1]) THEN f[(i - 1) + 1].sec
                                           ELSE C!SectionAt(f, i - 1)
          /\ C!SectionAt(g, (i - 1) + 1) = IF C!IsHeader(g[(i - 1) + 1]) THEN g[(i - 1) + 1].sec
                                           ELSE C!SectionAt(g, i - 1)
      BY <2>4, SectionStep
    <2>7. C!SectionAt(f, i) = C!SectionAt(g, i)
      BY <2>4, <2>5, <2>6
    <2> QED
      BY <2>2, <2>7
  <1> QED
    BY <1>1

\* The two files mean the same, whatever they name in comments.
Alike(f, n, g, m) ==
    /\ HeadsOf(f, n) = HeadsOf(g, m)
    /\ SettingsOf(f, n) = SettingsOf(g, m)
    /\ C!SectionAt(f, n) = C!SectionAt(g, m)
    /\ ValidTo(f, n) <=> ValidTo(g, m)

LEMMA PrefixAlike ==
    ASSUME NEW f, NEW g, NEW n \in Nat, \A i \in 1 .. n : f[i] = g[i]
    PROVE  Alike(f, n, g, n) /\ NamedIn(f, n) = NamedIn(g, n)
  <1>1. \A i \in 1 .. n : C!SectionAt(f, i) = C!SectionAt(g, i)
    BY SectionSame
  <1>2. C!SectionAt(f, n) = C!SectionAt(g, n)
    BY SectionSame
  <1>3. HeadsOf(f, n) = HeadsOf(g, n) /\ NamedIn(f, n) = NamedIn(g, n)
    BY DEF HeadsOf, NamedIn
  <1>4. ActiveIn(f, n) = ActiveIn(g, n) /\ ActiveIn(g, n) \subseteq 1 .. n
    BY DEF ActiveIn
  <1>5. SettingsOf(f, n) = SettingsOf(g, n)
    BY <1>1, <1>4 DEF SettingsOf
  <1>6. ValidTo(f, n) <=> ValidTo(g, n)
    BY <1>1, <1>4 DEF ValidTo
  <1> QED
    BY <1>2, <1>3, <1>5, <1>6 DEF Alike

LEMMA HeaderStep ==
    ASSUME NEW f, NEW n \in Nat, C!IsHeader(f[n + 1])
    PROVE  /\ HeadsOf(f, n + 1) = HeadsOf(f, n) \cup {f[n + 1].sec}
           /\ NamedIn(f, n + 1) = NamedIn(f, n)
           /\ SettingsOf(f, n + 1) = SettingsOf(f, n)
           /\ C!SectionAt(f, n + 1) = f[n + 1].sec
           /\ ValidTo(f, n + 1) <=> ValidTo(f, n) /\ f[n + 1].sec \notin HeadsOf(f, n)
  <1>1. 1 .. (n + 1) = (1 .. n) \cup {n + 1} /\ n + 1 \notin 1 .. n
    OBVIOUS
  <1>2. /\ {j \in 1 .. (n + 1) : C!IsHeader(f[j])} = {j \in 1 .. n : C!IsHeader(f[j])} \cup {n + 1}
        /\ {j \in 1 .. (n + 1) : ~C!IsHeader(f[j])} = {j \in 1 .. n : ~C!IsHeader(f[j])}
        /\ ActiveIn(f, n + 1) = ActiveIn(f, n)
    BY <1>1 DEF ActiveIn
  <1>3. /\ HeadsOf(f, n + 1) = HeadsOf(f, n) \cup {f[n + 1].sec}
        /\ NamedIn(f, n + 1) = NamedIn(f, n)
        /\ SettingsOf(f, n + 1) = SettingsOf(f, n)
    BY <1>2 DEF HeadsOf, NamedIn, SettingsOf
  <1>4. C!SectionAt(f, n + 1) = f[n + 1].sec
    BY SectionStep
  <1>5. ASSUME ValidTo(f, n + 1) PROVE ValidTo(f, n) /\ f[n + 1].sec \notin HeadsOf(f, n)
    <2>1. ValidTo(f, n)
      BY <1>1, <1>2, <1>5 DEF ValidTo
    <2>2. ASSUME NEW i \in 1 .. n, C!IsHeader(f[i]), f[i].sec = f[n + 1].sec PROVE FALSE
      BY <1>1, <1>5, <2>2 DEF ValidTo
    <2> QED
      BY <2>1, <2>2 DEF HeadsOf
  <1>6. ASSUME ValidTo(f, n), f[n + 1].sec \notin HeadsOf(f, n) PROVE ValidTo(f, n + 1)
    <2>1. \A i \in 1 .. n : C!IsHeader(f[i]) => f[i].sec # f[n + 1].sec
      BY <1>6 DEF HeadsOf
    <2>2. ASSUME NEW i \in 1 .. (n + 1), NEW j \in 1 .. (n + 1), C!IsHeader(f[i]),
                 C!IsHeader(f[j]), f[i].sec = f[j].sec
          PROVE  i = j
      BY <1>1, <1>6, <2>1, <2>2 DEF ValidTo
    <2> QED
      BY <1>2, <1>6, <2>2 DEF ValidTo
  <1> QED
    BY <1>3, <1>4, <1>5, <1>6

LEMMA CommentStep ==
    ASSUME NEW f, NEW n \in Nat, ~C!IsHeader(f[n + 1]), ~f[n + 1].active
    PROVE  /\ Alike(f, n + 1, f, n)
           /\ NamedIn(f, n + 1) = NamedIn(f, n) \cup {f[n + 1].key}
  <1>1. 1 .. (n + 1) = (1 .. n) \cup {n + 1} /\ n + 1 \notin 1 .. n
    OBVIOUS
  <1>2. /\ {j \in 1 .. (n + 1) : C!IsHeader(f[j])} = {j \in 1 .. n : C!IsHeader(f[j])}
        /\ {j \in 1 .. (n + 1) : ~C!IsHeader(f[j])} = {j \in 1 .. n : ~C!IsHeader(f[j])} \cup {n + 1}
        /\ ActiveIn(f, n + 1) = ActiveIn(f, n)
    BY <1>1 DEF ActiveIn
  <1>3. /\ HeadsOf(f, n + 1) = HeadsOf(f, n)
        /\ NamedIn(f, n + 1) = NamedIn(f, n) \cup {f[n + 1].key}
        /\ SettingsOf(f, n + 1) = SettingsOf(f, n)
    BY <1>2 DEF HeadsOf, NamedIn, SettingsOf
  <1>4. C!SectionAt(f, n + 1) = C!SectionAt(f, n)
    BY SectionStep
  <1>5. ValidTo(f, n + 1) <=> ValidTo(f, n)
    <2>1. (\A i, j \in 1 .. (n + 1) : C!IsHeader(f[i]) /\ C!IsHeader(f[j]) /\ f[i].sec = f[j].sec => i = j)
           <=> (\A i, j \in 1 .. n : C!IsHeader(f[i]) /\ C!IsHeader(f[j]) /\ f[i].sec = f[j].sec => i = j)
      BY <1>1
    <2> QED
      BY <1>2, <2>1 DEF ValidTo
  <1> QED
    BY <1>3, <1>4, <1>5 DEF Alike

LEMMA SettingStep ==
    ASSUME NEW f, NEW n \in Nat, ~C!IsHeader(f[n + 1]), f[n + 1].active
    PROVE  /\ HeadsOf(f, n + 1) = HeadsOf(f, n)
           /\ NamedIn(f, n + 1) = NamedIn(f, n) \cup {f[n + 1].key}
           /\ SettingsOf(f, n + 1) = SettingsOf(f, n) \cup {<<C!SectionAt(f, n), f[n + 1].key>>}
           /\ C!SectionAt(f, n + 1) = C!SectionAt(f, n)
           /\ ValidTo(f, n + 1) <=> /\ ValidTo(f, n)
                                    /\ <<C!SectionAt(f, n), f[n + 1].key>> \notin SettingsOf(f, n)
  <1> DEFINE key == f[n + 1].key
             sec == C!SectionAt(f, n)
  <1>1. 1 .. (n + 1) = (1 .. n) \cup {n + 1} /\ n + 1 \notin 1 .. n
    OBVIOUS
  <1>2. /\ {j \in 1 .. (n + 1) : C!IsHeader(f[j])} = {j \in 1 .. n : C!IsHeader(f[j])}
        /\ {j \in 1 .. (n + 1) : ~C!IsHeader(f[j])} = {j \in 1 .. n : ~C!IsHeader(f[j])} \cup {n + 1}
        /\ ActiveIn(f, n + 1) = ActiveIn(f, n) \cup {n + 1} /\ n + 1 \notin ActiveIn(f, n)
    BY <1>1 DEF ActiveIn
  <1>3. C!SectionAt(f, n + 1) = sec
    BY SectionStep
  <1>4. /\ HeadsOf(f, n + 1) = HeadsOf(f, n)
        /\ NamedIn(f, n + 1) = NamedIn(f, n) \cup {key}
        /\ SettingsOf(f, n + 1) = SettingsOf(f, n) \cup {<<sec, key>>}
    BY <1>2, <1>3 DEF HeadsOf, NamedIn, SettingsOf
  <1>5. (\A i, j \in 1 .. (n + 1) : C!IsHeader(f[i]) /\ C!IsHeader(f[j]) /\ f[i].sec = f[j].sec => i = j)
         <=> (\A i, j \in 1 .. n : C!IsHeader(f[i]) /\ C!IsHeader(f[j]) /\ f[i].sec = f[j].sec => i = j)
    BY <1>1
  <1>6. <<sec, key>> \in SettingsOf(f, n) <=>
            \E i \in ActiveIn(f, n) : C!SectionAt(f, i) = sec /\ f[i].key = key
    BY DEF SettingsOf
  <1> HIDE DEF sec, key
  <1>7. ASSUME ValidTo(f, n + 1) PROVE ValidTo(f, n) /\ <<sec, key>> \notin SettingsOf(f, n)
    <2>1. ValidTo(f, n)
      BY <1>2, <1>5, <1>7 DEF ValidTo
    <2>2. ASSUME NEW i \in ActiveIn(f, n), C!SectionAt(f, i) = sec, f[i].key = key PROVE FALSE
      BY <1>2, <1>3, <1>7, <2>2 DEF ValidTo, key
    <2> QED
      BY <1>6, <2>1, <2>2
  <1>8. ASSUME ValidTo(f, n), <<sec, key>> \notin SettingsOf(f, n) PROVE ValidTo(f, n + 1)
    <2>1. ASSUME NEW i \in ActiveIn(f, n + 1), NEW j \in ActiveIn(f, n + 1),
                 f[i].key = f[j].key, C!SectionAt(f, i) = C!SectionAt(f, j)
          PROVE  i = j
      BY <1>2, <1>3, <1>6, <1>8, <2>1 DEF ValidTo, key
    <2> QED
      BY <1>5, <1>8, <2>1 DEF ValidTo
  <1> QED
    BY <1>3, <1>4, <1>7, <1>8 DEF sec, key

\* A line at the end of a file.
LEMMA AddLine ==
    ASSUME NEW o \in Seq(Lines), NEW line \in Lines
    PROVE  LET g == o \o <<line>> IN
           /\ g = Append(o, line) /\ g \in Seq(Lines)
           /\ Len(o) \in Nat /\ Len(g) = Len(o) + 1 /\ g[Len(o) + 1] = line
           /\ Alike(g, Len(o), o, Len(o)) /\ NamedIn(g, Len(o)) = NamedIn(o, Len(o))
  <1> DEFINE g == o \o <<line>>
  <1>1. g = Append(o, line)
    BY AppendIsConcat
  <1>2. /\ Append(o, line) \in Seq(Lines) /\ Len(o) \in Nat
        /\ Len(Append(o, line)) = Len(o) + 1 /\ Append(o, line)[Len(o) + 1] = line
        /\ \A i \in 1 .. Len(o) : Append(o, line)[i] = o[i]
    BY AppendProperties, LenProperties
  <1> HIDE DEF g
  <1>3. \A i \in 1 .. Len(o) : g[i] = o[i]
    BY <1>1, <1>2
  <1>4. Alike(g, Len(o), o, Len(o)) /\ NamedIn(g, Len(o)) = NamedIn(o, Len(o))
    BY <1>2, <1>3, PrefixAlike
  <1> QED
    BY <1>1, <1>2, <1>4 DEF g

\* A file with a header that it did not have.
LEMMA AddHeader ==
    ASSUME NEW o \in Seq(Lines), NEW line \in Lines, C!IsHeader(line),
           line.sec \notin HeadsOf(o, Len(o)), ValidTo(o, Len(o))
    PROVE  LET g == o \o <<line>> IN
           /\ g \in Seq(Lines)
           /\ HeadsOf(g, Len(g)) = HeadsOf(o, Len(o)) \cup {line.sec}
           /\ NamedIn(g, Len(g)) = NamedIn(o, Len(o))
           /\ SettingsOf(g, Len(g)) = SettingsOf(o, Len(o))
           /\ C!SectionAt(g, Len(g)) = line.sec
           /\ ValidTo(g, Len(g))
  <1> DEFINE g == o \o <<line>>
             n == Len(o)
  <1>1. /\ g \in Seq(Lines) /\ n \in Nat /\ Len(g) = n + 1 /\ g[n + 1] = line
        /\ Alike(g, n, o, n) /\ NamedIn(g, n) = NamedIn(o, n)
    BY AddLine
  <1> HIDE DEF g, n
  <1>2. /\ HeadsOf(g, n + 1) = HeadsOf(g, n) \cup {g[n + 1].sec}
        /\ NamedIn(g, n + 1) = NamedIn(g, n)
        /\ SettingsOf(g, n + 1) = SettingsOf(g, n)
        /\ C!SectionAt(g, n + 1) = g[n + 1].sec
        /\ ValidTo(g, n + 1) <=> ValidTo(g, n) /\ g[n + 1].sec \notin HeadsOf(g, n)
    BY <1>1, HeaderStep
  <1>3. HeadsOf(g, n) = HeadsOf(o, n) /\ SettingsOf(g, n) = SettingsOf(o, n) /\ ValidTo(g, n)
    BY <1>1 DEF Alike, n
  <1>4. /\ HeadsOf(g, Len(g)) = HeadsOf(o, n) \cup {line.sec}
        /\ NamedIn(g, Len(g)) = NamedIn(o, n)
        /\ SettingsOf(g, Len(g)) = SettingsOf(o, n)
        /\ C!SectionAt(g, Len(g)) = line.sec
        /\ ValidTo(g, Len(g))
    BY <1>1, <1>2, <1>3 DEF n
  <1> QED
    BY <1>1, <1>4 DEF g, n

\* The elements of a sequence, from its length.
Elements(t) == {t[i] : i \in 1 .. Len(t)}

LEMMA BlocksFacts ==
    ASSUME NEW t \in Seq(C!Keys)
    PROVE  /\ C!Blocks(t) \in Seq(Lines) /\ Len(t) \in Nat /\ Len(C!Blocks(t)) = Len(t)
           /\ \A i \in 1 .. Len(t) : /\ ~C!IsHeader(C!Blocks(t)[i])
                                     /\ C!Blocks(t)[i].key = t[i]
                                     /\ C!Blocks(t)[i].active = FALSE
  <1>1. DOMAIN t = 1 .. Len(t) /\ Len(t) \in Nat
    BY LenProperties
  <1>2. C!Blocks(t) = [i \in 1 .. Len(t) |-> C!KeyLine(t[i], FALSE)]
    BY <1>1 DEF C!Blocks
  <1>3. \A i \in 1 .. Len(t) : t[i] \in C!Keys
    BY ElementOfSeq
  <1>4. ASSUME NEW i \in 1 .. Len(t)
        PROVE  /\ C!KeyLine(t[i], FALSE) \in Lines /\ ~C!IsHeader(C!KeyLine(t[i], FALSE))
               /\ C!KeyLine(t[i], FALSE).key = t[i] /\ C!KeyLine(t[i], FALSE).active = FALSE
    BY <1>3, KeyLineFacts
  <1>5. C!Blocks(t) \in Seq(Lines) /\ Len(C!Blocks(t)) = Len(t)
    <2> DEFINE b == [i \in 1 .. Len(t) |-> C!KeyLine(t[i], FALSE)]
    <2>1. DOMAIN b = 1 .. Len(t) /\ b = [i \in 1 .. Len(t) |-> b[i]] /\ \A i \in 1 .. Len(t) : b[i] \in Lines
      BY <1>4
    <2> HIDE DEF b
    <2>2. b \in [1 .. Len(t) -> Lines]
      BY <2>1
    <2>3. b \in Seq(Lines) /\ Len(b) = Len(t)
      BY <1>1, <2>1, <2>2
    <2> QED
      BY <1>2, <2>3 DEF b
  <1> QED
    BY <1>1, <1>2, <1>4, <1>5

\* Blocks at the end of a file change nothing of what it means.
LEMMA AddBlocks ==
    ASSUME NEW o \in Seq(Lines), NEW t \in Seq(C!Keys)
    PROVE  LET g == o \o C!Blocks(t) IN
           /\ g \in Seq(Lines)
           /\ Alike(g, Len(g), o, Len(o))
           /\ NamedIn(g, Len(g)) = NamedIn(o, Len(o)) \cup Elements(t)
  <1> DEFINE b == C!Blocks(t)
             g == o \o b
             n == Len(o)
             first(k) == {t[i] : i \in 1 .. k}
             Holds(k) == Alike(g, n + k, o, n) /\ NamedIn(g, n + k) = NamedIn(o, n) \cup first(k)
  <1>1. /\ b \in Seq(Lines) /\ Len(t) \in Nat /\ Len(b) = Len(t)
        /\ \A i \in 1 .. Len(t) : ~C!IsHeader(b[i]) /\ b[i].key = t[i] /\ b[i].active = FALSE
    BY BlocksFacts
  <1> HIDE DEF b
  <1>2. /\ g \in Seq(Lines) /\ n \in Nat /\ Len(g) = n + Len(t)
        /\ \A i \in 1 .. n : g[i] = o[i]
        /\ \A i \in 1 .. Len(t) : g[n + i] = b[i]
    <2>1. o \in Seq(Lines) /\ b \in Seq(Lines)
      BY <1>1
    <2>2. /\ o \o b \in Seq(Lines) /\ Len(o) \in Nat /\ Len(o \o b) = Len(o) + Len(b)
          /\ \A i \in 1 .. Len(o) : (o \o b)[i] = o[i]
          /\ \A i \in 1 .. Len(b) : (o \o b)[Len(o) + i] = b[i]
      BY <2>1, ConcatFacts
    <2> QED
      BY <1>1, <2>2
  <1> HIDE DEF g, n
  <1>3. Holds(0)
    <2>1. Alike(g, n, o, n) /\ NamedIn(g, n) = NamedIn(o, n)
      BY <1>2, PrefixAlike
    <2>2. first(0) = {} /\ n + 0 = n
      BY <1>2
    <2> QED
      BY <2>1, <2>2
  <1>4. ASSUME NEW k \in 0 .. Len(t), k < Len(t), Holds(k) PROVE Holds(k + 1)
    <2>1. k \in Nat /\ k + 1 \in 1 .. Len(t) /\ n + k \in Nat /\ n + (k + 1) = (n + k) + 1
      BY <1>1, <1>2, <1>4
    <2>2. /\ ~C!IsHeader(g[(n + k) + 1]) /\ ~g[(n + k) + 1].active
          /\ g[(n + k) + 1].key = t[k + 1]
      <3>1. g[n + (k + 1)] = b[k + 1]
        BY <1>2, <2>1
      <3>2. g[(n + k) + 1] = b[k + 1]
        BY <2>1, <3>1
      <3>3. ~C!IsHeader(b[k + 1]) /\ b[k + 1].key = t[k + 1] /\ b[k + 1].active = FALSE
        BY <1>1, <2>1
      <3> QED
        BY <3>2, <3>3
    <2>3. /\ Alike(g, (n + k) + 1, g, n + k)
          /\ NamedIn(g, (n + k) + 1) = NamedIn(g, n + k) \cup {t[k + 1]}
      <3> DEFINE x == n + k
      <3>1. x \in Nat /\ ~C!IsHeader(g[x + 1]) /\ ~g[x + 1].active /\ g[x + 1].key = t[k + 1]
        BY <2>1, <2>2
      <3> HIDE DEF x
      <3>2. Alike(g, x + 1, g, x) /\ NamedIn(g, x + 1) = NamedIn(g, x) \cup {g[x + 1].key}
        BY <3>1, CommentStep
      <3>3. Alike(g, x + 1, g, x) /\ NamedIn(g, x + 1) = NamedIn(g, x) \cup {t[k + 1]}
        BY <3>1, <3>2
      <3> QED
        BY <3>3 DEF x
    <2>4. Alike(g, n + (k + 1), o, n)
      BY <1>4, <2>1, <2>3 DEF Alike
    <2>5. first(k + 1) = first(k) \cup {t[k + 1]}
      <3>1. 1 .. (k + 1) = (1 .. k) \cup {k + 1}
        BY <2>1
      <3> QED
        BY <3>1
    <2>6. NamedIn(g, n + (k + 1)) = NamedIn(o, n) \cup first(k + 1)
      <3> HIDE DEF first
      <3> QED
        BY <1>4, <2>1, <2>3, <2>5
    <2> QED
      BY <2>4, <2>6
  <1> HIDE DEF Holds
  <1>5. Holds(Len(t))
    <2> DEFINE T == {k \in 0 .. Len(t) : ~Holds(k)}
    <2>1. ASSUME Len(t) \in T PROVE FALSE
      <3>1. T \in SUBSET Nat /\ T # {}
        BY <1>1, <2>1
      <3>2. PICK k \in T : \A j \in T : k <= j
        BY <3>1, LeastNumber
      <3>3. k # 0
        BY <1>3, <3>2
      <3>4. k - 1 \in 0 .. Len(t) /\ k - 1 < Len(t) /\ k - 1 \notin T /\ (k - 1) + 1 = k
        BY <1>1, <3>2, <3>3
      <3>5. Holds(k - 1)
        BY <3>4
      <3>6. Holds((k - 1) + 1)
        BY <1>4, <3>4, <3>5
      <3> QED
        BY <3>2, <3>4, <3>6
    <2> QED
      BY <1>1, <2>1
  <1> QED
    BY <1>2, <1>5 DEF Holds, g, b, n, Elements

\* A section at the end of a file that had no such section.
LEMMA AddSection ==
    ASSUME NEW o \in Seq(Lines), NEW t \in Seq(C!Keys), NEW sec \in {"client", "server"},
           sec \notin HeadsOf(o, Len(o)), ValidTo(o, Len(o))
    PROVE  LET g == o \o C!Section(sec, t) IN
           /\ g \in Seq(Lines)
           /\ HeadsOf(g, Len(g)) = HeadsOf(o, Len(o)) \cup {sec}
           /\ NamedIn(g, Len(g)) = NamedIn(o, Len(o)) \cup Elements(t)
           /\ SettingsOf(g, Len(g)) = SettingsOf(o, Len(o))
           /\ ValidTo(g, Len(g))
  <1> DEFINE line == C!Header(sec, TRUE)
             b == C!Blocks(t)
             mid == o \o <<line>>
             g == mid \o b
  <1>1. line \in Lines /\ C!IsHeader(line) /\ line.sec = sec
    BY HeaderLine
  <1> HIDE DEF line
  <1>2. /\ mid \in Seq(Lines)
        /\ HeadsOf(mid, Len(mid)) = HeadsOf(o, Len(o)) \cup {sec}
        /\ NamedIn(mid, Len(mid)) = NamedIn(o, Len(o))
        /\ SettingsOf(mid, Len(mid)) = SettingsOf(o, Len(o))
        /\ ValidTo(mid, Len(mid))
    BY <1>1, AddHeader, SMTT(20)
  <1>3. b \in Seq(Lines)
    BY BlocksFacts
  <1>4. o \o C!Section(sec, t) = g
    <2>1. C!Section(sec, t) = <<line>> \o b
      BY DEF C!Section, line
    <2>2. o \in Seq(Lines) /\ <<line>> \in Seq(Lines) /\ b \in Seq(Lines)
      BY <1>1, <1>3
    <2> HIDE DEF b
    <2>3. o \o (<<line>> \o b) = (o \o <<line>>) \o b
      BY <2>2, ConcatAssociative, SMTT(20)
    <2> QED
      BY <2>1, <2>3
  <1> HIDE DEF mid
  <1>5. /\ g \in Seq(Lines) /\ Alike(g, Len(g), mid, Len(mid))
        /\ NamedIn(g, Len(g)) = NamedIn(mid, Len(mid)) \cup Elements(t)
    BY <1>2, AddBlocks
  <1> HIDE DEF g, b
  <1>6. /\ HeadsOf(g, Len(g)) = HeadsOf(mid, Len(mid))
        /\ SettingsOf(g, Len(g)) = SettingsOf(mid, Len(mid))
        /\ ValidTo(g, Len(g)) <=> ValidTo(mid, Len(mid))
    BY <1>5 DEF Alike
  <1> QED
    BY <1>2, <1>4, <1>5, <1>6


LEMMA ElementsAppend ==
    ASSUME NEW Q, NEW t \in Seq(Q), NEW e \in Q
    PROVE  Append(t, e) \in Seq(Q) /\ Elements(Append(t, e)) = Elements(t) \cup {e}
  <1>1. /\ Append(t, e) \in Seq(Q) /\ Len(t) \in Nat /\ Len(Append(t, e)) = Len(t) + 1
        /\ \A i \in 1 .. Len(t) : Append(t, e)[i] = t[i]
        /\ Append(t, e)[Len(t) + 1] = e
    BY AppendProperties, LenProperties
  <1>2. 1 .. (Len(t) + 1) = (1 .. Len(t)) \cup {Len(t) + 1}
    BY <1>1
  <1> QED
    BY <1>1, <1>2 DEF Elements

LEMMA ElementsNone ==
    ASSUME NEW Q, NEW t \in Seq(Q)
    PROVE  t = <<>> <=> Elements(t) = {}
  <1>1. Len(t) \in Nat /\ (t = <<>> <=> Len(t) = 0)
    BY EmptySeq, LenProperties
  <1>2. ASSUME Len(t) = 0 PROVE Elements(t) = {}
    BY <1>2 DEF Elements
  <1>3. ASSUME Len(t) # 0 PROVE Elements(t) # {}
    <2>1. 1 \in 1 .. Len(t)
      BY <1>1, <1>3
    <2> QED
      BY <2>1 DEF Elements
  <1> QED
    BY <1>1, <1>2, <1>3

\* What is kept of a sequence: some of its elements.
LEMMA FilteredElements ==
    ASSUME NEW Q, NEW s \in Seq(Q), NEW keep, NEW g, Filters(g, s, keep, Len(s))
    PROVE  /\ g[Len(s)] \in Seq(Q)
           /\ Elements(g[Len(s)]) = {s[i] : i \in {j \in 1 .. Len(s) : j \in keep}}
  <1> DEFINE n == Len(s)
             kept(k) == {s[i] : i \in {j \in 1 .. k : j \in keep}}
             Holds(k) == g[k] \in Seq(Q) /\ Elements(g[k]) = kept(k)
             T == {k \in 0 .. n : ~Holds(k)}
  <1>1. n \in Nat
    BY LenProperties
  <1>2. Holds(0)
    <2>1. g[0] = <<>>
      <3>1. 0 \in 0 .. n
        BY <1>1
      <3> QED
        BY <3>1 DEF Filters
    <2>2. <<>> \in Seq(Q) /\ Len(<<>>) = 0
      OBVIOUS
    <2>3. Elements(<<>>) = {}
      BY <2>2 DEF Elements
    <2>4. kept(0) = {}
      OBVIOUS
    <2> HIDE DEF kept
    <2> QED
      BY <2>1, <2>2, <2>3, <2>4
  <1>3. ASSUME NEW k \in 1 .. n, Holds(k - 1) PROVE Holds(k)
    <2>1. k \in 0 .. n /\ k # 0 /\ k - 1 \in Nat
      BY <1>1
    <2>2. g[k] = IF k \in keep THEN Append(g[k - 1], s[k]) ELSE g[k - 1]
      BY <2>1 DEF Filters
    <2>3. 1 .. k = (1 .. (k - 1)) \cup {k}
      BY <2>1
    <2>4. kept(k) = IF k \in keep THEN kept(k - 1) \cup {s[k]} ELSE kept(k - 1)
      BY <2>3
    <2>5. s[k] \in Q
      BY ElementOfSeq
    <2> HIDE DEF kept
    <2>6. CASE k \in keep
      <3>1. g[k] \in Seq(Q) /\ Elements(g[k]) = Elements(g[k - 1]) \cup {s[k]}
        BY <1>3, <2>2, <2>5, <2>6, ElementsAppend
      <3> QED
        BY <1>3, <2>4, <2>6, <3>1
    <2>7. CASE k \notin keep
      BY <1>3, <2>2, <2>4, <2>7
    <2> QED
      BY <2>6, <2>7
  <1> HIDE DEF Holds
  <1>4. ASSUME n \in T PROVE FALSE
    <2>1. T \in SUBSET Nat /\ T # {}
      BY <1>1, <1>4
    <2>2. PICK k \in T : \A j \in T : k <= j
      BY <2>1, LeastNumber
    <2>3. k # 0
      BY <1>2, <2>2
    <2>4. k \in 1 .. n /\ k - 1 \in 0 .. n /\ k - 1 \notin T
      BY <1>1, <2>2, <2>3
    <2>5. Holds(k - 1)
      BY <2>4
    <2>6. Holds(k)
      BY <1>3, <2>4, <2>5
    <2> QED
      BY <2>2, <2>6
  <1>5. Holds(n)
    BY <1>1, <1>4
  <1> QED
    BY <1>5 DEF Holds

LEMMA ContainsIsNamed ==
    ASSUME NEW f \in Seq(Lines), NEW key
    PROVE  C!ContainsKeyLine(f, key) <=> key \in NamedIn(f, Len(f))
  <1>1. DOMAIN f = 1 .. Len(f)
    BY LenProperties
  <1> QED
    BY <1>1 DEF C!ContainsKeyLine, NamedIn

\* MissingOf gives the keys that no line of the file names.
LEMMA MissingFacts ==
    ASSUME NEW f \in Seq(Lines), NEW keys \in Seq(C!Keys)
    PROVE  /\ C!MissingOf(f, keys) \in Seq(C!Keys)
           /\ Elements(C!MissingOf(f, keys)) = Elements(keys) \ NamedIn(f, Len(f))
  <1> DEFINE n == Len(keys)
             keep == {i \in 1 .. n : ~C!ContainsKeyLine(f, keys[i])}
             Def(g) == g = [i \in 0 .. n |-> IF i = 0 THEN <<>>
                                             ELSE IF C!ContainsKeyLine(f, keys[i]) THEN g[i - 1]
                                             ELSE Append(g[i - 1], keys[i])]
  <1>1. n \in Nat
    BY LenProperties
  <1>2. ASSUME NEW g PROVE Def(g) <=> Filters(g, keys, keep, n)
    <2> DEFINE A == [i \in 0 .. n |-> IF i = 0 THEN <<>>
                                      ELSE IF C!ContainsKeyLine(f, keys[i]) THEN g[i - 1]
                                      ELSE Append(g[i - 1], keys[i])]
               B == [i \in 0 .. n |-> IF i = 0 THEN <<>>
                                      ELSE IF i \in keep THEN Append(g[i - 1], keys[i])
                                      ELSE g[i - 1]]
    <2>1. \A i \in 0 .. n : i # 0 => (i \in keep <=> ~C!ContainsKeyLine(f, keys[i]))
      BY <1>1
    <2>2. A = B
      <3> HIDE DEF keep, n
      <3> QED
        BY <2>1
    <2> QED
      BY <2>2 DEF Filters
  <1>3. C!MissingOf(f, keys) = (CHOOSE g : Def(g))[n]
    BY DEF C!MissingOf
  <1>4. PICK g : g = (CHOOSE x : Def(x)) /\ Filters(g, keys, keep, n)
    <2> HIDE DEF Def, keep, n
    <2>1. \E x : Def(x)
      BY <1>1, <1>2, FiltersExist
    <2>2. Def(CHOOSE x : Def(x))
      BY <2>1
    <2> QED
      BY <1>2, <2>2
  <1>5. \A i \in 1 .. n : keys[i] \in C!Keys /\ (i \in keep <=> keys[i] \notin NamedIn(f, Len(f)))
    BY ElementOfSeq, ContainsIsNamed
  <1> HIDE DEF Def, keep
  <1>6. /\ g[n] \in Seq(C!Keys)
        /\ Elements(g[n]) = {keys[i] : i \in {j \in 1 .. n : j \in keep}}
    BY <1>4, FilteredElements
  <1>7. {keys[i] : i \in {j \in 1 .. n : j \in keep}} = Elements(keys) \ NamedIn(f, Len(f))
    BY <1>5 DEF Elements
  <1> QED
    BY <1>3, <1>4, <1>6, <1>7

\* The two lists of keys, and the file that leaves none of them out.
LEMMA ConfigConstants ==
    /\ ClientKeys \in Seq(C!Keys) /\ ServerKeys \in Seq(C!Keys)
    /\ C!Keys = Elements(ClientKeys) \cup Elements(ServerKeys)
    /\ MaxEdits \in Nat
  <1>1. ClientKeys \in Seq(STRING) /\ ServerKeys \in Seq(STRING) /\ MaxEdits \in Nat
    BY ComponentsAssumption DEF C!ConfigFileAssumption
  <1>2. /\ DOMAIN ClientKeys = 1 .. Len(ClientKeys) /\ DOMAIN ServerKeys = 1 .. Len(ServerKeys)
    BY <1>1, LenProperties
  <1>3. C!ToSet(ClientKeys) = Elements(ClientKeys) /\ C!ToSet(ServerKeys) = Elements(ServerKeys)
    BY <1>2 DEF C!ToSet, Elements
  <1>4. C!Keys = Elements(ClientKeys) \cup Elements(ServerKeys)
    BY <1>3 DEF C!Keys
  <1>5. /\ Len(ClientKeys) \in Nat /\ \A i \in 1 .. Len(ClientKeys) : ClientKeys[i] \in C!Keys
        /\ Len(ServerKeys) \in Nat /\ \A i \in 1 .. Len(ServerKeys) : ServerKeys[i] \in C!Keys
    BY <1>1, <1>4, LenProperties DEF Elements
  <1>6. ClientKeys \in Seq(C!Keys)
    <2>1. ClientKeys \in [1 .. Len(ClientKeys) -> C!Keys]
      BY <1>1, <1>5
    <2> QED
      BY <1>5, <2>1
  <1>7. ServerKeys \in Seq(C!Keys)
    <2>1. ServerKeys \in [1 .. Len(ServerKeys) -> C!Keys]
      BY <1>1, <1>5
    <2> QED
      BY <1>5, <2>1
  <1> QED
    BY <1>1, <1>4, <1>6, <1>7

LEMMA NoneMissing ==
    ASSUME NEW f \in Seq(Lines)
    PROVE  C!Missing(f) = <<>> <=> C!Keys \subseteq NamedIn(f, Len(f))
  <1> DEFINE mc == C!MissingOf(f, ClientKeys)
             ms == C!MissingOf(f, ServerKeys)
  <1>1. /\ mc \in Seq(C!Keys) /\ Elements(mc) = Elements(ClientKeys) \ NamedIn(f, Len(f))
        /\ ms \in Seq(C!Keys) /\ Elements(ms) = Elements(ServerKeys) \ NamedIn(f, Len(f))
    BY MissingFacts, ConfigConstants
  <1>2. C!Missing(f) = mc \o ms
    BY DEF C!Missing
  <1> HIDE DEF mc, ms
  <1>3. mc \o ms = <<>> <=> mc = <<>> /\ ms = <<>>
    <2>1. /\ mc \o ms \in Seq(C!Keys) /\ Len(mc) \in Nat /\ Len(ms) \in Nat
          /\ Len(mc \o ms) = Len(mc) + Len(ms)
      BY <1>1, ConcatFacts
    <2>2. /\ mc \o ms = <<>> <=> Len(mc \o ms) = 0
          /\ mc = <<>> <=> Len(mc) = 0
          /\ ms = <<>> <=> Len(ms) = 0
      BY <1>1, <2>1, EmptySeq
    <2> QED
      BY <2>1, <2>2
  <1>4. (mc = <<>> <=> Elements(mc) = {}) /\ (ms = <<>> <=> Elements(ms) = {})
    BY <1>1, ElementsNone
  <1>5. C!Keys = Elements(ClientKeys) \cup Elements(ServerKeys)
    BY ConfigConstants
  <1> QED
    BY <1>1, <1>2, <1>3, <1>4, <1>5
-----------------------------------------------------------------------------
(* merge_defaults.  After each line of a valid and orderly file the output *)
(* has the same settings in force and stands in the same section; it has   *)
(* the sections read so far and, once a header was met, the client's.      *)

Accumulators == [out : Seq(Lines), client : BOOLEAN, server : BOOLEAN]

CarriesOver(f, i, mc, ms, acc) ==
    LET o == acc.out
        n == Len(acc.out) IN
    /\ ValidTo(o, n)
    /\ SettingsOf(o, n) = SettingsOf(f, i)
    /\ C!SectionAt(o, n) = C!SectionAt(f, i)
    /\ HeadsOf(o, n) \subseteq HeadsOf(f, i) \cup (IF acc.client THEN {"client"} ELSE {})
    /\ NamedIn(f, i) \subseteq NamedIn(o, n)
    /\ acc.client <=> mc # <<>> /\ HeadsOf(f, i) # {}
    /\ acc.server <=> ms # <<>> /\ "server" \in HeadsOf(f, i)
    /\ acc.client => Elements(mc) \subseteq NamedIn(o, n)
    /\ acc.server => Elements(ms) \subseteq NamedIn(o, n)

LEMMA ValidPrefix ==
    ASSUME NEW f, NEW n \in Nat, NEW m \in 0 .. n, ValidTo(f, n)
    PROVE  ValidTo(f, m)
  <1>1. 1 .. m \subseteq 1 .. n
    OBVIOUS
  <1>2. ActiveIn(f, m) \subseteq ActiveIn(f, n)
    BY <1>1 DEF ActiveIn
  <1> QED
    BY <1>1, <1>2 DEF ValidTo

LEMMA HeadsKnown ==
    ASSUME NEW f \in Seq(Lines), NEW n \in 0 .. Len(f)
    PROVE  HeadsOf(f, n) \subseteq {"client", "server"}
  <1>1. Len(f) \in Nat
    BY LenProperties
  <1>2. \A j \in 1 .. n : f[j] \in Lines
    BY <1>1, ElementOfSeq
  <1> QED
    BY <1>2, LineFacts DEF HeadsOf

\* The output once it has the keys of [client].
WithClient(f, i, mc, ms, acc, g) ==
    /\ g \in Seq(Lines)
    /\ ValidTo(g, Len(g))
    /\ SettingsOf(g, Len(g)) = SettingsOf(f, i)
    /\ HeadsOf(g, Len(g)) \subseteq HeadsOf(f, i) \cup (IF mc # <<>> THEN {"client"} ELSE {})
    /\ NamedIn(f, i) \subseteq NamedIn(g, Len(g))
    /\ Elements(mc) \subseteq NamedIn(g, Len(g))
    /\ acc.server => Elements(ms) \subseteq NamedIn(g, Len(g))

\* The section for [client] that stands before [server], or at the end.
LEMMA EarlySection ==
    ASSUME NEW f \in Seq(Lines), NEW i \in 0 .. Len(f), NEW mc \in Seq(C!Keys), NEW ms,
           NEW acc \in Accumulators, CarriesOver(f, i, mc, ms, acc)
    PROVE  WithClient(f, i, mc, ms, acc,
                      acc.out \o (IF mc # <<>> /\ ~acc.client THEN C!Section("client", mc) ELSE <<>>))
  <1> DEFINE o == acc.out
             early == IF mc # <<>> /\ ~acc.client THEN C!Section("client", mc) ELSE <<>>
             g == o \o early
  <1>1. o \in Seq(Lines) /\ acc.client \in BOOLEAN /\ acc.server \in BOOLEAN
    BY DEF Accumulators
  <1>2. /\ ValidTo(o, Len(o))
        /\ SettingsOf(o, Len(o)) = SettingsOf(f, i)
        /\ HeadsOf(o, Len(o)) \subseteq HeadsOf(f, i) \cup (IF acc.client THEN {"client"} ELSE {})
        /\ NamedIn(f, i) \subseteq NamedIn(o, Len(o))
        /\ acc.client <=> mc # <<>> /\ HeadsOf(f, i) # {}
        /\ acc.client => Elements(mc) \subseteq NamedIn(o, Len(o))
        /\ acc.server => Elements(ms) \subseteq NamedIn(o, Len(o))
    BY DEF CarriesOver
  <1>3. CASE mc # <<>> /\ ~acc.client
    <2>1. early = C!Section("client", mc)
      BY <1>3
    <2>2. HeadsOf(o, Len(o)) = {}
      BY <1>2, <1>3
    <2> HIDE DEF o
    <2>3. LET x == o \o C!Section("client", mc) IN
           /\ x \in Seq(Lines)
           /\ HeadsOf(x, Len(x)) = HeadsOf(o, Len(o)) \cup {"client"}
           /\ NamedIn(x, Len(x)) = NamedIn(o, Len(o)) \cup Elements(mc)
           /\ SettingsOf(x, Len(x)) = SettingsOf(o, Len(o))
           /\ ValidTo(x, Len(x))
      BY <1>1, <1>2, <2>2, AddSection
    <2> HIDE DEF early
    <2>4. /\ g \in Seq(Lines)
          /\ HeadsOf(g, Len(g)) = HeadsOf(o, Len(o)) \cup {"client"}
          /\ NamedIn(g, Len(g)) = NamedIn(o, Len(o)) \cup Elements(mc)
          /\ SettingsOf(g, Len(g)) = SettingsOf(o, Len(o))
          /\ ValidTo(g, Len(g))
      BY <2>1, <2>3
    <2> HIDE DEF g
    <2>5. /\ g \in Seq(Lines)
          /\ ValidTo(g, Len(g))
          /\ SettingsOf(g, Len(g)) = SettingsOf(f, i)
          /\ HeadsOf(g, Len(g)) \subseteq HeadsOf(f, i) \cup {"client"}
          /\ NamedIn(f, i) \subseteq NamedIn(g, Len(g))
          /\ Elements(mc) \subseteq NamedIn(g, Len(g))
          /\ acc.server => Elements(ms) \subseteq NamedIn(g, Len(g))
      BY <1>2, <2>2, <2>4
    <2> QED
      BY <1>3, <2>5 DEF WithClient, g, early, o
  <1>4. CASE ~(mc # <<>> /\ ~acc.client)
    <2>1. early = <<>>
      BY <1>4
    <2>2. g = o
      <3> HIDE DEF o, early
      <3>1. o \o <<>> = o
        BY <1>1, ConcatEmptySeq
      <3> QED
        BY <2>1, <3>1
    <2>3. Elements(mc) \subseteq NamedIn(o, Len(o))
      <3>1. mc = <<>> => Elements(mc) = {}
        BY ElementsNone
      <3> QED
        BY <1>2, <1>4, <3>1
    <2>4. HeadsOf(o, Len(o)) \subseteq HeadsOf(f, i) \cup (IF mc # <<>> THEN {"client"} ELSE {})
      BY <1>2, <1>4
    <2> HIDE DEF g, o, early
    <2>5. /\ g \in Seq(Lines)
          /\ ValidTo(g, Len(g))
          /\ SettingsOf(g, Len(g)) = SettingsOf(f, i)
          /\ HeadsOf(g, Len(g)) \subseteq HeadsOf(f, i) \cup (IF mc # <<>> THEN {"client"} ELSE {})
          /\ NamedIn(f, i) \subseteq NamedIn(g, Len(g))
          /\ Elements(mc) \subseteq NamedIn(g, Len(g))
          /\ acc.server => Elements(ms) \subseteq NamedIn(g, Len(g))
      BY <1>1, <1>2, <2>2, <2>3, <2>4
    <2> QED
      BY <2>5 DEF WithClient, g, early, o
  <1> QED
    BY <1>3, <1>4

\* A header and the blocks of a section.
LEMMA AddHeaderBlocks ==
    ASSUME NEW o \in Seq(Lines), NEW line \in Lines, NEW t \in Seq(C!Keys), C!IsHeader(line),
           line.sec \notin HeadsOf(o, Len(o)), ValidTo(o, Len(o))
    PROVE  LET g == o \o <<line>> \o C!Blocks(t) IN
           /\ g \in Seq(Lines)
           /\ HeadsOf(g, Len(g)) = HeadsOf(o, Len(o)) \cup {line.sec}
           /\ NamedIn(g, Len(g)) = NamedIn(o, Len(o)) \cup Elements(t)
           /\ SettingsOf(g, Len(g)) = SettingsOf(o, Len(o))
           /\ C!SectionAt(g, Len(g)) = line.sec
           /\ ValidTo(g, Len(g))
  <1> DEFINE mid == o \o <<line>>
             g == mid \o C!Blocks(t)
  <1>1. /\ mid \in Seq(Lines)
        /\ HeadsOf(mid, Len(mid)) = HeadsOf(o, Len(o)) \cup {line.sec}
        /\ NamedIn(mid, Len(mid)) = NamedIn(o, Len(o))
        /\ SettingsOf(mid, Len(mid)) = SettingsOf(o, Len(o))
        /\ C!SectionAt(mid, Len(mid)) = line.sec
        /\ ValidTo(mid, Len(mid))
    BY AddHeader
  <1> HIDE DEF mid
  <1>2. /\ g \in Seq(Lines) /\ Alike(g, Len(g), mid, Len(mid))
        /\ NamedIn(g, Len(g)) = NamedIn(mid, Len(mid)) \cup Elements(t)
    BY <1>1, AddBlocks
  <1> HIDE DEF g
  <1>3. /\ HeadsOf(g, Len(g)) = HeadsOf(mid, Len(mid))
        /\ SettingsOf(g, Len(g)) = SettingsOf(mid, Len(mid))
        /\ C!SectionAt(g, Len(g)) = C!SectionAt(mid, Len(mid))
        /\ ValidTo(g, Len(g)) <=> ValidTo(mid, Len(mid))
    BY <1>2 DEF Alike
  <1>4. /\ g \in Seq(Lines)
        /\ HeadsOf(g, Len(g)) = HeadsOf(o, Len(o)) \cup {line.sec}
        /\ NamedIn(g, Len(g)) = NamedIn(o, Len(o)) \cup Elements(t)
        /\ SettingsOf(g, Len(g)) = SettingsOf(o, Len(o))
        /\ C!SectionAt(g, Len(g)) = line.sec
        /\ ValidTo(g, Len(g))
    BY <1>1, <1>2, <1>3
  <1> QED
    BY <1>4 DEF g, mid

\* What one line of the loop does, by the kind of the line.
ClientMerged(mc, acc, line, new) ==
    /\ new.out = acc.out \o <<line>> \o C!Blocks(mc)
    /\ new.client <=> acc.client \/ mc # <<>>
    /\ new.server <=> acc.server

ServerMerged(mc, ms, acc, line, new) ==
    /\ new.out = acc.out \o (IF mc # <<>> /\ ~acc.client THEN C!Section("client", mc) ELSE <<>>)
                     \o <<line>> \o C!Blocks(ms)
    /\ new.client <=> acc.client \/ mc # <<>>
    /\ new.server <=> acc.server \/ ms # <<>>

OtherMerged(acc, line, new) ==
    /\ new.out = Append(acc.out, line)
    /\ new.client <=> acc.client
    /\ new.server <=> acc.server

LEMMA MergeLineIs ==
    ASSUME NEW mc \in Seq(C!Keys), NEW ms \in Seq(C!Keys), NEW acc \in Accumulators,
           NEW line \in Lines, NEW new, new = C!MergeLine(mc, ms, acc, line)
    PROVE  /\ C!IsPlain(line, "client") => ClientMerged(mc, acc, line, new)
           /\ C!IsPlain(line, "server") => ServerMerged(mc, ms, acc, line, new)
           /\ ~C!IsPlain(line, "client") /\ ~C!IsPlain(line, "server") => OtherMerged(acc, line, new)
           /\ new \in Accumulators
  <1> DEFINE early == IF mc # <<>> /\ ~acc.client THEN C!Section("client", mc) ELSE <<>>
  <1>1. /\ acc.out \in Seq(Lines) /\ acc.client \in BOOLEAN /\ acc.server \in BOOLEAN
        /\ acc = [out |-> acc.out, client |-> acc.client, server |-> acc.server]
    BY DEF Accumulators
  <1>2. C!Blocks(mc) \in Seq(Lines) /\ C!Blocks(ms) \in Seq(Lines)
    BY BlocksFacts
  <1>3. \A l \in Lines : <<l>> \in Seq(Lines)
    OBVIOUS
  <1>4. early \in Seq(Lines)
    <2> DEFINE h == C!Header("client", TRUE)
    <2>1. h \in Lines
      BY HeaderLine
    <2>2. C!Section("client", mc) = <<h>> \o C!Blocks(mc)
      BY DEF C!Section
    <2> HIDE DEF h
    <2>3. <<h>> \o C!Blocks(mc) \in Seq(Lines)
      BY <1>2, <1>3, <2>1, ConcatFacts
    <2>4. <<>> \in Seq(Lines)
      OBVIOUS
    <2> QED
      BY <2>2, <2>3, <2>4
  <1> HIDE DEF early
  <1>5. ASSUME C!IsPlain(line, "client")
        PROVE  ClientMerged(mc, acc, line, new) /\ new \in Accumulators
    <2> DEFINE o == acc.out \o <<line>> \o C!Blocks(mc)
               c == acc.client \/ mc # <<>>
    <2>1. new = [out |-> o, client |-> c, server |-> acc.server]
      BY <1>5 DEF C!MergeLine
    <2>2. acc.out \o <<line>> \in Seq(Lines)
      BY <1>1, <1>3, ConcatFacts
    <2>3. o \in Seq(Lines)
      BY <1>2, <2>2, ConcatFacts
    <2>4. c \in BOOLEAN
      OBVIOUS
    <2> HIDE DEF o, c
    <2>5. new \in Accumulators /\ new.out = o /\ new.client = c /\ new.server = acc.server
      BY <1>1, <2>1, <2>3, <2>4 DEF Accumulators
    <2> QED
      BY <2>5, Zenon DEF ClientMerged, o, c
  <1>6. ASSUME C!IsPlain(line, "server")
        PROVE  ServerMerged(mc, ms, acc, line, new) /\ new \in Accumulators
    <2> DEFINE o == acc.out \o early \o <<line>> \o C!Blocks(ms)
               c == acc.client \/ mc # <<>>
               s == acc.server \/ ms # <<>>
    <2>1. ~C!IsPlain(line, "client")
      BY <1>6 DEF C!IsPlain
    <2>2. new = [out |-> o, client |-> c, server |-> s]
      BY <1>6, <2>1 DEF C!MergeLine, early
    <2>3. acc.out \o early \in Seq(Lines)
      BY <1>1, <1>4, ConcatFacts
    <2>4. acc.out \o early \o <<line>> \in Seq(Lines)
      BY <1>3, <2>3, ConcatFacts
    <2>5. o \in Seq(Lines)
      BY <1>2, <2>4, ConcatFacts
    <2>6. c \in BOOLEAN /\ s \in BOOLEAN
      OBVIOUS
    <2> HIDE DEF o, c, s
    <2>7. new \in Accumulators /\ new.out = o /\ new.client = c /\ new.server = s
      BY <1>1, <2>2, <2>5, <2>6 DEF Accumulators
    <2> QED
      BY <2>7, Zenon DEF ServerMerged, o, c, s, early
  <1>7. ASSUME ~C!IsPlain(line, "client"), ~C!IsPlain(line, "server")
        PROVE  OtherMerged(acc, line, new) /\ new \in Accumulators
    <2>1. new = [acc EXCEPT !.out = Append(@, line)]
      BY <1>7 DEF C!MergeLine
    <2>2. Append(acc.out, line) \in Seq(Lines)
      BY <1>1, AppendProperties
    <2>3. new = [out |-> Append(acc.out, line), client |-> acc.client, server |-> acc.server]
      BY <2>1 DEF Accumulators
    <2> QED
      BY <1>1, <2>2, <2>3 DEF Accumulators, OtherMerged
  <1> QED
    BY <1>5, <1>6, <1>7

\* The file that merge_defaults is proved for.
Mergeable(f) == f \in Seq(Lines) /\ ValidTo(f, Len(f)) /\ C!Orderly(f)

LEMMA AtClientHeader ==
    ASSUME NEW f, Mergeable(f), NEW i \in Nat, i < Len(f), NEW mc \in Seq(C!Keys),
           NEW ms \in Seq(C!Keys), NEW acc \in Accumulators, CarriesOver(f, i, mc, ms, acc),
           C!IsPlain(f[i + 1], "client")
    PROVE  CarriesOver(f, i + 1, mc, ms, C!MergeLine(mc, ms, acc, f[i + 1]))
  <1> DEFINE line == f[i + 1]
             new == C!MergeLine(mc, ms, acc, line)
             o == acc.out
             g == o \o <<line>> \o C!Blocks(mc)
  <1>1. /\ f \in Seq(Lines) /\ Len(f) \in Nat /\ DOMAIN f = 1 .. Len(f)
        /\ i + 1 \in 1 .. Len(f) /\ i \in 0 .. Len(f) /\ i + 1 \in 0 .. Len(f)
    BY LenProperties DEF Mergeable
  <1>2. line \in Lines /\ C!IsPlain(line, "client") /\ C!IsHeader(line) /\ line.sec = "client"
    BY <1>1, ElementOfSeq DEF C!IsPlain
  <1>3. ValidTo(f, i + 1)
    BY <1>1, ValidPrefix DEF Mergeable
  <1>4. /\ HeadsOf(f, i + 1) = HeadsOf(f, i) \cup {line.sec}
        /\ NamedIn(f, i + 1) = NamedIn(f, i)
        /\ SettingsOf(f, i + 1) = SettingsOf(f, i)
        /\ C!SectionAt(f, i + 1) = line.sec
        /\ line.sec \notin HeadsOf(f, i)
    BY <1>2, <1>3, HeaderStep
  <1>5. "server" \notin HeadsOf(f, i)
    <2>1. ASSUME NEW j \in 1 .. i, C!IsHeader(f[j]), f[j].sec = "server" PROVE FALSE
      <3>1. j \in DOMAIN f /\ i + 1 \in DOMAIN f
        BY <1>1
      <3>2. C!IsPlain(f[j], "server")
        BY <2>1, <3>1 DEF Mergeable, C!Orderly, C!IsPlain
      <3>3. i + 1 < j
        BY <3>1, <3>2 DEF Mergeable, C!Orderly
      <3> QED
        BY <3>3
    <2> QED
      BY <2>1 DEF HeadsOf
  <1>6. HeadsOf(f, i) = {}
    BY <1>1, <1>2, <1>4, <1>5, HeadsKnown
  <1>7. ClientMerged(mc, acc, line, new) /\ new \in Accumulators
    <2> HIDE DEF line
    <2> QED
      BY <1>2, MergeLineIs
  <1> HIDE DEF line, new
  <1>8. /\ o \in Seq(Lines) /\ acc.client \in BOOLEAN /\ acc.server \in BOOLEAN
        /\ ValidTo(o, Len(o)) /\ SettingsOf(o, Len(o)) = SettingsOf(f, i)
        /\ acc.client = FALSE /\ acc.server = FALSE /\ HeadsOf(o, Len(o)) = {}
        /\ NamedIn(f, i) \subseteq NamedIn(o, Len(o))
    BY <1>6 DEF CarriesOver, Accumulators
  <1> HIDE DEF o
  <1>9. /\ g \in Seq(Lines)
        /\ HeadsOf(g, Len(g)) = HeadsOf(o, Len(o)) \cup {line.sec}
        /\ NamedIn(g, Len(g)) = NamedIn(o, Len(o)) \cup Elements(mc)
        /\ SettingsOf(g, Len(g)) = SettingsOf(o, Len(o))
        /\ C!SectionAt(g, Len(g)) = line.sec
        /\ ValidTo(g, Len(g))
    BY <1>2, <1>8, AddHeaderBlocks
  <1> HIDE DEF g
  <1>10. CarriesOver(f, i + 1, mc, ms, new)
    <2>1. /\ new.out = g /\ new.client \in BOOLEAN /\ new.server \in BOOLEAN
          /\ (new.client <=> mc # <<>>) /\ ~new.server
      BY <1>7, <1>8, Zenon DEF ClientMerged, Accumulators, g, o
    <2>2. HeadsOf(f, i + 1) = {"client"} /\ HeadsOf(g, Len(g)) = {"client"}
      BY <1>2, <1>4, <1>6, <1>8, <1>9
    <2>3. /\ SettingsOf(g, Len(g)) = SettingsOf(f, i + 1)
          /\ C!SectionAt(g, Len(g)) = C!SectionAt(f, i + 1)
          /\ NamedIn(f, i + 1) \subseteq NamedIn(g, Len(g))
          /\ Elements(mc) \subseteq NamedIn(g, Len(g))
      BY <1>4, <1>8, <1>9
    <2> QED
      BY <1>9, <2>1, <2>2, <2>3 DEF CarriesOver
  <1> QED
    BY <1>10 DEF new, line

LEMMA AtServerHeader ==
    ASSUME NEW f, Mergeable(f), NEW i \in Nat, i < Len(f), NEW mc \in Seq(C!Keys),
           NEW ms \in Seq(C!Keys), NEW acc \in Accumulators, CarriesOver(f, i, mc, ms, acc),
           C!IsPlain(f[i + 1], "server")
    PROVE  CarriesOver(f, i + 1, mc, ms, C!MergeLine(mc, ms, acc, f[i + 1]))
  <1> DEFINE line == f[i + 1]
             new == C!MergeLine(mc, ms, acc, line)
             early == IF mc # <<>> /\ ~acc.client THEN C!Section("client", mc) ELSE <<>>
             o == acc.out \o early
             g == o \o <<line>> \o C!Blocks(ms)
  <1>1. /\ f \in Seq(Lines) /\ Len(f) \in Nat
        /\ i + 1 \in 1 .. Len(f) /\ i \in 0 .. Len(f) /\ i + 1 \in 0 .. Len(f)
    BY LenProperties DEF Mergeable
  <1>2. line \in Lines /\ C!IsPlain(line, "server") /\ C!IsHeader(line) /\ line.sec = "server"
    BY <1>1, ElementOfSeq DEF C!IsPlain
  <1>3. ValidTo(f, i + 1)
    BY <1>1, ValidPrefix DEF Mergeable
  <1>4. /\ HeadsOf(f, i + 1) = HeadsOf(f, i) \cup {line.sec}
        /\ NamedIn(f, i + 1) = NamedIn(f, i)
        /\ SettingsOf(f, i + 1) = SettingsOf(f, i)
        /\ C!SectionAt(f, i + 1) = line.sec
        /\ line.sec \notin HeadsOf(f, i)
    BY <1>2, <1>3, HeaderStep
  <1>5. ServerMerged(mc, ms, acc, line, new) /\ new \in Accumulators
    <2> HIDE DEF line
    <2> QED
      BY <1>2, MergeLineIs
  <1>6. /\ o \in Seq(Lines)
        /\ ValidTo(o, Len(o))
        /\ SettingsOf(o, Len(o)) = SettingsOf(f, i)
        /\ HeadsOf(o, Len(o)) \subseteq HeadsOf(f, i) \cup (IF mc # <<>> THEN {"client"} ELSE {})
        /\ NamedIn(f, i) \subseteq NamedIn(o, Len(o))
        /\ Elements(mc) \subseteq NamedIn(o, Len(o))
    <2>1. WithClient(f, i, mc, ms, acc, o)
      BY <1>1, EarlySection
    <2> HIDE DEF o
    <2> QED
      BY <2>1 DEF WithClient
  <1> HIDE DEF line, new, o
  <1>7. /\ acc.client \in BOOLEAN /\ (acc.client => mc # <<>>) /\ acc.server = FALSE
    BY <1>2, <1>4 DEF CarriesOver, Accumulators
  <1>8. line.sec \notin HeadsOf(o, Len(o))
    BY <1>2, <1>4, <1>6
  <1>9. /\ g \in Seq(Lines)
        /\ HeadsOf(g, Len(g)) = HeadsOf(o, Len(o)) \cup {line.sec}
        /\ NamedIn(g, Len(g)) = NamedIn(o, Len(o)) \cup Elements(ms)
        /\ SettingsOf(g, Len(g)) = SettingsOf(o, Len(o))
        /\ C!SectionAt(g, Len(g)) = line.sec
        /\ ValidTo(g, Len(g))
    BY <1>2, <1>6, <1>8, AddHeaderBlocks
  <1> HIDE DEF g
  <1>10. CarriesOver(f, i + 1, mc, ms, new)
    <2>1. /\ new.out = g /\ (new.client <=> mc # <<>>) /\ (new.server <=> ms # <<>>)
      BY <1>5, <1>7, Zenon DEF ServerMerged, g, o
    <2>2. "server" \in HeadsOf(f, i + 1) /\ HeadsOf(f, i + 1) # {}
      BY <1>2, <1>4
    <2>3. HeadsOf(g, Len(g)) \subseteq HeadsOf(f, i + 1) \cup (IF new.client THEN {"client"} ELSE {})
      BY <1>4, <1>6, <1>9, <2>1
    <2>4. /\ SettingsOf(g, Len(g)) = SettingsOf(f, i + 1)
          /\ C!SectionAt(g, Len(g)) = C!SectionAt(f, i + 1)
          /\ NamedIn(f, i + 1) \subseteq NamedIn(g, Len(g))
          /\ Elements(mc) \subseteq NamedIn(g, Len(g))
          /\ Elements(ms) \subseteq NamedIn(g, Len(g))
      BY <1>4, <1>6, <1>9
    <2> QED
      BY <1>9, <2>1, <2>2, <2>3, <2>4 DEF CarriesOver
  <1> QED
    BY <1>10 DEF new, line

LEMMA AtKeyLine ==
    ASSUME NEW f, Mergeable(f), NEW i \in Nat, i < Len(f), NEW mc \in Seq(C!Keys),
           NEW ms \in Seq(C!Keys), NEW acc \in Accumulators, CarriesOver(f, i, mc, ms, acc),
           ~C!IsHeader(f[i + 1])
    PROVE  CarriesOver(f, i + 1, mc, ms, C!MergeLine(mc, ms, acc, f[i + 1]))
  <1> DEFINE line == f[i + 1]
             new == C!MergeLine(mc, ms, acc, line)
             o == acc.out
             g == o \o <<line>>
             n == Len(o)
  <1>1. /\ f \in Seq(Lines) /\ Len(f) \in Nat
        /\ i + 1 \in 1 .. Len(f) /\ i \in 0 .. Len(f) /\ i + 1 \in 0 .. Len(f)
    BY LenProperties DEF Mergeable
  <1>2. line \in Lines /\ ~C!IsHeader(line) /\ line.active \in BOOLEAN
    BY <1>1, ElementOfSeq, LineFacts
  <1>3. ~C!IsPlain(line, "client") /\ ~C!IsPlain(line, "server")
    BY <1>2 DEF C!IsPlain
  <1>4. ValidTo(f, i + 1)
    BY <1>1, ValidPrefix DEF Mergeable
  <1>5. OtherMerged(acc, line, new) /\ new \in Accumulators
    <2> HIDE DEF line
    <2> QED
      BY <1>2, <1>3, MergeLineIs
  <1>6. o \in Seq(Lines) /\ acc.client \in BOOLEAN /\ acc.server \in BOOLEAN
    BY DEF Accumulators
  <1>7. /\ ValidTo(o, n) /\ SettingsOf(o, n) = SettingsOf(f, i)
        /\ C!SectionAt(o, n) = C!SectionAt(f, i)
        /\ HeadsOf(o, n) \subseteq HeadsOf(f, i) \cup (IF acc.client THEN {"client"} ELSE {})
        /\ NamedIn(f, i) \subseteq NamedIn(o, n)
        /\ acc.client <=> mc # <<>> /\ HeadsOf(f, i) # {}
        /\ acc.server <=> ms # <<>> /\ "server" \in HeadsOf(f, i)
        /\ acc.client => Elements(mc) \subseteq NamedIn(o, n)
        /\ acc.server => Elements(ms) \subseteq NamedIn(o, n)
    BY DEF CarriesOver
  <1> HIDE DEF o
  <1>8. /\ g = Append(o, line) /\ g \in Seq(Lines)
        /\ n \in Nat /\ Len(g) = n + 1 /\ g[n + 1] = line
        /\ Alike(g, n, o, n) /\ NamedIn(g, n) = NamedIn(o, n)
    BY <1>2, <1>6, AddLine
  <1>9. new.out = g /\ (new.client <=> acc.client) /\ (new.server <=> acc.server)
    <2> HIDE DEF new, g
    <2> QED
      BY <1>5, <1>8, Zenon DEF OtherMerged, o
  <1> HIDE DEF new, g, n
  <1>10. /\ HeadsOf(g, n) = HeadsOf(o, n) /\ SettingsOf(g, n) = SettingsOf(o, n)
         /\ C!SectionAt(g, n) = C!SectionAt(o, n) /\ ValidTo(g, n)
    BY <1>7, <1>8 DEF Alike
  <1>11. /\ HeadsOf(g, n + 1) = HeadsOf(o, n) /\ HeadsOf(f, i + 1) = HeadsOf(f, i)
         /\ NamedIn(g, n + 1) = NamedIn(o, n) \cup {line.key}
         /\ NamedIn(f, i + 1) = NamedIn(f, i) \cup {line.key}
         /\ SettingsOf(g, n + 1) = SettingsOf(f, i + 1)
         /\ C!SectionAt(g, n + 1) = C!SectionAt(f, i + 1)
         /\ ValidTo(g, n + 1)
    <2>1. CASE line.active
      <3>1. /\ HeadsOf(f, i + 1) = HeadsOf(f, i)
            /\ NamedIn(f, i + 1) = NamedIn(f, i) \cup {line.key}
            /\ SettingsOf(f, i + 1) = SettingsOf(f, i) \cup {<<C!SectionAt(f, i), line.key>>}
            /\ C!SectionAt(f, i + 1) = C!SectionAt(f, i)
            /\ <<C!SectionAt(f, i), line.key>> \notin SettingsOf(f, i)
        BY <1>2, <1>4, <2>1, SettingStep
      <3> HIDE DEF line
      <3>2. /\ HeadsOf(g, n + 1) = HeadsOf(g, n)
            /\ NamedIn(g, n + 1) = NamedIn(g, n) \cup {line.key}
            /\ SettingsOf(g, n + 1) = SettingsOf(g, n) \cup {<<C!SectionAt(g, n), line.key>>}
            /\ C!SectionAt(g, n + 1) = C!SectionAt(g, n)
            /\ ValidTo(g, n + 1) <=> /\ ValidTo(g, n)
                                     /\ <<C!SectionAt(g, n), line.key>> \notin SettingsOf(g, n)
        <4>1. n \in Nat /\ ~C!IsHeader(g[n + 1]) /\ g[n + 1].active
          BY <1>2, <1>8, <2>1
        <4>2. /\ HeadsOf(g, n + 1) = HeadsOf(g, n)
              /\ NamedIn(g, n + 1) = NamedIn(g, n) \cup {g[n + 1].key}
              /\ SettingsOf(g, n + 1) = SettingsOf(g, n) \cup {<<C!SectionAt(g, n), g[n + 1].key>>}
              /\ C!SectionAt(g, n + 1) = C!SectionAt(g, n)
              /\ ValidTo(g, n + 1) <=>
                    ValidTo(g, n) /\ <<C!SectionAt(g, n), g[n + 1].key>> \notin SettingsOf(g, n)
          BY <4>1, SettingStep
        <4> QED
          BY <1>8, <4>2
      <3>3. /\ HeadsOf(g, n + 1) = HeadsOf(o, n)
            /\ NamedIn(g, n + 1) = NamedIn(o, n) \cup {line.key}
            /\ C!SectionAt(g, n + 1) = C!SectionAt(f, i + 1)
        BY <1>7, <1>8, <1>10, <3>1, <3>2
      <3>4. C!SectionAt(g, n) = C!SectionAt(f, i) /\ SettingsOf(g, n) = SettingsOf(f, i)
        BY <1>7, <1>10
      <3>5. SettingsOf(g, n + 1) = SettingsOf(f, i + 1)
        BY <3>1, <3>2, <3>4
      <3>6. ValidTo(g, n + 1)
        BY <1>10, <3>1, <3>2, <3>4
      <3> QED
        BY <3>1, <3>3, <3>5, <3>6
    <2>2. CASE ~line.active
      <3>1. Alike(f, i + 1, f, i) /\ NamedIn(f, i + 1) = NamedIn(f, i) \cup {line.key}
        BY <1>2, <2>2, CommentStep
      <3> HIDE DEF line
      <3>2. Alike(g, n + 1, g, n) /\ NamedIn(g, n + 1) = NamedIn(g, n) \cup {line.key}
        <4>1. n \in Nat /\ ~C!IsHeader(g[n + 1]) /\ ~g[n + 1].active
          BY <1>2, <1>8, <2>2
        <4>2. Alike(g, n + 1, g, n) /\ NamedIn(g, n + 1) = NamedIn(g, n) \cup {g[n + 1].key}
          BY <4>1, CommentStep
        <4> QED
          BY <1>8, <4>2
      <3> QED
        BY <1>7, <1>8, <1>10, <3>1, <3>2 DEF Alike
    <2> QED
      BY <2>1, <2>2
  <1> HIDE DEF line
  <1>12. CarriesOver(f, i + 1, mc, ms, new)
    <2> DEFINE m == Len(g)
    <2>1. /\ HeadsOf(g, m) \subseteq HeadsOf(f, i + 1) \cup (IF new.client THEN {"client"} ELSE {})
          /\ NamedIn(f, i + 1) \subseteq NamedIn(g, m)
          /\ new.client => Elements(mc) \subseteq NamedIn(g, m)
          /\ new.server => Elements(ms) \subseteq NamedIn(g, m)
      BY <1>7, <1>8, <1>9, <1>11
    <2>2. /\ new.client <=> mc # <<>> /\ HeadsOf(f, i + 1) # {}
          /\ new.server <=> ms # <<>> /\ "server" \in HeadsOf(f, i + 1)
      BY <1>7, <1>9, <1>11
    <2>3. /\ SettingsOf(g, m) = SettingsOf(f, i + 1)
          /\ C!SectionAt(g, m) = C!SectionAt(f, i + 1)
          /\ ValidTo(g, m)
      BY <1>8, <1>11
    <2> QED
      BY <1>9, <2>1, <2>2, <2>3 DEF CarriesOver
  <1> QED
    BY <1>12 DEF new, line

LEMMA MergeLineKeeps ==
    ASSUME NEW f, Mergeable(f), NEW i \in Nat, i < Len(f), NEW mc \in Seq(C!Keys),
           NEW ms \in Seq(C!Keys), NEW acc \in Accumulators, CarriesOver(f, i, mc, ms, acc)
    PROVE  CarriesOver(f, i + 1, mc, ms, C!MergeLine(mc, ms, acc, f[i + 1]))
  <1>1. /\ f \in Seq(Lines) /\ DOMAIN f = 1 .. Len(f) /\ i + 1 \in DOMAIN f /\ f[i + 1] \in Lines
    BY LenProperties, ElementOfSeq DEF Mergeable
  <1>2. CASE ~C!IsHeader(f[i + 1])
    BY <1>2, AtKeyLine
  <1>3. CASE C!IsHeader(f[i + 1])
    <2>1. f[i + 1].sec \in {"client", "server"}
      BY <1>1, <1>3, LineFacts
    <2>2. f[i + 1].plain
      BY <1>1, <1>3 DEF Mergeable, C!Orderly
    <2>3. C!IsPlain(f[i + 1], "client") \/ C!IsPlain(f[i + 1], "server")
      BY <1>3, <2>1, <2>2 DEF C!IsPlain
    <2> QED
      BY <2>3, AtClientHeader, AtServerHeader
  <1> QED
    BY <1>2, <1>3

\* The loop as a recursive function.
Merges(g, f, mc, ms, n) ==
    g = [i \in 0 .. n |-> IF i = 0 THEN [out |-> <<>>, client |-> FALSE, server |-> FALSE]
                          ELSE C!MergeLine(mc, ms, g[i - 1], f[i])]

LEMMA MergesExist ==
    ASSUME NEW f, NEW mc, NEW ms
    PROVE  \A n \in Nat : \E g : Merges(g, f, mc, ms, n)
  <1> DEFINE T == {n \in Nat : ~\E g : Merges(g, f, mc, ms, n)}
             start == [out |-> <<>>, client |-> FALSE, server |-> FALSE]
  <1> HIDE DEF start
  <1>0. \A g, n : Merges(g, f, mc, ms, n) <=>
            g = [i \in 0 .. n |-> IF i = 0 THEN start ELSE C!MergeLine(mc, ms, g[i - 1], f[i])]
    BY Zenon DEF Merges, start
  <1>1. ASSUME NEW x \in T PROVE FALSE
    <2>1. PICK n \in T : \A j \in T : n <= j
      BY <1>1, LeastNumber
    <2>2. n # 0
      <3> DEFINE g == [i \in 0 .. 0 |-> start]
      <3>0. g = [i \in 0 .. 0 |-> IF i = 0 THEN start ELSE C!MergeLine(mc, ms, g[i - 1], f[i])]
        OBVIOUS
      <3>1. Merges(g, f, mc, ms, 0)
        BY <1>0, <3>0
      <3> QED
        BY <2>1, <3>1
    <2>3. n \in Nat /\ n - 1 \in Nat /\ n - 1 \notin T
      BY <2>1, <2>2
    <2>4. PICK g : Merges(g, f, mc, ms, n - 1)
      BY <2>3
    <2> DEFINE h == [i \in 0 .. n |-> IF i < n THEN g[i] ELSE C!MergeLine(mc, ms, g[n - 1], f[n])]
    <2>5. ASSUME NEW i \in 0 .. n
          PROVE  h[i] = IF i = 0 THEN start ELSE C!MergeLine(mc, ms, h[i - 1], f[i])
      <3>1. CASE i = n
        BY <2>2, <2>3, <3>1
      <3>2. CASE i < n
        <4>1. i \in 0 .. (n - 1)
          BY <2>3, <3>2
        <4>2. g[i] = IF i = 0 THEN start ELSE C!MergeLine(mc, ms, g[i - 1], f[i])
          BY <1>0, <2>4, <4>1
        <4>3. h[i] = g[i] /\ (i # 0 => h[i - 1] = g[i - 1])
          BY <2>3, <3>2
        <4> QED
          BY <4>2, <4>3
      <3> QED
        BY <2>3, <3>1, <3>2
    <2>6. Merges(h, f, mc, ms, n)
      BY <1>0, <2>5
    <2> QED
      BY <2>1, <2>6
  <1> QED
    BY <1>1

LEMMA NothingInNone ==
    ASSUME NEW f
    PROVE  /\ HeadsOf(f, 0) = {} /\ NamedIn(f, 0) = {} /\ SettingsOf(f, 0) = {}
           /\ C!SectionAt(f, 0) = "" /\ ValidTo(f, 0)
  <1>1. 1 .. 0 = {}
    OBVIOUS
  <1>2. HeadsOf(f, 0) = {} /\ NamedIn(f, 0) = {} /\ ActiveIn(f, 0) = {}
    BY <1>1 DEF HeadsOf, NamedIn, ActiveIn
  <1>3. SettingsOf(f, 0) = {} /\ ValidTo(f, 0)
    BY <1>1, <1>2 DEF SettingsOf, ValidTo
  <1>4. 0 \in Nat
    OBVIOUS
  <1>5. C!SectionAt(f, 0) = ""
    BY <1>4, SectionStep
  <1> QED
    BY <1>2, <1>3, <1>5

LEMMA MergesKeep ==
    ASSUME NEW f \in Seq(Lines), NEW mc \in Seq(C!Keys), NEW ms \in Seq(C!Keys),
           NEW g, Merges(g, f, mc, ms, Len(f))
    PROVE  /\ g[Len(f)] \in Accumulators
           /\ Mergeable(f) => CarriesOver(f, Len(f), mc, ms, g[Len(f)])
  <1> DEFINE n == Len(f)
             Holds(k) == g[k] \in Accumulators /\ (Mergeable(f) => CarriesOver(f, k, mc, ms, g[k]))
             T == {k \in 0 .. n : ~Holds(k)}
  <1>1. n \in Nat
    BY LenProperties
  <1>2. Holds(0)
    <2> DEFINE acc == [out |-> <<>>, client |-> FALSE, server |-> FALSE]
    <2>1. g[0] = acc
      <3>1. 0 \in 0 .. n
        BY <1>1
      <3> QED
        BY <3>1 DEF Merges
    <2>2. acc.out = <<>> /\ acc.client = FALSE /\ acc.server = FALSE
      OBVIOUS
    <2>3. acc \in Accumulators
      BY DEF Accumulators
    <2>4. Len(<<>>) = 0
      OBVIOUS
    <2>5. \A x : /\ HeadsOf(x, 0) = {} /\ NamedIn(x, 0) = {} /\ SettingsOf(x, 0) = {}
                 /\ C!SectionAt(x, 0) = "" /\ ValidTo(x, 0)
      BY NothingInNone
    <2> HIDE DEF acc
    <2>6. CarriesOver(f, 0, mc, ms, acc)
      BY <2>2, <2>4, <2>5 DEF CarriesOver
    <2> QED
      BY <2>1, <2>3, <2>6
  <1>3. ASSUME NEW k \in 1 .. n, Holds(k - 1) PROVE Holds(k)
    <2>1. k \in 0 .. n /\ k # 0 /\ k - 1 \in Nat /\ k - 1 < Len(f) /\ (k - 1) + 1 = k
      BY <1>1
    <2>2. g[k] = C!MergeLine(mc, ms, g[k - 1], f[k])
      BY <2>1 DEF Merges
    <2>3. f[k] \in Lines
      BY ElementOfSeq
    <2>4. g[k] \in Accumulators
      BY <1>3, <2>2, <2>3, MergeLineIs
    <2>5. ASSUME Mergeable(f) PROVE CarriesOver(f, k, mc, ms, g[k])
      <3> DEFINE i == k - 1
      <3>1. i \in Nat /\ i < Len(f) /\ i + 1 = k
        BY <2>1
      <3>2. CarriesOver(f, i, mc, ms, g[i]) /\ g[i] \in Accumulators
        BY <1>3, <2>5
      <3> HIDE DEF i
      <3>3. CarriesOver(f, i + 1, mc, ms, C!MergeLine(mc, ms, g[i], f[i + 1]))
        BY <2>5, <3>1, <3>2, MergeLineKeeps
      <3> QED
        BY <2>2, <3>1, <3>3 DEF i
    <2> QED
      BY <2>4, <2>5
  <1> HIDE DEF Holds
  <1>4. ASSUME n \in T PROVE FALSE
    <2>1. T \in SUBSET Nat /\ T # {}
      BY <1>1, <1>4
    <2>2. PICK k \in T : \A j \in T : k <= j
      BY <2>1, LeastNumber
    <2>3. k # 0
      BY <1>2, <2>2
    <2>4. k \in 1 .. n /\ k - 1 \in 0 .. n /\ k - 1 \notin T
      BY <1>1, <2>2, <2>3
    <2>5. Holds(k - 1)
      BY <2>4
    <2>6. Holds(k)
      BY <1>3, <2>4, <2>5
    <2> QED
      BY <2>2, <2>6
  <1>5. Holds(n)
    BY <1>1, <1>4
  <1> QED
    BY <1>5 DEF Holds

\* The merged file, from the loop's last result.
LEMMA MergeDefaultsIs ==
    ASSUME NEW f \in Seq(Lines)
    PROVE  \E g : LET mc == C!MissingOf(f, ClientKeys)
                      ms == C!MissingOf(f, ServerKeys)
                      all == g[Len(f)]
                  IN  /\ Merges(g, f, mc, ms, Len(f))
                      /\ C!MergeDefaults(f) =
                            all.out
                              \o (IF mc # <<>> /\ ~all.client THEN C!Section("client", mc) ELSE <<>>)
                              \o (IF ms # <<>> /\ ~all.server THEN C!Section("server", ms) ELSE <<>>)
  <1> DEFINE mc == C!MissingOf(f, ClientKeys)
             ms == C!MissingOf(f, ServerKeys)
             g == CHOOSE x : Merges(x, f, mc, ms, Len(f))
  <1>1. Merges(g, f, mc, ms, Len(f))
    <2>1. Len(f) \in Nat
      BY LenProperties
    <2>2. \E x : Merges(x, f, mc, ms, Len(f))
      BY <2>1, MergesExist
    <2> HIDE DEF mc, ms
    <2> QED
      BY <2>2
  <1>2. C!MergeDefaults(f) =
            g[Len(f)].out
              \o (IF mc # <<>> /\ ~g[Len(f)].client THEN C!Section("client", mc) ELSE <<>>)
              \o (IF ms # <<>> /\ ~g[Len(f)].server THEN C!Section("server", ms) ELSE <<>>)
    BY Zenon DEF C!MergeDefaults, Merges
  <1> HIDE DEF g
  <1> QED
    BY <1>1, <1>2

LEMMA SectionLines ==
    ASSUME NEW t \in Seq(C!Keys), NEW sec \in {"client", "server"}
    PROVE  C!Section(sec, t) \in Seq(Lines)
  <1> DEFINE h == C!Header(sec, TRUE)
  <1>1. h \in Lines
    BY HeaderLine
  <1>2. C!Section(sec, t) = <<h>> \o C!Blocks(t) /\ C!Blocks(t) \in Seq(Lines)
    BY BlocksFacts DEF C!Section
  <1> HIDE DEF h
  <1>3. <<h>> \in Seq(Lines)
    BY <1>1
  <1> QED
    BY <1>2, <1>3, ConcatFacts

\* What merging a file is to give.
Merged(f, g) ==
    /\ ValidTo(g, Len(g))
    /\ SettingsOf(g, Len(g)) = SettingsOf(f, Len(f))
    /\ C!Keys \subseteq NamedIn(g, Len(g))

LEMMA MergeDefaultsMerges ==
    ASSUME NEW f \in Seq(Lines)
    PROVE  /\ C!MergeDefaults(f) \in Seq(Lines)
           /\ Mergeable(f) => Merged(f, C!MergeDefaults(f))
  <1> DEFINE mc == C!MissingOf(f, ClientKeys)
             ms == C!MissingOf(f, ServerKeys)
             n == Len(f)
  <1>1. /\ mc \in Seq(C!Keys) /\ Elements(mc) = Elements(ClientKeys) \ NamedIn(f, n)
        /\ ms \in Seq(C!Keys) /\ Elements(ms) = Elements(ServerKeys) \ NamedIn(f, n)
    BY MissingFacts, ConfigConstants
  <1>2. PICK loop : /\ Merges(loop, f, mc, ms, n)
                    /\ C!MergeDefaults(f) =
                        loop[n].out
                          \o (IF mc # <<>> /\ ~loop[n].client THEN C!Section("client", mc) ELSE <<>>)
                          \o (IF ms # <<>> /\ ~loop[n].server THEN C!Section("server", ms) ELSE <<>>)
    BY MergeDefaultsIs
  <1> HIDE DEF mc, ms
  <1>3. n \in Nat /\ n \in 0 .. Len(f)
    BY LenProperties
  <1>4. loop[n] \in Accumulators /\ (Mergeable(f) => CarriesOver(f, n, mc, ms, loop[n]))
    BY <1>1, <1>2, MergesKeep
  <1> DEFINE acc == loop[n]
             early == IF mc # <<>> /\ ~acc.client THEN C!Section("client", mc) ELSE <<>>
             late == IF ms # <<>> /\ ~acc.server THEN C!Section("server", ms) ELSE <<>>
             o == acc.out \o early
             g == o \o late
  <1>5. acc.out \in Seq(Lines) /\ acc.client \in BOOLEAN /\ acc.server \in BOOLEAN
    BY <1>4 DEF Accumulators
  <1>6. early \in Seq(Lines) /\ late \in Seq(Lines)
    <2>1. C!Section("client", mc) \in Seq(Lines) /\ C!Section("server", ms) \in Seq(Lines)
      BY <1>1, SectionLines
    <2>2. <<>> \in Seq(Lines)
      OBVIOUS
    <2> HIDE DEF acc
    <2> QED
      BY <2>1, <2>2
  <1>7. C!MergeDefaults(f) = g
    BY <1>2
  <1> HIDE DEF early, late, n
  <1>8. o \in Seq(Lines)
    BY <1>5, <1>6, ConcatFacts
  <1>9. g \in Seq(Lines)
    <2> HIDE DEF o
    <2> QED
      BY <1>6, <1>8, ConcatFacts
  <1>10. ASSUME Mergeable(f) PROVE Merged(f, g)
    <2>1. CarriesOver(f, n, mc, ms, acc) /\ acc \in Accumulators
      BY <1>4, <1>10
    <2> HIDE DEF acc
    <2>2. /\ ValidTo(o, Len(o))
          /\ SettingsOf(o, Len(o)) = SettingsOf(f, n)
          /\ HeadsOf(o, Len(o)) \subseteq HeadsOf(f, n) \cup (IF mc # <<>> THEN {"client"} ELSE {})
          /\ NamedIn(f, n) \subseteq NamedIn(o, Len(o))
          /\ Elements(mc) \subseteq NamedIn(o, Len(o))
          /\ acc.server => Elements(ms) \subseteq NamedIn(o, Len(o))
      <3>1. mc \in Seq(C!Keys) /\ n \in 0 .. Len(f)
        BY <1>1, <1>3
      <3>2. WithClient(f, n, mc, ms, acc, o)
        BY <2>1, <3>1, EarlySection DEF early
      <3> HIDE DEF o
      <3> QED
        BY <3>2 DEF WithClient
    <2>3. acc.server <=> ms # <<>> /\ "server" \in HeadsOf(f, n)
      BY <2>1 DEF CarriesOver
    <2> HIDE DEF o
    <2>4. /\ ValidTo(g, Len(g))
          /\ SettingsOf(g, Len(g)) = SettingsOf(o, Len(o))
          /\ NamedIn(o, Len(o)) \subseteq NamedIn(g, Len(g))
          /\ Elements(ms) \subseteq NamedIn(g, Len(g))
      <3>1. CASE ms # <<>> /\ ~acc.server
        <4>1. late = C!Section("server", ms)
          BY <3>1 DEF late
        <4>2. "server" \notin HeadsOf(o, Len(o))
          BY <2>2, <2>3, <3>1
        <4>3. LET x == o \o C!Section("server", ms) IN
              /\ NamedIn(x, Len(x)) = NamedIn(o, Len(o)) \cup Elements(ms)
              /\ SettingsOf(x, Len(x)) = SettingsOf(o, Len(o))
              /\ ValidTo(x, Len(x))
          BY <1>1, <1>8, <2>2, <4>2, AddSection
        <4>4. /\ NamedIn(g, Len(g)) = NamedIn(o, Len(o)) \cup Elements(ms)
              /\ SettingsOf(g, Len(g)) = SettingsOf(o, Len(o))
              /\ ValidTo(g, Len(g))
          BY <4>1, <4>3
        <4> HIDE DEF g
        <4> QED
          BY <4>4
      <3>2. CASE ~(ms # <<>> /\ ~acc.server)
        <4>1. late = <<>>
          BY <3>2 DEF late
        <4>2. o \o <<>> = o
          BY <1>8, ConcatEmptySeq
        <4>3. g = o
          BY <4>1, <4>2
        <4>4. Elements(ms) \subseteq NamedIn(o, Len(o))
          <5>1. ms = <<>> => Elements(ms) = {}
            BY <1>1, ElementsNone
          <5> QED
            BY <2>2, <3>2, <5>1
        <4> HIDE DEF g
        <4> QED
          BY <2>2, <4>3, <4>4
      <3> QED
        BY <3>1, <3>2
    <2> HIDE DEF g
    <2>5. C!Keys \subseteq NamedIn(g, Len(g))
      <3>1. C!Keys = Elements(ClientKeys) \cup Elements(ServerKeys)
        BY ConfigConstants
      <3> QED
        BY <1>1, <2>2, <2>4, <3>1
    <2> QED
      BY <2>2, <2>4, <2>5 DEF Merged, n
  <1> QED
    BY <1>7, <1>9, <1>10

\* The default file, which a merge creates where there is none.
LEMMA DefaultMerges ==
    /\ C!DefaultConfig \in Seq(Lines)
    /\ Merged(<<>>, C!DefaultConfig)
  <1> DEFINE o == C!Section("client", ClientKeys)
             h == C!Header("server", TRUE)
             b == C!Blocks(ServerKeys)
             late == C!Section("server", ServerKeys)
             g == o \o late
  <1>1. ClientKeys \in Seq(C!Keys) /\ ServerKeys \in Seq(C!Keys)
    BY ConfigConstants
  <1>2. o \in Seq(Lines) /\ late \in Seq(Lines)
    BY <1>1, SectionLines
  <1>3. C!DefaultConfig = g
    <2>1. C!DefaultConfig = o \o <<h>> \o b
      BY DEF C!DefaultConfig, C!Section
    <2>2. late = <<h>> \o b
      BY DEF C!Section
    <2>3. h \in Lines /\ b \in Seq(Lines)
      BY <1>1, HeaderLine, BlocksFacts
    <2> HIDE DEF o, h, b, late
    <2>4. o \in Seq(Lines) /\ <<h>> \in Seq(Lines) /\ b \in Seq(Lines)
      BY <1>2, <2>3
    <2>5. o \o (<<h>> \o b) = (o \o <<h>>) \o b
      BY <2>4, ConcatAssociative
    <2> QED
      BY <2>1, <2>2, <2>5
  <1>4. /\ ValidTo(o, Len(o)) /\ SettingsOf(o, Len(o)) = {} /\ HeadsOf(o, Len(o)) = {"client"}
        /\ NamedIn(o, Len(o)) = Elements(ClientKeys)
    <2> DEFINE e == <<>>
    <2>1. e \in Seq(Lines) /\ Len(e) = 0
      OBVIOUS
    <2> HIDE DEF e
    <2>2. /\ HeadsOf(e, Len(e)) = {} /\ NamedIn(e, Len(e)) = {} /\ SettingsOf(e, Len(e)) = {}
          /\ ValidTo(e, Len(e))
      BY <2>1, NothingInNone
    <2>3. LET x == e \o C!Section("client", ClientKeys) IN
           /\ HeadsOf(x, Len(x)) = HeadsOf(e, Len(e)) \cup {"client"}
           /\ NamedIn(x, Len(x)) = NamedIn(e, Len(e)) \cup Elements(ClientKeys)
           /\ SettingsOf(x, Len(x)) = SettingsOf(e, Len(e))
           /\ ValidTo(x, Len(x))
      BY <1>1, <2>1, <2>2, AddSection
    <2>4. e \o C!Section("client", ClientKeys) = o
      <3> HIDE DEF o
      <3>1. <<>> \o o = o
        BY <1>2, ConcatEmptySeq
      <3> QED
        BY <3>1 DEF e, o
    <2> QED
      BY <2>2, <2>3, <2>4
  <1> HIDE DEF o
  <1>5. /\ g \in Seq(Lines)
        /\ NamedIn(g, Len(g)) = NamedIn(o, Len(o)) \cup Elements(ServerKeys)
        /\ SettingsOf(g, Len(g)) = SettingsOf(o, Len(o))
        /\ ValidTo(g, Len(g))
    <2>1. "server" \notin HeadsOf(o, Len(o))
      BY <1>4
    <2> QED
      BY <1>1, <1>2, <1>4, <2>1, AddSection
  <1> HIDE DEF g
  <1>6. SettingsOf(<<>>, Len(<<>>)) = {}
    <2>1. Len(<<>>) = 0
      OBVIOUS
    <2> QED
      BY <2>1, NothingInNone
  <1>7. C!Keys = Elements(ClientKeys) \cup Elements(ServerKeys)
    BY ConfigConstants
  <1>8. Merged(<<>>, g)
    BY <1>4, <1>5, <1>6, <1>7 DEF Merged
  <1> QED
    BY <1>3, <1>5, <1>8

\* The properties' own words for the settings and for a valid file.
LEMMA LoadFacts ==
    ASSUME NEW f \in Seq(Lines)
    PROVE  /\ C!Valid(f) <=> ValidTo(f, Len(f))
           /\ C!Load(f) = IF ValidTo(f, Len(f)) THEN SettingsOf(f, Len(f)) ELSE {}
  <1>1. DOMAIN f = 1 .. Len(f)
    BY LenProperties
  <1>2. C!Active(f) = ActiveIn(f, Len(f))
    BY <1>1 DEF C!Active, ActiveIn
  <1>3. C!Valid(f) <=> ValidTo(f, Len(f))
    BY <1>1, <1>2 DEF C!Valid, ValidTo
  <1>4. C!Load(f) = IF ValidTo(f, Len(f)) THEN SettingsOf(f, Len(f)) ELSE {}
    BY <1>2, <1>3 DEF C!Load, SettingsOf
  <1> QED
    BY <1>3, <1>4

LEMMA StepOfConfig == [Next]_vars => [C!Next]_(C!vars)
  <1> SUFFICES ASSUME [Next]_vars PROVE [C!Next]_(C!vars)
    OBVIOUS
  <1>1. ASSUME Config PROVE C!Next
    BY <1>1 DEF Config
  <1>2. ASSUME ~Config PROVE UNCHANGED cVars
    BY <1>2 DEF Next, vars, History, Escape, Frames, Display, Udp, Bootstrap
  <1> QED
    BY <1>1, <1>2 DEF C!vars, cVars

\* The file's lines, which what a merge gives is stated over, and what it gave.
ConfigInv ==
    /\ file \in Seq(Lines) /\ edits \in 0 .. MaxEdits /\ last \in {"edit", "write", "merge"}
    /\ C!MergeKeepsSettings

LEMMA MergeStep ==
    ASSUME file \in Seq(Lines), C!MergeConfig
    PROVE  file' \in Seq(Lines) /\ C!MergeKeepsSettings'
  <1> DEFINE n == Len(file)
  <1>1. /\ before' = file /\ last' = "merge"
        /\ file' = IF file = <<>> THEN C!DefaultConfig
                   ELSE IF C!Missing(file) = <<>> THEN file ELSE C!MergeDefaults(file)
    BY DEF C!MergeConfig
  <1>2. file' \in Seq(Lines)
    BY <1>1, DefaultMerges, MergeDefaultsMerges
  <1>3. ASSUME C!Valid(file), C!Orderly(file)
        PROVE  C!Valid(file') /\ C!Load(file') = C!Load(file) /\ C!Missing(file') = <<>>
    <2>1. Mergeable(file) /\ ValidTo(file, n)
      BY <1>3, LoadFacts DEF Mergeable
    <2>2. Merged(file, file')
      <3>1. CASE file = <<>>
        BY <1>1, <3>1, DefaultMerges
      <3>2. CASE file # <<>> /\ C!Missing(file) = <<>>
        <4>1. file' = file
          BY <1>1, <3>2
        <4>2. C!Keys \subseteq NamedIn(file, n)
          BY <3>2, NoneMissing
        <4> QED
          BY <2>1, <4>1, <4>2 DEF Merged
      <3>3. CASE file # <<>> /\ C!Missing(file) # <<>>
        <4>1. file' = C!MergeDefaults(file)
          BY <1>1, <3>3
        <4> QED
          BY <2>1, <4>1, MergeDefaultsMerges
      <3> QED
        BY <3>1, <3>2, <3>3
    <2>3. /\ ValidTo(file', Len(file'))
          /\ SettingsOf(file', Len(file')) = SettingsOf(file, n)
          /\ C!Keys \subseteq NamedIn(file', Len(file'))
      BY <2>2 DEF Merged
    <2>4. C!Valid(file') /\ C!Load(file') = SettingsOf(file', Len(file'))
      BY <1>2, <2>3, LoadFacts
    <2>5. C!Load(file) = SettingsOf(file, n)
      BY <2>1, LoadFacts
    <2>6. C!Missing(file') = <<>>
      BY <1>2, <2>3, NoneMissing
    <2> QED
      BY <2>3, <2>4, <2>5, <2>6
  <1> QED
    BY <1>1, <1>2, <1>3 DEF C!MergeKeepsSettings

LEMMA ConfigInvariance == Spec => []ConfigInv
  <1>1. Init => ConfigInv
    <2> SUFFICES ASSUME Init PROVE ConfigInv
      OBVIOUS
    <2>1. file = <<>> /\ edits = 0 /\ last = "edit"
      BY DEF Init, C!Init
    <2>2. <<>> \in Seq(Lines)
      OBVIOUS
    <2> QED
      BY <2>1, <2>2, ConfigConstants DEF ConfigInv, C!MergeKeepsSettings
  <1>2. ConfigInv /\ [Next]_vars => ConfigInv'
    <2> SUFFICES ASSUME ConfigInv, [Next]_vars PROVE ConfigInv'
      OBVIOUS
    <2>1. ASSUME NEW line \in C!Headers \cup C!KeyLines, C!Edit(line) PROVE ConfigInv'
      <3>1. line \in Lines
        BY DEF Lines
      <3>2. file' = Append(file, line) /\ edits' = edits + 1 /\ last' = "edit" /\ edits < MaxEdits
        BY <2>1 DEF C!Edit
      <3>3. file' \in Seq(Lines)
        BY <3>1, <3>2, AppendProperties DEF ConfigInv
      <3>4. edits' \in 0 .. MaxEdits
        BY <3>2, ConfigConstants DEF ConfigInv
      <3> QED
        BY <3>2, <3>3, <3>4 DEF ConfigInv, C!MergeKeepsSettings
    <2>2. CASE C!WriteConfig
      <3>1. file' = C!DefaultConfig /\ edits' = edits /\ last' = "write"
        BY <2>2 DEF C!WriteConfig
      <3> QED
        BY <3>1, DefaultMerges DEF ConfigInv, C!MergeKeepsSettings
    <2>3. CASE C!MergeConfig
      <3>1. edits' = edits /\ last' = "merge"
        BY <2>3 DEF C!MergeConfig
      <3>2. file' \in Seq(Lines) /\ C!MergeKeepsSettings'
        BY <2>3, MergeStep DEF ConfigInv
      <3> QED
        BY <3>1, <3>2 DEF ConfigInv
    <2>4. CASE UNCHANGED C!vars
      <3>1. file' = file /\ edits' = edits /\ last' = last /\ before' = before
        BY <2>4 DEF C!vars
      <3>2. C!MergeKeepsSettings'
        BY <3>1 DEF ConfigInv, C!MergeKeepsSettings
      <3> QED
        BY <3>1, <3>2 DEF ConfigInv
    <2> QED
      BY <2>1, <2>2, <2>3, <2>4, StepOfConfig DEF C!Next
  <1> QED
    BY <1>1, <1>2, PTL DEF Spec

\* For all lists of keys and every file a user may write: etr --merge-config on a
\* file that is valid, with plain headers and [client] before [server], leaves the
\* same settings in force in the same sections, every key named, and so nothing
\* for a second merge to add.
THEOREM MergeKeepsTheSettings == Spec => []MergeKeepsSettings
  <1>1. ConfigInv => MergeKeepsSettings
    BY DEF ConfigInv, MergeKeepsSettings
  <1> QED
    BY <1>1, ConfigInvariance, PTL
-----------------------------------------------------------------------------
(* The types of every component, and the address that etr dials.           *)

Families == {"v4", "v6"}

\* OfFamilies keeps the addresses of the given families.
LEMMA OfFamiliesFacts ==
    ASSUME NEW as \in Seq(Families), NEW families
    PROVE  /\ S!OfFamilies(as, families) \in Seq(Families)
           /\ Elements(S!OfFamilies(as, families)) = Elements(as) \cap families
  <1> DEFINE n == Len(as)
             keep == {i \in 1 .. n : as[i] \in families}
             Def(g) == g = [i \in 0 .. n |-> IF i = 0 THEN <<>>
                                             ELSE IF as[i] \in families THEN Append(g[i - 1], as[i])
                                             ELSE g[i - 1]]
  <1>1. n \in Nat
    BY LenProperties
  <1>2. ASSUME NEW g PROVE Def(g) <=> Filters(g, as, keep, n)
    <2> DEFINE A == [i \in 0 .. n |-> IF i = 0 THEN <<>>
                                      ELSE IF as[i] \in families THEN Append(g[i - 1], as[i])
                                      ELSE g[i - 1]]
               B == [i \in 0 .. n |-> IF i = 0 THEN <<>>
                                      ELSE IF i \in keep THEN Append(g[i - 1], as[i])
                                      ELSE g[i - 1]]
    <2>1. \A i \in 0 .. n : i # 0 => (i \in keep <=> as[i] \in families)
      <3> HIDE DEF n
      <3>1. \A i \in 0 .. n : i # 0 => i \in 1 .. n
        BY <1>1
      <3> QED
        BY <3>1
    <2>2. A = B
      <3> HIDE DEF keep, n
      <3> QED
        BY <2>1
    <2> QED
      BY <2>2 DEF Filters
  <1>3. S!OfFamilies(as, families) = (CHOOSE g : Def(g))[n]
    BY DEF S!OfFamilies
  <1>4. PICK g : g = (CHOOSE x : Def(x)) /\ Filters(g, as, keep, n)
    <2> HIDE DEF Def, keep, n
    <2>1. \E x : Def(x)
      BY <1>1, <1>2, FiltersExist
    <2>2. Def(CHOOSE x : Def(x))
      BY <2>1
    <2> QED
      BY <1>2, <2>2
  <1>5. {as[i] : i \in {j \in 1 .. n : j \in keep}} = Elements(as) \cap families
    BY DEF Elements
  <1> HIDE DEF Def, keep
  <1>6. /\ g[n] \in Seq(Families)
        /\ Elements(g[n]) = {as[i] : i \in {j \in 1 .. n : j \in keep}}
    BY <1>4, FilteredElements
  <1> QED
    BY <1>3, <1>4, <1>5, <1>6

\* order_by_family loses no address and adds none.
LEMMA OrderFacts ==
    ASSUME NEW as \in Seq(Families), NEW pref \in S!Prefs
    PROVE  /\ S!OrderByFamily(as, pref) \in Seq(Families)
           /\ Elements(S!OrderByFamily(as, pref)) = Elements(as)
  <1>1. CASE pref = "auto"
    BY <1>1 DEF S!OrderByFamily
  <1>2. CASE pref # "auto"
    <2> DEFINE s == S!OfFamilies(as, {pref})
               t == S!OfFamilies(as, {"v4", "v6"} \ {pref})
    <2>1. /\ s \in Seq(Families) /\ Elements(s) = Elements(as) \cap {pref}
          /\ t \in Seq(Families) /\ Elements(t) = Elements(as) \cap ({"v4", "v6"} \ {pref})
      BY OfFamiliesFacts
    <2>2. S!OrderByFamily(as, pref) = s \o t
      BY <1>2 DEF S!OrderByFamily
    <2> HIDE DEF s, t
    <2>3. /\ s \o t \in Seq(Families) /\ Len(s) \in Nat /\ Len(t) \in Nat
          /\ Len(s \o t) = Len(s) + Len(t)
          /\ \A i \in 1 .. Len(s) : (s \o t)[i] = s[i]
          /\ \A i \in 1 .. Len(t) : (s \o t)[Len(s) + i] = t[i]
      BY <2>1, ConcatFacts
    <2>4. Elements(s \o t) = Elements(s) \cup Elements(t)
      <3> DEFINE u == s \o t
      <3> HIDE DEF u
      <3>1. ASSUME NEW i \in 1 .. Len(u) PROVE u[i] \in Elements(s) \cup Elements(t)
        <4>1. CASE i \in 1 .. Len(s)
          BY <2>3, <4>1 DEF Elements, u
        <4>2. CASE i \notin 1 .. Len(s)
          <5>1. i - Len(s) \in 1 .. Len(t) /\ Len(s) + (i - Len(s)) = i
            BY <2>3, <4>2 DEF u
          <5>2. u[i] = t[i - Len(s)]
            BY <2>3, <5>1 DEF u
          <5> QED
            BY <5>1, <5>2 DEF Elements
        <4> QED
          BY <4>1, <4>2
      <3>2. ASSUME NEW i \in 1 .. Len(s) PROVE s[i] \in Elements(u)
        <4>1. i \in 1 .. Len(u) /\ u[i] = s[i]
          BY <2>3 DEF u
        <4> QED
          BY <4>1 DEF Elements
      <3>3. ASSUME NEW i \in 1 .. Len(t) PROVE t[i] \in Elements(u)
        <4>1. Len(s) + i \in 1 .. Len(u) /\ u[Len(s) + i] = t[i]
          BY <2>3 DEF u
        <4> QED
          BY <4>1 DEF Elements
      <3>4. Elements(u) \subseteq Elements(s) \cup Elements(t)
        BY <3>1 DEF Elements
      <3>5. Elements(s) \subseteq Elements(u) /\ Elements(t) \subseteq Elements(u)
        <4>1. \A e \in Elements(s) : \E i \in 1 .. Len(s) : e = s[i]
          BY DEF Elements
        <4>2. \A e \in Elements(t) : \E i \in 1 .. Len(t) : e = t[i]
          BY DEF Elements
        <4> QED
          BY <3>2, <3>3, <4>1, <4>2
      <3> QED
        BY <3>4, <3>5 DEF u
    <2>5. Elements(as) \subseteq Families
      BY ElementOfSeq DEF Elements
    <2> QED
      BY <2>1, <2>2, <2>3, <2>4, <2>5 DEF Families
  <1> QED
    BY <1>1, <1>2

\* An address of the target, and one with a route if it has such an address.
Usable(a) == a \in Elements(addrs) /\ (Elements(addrs) \cap routes # {} => a \in routes)

LEMMA ResolvedIsUsable ==
    ASSUME addrs \in Seq(Families), addrs # <<>>, NEW pref \in S!Prefs
    PROVE  Usable(S!ResolvePreferred(addrs, pref))
  <1> DEFINE ordered == S!OrderByFamily(addrs, pref)
             routable == S!OfFamilies(ordered, routes)
  <1>1. ordered \in Seq(Families) /\ Elements(ordered) = Elements(addrs)
    BY OrderFacts
  <1>2. S!ResolvePreferred(addrs, pref) = IF routable # <<>> THEN routable[1] ELSE ordered[1]
    BY DEF S!ResolvePreferred
  <1> HIDE DEF ordered
  <1>3. routable \in Seq(Families) /\ Elements(routable) = Elements(addrs) \cap routes
    BY <1>1, OfFamiliesFacts
  <1> HIDE DEF routable
  <1>4. ASSUME NEW s \in Seq(Families), s # <<>> PROVE s[1] \in Elements(s)
    <2>1. Len(s) \in Nat /\ Len(s) # 0
      BY <1>4, EmptySeq, LenProperties
    <2>2. 1 \in 1 .. Len(s)
      BY <2>1
    <2> QED
      BY <2>2 DEF Elements
  <1>5. ordered # <<>>
    BY <1>1, ElementsNone
  <1>6. CASE routable # <<>>
    BY <1>2, <1>3, <1>4, <1>6 DEF Usable
  <1>7. CASE routable = <<>>
    <2>1. Elements(addrs) \cap routes = {}
      BY <1>3, <1>7, ElementsNone
    <2> QED
      BY <1>1, <1>2, <1>4, <1>5, <1>7, <2>1 DEF Usable
  <1> QED
    BY <1>6, <1>7

\* What every process of the bootstrap may be at, and what etr dials.
BootStates ==
    /\ addrs \in Seq(Families) /\ ask \in Asks
    /\ client \in {"off", "check", "write", "wait", "x11", "resolve", "dial"} \cup S!GaveUp
    /\ subject = "startup" => client # "off"
    /\ ssh \in {"none", "connecting", "up", "lost", "failed", "unreachable", "done"}
    /\ server \in {"none", "read", "parent", "exit0", "exit1"}
    /\ addr \in {"none", "v4", "v6"}
    /\ client = "dial" => Usable(addr)

LEMMA BootStatesStep ==
    ASSUME BootStates, S!Next, subject' = subject
    PROVE  BootStates'
  <1> USE DEF S!inputs, S!wires, S!Fail, S!GaveUp
  <1>1. ASSUME UNCHANGED <<addrs, ask, routes, addr>>,
               client' \in {"write", "wait", "x11", "resolve"} \cup S!GaveUp \/ client' = client,
               ssh' \in {"connecting", "up", "lost", "failed", "unreachable", "done"} \/ ssh' = ssh,
               server' \in {"read", "parent", "exit0", "exit1"} \/ server' = server
        PROVE  BootStates'
    <2>1. \A a : Usable(a)' <=> Usable(a)
      BY <1>1 DEF Usable, Elements
    <2>2. client' = "dial" => client = "dial"
      BY <1>1
    <2>3. client' = "dial" => Usable(addr)'
      BY <1>1, <2>2 DEF BootStates, Usable, Elements
    <2> QED
      BY <1>1, <2>3 DEF BootStates
  <1> DEFINE Moves ==
        /\ UNCHANGED <<addrs, ask, routes, addr>>
        /\ client' \in {"write", "wait", "x11", "resolve"} \cup S!GaveUp \/ client' = client
        /\ ssh' \in {"connecting", "up", "lost", "failed", "unreachable", "done"} \/ ssh' = ssh
        /\ server' \in {"read", "parent", "exit0", "exit1"} \/ server' = server
  <1>2. ASSUME S!Invalid \/ S!SpawnSsh \/ S!WriteLine \/ S!WriteFails \/ S!CloseStdin PROVE Moves
    BY <1>2 DEF S!Invalid, S!SpawnSsh, S!WriteLine, S!WriteFails, S!CloseStdin
  <1>3. ASSUME S!SshExits \/ S!WaitFails \/ S!CheckDisplay PROVE Moves
    BY <1>3 DEF S!SshExits, S!WaitFails, S!CheckDisplay
  <1>4. ASSUME S!SshConnects \/ S!SshFails \/ S!SshLost \/ S!SshDone PROVE Moves
    BY <1>4 DEF S!SshConnects, S!SshFails, S!SshLost, S!SshDone
  <1>5. ASSUME S!Etrs PROVE Moves
    BY <1>5 DEF S!Etrs, S!ReadLine, S!ReadEnd, S!ChildBinds, S!ParentEnds, S!Detach
  <1>6. ASSUME S!Resolve PROVE BootStates'
    <2>1. CASE client' = "unresolved"
      <3>1. Moves
        BY <1>6, <2>1 DEF S!Resolve
      <3> QED
        BY <1>1, <3>1
    <2>2. CASE addrs # <<>> /\ client' # "unresolved"
      <3>1. /\ client' \in {"dial", "broken"} /\ addr' = S!ResolvePreferred(addrs, S!AddrPref)
            /\ UNCHANGED <<ask, addrs, routes, ssh, server>>
        BY <1>6, <2>2 DEF S!Resolve
      <3>2. S!AddrPref \in S!Prefs
        <4>1. ask.flag \in S!Prefs /\ ask.cfg \in S!Prefs
          BY ComponentsAssumption DEF BootStates, S!StartUpAssumption
        <4> QED
          BY <4>1 DEF S!AddrPref, S!Or
      <3>3. Usable(S!ResolvePreferred(addrs, S!AddrPref))
        BY <2>2, <3>2, ResolvedIsUsable DEF BootStates
      <3>4. Usable(addr)'
        BY <3>1, <3>3 DEF Usable, Elements
      <3>5. addr' \in {"v4", "v6"}
        <4>1. Elements(addrs) \subseteq Families
          BY ElementOfSeq DEF BootStates, Elements
        <4> QED
          BY <3>1, <3>3, <4>1 DEF Usable, Families
      <3> QED
        BY <3>1, <3>4, <3>5 DEF BootStates
    <2> QED
      BY <1>6, <2>1, <2>2 DEF S!Resolve
  <1> HIDE DEF Moves
  <1>7. Moves => BootStates'
    BY <1>1 DEF Moves
  <1> QED
    BY <1>2, <1>3, <1>4, <1>5, <1>6, <1>7 DEF S!Next, S!Etr

LEMMA BootStatesInvariance == Spec => []BootStates
  <1>1. Init => BootStates
    <2> SUFFICES ASSUME Init PROVE BootStates
      OBVIOUS
    <2>1. PICK at \in {"check", "off"} : ((at = "check") <=> (subject = "startup")) /\ S!StartsAs(at)
      BY DEF Init
    <2>2. /\ ask \in Asks /\ addrs \in HostAddrs /\ client = at /\ ssh = "none"
          /\ server = "none" /\ addr = "none"
      BY <2>1 DEF S!StartsAs
    <2>3. addrs \in Seq(Families)
      BY <2>2, ComponentsAssumption DEF S!StartUpAssumption, Families
    <2> QED
      BY <2>1, <2>2, <2>3 DEF BootStates
  <1>2. BootStates /\ [Next]_vars => BootStates'
    <2> SUFFICES ASSUME BootStates, [Next]_vars PROVE BootStates'
      OBVIOUS
    <2>1. subject' = subject
      BY DEF Next, vars, History, Escape, Frames, Display, Config, Udp, Bootstrap
    <2>2. CASE S!Next
      BY <2>1, <2>2, BootStatesStep
    <2>3. CASE UNCHANGED S!vars
      BY <2>1, <2>3 DEF S!vars, S!inputs, S!wires, BootStates, Usable, Elements
    <2> QED
      BY <2>2, <2>3, StepOfStartUp
  <1> QED
    BY <1>1, <1>2, PTL DEF Spec

\* The address etr dials is one of the target's, and one with a route whenever the
\* target has such an address: no preference of the user's turns a target that can
\* be reached into one that cannot (order_by_family, resolve_preferred).
THEOREM DialsAUsableAddress == Spec => [](client = "dial" => Usable(addr))
  <1>1. BootStates => (client = "dial" => Usable(addr))
    BY DEF BootStates
  <1> QED
    BY <1>1, BootStatesInvariance, PTL

\* The types of all components, from their inductive invariants: the history is
\* a sequence of entries with its byte total, no more frames are read than the
\* bound on those written, and the reply channel of a UDP forward stays within
\* its capacity.
THEOREM ComponentsTyped == Spec => []TypeOK
  <1>1. BytesInv => H!TypeOK
    BY BytesNat DEF BytesInv, HistoryInv, H!BytesExact, H!TypeOK
  <1>2. EscapeInv => E!TypeOK
    BY DEF EscapeInv, EscapeTyped, E!TypeOK
  <1>3. FrameInv => F!TypeOK
    <2> SUFFICES ASSUME FrameInv PROVE F!TypeOK
      OBVIOUS
    <2>1. Len(handed) \in Nat /\ Len(handed) <= MaxHanded /\ Len(got) \in 0 .. Len(handed)
      BY LenProperties DEF FrameInv, HandedWell, FrameRead
    <2>2. MaxHanded \in Nat
      BY FrameConstants
    <2>3. Len(got) <= MaxHanded
      BY <2>1, <2>2
    <2> QED
      BY <2>1, <2>3 DEF F!TypeOK, FrameInv, FrameTyped
  <1>4. DisplayInv => X!TypeOK
    BY DEF DisplayInv, DisplayOwn
  <1>5. ConfigInv => C!TypeOK
    BY DEF ConfigInv, C!TypeOK, Lines
  <1>6. UdpInv => U!TypeOK
    BY DEF UdpInv
  <1>7. BootInv /\ BootStates => (subject = "startup" => S!TypeOK)
    BY DEF BootInv, BootTyped, BootStates, S!TypeOK
  <1>8. BytesInv /\ EscapeInv /\ FrameInv /\ DisplayInv /\ ConfigInv /\ UdpInv /\ BootInv
           /\ BootStates => TypeOK
    BY <1>1, <1>2, <1>3, <1>4, <1>5, <1>6, <1>7 DEF TypeOK
  <1> QED
    BY <1>8, BytesInvariance, EscapeInvariance, FrameInvariance, DisplayInvariance,
       ConfigInvariance, UdpInvariance, BootInvariance, BootStatesInvariance, PTL
=============================================================================
