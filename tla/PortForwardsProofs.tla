------------------------- MODULE PortForwardsProofs -------------------------
(***************************************************************************)
(* Proofs about PortForwards, for every set of forwards and any number of  *)
(* reconnects: a listener that cannot bind met another process (or, -L     *)
(* TCP, its own earlier self), and no request is dropped for a stale       *)
(* connection.                                                             *)
(***************************************************************************)
EXTENDS PortForwards, TLAPS

\* A -R port is held by the listener task last spawned for it, and by no other.
ReverseOnce ==
    \A f \in ReverseF :
        /\ f \in rport => listener[f] = "bound"
        /\ listener[f] # "none" => f \in started

\* When a -L forward comes to bind, only a -L TCP listener of an earlier session
\* can be in its way.
LocalAnew ==
    /\ \A f \in LocalF : holder[f] <= sess
    /\ \A f \in LocalF : outer[f] = "bind" => holder[f] = 0 \/ (f = "Ltcp" /\ holder[f] < sess)

IInv ==
    /\ TypeOK
    /\ ReverseOnce
    /\ LocalAnew
    /\ BindFailureExplained
    /\ NothingWasted

USE DEF Numbers

\* No session, no listener, no request.
LEMMA InitInv == Init => IInv
  BY PortForwardsAssumption DEF Init, IInv, TypeOK, ReverseOnce, LocalAnew,
     BindFailureExplained, NothingWasted

\* A session starts: -L forwards are to bind anew, -R forwards only the first time.
LEMMA StartsStep ==
    ASSUME IInv, SessionStarts
    PROVE  IInv'
  <1>1. TypeOK /\ MaxSessions \in Nat /\ sess \in 0 .. MaxSessions /\ sess < MaxSessions
    BY PortForwardsAssumption DEF IInv, TypeOK, SessionStarts
  <1>2. /\ sess' = sess + 1 /\ phase' = "up" /\ active_conn' = sess + 1
        /\ outer' = [f \in LocalF |-> "bind"]
        /\ started' = started \cup ReverseF
        /\ listener' = [f \in ReverseF |-> IF f \in started THEN listener[f] ELSE "bind"]
        /\ UNCHANGED <<holder, rport, tx, foreign, req, served, wasted, ended, blocked>>
    BY DEF SessionStarts, StartReverse, ghosts
  <1>3. sess + 1 \in 0 .. MaxSessions
    BY <1>1
  <1>4. TypeOK'
    BY <1>1, <1>2, <1>3 DEF TypeOK
  <1>5. ReverseOnce'
    BY <1>2 DEF IInv, ReverseOnce
  <1>6. LocalAnew'
    <2>1. ASSUME NEW f \in LocalF
          PROVE  holder[f] <= sess + 1 /\ (holder[f] = 0 \/ (f = "Ltcp" /\ holder[f] < sess + 1))
      <3>1. f \in {"Ltcp", "Ludp"}
        BY DEF LocalF, Local
      <3>2. holder[f] <= sess /\ holder[f] \in 0 .. MaxSessions
        BY <1>1 DEF IInv, LocalAnew, TypeOK
      <3>3. f = "Ludp" => holder[f] = 0
        BY DEF SessionStarts
      <3> QED
        BY <1>1, <3>1, <3>2, <3>3
    <2> QED
      BY <1>2, <2>1 DEF LocalAnew
  <1>7. BindFailureExplained'
    BY <1>2 DEF IInv, BindFailureExplained
  <1> QED
    BY <1>2, <1>4, <1>5, <1>6, <1>7 DEF IInv, NothingWasted

\* Sessions and processes that end take no port and spawn no listener.
LEMMA EndSteps ==
    ASSUME IInv, LinkBreaks \/ SessionEnds \/ ServerClears \/ ForeignLeaves
    PROVE  IInv'
  <1>1. /\ UNCHANGED <<sess, holder, started, listener, rport, tx, req, served, wasted, ended, blocked>>
        /\ phase' \in {"up", "away", "broken", phase}
        /\ active_conn' \in {0, active_conn}
        /\ foreign' \in {{}, foreign}
        /\ outer' = outer \/ outer' = [f \in LocalF |-> "off"]
    BY DEF LinkBreaks, SessionEnds, ServerClears, ForeignLeaves, sessVars, localVars,
       reverseVars, ghosts
  <1>2. TypeOK'
    <2>1. active_conn' \in 0 .. MaxSessions
      BY <1>1, PortForwardsAssumption DEF IInv, TypeOK
    <2>2. foreign' \subseteq Forwards
      BY <1>1 DEF IInv, TypeOK
    <2>3. outer' \in [LocalF -> {"off", "bind", "join", "failed"}]
      BY <1>1 DEF IInv, TypeOK
    <2> QED
      BY <1>1, <2>1, <2>2, <2>3 DEF IInv, TypeOK
  <1>3. \A f \in LocalF : outer'[f] \in {outer[f], "off"}
    BY <1>1
  <1> QED
    BY <1>1, <1>2, <1>3 DEF IInv, ReverseOnce, LocalAnew, BindFailureExplained, NothingWasted

\* A -L forward binds, or finds its port taken by another process or by the -L
\* TCP listener of an earlier session.
LEMMA LocalBindStep ==
    ASSUME IInv, NEW f \in LocalF, LocalBind(f)
    PROVE  IInv'
  <1>1. /\ TypeOK /\ MaxSessions \in Nat /\ sess \in 0 .. MaxSessions
        /\ holder \in [LocalF -> 0 .. MaxSessions]
        /\ outer \in [LocalF -> {"off", "bind", "join", "failed"}]
    BY PortForwardsAssumption DEF IInv, TypeOK
  <1>2. /\ UNCHANGED <<sess, phase, active_conn, started, listener, rport, tx, foreign, req,
                       served, wasted, ended>>
        /\ blocked' = blocked \cup (foreign \cap {f})
        /\ outer[f] = "bind"
    BY DEF LocalBind, sessVars, reverseVars, ghosts
  <1>3. /\ ReverseOnce' /\ NothingWasted'
        /\ \A g \in ReverseF : listener'[g] = "failed" => g \in blocked'
    BY <1>2 DEF IInv, ReverseOnce, BindFailureExplained, NothingWasted
  <1>4. holder[f] = 0 \/ (f = "Ltcp" /\ holder[f] < sess)
    BY <1>2 DEF IInv, LocalAnew
  <1>5. CASE f \notin foreign /\ holder[f] = 0
    <2>1. outer' = [outer EXCEPT ![f] = "join"] /\ holder' = [holder EXCEPT ![f] = sess]
      BY <1>5 DEF LocalBind
    <2>2. TypeOK'
      BY <1>1, <1>2, <2>1 DEF TypeOK
    <2>3. \A g \in LocalF : g # f => outer'[g] = outer[g] /\ holder'[g] = holder[g]
      BY <1>1, <2>1
    <2>4. outer'[f] = "join" /\ holder'[f] = sess
      BY <1>1, <2>1
    <2> QED
      BY <1>1, <1>2, <1>3, <2>2, <2>3, <2>4 DEF IInv, LocalAnew, BindFailureExplained
  <1>6. CASE ~(f \notin foreign /\ holder[f] = 0)
    <2>1. outer' = [outer EXCEPT ![f] = "failed"] /\ holder' = holder
      BY <1>6 DEF LocalBind
    <2>2. TypeOK'
      BY <1>1, <1>2, <2>1 DEF TypeOK
    <2>3. \A g \in LocalF : g # f => outer'[g] = outer[g]
      BY <1>1, <2>1
    <2>4. outer'[f] = "failed"
      BY <1>1, <2>1
    <2>5. f \in blocked' \/ (f = "Ltcp" /\ holder[f] \in 1 .. (sess - 1))
      BY <1>1, <1>2, <1>4, <1>6
    <2> QED
      BY <1>1, <1>2, <1>3, <2>1, <2>2, <2>3, <2>4, <2>5
         DEF IInv, LocalAnew, BindFailureExplained
  <1> QED
    BY <1>5, <1>6

\* A -R listener, spawned once, finds no other listener of etrs on its port.
LEMMA ReverseBindStep ==
    ASSUME IInv, NEW f \in ReverseF, ReverseBind(f)
    PROVE  IInv'
  <1>1. TypeOK /\ listener \in [ReverseF -> {"none", "bind", "bound", "failed"}]
    BY DEF IInv, TypeOK
  <1>2. /\ UNCHANGED <<sess, phase, active_conn, outer, holder, started, tx, foreign, req,
                       served, wasted, ended>>
        /\ blocked' = blocked \cup (foreign \cap {f})
        /\ listener[f] = "bind"
    BY DEF ReverseBind, sessVars, localVars, ghosts
  <1>3. f \notin rport
    BY <1>2 DEF IInv, ReverseOnce
  <1>4. LocalAnew' /\ NothingWasted'
    BY <1>2 DEF IInv, LocalAnew, NothingWasted
  <1>5. f \in started
    BY <1>2 DEF IInv, ReverseOnce
  <1>6. CASE f \notin foreign
    <2>1. listener' = [listener EXCEPT ![f] = "bound"] /\ rport' = rport \cup {f}
      BY <1>3, <1>6 DEF ReverseBind
    <2> QED
      BY <1>1, <1>2, <1>4, <1>5, <2>1 DEF IInv, TypeOK, ReverseOnce, BindFailureExplained
  <1>7. CASE f \in foreign
    <2>1. listener' = [listener EXCEPT ![f] = "failed"] /\ rport' = rport
      BY <1>7 DEF ReverseBind
    <2> QED
      BY <1>1, <1>2, <1>3, <1>4, <1>7, <2>1 DEF IInv, TypeOK, ReverseOnce, BindFailureExplained
  <1> QED
    BY <1>6, <1>7

\* Sockets that close, requests accepted and requests carried: a request that has
\* a working connection is carried on that connection, also over the stream the
\* reverse UDP loop has kept.
LEMMA RequestSteps ==
    ASSUME IInv,
           \/ UdpSocketCloses \/ UdpStreamEnds \/ CarryUdpReverse
           \/ \E f \in LocalF : LocalAccept(f)
           \/ \E f \in ReverseF : ReverseAccept(f)
           \/ \E f \in Forwards : CarryDirect(f)
    PROVE  IInv'
  <1>1. /\ TypeOK /\ MaxSessions \in Nat /\ req \in [Forwards -> 0 .. MaxSessions]
        /\ served \in [Forwards -> SUBSET (0 .. MaxSessions)]
        /\ holder \in [LocalF -> 0 .. MaxSessions] /\ tx \in 0 .. MaxSessions
        /\ active_conn \in 0 .. MaxSessions /\ sess \in 0 .. MaxSessions
        /\ LocalF \subseteq Forwards /\ ReverseF \subseteq Forwards
    BY PortForwardsAssumption DEF IInv, TypeOK, LocalF, ReverseF
  <1>2. UNCHANGED <<sess, phase, active_conn, outer, started, listener, rport, foreign, blocked>>
    BY DEF UdpSocketCloses, UdpStreamEnds, CarryUdpReverse, LocalAccept, ReverseAccept, CarryDirect,
       sessVars, localVars, reverseVars
  <1>3. CASE UdpSocketCloses \/ UdpStreamEnds
    <2>1. /\ holder' = [holder EXCEPT !["Ludp"] = 0] /\ req' = [req EXCEPT !["Ludp"] = 0]
          /\ UNCHANGED <<tx, served, wasted>>
          /\ ended' \in {ended, ended \cup {sess}}
      BY <1>3 DEF UdpSocketCloses, UdpStreamEnds, UdpSocketGone, ghosts
    <2>2. TypeOK'
      <3>1. 0 \in 0 .. MaxSessions
        BY <1>1
      <3>2. holder' \in [LocalF -> 0 .. MaxSessions] /\ req' \in [Forwards -> 0 .. MaxSessions]
        BY <1>1, <2>1, <3>1
      <3>3. UNCHANGED <<tx, served, wasted>> /\ ended' \subseteq 0 .. MaxSessions
        BY <1>1, <2>1 DEF TypeOK
      <3> QED
        BY <1>1, <1>2, <3>2, <3>3 DEF TypeOK
    <2>3. \A f \in LocalF : holder'[f] = IF f = "Ludp" THEN 0 ELSE holder[f]
      BY <1>1, <2>1
    <2>4. ReverseOnce' /\ NothingWasted'
      BY <1>2, <2>1 DEF IInv, ReverseOnce, NothingWasted
    <2>5. LocalAnew'
      BY <1>1, <1>2, <2>3 DEF IInv, LocalAnew
    <2>6. BindFailureExplained'
      <3>1. \A f \in LocalF : f = "Ltcp" => holder'[f] = holder[f]
        BY <2>3
      <3> QED
        BY <1>2, <3>1 DEF IInv, BindFailureExplained
    <2> QED
      BY <2>2, <2>4, <2>5, <2>6 DEF IInv
  <1>4. ASSUME UNCHANGED holder, TypeOK', NothingWasted' PROVE IInv'
    BY <1>2, <1>4 DEF IInv, ReverseOnce, LocalAnew, BindFailureExplained
  <1>5. CASE \E f \in LocalF : LocalAccept(f)
    <2>1. PICK f \in LocalF : LocalAccept(f)
      BY <1>5
    <2>2. UNCHANGED <<holder, tx, served, wasted, ended>> /\ req' = [req EXCEPT ![f] = holder[f]]
      BY <2>1 DEF LocalAccept, localVars, ghosts
    <2>3. TypeOK'
      BY <1>1, <1>2, <2>2 DEF TypeOK
    <2> QED
      BY <1>4, <2>2, <2>3 DEF IInv, NothingWasted
  <1>6. CASE \E f \in ReverseF : ReverseAccept(f)
    <2>1. PICK f \in ReverseF : ReverseAccept(f)
      BY <1>6
    <2>2. UNCHANGED <<holder, tx, served, wasted, ended>> /\ req' = [req EXCEPT ![f] = active_conn]
      BY <2>1 DEF ReverseAccept, localVars, ghosts
    <2>3. TypeOK'
      BY <1>1, <1>2, <2>2 DEF TypeOK
    <2> QED
      BY <1>4, <2>2, <2>3 DEF IInv, NothingWasted
  <1>7. ASSUME NEW f \in Forwards, NEW c \in 0 .. MaxSessions, Carry(f, c),
               Alive(req[f]) => Alive(c)
        PROVE  /\ NothingWasted' /\ UNCHANGED ended /\ req' \in [Forwards -> 0 .. MaxSessions]
               /\ served' \in [Forwards -> SUBSET (0 .. MaxSessions)]
    BY <1>1, <1>7 DEF IInv, NothingWasted, Carry
  <1>8. CASE \E f \in Forwards : CarryDirect(f)
    <2>1. PICK f \in Forwards : CarryDirect(f)
      BY <1>8
    <2>2. UNCHANGED <<holder, tx>> /\ Carry(f, req[f])
      BY <2>1 DEF CarryDirect, localVars
    <2>3. /\ NothingWasted' /\ UNCHANGED ended /\ req' \in [Forwards -> 0 .. MaxSessions]
          /\ served' \in [Forwards -> SUBSET (0 .. MaxSessions)]
      BY <1>1, <1>7, <2>2
    <2>4. TypeOK'
      BY <1>1, <1>2, <2>2, <2>3 DEF TypeOK, NothingWasted
    <2> QED
      BY <1>4, <2>2, <2>3, <2>4
  <1>9. CASE CarryUdpReverse
    <2>1. PICK s : s = StreamFor(req["Rudp"])
      OBVIOUS
    <2>2. /\ "Rudp" \in Forwards /\ req["Rudp"] # 0 /\ req["Rudp"] \in 0 .. MaxSessions
          /\ UNCHANGED holder /\ Carry("Rudp", s)
          /\ tx' = IF s = 0 THEN tx ELSE IF Alive(s) THEN s ELSE 0
      BY <1>1, <1>9, <2>1 DEF CarryUdpReverse, localVars
    <2>3. s \in 0 .. MaxSessions /\ (Alive(req["Rudp"]) => s = req["Rudp"])
      BY <1>1, <2>1, <2>2 DEF StreamFor, NeedNewStream
    <2>4. /\ NothingWasted' /\ UNCHANGED ended /\ req' \in [Forwards -> 0 .. MaxSessions]
          /\ served' \in [Forwards -> SUBSET (0 .. MaxSessions)]
      BY <1>7, <2>2, <2>3
    <2>5. tx' \in 0 .. MaxSessions
      BY <1>1, <2>2, <2>3
    <2>6. TypeOK'
      BY <1>1, <1>2, <2>2, <2>4, <2>5 DEF TypeOK, NothingWasted
    <2> QED
      BY <1>4, <2>2, <2>4, <2>6
  <1> QED
    BY <1>3, <1>5, <1>6, <1>8, <1>9

\* Every step of a session, a listener or a request keeps the invariant.
LEMMA NextInv == IInv /\ [Next]_vars => IInv'
  <1> SUFFICES ASSUME IInv, [Next]_vars PROVE IInv'
    OBVIOUS
  <1>1. CASE UNCHANGED vars
    BY <1>1 DEF vars, sessVars, localVars, reverseVars, ghosts, IInv, TypeOK, ReverseOnce,
       LocalAnew, BindFailureExplained, NothingWasted
  <1>2. CASE Sessions
    BY <1>2, StartsStep, EndSteps DEF Sessions
  <1>3. CASE Requests
    BY <1>3, LocalBindStep, ReverseBindStep, RequestSteps DEF Requests
  <1> QED
    BY <1>1, <1>2, <1>3 DEF Next
-----------------------------------------------------------------------------
(* The results.                                                            *)

\* The inductive invariant holds in every reachable state of the forwards.
THEOREM Invariance == Spec => []IInv
  BY InitInv, NextInv, PTL DEF Spec

\* Every state variable keeps its type, for every value of the constants.
THEOREM TypeCorrect == Spec => []TypeOK
  <1>1. IInv => TypeOK
    BY DEF IInv
  <1> QED
    BY <1>1, Invariance, PTL

\* No reconnect makes a forward fight over its port with its own earlier self,
\* -L TCP excepted.
THEOREM BindsExplained == Spec => []BindFailureExplained
  <1>1. IInv => BindFailureExplained
    BY DEF IInv
  <1> QED
    BY <1>1, Invariance, PTL

\* No request is dropped while the connection looked up for it works.
THEOREM NoneWasted == Spec => []NothingWasted
  <1>1. IInv => NothingWasted
    BY DEF IInv
  <1> QED
    BY <1>1, Invariance, PTL
=============================================================================
