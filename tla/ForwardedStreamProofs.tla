------------------------ MODULE ForwardedStreamProofs ------------------------
(***************************************************************************)
(* Proofs about ForwardedStream and the TcpPipe in it, for all buffer      *)
(* sizes and amounts of data: what an early end of the stream is due to,   *)
(* and which X clients are let through.                                    *)
(***************************************************************************)
EXTENDS ForwardedStream, SequenceTheorems, TLAPS

Sides == P!Sides
Other(p) == P!Other(p)

\* No hop has more than the one before it.
Counts(p) ==
    /\ consumed[p] <= put[p] /\ put[p] <= received[p] /\ received[p] <= sent[Other(p)]
    /\ sent[p] <= taken[p] /\ taken[p] <= written[p]

\* Of a running pipe: a copy task holds one chunk while it writes, else none.
Holding(p) ==
    pipe[p] \in {"wait", "run"} =>
        /\ t1[p] = "read" => taken[p] = sent[p]
        /\ t1[p] = "write" => taken[p] = sent[p] + 1
        /\ t2[p] = "read" => received[p] = put[p]
        /\ t2[p] = "write" => received[p] = put[p] + 1

\* There is a reason why p may miss data: the one TruncationExplained gives.
Excused(p) ==
    app[p] # "open" \/ cut[p] \/ reset[Other(p)] \/ link = "broken" \/ refused

\* The application at p has closed, and all it wrote is on the stream.
Complete(p) == app[p] # "open" /\ sent[p] = written[p]

\* p has an excuse or need not get anything any more.
Settled(p) == Excused(p) \/ pipe[p] = "ended"

\* Why a task is done, a stream finished or a socket shut down.  A stream ends
\* whole, or its receiver has an excuse or is no more; and the receiver's own end
\* is only ever shown to its application with an excuse or after all the data.
Ends(p) ==
    /\ stopped[p] => pipe[Other(p)] = "ended"
    /\ t1[p] = "done" => Excused(p) /\ fin[p]
    /\ t2[p] = "done" => eof[p] /\ Settled(Other(p))
    /\ fin[p] => Settled(p) /\ (Complete(p) \/ Settled(Other(p)))
    /\ eof[p] => Excused(p) \/ (Complete(Other(p)) /\ put[p] = sent[Other(p)])

\* Somebody closed, or the connection or the target failed.
Over == (\E p \in Sides : app[p] # "open") \/ link = "broken" \/ refused

\* Nothing ends as long as nobody ends it.
EndSeen(p) ==
    \/ fin[p] \/ eof[p] \/ cut[p] \/ reset[p] \/ stopped[p]
    \/ pipe[p] = "ended" \/ t1[p] = "done" \/ t2[p] = "done"

PipeInv ==
    /\ P!TypeOK
    /\ \A p \in Sides : Counts(p) /\ Holding(p) /\ Ends(p)
    /\ (\E p \in Sides : EndSeen(p)) => Over

\* Until the X client's stream is opened the pipe is as it was created, but for
\* the set-up block.
Fresh ==
    /\ link = "up" /\ ~refused
    /\ taken["near"] = IF setup = "open" THEN 1 ELSE 0
    /\ taken["far"] = 0
    /\ \A p \in Sides :
          /\ pipe[p] = "idle" /\ t1[p] = "read" /\ t2[p] = "read"
          /\ sent[p] = 0 /\ received[p] = 0 /\ put[p] = 0
          /\ ~fin[p] /\ ~eof[p] /\ ~stopped[p] /\ ~cut[p] /\ ~reset[p]

\* What is known of the X client at each stage of its set-up.
Admitted ==
    /\ kind = "tcp" => setup = "piped"
    /\ active_conn # 0 => real_cookie
    /\ SettingUp => Fresh
    /\ setup = "dropped" => sent["near"] = 0 /\ \A p \in Sides : pipe[p] = "ended"
    /\ kind = "x11" /\ setup \in {"open", "piped"} =>
          IsPrefix(FakeCookie, offer) /\ block = IF cookie THEN "real" ELSE "empty"
    /\ kind = "x11" /\ setup = "dropped" /\ IsPrefix(FakeCookie, offer) /\ app["near"] = "open" =>
          conn = 0 \/ conn \in dead

IInv == TypeOK /\ PipeInv /\ Admitted

-----------------------------------------------------------------------------
(* The pipe: what is counted.                                              *)

\* There are two sides, each the other's other.
LEMMA OtherFacts ==
    ASSUME NEW p \in Sides
    PROVE  /\ Other(p) \in Sides /\ Other(Other(p)) = p /\ Other(p) # p
           /\ \A r \in Sides : r = p \/ r = Other(p)
  BY DEF Sides, Other, P!Sides, P!Other

\* The counters are natural numbers, and functions of the side.
LEMMA Numbers ==
    ASSUME PipeInv
    PROVE  /\ MaxChunks \in Nat
           /\ \A r \in Sides : /\ written[r] \in Nat /\ consumed[r] \in Nat /\ taken[r] \in Nat
                               /\ sent[r] \in Nat /\ received[r] \in Nat /\ put[r] \in Nat
                               /\ written[r] <= MaxChunks
  BY ForwardedStreamAssumption DEF PipeInv, P!TypeOK, P!TcpPipeAssumption, Sides

\* No chunk is counted at a hop before the previous one has it.
LEMMA DataSteps ==
    ASSUME PipeInv, NEW p \in Sides,
           \/ P!AppWrite(p) \/ P!AppRead(p) \/ P!T1Read(p) \/ P!T1Write(p)
           \/ P!T2Read(p) \/ P!T2Write(p)
    PROVE  P!TypeOK' /\ \A r \in Sides : Counts(r)' /\ Holding(r)'
  <1>1. /\ P!TypeOK
        /\ \A r \in Sides : Counts(r) /\ Holding(r)
        /\ Other(p) \in Sides /\ Other(Other(p)) = p /\ Other(p) # p
        /\ \A r \in Sides : r = p \/ r = Other(p)
        /\ p \in P!Sides
    BY OtherFacts DEF PipeInv, Sides
  <1>2. CASE P!AppWrite(p)
    <2>1. /\ UNCHANGED <<consumed, taken, sent, received, put, pipe, t1, t2>>
          /\ written'[p] = written[p] + 1 /\ \A r \in Sides : r # p => written'[r] = written[r]
      BY <1>1, <1>2 DEF P!AppWrite, P!TypeOK, P!t1Vars, P!t2Vars, P!endVars, Sides
    <2>2. P!TypeOK'
      BY <1>1, <1>2, Numbers
         DEF P!AppWrite, P!TypeOK, P!t1Vars, P!t2Vars, P!endVars, Sides
    <2>3. ASSUME NEW r \in Sides PROVE Counts(r)' /\ Holding(r)'
      BY <1>1, <2>1, <2>3, Numbers DEF Counts, Holding
    <2> QED
      BY <2>2, <2>3
  <1>3. CASE P!AppRead(p)
    <2>1. /\ UNCHANGED <<written, taken, sent, received, put, pipe, t1, t2>>
          /\ consumed'[p] = consumed[p] + 1 /\ \A r \in Sides : r # p => consumed'[r] = consumed[r]
          /\ consumed[p] < put[p]
      BY <1>1, <1>3 DEF P!AppRead, P!TypeOK, P!t1Vars, P!t2Vars, P!endVars, Sides
    <2>2. P!TypeOK'
      BY <1>1, <1>3, Numbers
         DEF P!AppRead, P!TypeOK, P!t1Vars, P!t2Vars, P!endVars, Sides
    <2>3. ASSUME NEW r \in Sides PROVE Counts(r)' /\ Holding(r)'
      BY <1>1, <2>1, <2>3, Numbers DEF Counts, Holding
    <2> QED
      BY <2>2, <2>3
  <1>4. CASE P!T1Read(p)
    <2>1. /\ UNCHANGED <<written, consumed, sent, received, put, pipe, t2>>
          /\ taken'[p] = taken[p] + 1 /\ \A r \in Sides : r # p => taken'[r] = taken[r]
          /\ t1'[p] = "write" /\ \A r \in Sides : r # p => t1'[r] = t1[r]
          /\ pipe[p] = "run" /\ t1[p] = "read" /\ taken[p] < written[p]
      BY <1>1, <1>4 DEF P!T1Read, P!TypeOK, P!appVars, P!t2Vars, P!endVars, Sides
    <2>2. P!TypeOK'
      <3>1. Counts(p) /\ Counts(Other(p)) /\ Holding(p)
        BY <1>1
      <3> QED
        BY <1>1, <1>4, <3>1, Numbers
           DEF P!T1Read, P!TypeOK, P!appVars, P!t2Vars, P!endVars, Sides, Counts, Holding, Other
    <2>3. ASSUME NEW r \in Sides PROVE Counts(r)' /\ Holding(r)'
      BY <1>1, <2>1, <2>3, Numbers DEF Counts, Holding
    <2> QED
      BY <2>2, <2>3
  <1>5. CASE P!T1Write(p)
    <2>1. /\ UNCHANGED <<written, consumed, taken, received, put, pipe, t2>>
          /\ sent'[p] = sent[p] + 1 /\ \A r \in Sides : r # p => sent'[r] = sent[r]
          /\ t1'[p] = "read" /\ \A r \in Sides : r # p => t1'[r] = t1[r]
          /\ pipe[p] = "run" /\ t1[p] = "write"
      BY <1>1, <1>5 DEF P!T1Write, P!TypeOK, P!appVars, P!t2Vars, P!endVars, Sides
    <2>2. P!TypeOK'
      <3>1. Counts(p) /\ Counts(Other(p)) /\ Holding(p)
        BY <1>1
      <3> QED
        BY <1>1, <1>5, <3>1, Numbers
           DEF P!T1Write, P!TypeOK, P!appVars, P!t2Vars, P!endVars, Sides, Counts, Holding, Other
    <2>3. ASSUME NEW r \in Sides PROVE Counts(r)' /\ Holding(r)'
      BY <1>1, <2>1, <2>3, Numbers DEF Counts, Holding
    <2> QED
      BY <2>2, <2>3
  <1>6. CASE P!T2Read(p)
    <2>1. /\ UNCHANGED <<written, consumed, taken, sent, put, pipe, t1>>
          /\ received'[p] = received[p] + 1 /\ \A r \in Sides : r # p => received'[r] = received[r]
          /\ t2'[p] = "write" /\ \A r \in Sides : r # p => t2'[r] = t2[r]
          /\ pipe[p] = "run" /\ t2[p] = "read" /\ received[p] < sent[Other(p)]
      BY <1>1, <1>6 DEF P!T2Read, P!TypeOK, P!appVars, P!t1Vars, P!endVars, Other, Sides
    <2>2. P!TypeOK'
      <3>1. Counts(p) /\ Counts(Other(p)) /\ Holding(p)
        BY <1>1
      <3> QED
        BY <1>1, <1>6, <3>1, Numbers
           DEF P!T2Read, P!TypeOK, P!appVars, P!t1Vars, P!endVars, Sides, Counts, Holding, Other
    <2>3. ASSUME NEW r \in Sides PROVE Counts(r)' /\ Holding(r)'
      BY <1>1, <2>1, <2>3, Numbers DEF Counts, Holding
    <2> QED
      BY <2>2, <2>3
  <1>7. CASE P!T2Write(p)
    <2>1. /\ UNCHANGED <<written, consumed, taken, sent, received, pipe, t1>>
          /\ put'[p] = put[p] + 1 /\ \A r \in Sides : r # p => put'[r] = put[r]
          /\ t2'[p] = "read" /\ \A r \in Sides : r # p => t2'[r] = t2[r]
          /\ pipe[p] = "run" /\ t2[p] = "write"
      BY <1>1, <1>7 DEF P!T2Write, P!TypeOK, P!appVars, P!t1Vars, P!endVars, Sides
    <2>2. P!TypeOK'
      <3>1. Counts(p) /\ Counts(Other(p)) /\ Holding(p)
        BY <1>1
      <3> QED
        BY <1>1, <1>7, <3>1, Numbers
           DEF P!T2Write, P!TypeOK, P!appVars, P!t1Vars, P!endVars, Sides, Counts, Holding, Other
    <2>3. ASSUME NEW r \in Sides PROVE Counts(r)' /\ Holding(r)'
      BY <1>1, <2>1, <2>3, Numbers DEF Counts, Holding
    <2> QED
      BY <2>2, <2>3
  <1> QED
    BY <1>2, <1>3, <1>4, <1>5, <1>6, <1>7

\* Steps that move no data, and let no application, task or pipe begin again.
Winding ==
    /\ UNCHANGED <<written, consumed, taken, sent, received, put>>
    /\ \A r \in Sides :
          /\ t1'[r] \in {t1[r], "done", "off"} /\ t2'[r] \in {t2[r], "done", "off"}
          /\ pipe'[r] \in {pipe[r], "run", "ended"}
          /\ pipe'[r] = "run" => pipe[r] \in {"wait", "run"}
          /\ pipe[r] = "ended" => pipe'[r] = "ended"
          /\ app[r] # "open" => app'[r] # "open"
          /\ cut[r] => cut'[r]
          /\ reset[r] => reset'[r]
    /\ link = "broken" => link' = "broken"
    /\ refused => refused'

\* Every step of the pipe but those of DataSteps is one of these.
LEMMA ClosingSteps ==
    ASSUME PipeInv,
           \/ \E p \in Sides : \/ P!AppClose(p) \/ P!T1Eof(p) \/ P!T1Fails(p)
                               \/ P!T2Eof(p) \/ P!T2Fails(p) \/ P!PipeEnds(p)
           \/ P!LinkBreaks \/ P!Connect \/ P!ConnectFails
    PROVE  P!TypeOK' /\ Winding
  <1>1. P!TypeOK /\ "far" \in Sides /\ "near" \in Sides /\ \A r \in Sides : Other(r) \in Sides
    BY OtherFacts DEF PipeInv, Sides, P!Sides
  <1>2. ASSUME NEW p \in Sides, P!AppClose(p) PROVE P!TypeOK' /\ Winding
    BY <1>1, <1>2 DEF P!AppClose, P!TypeOK, P!t1Vars, P!t2Vars, P!endVars, Sides, Winding
  <1>3. ASSUME NEW p \in Sides, P!T1Eof(p) PROVE P!TypeOK' /\ Winding
    BY <1>1, <1>3 DEF P!T1Eof, P!T1Ends, P!TypeOK, P!appVars, P!t2Vars, Sides, Winding
  <1>4. ASSUME NEW p \in Sides, P!T1Fails(p) PROVE P!TypeOK' /\ Winding
    BY <1>1, <1>4 DEF P!T1Fails, P!T1Ends, P!TypeOK, P!appVars, P!t2Vars, Sides, Winding
  <1>5. ASSUME NEW p \in Sides, P!T2Eof(p) PROVE P!TypeOK' /\ Winding
    BY <1>1, <1>5 DEF P!T2Eof, P!T2Ends, P!TypeOK, P!appVars, P!t1Vars, Sides, Winding
  <1>6. ASSUME NEW p \in Sides, P!T2Fails(p) PROVE P!TypeOK' /\ Winding
    BY <1>1, <1>6 DEF P!T2Fails, P!T2Ends, P!TypeOK, P!appVars, P!t1Vars, Sides, Winding
  <1>7. ASSUME NEW p \in Sides, P!PipeEnds(p) PROVE P!TypeOK' /\ Winding
    BY <1>1, <1>7 DEF P!PipeEnds, P!TypeOK, P!appVars, Sides, Other, Winding
  <1>8. CASE P!LinkBreaks
    BY <1>1, <1>8 DEF P!LinkBreaks, P!TypeOK, P!appVars, P!t1Vars, P!t2Vars, P!endVars,
       Sides, Winding
  <1>9. CASE P!Connect
    BY <1>1, <1>9 DEF P!Connect, P!TypeOK, P!appVars, P!t1Vars, P!t2Vars, Sides, Winding
  <1>10. CASE P!ConnectFails
    BY <1>1, <1>10 DEF P!ConnectFails, P!TypeOK, P!appVars, P!t1Vars, P!t2Vars, Sides, Winding
  <1> QED
    BY <1>2, <1>3, <1>4, <1>5, <1>6, <1>7, <1>8, <1>9, <1>10

\* Counts and copy tasks stay consistent when no data is moved.
LEMMA WindingKeeps ==
    ASSUME PipeInv, Winding
    PROVE  /\ \A r \in Sides : Counts(r)' /\ Holding(r)'
           /\ \A r \in Sides : /\ Excused(r) => Excused(r)'
                               /\ Settled(r) => Settled(r)'
                               /\ Complete(r) => Complete(r)'
           /\ Over => Over'
  <1>1. ASSUME NEW r \in Sides PROVE Counts(r)'
    BY DEF PipeInv, Winding, Counts
  <1>2. ASSUME NEW r \in Sides PROVE Holding(r)'
    BY DEF PipeInv, Winding, Holding
  <1>3. ASSUME NEW r \in Sides
        PROVE  /\ Excused(r) => Excused(r)'
               /\ Complete(r) => Complete(r)'
    BY OtherFacts DEF Winding, Excused, Complete
  <1>4. ASSUME NEW r \in Sides PROVE Settled(r) => Settled(r)'
    BY <1>3 DEF Settled, Winding
  <1>5. Over => Over'
    BY DEF Winding, Over
  <1> QED
    BY <1>1, <1>2, <1>3, <1>4, <1>5

-----------------------------------------------------------------------------
(* The pipe: why it ends.                                                  *)

\* Data in motion gives no reason away: what is complete stays complete, since
\* neither the application nor the copy task has anything more for it.
LEMMA DataEnds ==
    ASSUME PipeInv, NEW p \in Sides,
           \/ P!AppWrite(p) \/ P!AppRead(p) \/ P!T1Read(p) \/ P!T1Write(p)
           \/ P!T2Read(p) \/ P!T2Write(p)
    PROVE  /\ \A r \in Sides : Ends(r)'
           /\ (\E r \in Sides : EndSeen(r)') => Over'
  <1>1. /\ P!TypeOK /\ \A r \in Sides : Counts(r) /\ Holding(r) /\ Ends(r)
        /\ p \in P!Sides
    BY DEF PipeInv, Sides
  <1>2. UNCHANGED <<app, pipe, fin, stopped, eof, cut, reset, link, refused>>
    BY DEF P!AppWrite, P!AppRead, P!T1Read, P!T1Write, P!T2Read, P!T2Write,
       P!appVars, P!t1Vars, P!t2Vars, P!endVars
  <1>3. ASSUME NEW r \in Sides
        PROVE  (t1'[r] = "done" => t1[r] = "done") /\ (t2'[r] = "done" => t2[r] = "done")
    BY <1>1 DEF P!AppWrite, P!AppRead, P!T1Read, P!T1Write, P!T2Read, P!T2Write,
       P!appVars, P!t1Vars, P!t2Vars, P!endVars, P!TypeOK, Sides
  <1>4. ASSUME NEW r \in Sides, Complete(r)
        PROVE  sent'[r] = sent[r] /\ written'[r] = written[r]
    <2>1. P!AppWrite(p) => r # p
      BY <1>4 DEF Complete, P!AppWrite
    <2>2. P!T1Write(p) => r # p
      <3> SUFFICES ASSUME P!T1Write(p), r = p PROVE FALSE
        OBVIOUS
      <3>1. taken[p] = sent[p] + 1 /\ taken[p] <= written[p] /\ sent[p] = written[p]
        BY <1>1, <1>4 DEF P!T1Write, Holding, Counts, Complete
      <3> QED
        BY <3>1, Numbers
    <2> QED
      BY <1>1, <2>1, <2>2 DEF P!AppWrite, P!AppRead, P!T1Read, P!T1Write, P!T2Read, P!T2Write,
         P!appVars, P!t1Vars, P!t2Vars, P!TypeOK, Sides
  <1>5. ASSUME NEW r \in Sides, Complete(Other(r)), put[r] = sent[Other(r)]
        PROVE  put'[r] = put[r]
    <2>1. P!T2Write(p) => r # p
      <3> SUFFICES ASSUME P!T2Write(p), r = p PROVE FALSE
        OBVIOUS
      <3>1. received[p] = put[p] + 1 /\ received[p] <= sent[Other(p)]
        BY <1>1 DEF P!T2Write, Holding, Counts
      <3> QED
        BY <1>5, <3>1, OtherFacts, Numbers
    <2> QED
      BY <1>1, <2>1 DEF P!AppWrite, P!AppRead, P!T1Read, P!T1Write, P!T2Read, P!T2Write,
         P!appVars, P!t1Vars, P!t2Vars, P!TypeOK, Sides
  <1>6. ASSUME NEW r \in Sides
        PROVE  /\ Excused(r)' <=> Excused(r)
               /\ Settled(r)' <=> Settled(r)
               /\ Complete(r) => Complete(r)'
    BY <1>2, <1>4 DEF Excused, Settled, Complete
  <1>7. ASSUME NEW r \in Sides PROVE Ends(r)'
    <2>1. Other(r) \in Sides
      BY OtherFacts
    <2>2. Ends(r)
      BY <1>1
    <2>3. eof[r] => Excused(r)' \/ (Complete(Other(r))' /\ put'[r] = sent'[Other(r)])
      BY <1>4, <1>5, <1>6, <2>1, <2>2 DEF Ends
    <2> QED
      BY <1>2, <1>3, <1>6, <2>1, <2>2, <2>3 DEF Ends
  <1>8. (\E r \in Sides : EndSeen(r)') => Over'
    BY <1>2, <1>3 DEF PipeInv, EndSeen, Over
  <1> QED
    BY <1>7, <1>8

\* An application closes, the connection breaks, the target is reached or not.
LEMMA OutsideEnds ==
    ASSUME PipeInv,
           (\E p \in Sides : P!AppClose(p)) \/ P!LinkBreaks \/ P!Connect \/ P!ConnectFails
    PROVE  /\ \A r \in Sides : Ends(r)'
           /\ (\E r \in Sides : EndSeen(r)') => Over'
  <1>1. /\ Winding
        /\ \A r \in Sides : /\ Ends(r) /\ Other(r) \in Sides
                            /\ Excused(r) => Excused(r)'
                            /\ Settled(r) => Settled(r)'
                            /\ Complete(r) => Complete(r)'
        /\ Over => Over'
        /\ P!TypeOK
    BY ClosingSteps, WindingKeeps, OtherFacts DEF PipeInv
  <1>2. UNCHANGED <<written, consumed, taken, sent, received, put>>
    BY <1>1 DEF Winding
  <1>3. CASE (\E p \in Sides : P!AppClose(p)) \/ P!LinkBreaks \/ P!Connect
    <2>1. /\ UNCHANGED <<fin, stopped, eof, cut, reset, t1, t2>>
          /\ \A r \in Sides : pipe'[r] = "ended" => pipe[r] = "ended"
      BY <1>1, <1>3 DEF P!AppClose, P!LinkBreaks, P!Connect, P!t1Vars, P!t2Vars, P!endVars,
         P!TypeOK, Sides
    <2>2. ASSUME NEW r \in Sides PROVE Ends(r)'
      BY <1>1, <1>2, <2>1 DEF Ends, Winding
    <2>3. (\E r \in Sides : EndSeen(r)') => Over'
      BY <1>1, <2>1 DEF PipeInv, EndSeen
    <2> QED
      BY <2>2, <2>3
  <1>4. CASE P!ConnectFails
    <2>1. /\ refused' /\ UNCHANGED <<eof, t1, t2>>
          /\ stopped' = [stopped EXCEPT !["near"] = TRUE]
          /\ pipe' = [pipe EXCEPT !["far"] = "ended"]
          /\ fin' = [fin EXCEPT !["far"] = TRUE]
      BY <1>4 DEF P!ConnectFails, P!t1Vars, P!t2Vars
    <2>2. \A r \in Sides : Excused(r)' /\ Settled(r)'
      BY <2>1 DEF Excused, Settled
    <2>3. ASSUME NEW r \in Sides
          PROVE  (stopped'[r] => pipe'[Other(r)] = "ended") /\ (fin[r] => fin'[r])
      <3>1. stopped[r] => pipe[Other(r)] = "ended"
        BY <1>1 DEF Ends
      <3> QED
        BY <1>1, <2>1, <3>1 DEF P!TypeOK, Sides, Other, P!Sides, P!Other
    <2>4. ASSUME NEW r \in Sides PROVE Ends(r)'
      BY <1>1, <2>1, <2>2, <2>3 DEF Ends
    <2> QED
      BY <2>1, <2>4 DEF Over
  <1> QED
    BY <1>3, <1>4

\* A copy task leaves its loop.  The sender does after the last chunk, or because
\* the receiver is gone; the receiver does after the last chunk, or because the
\* connection or its application is gone.
LEMMA TaskEnds ==
    ASSUME PipeInv, NEW p \in Sides, P!T1Eof(p) \/ P!T1Fails(p) \/ P!T2Eof(p) \/ P!T2Fails(p)
    PROVE  /\ \A r \in Sides : Ends(r)'
           /\ (\E r \in Sides : EndSeen(r)') => Over'
  <1>1. /\ Winding
        /\ \A r \in Sides : /\ Ends(r) /\ Counts(r) /\ Holding(r) /\ Other(r) \in Sides
                            /\ Excused(r) => Excused(r)'
                            /\ Settled(r) => Settled(r)'
                            /\ Complete(r) => Complete(r)'
        /\ Over => Over'
        /\ P!TypeOK /\ p \in P!Sides
        /\ Other(p) \in Sides /\ Other(Other(p)) = p /\ Other(p) # p
        /\ pipe[p] = "run"
    BY ClosingSteps, WindingKeeps, OtherFacts
       DEF PipeInv, Sides, P!T1Eof, P!T1Fails, P!T2Eof, P!T2Fails
  <1>2. /\ UNCHANGED <<written, consumed, taken, sent, received, put>>
        /\ UNCHANGED <<app, pipe, stopped, link, refused>>
    BY <1>1 DEF Winding, P!T1Eof, P!T1Fails, P!T2Eof, P!T2Fails, P!T1Ends, P!T2Ends, P!appVars
  <1>3. CASE P!T1Eof(p) \/ P!T1Fails(p)
    <2>1. /\ UNCHANGED <<t2, eof, reset>>
          /\ t1'[p] = "done" /\ fin'[p]
          /\ \A r \in Sides : r # p => t1'[r] = t1[r] /\ fin'[r] = fin[r]
          /\ \A r \in Sides : r # p => cut'[r] = cut[r]
      BY <1>1, <1>3 DEF P!T1Eof, P!T1Fails, P!T1Ends, P!t2Vars, P!TypeOK, Sides
    <2>2. Excused(p)' /\ (Complete(p)' \/ Settled(Other(p))') /\ Over'
      <3>1. CASE P!T1Eof(p)
        <4>1. app[p] # "open" /\ taken[p] = written[p] /\ t1[p] = "read"
          BY <3>1 DEF P!T1Eof
        <4>2. sent[p] = written[p]
          BY <1>1, <4>1 DEF Holding
        <4> QED
          BY <1>2, <4>1, <4>2 DEF Excused, Complete, Over
      <3>2. CASE P!T1Fails(p) /\ link = "broken"
        BY <1>2, <3>2 DEF Excused, Settled, Over
      <3>3. CASE P!T1Fails(p) /\ stopped[p]
        <4>1. cut'[p] /\ pipe[Other(p)] = "ended"
          BY <1>1, <3>3 DEF P!T1Fails, P!TypeOK, Sides, Ends
        <4>2. EndSeen(p)
          BY <3>3 DEF EndSeen
        <4> QED
          BY <1>1, <1>2, <4>1, <4>2 DEF PipeInv, Excused, Settled
      <3> QED
        BY <1>3, <3>1, <3>2, <3>3 DEF P!T1Fails
    <2>3. ASSUME NEW r \in Sides PROVE Ends(r)'
      <3>1. CASE r = p
        BY <1>1, <1>2, <2>1, <2>2, <3>1 DEF Ends, Settled
      <3>2. CASE r # p
        BY <1>1, <1>2, <2>1, <3>2 DEF Ends
      <3> QED
        BY <3>1, <3>2
    <2> QED
      BY <2>2, <2>3
  <1>4. CASE P!T2Eof(p) \/ P!T2Fails(p)
    <2>1. /\ UNCHANGED <<t1, fin, cut>>
          /\ t2'[p] = "done" /\ eof'[p]
          /\ \A r \in Sides : r # p => t2'[r] = t2[r] /\ eof'[r] = eof[r] /\ reset'[r] = reset[r]
      BY <1>1, <1>4 DEF P!T2Eof, P!T2Fails, P!T2Ends, P!t1Vars, P!TypeOK, Sides
    <2>2. /\ Settled(Other(p))' /\ Over'
          /\ Excused(p)' \/ (Complete(Other(p))' /\ put[p] = sent[Other(p)])
      <3>1. CASE P!T2Eof(p)
        <4>1. /\ fin[Other(p)] /\ received[p] = sent[Other(p)] /\ received[p] = put[p]
          BY <1>1, <3>1 DEF P!T2Eof, Holding, Other
        <4>2. Settled(Other(p)) /\ (Complete(Other(p)) \/ Settled(p))
          BY <1>1, <4>1 DEF Ends
        <4>3. Complete(Other(p)) \/ Excused(p)
          BY <1>1, <4>2 DEF Settled
        <4>4. EndSeen(Other(p))
          BY <4>1 DEF EndSeen
        <4> QED
          BY <1>1, <4>1, <4>2, <4>3, <4>4 DEF PipeInv
      <3>2. CASE P!T2Fails(p) /\ link = "broken"
        BY <1>2, <3>2 DEF Excused, Settled, Over
      <3>3. CASE P!T2Fails(p) /\ t2[p] = "write" /\ app[p] = "closed"
        <4>1. reset'[p]
          BY <1>1, <3>3 DEF P!T2Fails, P!TypeOK, Sides
        <4> QED
          BY <1>1, <1>2, <3>3, <4>1 DEF Excused, Settled, Over
      <3> QED
        BY <1>4, <3>1, <3>2, <3>3 DEF P!T2Fails
    <2>3. ASSUME NEW r \in Sides PROVE Ends(r)'
      <3>1. CASE r = p
        BY <1>1, <1>2, <2>1, <2>2, <3>1 DEF Ends
      <3>2. CASE r # p
        BY <1>1, <1>2, <2>1, <3>2 DEF Ends
      <3> QED
        BY <3>1, <3>2
    <2> QED
      BY <2>2, <2>3
  <1> QED
    BY <1>3, <1>4

\* The first task to be done has the other one aborted and both streams dropped.
LEMMA PipeEndsEnds ==
    ASSUME PipeInv, NEW p \in Sides, P!PipeEnds(p)
    PROVE  /\ \A r \in Sides : Ends(r)'
           /\ (\E r \in Sides : EndSeen(r)') => Over'
  <1>1. /\ Winding
        /\ \A r \in Sides : /\ Ends(r) /\ Other(r) \in Sides
                            /\ Excused(r) => Excused(r)'
                            /\ Settled(r) => Settled(r)'
                            /\ Complete(r) => Complete(r)'
        /\ Over => Over'
        /\ P!TypeOK /\ p \in P!Sides
        /\ Other(p) \in Sides /\ Other(Other(p)) = p /\ Other(p) # p
        /\ \A r \in Sides : r = p \/ r = Other(p)
        /\ t1[p] = "done" \/ t2[p] = "done"
    BY ClosingSteps, WindingKeeps, OtherFacts DEF PipeInv, Sides, P!PipeEnds
  <1>2. UNCHANGED <<written, consumed, taken, sent, received, put>>
    BY <1>1 DEF Winding
  <1>3. /\ pipe'[p] = "ended" /\ t1'[p] = "off" /\ t2'[p] = "off" /\ fin'[p] /\ eof'[p]
        /\ stopped'[p] = stopped[p]
        /\ \A r \in Sides : r # p => /\ pipe'[r] = pipe[r] /\ t1'[r] = t1[r] /\ t2'[r] = t2[r]
                                     /\ fin'[r] = fin[r] /\ eof'[r] = eof[r]
    BY <1>1 DEF P!PipeEnds, P!TypeOK, Sides, Other
  <1>4. Over'
    BY <1>1 DEF PipeInv, EndSeen
  <1>5. Ends(p)'
    <2>1. Complete(p)' \/ Settled(Other(p))'
      BY <1>1 DEF Ends
    <2>2. Excused(p)' \/ (Complete(Other(p))' /\ put'[p] = sent'[Other(p)])
      BY <1>1, <1>2 DEF Ends
    <2>3. stopped[p] => pipe'[Other(p)] = "ended"
      BY <1>1, <1>3 DEF Ends
    <2> QED
      BY <1>3, <2>1, <2>2, <2>3 DEF Ends, Settled
  <1>6. Ends(Other(p))'
    <2>1. Ends(Other(p))
      BY <1>1
    <2> QED
      BY <1>1, <1>2, <1>3, <2>1 DEF Ends
  <1> QED
    BY <1>1, <1>4, <1>5, <1>6

\* Every step of the pipe keeps its invariant, and no application that has closed
\* is open again.
LEMMA PipeStep ==
    ASSUME PipeInv, P!Next
    PROVE  PipeInv' /\ \A r \in Sides : app'[r] = "open" => app[r] = "open"
  <1>1. ASSUME NEW p \in Sides,
               \/ P!AppWrite(p) \/ P!AppRead(p) \/ P!T1Read(p) \/ P!T1Write(p)
               \/ P!T2Read(p) \/ P!T2Write(p)
        PROVE  PipeInv' /\ app' = app
    <2>1. app' = app
      BY <1>1 DEF P!AppWrite, P!AppRead, P!T1Read, P!T1Write, P!T2Read, P!T2Write, P!appVars
    <2> QED
      BY <1>1, <2>1, DataSteps, DataEnds DEF PipeInv
  <1>2. ASSUME \/ \E p \in Sides : \/ P!AppClose(p) \/ P!T1Eof(p) \/ P!T1Fails(p)
                                   \/ P!T2Eof(p) \/ P!T2Fails(p) \/ P!PipeEnds(p)
               \/ P!LinkBreaks \/ P!Connect \/ P!ConnectFails
        PROVE  PipeInv' /\ \A r \in Sides : app'[r] = "open" => app[r] = "open"
    <2>1. P!TypeOK' /\ Winding
      BY <1>2, ClosingSteps
    <2>2. \A r \in Sides : Counts(r)' /\ Holding(r)'
      BY <2>1, WindingKeeps
    <2>3. (\A r \in Sides : Ends(r)') /\ ((\E r \in Sides : EndSeen(r)') => Over')
      BY <1>2, OutsideEnds, TaskEnds, PipeEndsEnds
    <2> QED
      BY <2>1, <2>2, <2>3 DEF PipeInv, Winding
  <1>3. ASSUME UNCHANGED P!vars PROVE PipeInv' /\ app' = app
    BY <1>3 DEF P!vars, P!appVars, P!t1Vars, P!t2Vars, P!endVars, PipeInv, P!TypeOK, Counts,
       Holding, Ends, Settled, Excused, Complete, EndSeen, Over
  <1> QED
    BY <1>1, <1>2, <1>3 DEF P!Next, P!Side, P!Ended, Sides
-----------------------------------------------------------------------------
(* The X client's set-up.                                                  *)

\* The comparison of process_x11_setup is the prefix test.
LEMMA AuthenticIsPrefix ==
    ASSUME NEW c
    PROVE  Authentic(c) <=> IsPrefix(FakeCookie, c)
  <1>1. FakeCookie \in Seq(Nat) /\ Len(FakeCookie) \in Nat
    BY ForwardedStreamAssumption, LenProperties
  <1>2. SubSeq(FakeCookie, 1, Len(FakeCookie)) = FakeCookie
    BY <1>1, SubSeqFull
  <1>3. Len(c) >= Len(FakeCookie) <=> Len(FakeCookie) <= Len(c)
    OBVIOUS
  <1> QED
    BY <1>2, <1>3 DEF Authentic, IsPrefix

\* Nothing in the pipe changes: its invariant stays.
LEMMA PipeStutter ==
    ASSUME PipeInv, UNCHANGED pipeVars
    PROVE  PipeInv'
  BY DEF pipeVars, endVars, dataVars, PipeInv, P!TypeOK, Counts, Holding, Ends, Settled,
     Excused, Complete, EndSeen, Over

\* A task that returns before it pipes leaves an ended pipe, refused.
LEMMA DropStep ==
    ASSUME IInv, SettingUp, Drop,
           \/ taken' = taken
           \/ taken["near"] < written["near"] /\ taken' = [taken EXCEPT !["near"] = @ + 1]
    PROVE  PipeInv' /\ sent'["near"] = 0 /\ \A p \in Sides : pipe'[p] = "ended"
  <1>1. /\ PipeInv /\ P!TypeOK /\ Fresh /\ "near" \in Sides /\ "far" \in Sides
        /\ \A r \in Sides : Counts(r) /\ Ends(r) /\ Other(r) \in Sides
    BY OtherFacts DEF IInv, Admitted, PipeInv, Sides, P!Sides
  <1>2. /\ UNCHANGED <<app, written, consumed, sent, fin, stopped, received, put, link, cut, reset>>
        /\ \A r \in Sides : pipe'[r] = "ended" /\ t1'[r] = "off" /\ t2'[r] = "off"
        /\ refused'
    BY DEF Drop, dataVars, Sides
  <1>3. \A r \in Sides : taken'[r] \in Nat /\ taken[r] <= taken'[r] /\ taken'[r] <= written[r]
    BY <1>1, Numbers DEF P!TypeOK, Sides, Counts
  <1>4. P!TypeOK'
    <2>1. taken' \in [Sides -> 0 .. MaxChunks]
      BY <1>1, Numbers DEF P!TypeOK, Sides
    <2>2. /\ pipe' = [r \in Sides |-> "ended"]
          /\ t1' = [r \in Sides |-> "off"] /\ t2' = [r \in Sides |-> "off"]
      BY DEF Drop, Sides
    <2>3. eof' \in [Sides -> BOOLEAN]
      BY <1>1 DEF Drop, P!TypeOK, Sides
    <2>4. refused' \in BOOLEAN
      BY DEF Drop
    <2> QED
      BY <1>1, <1>2, <2>1, <2>2, <2>3, <2>4 DEF P!TypeOK, Sides
  <1>5. ASSUME NEW r \in Sides PROVE Counts(r)'
    BY <1>1, <1>2, <1>3, Numbers DEF Counts
  <1>6. ASSUME NEW r \in Sides PROVE Holding(r)' /\ Ends(r)'
    BY <1>1, <1>2 DEF Holding, Ends, Settled, Excused
  <1>7. Over'
    BY <1>2 DEF Over
  <1> QED
    BY <1>1, <1>2, <1>4, <1>5, <1>6, <1>7 DEF PipeInv, Fresh

\* Connections come and go while an X client is being set up.
LEMMA ConnSteps ==
    ASSUME IInv, CookieStored \/ ConnFilled \/ ConnBreaks \/ ConnCleared
    PROVE  IInv'
  <1>1. UNCHANGED <<pipeVars, kind, cookie, offer, setup, conn, block>> /\ SettingUp
    BY DEF CookieStored, ConnFilled, ConnBreaks, ConnCleared
  <1>2. PipeInv'
    BY <1>1, PipeStutter DEF IInv
  <1>3. UNCHANGED <<app, pipe, t1, t2, eof, refused, sent, fin, stopped, received, put, link, cut,
                    reset, taken>>
    BY <1>1 DEF pipeVars, endVars, dataVars
  <1>4. TypeOK'
    <2>1. /\ active_conn' \in 0 .. MaxConns /\ conns' \in 0 .. MaxConns
          /\ dead' \subseteq 1 .. MaxConns
      <3>1. /\ MaxConns \in Nat /\ active_conn \in 0 .. MaxConns /\ conns \in 0 .. MaxConns
            /\ dead \subseteq 1 .. MaxConns
        BY ForwardedStreamAssumption DEF IInv, TypeOK
      <3>2. \/ UNCHANGED <<active_conn, conns, dead>>
            \/ /\ conns < MaxConns /\ conns' = conns + 1 /\ active_conn' = conns + 1
               /\ UNCHANGED dead
            \/ /\ active_conn # 0 /\ dead' = dead \cup {active_conn}
               /\ UNCHANGED <<active_conn, conns>>
            \/ active_conn' = 0 /\ UNCHANGED <<conns, dead>>
        BY DEF CookieStored, ConnFilled, ConnBreaks, ConnCleared
      <3>3. conns < MaxConns => conns + 1 \in 0 .. MaxConns
        BY <3>1
      <3>4. 0 \in 0 .. MaxConns /\ (active_conn # 0 => active_conn \in 1 .. MaxConns)
        BY <3>1
      <3> QED
        BY <3>1, <3>2, <3>3, <3>4
    <2>2. real_cookie' \in BOOLEAN
      BY DEF IInv, TypeOK, CookieStored, ConnFilled, ConnBreaks, ConnCleared
    <2> QED
      BY <1>1, <2>1, <2>2 DEF IInv, TypeOK
  <1>5. active_conn' # 0 => real_cookie'
    BY DEF IInv, Admitted, CookieStored, ConnFilled, ConnBreaks, ConnCleared
  <1>6. SettingUp' /\ Fresh'
    BY <1>1, <1>3 DEF IInv, Admitted, SettingUp, Fresh
  <1>7. setup # "dropped"
    BY <1>1 DEF SettingUp
  <1>8. Admitted'
    BY <1>1, <1>5, <1>6, <1>7 DEF IInv, Admitted
  <1> QED
    BY <1>2, <1>4, <1>8 DEF IInv

\* The X client writes, or closes.
LEMMA XClientStep ==
    ASSUME IInv, XClient
    PROVE  IInv'
  <1>1. SettingUp /\ UNCHANGED setupVars /\ (P!AppWrite("near") \/ P!AppClose("near"))
    BY DEF XClient
  <1>2. P!Next
    BY <1>1 DEF P!Next, P!Side, P!Sides
  <1>3. PipeInv'
    BY <1>2, PipeStep DEF IInv
  <1>4. UNCHANGED <<pipe, t1, t2, eof, refused, sent, fin, stopped, received, put, link, cut,
                    reset, taken>>
    BY <1>1 DEF P!AppWrite, P!AppClose, P!t1Vars, P!t2Vars, P!endVars
  <1>5. UNCHANGED <<kind, cookie, offer, setup, real_cookie, active_conn, conns, dead, conn, block>>
    BY <1>1 DEF setupVars
  <1>6. TypeOK' /\ Fresh' /\ SettingUp' /\ setup # "dropped"
    BY <1>1, <1>4, <1>5 DEF IInv, Admitted, TypeOK, SettingUp, Fresh
  <1>7. Admitted'
    BY <1>5, <1>6 DEF IInv, Admitted
  <1> QED
    BY <1>3, <1>6, <1>7 DEF IInv

\* Both ends of a piped stream, or what is left of one that was turned away.
LEMMA PipedStep ==
    ASSUME IInv, Pipe
    PROVE  IInv'
  <1>1. /\ setup \in {"piped", "dropped"} /\ P!Next
        /\ UNCHANGED <<kind, cookie, offer, setup, real_cookie, active_conn, conns, dead,
                       conn, block>>
    BY DEF Pipe, setupVars
  <1>2. PipeInv' /\ (app'["near"] = "open" => app["near"] = "open")
    BY <1>1, PipeStep DEF IInv, Sides, P!Sides
  <1>3. TypeOK' /\ ~SettingUp'
    BY <1>1 DEF IInv, TypeOK, SettingUp
  <1>4. ASSUME setup = "dropped" PROVE sent'["near"] = 0 /\ \A p \in Sides : pipe'[p] = "ended"
    <2>1. sent["near"] = 0 /\ \A p \in P!Sides : pipe[p] = "ended"
      BY <1>4 DEF IInv, Admitted, Sides
    <2>2. sent' = sent /\ pipe' = pipe
      BY <1>1, <2>1 DEF P!Next, P!Side, P!AppWrite, P!AppRead, P!AppClose, P!T1Read, P!T1Write,
         P!T1Eof, P!T1Fails, P!T2Read, P!T2Write, P!T2Eof, P!T2Fails, P!PipeEnds, P!LinkBreaks,
         P!Connect, P!ConnectFails, P!Ended, P!vars, P!t1Vars, P!endVars, P!Sides
    <2> QED
      BY <2>1, <2>2 DEF Sides
  <1>5. Admitted'
    BY <1>1, <1>2, <1>3, <1>4 DEF IInv, Admitted
  <1> QED
    BY <1>2, <1>3, <1>5 DEF IInv

\* The X client's task, up to the opened stream or its early end.
LEMMA TaskSteps ==
    ASSUME IInv, Task
    PROVE  IInv'
  <1>1. /\ TypeOK /\ PipeInv /\ P!TypeOK /\ Admitted /\ SettingUp /\ Fresh /\ setup # "dropped"
        /\ kind = "x11" /\ "near" \in Sides /\ "far" \in Sides /\ MaxConns \in Nat
    BY ForwardedStreamAssumption DEF IInv, PipeInv, TypeOK, Admitted, Task, Accept, ReadSetup,
       SetupEof, OpenStream, OpenFails, SettingUp, Sides, P!Sides
  <1>2. /\ UNCHANGED <<kind, cookie, offer, real_cookie>>
        /\ conn' \in {conn, active_conn, 0} /\ active_conn' \in {active_conn, 0}
        /\ conns' \in {conns, 0} /\ dead' \in {dead, {}}
        /\ block' \in {block, "real", "empty"}
        /\ setup' \in {"read", "open", "piped", "dropped"}
    BY DEF Task, Accept, ReadSetup, SetupEof, OpenStream, OpenFails, Drop
  <1>3. TypeOK' /\ (active_conn' # 0 => real_cookie')
    BY <1>1, <1>2 DEF TypeOK, Admitted
  <1>4. ASSUME Drop, UNCHANGED block,
               taken' = taken
                  \/ (taken["near"] < written["near"] /\ taken' = [taken EXCEPT !["near"] = @ + 1]),
               ~IsPrefix(FakeCookie, offer) \/ app["near"] # "open" \/ conn' = 0 \/ conn' \in dead'
        PROVE  IInv'
    <2>1. PipeInv' /\ sent'["near"] = 0 /\ \A p \in Sides : pipe'[p] = "ended"
      BY <1>1, <1>4, DropStep
    <2>2. setup' = "dropped" /\ app' = app
      BY <1>4 DEF Drop, dataVars
    <2>3. ~SettingUp'
      BY <2>2 DEF SettingUp
    <2>4. Admitted'
      BY <1>1, <1>2, <1>3, <1>4, <2>1, <2>2, <2>3 DEF Admitted
    <2> QED
      BY <1>3, <2>1, <2>4 DEF IInv
  <1>5. CASE Accept /\ active_conn # 0 /\ real_cookie
    <2>1. UNCHANGED pipeVars /\ setup = "accept" /\ setup' = "read"
      BY <1>5 DEF Accept
    <2>2. PipeInv'
      BY <1>1, <2>1, PipeStutter
    <2>3. Fresh'
      BY <1>1, <2>1 DEF Fresh, pipeVars, endVars, dataVars
    <2>4. Admitted'
      BY <1>1, <1>2, <1>3, <2>1, <2>3 DEF Admitted
    <2> QED
      BY <1>3, <2>2, <2>4 DEF IInv
  <1>6. CASE Accept /\ ~(active_conn # 0 /\ real_cookie)
    <2>1. Drop /\ UNCHANGED <<block, taken>> /\ conn' = active_conn
      BY <1>6 DEF Accept
    <2>2. conn' = 0
      BY <1>1, <1>6, <2>1 DEF Admitted
    <2> QED
      BY <1>4, <2>1, <2>2
  <1>7. CASE ReadSetup
    <2>1. /\ setup = "read" /\ taken["near"] < written["near"]
          /\ taken' = [taken EXCEPT !["near"] = @ + 1]
      BY <1>7 DEF ReadSetup
    <2>2. CASE ~Authentic(offer)
      <3>1. Drop /\ UNCHANGED block /\ ~IsPrefix(FakeCookie, offer)
        BY <1>7, <2>2, AuthenticIsPrefix DEF ReadSetup
      <3> QED
        BY <1>4, <2>1, <3>1
    <2>3. CASE Authentic(offer)
      <3>1. /\ setup' = "open" /\ block' = IF cookie THEN "real" ELSE "empty"
            /\ UNCHANGED <<pipe, t1, t2, eof, refused, app, written, consumed, sent, fin, stopped,
                           received, put, link, cut, reset>>
            /\ IsPrefix(FakeCookie, offer)
        BY <1>7, <2>3, AuthenticIsPrefix DEF ReadSetup, endVars, dataVars
      <3>2. taken'["near"] = 1 /\ taken'["far"] = 0
        BY <1>1, <2>1 DEF Fresh, P!TypeOK, Sides
      <3>3. Fresh'
        BY <1>1, <3>1, <3>2 DEF Fresh
      <3>4. P!TypeOK'
        <4>1. taken' \in [Sides -> 0 .. MaxChunks]
          BY <1>1, <2>1, Numbers DEF P!TypeOK, Sides
        <4> QED
          BY <1>1, <3>1, <4>1 DEF P!TypeOK, Sides
      <3>5. ASSUME NEW r \in Sides PROVE Counts(r)'
        <4>1. r \in {"near", "far"} /\ Counts(r) /\ 1 <= written["near"]
          BY <1>1, <2>1, Numbers DEF Sides, P!Sides, PipeInv
        <4>2. taken'[r] <= written[r] /\ sent[r] = 0 /\ taken'[r] \in {0, 1}
          BY <1>1, <3>2, <4>1, Numbers DEF Fresh
        <4> QED
          BY <1>1, <3>1, <4>1, <4>2 DEF Counts
      <3>6. ASSUME NEW r \in Sides PROVE Holding(r)' /\ Ends(r)' /\ ~EndSeen(r)'
        BY <3>3 DEF Fresh, Holding, Ends, EndSeen
      <3>7. PipeInv'
        BY <3>4, <3>5, <3>6 DEF PipeInv
      <3>8. Admitted'
        BY <1>1, <1>2, <1>3, <3>1, <3>3 DEF Admitted
      <3> QED
        BY <1>3, <3>7, <3>8 DEF IInv
    <2> QED
      BY <2>2, <2>3
  <1>8. CASE SetupEof \/ OpenFails
    <2>1. Drop /\ UNCHANGED <<block, taken, conn, dead>> /\ (app["near"] # "open" \/ conn \in dead)
      BY <1>8 DEF SetupEof, OpenFails
    <2> QED
      BY <1>4, <2>1
  <1>9. CASE OpenStream
    <2>1. /\ setup = "open" /\ setup' = "piped" /\ block' = block
          /\ pipe' = [p \in Sides |-> IF p = "near" THEN "run" ELSE "wait"]
          /\ sent' = [sent EXCEPT !["near"] = 1] /\ link' \in {"up", "broken"}
          /\ UNCHANGED <<t1, t2, eof, refused, app, written, consumed, fin, stopped, received, put,
                         cut, reset, taken>>
      BY <1>9 DEF OpenStream, P!Opened, Sides
    <2>2. taken["near"] = 1 /\ sent'["near"] = 1 /\ sent'["far"] = 0 /\ taken["far"] = 0
      BY <1>1, <2>1 DEF Fresh, P!TypeOK, Sides
    <2>3. P!TypeOK'
      <3>1. 1 \in 0 .. MaxChunks
        BY <1>1, <2>2, Numbers DEF PipeInv, Counts
      <3>2. sent' \in [Sides -> 0 .. MaxChunks]
        BY <1>1, <2>1, <3>1 DEF P!TypeOK, Sides
      <3>3. pipe' \in [Sides -> {"idle", "wait", "run", "ended"}]
        BY <2>1
      <3> QED
        BY <1>1, <2>1, <3>2, <3>3 DEF P!TypeOK, Sides
    <2>4. ASSUME NEW r \in Sides PROVE Counts(r)' /\ Holding(r)' /\ Ends(r)' /\ ~EndSeen(r)'
      <3>1. r \in {"near", "far"} /\ Counts(r)
        BY <1>1 DEF Sides, P!Sides, PipeInv
      <3>2. /\ t1[r] = "read" /\ t2[r] = "read" /\ received[r] = 0 /\ put[r] = 0
            /\ ~fin[r] /\ ~eof[r] /\ ~stopped[r] /\ ~cut[r] /\ ~reset[r]
        BY <1>1 DEF Fresh
      <3>3. sent'[r] = taken[r] /\ sent'[r] \in Nat /\ pipe'[r] # "ended"
        BY <2>1, <2>2, <3>1
      <3>4. sent'[Other(r)] \in Nat /\ 0 <= sent'[Other(r)]
        BY <2>2, <3>1 DEF Other, P!Other
      <3>5. Counts(r)'
        BY <1>1, <2>1, <3>1, <3>2, <3>3, <3>4, Numbers DEF Counts
      <3>6. Holding(r)'
        BY <2>1, <3>2, <3>3 DEF Holding
      <3>7. Ends(r)' /\ ~EndSeen(r)'
        BY <2>1, <3>2, <3>3 DEF Ends, EndSeen
      <3> QED
        BY <3>5, <3>6, <3>7
    <2>5. PipeInv'
      BY <2>3, <2>4 DEF PipeInv
    <2>6. ~SettingUp'
      BY <2>1 DEF SettingUp
    <2>7. Admitted'
      BY <1>1, <1>2, <1>3, <2>1, <2>6 DEF Admitted
    <2> QED
      BY <1>3, <2>5, <2>7 DEF IInv
  <1> QED
    BY <1>5, <1>6, <1>7, <1>8, <1>9 DEF Task

-----------------------------------------------------------------------------
(* The results.                                                            *)

\* A stream just accepted, or an X client just connected.
LEMMA InitInv == Init => IInv
  <1> SUFFICES ASSUME Init PROVE IInv
    OBVIOUS
  <1>1. MaxConns \in Nat /\ MaxChunks \in Nat
    BY ForwardedStreamAssumption DEF P!TcpPipeAssumption
  <1>2. TypeOK
    <2>1. kind \in {"tcp", "x11"} /\ offer \in Offers \cup {<<>>} /\ setup \in {"piped", "accept"}
      BY DEF Init
    <2>2. cookie \in BOOLEAN /\ real_cookie \in BOOLEAN
      BY DEF Init
    <2>3. active_conn = 0 /\ conns = 0 /\ dead = {} /\ conn = 0 /\ block = "none"
      BY DEF Init
    <2> QED
      BY <1>1, <2>1, <2>2, <2>3 DEF TypeOK
  <1>3. PICK pipes \in [Sides -> {"idle", "wait", "run"}] :
            P!Start(pipes) /\ (kind = "x11" => pipes = [p \in Sides |-> "idle"])
    BY DEF Init, P!Opened, Sides
  <1>4. P!TypeOK
    <2>1. 0 \in 0 .. MaxChunks
      BY <1>1
    <2> QED
      BY <1>3, <2>1 DEF P!Start, P!TypeOK, Sides
  <1>5. ASSUME NEW p \in Sides
        PROVE  /\ app[p] = "open" /\ written[p] = 0 /\ consumed[p] = 0 /\ pipe[p] # "ended"
               /\ t1[p] = "read" /\ t2[p] = "read" /\ taken[p] = 0 /\ sent[p] = 0
               /\ received[p] = 0 /\ put[p] = 0 /\ sent[Other(p)] = 0
               /\ ~fin[p] /\ ~stopped[p] /\ ~eof[p] /\ ~cut[p] /\ ~reset[p]
    BY <1>3, OtherFacts DEF P!Start, Sides
  <1>6. PipeInv
    BY <1>4, <1>5 DEF PipeInv, Counts, Holding, Ends, EndSeen
  <1>7. kind = "x11" => Fresh
    BY <1>3, <1>5 DEF Init, Fresh, P!Start, Sides, P!Sides
  <1>8. Admitted
    BY <1>7 DEF Init, Admitted, SettingUp
  <1> QED
    BY <1>2, <1>6, <1>8 DEF IInv

\* Every step of a connection, the X client's task or the pipe keeps the invariant.
LEMMA NextInv == IInv /\ [Next]_vars => IInv'
  <1> SUFFICES ASSUME IInv, [Next]_vars PROVE IInv'
    OBVIOUS
  <1>1. CASE UNCHANGED vars
    <2>1. UNCHANGED <<pipeVars, kind, cookie, offer, setup, real_cookie, active_conn, conns, dead,
                      conn, block>>
      BY <1>1 DEF vars, setupVars
    <2>2. PipeInv'
      BY <2>1, PipeStutter DEF IInv
    <2> QED
      BY <2>1, <2>2 DEF IInv, TypeOK, Admitted, SettingUp, Fresh, pipeVars, endVars, dataVars
  <1>2. CASE CookieStored \/ ConnFilled \/ ConnBreaks \/ ConnCleared
    BY <1>2, ConnSteps
  <1>3. CASE XClient
    BY <1>3, XClientStep
  <1>4. CASE Task
    BY <1>4, TaskSteps
  <1>5. CASE Pipe
    BY <1>5, PipedStep
  <1> QED
    BY <1>1, <1>2, <1>3, <1>4, <1>5 DEF Next

\* The inductive invariant holds in every reachable state of a forwarded stream.
THEOREM Invariance == Spec => []IInv
  BY InitInv, NextInv, PTL DEF Spec

\* Every state variable of set-up and pipe keeps its type.
THEOREM TypeCorrect == Spec => [](TypeOK /\ P!TypeOK)
  <1>1. IInv => TypeOK /\ P!TypeOK
    BY DEF IInv, PipeInv
  <1> QED
    BY <1>1, Invariance, PTL

\* An early end of a forwarded stream always has one of the named causes, for any
\* amount of data and any buffer sizes.
THEOREM TruncatedForAReason == Spec => []TruncationExplained
  <1>1. IInv => TruncationExplained
    <2> SUFFICES ASSUME IInv, NEW p \in Sides, eof[p], put[p] < written[Other(p)]
                 PROVE  Excused(p)
      BY DEF TruncationExplained, P!TruncationExplained, Excused, Sides, Other
    <2>1. Excused(p) \/ (Complete(Other(p)) /\ put[p] = sent[Other(p)])
      BY DEF IInv, PipeInv, Ends
    <2>2. Other(p) \in Sides /\ put[p] \in Nat /\ written[Other(p)] \in Nat
      BY OtherFacts, Numbers DEF IInv
    <2> QED
      BY <2>1, <2>2 DEF Complete
  <1> QED
    BY <1>1, Invariance, PTL

\* No application sees the end of the stream before anybody has ended it.
THEOREM EofHasACause == Spec => []NoSpuriousEof
  <1>1. IInv => NoSpuriousEof
    BY DEF IInv, PipeInv, EndSeen, Over, NoSpuriousEof, P!NoSpuriousEof, Sides
  <1> QED
    BY <1>1, Invariance, PTL

\* Only X clients that know the fake cookie get through, with the right cookie in
\* its place, and such a client is turned away for want of a connection only.
THEOREM OnlyAdmitted == Spec => []X11Admission
  <1>1. IInv => X11Admission
    <2> SUFFICES ASSUME IInv, kind = "x11" PROVE X11Admission
      BY DEF X11Admission
    <2>1. sent["near"] > 0 => setup = "piped"
      <3>1. SettingUp => sent["near"] = 0
        BY DEF IInv, Admitted, Fresh, Sides, P!Sides
      <3>2. setup = "dropped" => sent["near"] = 0
        BY DEF IInv, Admitted
      <3> QED
        BY <3>1, <3>2 DEF IInv, TypeOK, SettingUp
    <2> QED
      BY <2>1 DEF IInv, Admitted, X11Admission
  <1> QED
    BY <1>1, Invariance, PTL
=============================================================================
