--------------------------- MODULE ClientLoopProofs ---------------------------
(***************************************************************************)
(* What holds however the tasks of run_session end: the types, the state   *)
(* of the terminal, the end-of-file of a remote command, and the reasons   *)
(* for a successful exit.                                                  *)
(***************************************************************************)
EXTENDS ClientLoop, TLAPS

\* The types in two parts: the flags, and the places with the count of VEOFs.
FlagsOK ==
    /\ remote \in BOOLEAN /\ tty \in BOOLEAN
    /\ raw \in BOOLEAN
    /\ escape \in BOOLEAN /\ eof \in BOOLEAN
    /\ told \in BOOLEAN
    /\ signalled \in BOOLEAN
    /\ writeFail \in BOOLEAN

PlacesOK ==
    /\ pc \in {"delay", "dial", "opening", "running", "exit0", "exit1"}
    /\ link \in {"none", "up", "broken", "finished"}
    /\ task \in {"recv", "parked", "done"}
    /\ veofs \in 0 .. MaxVeofs

\* Raw mode: it needs a terminal, and the exits that leave the terminal alone
\* are taken when it is off.  A remote command never comes back to the loop's
\* top, so it dials only once, before raw mode.
TerminalInv ==
    /\ raw => tty
    /\ remote => pc # "delay"
    /\ remote /\ pc = "dial" => ~raw
    /\ TerminalRestored

\* VEOF: only a remote command's running session sends it, and eof_signalled
\* remembers it for as long as that session, its only one, lasts.
VeofInv ==
    /\ remote => pc # "delay"
    /\ ~remote => veofs = 0
    /\ pc \in {"dial", "opening"} => veofs = 0
    /\ pc = "running" /\ ~signalled => veofs = 0
    /\ VeofAtMostOnce

\* The server ends the streams only after its Disconnect.
SuccessInv ==
    /\ link = "finished" => told
    /\ SuccessExplained

\* The first dial: cooked terminal, nothing sent, nothing ended.
LEMMA InitInv == Init => FlagsOK /\ PlacesOK /\ TerminalInv /\ VeofInv /\ SuccessInv
  <1> SUFFICES ASSUME Init PROVE FlagsOK /\ PlacesOK /\ TerminalInv /\ VeofInv /\ SuccessInv
    OBVIOUS
  <1>1. FlagsOK
    BY Zenon DEF Init, FlagsOK
  <1>2. PlacesOK
    BY DEF Init, PlacesOK, MaxVeofs
  <1>3. TerminalInv
    BY DEF Init, TerminalInv, TerminalRestored, HasExited
  <1>4. VeofInv
    BY DEF Init, VeofInv, VeofAtMostOnce
  <1>5. SuccessInv
    BY DEF Init, SuccessInv, SuccessExplained
  <1> QED
    BY <1>1, <1>2, <1>3, <1>4, <1>5

\* Every step leaves a flag alone or gives it a truth value.
LEMMA FlagsStep == FlagsOK /\ [Next]_vars => FlagsOK'
  <1> SUFFICES ASSUME FlagsOK, [Next]_vars PROVE FlagsOK'
    OBVIOUS
  <1> USE DEF FlagsOK, config, input, session
  <1>1. CASE UNCHANGED vars
    BY <1>1, Zenon DEF vars
  <1>2. CASE TypeEscape
    BY <1>2, Zenon DEF TypeEscape
  <1>3. CASE StdinEnds
    BY <1>3, Zenon DEF StdinEnds
  <1>4. CASE LinkBreaks
    BY <1>4, Zenon DEF LinkBreaks
  <1>5. CASE ServerDisconnects
    BY <1>5, Zenon DEF ServerDisconnects
  <1>6. CASE ServerFinishes
    BY <1>6, Zenon DEF ServerFinishes
  <1>7. CASE DelayOver
    BY <1>7, Zenon DEF DelayOver
  <1>8. CASE DialFails
    BY <1>8, Zenon DEF DialFails, ExitAsIs, Reconnect
  <1>9. CASE DialOk
    BY <1>9, Zenon DEF DialOk, ExitAsIs
  <1>10. CASE OpenFails
    BY <1>10, Zenon DEF OpenFails, Failed, ExitWith, Reconnect
  <1>11. CASE OpenOk
    BY <1>11, Zenon DEF OpenOk
  <1>12. CASE SeesEscape
    BY <1>12, Zenon DEF SeesEscape, ExitWith
  <1>13. CASE ReadsDisconnect
    BY <1>13, Zenon DEF ReadsDisconnect, ExitWith
  <1>14. CASE ReadsEnd
    BY <1>14, Zenon DEF ReadsEnd, ExitWith
  <1>15. CASE ReadFails
    BY <1>15, Zenon DEF ReadFails, Failed, ExitWith, Reconnect
  <1>16. CASE StdinWriteFails
    BY <1>16, Zenon DEF StdinWriteFails, ExitWith
  <1>17. CASE StdinTaskEof
    BY <1>17, Zenon DEF StdinTaskEof, ExitWith
  <1>18. CASE CtrlWriteFails
    BY <1>18, Zenon DEF CtrlWriteFails, ExitWith
  <1> QED
    BY <1>1, <1>2, <1>3, <1>4, <1>5, <1>6, <1>7, <1>8, <1>9, <1>10, <1>11,
       <1>12, <1>13, <1>14, <1>15, <1>16, <1>17, <1>18
       DEF Next, Environment, Loop, Session, Exited

\* Every step leads to one of the loop's places, and VEOFs are bounded.
LEMMA PlacesStep == PlacesOK /\ [Next]_vars => PlacesOK'
  <1> SUFFICES ASSUME PlacesOK, [Next]_vars PROVE PlacesOK'
    OBVIOUS
  <1> USE DEF PlacesOK, MaxVeofs, config, input, session
  <1>1. CASE UNCHANGED vars
    BY <1>1 DEF vars
  <1>2. CASE TypeEscape
    BY <1>2 DEF TypeEscape
  <1>3. CASE StdinEnds
    BY <1>3 DEF StdinEnds
  <1>4. CASE LinkBreaks
    BY <1>4 DEF LinkBreaks
  <1>5. CASE ServerDisconnects
    BY <1>5 DEF ServerDisconnects
  <1>6. CASE ServerFinishes
    BY <1>6 DEF ServerFinishes
  <1>7. CASE DelayOver
    BY <1>7 DEF DelayOver
  <1>8. CASE DialFails
    BY <1>8 DEF DialFails, ExitAsIs, Reconnect
  <1>9. CASE DialOk
    BY <1>9 DEF DialOk, ExitAsIs
  <1>10. CASE OpenFails
    BY <1>10 DEF OpenFails, Failed, ExitWith, Reconnect
  <1>11. CASE OpenOk
    BY <1>11 DEF OpenOk
  <1>12. CASE SeesEscape
    BY <1>12 DEF SeesEscape, ExitWith
  <1>13. CASE ReadsDisconnect
    BY <1>13 DEF ReadsDisconnect, ExitWith
  <1>14. CASE ReadsEnd
    BY <1>14 DEF ReadsEnd, ExitWith
  <1>15. CASE ReadFails
    BY <1>15 DEF ReadFails, Failed, ExitWith, Reconnect
  <1>16. CASE StdinWriteFails
    BY <1>16 DEF StdinWriteFails, ExitWith
  <1>17. CASE StdinTaskEof
    BY <1>17 DEF StdinTaskEof, ExitWith
  <1>18. CASE CtrlWriteFails
    BY <1>18 DEF CtrlWriteFails, ExitWith
  <1> QED
    BY <1>1, <1>2, <1>3, <1>4, <1>5, <1>6, <1>7, <1>8, <1>9, <1>10, <1>11,
       <1>12, <1>13, <1>14, <1>15, <1>16, <1>17, <1>18
       DEF Next, Environment, Loop, Session, Exited

\* Every step keeps the terminal's invariant.
LEMMA TerminalStep == FlagsOK /\ TerminalInv /\ [Next]_vars => TerminalInv'
  <1> SUFFICES ASSUME FlagsOK, TerminalInv, [Next]_vars PROVE TerminalInv'
    OBVIOUS
  <1> USE DEF FlagsOK, TerminalInv, TerminalRestored, HasExited, config, input, session
  <1>1. CASE UNCHANGED vars
    BY <1>1 DEF vars
  <1>2. CASE TypeEscape
    BY <1>2 DEF TypeEscape
  <1>3. CASE StdinEnds
    BY <1>3 DEF StdinEnds
  <1>4. CASE LinkBreaks
    BY <1>4 DEF LinkBreaks
  <1>5. CASE ServerDisconnects
    BY <1>5 DEF ServerDisconnects
  <1>6. CASE ServerFinishes
    BY <1>6 DEF ServerFinishes
  <1>7. CASE DelayOver
    BY <1>7 DEF DelayOver
  <1>8. CASE DialFails
    BY <1>8 DEF DialFails, ExitAsIs, Reconnect
  <1>9. CASE DialOk
    BY <1>9 DEF DialOk, ExitAsIs
  <1>10. CASE OpenFails
    BY <1>10 DEF OpenFails, Failed, ExitWith, Reconnect
  <1>11. CASE OpenOk
    BY <1>11 DEF OpenOk
  <1>12. CASE SeesEscape
    BY <1>12 DEF SeesEscape, ExitWith
  <1>13. CASE ReadsDisconnect
    BY <1>13 DEF ReadsDisconnect, ExitWith
  <1>14. CASE ReadsEnd
    BY <1>14 DEF ReadsEnd, ExitWith
  <1>15. CASE ReadFails
    BY <1>15 DEF ReadFails, Failed, ExitWith, Reconnect
  <1>16. CASE StdinWriteFails
    BY <1>16 DEF StdinWriteFails, ExitWith
  <1>17. CASE StdinTaskEof
    BY <1>17 DEF StdinTaskEof, ExitWith
  <1>18. CASE CtrlWriteFails
    BY <1>18 DEF CtrlWriteFails, ExitWith
  <1> QED
    BY <1>1, <1>2, <1>3, <1>4, <1>5, <1>6, <1>7, <1>8, <1>9, <1>10, <1>11,
       <1>12, <1>13, <1>14, <1>15, <1>16, <1>17, <1>18
       DEF Next, Environment, Loop, Session, Exited

\* Every step keeps the invariant of the end-of-file.
LEMMA VeofStep == PlacesOK /\ VeofInv /\ [Next]_vars => VeofInv'
  <1> SUFFICES ASSUME PlacesOK, VeofInv, [Next]_vars PROVE VeofInv'
    OBVIOUS
  <1> USE DEF PlacesOK, VeofInv, VeofAtMostOnce, MaxVeofs, config, input, session
  <1>1. CASE UNCHANGED vars
    BY <1>1 DEF vars
  <1>2. CASE TypeEscape
    BY <1>2 DEF TypeEscape
  <1>3. CASE StdinEnds
    BY <1>3 DEF StdinEnds
  <1>4. CASE LinkBreaks
    BY <1>4 DEF LinkBreaks
  <1>5. CASE ServerDisconnects
    BY <1>5 DEF ServerDisconnects
  <1>6. CASE ServerFinishes
    BY <1>6 DEF ServerFinishes
  <1>7. CASE DelayOver
    BY <1>7 DEF DelayOver
  <1>8. CASE DialFails
    BY <1>8 DEF DialFails, ExitAsIs, Reconnect
  <1>9. CASE DialOk
    BY <1>9 DEF DialOk, ExitAsIs
  <1>10. CASE OpenFails
    BY <1>10 DEF OpenFails, Failed, ExitWith, Reconnect
  <1>11. CASE OpenOk
    BY <1>11 DEF OpenOk
  <1>12. CASE SeesEscape
    BY <1>12 DEF SeesEscape, ExitWith
  <1>13. CASE ReadsDisconnect
    BY <1>13 DEF ReadsDisconnect, ExitWith
  <1>14. CASE ReadsEnd
    BY <1>14 DEF ReadsEnd, ExitWith
  <1>15. CASE ReadFails
    BY <1>15 DEF ReadFails, Failed, ExitWith, Reconnect
  <1>16. CASE StdinWriteFails
    BY <1>16 DEF StdinWriteFails, ExitWith
  <1>17. CASE StdinTaskEof
    BY <1>17 DEF StdinTaskEof, ExitWith
  <1>18. CASE CtrlWriteFails
    BY <1>18 DEF CtrlWriteFails, ExitWith
  <1> QED
    BY <1>1, <1>2, <1>3, <1>4, <1>5, <1>6, <1>7, <1>8, <1>9, <1>10, <1>11,
       <1>12, <1>13, <1>14, <1>15, <1>16, <1>17, <1>18
       DEF Next, Environment, Loop, Session, Exited

\* Every step to a successful exit has one of the reasons.
LEMMA SuccessStep == SuccessInv /\ [Next]_vars => SuccessInv'
  <1> SUFFICES ASSUME SuccessInv, [Next]_vars PROVE SuccessInv'
    OBVIOUS
  <1> USE DEF SuccessInv, SuccessExplained, config, input, session
  <1>1. CASE UNCHANGED vars
    BY <1>1 DEF vars
  <1>2. CASE TypeEscape
    BY <1>2 DEF TypeEscape
  <1>3. CASE StdinEnds
    BY <1>3 DEF StdinEnds
  <1>4. CASE LinkBreaks
    BY <1>4 DEF LinkBreaks
  <1>5. CASE ServerDisconnects
    BY <1>5 DEF ServerDisconnects
  <1>6. CASE ServerFinishes
    BY <1>6 DEF ServerFinishes
  <1>7. CASE DelayOver
    BY <1>7 DEF DelayOver
  <1>8. CASE DialFails
    BY <1>8 DEF DialFails, ExitAsIs, Reconnect
  <1>9. CASE DialOk
    BY <1>9 DEF DialOk, ExitAsIs
  <1>10. CASE OpenFails
    BY <1>10 DEF OpenFails, Failed, ExitWith, Reconnect
  <1>11. CASE OpenOk
    BY <1>11 DEF OpenOk
  <1>12. CASE SeesEscape
    BY <1>12 DEF SeesEscape, ExitWith
  <1>13. CASE ReadsDisconnect
    BY <1>13 DEF ReadsDisconnect, ExitWith
  <1>14. CASE ReadsEnd
    BY <1>14 DEF ReadsEnd, ExitWith
  <1>15. CASE ReadFails
    BY <1>15 DEF ReadFails, Failed, ExitWith, Reconnect
  <1>16. CASE StdinWriteFails
    BY <1>16 DEF StdinWriteFails, ExitWith
  <1>17. CASE StdinTaskEof
    BY <1>17 DEF StdinTaskEof, ExitWith
  <1>18. CASE CtrlWriteFails
    BY <1>18 DEF CtrlWriteFails, ExitWith
  <1> QED
    BY <1>1, <1>2, <1>3, <1>4, <1>5, <1>6, <1>7, <1>8, <1>9, <1>10, <1>11,
       <1>12, <1>13, <1>14, <1>15, <1>16, <1>17, <1>18
       DEF Next, Environment, Loop, Session, Exited

-----------------------------------------------------------------------------
\* Every state variable keeps its type.
THEOREM TypeCorrect == Spec => []TypeOK
  <1>1. FlagsOK /\ PlacesOK => TypeOK
    BY DEF FlagsOK, PlacesOK, TypeOK
  <1> QED
    BY <1>1, InitInv, FlagsStep, PlacesStep, PTL DEF Spec

\* No exit, from any phase and for any reason, leaves the terminal in raw mode.
THEOREM TerminalAlwaysRestored == Spec => []TerminalRestored
  <1>1. TerminalInv => TerminalRestored
    BY DEF TerminalInv
  <1> QED
    BY <1>1, InitInv, FlagsStep, TerminalStep, PTL DEF Spec

\* A remote command's end-of-file is relayed at most once.
THEOREM VeofOnce == Spec => []VeofAtMostOnce
  <1>1. VeofInv => VeofAtMostOnce
    BY DEF VeofInv
  <1> QED
    BY <1>1, InitInv, PlacesStep, VeofStep, PTL DEF Spec

\* etr reports success for one of four reasons only.
THEOREM SuccessHasReason == Spec => []SuccessExplained
  <1>1. SuccessInv => SuccessExplained
    BY DEF SuccessInv
  <1> QED
    BY <1>1, InitInv, SuccessStep, PTL DEF Spec
=============================================================================
