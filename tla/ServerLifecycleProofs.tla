------------------------ MODULE ServerLifecycleProofs ------------------------
(***************************************************************************)
(* Proofs about ServerLifecycle, for every number of dials: a connection   *)
(* that is served after the shell's exit has been told of it unless it     *)
(* fell in the watcher's gap, and the process leaves a utmp entry behind   *)
(* only through a login recorded after the watcher's logout.               *)
(***************************************************************************)
EXTENDS ServerLifecycle, TLAPS

\* A handler runs only while the loop is in a session, the slot is filled exactly
\* while a handler that filled it runs, and the flag is raised exactly when the
\* watcher has passed that step.
SharedState ==
    /\ handler # "none" => loop = "session"
    /\ slot <=> handler \in {"slotted", "waiting", "serving"}
    /\ shell_exit <=> watcher \in {"logout", "done"}

\* Once the watcher has looked at the slot, whoever passed CheckShellExit is told.
Told ==
    handler \in {"waiting", "serving"} /\ watcher # "wait" => disconnect \/ missed

\* The watcher outlives the loop, and what it logged out stays logged out.
LoggedOut ==
    /\ loop = "exited" => watcher = "done"
    /\ utmp /\ watcher = "done" => lateLogin

ToldInv == TypeOK /\ SharedState /\ Told

\* The initial state satisfies both invariants.
LEMMA InitInv == Init => ToldInv /\ LoggedOut
  <1> SUFFICES ASSUME Init PROVE ToldInv /\ LoggedOut
    OBVIOUS
  <1>1. dials \in 0 .. MaxDials
    BY ServerLifecycleAssumption DEF Init
  <1>2. TypeOK
    BY <1>1 DEF Init, TypeOK
  <1>3. SharedState /\ Told /\ LoggedOut
    BY DEF Init, SharedState, Told, LoggedOut
  <1> QED
    BY <1>2, <1>3 DEF ToldInv

\* The types in two parts: the flags, and the places of the actors with the
\* count of dials.
FlagsOK ==
    /\ ignoresHup \in BOOLEAN
    /\ shell_exit \in BOOLEAN
    /\ slot \in BOOLEAN
    /\ disconnect \in BOOLEAN
    /\ login \in BOOLEAN
    /\ utmp \in BOOLEAN
    /\ signal \in BOOLEAN
    /\ missed \in BOOLEAN
    /\ lateLogin \in BOOLEAN

PlacesOK ==
    /\ shell \in {"running", "dying", "dead"}
    /\ watcher \in {"wait", "flag", "logout", "done"}
    /\ loop \in {"select", "linger", "handshake", "session", "logout",
                 "teardown", "probe", "drain", "exited"}
    /\ handler \in {"none", "auth", "login", "slotted", "waiting", "serving"}
    /\ client \in {"away", "dialing", "shaking", "connected", "gone"}
    /\ dials \in 0 .. MaxDials

\* Every step leaves a flag alone or gives it a truth value.
LEMMA FlagsStep == FlagsOK /\ [Next]_vars => FlagsOK'
  <1> SUFFICES ASSUME FlagsOK, [Next]_vars PROVE FlagsOK'
    OBVIOUS
  <1> USE DEF FlagsOK, shellVars, watchVars, connVars,
                loginVars, clientVars
  <1>1. CASE UNCHANGED vars
    BY <1>1, Zenon DEF vars
  <1>2. CASE ShellExits
    BY <1>2, Zenon DEF ShellExits
  <1>3. CASE Signal
    BY <1>3, Zenon DEF Signal
  <1>4. CASE Dial
    BY <1>4, Zenon DEF Dial
  <1>5. CASE Leave
    BY <1>5, Zenon DEF Leave
  <1>6. CASE NotifyClient
    BY <1>6, Zenon DEF NotifyClient
  <1>7. CASE RaiseShellExit
    BY <1>7, Zenon DEF RaiseShellExit
  <1>8. CASE WatcherLogout
    BY <1>8, Zenon DEF WatcherLogout
  <1>9. CASE SeesShellExit
    BY <1>9, Zenon DEF SeesShellExit
  <1>10. CASE LingerExpires
    BY <1>10, Zenon DEF LingerExpires
  <1>11. CASE SeesSignal
    BY <1>11, Zenon DEF SeesSignal
  <1>12. CASE WindowExpires
    BY <1>12, Zenon DEF WindowExpires
  <1>13. CASE Accept
    BY <1>13, Zenon DEF Accept
  <1>14. CASE HandshakeOk
    BY <1>14, Zenon DEF HandshakeOk
  <1>15. CASE HandshakeFails
    BY <1>15, Zenon DEF HandshakeFails
  <1>16. CASE SignalDuringSession
    BY <1>16, Zenon DEF SignalDuringSession
  <1>17. CASE LoopLogout
    BY <1>17, Zenon DEF LoopLogout
  <1>18. CASE Verified
    BY <1>18, Zenon DEF Verified
  <1>19. CASE Refused
    BY <1>19, Zenon DEF Refused, Return
  <1>20. CASE LoginRecorded
    BY <1>20, Zenon DEF LoginRecorded
  <1>21. CASE FillSlot
    BY <1>21, Zenon DEF FillSlot
  <1>22. CASE CheckShellExit
    BY <1>22, Zenon DEF CheckShellExit
  <1>23. CASE Serve
    BY <1>23, Zenon DEF Serve
  <1>24. CASE SendDisconnect
    BY <1>24, Zenon DEF SendDisconnect, Return
  <1>25. CASE ConnectionLost
    BY <1>25, Zenon DEF ConnectionLost, Return
  <1>26. CASE CleanDisconnect
    BY <1>26, Zenon DEF CleanDisconnect, Return
  <1>27. CASE HangUp
    BY <1>27, Zenon DEF HangUp
  <1>28. CASE ProbeGone
    BY <1>28, Zenon DEF ProbeGone
  <1>29. CASE Kill
    BY <1>29, Zenon DEF Kill
  <1>30. CASE Exit
    BY <1>30, Zenon DEF Exit
  <1> QED
    BY <1>1, <1>2, <1>3, <1>4, <1>5, <1>6, <1>7, <1>8, <1>9, <1>10, <1>11,
       <1>12, <1>13, <1>14, <1>15, <1>16, <1>17, <1>18, <1>19, <1>20, <1>21,
       <1>22, <1>23, <1>24, <1>25, <1>26, <1>27, <1>28, <1>29, <1>30
       DEF Next, Environment, Watcher, AcceptLoop, Connection, Teardown, Exited

\* Every step moves an actor to one of its places; dials are bounded.
LEMMA PlacesStep == PlacesOK /\ [Next]_vars => PlacesOK'
  <1> SUFFICES ASSUME PlacesOK, [Next]_vars PROVE PlacesOK'
    OBVIOUS
  <1> USE ServerLifecycleAssumption DEF PlacesOK, shellVars, watchVars, connVars,
                loginVars, clientVars
  <1>1. CASE UNCHANGED vars
    BY <1>1 DEF vars
  <1>2. CASE ShellExits
    BY <1>2 DEF ShellExits
  <1>3. CASE Signal
    BY <1>3 DEF Signal
  <1>4. CASE Dial
    BY <1>4 DEF Dial
  <1>5. CASE Leave
    BY <1>5 DEF Leave
  <1>6. CASE NotifyClient
    BY <1>6 DEF NotifyClient
  <1>7. CASE RaiseShellExit
    BY <1>7 DEF RaiseShellExit
  <1>8. CASE WatcherLogout
    BY <1>8 DEF WatcherLogout
  <1>9. CASE SeesShellExit
    BY <1>9 DEF SeesShellExit
  <1>10. CASE LingerExpires
    BY <1>10 DEF LingerExpires
  <1>11. CASE SeesSignal
    BY <1>11 DEF SeesSignal
  <1>12. CASE WindowExpires
    BY <1>12 DEF WindowExpires
  <1>13. CASE Accept
    BY <1>13 DEF Accept
  <1>14. CASE HandshakeOk
    BY <1>14 DEF HandshakeOk
  <1>15. CASE HandshakeFails
    BY <1>15 DEF HandshakeFails
  <1>16. CASE SignalDuringSession
    BY <1>16 DEF SignalDuringSession
  <1>17. CASE LoopLogout
    BY <1>17 DEF LoopLogout
  <1>18. CASE Verified
    BY <1>18 DEF Verified
  <1>19. CASE Refused
    BY <1>19 DEF Refused, Return
  <1>20. CASE LoginRecorded
    BY <1>20 DEF LoginRecorded
  <1>21. CASE FillSlot
    BY <1>21 DEF FillSlot
  <1>22. CASE CheckShellExit
    BY <1>22 DEF CheckShellExit
  <1>23. CASE Serve
    BY <1>23 DEF Serve
  <1>24. CASE SendDisconnect
    BY <1>24 DEF SendDisconnect, Return
  <1>25. CASE ConnectionLost
    BY <1>25 DEF ConnectionLost, Return
  <1>26. CASE CleanDisconnect
    BY <1>26 DEF CleanDisconnect, Return
  <1>27. CASE HangUp
    BY <1>27 DEF HangUp
  <1>28. CASE ProbeGone
    BY <1>28 DEF ProbeGone
  <1>29. CASE Kill
    BY <1>29 DEF Kill
  <1>30. CASE Exit
    BY <1>30 DEF Exit
  <1> QED
    BY <1>1, <1>2, <1>3, <1>4, <1>5, <1>6, <1>7, <1>8, <1>9, <1>10, <1>11,
       <1>12, <1>13, <1>14, <1>15, <1>16, <1>17, <1>18, <1>19, <1>20, <1>21,
       <1>22, <1>23, <1>24, <1>25, <1>26, <1>27, <1>28, <1>29, <1>30
       DEF Next, Environment, Watcher, AcceptLoop, Connection, Teardown, Exited

\* Every step keeps the types.
LEMMA TypeStep == TypeOK /\ [Next]_vars => TypeOK'
  <1> SUFFICES ASSUME TypeOK, [Next]_vars PROVE TypeOK'
    OBVIOUS
  <1>1. FlagsOK'
    BY FlagsStep DEF TypeOK, FlagsOK
  <1>2. PlacesOK'
    BY PlacesStep DEF TypeOK, PlacesOK
  <1> QED
    BY <1>1, <1>2 DEF TypeOK, FlagsOK, PlacesOK

\* Every step keeps the promise to tell.
LEMMA ToldStep == ToldInv /\ [Next]_vars => ToldInv'
  <1> SUFFICES ASSUME ToldInv, [Next]_vars PROVE SharedState' /\ Told'
    BY TypeStep DEF ToldInv
  <1> USE DEF ToldInv, TypeOK, SharedState, Told, shellVars, watchVars, connVars,
              loginVars, clientVars
  <1>1. CASE UNCHANGED vars
    BY <1>1 DEF vars
  <1>2. CASE Environment
    BY <1>2 DEF Environment, ShellExits, Signal, Dial, Leave
  <1>3. CASE NotifyClient
    BY <1>3 DEF NotifyClient
  <1>4. CASE RaiseShellExit
    BY <1>4 DEF RaiseShellExit
  <1>5. CASE WatcherLogout
    BY <1>5 DEF WatcherLogout
  <1>6. CASE SeesShellExit \/ LingerExpires \/ SeesSignal \/ WindowExpires \/ Accept
    BY <1>6 DEF SeesShellExit, LingerExpires, SeesSignal, WindowExpires, Accept
  <1>7. CASE HandshakeOk \/ HandshakeFails \/ LoopLogout
    BY <1>7 DEF HandshakeOk, HandshakeFails, LoopLogout
  <1>8. CASE SignalDuringSession
    BY <1>8 DEF SignalDuringSession
  <1>9. CASE Verified \/ LoginRecorded \/ FillSlot \/ Serve
    BY <1>9 DEF Verified, LoginRecorded, FillSlot, Serve
  <1>10. CASE CheckShellExit
    BY <1>10 DEF CheckShellExit
  <1>11. CASE Refused \/ ConnectionLost \/ CleanDisconnect \/ SendDisconnect
    BY <1>11 DEF Refused, ConnectionLost, CleanDisconnect, SendDisconnect, Return
  <1>12. CASE Teardown
    BY <1>12 DEF Teardown, HangUp, ProbeGone, Kill, Exit
  <1> QED
    BY <1>1, <1>2, <1>3, <1>4, <1>5, <1>6, <1>7, <1>8, <1>9, <1>10, <1>11, <1>12
       DEF Next, Watcher, AcceptLoop, Connection, Exited

\* Every step keeps the logout.
LEMMA LoggedOutStep == TypeOK /\ LoggedOut /\ [Next]_vars => LoggedOut'
  <1> SUFFICES ASSUME TypeOK, LoggedOut, [Next]_vars PROVE LoggedOut'
    OBVIOUS
  <1> USE DEF TypeOK, LoggedOut, shellVars, watchVars, connVars, loginVars, clientVars
  <1>1. CASE UNCHANGED vars
    BY <1>1 DEF vars
  <1>2. CASE Environment
    BY <1>2 DEF Environment, ShellExits, Signal, Dial, Leave
  <1>3. CASE Watcher
    BY <1>3 DEF Watcher, NotifyClient, RaiseShellExit, WatcherLogout
  <1>4. CASE SeesShellExit \/ LingerExpires \/ SeesSignal \/ WindowExpires \/ Accept
    BY <1>4 DEF SeesShellExit, LingerExpires, SeesSignal, WindowExpires, Accept
  <1>5. CASE HandshakeOk \/ HandshakeFails \/ LoopLogout
    BY <1>5 DEF HandshakeOk, HandshakeFails, LoopLogout
  <1>6. CASE SignalDuringSession
    BY <1>6 DEF SignalDuringSession
  <1>7. CASE Verified \/ FillSlot \/ Serve \/ CheckShellExit
    BY <1>7 DEF Verified, FillSlot, Serve, CheckShellExit
  <1>8. CASE LoginRecorded
    BY <1>8 DEF LoginRecorded
  <1>9. CASE Refused \/ ConnectionLost \/ CleanDisconnect \/ SendDisconnect
    BY <1>9 DEF Refused, ConnectionLost, CleanDisconnect, SendDisconnect, Return
  <1>10. CASE Teardown
    BY <1>10 DEF Teardown, HangUp, ProbeGone, Kill, Exit
  <1> QED
    BY <1>1, <1>2, <1>3, <1>4, <1>5, <1>6, <1>7, <1>8, <1>9, <1>10
       DEF Next, AcceptLoop, Connection, Exited
-----------------------------------------------------------------------------
\* Every state variable keeps its type.
THEOREM TypeCorrect == Spec => []TypeOK
  <1>1. Init => TypeOK
    BY InitInv DEF ToldInv
  <1> QED
    BY <1>1, TypeStep, PTL DEF Spec

\* A connection served after the shell's exit was announced is told, or was set
\* up in the watcher's gap: the slot and the flag cover each other everywhere else.
THEOREM Informed == Spec => []ToldUnlessMissed
  <1>1. ToldInv => ToldUnlessMissed
    BY DEF ToldInv, SharedState, Told, TypeOK, ToldUnlessMissed
  <1>2. Init => ToldInv
    BY InitInv
  <1> QED
    BY <1>1, <1>2, ToldStep, PTL DEF Spec

\* The only way to leave a utmp entry behind is a login recorded too late.
THEOREM LogoutRecorded == Spec => []LogoutUnlessLate
  <1>1. LoggedOut => LogoutUnlessLate
    BY DEF LoggedOut, LogoutUnlessLate
  <1>2. Init => LoggedOut
    BY InitInv
  <1> QED
    BY <1>1, <1>2, TypeCorrect, LoggedOutStep, PTL DEF Spec
=============================================================================
