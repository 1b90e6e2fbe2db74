--------------------------- MODULE ServerLifecycle ---------------------------
(***************************************************************************)
(* The life of one etrs process: run_session's accept loop, the shell and  *)
(* its exit watcher, the phases of handle_connection that decide whether   *)
(* the client learns of the shell's exit, signals, the reconnect window,   *)
(* utmp bookkeeping and the teardown that hangs up the shell.              *)
(*                                                                         *)
(* The accept loop, the watcher thread and the thread that records a login *)
(* run concurrently; the two slots they share are outbound_ctrl_tx (slot)  *)
(* and the shell_exit watch channel (shell_exit).                          *)
(***************************************************************************)
EXTENDS Integers

CONSTANT MaxDials  \* bound: connections the client attempts

ASSUME ServerLifecycleAssumption == MaxDials \in Nat

VARIABLES
    shell,       \* the shell: running, signalled and about to die, or dead
    ignoresHup,  \* the shell's process group ignores SIGHUP
    watcher,     \* where the shell-exit watcher is
    shell_exit,  \* value of the shell_exit watch channel
    loop,        \* where run_session is
    handler,     \* where handle_connection is ("none" when not running)
    slot,        \* outbound_ctrl_tx is Some
    disconnect,  \* a Disconnect is in the connection's control channel
    login,       \* the record_login thread is running
    utmp,        \* a utmp entry exists
    signal,      \* SIGTERM or SIGHUP was raised; every listener has it pending
    client,      \* the client: away, dialing, in the QUIC handshake (shaking),
                 \* connected, or gone for good
    dials,       \* connections attempted
    missed,      \* ghost: a connection was set up between the watcher's look at
                 \* the slot and its raising of shell_exit
    lateLogin    \* ghost: a login was recorded after the watcher's logout

clientVars == <<client, dials>>
shellVars == <<shell, ignoresHup>>
watchVars == <<watcher, shell_exit>>
connVars == <<handler, slot, disconnect>>
loginVars == <<login, utmp, lateLogin>>
vars == <<shellVars, watchVars, loop, connVars, loginVars, signal, clientVars, missed>>

Init ==
    /\ shell = "running"
    /\ ignoresHup \in BOOLEAN
    /\ watcher = "wait"
    /\ shell_exit = FALSE
    /\ loop = "select"
    /\ handler = "none"
    /\ slot = FALSE
    /\ disconnect = FALSE
    /\ login = FALSE
    /\ utmp = FALSE
    /\ signal = FALSE
    /\ client = "away"
    /\ dials = 0
    /\ missed = FALSE
    /\ lateLogin = FALSE
-----------------------------------------------------------------------------
(* The environment: shell, signals, client.                                *)

\* The shell exits: by itself, or because a signal killed it.
ShellExits ==
    /\ shell # "dead"
    /\ shell' = "dead"
    /\ UNCHANGED <<ignoresHup, watchVars, loop, connVars, loginVars, signal, clientVars, missed>>

\* SIGTERM or SIGHUP is sent to etrs.
Signal ==
    /\ ~signal
    /\ signal' = TRUE
    /\ UNCHANGED <<shellVars, watchVars, loop, connVars, loginVars, clientVars, missed>>

\* The client attempts a connection.
Dial ==
    /\ client = "away"
    /\ dials < MaxDials
    /\ client' = "dialing"
    /\ dials' = dials + 1
    /\ UNCHANGED <<shellVars, watchVars, loop, connVars, loginVars, signal, missed>>

\* The client loses the connection or gives up an attempt, for now or for good.
Leave ==
    /\ client \in {"dialing", "shaking", "connected"}
    /\ client' \in {"away", "gone"}
    /\ UNCHANGED <<shellVars, watchVars, loop, connVars, loginVars, signal, dials, missed>>
-----------------------------------------------------------------------------
(* The shell-exit watcher thread.                                          *)

\* Mutant of NotifyClient: a connected client is not told.
NotifyNobody ==
    /\ watcher = "wait"
    /\ shell = "dead"
    /\ watcher' = "flag"
    /\ UNCHANGED <<shellVars, shell_exit, loop, connVars, loginVars, signal, clientVars, missed>>

\* child.wait returns; the control slot is read and, if a connection is there,
\* a Disconnect queued on it.
NotifyClient ==
    /\ watcher = "wait"
    /\ shell = "dead"
    /\ disconnect' = (disconnect \/ slot)
    /\ watcher' = "flag"
    /\ UNCHANGED <<shellVars, shell_exit, loop, handler, slot, loginVars, signal, clientVars, missed>>

\* shell_exit_tx.send(true)
RaiseShellExit ==
    /\ watcher = "flag"
    /\ shell_exit' = TRUE
    /\ watcher' = "logout"
    /\ UNCHANGED <<shellVars, loop, connVars, loginVars, signal, clientVars, missed>>

\* Mutant of WatcherLogout: no logout is recorded.
WatcherQuits ==
    /\ watcher = "logout"
    /\ watcher' = "done"
    /\ UNCHANGED <<shellVars, shell_exit, loop, connVars, loginVars, signal, clientVars, missed>>

\* record_logout, the watcher's last act.
WatcherLogout ==
    /\ watcher = "logout"
    /\ utmp' = FALSE
    /\ watcher' = "done"
    /\ UNCHANGED <<shellVars, shell_exit, loop, connVars, login, lateLogin, signal, clientVars, missed>>
-----------------------------------------------------------------------------
(* The accept loop.  Its select is biased: shell exit, signals, accept.    *)

\* The shell has exited: give a pending client one second.
SeesShellExit ==
    /\ loop = "select"
    /\ shell_exit
    /\ loop' = "linger"
    /\ UNCHANGED <<shellVars, watchVars, connVars, loginVars, signal, clientVars, missed>>

\* No client came within that second.
LingerExpires ==
    /\ loop = "linger"
    /\ loop' = "teardown"
    /\ UNCHANGED <<shellVars, watchVars, connVars, loginVars, signal, clientVars, missed>>

\* A signal while no connection is handled.
SeesSignal ==
    /\ loop = "select"
    /\ ~shell_exit
    /\ signal
    /\ loop' = "logout"
    /\ UNCHANGED <<shellVars, watchVars, connVars, loginVars, signal, clientVars, missed>>

\* Mutant of WindowExpires: the window starts over.
WindowRestarts ==
    /\ loop = "select"
    /\ ~shell_exit /\ ~signal
    /\ UNCHANGED vars

\* The reconnect window expires without a client (or the endpoint closed).
WindowExpires ==
    /\ loop = "select"
    /\ ~shell_exit /\ ~signal
    /\ loop' = "logout"
    /\ UNCHANGED <<shellVars, watchVars, connVars, loginVars, signal, clientVars, missed>>

\* endpoint.accept yields a connection attempt.
Accept ==
    /\ \/ loop = "linger"
       \/ loop = "select" /\ ~shell_exit /\ ~signal
    /\ client = "dialing"
    /\ client' = "shaking"
    /\ loop' = "handshake"
    /\ UNCHANGED <<shellVars, watchVars, connVars, loginVars, signal, dials, missed>>

\* The QUIC handshake completes and handle_connection starts.
HandshakeOk ==
    /\ loop = "handshake"
    /\ client = "shaking"
    /\ client' = "connected"
    /\ loop' = "session"
    /\ handler' = "auth"
    /\ UNCHANGED <<shellVars, watchVars, slot, disconnect, loginVars, signal, dials, missed>>

\* It fails or takes more than 10 s.
HandshakeFails ==
    /\ loop = "handshake"
    /\ client' = IF client = "shaking" THEN "away" ELSE client
    /\ loop' = "select"
    /\ UNCHANGED <<shellVars, watchVars, connVars, loginVars, signal, dials, missed>>

\* A signal during a session: the connection is closed, the handler dropped (at
\* an await, of which there is none between the slot and the flag).
SignalDuringSession ==
    /\ loop = "session"
    /\ handler # "slotted"
    /\ signal
    /\ loop' = "logout"
    /\ handler' = "none"
    /\ slot' = FALSE
    /\ disconnect' = FALSE
    /\ client' = IF client = "connected" THEN "away" ELSE client
    /\ UNCHANGED <<shellVars, watchVars, loginVars, signal, dials, missed>>

\* record_logout on a thread of its own, awaited by the loop before it breaks.
LoopLogout ==
    /\ loop = "logout"
    /\ utmp' = FALSE
    /\ loop' = "teardown"
    /\ UNCHANGED <<shellVars, watchVars, connVars, login, lateLogin, signal, clientVars, missed>>
-----------------------------------------------------------------------------
(* handle_connection, as far as the life cycle is concerned.               *)

\* What the loop does when handle_connection returns.
Return(next) ==
    /\ loop' = next
    /\ handler' = "none"
    /\ slot' = FALSE
    /\ disconnect' = FALSE

\* SessionOpen is read and verified; record_login starts on its own thread.
Verified ==
    /\ handler = "auth"
    /\ client = "connected"
    /\ handler' = "login"
    /\ login' = TRUE
    /\ UNCHANGED <<shellVars, watchVars, loop, slot, disconnect, utmp, lateLogin,
                   signal, clientVars, missed>>

\* SessionOpen is missing, late, malformed or not authentic.
Refused ==
    /\ handler = "auth"
    /\ Return("select")
    /\ client' = IF client = "connected" THEN "away" ELSE client
    /\ UNCHANGED <<shellVars, watchVars, loginVars, signal, dials, missed>>

\* The login thread finishes, whether or not the handler still waits for it.
LoginRecorded ==
    /\ login
    /\ login' = FALSE
    /\ utmp' = TRUE
    /\ lateLogin' = (lateLogin \/ watcher = "done")
    /\ UNCHANGED <<shellVars, watchVars, loop, connVars, signal, clientVars, missed>>

\* SessionAccept is written, and the control channel is put in the slot.
FillSlot ==
    /\ handler = "login"
    /\ ~login
    /\ handler' = "slotted"
    /\ slot' = TRUE
    /\ UNCHANGED <<shellVars, watchVars, loop, disconnect, loginVars, signal, clientVars, missed>>

\* Mutant of CheckShellExit: the flag is not looked at.
SkipShellExit ==
    /\ handler = "slotted"
    /\ handler' = "waiting"
    /\ UNCHANGED <<shellVars, watchVars, loop, slot, disconnect, loginVars, signal,
                   clientVars, missed>>

\* If the shell has exited already, a Disconnect is queued right away.
CheckShellExit ==
    /\ handler = "slotted"
    /\ handler' = "waiting"
    /\ disconnect' = (disconnect \/ shell_exit)
    /\ missed' = (missed \/ (~disconnect' /\ watcher = "flag"))
    /\ UNCHANGED <<shellVars, watchVars, loop, slot, loginVars, signal, clientVars>>

\* The PTY stream arrives and the connection's tasks start.
Serve ==
    /\ handler = "waiting"
    /\ client = "connected"
    /\ handler' = "serving"
    /\ UNCHANGED <<shellVars, watchVars, loop, slot, disconnect, loginVars, signal, clientVars, missed>>

\* ctrl_writer_task writes the Disconnect and ends, and with it the connection.
\* The client quits when the message reaches it before the connection closes;
\* otherwise it tries to reconnect.
SendDisconnect ==
    /\ handler = "serving"
    /\ disconnect
    /\ Return("select")
    /\ client' \in IF client = "connected" THEN {"away", "gone"} ELSE {client}
    /\ UNCHANGED <<shellVars, watchVars, loginVars, signal, dials, missed>>

\* The connection is lost: some task of the handler fails.
ConnectionLost ==
    /\ handler \in {"login", "waiting", "serving"}
    /\ handler = "login" => ~login
    /\ client # "connected"
    /\ Return("select")
    /\ UNCHANGED <<shellVars, watchVars, loginVars, signal, clientVars, missed>>

\* The client's Disconnect: the session is over.
CleanDisconnect ==
    /\ handler = "serving"
    /\ client = "connected"
    /\ Return("teardown")
    /\ client' = "gone"
    /\ UNCHANGED <<shellVars, watchVars, loginVars, signal, dials, missed>>
-----------------------------------------------------------------------------
(* Teardown.                                                               *)

\* The loop is left; a shell that has not exited gets SIGHUP.
HangUp ==
    /\ loop = "teardown"
    /\ loop' = IF shell_exit THEN "drain" ELSE "probe"
    /\ shell' = IF ~shell_exit /\ ~ignoresHup /\ shell = "running" THEN "dying" ELSE shell
    /\ UNCHANGED <<ignoresHup, watchVars, connVars, loginVars, signal, clientVars, missed>>

\* The process group is gone.
ProbeGone ==
    /\ loop = "probe"
    /\ shell = "dead"
    /\ loop' = "drain"
    /\ UNCHANGED <<shellVars, watchVars, connVars, loginVars, signal, clientVars, missed>>

\* Mutant of Kill: SIGHUP is all the shell gets.
GiveUp ==
    /\ loop = "probe"
    /\ loop' = "drain"
    /\ UNCHANGED <<shellVars, watchVars, connVars, loginVars, signal, clientVars, missed>>

\* It is still there after a second: SIGKILL.
Kill ==
    /\ loop = "probe"
    /\ shell' = IF shell = "running" THEN "dying" ELSE shell
    /\ loop' = "drain"
    /\ UNCHANGED <<ignoresHup, watchVars, connVars, loginVars, signal, clientVars, missed>>

\* The runtime is dropped: it waits for the PTY reader, which ends with the
\* shell, for the watcher and for a login still being recorded.
Exit ==
    /\ loop = "drain"
    /\ shell = "dead"
    /\ watcher = "done"
    /\ ~login
    /\ loop' = "exited"
    /\ UNCHANGED <<shellVars, watchVars, connVars, loginVars, signal, clientVars, missed>>

\* Nothing more happens to the session.
Exited ==
    /\ loop = "exited"
    /\ UNCHANGED vars
-----------------------------------------------------------------------------
Environment == ShellExits \/ Signal \/ Dial \/ Leave
Watcher == NotifyClient \/ RaiseShellExit \/ WatcherLogout
AcceptLoop ==
    \/ SeesShellExit \/ LingerExpires \/ SeesSignal \/ WindowExpires \/ Accept
    \/ HandshakeOk \/ HandshakeFails \/ SignalDuringSession \/ LoopLogout
Connection ==
    \/ Verified \/ Refused \/ LoginRecorded \/ FillSlot \/ CheckShellExit
    \/ Serve \/ SendDisconnect \/ ConnectionLost \/ CleanDisconnect
Teardown == HangUp \/ ProbeGone \/ Kill \/ Exit

Next == Environment \/ Watcher \/ AcceptLoop \/ Connection \/ Teardown \/ Exited

Spec == Init /\ [][Next]_vars

\* Threads run, timers expire, and a shell that was signalled dies.  The shell
\* need not exit by itself, nobody need send a signal or dial, and a client may
\* stay connected for ever.
Fairness ==
    /\ WF_vars(shell = "dying" /\ ShellExits)
    /\ WF_vars(Watcher)
    /\ WF_vars(SeesShellExit \/ LingerExpires \/ SeesSignal \/ LoopLogout)
    /\ WF_vars(WindowExpires)
    /\ WF_vars(HandshakeOk \/ HandshakeFails)
    /\ WF_vars(SignalDuringSession)
    /\ WF_vars(Verified \/ Refused) /\ WF_vars(LoginRecorded)
    /\ WF_vars(FillSlot \/ CheckShellExit \/ Serve \/ SendDisconnect)
    /\ WF_vars(ConnectionLost)
    /\ WF_vars(Teardown)

FairSpec == Spec /\ Fairness
-----------------------------------------------------------------------------
(* Properties.                                                             *)

TypeOK ==
    /\ shell \in {"running", "dying", "dead"}
    /\ ignoresHup \in BOOLEAN
    /\ watcher \in {"wait", "flag", "logout", "done"}
    /\ shell_exit \in BOOLEAN
    /\ loop \in {"select", "linger", "handshake", "session", "logout",
                 "teardown", "probe", "drain", "exited"}
    /\ handler \in {"none", "auth", "login", "slotted", "waiting", "serving"}
    /\ slot \in BOOLEAN
    /\ disconnect \in BOOLEAN
    /\ login \in BOOLEAN
    /\ utmp \in BOOLEAN
    /\ signal \in BOOLEAN
    /\ client \in {"away", "dialing", "shaking", "connected", "gone"}
    /\ dials \in 0 .. MaxDials
    /\ missed \in BOOLEAN
    /\ lateLogin \in BOOLEAN

\* A connection that is being served after the watcher has done its part has
\* been told, or is about to be told, that the shell is gone, unless it fell
\* between the watcher's look at the slot and its raising of the flag.
ToldUnlessMissed ==
    handler = "serving" /\ shell_exit => disconnect \/ missed

\* The process leaves no utmp entry behind, except for a login that was recorded
\* after the watcher had recorded the logout.
LogoutUnlessLate == loop = "exited" /\ utmp => lateLogin

\* SIGTERM or SIGHUP ends the process in every phase, with any shell: even one
\* that ignores SIGHUP (etrs.rs hangup_child).
SignalEndsProcess == signal ~> loop = "exited"

\* When the client is gone for good the process ends by itself.
AbandonedProcessEnds == client = "gone" ~> loop = "exited"

\* When the shell has exited the process ends, unless it missed telling a client
\* that stays connected.
ShellExitEndsProcess == shell = "dead" ~> (loop = "exited" \/ missed)
=============================================================================
