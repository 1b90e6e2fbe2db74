----------------------------- MODULE ClientLoop -----------------------------
(***************************************************************************)
(* The client's run_connection_loop: connecting, raw mode, one run_session *)
(* per connection, and the select! that decides from the first task to     *)
(* finish whether etr exits or reconnects.  The data the tasks carry is in *)
(* PtyOutput and StdinPath; here only how each of them ends matters.       *)
(***************************************************************************)
EXTENDS Integers

VARIABLES
    remote,    \* has_remote_command
    tty,       \* a controlling terminal is there
    pc,        \* where the loop is
    raw,       \* the terminal is in raw mode
    escape,    \* ~. was typed; the watch channel keeps the value
    eof,       \* the stdin reader thread has ended and dropped stdin_tx
    link,      \* the connection: none, up, broken, or finished by the server
    told,      \* a Disconnect is on the control stream
    task,      \* stdin_task: receiving, parked after VEOF, or done
    signalled, \* eof_signalled of this run_session
    veofs,     \* VEOF bytes relayed so far
    writeFail  \* ghost: a task ended because its write met a broken connection

config == <<remote, tty>>
input == <<escape, eof>>
session == <<task, signalled, veofs>>
vars == <<config, pc, raw, input, link, told, session, writeFail>>

MaxVeofs == 2  \* bound: one more than the program may send

Init ==
    /\ remote \in BOOLEAN
    /\ tty \in BOOLEAN
    /\ pc = "dial"
    /\ raw = FALSE
    /\ escape = FALSE
    /\ eof = FALSE
    /\ link = "none"
    /\ told = FALSE
    /\ task = "done"
    /\ signalled = FALSE
    /\ veofs = 0
    /\ writeFail = FALSE

\* Exit without touching the terminal.
ExitAsIs(code) ==
    /\ pc' = code
    /\ link' = "none"
    /\ UNCHANGED raw

\* restore_terminal, then exit.
ExitWith(code) ==
    /\ pc' = code
    /\ raw' = FALSE
    /\ link' = "none"

\* Back to the top of the loop: the connection is gone, raw mode stays on.
Reconnect ==
    /\ pc' = "delay"
    /\ link' = "none"
    /\ UNCHANGED raw

\* Mutant of Failed: the error is taken for an ordinary end.
FailedCleanly == ExitWith("exit0")

\* A session that ended in an error.
Failed == IF remote THEN ExitWith("exit1") ELSE Reconnect
-----------------------------------------------------------------------------
(* The user and the network.                                               *)

\* ~. at a line start: the reader thread signals it and returns.
TypeEscape ==
    /\ ~eof
    /\ escape' = TRUE
    /\ eof' = TRUE
    /\ UNCHANGED <<config, pc, raw, link, told, session, writeFail>>

\* End of file on stdin: the reader thread ends.
StdinEnds ==
    /\ ~eof
    /\ eof' = TRUE
    /\ UNCHANGED <<config, pc, raw, escape, link, told, session, writeFail>>

\* The connection dies (idle timeout, reset, server killed).
LinkBreaks ==
    /\ link = "up"
    /\ link' = "broken"
    /\ UNCHANGED <<config, pc, raw, input, told, session, writeFail>>

\* The shell exits and the server sends Disconnect ...
ServerDisconnects ==
    /\ pc = "running"
    /\ link = "up"
    /\ told' = TRUE
    /\ UNCHANGED <<config, pc, raw, input, link, session, writeFail>>

\* ... and ends the connection's streams.
ServerFinishes ==
    /\ link = "up"
    /\ told
    /\ link' = "finished"
    /\ UNCHANGED <<config, pc, raw, input, told, session, writeFail>>
-----------------------------------------------------------------------------
(* The loop.                                                               *)

\* The reconnect delay of 2 s is over.
DelayOver ==
    /\ pc = "delay"
    /\ pc' = "dial"
    /\ UNCHANGED <<config, raw, input, link, told, session, writeFail>>

\* connect, the QUIC handshake, or its 15 s timeout fails.
DialFails ==
    /\ pc = "dial"
    /\ IF remote THEN ExitAsIs("exit1") ELSE Reconnect
    /\ UNCHANGED <<config, input, told, session, writeFail>>

\* Connected: raw mode is entered, or a remote command goes on without it, or
\* an interactive session gives up.  Re-entering raw mode cannot fail.
DialOk ==
    /\ pc = "dial"
    /\ IF tty \/ remote
       THEN pc' = "opening" /\ raw' = (raw \/ tty) /\ link' = "up"
       ELSE ExitAsIs("exit1")
    /\ told' = FALSE
    /\ UNCHANGED <<config, input, session, writeFail>>

\* SessionOpen/SessionAccept fail: run_session returns the error.
OpenFails ==
    /\ pc = "opening"
    /\ link = "broken"
    /\ Failed
    /\ UNCHANGED <<config, input, told, session, writeFail>>

\* SessionAccept is read, history replayed, and the session's tasks started.
OpenOk ==
    /\ pc = "opening"
    /\ link = "up"
    /\ pc' = "running"
    /\ task' = "recv"
    /\ signalled' = FALSE
    /\ UNCHANGED <<config, raw, input, link, told, veofs, writeFail>>

\* Mutant of SeesEscape: only a running session looks at it.
SeesEscapeRunning ==
    /\ pc = "running"
    /\ escape
    /\ ExitWith("exit0")
    /\ UNCHANGED <<config, input, told, session, writeFail>>

\* Every select! of the loop also waits for the escape.
SeesEscape ==
    /\ pc \in {"delay", "dial", "opening", "running"}
    /\ escape
    /\ ExitWith("exit0")
    /\ UNCHANGED <<config, input, told, session, writeFail>>
-----------------------------------------------------------------------------
(* run_session: the first task to finish decides.                          *)

\* Mutant of ReadsDisconnect: the message is ignored.
IgnoresDisconnect ==
    /\ pc = "running"
    /\ told
    /\ UNCHANGED vars

\* ctrl_reader_task reads Disconnect: ConnectionAborted, a clean exit.  What had
\* arrived before the connection broke can still be read.
ReadsDisconnect ==
    /\ pc = "running"
    /\ told
    /\ ExitWith("exit0")
    /\ UNCHANGED <<config, input, told, session, writeFail>>

\* ctrl_reader_task or pty_recv_task reads the end of its stream: Ok.
ReadsEnd ==
    /\ pc = "running"
    /\ link = "finished"
    /\ ExitWith("exit0")
    /\ UNCHANGED <<config, input, told, session, writeFail>>

\* ctrl_reader_task or pty_recv_task fails: the session ends in an error.
ReadFails ==
    /\ pc = "running"
    /\ link = "broken"
    /\ Failed
    /\ UNCHANGED <<config, input, told, session, writeFail>>

\* stdin_task meets the broken connection when it writes a payload, and ends;
\* the arm is disabled for a remote command.
StdinWriteFails ==
    /\ pc = "running"
    /\ link = "broken"
    /\ task = "recv"
    /\ task' = "done"
    /\ writeFail' = TRUE
    /\ IF remote THEN UNCHANGED <<pc, raw, link>> ELSE ExitWith("exit0")
    /\ UNCHANGED <<config, input, told, signalled, veofs>>

\* stdin_task sees the end of stdin: it ends, or relays VEOF once and parks.
StdinTaskEof ==
    /\ pc = "running"
    /\ task = "recv"
    /\ eof
    /\ IF ~remote
       THEN /\ task' = "done"
            /\ ExitWith("exit0")
            /\ UNCHANGED <<signalled, veofs>>
       ELSE /\ UNCHANGED <<pc, raw, link>>
            /\ IF signalled
               THEN task' = "parked" /\ UNCHANGED <<signalled, veofs>>
               ELSE /\ veofs < MaxVeofs
                    /\ veofs' = veofs + 1
                    /\ signalled' = TRUE
                    /\ task' = task
    /\ UNCHANGED <<config, input, told, writeFail>>

\* ctrl_send_task fails to write a heartbeat or a resize: its error is ignored
\* and the session counts as ended without one.
CtrlWriteFails ==
    /\ pc = "running"
    /\ link = "broken"
    /\ writeFail' = TRUE
    /\ ExitWith("exit0")
    /\ UNCHANGED <<config, input, told, session>>

\* The process has exited.
Exited ==
    /\ pc \in {"exit0", "exit1"}
    /\ UNCHANGED vars
-----------------------------------------------------------------------------
Environment == TypeEscape \/ StdinEnds \/ LinkBreaks \/ ServerDisconnects \/ ServerFinishes
Loop == DelayOver \/ DialFails \/ DialOk \/ OpenFails \/ OpenOk \/ SeesEscape
Session == ReadsDisconnect \/ ReadsEnd \/ ReadFails \/ StdinWriteFails \/ StdinTaskEof \/ CtrlWriteFails

Next == Environment \/ Loop \/ Session \/ Exited

Spec == Init /\ [][Next]_vars

\* The timers of the loop expire, an established connection is opened or broken,
\* and ready tasks run.  The escape stays pending and every select! polls it.
Fairness ==
    /\ WF_vars(DelayOver) /\ WF_vars(DialFails \/ DialOk) /\ WF_vars(OpenFails \/ OpenOk)
    /\ WF_vars(SeesEscape)
    /\ WF_vars(ReadsDisconnect \/ ReadsEnd) /\ WF_vars(ReadFails) /\ WF_vars(StdinTaskEof)

FairSpec == Spec /\ Fairness
-----------------------------------------------------------------------------
(* Properties.                                                             *)

HasExited == pc \in {"exit0", "exit1"}

TypeOK ==
    /\ remote \in BOOLEAN
    /\ tty \in BOOLEAN
    /\ pc \in {"delay", "dial", "opening", "running", "exit0", "exit1"}
    /\ raw \in BOOLEAN
    /\ escape \in BOOLEAN
    /\ eof \in BOOLEAN
    /\ link \in {"none", "up", "broken", "finished"}
    /\ told \in BOOLEAN
    /\ task \in {"recv", "parked", "done"}
    /\ signalled \in BOOLEAN
    /\ veofs \in 0 .. MaxVeofs
    /\ writeFail \in BOOLEAN

\* The user's terminal is left in raw mode by no exit, from any phase.
TerminalRestored == HasExited => ~raw

\* etr reports success only when the server ended the session, the user did
\* (~. or end of stdin), or a write met the broken connection.
SuccessExplained == pc = "exit0" => told \/ escape \/ eof \/ writeFail

\* A remote command never sees a second end-of-file: eof_signalled lives in one
\* run_session, and a remote command is never run through a second one.
VeofAtMostOnce == veofs <= 1

\* ~. ends etr in every phase: waiting, connecting, opening or running.
EscapeExits == escape ~> HasExited

\* A remote command's client always comes back to its caller once the connection
\* is broken or the command has ended.
RemoteReturns == (remote /\ (link = "broken" \/ told)) ~> HasExited

\* README.md: etr "keeps the remote shell alive and transparently reconnects":
\* a broken connection alone never ends an interactive session.
LossNeverEnds == pc = "exit0" => told \/ escape \/ eof
=============================================================================
