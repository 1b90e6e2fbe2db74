----------------------------- MODULE Components -----------------------------
(***************************************************************************)
(* The components that share no state with any other, side by side: an     *)
(* initial state names the one that is the subject, whose steps are taken  *)
(* while the others rest.                                                  *)
(***************************************************************************)
EXTENDS Integers, Sequences

CONSTANTS
    \* StreamState
    MaxHistoryBytes, PayloadLens, MaxSent,
    \* EscapeFilter
    Typed, MaxInput,
    \* Framing
    Radix, SeqDigits, LenDigits, Limit, BodyLens, Ips, Ports, MaxHanded,
    \* X11Display
    Processes, NumDisplays, Nobody, Foreign, Held,
    \* ConfigFile
    ClientKeys, ServerKeys, MaxEdits,
    \* UdpDemux
    Senders, MaxSenders, SenderIdle, ReplyCap,
    \* StartUp
    Env, Blocked, Asks, OwnPrefs, HostAddrs, Routes

VARIABLES
    subject,
    \* StreamState
    next_out_seq, send_history, history_bytes,
    \* EscapeFilter
    input, key_reader, out, sent, at_line_start, escape_pending,
    \* Framing
    kind, handed, enc, pending, wire, frame_stream, frame_reader, head, got,
    \* X11Display
    v6_on, unix_ok, v4, v6, socket_file, auth_unix, auth_tcp, pc, disp, fate, faults,
    struck,
    \* ConfigFile
    file, edits, last, before,
    \* UdpDemux
    udp_stream, mapped, age, udp_reader, quiet, inbox, replies, silent,
    \* StartUp
    ask, own, addrs, routes, client, unsent, ssh, stdin, closed, server, child, seen,
    printed, addr

H == INSTANCE StreamState
E == INSTANCE EscapeFilter WITH Keys <- Typed, reader <- key_reader
F == INSTANCE Framing WITH stream <- frame_stream, reader <- frame_reader
X == INSTANCE X11Display
C == INSTANCE ConfigFile
U == INSTANCE UdpDemux WITH stream <- udp_stream, reader <- udp_reader
S == INSTANCE StartUp

ASSUME ComponentsAssumption ==
    /\ H!StreamStateAssumption /\ E!EscapeFilterAssumption /\ F!FramingAssumption
    /\ X!X11DisplayAssumption /\ C!ConfigFileAssumption /\ U!UdpDemuxAssumption
    /\ S!StartUpAssumption

hVars == <<next_out_seq, send_history, history_bytes>>
eVars == <<input, key_reader, out, sent, at_line_start, escape_pending>>
fVars == <<kind, handed, enc, pending, wire, frame_stream, frame_reader, head, got>>
xVars == <<v6_on, unix_ok, v4, v6, socket_file, auth_unix, auth_tcp, pc, disp, fate, faults,
           struck>>
cVars == <<file, edits, last, before>>
uVars == <<udp_stream, mapped, age, udp_reader, quiet, inbox, replies, silent>>
sVars == <<ask, own, addrs, routes, client, unsent, ssh, stdin, closed, server, child, seen,
           printed, addr>>
vars == <<subject, hVars, eVars, fVars, xVars, cVars, uVars, sVars>>

One(set) == CHOOSE x \in set : TRUE

\* The others rest in one of their initial states; a UDP forward that was closed
\* and an etr that was not started have no step that would have to be taken.
Init ==
    /\ subject \in {"history", "escape", "framing", "x11", "config", "udp", "startup"}
    /\ H!Init /\ E!Init /\ C!Init
    /\ F!Init /\ (subject # "framing" => kind = "msg")
    /\ X!Init /\ (subject # "x11" => /\ v6_on /\ unix_ok
                                     /\ Nobody \in {v4[1]} \cap {v6[1]} \cap {socket_file[1]})
    /\ \E st \in {"open", "closed"} :
          /\ (st = "open") <=> (subject = "udp")
          /\ U!StartsAs(st)
    /\ \E at \in {"check", "off"} :
          /\ (at = "check") <=> (subject = "startup")
          /\ S!StartsAs(at)
    /\ subject # "startup" => /\ ask = One(Asks) /\ own = One(OwnPrefs)
                              /\ addrs = One(HostAddrs) /\ routes = One(Routes)

History == subject = "history" /\ H!Next /\ UNCHANGED <<subject, eVars, fVars, xVars, cVars, uVars, sVars>>
Escape == subject = "escape" /\ E!Next /\ UNCHANGED <<subject, hVars, fVars, xVars, cVars, uVars, sVars>>
Frames == subject = "framing" /\ F!Next /\ UNCHANGED <<subject, hVars, eVars, xVars, cVars, uVars, sVars>>
Display == subject = "x11" /\ X!Next /\ UNCHANGED <<subject, hVars, eVars, fVars, cVars, uVars, sVars>>
Config == subject = "config" /\ C!Next /\ UNCHANGED <<subject, hVars, eVars, fVars, xVars, uVars, sVars>>
Udp == subject = "udp" /\ U!Next /\ UNCHANGED <<subject, hVars, eVars, fVars, xVars, cVars, sVars>>
Bootstrap == subject = "startup" /\ S!Next /\ UNCHANGED <<subject, hVars, eVars, fVars, xVars, cVars, uVars>>

Next == History \/ Escape \/ Frames \/ Display \/ Config \/ Udp \/ Bootstrap

Spec == Init /\ [][Next]_vars

FairSpec == Spec /\ U!Fairness /\ S!Fairness
-----------------------------------------------------------------------------
(* Properties, each stated in the module of its component.                 *)

\* Types, and the bound of the reply channel of a UDP forward.
TypeOK ==
    /\ H!TypeOK /\ E!TypeOK /\ F!TypeOK /\ X!TypeOK /\ C!TypeOK /\ U!TypeOK
    /\ subject = "startup" => S!TypeOK

\* The byte total of the replay history is that of its entries, which two loops
\* subtract from, and a replay is an unbroken run of numbers for every watermark.
HistoryExact == H!BytesExact /\ H!ReplayIsInterval

\* record_send evicts no more than the byte limit asks for.
KeepsLongestSuffix == H!KeepsLongestSuffix

\* The history implements the window the data paths use.
ImplementsWindow == H!ImplementsWindow

\* The stdin reader forwards exactly what was typed less the escapes, and quits
\* exactly at ~. at a line start, however read() cuts the input.
FilterExact == E!Transparent /\ E!EscapeExact

\* Frames are read whole, in order and unaltered, wherever the stream is cut.
WholeOrNothing == F!WholeOrNothing

\* The clean end of a stream and an error each have their causes.
EndExplained == F!EndExplained

\* An exported X11 display belongs to its process alone, and a process that ends
\* by itself leaves nothing of it behind but what it failed to remove.
DisplaysOwned == X!DisplayIsMine /\ X!NothingLeft

\* etr --merge-config keeps the settings of an orderly file, and is idempotent.
MergeKeepsSettings == C!MergeKeepsSettings

\* The sockets of a UDP forward are bounded by MAX_UDP_SENDERS.
SocketsBounded == U!SocketsBounded

\* A sender in use loses its socket only to a full map, and as the one that has
\* been silent longest.
EvictsOldest == U!EvictsOldest

\* A reply to a sender is taken from its socket while its reader lives.
ReplyTaken == U!ReplyTaken

\* The server etr dials runs what the user asked for.
AskedIsRun == S!AskedIsRun

\* etr leaves a live server behind only for one of the named reasons.
OrphanExplained == S!OrphanExplained

\* The bootstrap over ssh comes to an end.
BootstrapEnds == S!BootstrapEnds
=============================================================================
