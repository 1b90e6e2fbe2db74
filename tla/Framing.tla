------------------------------- MODULE Framing -------------------------------
(***************************************************************************)
(* The framing of quic.rs on one QUIC stream: envelopes behind a length    *)
(* (write_msg, read_msg), PTY and stdin chunks behind a number and a       *)
(* length (write_pty_chunk, read_pty_chunk), and the datagrams that        *)
(* forward.rs frames itself with a reused UdpFrameEncoder (write_framed).  *)
(* A header is a run of digits of base Radix, most significant first; a    *)
(* body is a run of units.  The writer may be dropped, which finishes the  *)
(* stream, and the connection may be lost, after any unit.                 *)
(***************************************************************************)
EXTENDS Integers, Sequences, SequencesExt

CONSTANTS
    Radix,     \* values of a header digit (256)
    SeqDigits, \* digits of a chunk's number (8)
    LenDigits, \* digits of a length (4)
    Limit,     \* the largest body a reader takes (4 MiB, 1 MiB for a chunk)
    BodyLens,  \* lengths of the payloads that are sent
    Ips, Ports, \* parts of a UDP peer's address
    MaxHanded  \* bound: messages handed to the writer

VARIABLES
    kind,    \* what the stream carries: "msg", "chunk" or "udp"
    handed,  \* what the writer was given
    enc,     \* UdpFrameEncoder: cached_ip, and the reused UdpDatagram
    pending, \* units of the current frame still to be written
    wire,    \* units written and not read yet
    stream,  \* "open", "finished" or "lost"
    reader,  \* "header", "body", "end" (Ok(None)) or "error"
    head,    \* the header read, as <<number, length>>
    got      \* what the reader returned

vars == <<kind, handed, enc, pending, wire, stream, reader, head, got>>

NoPeer == <<"", 0>>

Init ==
    /\ kind \in {"msg", "chunk", "udp"}
    /\ handed = <<>>
    /\ enc = [cached_ip |-> "", addr |-> "", port |-> 0, data |-> <<>>]
    /\ pending = <<>>
    /\ wire = <<>>
    /\ stream = "open"
    /\ reader = "header"
    /\ head = <<0, 0>>
    /\ got = <<>>

\* to_be_bytes and from_be_bytes, in `width` digits: a digit is what remains of a
\* number after it was shifted right.
Shifted(n, k) ==
    LET after[i \in 0 .. k] == IF i = 0 THEN n ELSE after[i - 1] \div Radix
    IN  after[k]
ToDigits(n, width) == [i \in 1 .. width |-> Shifted(n, width - i) % Radix]
FromDigits(digits) ==
    LET value[i \in 0 .. Len(digits)] == IF i = 0 THEN 0 ELSE value[i - 1] * Radix + digits[i]
    IN  value[Len(digits)]

\* Numbers and lengths fit their digits: nothing of them is shifted out.
FramingAssumption ==
    /\ Radix \in Nat \ {0, 1} /\ SeqDigits \in Nat /\ LenDigits \in Nat \ {0}
    /\ MaxHanded \in Nat /\ \A k \in 1 .. MaxHanded : Shifted(k, SeqDigits) = 0
    /\ BodyLens \subseteq Nat
    /\ \A n \in BodyLens : Shifted(n, LenDigits) = 0 /\ Shifted(n + 2, LenDigits) = 0

HeaderLen == LenDigits + (IF kind = "chunk" THEN SeqDigits ELSE 0)

\* Mutant of Encode: a peer with a known address keeps its port.
EncodeCachedPeer(e, peer, data) ==
    IF e.cached_ip # peer[1]
    THEN [cached_ip |-> peer[1], addr |-> peer[1], port |-> peer[2], data |-> data]
    ELSE [e EXCEPT !.data = data]

\* UdpFrameEncoder::frame: the address is formatted again only when it differs
\* from the cached one; port and payload are always replaced.
Encode(e, peer, data) ==
    [cached_ip |-> peer[1],
     addr |-> IF e.cached_ip # peer[1] THEN peer[1] ELSE e.addr,
     port |-> peer[2],
     data |-> data]

\* The body of a message, and the whole frame.
Body(msg, e) == IF kind = "udp" THEN <<e.addr, e.port>> \o e.data ELSE msg.data
Frame(msg, e) ==
    LET body == Body(msg, e)
        length == ToDigits(Len(body), LenDigits)
    IN  (IF kind = "chunk" THEN ToDigits(msg.seq, SeqDigits) \o length ELSE length) \o body

\* A message number k, whose payload can be told from every other one.
Message(k, len, peer) == [seq |-> k, peer |-> peer, data |-> [i \in 1 .. len |-> k]]
-----------------------------------------------------------------------------
(* The writer.                                                             *)

\* write_msg, write_pty_chunk or write_framed is called with the next message.
Hand(len, peer) ==
    LET msg == Message(Len(handed) + 1, len, peer) IN
    /\ stream = "open"
    /\ pending = <<>>
    /\ Len(handed) < MaxHanded
    /\ (kind = "udp") <=> (peer # NoPeer)
    /\ handed' = Append(handed, msg)
    /\ enc' = IF kind = "udp" THEN Encode(enc, peer, msg.data) ELSE enc
    /\ pending' = Frame(msg, enc')
    /\ UNCHANGED <<kind, wire, stream, reader, head, got>>

\* write_all gets one more unit onto the stream.
WriteUnit ==
    /\ stream = "open"
    /\ pending # <<>>
    /\ wire' = Append(wire, Head(pending))
    /\ pending' = Tail(pending)
    /\ UNCHANGED <<kind, handed, enc, stream, reader, head, got>>

\* The send stream is finished or dropped, in the middle of a frame if the task
\* that writes is aborted there.
Finish ==
    /\ stream = "open"
    /\ stream' = "finished"
    /\ UNCHANGED <<kind, handed, enc, pending, wire, reader, head, got>>

\* The connection is lost, and with it what had not arrived.
Lose ==
    /\ stream # "lost"
    /\ stream' = "lost"
    /\ \E n \in 0 .. Len(wire) : wire' = SubSeq(wire, 1, n)
    /\ UNCHANGED <<kind, handed, enc, pending, reader, head, got>>
-----------------------------------------------------------------------------
(* The reader.                                                             *)

\* The header is complete; a length beyond the limit is an error.
ReadHeader ==
    LET hdr == SubSeq(wire, 1, HeaderLen)
        seq == FromDigits(SubSeq(hdr, 1, HeaderLen - LenDigits))
        len == FromDigits(SubSeq(hdr, HeaderLen - LenDigits + 1, HeaderLen))
    IN  /\ reader = "header"
        /\ Len(wire) >= HeaderLen
        /\ wire' = SubSeq(wire, HeaderLen + 1, Len(wire))
        /\ head' = <<seq, len>>
        /\ reader' = IF len > Limit THEN "error" ELSE "body"
        /\ UNCHANGED <<kind, handed, enc, pending, stream, got>>

\* The stream ends inside or before a header: FinishedEarly is Ok(None).
HeaderCut ==
    /\ reader = "header"
    /\ Len(wire) < HeaderLen
    /\ \/ stream = "finished" /\ reader' = "end"
       \/ stream = "lost" /\ reader' = "error"
    /\ UNCHANGED <<kind, handed, enc, pending, wire, stream, head, got>>

\* The body is complete, and decoded.
ReadBody ==
    LET body == SubSeq(wire, 1, head[2])
        udp == kind = "udp"
        msg == [seq |-> IF kind = "chunk" THEN head[1] ELSE Len(got) + 1,
                peer |-> IF udp THEN <<body[1], body[2]>> ELSE NoPeer,
                data |-> IF udp THEN SubSeq(body, 3, Len(body)) ELSE body]
    IN  /\ reader = "body"
        /\ Len(wire) >= head[2]
        /\ wire' = SubSeq(wire, head[2] + 1, Len(wire))
        /\ got' = Append(got, msg)
        /\ reader' = "header"
        /\ UNCHANGED <<kind, handed, enc, pending, stream, head>>

\* Mutant of BodyCut: a body that is cut short looks like the end.
BodyCutEnds ==
    /\ reader = "body"
    /\ Len(wire) < head[2]
    /\ stream # "open"
    /\ reader' = "end"
    /\ UNCHANGED <<kind, handed, enc, pending, wire, stream, head, got>>

\* The stream ends inside a body: an error, finished or lost.
BodyCut ==
    /\ reader = "body"
    /\ Len(wire) < head[2]
    /\ stream # "open"
    /\ reader' = "error"
    /\ UNCHANGED <<kind, handed, enc, pending, wire, stream, head, got>>

Writer == (\E len \in BodyLens, peer \in (Ips \X Ports) \cup {NoPeer} : Hand(len, peer))
          \/ WriteUnit \/ Finish
Reader == ReadHeader \/ HeaderCut \/ ReadBody \/ BodyCut

Next == Writer \/ Lose \/ Reader

Spec == Init /\ [][Next]_vars
-----------------------------------------------------------------------------
(* Properties.                                                             *)

TypeOK ==
    /\ kind \in {"msg", "chunk", "udp"}
    /\ stream \in {"open", "finished", "lost"}
    /\ reader \in {"header", "body", "end", "error"}
    /\ Len(handed) <= MaxHanded /\ Len(got) <= MaxHanded
    /\ head \in Nat \X Nat

\* Wherever the stream is cut, the reader returns whole messages only, in order
\* and unaltered: no torn frame is taken for a shorter message, no two frames run
\* into each other, and a datagram has the address, port and payload of its own
\* peer although the encoder keeps those of the previous one.
WholeOrNothing == IsPrefix(got, handed)

\* Units of the last frame that were written.
LastWritten == HeaderLen + Len(Body(Last(handed), enc)) - Len(pending)
TooLong(msg) == Len(msg.data) + (IF kind = "udp" THEN 2 ELSE 0) > Limit

\* Ok(None) is returned only for a stream that was finished, and then everything
\* was read, but for a last message that was torn inside its header; an error has
\* a lost connection, a message beyond the limit or a torn body behind it.
EndExplained ==
    /\ reader = "end" =>
          \/ got = handed
          \/ pending # <<>> /\ got = Front(handed) /\ LastWritten < HeaderLen
    /\ reader = "error" =>
          \/ stream = "lost"
          \/ \E i \in DOMAIN handed : TooLong(handed[i])
          \/ stream = "finished" /\ pending # <<>> /\ LastWritten >= HeaderLen
=============================================================================
