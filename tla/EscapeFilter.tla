---------------------------- MODULE EscapeFilter ----------------------------
(***************************************************************************)
(* The stdin reader thread's escape filter: it reads stdin in chunks of    *)
(* whatever size read() returns, recognises ~ at a line start, and sends   *)
(* what is left of each chunk to the stdin channel.  at_line_start and     *)
(* escape_pending outlive a chunk, so an escape may be split across reads. *)
(***************************************************************************)
EXTENDS Integers, Sequences

CONSTANTS
    Keys,     \* the bytes typed, with the four the filter tells apart
    MaxInput  \* bound: bytes on stdin

Tilde == "~"
Dot == "."
Newline == "nl"  \* CR or LF

EscapeFilterAssumption ==
    /\ {Tilde, Dot, Newline} \subseteq Keys
    /\ MaxInput \in Nat

VARIABLES
    input,           \* the bytes read so far
    reader,          \* "read", "chunk" (inside the loop over buf), "escaped", "ended"
    out,             \* what the current chunk has yielded
    sent,            \* what has been sent to the stdin channel
    at_line_start,
    escape_pending

vars == <<input, reader, out, sent, at_line_start, escape_pending>>

Init ==
    /\ input = <<>>
    /\ reader = "read"
    /\ out = <<>>
    /\ sent = <<>>
    /\ at_line_start = TRUE
    /\ escape_pending = FALSE

\* What one byte does to the filter when no escape is pending ...
Plain(b) ==
    /\ ~escape_pending
    /\ reader' = "chunk"
    /\ IF b = Tilde /\ at_line_start
       THEN /\ escape_pending' = TRUE
            /\ UNCHANGED <<out, at_line_start>>
       ELSE /\ out' = Append(out, b)
            /\ at_line_start' = (b = Newline)
            /\ UNCHANGED escape_pending

\* ... and right after the ~ of one.
AfterTilde(b) ==
    /\ escape_pending
    /\ escape_pending' = FALSE
    /\ \/ /\ b = Dot
          /\ reader' = "escaped"
          /\ UNCHANGED <<out, at_line_start>>
       \/ /\ b = Tilde
          /\ reader' = "chunk"
          /\ out' = Append(out, Tilde)
          /\ at_line_start' = FALSE
       \/ /\ b \notin {Dot, Tilde}
          /\ reader' = "chunk"
          /\ out' = out \o <<Tilde, b>>
          /\ at_line_start' = (b = Newline)

\* One byte of a chunk.
Byte(b) ==
    /\ reader \in {"read", "chunk"}
    /\ Len(input) < MaxInput
    /\ input' = Append(input, b)
    /\ Plain(b) \/ AfterTilde(b)
    /\ UNCHANGED sent

\* Mutant of ChunkEnds: a ~ at the end of a chunk is forgotten.
ChunkForgetsTilde ==
    /\ reader = "chunk"
    /\ reader' = "read"
    /\ sent' = sent \o out
    /\ out' = <<>>
    /\ escape_pending' = FALSE
    /\ UNCHANGED <<input, at_line_start>>

\* The chunk is over: what it yielded, if anything, goes to the channel.
ChunkEnds ==
    /\ reader = "chunk"
    /\ reader' = "read"
    /\ sent' = sent \o out
    /\ out' = <<>>
    /\ UNCHANGED <<input, at_line_start, escape_pending>>

\* read() returns 0 or fails.
StdinEnds ==
    /\ reader = "read"
    /\ reader' = "ended"
    /\ UNCHANGED <<input, out, sent, at_line_start, escape_pending>>

\* The thread has returned.
Done ==
    /\ reader \in {"escaped", "ended"}
    /\ UNCHANGED vars

Next == (\E b \in Keys : Byte(b)) \/ ChunkEnds \/ StdinEnds \/ Done

Spec == Init /\ [][Next]_vars
-----------------------------------------------------------------------------
(* Properties.  The reference knows no state: a ~ opens an escape when it  *)
(* is the first byte or follows a newline.                                 *)

TypeOK ==
    /\ input \in Seq(Keys)
    /\ reader \in {"read", "chunk", "escaped", "ended"}
    /\ out \in Seq(Keys)
    /\ sent \in Seq(Keys)
    /\ at_line_start \in BOOLEAN
    /\ escape_pending \in BOOLEAN

Opens(i) == input[i] = Tilde /\ (i = 1 \/ input[i - 1] = Newline)
OpensPair(i, b) == Opens(i) /\ i < Len(input) /\ input[i + 1] = b

\* The first n bytes of the input without the openers of ~~.
Unescaped(n) ==
    LET kept[i \in 0 .. n] ==
            IF i = 0 THEN <<>>
            ELSE IF OpensPair(i, Tilde) THEN kept[i - 1]
            ELSE Append(kept[i - 1], input[i])
    IN  kept[n]

\* The input up to an opener that is still pending or led to the exit.
Reference ==
    Unescaped(IF input # <<>> /\ Opens(Len(input)) THEN Len(input) - 1
              ELSE IF reader = "escaped" THEN Len(input) - 2
              ELSE Len(input))

\* However read() cuts stdin into chunks, the bytes that leave the filter are the
\* ones that entered it, less the first ~ of each ~~ at a line start.
Transparent == sent \o out = Reference

\* The thread quits exactly at the first ~. that stands at a line start.
EscapeExact ==
    (reader = "escaped") <=> \E i \in DOMAIN input : OpensPair(i, Dot)
=============================================================================
