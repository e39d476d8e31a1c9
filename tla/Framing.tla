------------------------------- MODULE Framing -------------------------------
(***************************************************************************)
(* How client_proc of protocol/client.c cuts what eat_soc_recv returned    *)
(* into messages.  The server's messages are one stream of bytes; each     *)
(* SOC_READ takes the next piece of it, of any length, into a zeroed       *)
(* buffer, and what is left of it when client_proc returns is forgotten.   *)
(*                                                                         *)
(* The code holds two opinions of the length field: the loop test counts   *)
(* the two bytes of the sequence number in it, the subtraction (and        *)
(* alloc_msg, which writes the program's own messages) does not.  extra    *)
(* is what the server of a connection does.                                *)
(***************************************************************************)
EXTENDS Naturals, Sequences, FiniteSets, SequencesExt

CONSTANTS
  Payloads,     \* what follows the header, as sequences of bytes
  Cmds,         \* the command bytes of the server's messages
  MaxFrames,    \* bound: messages in a stream
  Extras,       \* a subset of {0, 2}: see extra
  BUF,          \* the buffer of soc_notify_cb: 1152
  SIZE_T        \* 2^32

MSG_HEADER_LEN == 7     \* signature 2, cmd 1, length 2, seq 2

ASSUME FramingAssumption ==
  /\ Payloads \subseteq Seq(0 .. 255)
  /\ \A p \in Payloads : Len(p) + 2 < 65536
  /\ Cmds \subseteq (0 .. 255) \ {103}   \* protocol.h:33-77 has no 103
  /\ MaxFrames \in Nat /\ Extras \subseteq {0, 2}
  /\ BUF \in Nat /\ SIZE_T \in Nat /\ SIZE_T > BUF + MSG_HEADER_LEN

VARIABLES
  extra,        \* what the server's length field counts beyond the payload
  stream,       \* what the server sends: its messages, in order
  taken,        \* bytes of the stream received before this piece
  msgLen,       \* bytes of this piece
  leftLen, off, \* client_proc: bytes it believes are left, and msg - m
  at,           \* "recv": waiting for SOC_READ; "loop": at the loop test;
                \* "overrun": memory beyond the buffer has been read
  handled       \* history: where in the stream handle_one_msg was called
                \* while this piece was processed

vars == <<extra, stream, taken, msgLen, leftLen, off, at, handled>>

Header(c, n) == <<103, 103, c, n \div 256, n % 256, 0, 1>>

Frame(c, p, x) == Header(c, Len(p) + x) \o p

Frames(x) == {Frame(c, p, x) : c \in Cmds, p \in Payloads}

Bytes == FlattenSeq(stream)

\* The byte at offset i of the buffer, while i < BUF.
Byte(i) == IF i < msgLen THEN Bytes[taken + i + 1] ELSE 0

\* External: the next connection.  A connection that breaks earlier needs no
\* step of its own: nothing of a stream outlives it.
connect ==
  /\ at = "overrun" \/ (at = "recv" /\ taken + msgLen = Len(Bytes))
  /\ extra' \in Extras
  /\ stream' \in UNION {[1 .. k -> Frames(extra')] : k \in 1 .. MaxFrames}
  /\ taken' = 0 /\ msgLen' = 0 /\ leftLen' = 0 /\ off' = 0
  /\ at' = "recv"
  /\ handled' = <<>>

Init ==
  /\ extra \in Extras
  /\ stream = <<>>
  /\ taken = 0 /\ msgLen = 0 /\ leftLen = 0 /\ off = 0
  /\ at = "recv"
  /\ handled = <<>>

-----------------------------------------------------------------------------
\* SOC_READ: eat_soc_recv returned n bytes, and client_proc starts.
SOC_READ(n) ==
  /\ at = "recv"
  /\ n <= BUF /\ taken + msgLen + n <= Len(Bytes)
  /\ taken' = taken + msgLen
  /\ msgLen' = n
  /\ leftLen' = n
  /\ off' = 0
  /\ at' = IF n < MSG_HEADER_LEN THEN "recv" ELSE "loop"
  /\ handled' = <<>>
  /\ UNCHANGED <<extra, stream>>

\* ntohs(msg->length)
length == 256 * Byte(off + 3) + Byte(off + 4)

\* What the loop test reads of the header at msg.
Readable == off + 5 <= BUF

Enough == leftLen >= length + MSG_HEADER_LEN - 2

Unsigned == FALSE      \* a mutant: any signature will do
SignatureError == Byte(off) # 103 \/ Byte(off + 1) # 103

handle_one_msg == handled' = Append(handled, taken + off)

advance_shared ==      \* a mutant: the length of the loop test here too
  /\ leftLen' = (SIZE_T + leftLen - MSG_HEADER_LEN - length + 2) % SIZE_T
  /\ off' = (SIZE_T + msgLen - leftLen') % SIZE_T

advance_signed ==      \* a mutant: an int for a size_t
  /\ leftLen' = leftLen - MSG_HEADER_LEN - length
  /\ off' = msgLen - leftLen'

\* size_t arithmetic: leftLen wraps below zero, and msg = m + msgLen - leftLen
\* then points behind the piece.
advance ==
  /\ leftLen' = (SIZE_T + leftLen - MSG_HEADER_LEN - length) % SIZE_T
  /\ off' = (SIZE_T + msgLen - leftLen') % SIZE_T

next_message ==
  /\ at = "loop"
  /\ Readable
  /\ Enough
  /\ ~SignatureError
  /\ handle_one_msg
  /\ advance
  /\ UNCHANGED <<extra, stream, taken, msgLen, at>>

return ==
  /\ at = "loop"
  /\ Readable
  /\ Enough => SignatureError
  /\ at' = "recv"
  /\ UNCHANGED <<extra, stream, taken, msgLen, leftLen, off, handled>>

overrun ==
  /\ at = "loop"
  /\ ~Readable
  /\ at' = "overrun"
  /\ UNCHANGED <<extra, stream, taken, msgLen, leftLen, off, handled>>

Next == connect \/ (\E n \in 1 .. BUF : SOC_READ(n)) \/ next_message \/ return \/ overrun

Spec == Init /\ [][Next]_vars

-----------------------------------------------------------------------------
(* Properties *)

Start(k) == Len(FlattenSeq(SubSeq(stream, 1, k - 1)))
End(k) == Start(k) + Len(stream[k])

\* This piece starts where a message starts.
Aligned == \E k \in DOMAIN stream : Start(k) = taken

\* The messages that start in this piece, and those of them that end in it.
Begun == {k \in DOMAIN stream : taken <= Start(k) /\ Start(k) < taken + msgLen}
Whole == {k \in Begun : End(k) <= taken + msgLen}

Handled == {handled[i] : i \in DOMAIN handled}

\* Every variable has its type.
TypeOK ==
  /\ extra \in Extras
  /\ \A k \in DOMAIN stream : stream[k] \in Frames(extra)
  /\ taken + msgLen <= Len(Bytes)
  /\ leftLen \in 0 .. SIZE_T - 1 /\ off \in 0 .. SIZE_T - 1
  /\ at \in {"recv", "loop", "overrun"}
  /\ \A i \in DOMAIN handled : handled[i] \in 0 .. Len(Bytes)

\* A piece that starts with a message never makes client_proc take the middle of
\* a message, or what lies behind the piece, for another one: leftLen wraps and
\* msg leaves the piece, and the signature is what stops the loop there.
OnlyMessages ==
  Aligned =>
    /\ \A i \in DOMAIN handled : \E k \in Begun : handled[i] = Start(k)
    /\ \A i, j \in DOMAIN handled : i < j => handled[i] < handled[j]

\* A piece that starts with a message has its whole messages handled: all of them
\* when the server counts like alloc_msg.  Of one that counts as client.c:112
\* says, "-2 because the length includes the serial number (2 bytes)", it is
\* sure of the first one only: line 121 subtracts without the -2.
WholeHandled ==
  at = "recv" /\ Aligned =>
    \A k \in Whole : extra = 0 \/ Start(k) = taken => Start(k) \in Handled

\* A piece that leaves room for one more header in the buffer is processed
\* within the buffer, although leftLen and msg may leave the piece.
RoomSuffices == msgLen + MSG_HEADER_LEN <= BUF => at # "overrun"
=============================================================================
