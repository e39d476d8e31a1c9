------------------------------- MODULE Console -------------------------------
(***************************************************************************)
(* The event loop of main.c and the three ways text gets into it: the      *)
(* serial line (uart_rx_proc), Bluetooth and the modem (modem_rx_proc).    *)
(* What is typed is run as a script by exec_js.  The main thread takes one *)
(* event at a time, so a step is an event with all that it leads to.       *)
(*                                                                         *)
(* A character is "x", which stands for any, or "CR", "LF" or "NUL".  The  *)
(* modem's line "SMS Ready" is <<"S">>.  A script ends well or with an     *)
(* error that nobody catches: my_fatal then resets the module.  The lines  *)
(* of the modem and of Bluetooth fit the buffers they are copied to, and a *)
(* +BTSPPDATA begins its piece.                                            *)
(***************************************************************************)
EXTENDS Naturals, Sequences, SequencesExt

CONSTANTS
  Pieces,       \* what one eat_uart_read may return
  SppPieces,    \* what one +BTSPPDATA may carry
  SppTail,      \* what the modem writes behind it
  Texts,        \* what else one eat_modem_read may return
  RX_LEN,       \* bytes of rx_buf that are in use
  TwoDigits,    \* the length from which +BTSPPDATA writes two digits: 10
  MaxSpp,       \* bound: characters in spp_buffer
  Reserve       \* values that fit the engine's stack between calls: 64

ASSUME ConsoleAssumption ==
  /\ RX_LEN \in Nat /\ TwoDigits \in Nat /\ MaxSpp \in Nat /\ Reserve \in Nat
  /\ \A p \in Pieces : p \in Seq({"x", "CR", "LF"}) /\ Len(p) \in 1 .. RX_LEN - 1
  /\ \A d \in SppPieces : d \in Seq({"x", "CR"}) /\ d # <<>>
  /\ SppTail \in Seq({"CR", "LF"})
  /\ \A t \in Texts : t \in Seq({"S", "CR", "LF"})

VARIABLES
  heap_init,    \* initHeap has run, and the loop
  rx_buf,       \* the serial line's buffer
  spp_buffer,   \* the Bluetooth line's
  stack,        \* values left on the engine's stack
  sms,          \* duk_sms_init has been called
  did           \* history: the last event: its kind, what arrived, what ran

vars == <<heap_init, rx_buf, spp_buffer, stack, sms, did>>

Did(event, p, text) == [event |-> event, piece |-> p, text |-> text]
Zeros == [i \in 1 .. RX_LEN |-> "NUL"]

Init ==
  /\ heap_init = FALSE
  /\ rx_buf = Zeros /\ spp_buffer = <<>> /\ stack = 0
  /\ sms = FALSE /\ did = Did("boot", <<>>, <<>>)

\* my_fatal, or what else ends in a restart.
reset(why, p) ==
  /\ heap_init' = FALSE
  /\ rx_buf' = Zeros /\ spp_buffer' = <<>> /\ stack' = 0
  /\ sms' = FALSE /\ did' = Did(why, p, <<>>)

-----------------------------------------------------------------------------
(* Scripts *)

\* index.js may fail, and then does so at every boot.
initHeap ==
  /\ ~heap_init
  /\ \/ heap_init' = TRUE /\ UNCHANGED <<rx_buf, spp_buffer, stack, sms, did>>
     \/ reset("script", <<>>)

\* The engine can push a value.
Room == stack < Reserve

\* event_callback has run, as it does before the handler of any event.
event_callback == heap_init /\ Room

\* It fails, or the line that the handler runs does: both are reset here.
script_fails ==
  /\ heap_init
  /\ reset(IF Room THEN "script" ELSE "stack", <<>>)

\* exec_js runs text: its result stays on the stack.
exec_js(channel, p, text) ==
  /\ stack' = stack + 1
  /\ did' = Did(channel, p, text)
  /\ UNCHANGED <<heap_init, sms>>

-----------------------------------------------------------------------------
(* uart_rx_proc *)

Overlay(p) == [i \in 1 .. RX_LEN |-> IF i <= Len(p) THEN p[i] ELSE rx_buf[i]]

\* rx_buf with '\0' at i; in front of the buffer that changes another variable.
Ended(p, i) == [j \in 1 .. RX_LEN |-> IF j = i THEN "NUL" ELSE Overlay(p)[j]]

TerminatedLF(p) ==      \* a mutant: the end of a line is CR LF, always
  Ended(p, Len(p) - 1)

TerminatedBehind(p) ==  \* a mutant: the terminator goes behind what was read
  Ended(p, IF Last(p) = "CR" THEN Len(p) ELSE Len(p) + 1)

\* rx_buf[len-1] or rx_buf[len-2] becomes '\0'.
Terminated(p) ==
  Ended(p, IF Last(p) = "CR" THEN Len(p) ELSE Len(p) - 1)

\* s up to the first c.
UpTo(s, c) ==
  LET i == SelectInSeq(s, LAMBDA d : d = c) IN
  IF i = 0 THEN s ELSE SubSeq(s, 1, i - 1)

uart_rx_proc(p) ==
  /\ event_callback
  /\ rx_buf' = Terminated(p)
  /\ exec_js("uart", p, UpTo(rx_buf', "NUL"))
  /\ UNCHANGED spp_buffer

\* exec_js echoes the text and, if it is a string, the result through a buff of
\* 100 bytes, which eat_trace takes for its format.  What is too long, or holds a
\* conversion, is undefined; a reset stands for it where it does harm.
echo_faults(p) == event_callback /\ reset("echo", p)

-----------------------------------------------------------------------------
(* modem_rx_proc *)

CutsAtLF(t) ==          \* a mutant: LF at the end of a piece is a cut, too
  {i \in DOMAIN t : t[i] = "CR" \/ i = Len(t)}

\* Where the loop ends a line: at CR, and at the last character of the piece,
\* which it loses, unless that is LF.
Cuts(t) == {i \in DOMAIN t : t[i] = "CR" \/ (i = Len(t) /\ t[i] # "LF")}

LineStartAtLF(t, i) ==  \* a mutant: j = i + 1
  LET before == {k \in Cuts(t) : k < i} IN
  IF before = {} THEN 1 ELSE Max(before) + 1

\* j = i + 2 at the cut before.
LineStart(t, i) ==
  LET before == {k \in Cuts(t) : k < i} IN
  IF before = {} THEN 1 ELSE Max(before) + 2

FoundLines(t) == {SubSeq(t, LineStart(t, i), i - 1) : i \in Cuts(t)}

\* A cut right behind a cut: strncpy is given a length of -1 and clears all the
\* memory it can reach.
Wild(t) == \E i \in Cuts(t) : i < LineStart(t, i)

wild(t) == event_callback /\ Wild(t) /\ reset("wild", t)

modem_text(t) ==
  /\ event_callback
  /\ ~Wild(t)
  /\ sms' = (sms \/ <<"S">> \in FoundLines(t))
  /\ did' = Did("modem", t, <<>>)
  /\ UNCHANGED <<heap_init, rx_buf, spp_buffer, stack>>

WordWhole(d) == d       \* a mutant: %c for %s

\* sscanf's %s: the first word.
Word(d) ==
  LET i == SelectInSeq(d, LAMBDA c : c # "CR") IN
  IF i = 0 THEN <<>> ELSE UpTo(SubSeq(d, i, Len(d)), "CR")

\* How far ptr goes into the data: the header is taken to have one digit.
Skipped(d) == IF Len(d) < TwoDigits THEN Len(d) ELSE Len(d) - 1

\* What the loop over the lines is left with.
SppRest(d) == SubSeq(d, Skipped(d) + 1, Len(d)) \o SppTail

\* The line is emptied, and then run.
spp_line(d) ==
  /\ event_callback
  /\ d[Skipped(d)] = "CR" /\ ~Wild(SppRest(d))
  /\ spp_buffer' = <<>>
  /\ exec_js("spp", d, spp_buffer')
  /\ UNCHANGED rx_buf

spp_data(d) ==
  /\ event_callback
  /\ d[Skipped(d)] # "CR" /\ ~Wild(SppRest(d))
  /\ Len(spp_buffer \o Word(d)) <= MaxSpp
  /\ spp_buffer' = spp_buffer \o Word(d)
  /\ did' = Did("spp", d, <<>>)
  /\ UNCHANGED <<heap_init, rx_buf, stack, sms>>

Next ==
  \/ initHeap \/ script_fails
  \/ \E p \in Pieces : uart_rx_proc(p) \/ echo_faults(p)
  \/ \E d \in SppPieces : spp_line(d) \/ spp_data(d) \/ wild(SppRest(d))
  \/ \E t \in Texts : wild(t) \/ modem_text(t)

Spec == Init /\ [][Next]_vars
-----------------------------------------------------------------------------
(* Properties *)

\* Every variable has its type, and the engine's stack is never used beyond
\* what is reserved.
TypeOK ==
  /\ heap_init \in BOOLEAN /\ sms \in BOOLEAN
  /\ rx_buf \in [1 .. RX_LEN -> {"x", "CR", "LF", "NUL"}]
  /\ spp_buffer \in Seq({"x"}) /\ Len(spp_buffer) <= MaxSpp
  /\ stack \in 0 .. Reserve
  /\ did.event \in {"boot", "uart", "spp", "modem", "script", "stack", "echo", "wild"}

\* The line of a piece that ends in CR or CR LF.
LineOf(p) ==
  SubSeq(p, 1, IF Last(p) = "CR" THEN Len(p) - 1 ELSE Len(p) - 2)

EndsLine(p) == Last(p) = "CR" \/ IsSuffix(<<"CR", "LF">>, p)

\* A line of the serial line that arrives in one read is run as it was typed,
\* whatever the buffer held before (unless its echo goes wrong, echo_faults).
WholeLineRuns ==
  did.event = "uart" /\ EndsLine(did.piece) => did.text = LineOf(did.piece)

\* What an earlier read left in rx_buf is run again only when a single byte
\* arrives that is not CR: its terminator misses the buffer.
StaleOnlyAfterOneByte ==
  did.event = "uart" =>
    IsPrefix(did.text, did.piece) \/ (Len(did.piece) = 1 /\ did.piece # <<"CR">>)

\* What the modem sends as whole lines, each ended by CR LF.
WholeLines(t) ==
  t # <<>> /\ Last(t) = "LF" /\ Head(t) # "LF" /\
  \A i \in DOMAIN t :
    /\ t[i] = "CR" => i < Len(t) /\ t[i + 1] = "LF"
    /\ t[i] = "LF" => i > 1 /\ t[i - 1] = "CR"

\* Any part of that.
PartOfLines(t) ==
  \A i \in DOMAIN t :
    /\ t[i] = "CR" /\ i < Len(t) => t[i + 1] = "LF"
    /\ t[i] = "LF" /\ i > 1 => t[i - 1] = "CR"

\* "SMS Ready" is on a line of its own.
SaysReady(t) ==
  \E i \in DOMAIN t :
    /\ t[i] = "S" /\ t[i + 1] = "CR"
    /\ i = 1 \/ t[i - 1] = "LF"

\* Among whole lines "SMS Ready" is found, at any place, after empty lines too.
ReadyFound ==
  did.event = "modem" /\ WholeLines(did.piece) /\ SaysReady(did.piece) => sms

\* Two lines are never taken for one of negative length in what is a part of
\* lines that end in CR LF, wherever two reads cut them.  (It takes a bare CR, as
\* in the echo of a command.)
WildNeedsBareCR == did.event = "wild" => ~PartOfLines(did.piece)

\* README.md:4: "you can call all eat function directly from the serial line".
\* So a line without an error does not reset the module.
LinesDoNotReset == did.event # "stack"
=============================================================================
