------------------------------- MODULE CanBus -------------------------------
(***************************************************************************)
(* The CAN driver of canbus/mcp_can.c over mcp_can_spi_wrapper.c: one      *)
(* thread polls an MCP2515 (external) while the bus takes frames out of    *)
(* the chip's transmit buffers and puts frames into its receive buffers.   *)
(* A step is one access to the chip, so the bus can move between any two.  *)
(*                                                                         *)
(* A frame to send is the number of the call that sends it.  A frame from  *)
(* the bus is a number too, known by its first data byte: all that         *)
(* mcp2515_readRegisterS gets of the data, whatever n says.  0 stands for  *)
(* neither: cleared registers, or what setMsg left in the statics.  Bit    *)
(* rates and filters decide which frames arrive and are left to the bus.   *)
(***************************************************************************)
EXTENDS Naturals, FiniteSets

CONSTANTS
  MCP_N_TXBUFFERS,
  TIMEOUTVALUE,
  MaxCalls,     \* bound: calls of can_sendMsgBuf
  MaxFrames     \* bound: frames the bus delivers

ASSUME CanAssumption ==
  /\ MCP_N_TXBUFFERS \in 1 .. 3 /\ TIMEOUTVALUE \in Nat \ {0}
  /\ MaxCalls \in Nat /\ MaxFrames \in Nat

VARIABLES
  pc,           \* where the thread is; "idle": outside the driver; "wild": it has
                \* copied more than MAX_CHAR_IN_MESSAGE bytes, over what follows
                \* the caller's buffer, and nothing is promised until a reset
  buf,          \* the buffer a call is at: txbuf_n, or the argument of read_canMsg
  uiTimeOut,    \* completed turns of the polling loop of mcp_sendMsg
  m,            \* the statics m_n...: the frame they hold, m_nRtr, and whether
                \* m_nDlc is more than MAX_CHAR_IN_MESSAGE
  mode,         \* external: the chip's mode, "config" or "normal"
  tx,           \* external: per transmit buffer TXREQ, the call that filled it, what
                \* its registers hold, and RTR
  rx,           \* external: per receive buffer the frame and its RTR; 0: flag clear
  calls,        \* history: calls of can_sendMsgBuf
  frames,       \* history: frames the bus has delivered
  wire,         \* history: what went out: the call, the frame, the RTR bit
  gone,         \* history: calls that gave up, or whose frame an init wiped
  freeAtCall,   \* history: a buffer was free when this call began
  checked,      \* history: can_checkReceive has announced a frame
  given         \* history: the frames can_readMsgBuf has returned

driver == <<pc, buf, uiTimeOut, m>>
chip == <<mode, tx, rx>>
history == <<calls, frames, wire, gone, freeAtCall, checked, given>>
vars == <<driver, chip, history>>

TxBuf == 0 .. MCP_N_TXBUFFERS - 1
RxBuf == {0, 1}

\* The address of a transmit buffer's identifier, and an instruction.
SIDH(b) == 16 * b + 49
MCP_LOAD_TX0 == 64

Empty == [req |-> FALSE, call |-> 0, what |-> 0, rtr |-> FALSE]
None == [frame |-> 0, rtr |-> FALSE]
Unset == [frame |-> 0, rtr |-> FALSE, long |-> FALSE]

Pending == {b \in TxBuf : tx[b].req}
Full == {b \in RxBuf : rx[b].frame # 0}

Init ==
  /\ pc = "idle" /\ buf = 0 /\ uiTimeOut = 0
  /\ m = Unset
  /\ mode = "config"
  /\ tx = [b \in TxBuf |-> Empty]
  /\ rx = [b \in RxBuf |-> None]
  /\ calls = 0 /\ frames = 0 /\ wire = {} /\ gone = {}
  /\ freeAtCall = FALSE /\ checked = FALSE /\ given = {}

-----------------------------------------------------------------------------
(* can_begin, can_init_Mask, can_init_Filt *)

\* A chip that does not answer is no step.  The call ends in configuration mode
\* when the rate is not in the table (it returns CAN_OK then) or the chip does
\* not enter normal mode.
can_begin ==
  /\ pc = "idle"
  /\ mode' \in {"normal", "config"}
  /\ tx' = [b \in TxBuf |-> Empty]
  /\ rx' = [b \in RxBuf |-> None]
  /\ gone' = gone \cup {tx[b].call : b \in Pending}
  /\ checked' = FALSE
  /\ UNCHANGED <<driver, calls, frames, wire, freeAtCall, given>>

\* The mask or filter is a block write and does not get there; what is left is
\* the round trip to configuration mode.  The chip may fail to come back.
can_init_Mask_or_Filt ==
  /\ pc = "idle"
  /\ mode' \in {"normal", "config"}
  /\ UNCHANGED <<driver, tx, rx, history>>

-----------------------------------------------------------------------------
(* can_sendMsgBuf *)

\* setMsg leaves m_nRtr as it is.  Callers give a len of at most
\* MAX_CHAR_IN_MESSAGE.
can_sendMsgBuf ==
  /\ pc = "idle"
  /\ calls < MaxCalls
  /\ calls' = calls + 1
  /\ m' = [m EXCEPT !.frame = 0, !.long = FALSE]
  /\ pc' = "scan" /\ buf' = 0 /\ uiTimeOut' = 0
  /\ freeAtCall' = (Pending # TxBuf)
  /\ UNCHANGED <<chip, frames, wire, gone, checked, given>>

give_up ==
  /\ pc' = "idle" /\ buf' = 0 /\ uiTimeOut' = 0
  /\ gone' = gone \cup {calls}
  /\ UNCHANGED <<m, chip, calls, frames, wire, freeAtCall, checked, given>>

found_other_bit ==   \* a mutant: the mask is not TXREQ's, so every buffer is free
  IF uiTimeOut + 1 = TIMEOUTVALUE
  THEN give_up
  ELSE pc' = "load" /\ UNCHANGED <<buf, uiTimeOut, m, chip, history>>

\* The time-out is recognised by the count alone, after the loop.
found ==
  /\ buf \notin Pending
  /\ IF uiTimeOut + 1 = TIMEOUTVALUE
     THEN give_up
     ELSE pc' = "load" /\ UNCHANGED <<buf, uiTimeOut, m, chip, history>>

one_turn_more ==     \* a mutant: uiTimeOut <= TIMEOUTVALUE in the loop's condition,
                     \* which goes on with txbuf_n = 0, the address of no buffer
  /\ buf \in Pending
  /\ IF buf + 1 \in TxBuf
     THEN buf' = buf + 1 /\ UNCHANGED <<pc, uiTimeOut, m, chip, history>>
     ELSE IF uiTimeOut < TIMEOUTVALUE
     THEN /\ buf' = 0 /\ uiTimeOut' = uiTimeOut + 1
          /\ UNCHANGED <<pc, m, chip, history>>
     ELSE /\ pc' = "load" /\ buf' = MCP_N_TXBUFFERS
          /\ UNCHANGED <<uiTimeOut, m, chip, history>>

one_try ==           \* a mutant: the last buffer is never looked at
  /\ buf \in Pending
  /\ IF buf + 2 \in TxBuf
     THEN buf' = buf + 1 /\ UNCHANGED <<pc, uiTimeOut, m, chip, history>>
     ELSE IF uiTimeOut + 1 < TIMEOUTVALUE
     THEN /\ buf' = 0 /\ uiTimeOut' = uiTimeOut + 1
          /\ UNCHANGED <<pc, m, chip, history>>
     ELSE give_up

busy ==
  /\ buf \in Pending
  /\ IF buf + 1 \in TxBuf
     THEN buf' = buf + 1 /\ UNCHANGED <<pc, uiTimeOut, m, chip, history>>
     ELSE IF uiTimeOut + 1 < TIMEOUTVALUE
     THEN /\ buf' = 0 /\ uiTimeOut' = uiTimeOut + 1
          /\ UNCHANGED <<pc, m, chip, history>>
     ELSE give_up

getNextFreeTXBuf == pc = "scan" /\ (found \/ busy)

\* mcp2515_setRegisterS at an address, on buffers t: what they may hold then.
\* The instruction is sent in a transfer of its own, so the chip takes the
\* address for the next instruction.  One of the driver's addresses is one, the
\* identifier of buffer 1: it loads v into buffer 0 from its first data byte
\* on.  Whether the chip obeys while buffer 0 is pending is not laid down.
mcp2515_setRegisterS(t, address, v) ==
  IF address = MCP_LOAD_TX0 + 1 THEN {t, [t EXCEPT ![0].what = v]} ELSE {t}

\* Data, then the length with the RTR bit, which is a single register, then id.
\* The bit is set in m_nDlc itself and stays there.
write_canMsg ==
  /\ pc = "load"
  /\ \E t \in mcp2515_setRegisterS(tx, SIDH(buf) + 5, calls) :
       tx' \in mcp2515_setRegisterS(
                [t EXCEPT ![buf].rtr = m.rtr, ![buf].call = calls], SIDH(buf), calls)
  /\ m' = [m EXCEPT !.long = m.rtr]
  /\ pc' = "start"
  /\ UNCHANGED <<buf, uiTimeOut, mode, rx, history>>

start_all ==         \* a mutant: the request bit of every buffer
  /\ pc = "start"
  /\ tx' = [b \in TxBuf |-> [tx[b] EXCEPT !.req = TRUE]]
  /\ pc' = "wait"
  /\ UNCHANGED <<buf, uiTimeOut, m, mode, rx, history>>

start_transmit ==
  /\ pc = "start"
  /\ tx' = [tx EXCEPT ![buf].req = TRUE]
  /\ pc' = "wait"
  /\ UNCHANGED <<buf, uiTimeOut, m, mode, rx, history>>

\* The loop polls the identifier register in place of the control register and
\* changes nothing; which result it ends with is dropped by can_sendMsgBuf.
wait_sent ==
  /\ pc = "wait"
  /\ pc' = "idle" /\ buf' = 0 /\ uiTimeOut' = 0
  /\ UNCHANGED <<m, chip, history>>

-----------------------------------------------------------------------------
(* can_checkReceive and can_readMsgBuf *)

can_checkReceive ==
  /\ pc = "idle"
  /\ checked' = (Full # {})
  /\ UNCHANGED <<driver, chip, calls, frames, wire, gone, freeAtCall, given>>

\* The copy at the end of can_readMsgBuf: of whatever the statics hold, and as
\* many bytes as m_nDlc says.
copy(f) ==
  /\ pc' \in IF m.long THEN {"idle", "wild"} ELSE {"idle"}
  /\ buf' = 0
  /\ given' = IF f = 0 THEN given ELSE given \cup {f}
  /\ checked' = FALSE

\* readStatus; buffer 0 is preferred.
readStatus ==
  /\ pc = "idle"
  /\ IF Full = {}
     THEN copy(m.frame)
     ELSE /\ pc' = "read"
          /\ buf' = IF 0 \in Full THEN 0 ELSE 1
          /\ UNCHANGED <<given, checked>>
  /\ UNCHANGED <<uiTimeOut, m, chip, calls, frames, wire, gone, freeAtCall>>

\* m_nDlc is masked, and so below 16; a frame may say more than 8 and have 8.
read_canMsg ==
  /\ pc = "read"
  /\ \E long \in BOOLEAN :
       m' = [frame |-> rx[buf].frame, rtr |-> rx[buf].rtr, long |-> long]
  /\ pc' = "clear"
  /\ UNCHANGED <<buf, uiTimeOut, chip, history>>

clear_both ==        \* a mutant: one mask for both flags
  /\ pc = "clear"
  /\ rx' = [b \in RxBuf |-> None]
  /\ copy(m.frame)
  /\ UNCHANGED <<uiTimeOut, m, mode, tx, calls, frames, wire, gone, freeAtCall>>

clear_other ==       \* a mutant: the flag of the other buffer
  /\ pc = "clear"
  /\ rx' = [rx EXCEPT ![1 - buf] = None]
  /\ copy(m.frame)
  /\ UNCHANGED <<uiTimeOut, m, mode, tx, calls, frames, wire, gone, freeAtCall>>

\* modifyRegister(MCP_CANINTF, MCP_RXnIF, 0)
clear_flag ==
  /\ pc = "clear"
  /\ rx' = [rx EXCEPT ![buf] = None]
  /\ copy(m.frame)
  /\ UNCHANGED <<uiTimeOut, m, mode, tx, calls, frames, wire, gone, freeAtCall>>

\* External: what was written over brings the module down.  The chip runs on
\* until can_begin.
reset ==
  /\ pc = "wild"
  /\ pc' = "idle"
  /\ m' = Unset
  /\ UNCHANGED <<buf, uiTimeOut, chip, history>>

-----------------------------------------------------------------------------
(* External: the bus *)

\* A pending buffer goes out, in any order.
transmit(b) ==
  /\ mode = "normal" /\ b \in Pending
  /\ tx' = [tx EXCEPT ![b].req = FALSE]
  /\ wire' = wire \cup {[call |-> tx[b].call, what |-> tx[b].what, rtr |-> tx[b].rtr]}
  /\ UNCHANGED <<driver, mode, rx, calls, frames, gone, freeAtCall, checked, given>>

\* A frame goes to a buffer whose flag is clear.  One that finds none is lost
\* before the driver could know.
deliver(b, rtr) ==
  /\ mode = "normal" /\ b \notin Full
  /\ frames < MaxFrames
  /\ frames' = frames + 1
  /\ rx' = [rx EXCEPT ![b] = [frame |-> frames', rtr |-> rtr]]
  /\ UNCHANGED <<driver, mode, tx, calls, wire, gone, freeAtCall, checked, given>>

Next ==
  \/ can_begin \/ can_init_Mask_or_Filt
  \/ can_sendMsgBuf \/ getNextFreeTXBuf \/ write_canMsg \/ start_transmit \/ wait_sent
  \/ can_checkReceive \/ readStatus \/ read_canMsg \/ clear_flag
  \/ reset
  \/ \E b \in TxBuf : transmit(b)
  \/ \E b \in RxBuf, rtr \in BOOLEAN : deliver(b, rtr)

Spec == Init /\ [][Next]_vars

-----------------------------------------------------------------------------
(* Properties *)

\* The values of the variables; "given" and "gone" name past frames and calls.
TypeOK ==
  /\ pc \in {"idle", "scan", "load", "start", "wait", "read", "clear", "wild"}
  /\ buf \in TxBuf \cup RxBuf
  /\ uiTimeOut \in 0 .. TIMEOUTVALUE - 1
  /\ m \in [frame : 0 .. frames, rtr : BOOLEAN, long : BOOLEAN]
  /\ mode \in {"config", "normal"}
  /\ tx \in [TxBuf -> [req : BOOLEAN, call : 0 .. calls, what : 0 .. calls, rtr : BOOLEAN]]
  /\ rx \in [RxBuf -> [frame : 0 .. frames, rtr : BOOLEAN]]
  /\ calls \in 0 .. MaxCalls /\ frames \in 0 .. MaxFrames
  /\ wire \subseteq [call : 1 .. calls, what : 0 .. calls, rtr : BOOLEAN]
  /\ gone \subseteq 1 .. calls /\ given \subseteq 1 .. frames
  /\ freeAtCall \in BOOLEAN /\ checked \in BOOLEAN

\* mcp_sendMsg fills no transmit buffer whose frame is still to go out, however
\* often it polls and whatever the bus does between a poll and the writes of
\* mcp2515_write_canMsg.  (What a stray instruction loads into it is the
\* subject of SentAsGiven.)
PendingUntouched ==
  [][\A b \in TxBuf : tx[b].req /\ tx'[b].req =>
       tx'[b].call = tx[b].call /\ tx'[b].rtr = tx[b].rtr]_vars

\* Past start_transmit a call has one fate: its frame waits in one buffer, or
\* went out once, or the time-out or a re-initialisation lost it.  No request
\* bit resends what a buffer still holds of an earlier call.
OneFate ==
  \A c \in 1 .. calls :
    c < calls \/ pc \notin {"scan", "load", "start"} =>
      Cardinality({b \in Pending : tx[b].call = c})
        + Cardinality({w \in wire : w.call = c})
        + Cardinality({c} \cap gone) = 1

\* A call that began with a transmit buffer free is not lost to the polling
\* loop's time-out, unless the loop may make one turn only.
LostOnlyWhenBusy ==
  [][pc = "scan" /\ pc' = "idle" /\ TIMEOUTVALUE > 1 => ~freeAtCall]_vars

\* What readMsg clears in CANINTF, it has read: a frame that arrives between
\* readStatus and the clearing of the flag survives it.
NoFrameDropped ==
  [][\A b \in Full : pc # "idle" => rx'[b] = rx[b] \/ rx[b].frame \in given']_vars

\* A frame can_checkReceive announced is there for the next can_readMsgBuf and
\* is one no earlier call returned, whatever arrives in between.
AnnouncedIsFresh ==
  checked =>
    IF pc = "clear"
    THEN m.frame \notin given
    ELSE Full # {} /\ \A b \in Full : rx[b].frame \notin given

\* What mcp_can.c says of mcp2515_write_canMsg, "write data bytes" and "write
\* CAN id": the frame that goes out is the one its call was given.  It is not:
\* the block write of mcp2515_setRegisterS is split over two transfers, so no run
\* claims this; as an invariant of CanBus.cfg it is refuted at once.
SentAsGiven == \A w \in wire : w.what = w.call
=============================================================================
