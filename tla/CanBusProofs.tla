---------------------------- MODULE CanBusProofs ----------------------------
(***************************************************************************)
(* Theorems about CanBus, for one to three transmit buffers, every number  *)
(* of turns of the polling loop and every number of calls and frames.      *)
(***************************************************************************)
EXTENDS CanBus, FiniteSetTheorems, TLAPS

-----------------------------------------------------------------------------
(* The inductive invariant *)

\* Where the thread is says what its buffer holds.
Places ==
  /\ pc \in {"scan", "load", "start", "wait"} => buf \in TxBuf /\ calls >= 1
  /\ pc \in {"read", "clear"} => buf \in Full
  /\ pc = "clear" => m.frame = rx[buf].frame
  /\ pc \in {"load", "start"} => buf \notin Pending
  /\ pc = "start" => tx[buf].call = calls
  /\ \A b \in Pending : tx[b].call >= 1

\* A frame is in one receive buffer at most, and there only until it is given.
Fresh ==
  /\ \A b \in Full : rx[b].frame \notin given
  /\ \A b, c \in Full : rx[b].frame = rx[c].frame => b = c
  /\ checked => Full # {}

\* A buffer that was free when the polling began is still ahead.
Patience ==
  freeAtCall /\ pc = "scan" =>
    uiTimeOut = 0 /\ \E b \in TxBuf : ~tx[b].req /\ b >= buf

Inv == TypeOK /\ Places /\ Fresh /\ Patience

-----------------------------------------------------------------------------
(* The constants *)

LEMMA Buffers == /\ 0 \in TxBuf
                 /\ TxBuf \subseteq Nat
                 /\ \A b \in TxBuf : b + 1 \notin TxBuf => \A c \in TxBuf : c <= b
BY CanAssumption DEF TxBuf

LEMMA InitInv == Init => Inv
<1> SUFFICES ASSUME Init PROVE Inv
  OBVIOUS
<1>1. Pending = {} /\ Full = {}
  BY DEF Init, Pending, Full, Empty, None
<1>2. TypeOK
  <2>1. Empty \in [req : BOOLEAN, call : 0 .. 0, what : 0 .. 0, rtr : BOOLEAN]
    BY DEF Empty
  <2>2. /\ None \in [frame : 0 .. 0, rtr : BOOLEAN]
        /\ Unset \in [frame : 0 .. 0, rtr : BOOLEAN, long : BOOLEAN]
    BY DEF None, Unset
  <2>3. /\ pc = "idle" /\ buf = 0 /\ uiTimeOut = 0 /\ m = Unset /\ mode = "config"
        /\ tx = [b \in TxBuf |-> Empty] /\ rx = [b \in RxBuf |-> None]
        /\ calls = 0 /\ frames = 0 /\ wire = {} /\ gone = {}
        /\ freeAtCall = FALSE /\ checked = FALSE /\ given = {}
    BY DEF Init
  <2>4. 0 \in 0 .. TIMEOUTVALUE - 1 /\ 0 \in 0 .. MaxCalls /\ 0 \in 0 .. MaxFrames
    BY CanAssumption
  <2> HIDE DEF Init
  <2> QED
    BY <2>1, <2>2, <2>3, <2>4, Buffers DEF TypeOK
<1>3. Places /\ Fresh /\ Patience
  BY <1>1 DEF Init, Places, Fresh, Patience
<1> QED
  BY <1>2, <1>3 DEF Inv

-----------------------------------------------------------------------------
(* can_begin, masks and filters *)

LEMMA BeginKeepsInv == Inv /\ can_begin => Inv'
<1> SUFFICES ASSUME Inv, can_begin PROVE Inv'
  OBVIOUS
<1>1. Pending' = {} /\ Full' = {}
  BY DEF can_begin, Pending, Full, Empty, None
<1>2. gone' \subseteq 1 .. calls
  <2>1. ASSUME NEW b \in Pending PROVE tx[b].call \in 1 .. calls
    <3>1. b \in TxBuf /\ tx[b].call >= 1
      BY DEF Inv, Places, Pending
    <3>2. tx[b].call \in 0 .. calls
      BY <3>1 DEF Inv, TypeOK
    <3> QED
      BY <3>1, <3>2
  <2>2. gone \subseteq 1 .. calls /\ gone' = gone \cup {tx[b].call : b \in Pending}
    BY DEF Inv, TypeOK, can_begin
  <2> QED
    BY <2>1, <2>2
<1>3. TypeOK'
  <2>1. Empty \in [req : BOOLEAN, call : 0 .. calls, what : 0 .. calls, rtr : BOOLEAN]
    BY CanAssumption DEF Inv, TypeOK, Empty
  <2>2. None \in [frame : 0 .. frames, rtr : BOOLEAN]
    BY CanAssumption DEF Inv, TypeOK, None
  <2> QED
    BY <1>2, <2>1, <2>2 DEF Inv, TypeOK, can_begin, driver
<1>4. Places' /\ Fresh' /\ Patience'
  BY <1>1 DEF Inv, can_begin, Places, Fresh, Patience, driver
<1> QED
  BY <1>3, <1>4 DEF Inv

LEMMA MaskKeepsInv == Inv /\ can_init_Mask_or_Filt => Inv'
BY DEF Inv, can_init_Mask_or_Filt, driver, history, TypeOK, Places, Fresh, Patience,
       Pending, Full

-----------------------------------------------------------------------------
(* can_sendMsgBuf *)

LEMMA SendKeepsInv == Inv /\ can_sendMsgBuf => Inv'
<1> SUFFICES ASSUME Inv, can_sendMsgBuf PROVE Inv'
  OBVIOUS
<1> USE DEF Inv, can_sendMsgBuf, chip
<1>1. calls \in Nat /\ calls' = calls + 1 /\ calls' \in 0 .. MaxCalls /\ 1 .. calls \subseteq 1 .. calls'
  BY CanAssumption DEF TypeOK
<1>2. TypeOK'
  <2>1. tx' \in [TxBuf -> [req : BOOLEAN, call : 0 .. calls', what : 0 .. calls', rtr : BOOLEAN]]
    BY <1>1 DEF TypeOK
  <2>2. wire' \subseteq [call : 1 .. calls', what : 0 .. calls', rtr : BOOLEAN]
    BY <1>1 DEF TypeOK
  <2>3. m' \in [frame : 0 .. frames', rtr : BOOLEAN, long : BOOLEAN]
    <3>1. m \in [frame : 0 .. frames, rtr : BOOLEAN, long : BOOLEAN] /\ 0 \in 0 .. frames
      BY CanAssumption DEF TypeOK
    <3>2. m' = [m EXCEPT !.frame = 0, !.long = FALSE] /\ frames' = frames
      OBVIOUS
    <3> HIDE DEF can_sendMsgBuf, Inv
    <3> QED
      BY <3>1, <3>2
  <2> QED
    BY <1>1, <2>1, <2>2, <2>3, Buffers, CanAssumption DEF TypeOK
<1>3. Places'
  BY <1>1, Buffers DEF Places, TypeOK, Pending, Full
<1>4. Fresh'
  BY DEF Fresh, Full
<1>5. Patience'
  <2>1. freeAtCall' => \E b \in TxBuf : ~tx[b].req
    BY DEF Pending
  <2> QED
    BY <2>1, Buffers DEF Patience
<1> QED
  BY <1>2, <1>3, <1>4, <1>5

LEMMA GiveUpKeepsInv == Inv /\ pc = "scan" /\ give_up => Inv'
<1> SUFFICES ASSUME Inv, pc = "scan", give_up PROVE Inv'
  OBVIOUS
<1> USE DEF Inv, give_up, chip
<1>1. calls \in 1 .. calls
  BY DEF TypeOK, Places
<1>2. TypeOK'
  BY <1>1, Buffers, CanAssumption DEF TypeOK
<1>3. Places' /\ Fresh' /\ Patience'
  BY DEF Places, Fresh, Patience, Pending, Full
<1> QED
  BY <1>2, <1>3

LEMMA PollKeepsInv == Inv /\ getNextFreeTXBuf => Inv'
<1> SUFFICES ASSUME Inv, getNextFreeTXBuf, ~give_up PROVE Inv'
  BY GiveUpKeepsInv DEF getNextFreeTXBuf
<1> USE DEF Inv
<1>0. pc = "scan" /\ buf \in TxBuf /\ uiTimeOut \in Nat
  BY DEF getNextFreeTXBuf, Places, TypeOK
<1>1. CASE found
  <2>1. pc' = "load" /\ buf \notin Pending /\ UNCHANGED <<buf, uiTimeOut, m, chip, history>>
    BY <1>1 DEF found
  <2>2. TypeOK'
    BY <2>1 DEF TypeOK, chip, history
  <2>3. Places' /\ Fresh' /\ Patience'
    BY <2>1, <1>0 DEF Places, Fresh, Patience, Pending, Full, chip, history
  <2> QED
    BY <2>2, <2>3
<1>2. CASE busy /\ buf + 1 \in TxBuf
  <2>1. /\ buf \in Pending /\ buf' = buf + 1
        /\ UNCHANGED <<pc, uiTimeOut, m, chip, history>>
    BY <1>2 DEF busy
  <2>2. TypeOK'
    BY <2>1, <1>2 DEF TypeOK, chip, history
  <2>3. Places' /\ Fresh'
    BY <2>1, <1>2, <1>0 DEF Places, Fresh, Pending, Full, chip, history
  <2>4. Patience'
    BY <2>1, <1>0, Buffers DEF Patience, Pending, chip, history
  <2> QED
    BY <2>2, <2>3, <2>4
<1>3. CASE busy /\ buf + 1 \notin TxBuf
  <2>1. /\ buf \in Pending /\ buf' = 0 /\ uiTimeOut' = uiTimeOut + 1
        /\ uiTimeOut + 1 < TIMEOUTVALUE
        /\ UNCHANGED <<pc, m, chip, history>>
    BY <1>3 DEF busy
  <2>2. TypeOK'
    BY <2>1, <1>0, Buffers, CanAssumption DEF TypeOK, chip, history
  <2>3. Places' /\ Fresh'
    BY <2>1, <1>0, Buffers DEF Places, Fresh, Pending, Full, chip, history
  <2>4. ~freeAtCall
    <3>1. \A b \in TxBuf : b >= buf => b = buf
      BY <1>3, <1>0, Buffers
    <3> QED
      BY <3>1, <2>1, <1>0 DEF Patience, Pending
  <2>5. Patience'
    BY <2>4, <2>1 DEF Patience, history
  <2> QED
    BY <2>2, <2>3, <2>5
<1> QED
  BY <1>1, <1>2, <1>3 DEF getNextFreeTXBuf

\* mcp2515_write_canMsg touches no request bit and no buffer's owner but its own;
\* a stray instruction may change what buffer 0 holds.
LEMMA Written ==
  ASSUME TypeOK, buf \in TxBuf, write_canMsg
  PROVE  /\ tx' \in [TxBuf -> [req : BOOLEAN, call : 0 .. calls, what : 0 .. calls, rtr : BOOLEAN]]
         /\ \A b \in TxBuf : tx'[b].req = tx[b].req
         /\ \A b \in TxBuf \ {buf} : tx'[b].call = tx[b].call /\ tx'[b].rtr = tx[b].rtr
         /\ tx'[buf].call = calls
<1> DEFINE Tx == [TxBuf -> [req : BOOLEAN, call : 0 .. calls, what : 0 .. calls, rtr : BOOLEAN]]
<1>1. calls \in 0 .. calls /\ m.rtr \in BOOLEAN
  BY CanAssumption DEF TypeOK
<1>2. ASSUME NEW t \in Tx, NEW a, NEW u \in mcp2515_setRegisterS(t, a, calls)
      PROVE  /\ u \in Tx
             /\ \A b \in TxBuf : u[b].req = t[b].req /\ u[b].call = t[b].call /\ u[b].rtr = t[b].rtr
  BY <1>1, <1>2, Buffers DEF mcp2515_setRegisterS
<1>3. PICK t \in mcp2515_setRegisterS(tx, SIDH(buf) + 5, calls) :
        tx' \in mcp2515_setRegisterS(
                 [t EXCEPT ![buf].rtr = m.rtr, ![buf].call = calls], SIDH(buf), calls)
  BY DEF write_canMsg
<1>4. tx \in Tx
  BY DEF TypeOK
<1>5. /\ t \in Tx
      /\ \A b \in TxBuf : t[b].req = tx[b].req /\ t[b].call = tx[b].call /\ t[b].rtr = tx[b].rtr
  BY <1>2, <1>3, <1>4
<1> DEFINE u == [t EXCEPT ![buf].rtr = m.rtr, ![buf].call = calls]
<1>6. /\ u \in Tx
      /\ \A b \in TxBuf : u[b].req = t[b].req
      /\ \A b \in TxBuf \ {buf} : u[b].call = t[b].call /\ u[b].rtr = t[b].rtr
      /\ u[buf].call = calls
  BY <1>5, <1>1
<1>7. tx' \in mcp2515_setRegisterS(u, SIDH(buf), calls)
  BY <1>3
<1> HIDE DEF Tx, u
<1>8. /\ tx' \in Tx
      /\ \A b \in TxBuf : tx'[b].req = u[b].req /\ tx'[b].call = u[b].call /\ tx'[b].rtr = u[b].rtr
  BY <1>2, <1>6, <1>7
<1> QED
  BY <1>5, <1>6, <1>8 DEF Tx

LEMMA LoadKeepsInv == Inv /\ write_canMsg => Inv'
<1> SUFFICES ASSUME Inv, write_canMsg PROVE Inv'
  OBVIOUS
<1> USE DEF Inv
<1>1. /\ pc = "load" /\ pc' = "start" /\ UNCHANGED <<buf, uiTimeOut, mode, rx, history>>
      /\ buf \in TxBuf /\ buf \notin Pending
      /\ m' \in [frame : 0 .. frames, rtr : BOOLEAN, long : BOOLEAN]
  BY DEF write_canMsg, Places, TypeOK
<1>2. /\ tx' \in [TxBuf -> [req : BOOLEAN, call : 0 .. calls, what : 0 .. calls, rtr : BOOLEAN]]
      /\ \A b \in TxBuf : tx'[b].req = tx[b].req
      /\ \A b \in TxBuf \ {buf} : tx'[b].call = tx[b].call /\ tx'[b].rtr = tx[b].rtr
      /\ tx'[buf].call = calls
  BY <1>1, Written
<1>3. TypeOK'
  BY <1>1, <1>2 DEF TypeOK, history
<1>4. Places'
  BY <1>1, <1>2 DEF Places, Pending, Full, history
<1>5. Fresh' /\ Patience'
  BY <1>1 DEF Fresh, Patience, Full, history
<1> QED
  BY <1>3, <1>4, <1>5

LEMMA StartKeepsInv == Inv /\ start_transmit => Inv'
<1> SUFFICES ASSUME Inv, start_transmit PROVE Inv'
  OBVIOUS
<1> USE DEF Inv
<1>1. /\ pc = "start" /\ pc' = "wait" /\ UNCHANGED <<buf, uiTimeOut, m, mode, rx, history>>
      /\ buf \in TxBuf /\ tx[buf].call = calls /\ calls >= 1
      /\ tx' = [tx EXCEPT ![buf].req = TRUE]
  BY DEF start_transmit, Places
<1>2. TypeOK'
  <2>1. tx' \in [TxBuf -> [req : BOOLEAN, call : 0 .. calls, what : 0 .. calls, rtr : BOOLEAN]]
    BY <1>1 DEF TypeOK
  <2> QED
    BY <1>1, <2>1 DEF TypeOK, history
<1>3. Places'
  BY <1>1 DEF Places, TypeOK, Pending, Full, history
<1>4. Fresh' /\ Patience'
  BY <1>1 DEF Fresh, Patience, Full, history
<1> QED
  BY <1>2, <1>3, <1>4

LEMMA WaitKeepsInv == Inv /\ wait_sent => Inv'
<1> SUFFICES ASSUME Inv, wait_sent PROVE Inv'
  OBVIOUS
<1> USE DEF Inv, wait_sent, chip, history
<1>1. TypeOK'
  BY Buffers, CanAssumption DEF TypeOK
<1>2. Places' /\ Fresh' /\ Patience'
  BY DEF Places, Fresh, Patience, Pending, Full
<1> QED
  BY <1>1, <1>2

-----------------------------------------------------------------------------
(* can_checkReceive and can_readMsgBuf *)

LEMMA CheckKeepsInv == Inv /\ can_checkReceive => Inv'
<1> SUFFICES ASSUME Inv, can_checkReceive PROVE Inv'
  OBVIOUS
<1> USE DEF Inv, can_checkReceive, driver, chip
<1>1. TypeOK'
  BY DEF TypeOK
<1>2. Places' /\ Fresh' /\ Patience'
  BY DEF Places, Fresh, Patience, Pending, Full
<1> QED
  BY <1>1, <1>2

LEMMA StatusKeepsInv == Inv /\ readStatus => Inv'
<1> SUFFICES ASSUME Inv, readStatus PROVE Inv'
  OBVIOUS
<1> USE DEF Inv, readStatus, chip
<1>1. m.frame \in 0 .. frames /\ frames \in Nat
  BY CanAssumption DEF TypeOK
<1>2. CASE Full = {}
  <2>1. TypeOK'
    <3>1. /\ pc' \in {"idle", "wild"} /\ buf' = 0 /\ checked' = FALSE
          /\ given' = IF m.frame = 0 THEN given ELSE given \cup {m.frame}
      BY <1>2 DEF copy
    <3>2. given \subseteq 1 .. frames
      BY DEF TypeOK
    <3>3. m.frame # 0 => m.frame \in 1 .. frames
      BY <1>1
    <3>4. given' \subseteq 1 .. frames
      BY <3>1, <3>2, <3>3
    <3> QED
      BY <3>1, <3>4, Buffers DEF TypeOK
  <2>2. Places' /\ Fresh' /\ Patience'
    BY <1>2 DEF Places, Fresh, Patience, Pending, Full, copy
  <2> QED
    BY <2>1, <2>2
<1>3. CASE Full # {}
  <2>1. buf' \in Full /\ buf' \in RxBuf
    BY <1>3 DEF Full, RxBuf
  <2>2. TypeOK'
    BY <1>3, <2>1 DEF TypeOK
  <2>3. Places' /\ Fresh' /\ Patience'
    BY <1>3, <2>1 DEF Places, Fresh, Patience, Pending, Full
  <2> QED
    BY <2>2, <2>3
<1> QED
  BY <1>2, <1>3

LEMMA ReadKeepsInv == Inv /\ read_canMsg => Inv'
<1> SUFFICES ASSUME Inv, read_canMsg PROVE Inv'
  OBVIOUS
<1> USE DEF Inv, read_canMsg, chip, history
<1>1. buf \in Full /\ rx[buf] \in [frame : 0 .. frames, rtr : BOOLEAN]
  BY DEF Places, TypeOK, Full
<1>2. TypeOK'
  BY <1>1 DEF TypeOK
<1>3. Places' /\ Fresh' /\ Patience'
  BY <1>1 DEF Places, Fresh, Patience, Pending, Full
<1> QED
  BY <1>2, <1>3

LEMMA ClearKeepsInv == Inv /\ clear_flag => Inv'
<1> SUFFICES ASSUME Inv, clear_flag PROVE Inv'
  OBVIOUS
<1> USE DEF Inv, clear_flag
<1>1. /\ buf \in Full /\ buf \in RxBuf /\ m.frame = rx[buf].frame
      /\ frames \in Nat /\ m.frame \in 1 .. frames
      /\ rx' = [rx EXCEPT ![buf] = None]
      /\ given' = given \cup {m.frame} /\ checked' = FALSE
      /\ pc' \in {"idle", "wild"} /\ buf' = 0
  BY CanAssumption DEF Places, TypeOK, Full, copy
<1>2. Full' = Full \ {buf} /\ \A b \in Full \ {buf} : rx'[b] = rx[b]
  BY <1>1 DEF Full, None, TypeOK
<1>3. TypeOK'
  <2>1. rx' \in [RxBuf -> [frame : 0 .. frames, rtr : BOOLEAN]]
    BY <1>1 DEF TypeOK, None
  <2>2. given' \subseteq 1 .. frames
    BY <1>1 DEF TypeOK
  <2>3. buf' \in TxBuf \cup RxBuf /\ checked' \in BOOLEAN
    BY <1>1, Buffers
  <2>4. UNCHANGED <<uiTimeOut, m, mode, tx, calls, frames, wire, gone, freeAtCall>>
    OBVIOUS
  <2>5. pc' \in {"idle", "wild"}
    BY <1>1
  <2> HIDE DEF clear_flag
  <2> QED
    BY <2>1, <2>2, <2>3, <2>4, <2>5 DEF TypeOK
<1>4. Places' /\ Fresh' /\ Patience'
  BY <1>1, <1>2 DEF Places, Fresh, Patience, Pending
<1> QED
  BY <1>3, <1>4

LEMMA ResetKeepsInv == Inv /\ reset => Inv'
<1> SUFFICES ASSUME Inv, reset PROVE Inv'
  OBVIOUS
<1> USE DEF Inv, reset, chip, history
<1>1. m' \in [frame : 0 .. frames', rtr : BOOLEAN, long : BOOLEAN]
  BY CanAssumption DEF TypeOK, Unset
<1>2. TypeOK'
  BY <1>1 DEF TypeOK
<1>3. Places' /\ Fresh' /\ Patience'
  BY DEF Places, Fresh, Patience, Pending, Full
<1> QED
  BY <1>2, <1>3

-----------------------------------------------------------------------------
(* The bus *)

LEMMA TransmitKeepsInv == ASSUME NEW b \in TxBuf PROVE Inv /\ transmit(b) => Inv'
<1> SUFFICES ASSUME Inv, transmit(b) PROVE Inv'
  OBVIOUS
<1> USE DEF Inv, transmit, driver
<1>1. tx[b].call \in 1 .. calls
  BY DEF TypeOK, Places, Pending
<1>2. Pending' = Pending \ {b} /\ \A c \in TxBuf : tx'[c].call = tx[c].call
  BY DEF TypeOK, Pending
<1>3. TypeOK'
  <2>1. tx' \in [TxBuf -> [req : BOOLEAN, call : 0 .. calls, what : 0 .. calls, rtr : BOOLEAN]]
    BY DEF TypeOK
  <2>2. wire' \subseteq [call : 1 .. calls, what : 0 .. calls, rtr : BOOLEAN]
    BY <1>1 DEF TypeOK
  <2> QED
    BY <2>1, <2>2 DEF TypeOK
<1>4. Places' /\ Fresh'
  BY <1>2 DEF Places, Fresh, Full, Pending
<1>5. Patience'
  BY DEF Patience, TypeOK
<1> QED
  BY <1>3, <1>4, <1>5

LEMMA DeliverKeepsInv ==
  ASSUME NEW b \in RxBuf, NEW rtr \in BOOLEAN PROVE Inv /\ deliver(b, rtr) => Inv'
<1> SUFFICES ASSUME Inv, deliver(b, rtr) PROVE Inv'
  OBVIOUS
<1> USE DEF Inv, deliver, driver
<1>1. /\ frames \in Nat /\ frames' = frames + 1 /\ frames' \in 0 .. MaxFrames
      /\ rx' = [rx EXCEPT ![b] = [frame |-> frames + 1, rtr |-> rtr]]
  BY CanAssumption DEF TypeOK
<1>2. Full' = Full \cup {b} /\ \A c \in Full : c # b /\ rx'[c] = rx[c]
  BY <1>1 DEF Full, TypeOK
<1>3. rx'[b].frame = frames + 1
  BY DEF TypeOK
<1>4. TypeOK'
  BY <1>1 DEF TypeOK
<1>5. Places'
  BY <1>2 DEF Places, Pending
<1>6. Fresh'
  <2>1. \A c \in Full : rx[c].frame \in 0 .. frames
    BY DEF Full, TypeOK
  <2>2. frames + 1 \notin given
    BY <1>1 DEF TypeOK
  <2> QED
    BY <1>1, <1>2, <1>3, <2>1, <2>2 DEF Fresh
<1>7. Patience'
  BY DEF Patience
<1> QED
  BY <1>4, <1>5, <1>6, <1>7

-----------------------------------------------------------------------------
LEMMA NextKeepsInv == Inv /\ [Next]_vars => Inv'
<1> SUFFICES ASSUME Inv, [Next]_vars PROVE Inv'
  OBVIOUS
<1>1. CASE UNCHANGED vars
  BY <1>1 DEF vars, driver, chip, history, Inv, TypeOK, Places, Fresh, Patience, Pending, Full
<1>2. ASSUME NEW b \in TxBuf, transmit(b) PROVE Inv'
  BY <1>2, TransmitKeepsInv
<1>3. ASSUME NEW b \in RxBuf, NEW rtr \in BOOLEAN, deliver(b, rtr) PROVE Inv'
  BY <1>3, DeliverKeepsInv
<1> QED
  BY <1>1, <1>2, <1>3, BeginKeepsInv, MaskKeepsInv, SendKeepsInv, PollKeepsInv,
     LoadKeepsInv, StartKeepsInv, WaitKeepsInv, CheckKeepsInv, StatusKeepsInv,
     ReadKeepsInv, ClearKeepsInv, ResetKeepsInv DEF Next

\* The inductive invariant holds in every reachable state.
THEOREM Invariance == Spec => []Inv
BY InitInv, NextKeepsInv, PTL DEF Spec

-----------------------------------------------------------------------------
(* What follows from it *)

\* Every variable has its type.
THEOREM TypeCorrect == Spec => []TypeOK
BY Invariance, PTL DEF Inv

\* A frame that can_checkReceive announced is there for the next can_readMsgBuf
\* and is new, whatever arrives in between.
THEOREM AnnouncedTheorem == Spec => []AnnouncedIsFresh
<1>1. Inv => AnnouncedIsFresh
  BY DEF Inv, Places, Fresh, AnnouncedIsFresh
<1> QED
  BY <1>1, Invariance, PTL

\* No transmit buffer is filled while its frame is still to go out: only
\* mcp2515_write_canMsg changes an owner, of a buffer it found free.
THEOREM PendingTheorem == Spec => PendingUntouched
<1> DEFINE Kept == \A b \in TxBuf : tx[b].req /\ tx'[b].req =>
                     tx'[b].call = tx[b].call /\ tx'[b].rtr = tx[b].rtr
<1>1. Inv /\ [Next]_vars => Kept
  <2> SUFFICES ASSUME Inv, [Next]_vars PROVE Kept
    OBVIOUS
  <2>1. CASE can_begin
    BY <2>1 DEF can_begin, Empty
  <2>2. CASE write_canMsg
    <3>1. buf \in TxBuf /\ ~tx[buf].req
      BY <2>2 DEF Inv, Places, Pending, write_canMsg
    <3> QED
      BY <2>2, <3>1, Written DEF Inv
  <2>3. CASE start_transmit
    BY <2>3 DEF start_transmit, Inv, TypeOK, Places, Pending
  <2>4. ASSUME NEW b \in TxBuf, transmit(b) PROVE Kept
    BY <2>4 DEF transmit, Inv, TypeOK
  <2>5. CASE UNCHANGED tx
    BY <2>5
  <2>6. ASSUME getNextFreeTXBuf PROVE UNCHANGED tx
    BY <2>6 DEF getNextFreeTXBuf, found, busy, give_up, chip
  <2> QED
    BY <2>1, <2>2, <2>3, <2>4, <2>5, <2>6 DEF Next, vars, chip, history, can_init_Mask_or_Filt,
       can_sendMsgBuf, wait_sent, can_checkReceive, readStatus, read_canMsg, clear_flag, reset, deliver
<1> QED
  BY <1>1, Invariance, PTL DEF Spec, PendingUntouched

\* The time-out of the polling loop never takes a call that began with a free
\* buffer: that buffer stays free, and is found in the first turn.
THEOREM LostTheorem == Spec => LostOnlyWhenBusy
<1> DEFINE Lost == pc = "scan" /\ pc' = "idle" /\ TIMEOUTVALUE > 1
<1>1. Inv /\ [Next]_vars => (Lost => ~freeAtCall)
  <2> SUFFICES ASSUME Inv, [Next]_vars, Lost, freeAtCall PROVE FALSE
    OBVIOUS
  <2>1. getNextFreeTXBuf
    BY DEF Next, vars, driver, chip, history, can_begin, can_init_Mask_or_Filt, can_sendMsgBuf,
       write_canMsg, start_transmit, wait_sent, can_checkReceive, readStatus, read_canMsg,
       clear_flag, reset, transmit, deliver
  <2>2. uiTimeOut = 0 /\ buf \in TxBuf /\ \E b \in TxBuf : ~tx[b].req /\ b >= buf
    BY DEF Inv, Patience, Places
  <2>3. CASE found
    BY <2>2, <2>3 DEF found
  <2>4. CASE busy
    <3>1. buf + 1 \notin TxBuf /\ tx[buf].req
      BY <2>4 DEF busy, Pending
    <3> QED
      BY <3>1, <2>2, Buffers
  <2> QED
    BY <2>1, <2>3, <2>4 DEF getNextFreeTXBuf
<1> QED
  BY <1>1, Invariance, PTL DEF Spec, LostOnlyWhenBusy

\* readMsg clears the flag of no buffer but the one it has read.
THEOREM NoDropTheorem == Spec => NoFrameDropped
<1> DEFINE Kept == \A b \in Full : pc # "idle" => rx'[b] = rx[b] \/ rx[b].frame \in given'
<1>1. Inv /\ [Next]_vars => Kept
  <2> SUFFICES ASSUME Inv, [Next]_vars, pc # "idle" PROVE Kept
    OBVIOUS
  <2>1. CASE clear_flag
    <3>1. m.frame = rx[buf].frame /\ buf \in Full
      BY <2>1 DEF clear_flag, Inv, Places
    <3>2. rx[buf].frame \in given'
      BY <2>1, <3>1 DEF clear_flag, copy, Full
    <3> QED
      BY <2>1, <3>1, <3>2 DEF clear_flag, Inv, TypeOK, Full
  <2>2. ASSUME NEW b \in RxBuf, NEW rtr \in BOOLEAN, deliver(b, rtr) PROVE Kept
    BY <2>2 DEF deliver, Inv, TypeOK, Full
  <2>3. CASE UNCHANGED rx
    BY <2>3
  <2>4. ASSUME getNextFreeTXBuf PROVE UNCHANGED rx
    BY <2>4 DEF getNextFreeTXBuf, found, busy, give_up, chip
  <2> QED
    BY <2>1, <2>2, <2>3, <2>4 DEF Next, vars, chip, history, can_begin, can_init_Mask_or_Filt,
       can_sendMsgBuf, write_canMsg, start_transmit, wait_sent, can_checkReceive, readStatus,
       read_canMsg, reset, transmit
<1> QED
  BY <1>1, Invariance, PTL DEF Spec, NoFrameDropped

-----------------------------------------------------------------------------
(* The fate of a call *)

\* The transmit buffers a call's frame waits in, and how it went out.
Waiting(c) == {b \in Pending : tx[b].call = c}
Sent(c) == {w \in wire : w.call = c}

Open(c) == c \notin gone /\ Waiting(c) = {} /\ Sent(c) = {}
Settled(c) ==
  \/ c \notin gone /\ Sent(c) = {} /\ \E b : Waiting(c) = {b}
  \/ c \notin gone /\ Waiting(c) = {} /\ \E w : Sent(c) = {w}
  \/ c \in gone /\ Waiting(c) = {} /\ Sent(c) = {}

\* The call the driver is at, before it has set the request bit.
Sending == pc \in {"scan", "load", "start"}

Fates == \A c \in 1 .. calls : IF c = calls /\ Sending THEN Open(c) ELSE Settled(c)

LEMMA InitFates == Init => Fates
BY DEF Init, Fates

\* Most steps settle nothing.
LEMMA SameFates ==
  ASSUME Fates, UNCHANGED <<calls, wire, gone>>, Pending' = Pending,
         \A b \in Pending : tx'[b].call = tx[b].call,
         Sending' <=> Sending
  PROVE  Fates'
<1> SUFFICES ASSUME NEW c \in 1 .. calls
             PROVE  IF c = calls /\ Sending THEN Open(c)' ELSE Settled(c)'
  BY DEF Fates
<1>1. Waiting(c)' = Waiting(c) /\ Sent(c)' = Sent(c)
  BY DEF Waiting, Sent
<1>2. Open(c)' = Open(c) /\ Settled(c)' = Settled(c)
  BY <1>1 DEF Open, Settled
<1> QED
  BY <1>2 DEF Fates

\* A re-initialisation wipes the frames that wait.
LEMMA BeginFates == Inv /\ Fates /\ can_begin => Fates'
<1> SUFFICES ASSUME Inv, Fates, can_begin, NEW c \in 1 .. calls PROVE Settled(c)'
  BY DEF Fates, can_begin, driver, Sending
<1>1. Settled(c)
  BY DEF Fates, can_begin, Sending
<1>2. Waiting(c)' = {} /\ Sent(c)' = Sent(c)
  BY DEF can_begin, Waiting, Sent, Pending, Empty
<1>3. c \in gone' <=> c \in gone \/ Waiting(c) # {}
  BY DEF can_begin, Waiting
<1> QED
  BY <1>1, <1>2, <1>3 DEF Settled

\* A new call has no fate yet: its number is new.
LEMMA SendFates == Inv /\ Fates /\ can_sendMsgBuf => Fates'
<1> SUFFICES ASSUME Inv, Fates, can_sendMsgBuf, NEW c \in 1 .. calls + 1
             PROVE  IF c = calls + 1 THEN Open(c)' ELSE Settled(c)'
  BY DEF Fates, can_sendMsgBuf, Sending
<1>1. /\ Waiting(c)' = Waiting(c) /\ Sent(c)' = Sent(c) /\ gone' = gone
      /\ calls \in Nat /\ ~Sending
  BY CanAssumption DEF can_sendMsgBuf, Waiting, Sent, Pending, chip, Inv, TypeOK, Sending
<1>2. CASE c = calls + 1
  <2>1. \A b \in TxBuf : tx[b].call \in 0 .. calls
    BY DEF Inv, TypeOK
  <2>2. \A w \in wire : w.call \in 1 .. calls
    BY DEF Inv, TypeOK
  <2>3. gone \subseteq 1 .. calls
    BY DEF Inv, TypeOK
  <2> QED
    BY <1>1, <1>2, <2>1, <2>2, <2>3 DEF Open, Waiting, Sent, Pending
<1>3. CASE c # calls + 1
  <2>1. Settled(c)
    BY <1>1, <1>3 DEF Fates
  <2> QED
    BY <1>1, <1>3, <2>1 DEF Settled
<1> QED
  BY <1>2, <1>3

\* The time-out of the polling loop.
LEMMA GiveUpFates == Inv /\ Fates /\ pc = "scan" /\ give_up => Fates'
<1> SUFFICES ASSUME Inv, Fates, pc = "scan", give_up, NEW c \in 1 .. calls PROVE Settled(c)'
  BY DEF Fates, give_up, Sending
<1>1. Waiting(c)' = Waiting(c) /\ Sent(c)' = Sent(c) /\ gone' = gone \cup {calls}
  BY DEF give_up, Waiting, Sent, Pending, chip
<1>2. IF c = calls THEN Open(c) ELSE Settled(c)
  BY DEF Fates, Sending
<1> QED
  BY <1>1, <1>2 DEF Open, Settled

\* The request bit: from here on the frame waits in one buffer.
LEMMA StartFates == Inv /\ Fates /\ start_transmit => Fates'
<1> SUFFICES ASSUME Inv, Fates, start_transmit, NEW c \in 1 .. calls PROVE Settled(c)'
  BY DEF Fates, start_transmit, Sending, history
<1>1. /\ buf \in TxBuf /\ tx[buf].call = calls /\ UNCHANGED <<wire, gone, calls>>
      /\ Pending' = Pending \cup {buf} /\ \A b \in TxBuf : tx'[b].call = tx[b].call
  BY DEF start_transmit, Inv, TypeOK, Places, Pending, history
<1>2. /\ Waiting(c)' = IF c = calls THEN Waiting(c) \cup {buf} ELSE Waiting(c)
      /\ Sent(c)' = Sent(c)
  BY <1>1 DEF Waiting, Sent, Pending
<1>3. IF c = calls THEN Open(c) ELSE Settled(c)
  BY DEF Fates, Sending, start_transmit
<1>4. CASE c = calls
  BY <1>1, <1>2, <1>3, <1>4 DEF Open, Settled
<1>5. CASE c # calls
  BY <1>1, <1>2, <1>3, <1>5 DEF Settled
<1> QED
  BY <1>4, <1>5

\* A frame goes out of the one buffer it waits in.
LEMMA TransmitFates ==
  ASSUME NEW b \in TxBuf PROVE Inv /\ Fates /\ transmit(b) => Fates'
<1> SUFFICES ASSUME Inv, Fates, transmit(b), NEW c \in 1 .. calls
             PROVE  IF c = calls /\ Sending THEN Open(c)' ELSE Settled(c)'
  BY DEF Fates, transmit, driver, Sending
<1> DEFINE w == [call |-> tx[b].call, what |-> tx[b].what, rtr |-> tx[b].rtr]
<1>1. /\ b \in Pending /\ Pending' = Pending \ {b} /\ wire' = wire \cup {w}
      /\ gone' = gone /\ w.call = tx[b].call
      /\ \A d \in TxBuf : tx'[d].call = tx[d].call
  BY DEF transmit, Pending, Inv, TypeOK
<1> HIDE DEF w
<1>2. IF c = calls /\ Sending THEN Open(c) ELSE Settled(c)
  BY DEF Fates
<1>3. CASE tx[b].call = c
  <2>1. Waiting(c)' = Waiting(c) \ {b} /\ Sent(c)' = Sent(c) \cup {w} /\ b \in Waiting(c)
    BY <1>1, <1>3 DEF Waiting, Sent, Pending
  <2>2. Waiting(c) = {b} /\ Sent(c) = {} /\ c \notin gone
    BY <1>2, <2>1 DEF Open, Settled
  <2>3. Settled(c)'
    BY <1>1, <2>1, <2>2 DEF Settled
  <2>4. ~(c = calls /\ Sending)
    BY <1>2, <2>1 DEF Open
  <2> QED
    BY <2>3, <2>4
<1>4. CASE tx[b].call # c
  <2>1. Waiting(c)' = Waiting(c) /\ Sent(c)' = Sent(c)
    BY <1>1, <1>4 DEF Waiting, Sent, Pending
  <2> QED
    BY <1>1, <1>2, <2>1 DEF Open, Settled
<1> QED
  BY <1>3, <1>4

LEMMA NextKeepsFates == Inv /\ Fates /\ [Next]_vars => Fates'
<1> SUFFICES ASSUME Inv, Fates, [Next]_vars PROVE Fates'
  OBVIOUS
<1>1. ASSUME UNCHANGED <<tx, calls, wire, gone>>, Sending' <=> Sending PROVE Fates'
  BY <1>1, SameFates DEF Pending
<1>2. CASE getNextFreeTXBuf /\ ~give_up
  BY <1>1, <1>2 DEF getNextFreeTXBuf, found, busy, chip, history, Sending
<1>3. CASE getNextFreeTXBuf /\ give_up
  BY <1>3, GiveUpFates DEF getNextFreeTXBuf
<1>4. CASE write_canMsg
  <2>1. /\ buf \in TxBuf /\ buf \notin Pending /\ UNCHANGED <<calls, wire, gone>>
        /\ Sending' /\ Sending
    BY <1>4 DEF write_canMsg, Inv, Places, history, Sending
  <2>2. Pending' = Pending /\ \A b \in Pending : tx'[b].call = tx[b].call
    BY <1>4, <2>1, Written DEF Inv, Pending
  <2> QED
    BY <2>1, <2>2, SameFates
<1>5. CASE can_init_Mask_or_Filt \/ wait_sent \/ can_checkReceive \/ read_canMsg
             \/ clear_flag \/ reset
  BY <1>1, <1>5 DEF can_init_Mask_or_Filt, wait_sent, can_checkReceive, read_canMsg, clear_flag,
     reset, copy, driver, chip, history, Sending
<1>6. CASE readStatus
  BY <1>1, <1>6 DEF readStatus, copy, chip, Sending
<1>7. ASSUME NEW b \in RxBuf, NEW rtr \in BOOLEAN, deliver(b, rtr) PROVE Fates'
  BY <1>1, <1>7 DEF deliver, driver, Sending
<1>8. CASE UNCHANGED vars
  BY <1>1, <1>8 DEF vars, driver, chip, history, Sending
<1> QED
  BY <1>2, <1>3, <1>4, <1>5, <1>6, <1>7, <1>8, BeginFates, SendFates, StartFates,
     TransmitFates DEF Next

\* Past start_transmit every call has one fate.
THEOREM FateTheorem == Spec => []OneFate
<1>1. Inv /\ Fates => OneFate
  <2> SUFFICES ASSUME Inv, Fates, NEW c \in 1 .. calls, c < calls \/ ~Sending
               PROVE  Cardinality(Waiting(c)) + Cardinality(Sent(c)) + Cardinality({c} \cap gone) = 1
    BY DEF OneFate, Waiting, Sent, Sending
  <2>1. Settled(c)
    BY DEF Fates, Inv, TypeOK
  <2>2. Cardinality({}) = 0 /\ \A x : Cardinality({x}) = 1
    BY FS_EmptySet, FS_Singleton
  <2>3. {c} \cap gone = IF c \in gone THEN {c} ELSE {}
    OBVIOUS
  <2>4. CASE c \in gone /\ Waiting(c) = {} /\ Sent(c) = {}
    <3>1. Cardinality({c} \cap gone) = 1
      BY <2>2, <2>3, <2>4
    <3>2. Cardinality(Waiting(c)) = 0 /\ Cardinality(Sent(c)) = 0
      BY <2>2, <2>4
    <3> QED
      BY <3>1, <3>2
  <2>5. ASSUME c \notin gone, Sent(c) = {}, NEW b, Waiting(c) = {b}
        PROVE  Cardinality(Waiting(c)) + Cardinality(Sent(c)) + Cardinality({c} \cap gone) = 1
    <3>1. Cardinality({c} \cap gone) = 0
      BY <2>2, <2>3, <2>5
    <3>2. Cardinality(Sent(c)) = 0 /\ Cardinality(Waiting(c)) = 1
      BY <2>2, <2>5
    <3> QED
      BY <3>1, <3>2
  <2>6. ASSUME c \notin gone, Waiting(c) = {}, NEW w, Sent(c) = {w}
        PROVE  Cardinality(Waiting(c)) + Cardinality(Sent(c)) + Cardinality({c} \cap gone) = 1
    <3>1. Cardinality({c} \cap gone) = 0
      BY <2>2, <2>3, <2>6
    <3>2. Cardinality(Waiting(c)) = 0 /\ Cardinality(Sent(c)) = 1
      BY <2>2, <2>6
    <3> QED
      BY <3>1, <3>2
  <2> QED
    BY <2>1, <2>4, <2>5, <2>6 DEF Settled
<1> QED
  BY <1>1, InitFates, NextKeepsFates, Invariance, PTL DEF Spec
=============================================================================
