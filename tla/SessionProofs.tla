--------------------------- MODULE SessionProofs ---------------------------
(***************************************************************************)
(* Theorems about Session, for every set of sockets, every behaviour of    *)
(* the stack that its header allows, and every queue.  What is proved of   *)
(* MsgQueue is carried over: a session's steps are steps of its queue.     *)
(***************************************************************************)
EXTENDS Session, TLAPS

QP == INSTANCE RefinementProofs

-----------------------------------------------------------------------------
(* The inductive invariant *)

SocketTypes ==
  /\ socket_id \in Sock \cup {NoSocket}
  /\ socket_state \in SocState
  /\ bearer \in BearerState
  /\ soc \in [Sock -> StackState]
  /\ lookups \in 0 .. MaxLookups
  /\ login \in [Sock -> LoginState]

\* During a walk no callback runs, so the socket it started on stays.
SInv == SocketTypes /\ LoginOverConnection /\ WalkOnLoggedInSocket

Inv == QP!Inv /\ SInv /\ asked \in BOOLEAN

-----------------------------------------------------------------------------
(* The queue of a session *)

\* Session and MsgQueueProofs each have their own instance of MsgQueue.
LEMMA SameQueue ==
  /\ Q!Init => QP!Init
  /\ \A d \in Data, h \in BOOLEAN : Q!msg_push(d, h) => QP!msg_push(d, h)
  /\ Q!resend_start => QP!resend_start
  /\ Q!visit_send => QP!visit_send
  /\ Q!visit_drop => QP!visit_drop
  /\ Q!resend_end => QP!resend_end
  /\ Q!list_overwritten => QP!list_overwritten
  /\ Q!reboot => QP!reboot
<1>1. Q!Init => QP!Init
  BY DEF Q!Init, QP!Init
<1>2. ASSUME NEW d \in Data, NEW h \in BOOLEAN, Q!msg_push(d, h)
      PROVE  QP!msg_push(d, h)
  BY <1>2 DEF Q!msg_push, Q!CallerRuns, Q!push_kept, Q!push_discarded, Q!push_faults,
       Q!QueueFull, Q!NewNode, Q!Queued, QP!msg_push, QP!CallerRuns, QP!push_kept,
       QP!push_discarded, QP!push_faults, QP!QueueFull, QP!NewNode, QP!Queued, Q!Cons, QP!Cons
<1>3. Q!resend_start => QP!resend_start
  BY DEF Q!resend_start, QP!resend_start
<1>4. Q!visit_send => QP!visit_send
  BY DEF Q!visit_send, Q!AtNode, Q!Spent, QP!visit_send, QP!AtNode, QP!Spent
<1>5. Q!visit_drop => QP!visit_drop
  BY DEF Q!visit_drop, Q!AtNode, Q!Spent, Q!drop, QP!visit_drop, QP!AtNode, QP!Spent, QP!drop,
       Q!RemoveAt, QP!RemoveAt
<1>6. Q!resend_end => QP!resend_end
  BY DEF Q!resend_end, QP!resend_end
<1>7. Q!reboot => QP!reboot
  BY DEF Q!reboot, QP!reboot
<1>8. Q!list_overwritten => QP!list_overwritten
  BY DEF Q!list_overwritten, Q!Queued, QP!list_overwritten, QP!Queued
<1> QED
  BY <1>1, <1>2, <1>3, <1>4, <1>5, <1>6, <1>7, <1>8

\* Every step of a session is a step of its queue, or leaves it alone.
LEMMA QueueSteps == [Next]_vars => [QP!Next]_qvars
<1> SUFFICES ASSUME [Next]_vars PROVE [QP!Next]_qvars
  OBVIOUS
<1>1. ASSUME NEW d \in Data, NEW force \in BOOLEAN, eat_msg_send_packed(d, force)
      PROVE  QP!Next
  BY <1>1, SameQueue DEF eat_msg_send_packed, QP!Next
<1>2. CASE open \/ callback \/ world \/ UNCHANGED vars
  BY <1>2 DEF open, callback, world, vars
<1>3. ASSUME NEW s \in Sock, soc_read_event(s) PROVE [QP!Next]_qvars
  BY <1>3, SameQueue DEF soc_read_event, login_rsp, nothing_read, QP!Next
<1>4. CASE visit
  BY <1>4, SameQueue DEF visit, QP!Next, QP!resend_step
<1>5. CASE finish
  BY <1>5, SameQueue DEF finish, QP!Next, QP!resend_step
<1>6. CASE list_overwritten
  BY <1>6, SameQueue DEF list_overwritten, QP!Next
<1>7. CASE reboot
  BY <1>7, SameQueue DEF reboot, QP!Next
<1> QED
  BY <1>1, <1>2, <1>3, <1>4, <1>5, <1>6, <1>7 DEF Next

LEMMA QueueInv == QP!Inv /\ [Next]_vars => QP!Inv'
BY QueueSteps, SessionAssumption, QP!NextKeepsInv DEF qvars, QP!vars

-----------------------------------------------------------------------------
(* The connection *)

LEMMA ConstantFacts == MaxLookups \in Nat /\ FirstSocket \in Sock
BY SocketAssumption

\* The conjuncts of SInv that callbacks can disturb.
Sockets == SocketTypes /\ LoginOverConnection

\* A connection is attempted with a socket that has asked for nothing, or that
\* keeps the state it has.
LEMMA ConnectKeeps ==
  ASSUME Sockets, NEW s \in Sock, NEW st \in StackState,
         login[s] # "none" => st \in {"connected", "lost"},
         socket_connect2IP(s, st)
  PROVE  /\ soc' \in [Sock -> StackState] /\ login' \in [Sock -> LoginState]
         /\ LoginOverConnection'
<1> USE DEF Sockets, SocketTypes, LoginOverConnection, Becomes, LoginIs
<1>1. "connected" \in StackState /\ "connecting" \in StackState /\ "asked" \in LoginState
  BY DEF StackState, LoginState
<1>2. CASE connect_now(s, st)
  BY <1>1, <1>2 DEF connect_now
<1>3. CASE connect_later(s, st)
  BY <1>1, <1>3 DEF connect_later
<1>4. CASE connect_refused(s, st)
  BY <1>4 DEF connect_refused
<1> QED
  BY <1>2, <1>3, <1>4 DEF socket_connect2IP

LEMMA InitKeeps == ASSUME Sockets, socket_init PROVE Sockets'
<1>1. CASE UNCHANGED <<socket_id, soc, lookups, login>>
  BY <1>1 DEF socket_init, socket_setup, Sockets, SocketTypes, LoginOverConnection,
       BearerState, SocState
<1>2. CASE socket_setup
  <2>1. socket_state' \in SocState /\ bearer' \in BearerState
    BY DEF socket_init, Sockets, SocketTypes, SocState, BearerState
  <2>2. CASE UNCHANGED <<soc, login, lookups>> /\ socket_id' = NoSocket
    BY <2>1, <2>2 DEF Sockets, SocketTypes, LoginOverConnection
  <2>3. ASSUME NEW s \in Sock \ InUse, socket_id' = s,
               \/ Becomes(s, "open") /\ UNCHANGED <<login, lookups>>
               \/ socket_connect(s)
        PROVE  Sockets'
    <3>1. "open" \in StackState /\ soc[s] = "unused" /\ login[s] = "none"
      BY <2>3 DEF InUse, Sockets, SocketTypes, LoginOverConnection, StackState
    <3>2. lookups' \in 0 .. MaxLookups
      BY <2>3, ConstantFacts DEF socket_connect, Sockets, SocketTypes
    <3>3. CASE Becomes(s, "open") /\ UNCHANGED login
      BY <2>1, <2>3, <3>1, <3>2, <3>3 DEF Becomes, Sockets, SocketTypes, LoginOverConnection
    <3>4. CASE socket_connect2IP(s, "open")
      BY <2>1, <2>3, <3>1, <3>2, <3>4, ConnectKeeps DEF Sockets, SocketTypes
    <3> QED
      BY <2>3, <3>3, <3>4 DEF socket_connect
  <2> QED
    BY <1>2, <2>2, <2>3 DEF socket_setup
<1> QED
  BY <1>1, <1>2 DEF socket_init

LEMMA HostnameKeeps ==
  ASSUME Sockets, NEW result \in BOOLEAN, hostname_notify_cb(result) PROVE Sockets'
<1>1. lookups' \in 0 .. MaxLookups /\ UNCHANGED <<socket_id, socket_state, bearer>>
  BY ConstantFacts DEF hostname_notify_cb, Sockets, SocketTypes
<1>2. CASE result /\ socket_id \in Sock
  <2>1. socket_connect2IP(socket_id, soc[socket_id])
    BY <1>2 DEF hostname_notify_cb
  <2>2. /\ soc[socket_id] \in StackState
        /\ login[socket_id] # "none" => soc[socket_id] \in {"connected", "lost"}
    BY <1>2 DEF Sockets, SocketTypes, LoginOverConnection
  <2> QED
    BY <1>1, <1>2, <2>1, <2>2, ConnectKeeps DEF Sockets, SocketTypes
<1>3. CASE ~(result /\ socket_id \in Sock)
  BY <1>1, <1>3 DEF hostname_notify_cb, Sockets, SocketTypes, LoginOverConnection
<1> QED
  BY <1>2, <1>3

LEMMA CallbackKeeps == ASSUME Sockets, callback PROVE Sockets'
<1> USE DEF Sockets, SocketTypes, LoginOverConnection, Becomes, LoginIs
<1>1. /\ {"unused", "connected", "lost"} \subseteq StackState
      /\ "none" \in LoginState
      /\ {"SOC_CONNECTED", "SOC_CLOSED"} \subseteq SocState
      /\ {"up", "down"} \subseteq BearerState
  BY DEF StackState, LoginState, SocState, BearerState
<1>2. ASSUME NEW result \in BOOLEAN, hostname_notify_cb(result) PROVE Sockets'
  BY <1>2, HostnameKeeps
<1>3. ASSUME NEW s \in Sock, NEW result \in BOOLEAN, soc_connect_event(s, result)
      PROVE  Sockets'
  <2>1. login[s] = "none" /\ UNCHANGED <<socket_id, bearer, lookups>>
    BY <1>3 DEF soc_connect_event
  <2>2. CASE result
    BY <1>1, <1>3, <2>1, <2>2 DEF soc_connect_event
  <2>3. CASE ~result
    BY <1>1, <1>3, <2>1, <2>3 DEF soc_connect_event, eat_soc_close
  <2> QED
    BY <2>2, <2>3
<1>4. ASSUME NEW s \in Sock, soc_close_event(s) PROVE Sockets'
  BY <1>1, <1>4 DEF soc_close_event, eat_soc_close
<1>5. CASE bearer_activated
  BY <1>1, <1>5 DEF bearer_activated
<1>6. CASE bearer_deactivated
  BY <1>1, <1>6 DEF bearer_deactivated
<1> QED
  BY <1>2, <1>3, <1>4, <1>5, <1>6 DEF callback

\* What the network does keeps a walk on a socket that logged in, too.
LEMMA WorldKeeps == ASSUME SInv, world PROVE SInv'
<1> USE DEF SInv, SocketTypes, LoginOverConnection, WalkOnLoggedInSocket, Becomes, LoginIs
<1>1. "lost" \in StackState /\ "answered" \in LoginState
  BY DEF StackState, LoginState
<1>2. UNCHANGED phase
  BY DEF world, qvars
<1>3. ASSUME NEW s \in Sock, peer_close(s) PROVE SInv'
  BY <1>1, <1>2, <1>3 DEF peer_close
<1>4. ASSUME NEW s \in Sock, server_answer(s) PROVE SInv'
  BY <1>1, <1>2, <1>4 DEF server_answer
<1> QED
  BY <1>3, <1>4 DEF world

\* The answer to a login starts the walk; the event may have been for another
\* socket, but it is the current one's answer that was read.
LEMMA ReadKeeps ==
  ASSUME SInv, NEW s \in Sock, soc_read_event(s) PROVE SInv'
<1> USE DEF SInv, SocketTypes, LoginOverConnection, LoginIs
<1>1. "unread" \in LoginState /\ "none" \in LoginState
  BY DEF LoginState
<1>2. UNCHANGED <<socket_id, socket_state, bearer, soc, lookups>> /\ login[s] = "answered"
  BY DEF soc_read_event
<1>3. CASE login_rsp(s)
  <2>1. socket_id \in Sock /\ soc[socket_id] \in {"connected", "lost"}
    BY <1>3 DEF login_rsp
  <2>2. WalkOnLoggedInSocket'
    BY <1>2, <2>1 DEF WalkOnLoggedInSocket
  <2>3. SocketTypes' /\ LoginOverConnection'
    BY <1>1, <1>2, <1>3, <2>1 DEF login_rsp
  <2> QED
    BY <2>2, <2>3
<1>4. CASE nothing_read(s)
  BY <1>1, <1>2, <1>4 DEF nothing_read, qvars, WalkOnLoggedInSocket
<1> QED
  BY <1>3, <1>4 DEF soc_read_event

LEMMA FinishKeeps == ASSUME SInv, finish PROVE SInv'
<1> USE DEF SInv, SocketTypes, LoginOverConnection, Becomes, LoginIs
<1>1. /\ "unused" \in StackState /\ "none" \in LoginState
      /\ {"down", "deactivating"} \subseteq BearerState
  BY DEF StackState, LoginState, BearerState
<1>2. socketClose /\ phase' = "idle"
  BY DEF finish, Q!resend_end
<1>3. WalkOnLoggedInSocket'
  BY <1>2 DEF WalkOnLoggedInSocket
<1>4. UNCHANGED <<socket_id, socket_state, lookups>> /\ bearer' \in BearerState
  BY <1>1, <1>2 DEF socketClose
<1>5. CASE socket_id \in Sock
  BY <1>1, <1>2, <1>3, <1>4, <1>5 DEF socketClose, eat_soc_close
<1>6. CASE socket_id \notin Sock
  BY <1>2, <1>3, <1>4, <1>6 DEF socketClose
<1> QED
  BY <1>5, <1>6

LEMMA RebootKeeps == ASSUME reboot PROVE SInv'
<1>1. socket_reset /\ phase' = "idle"
  BY DEF reboot, Q!reboot
<1>2. WalkOnLoggedInSocket'
  BY <1>1 DEF WalkOnLoggedInSocket
<1>3. SocketTypes' /\ LoginOverConnection'
  BY <1>1, ConstantFacts DEF socket_reset, SocketTypes, LoginOverConnection,
       SocState, BearerState, StackState, LoginState
<1> QED
  BY <1>2, <1>3 DEF SInv

-----------------------------------------------------------------------------
(* The whole *)

LEMMA InitInv == Init => Inv
<1> SUFFICES ASSUME Init PROVE Inv
  OBVIOUS
<1>1. QP!Inv
  BY SameQueue, SessionAssumption, QP!InitInv DEF Init
<1>2. phase = "idle" /\ SInit
  BY DEF Init, Q!Init
<1>3. SInv
  BY <1>2, ConstantFacts DEF SInit, SInv, SocketTypes, LoginOverConnection,
       WalkOnLoggedInSocket, SocState, BearerState, StackState, LoginState
<1> QED
  BY <1>1, <1>3 DEF Init, Inv

LEMMA NextKeepsSInv == SInv /\ [Next]_vars => SInv'
<1> SUFFICES ASSUME SInv, [Next]_vars PROVE SInv'
  OBVIOUS
<1> USE DEF SInv, Sockets
<1>1. ASSUME NEW d \in Data, NEW force \in BOOLEAN, eat_msg_send_packed(d, force)
      PROVE  SInv'
  <2>1. UNCHANGED svars /\ phase' # "walk"
    BY <1>1 DEF eat_msg_send_packed, Idle, Q!msg_push, Q!push_kept, Q!push_discarded,
         Q!push_faults
  <2> QED
    BY <2>1 DEF svars, SocketTypes, LoginOverConnection, WalkOnLoggedInSocket
<1>2. CASE open
  <2>1. socket_init /\ phase' = "idle"
    BY <1>2 DEF open, Idle, qvars
  <2> QED
    BY <2>1, InitKeeps DEF WalkOnLoggedInSocket
<1>3. ASSUME NEW s \in Sock, soc_read_event(s) PROVE SInv'
  BY <1>3, ReadKeeps
<1>4. CASE visit
  BY <1>4 DEF visit, svars, SocketTypes, LoginOverConnection, WalkOnLoggedInSocket,
       Q!visit_send, Q!visit_drop, Q!AtNode
<1>5. CASE finish
  BY <1>5, FinishKeeps
<1>6. CASE callback
  <2>1. phase' = "idle"
    BY <1>6 DEF callback, Idle, qvars
  <2> QED
    BY <1>6, <2>1, CallbackKeeps DEF WalkOnLoggedInSocket
<1>7. CASE world
  BY <1>7, WorldKeeps
<1>8. CASE reboot
  BY <1>8, RebootKeeps
<1>9. CASE list_overwritten
  BY <1>9 DEF list_overwritten, Q!list_overwritten, svars, SocketTypes, LoginOverConnection,
       WalkOnLoggedInSocket
<1>10. CASE UNCHANGED vars
  BY <1>10 DEF vars, svars, qvars, SocketTypes, LoginOverConnection, WalkOnLoggedInSocket
<1> QED
  BY <1>1, <1>2, <1>3, <1>4, <1>5, <1>6, <1>7, <1>8, <1>9, <1>10 DEF Next

LEMMA AskedType == asked \in BOOLEAN /\ [Next]_vars => asked' \in BOOLEAN
BY DEF Next, vars, eat_msg_send_packed, open, soc_read_event, visit, finish, callback,
     world, list_overwritten, reboot

LEMMA NextKeepsInv == Inv /\ [Next]_vars => Inv'
BY QueueInv, NextKeepsSInv, AskedType DEF Inv

\* The invariant holds in every reachable state.
THEOREM Invariance == Spec => []Inv
BY InitInv, NextKeepsInv, PTL DEF Spec

\* Every variable keeps its type, the queue's included.
THEOREM TypeCorrect == Spec => []TypeOK
<1>1. Inv => TypeOK
  BY DEF Inv, SInv, SocketTypes, TypeOK, QP!Inv, QP!ListSound, Q!TypeOK,
       QP!MsgNode, Q!MsgNode, QP!Phase, Q!Phase
<1> QED
  BY <1>1, Invariance, PTL

\* Attempts are spent on sockets that logged in only.
THEOREM WalkTheorem == Spec => []WalkOnLoggedInSocket
<1>1. Inv => WalkOnLoggedInSocket
  BY DEF Inv, SInv
<1> QED
  BY <1>1, Invariance, PTL

\* A login goes out over an established connection only.
THEOREM LoginTheorem == Spec => []LoginOverConnection
<1>1. Inv => LoginOverConnection
  BY DEF Inv, SInv
<1> QED
  BY <1>1, Invariance, PTL

-----------------------------------------------------------------------------
(* The retry buffer *)

\* Both instances of MsgQueue map to the same buffer.
LEMMA SameBuffer ==
  /\ QP!Buffer!Init => Q!Buffer!Init
  /\ [QP!Buffer!Next]_(QP!Buffer!vars) => [Q!Buffer!Next]_(Q!Buffer!vars)
<1> USE DEF QP!Queued, Q!Queued, QP!Transmitted, Q!Transmitted
<1>1. QP!Buffer!Init => Q!Buffer!Init
  BY DEF QP!Buffer!Init, Q!Buffer!Init
<1>2. UNCHANGED QP!Buffer!vars => UNCHANGED Q!Buffer!vars
  BY DEF QP!Buffer!vars, Q!Buffer!vars
<1>3. ASSUME NEW e \in Node PROVE QP!Buffer!Accept(e) => Q!Buffer!Accept(e)
  BY DEF QP!Buffer!Accept, Q!Buffer!Accept, QP!Buffer!Held, Q!Buffer!Held,
       QP!Buffer!Cardinality, Q!Buffer!Cardinality
<1>4. ASSUME NEW e \in Node PROVE QP!Buffer!Ack(e) => Q!Buffer!Ack(e)
  BY DEF QP!Buffer!Ack, Q!Buffer!Ack, QP!Buffer!Held, Q!Buffer!Held,
       QP!Buffer!Without, Q!Buffer!Without
<1>5. ASSUME NEW e \in Node PROVE QP!Buffer!Transmit(e) => Q!Buffer!Transmit(e)
  BY DEF QP!Buffer!Transmit, Q!Buffer!Transmit
<1>6. ASSUME NEW e \in Node PROVE QP!Buffer!Expire(e) => Q!Buffer!Expire(e)
  BY DEF QP!Buffer!Expire, Q!Buffer!Expire, QP!Buffer!Held, Q!Buffer!Held,
       QP!Buffer!Without, Q!Buffer!Without
<1>7. /\ QP!Buffer!BeginFlush => Q!Buffer!BeginFlush
      /\ QP!Buffer!EndFlush => Q!Buffer!EndFlush
      /\ QP!Buffer!Reset => Q!Buffer!Reset
  BY DEF QP!Buffer!BeginFlush, Q!Buffer!BeginFlush, QP!Buffer!EndFlush,
       Q!Buffer!EndFlush, QP!Buffer!Reset, Q!Buffer!Reset, QP!Buffer!Held, Q!Buffer!Held
<1> QED
  BY <1>1, <1>2, <1>3, <1>4, <1>5, <1>6, <1>7 DEF QP!Buffer!Next, Q!Buffer!Next

\* The node whose handler runs has had its transmissions, in a session too.
LEMMA QueueRInv == QP!RInv /\ [Next]_vars => QP!RInv'
BY QueueSteps, SessionAssumption, QP!NextKeepsInv, QP!NextKeepsCalled
   DEF qvars, QP!vars, QP!RInv

\* A session implements the retry buffer: whatever the stack, the peer and the
\* application do, each flush that a login starts transmits every message that
\* was queued when it began once, or expires it after MAX_RETRY_TIME + 1 of
\* them, and only a reset loses a message in any other way; as for MsgQueue, until
\* somebody writes over the list.
THEOREM SessionRefines == Spec => Q!Refines
<1>1. Init => QP!RInv /\ QP!Buffer!Init
  BY SameQueue, SessionAssumption, QP!InitInv, QP!InitMaps
     DEF Init, QP!RInv, QP!CalledSpent, QP!Init
<1>2. QP!RInv /\ [Next]_vars => QP!RInv' /\ [QP!Buffer!Next]_(QP!Buffer!vars)
  BY QueueRInv, QueueSteps, SessionAssumption, QP!NextMaps DEF qvars, QP!vars
<1> QED
  BY <1>1, <1>2, SameBuffer, PTL DEF Spec, Q!Refines, Q!Buffer!Spec
=============================================================================
