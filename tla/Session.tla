------------------------------ MODULE Session ------------------------------
(***************************************************************************)
(* The upload of queued messages: the application queues them and opens    *)
(* the connection when it is told to, the connection logs in, and the      *)
(* answer to the login, dispatched by client.c and receive.c, flushes the  *)
(* queue and closes the connection.  Composes MsgQueue and Socket.         *)
(*                                                                         *)
(* There is one thread: while msg_resend walks, no callback and no sender  *)
(* runs, though the peer may go.  What the memory of a message holds is    *)
(* Delivery's subject; here Data may have members in common with Node, a   *)
(* transmission may free a listed node's memory, and it may fault, as      *)
(* MsgQueue allows.                                                        *)
(***************************************************************************)
EXTENDS Socket, Sequences

CONSTANTS
  Node, Data, MAX_RETRY_TIME, MAX_MSG_LIST_LENGTH,
  SEND_LIST_LENGTH,     \* the length beyond which the caller is told to flush
  Patient               \* the application opens no second connection while
                        \* the one it opened is connecting or connected

ASSUME SessionAssumption ==
  /\ MAX_RETRY_TIME \in Nat /\ MAX_MSG_LIST_LENGTH \in Nat
  /\ SEND_LIST_LENGTH \in Nat /\ Patient \in BOOLEAN

VARIABLES
  head, list_length, nodes, phase, iter,    \* msg_queue.c
  asked         \* the application has been told to open a connection

Q == INSTANCE MsgQueue

qvars == <<head, list_length, nodes, phase, iter>>
vars == <<qvars, svars, asked>>

\* The application may open a connection at start-up, or wait to be told.
Init == Q!Init /\ SInit /\ asked \in BOOLEAN

Idle == phase = "idle"

-----------------------------------------------------------------------------
(* The application *)

\* eat_msg_send_packed: push, then say whether the queue should be flushed.
eat_msg_send_packed(d, force) ==
  /\ Idle
  /\ Q!msg_push(d, FALSE)
  /\ asked' = (asked \/ force
               \/ (list_length' > SEND_LIST_LENGTH /\ socket_state = "SOC_CLOSED"))
  /\ UNCHANGED svars

Connected == socket_id \in Sock /\ soc[socket_id] \in {"connecting", "connected", "lost"}

\* "socketopen" of the comment in eat_msg_send_packed.
open ==
  /\ Idle
  /\ asked
  /\ Patient => ~Connected
  /\ socket_init
  /\ asked' = FALSE
  /\ UNCHANGED qvars

-----------------------------------------------------------------------------
(* SOC_READ: soc_notify_cb, client_proc, handle_one_msg, cmd_Login_rsp *)

\* Whatever socket the event is for, it is socket_id that is read.
login_rsp(s) ==
  /\ socket_id \in Sock
  /\ login[socket_id] = "answered"
  /\ Q!resend_start
  /\ login' = [login EXCEPT ![s] = "unread", ![socket_id] = "none"]

nothing_read(s) ==
  /\ socket_id \in Sock => login[socket_id] # "answered"
  /\ LoginIs(s, "unread")
  /\ UNCHANGED qvars

soc_read_any(s) ==      \* a mutant: the event alone starts the flush
  /\ Idle
  /\ login[s] = "answered"
  /\ Q!resend_start
  /\ LoginIs(s, "none")
  /\ UNCHANGED <<socket_id, socket_state, bearer, soc, lookups, asked>>

soc_read_event(s) ==
  /\ Idle
  /\ login[s] = "answered"
  /\ login_rsp(s) \/ nothing_read(s)
  /\ UNCHANGED <<socket_id, socket_state, bearer, soc, lookups, asked>>

-----------------------------------------------------------------------------
(* msg_resend *)

visit == (Q!visit_send \/ Q!visit_drop) /\ UNCHANGED <<svars, asked>>

\* The loop is over: "all messages sent, closing socket".
finish == Q!resend_end /\ socketClose /\ UNCHANGED asked

-----------------------------------------------------------------------------
(* Callbacks and the world *)

callback ==
  /\ Idle
  /\ \/ \E result \in BOOLEAN : hostname_notify_cb(result)
     \/ \E s \in Sock, result \in BOOLEAN : soc_connect_event(s, result)
     \/ \E s \in Sock : soc_close_event(s)
     \/ bearer_activated
     \/ bearer_deactivated
  /\ UNCHANGED <<qvars, asked>>

world ==
  /\ \E s \in Sock : peer_close(s) \/ server_answer(s)
  /\ UNCHANGED <<qvars, asked>>

\* Somebody is given the memory of a listed node.
list_overwritten == Q!list_overwritten /\ UNCHANGED <<svars, asked>>

reboot == Q!reboot /\ socket_reset /\ asked' \in BOOLEAN

Next ==
  \/ \E d \in Data, force \in BOOLEAN : eat_msg_send_packed(d, force)
  \/ open
  \/ \E s \in Sock : soc_read_event(s)
  \/ visit
  \/ finish
  \/ callback
  \/ world
  \/ list_overwritten
  \/ reboot

Spec == Init /\ [][Next]_vars

\* The thread runs on, and a fault ends in a reset.
ThreadRuns ==
  /\ WF_vars(visit)
  /\ WF_vars(finish)
  /\ WF_vars(phase = "fault" /\ reboot)

\* The application keeps forcing reports and opens the connection when told,
\* neither of them only while the bearer happens to be down.
ApplicationRuns ==
  LET report == \E d \in Data : eat_msg_send_packed(d, TRUE) IN
  /\ SF_vars(report)
  /\ SF_vars(bearer = "up" /\ report)
  /\ SF_vars(open)
  /\ SF_vars(bearer = "up" /\ open)

\* Activations and releases of the bearer end, notifications arrive, a connection
\* in progress fails without a bearer and is not refused for ever with one, the
\* server is not always cut off before it answers.  All are strong: the network
\* may fail any number of times in between.  Nothing brings the bearer up but the
\* program's own calls.
NetworkRuns ==
  /\ \A s \in Sock :
       /\ SF_vars(soc_read_event(s))
       /\ SF_vars(world /\ server_answer(s))
       /\ SF_vars(callback /\ soc_connect_event(s, TRUE))
       /\ SF_vars(bearer # "up" /\ callback /\ soc_connect_event(s, FALSE))
       /\ SF_vars(callback /\ soc_close_event(s))
  /\ SF_vars(callback /\ bearer_activated)
  /\ SF_vars(bearer = "deactivating" /\ callback /\ bearer_deactivated)

FairSpec == Spec /\ ThreadRuns /\ ApplicationRuns /\ NetworkRuns

-----------------------------------------------------------------------------
(* Properties *)

\* Every variable has its type.
TypeOK ==
  /\ Q!TypeOK
  /\ socket_id \in Sock \cup {NoSocket}
  /\ socket_state \in SocState
  /\ bearer \in BearerState
  /\ soc \in [Sock -> StackState]
  /\ lookups \in 0 .. MaxLookups
  /\ login \in [Sock -> LoginState]
  /\ asked \in BOOLEAN

\* A retransmission is never spent on a socket that was not connected: attempts
\* are few, and a walk over a closed socket would burn one of every message.
WalkOnLoggedInSocket ==
  phase = "walk" => socket_id \in Sock /\ soc[socket_id] \in {"connected", "lost"}

\* The server is asked to log in only over a connection that is established,
\* although a late host name answer connects whichever socket is current.
LoginOverConnection ==
  \A s \in Sock : login[s] # "none" => soc[s] \in {"connected", "lost"}

Unsent(n) == \E i \in DOMAIN head : head[i].node = n /\ head[i].resend_times = 0

\* Once the queue is longer than SEND_LIST_LENGTH, every message in it is
\* transmitted in the end.
Drains ==
  \A n \in Node : Unsent(n) /\ list_length > SEND_LIST_LENGTH ~> ~Unsent(n)
=============================================================================
