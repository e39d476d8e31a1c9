------------------------------ MODULE Delivery ------------------------------
(***************************************************************************)
(* Who owns the memory of a message: the queue (module MsgQueue), the heap *)
(* (module MsgMemory), the senders of protocol/socket.c and the commands   *)
(* of protocol/commands.c that use them.                                   *)
(*                                                                         *)
(* eat_msg_send frees what it has sent, whether or not it was sent.  The   *)
(* queue keeps the pointer.  So a queued message is in allocated memory    *)
(* only until its first transmission; what the later ones find there, and  *)
(* free again, depends on what the heap has done with the block since: it  *)
(* may be another message, a node of the list itself, or nobody's.         *)
(*                                                                         *)
(* The socket is reduced to the fact that eat_soc_send returns: its result *)
(* is ignored by every caller modelled here.                               *)
(***************************************************************************)
EXTENDS MsgMemory, Sequences, FiniteSets

CONSTANTS
  MAX_RETRY_TIME,
  MAX_MSG_LIST_LENGTH,
  Handlers      \* the pfn arguments of socket_sendDataWaitAck: TRUE is a
                \* handler, FALSE is NULL, the only one in this repository

ASSUME DeliveryAssumption ==
  /\ MAX_RETRY_TIME \in Nat /\ MAX_MSG_LIST_LENGTH \in Nat
  /\ Handlers \subseteq BOOLEAN
  /\ "ping" \in Cmd

VARIABLES
  head, list_length, phase, iter,           \* msg_queue.c, with nodes
  origin        \* history: for a queued node, the header that was pushed,
                \* whether it had been transmitted before and whether a
                \* resend-failed handler pushed it

Q == INSTANCE MsgQueue WITH Node <- Block, Data <- Block

vars == <<head, list_length, nodes, phase, iter, heap, seq, origin>>

NoOrigin == [msg |-> Junk, early |-> FALSE, inside |-> FALSE]

Pushed(c, early) == [msg |-> NextHeader(c), early |-> early, inside |-> phase = "callback"]

Init ==
  /\ Q!Init
  /\ MInit
  /\ origin = [b \in Block |-> NoOrigin]

\* A step that queues what o describes, if it queues anything.
Keep(o) ==
  origin' = [b \in Block |->
               IF b \notin Q!Queued' THEN NoOrigin
               ELSE IF b \in Q!Queued THEN origin[b] ELSE o]

Forget == Keep(NoOrigin)

\* eat_mem_free(b).  It is clean for a block that is allocated, unless that is
\* the node of a list that still has it: then the list's memory may be written
\* over, and a block nobody has allocated may corrupt the heap.
free(b) == heap' \in Freed(heap, b)
FreeIsClean(b) == heap[b].live \/ b \in nodes \ Q!Queued
FreeIsSound(b) == phase' = "fault" => ~FreeIsClean(b)

\* The message is written into b and its node, if it gets one, into a block that
\* is free by then.
push(b, h, heaps) ==
  /\ b \in FreeBlocks
  /\ Q!msg_push(b, h)
  /\ \E h1 \in heaps :
       /\ heap' = Written(h1, Q!Queued' \ Q!Queued)
       /\ \A n \in nodes' \ nodes : ~h1[n].live

-----------------------------------------------------------------------------
(* commands.c: what the application calls *)

eat_msg_send_packed_freed(c) ==  \* a mutant: the message is freed once queued
  /\ \E b \in Block : push(b, FALSE, alloc_and_free(b, c))
  /\ TakeSeq
  /\ Keep(Pushed(c, FALSE))

\* eat_send_sim_data, eat_send_gps_pos and eat_send_crash: allocate, fill and
\* hand to eat_msg_send_packed.  A failed allocation changes nothing.
eat_msg_send_packed(c) ==
  /\ \E b \in Block : push(b, FALSE, alloc_msg(b, c))
  /\ TakeSeq
  /\ Keep(Pushed(c, FALSE))

\* A message that is sent and freed at once.  If its block is the memory of a
\* listed node, the list is written over.
passing(b, c) ==
  /\ Q!CallerRuns
  /\ b \in FreeBlocks
  /\ heap' \in alloc_and_free(b, c)
  /\ TakeSeq
  /\ b \in Q!Queued => phase' = "fault"
  /\ UNCHANGED <<head, list_length, nodes, iter, origin>>

\* Allocate, eat_msg_send, and so free.  The allocation is not tested.
eat_send_heartbeat ==
  \/ \E b \in Block :
       /\ passing(b, "ping")
       /\ b \notin Q!Queued => UNCHANGED phase
  \/ /\ Q!CallerRuns
     /\ FreeBlocks = {}
     /\ phase' = "fault"
     /\ UNCHANGED <<heap, seq, head, list_length, nodes, iter, origin>>

-----------------------------------------------------------------------------
(* socket.c: the senders *)

\* eat_msg_send has freed the data when socket_sendDataDirectly frees it.
socket_sendDataDirectly(c) ==
  /\ \E b \in Block : passing(b, c)
  /\ phase' \in {phase, "fault"}

\* eat_msg_send has freed the data when it is pushed: its node may be the very
\* block the message was in.
socket_sendDataWaitAck(c, h) ==
  /\ \E b \in Block : push(b, h, alloc_and_free(b, c))
  /\ TakeSeq
  /\ Keep(Pushed(c, TRUE))

-----------------------------------------------------------------------------
(* msg_queue.c with the data behind its pointers *)

msg_resend == Q!resend_start /\ UNCHANGED <<heap, seq, origin>>

eat_msg_send ==
  /\ Q!visit_send
  /\ free(head[iter].data)
  /\ FreeIsSound(head[iter].data)
  /\ UNCHANGED <<seq, origin>>

\* The handler is given the pointer; what it does is the other actions.
resend_failed_handler == Q!visit_call /\ UNCHANGED <<heap, seq, origin>>

\* The faults of drop cover a second free as well as the stale link.
expire ==
  /\ Q!visit_drop \/ Q!callback_return
  /\ free(head[iter].data)
  /\ UNCHANGED seq
  /\ Forget

resend_end == Q!resend_end /\ UNCHANGED <<heap, seq, origin>>

\* The header compared is the one the memory holds now.  The message is freed,
\* then its node and the links of its neighbours are used.
msg_ack(ack) ==
  LET hits == {b \in Block : heap[b].msg = ack} IN
  /\ Q!msg_ack(hits)
  /\ \E i \in DOMAIN head :
       /\ Q!FirstHit(i, hits)
       /\ free(head[i].data)
       /\ Q!Queued \subseteq nodes => FreeIsSound(head[i].data)
  /\ UNCHANGED seq
  /\ Forget

\* The engine and the firmware use the heap too.
list_overwritten == Q!list_overwritten /\ UNCHANGED <<heap, seq, origin>>

reboot ==
  /\ Q!reboot
  /\ heap' = [b \in Block |-> [live |-> FALSE, msg |-> Junk]]
  /\ seq' = 0
  /\ origin' = [b \in Block |-> NoOrigin]

Next ==
  \/ \E c \in Cmd \ {"ping"} :
       \/ eat_msg_send_packed(c)
       \/ socket_sendDataDirectly(c)
       \/ \E h \in Handlers : socket_sendDataWaitAck(c, h)
  \/ eat_send_heartbeat
  \/ msg_resend \/ eat_msg_send \/ resend_failed_handler \/ expire \/ resend_end
  \/ \E ack \in Header : msg_ack(ack)
  \/ list_overwritten
  \/ reboot

Spec == Init /\ [][Next]_vars

-----------------------------------------------------------------------------
(* Properties *)

\* Every variable has its type.
TypeOK ==
  /\ Q!TypeOK
  /\ MTypeOK
  /\ origin \in [Block -> [msg : Content, early : BOOLEAN, inside : BOOLEAN]]

\* The queue holds a message that no call has transmitted yet.
Unsent(i) == head[i].resend_times = 0 /\ ~origin[head[i].node].early

Intact(i) == heap[head[i].data] = [live |-> TRUE, msg |-> origin[head[i].node].msg]

\* eat_msg_send_packed queued the message outside a walk and no visit has sent it.
Owner(i) == Unsent(i) /\ ~origin[head[i].node].inside

\* A message queued by eat_msg_send_packed outside a walk is intact at its first
\* transmission, although older nodes may hold dangling pointers to the very
\* same block.  The walk saves it: the newest node is at the front, so the owner
\* of a block is sent before a stale node behind it frees the block again.  This
\* is promised as long as nobody has written over the list itself (phase
\* "fault"); ListKept is about that.
FirstSendIntact ==
  phase # "fault" => \A i \in DOMAIN head : Owner(i) => Intact(i)

\* A listed node loses its memory through a stale pointer only, that of a listed
\* message that was transmitted before or queued by a handler: no first
\* transmission, no expiry and no acknowledgement of an owner, and nothing else,
\* ever frees the list under the walk.
ListFreedByStaleOnly ==
  [][\A n \in Q!Queued \cap nodes :
       n \in (Q!Queued \ nodes)' /\ phase # "fault" =>
         \E i \in DOMAIN head : head[i].data = n /\ ~Owner(i)]_vars

\* msg_queue.c:44: "push the msg into queue to wait for ack".  While it waits,
\* its node stays its node: no message is given the memory.  It does not hold, and
\* no run claims it: TLC refutes it as an invariant of MCDelivery.cfg.
ListKept == \A n \in Q!Queued : ~heap[n].live

\* An allocated block that no queued node points to is lost for good.
Orphan(b) == heap[b].live /\ \A i \in DOMAIN head : head[i].data # b

\* The only call that loses a message's memory is a push that finds the list
\* full (or, on the way to a reset, no memory for its node).
OrphansOnlyWhenFull ==
  [][\A b \in Block :
       ~Orphan(b) /\ Orphan(b)' => Q!QueueFull \/ phase' = "fault"]_vars

\* socket.h:42-44: "send the message and wait for the ack; retransmitted if no
\* ack is received".  What a retransmission sends is the message.
RetransmissionIntact ==
  phase # "fault" =>
    \A i \in DOMAIN head : heap[head[i].data].msg = origin[head[i].node].msg

\* msg_queue.c:31, "each message is retransmitted at most 3 times, and discarded
\* if none of the 3 succeeds", of MAX_RETRY_TIME.  Of the sends the queue makes,
\* the first is no retransmission unless the caller sent the message before.
Retransmissions(i) ==
  Q!Transmitted(head[i]) - (IF origin[head[i].node].early THEN 0 ELSE 1)

RetriesAsCommented == \A i \in DOMAIN head : Retransmissions(i) <= MAX_RETRY_TIME
=============================================================================
