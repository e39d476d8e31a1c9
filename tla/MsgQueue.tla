------------------------------ MODULE MsgQueue ------------------------------
(***************************************************************************)
(* The retransmission queue of protocol/msg_queue.c: a doubly linked list  *)
(* of MSG_NODEs that is pushed at its front, walked from front to back by  *)
(* msg_resend and searched by msg_ack.                                     *)
(*                                                                         *)
(* One call of msg_resend is a walk of several steps, because the          *)
(* resend-failed handler it calls runs application code, which may push    *)
(* again while the walk holds a pointer into the list.  Nothing else       *)
(* interleaves with a walk: the queue has one thread.                      *)
(*                                                                         *)
(* The data of a message is an opaque pointer here; what its memory holds  *)
(* is the subject of module Delivery.  Nodes and messages come from one    *)
(* heap (mem.h), and the queue frees the data of a message once for every  *)
(* transmission, so one of these frees may release the memory of a listed  *)
(* node: the node stays in the list and out of nodes until somebody writes *)
(* over it.  From then on the model says nothing (phase "fault").          *)
(***************************************************************************)
EXTENDS Naturals, Sequences, FiniteSets, SequencesExt

CONSTANTS
  Node,                 \* the memory the heap can give to MSG_NODEs
  Data,                 \* the pointers callers push: the same heap, so the two
                        \* may have members in common
  MAX_RETRY_TIME,
  MAX_MSG_LIST_LENGTH

ASSUME RetryAssumption == MAX_RETRY_TIME \in Nat
ASSUME LengthAssumption == MAX_MSG_LIST_LENGTH \in Nat

VARIABLES
  head,         \* the list behind LIST_HEAD(head), front first
  list_length,  \* the counter msg_count() returns
  nodes,        \* the members of Node malloc has given out as MSG_NODEs and
                \* nobody freed
  phase,        \* where the thread is: see Phase
  iter          \* inside msg_resend: the position iter points at; else 0

vars == <<head, list_length, nodes, phase, iter>>

\* "idle": outside the module's code; "walk": at the loop test of msg_resend;
\* "callback": inside the pfn of the node at iter; "fault": an exception has been
\* taken, or the heap's or a listed node's memory written over.  The program may
\* run on for a while on what is left, and nothing is promised until a reset.
Phase == {"idle", "walk", "callback", "fault"}

MsgNode == [node : Node, data : Data, pfn : BOOLEAN, resend_times : Nat]

Queued == {head[i].node : i \in DOMAIN head}

Init ==
  /\ head = <<>>
  /\ list_length = 0
  /\ nodes = {}
  /\ phase = "idle"
  /\ iter = 0

-----------------------------------------------------------------------------
(* msg_count and msg_push *)

msg_count == list_length

QueueFullLate == list_length > MAX_MSG_LIST_LENGTH + 1   \* a mutant

\* The full test of msg_push.
QueueFull == list_length > MAX_MSG_LIST_LENGTH

\* The application calls msg_push outside a walk, or inside the handler.
CallerRuns == phase \in {"idle", "callback"}

NewNode(n, d, h) == [node |-> n, data |-> d, pfn |-> h, resend_times |-> 0]

push_kept_tail(d, h) ==  \* a mutant: list_add_tail for list_add
  /\ ~QueueFull
  /\ \E n \in Node \ (nodes \cup Queued) :
       /\ nodes' = nodes \cup {n}
       /\ head' = Append(head, NewNode(n, d, h))
  /\ list_length' = list_length + 1
  /\ UNCHANGED <<phase, iter>>

\* list_add puts the node at the front: positions held by a walk move by one.
push_kept(d, h) ==
  /\ ~QueueFull
  /\ \E n \in Node \ (nodes \cup Queued) :
       /\ nodes' = nodes \cup {n}
       /\ head' = Cons(NewNode(n, d, h), head)
  /\ list_length' = list_length + 1
  /\ iter' = IF phase = "callback" THEN iter + 1 ELSE iter
  /\ UNCHANGED phase

\* malloc comes before the full test, so the early return loses the node, which
\* nobody has written to.
push_discarded(d, h) ==
  /\ QueueFull
  /\ \/ \E n \in Node \ nodes : nodes' = nodes \cup {n}
     \/ UNCHANGED nodes
  /\ UNCHANGED <<head, list_length, phase, iter>>

\* malloc returned NULL, which is not tested, or the memory of a node that is
\* still listed: the stores go through a null pointer or over the list.  The heap
\* is everybody's, so that may happen whatever the queue holds.  Or the caller
\* was given the memory of a listed node and has written the message there.
push_faults(d) ==
  /\ ~QueueFull \/ d \in Queued
  /\ phase' = "fault"
  /\ UNCHANGED <<head, list_length, nodes, iter>>

\* d has been allocated by the caller, so it is no node's memory.
msg_push(d, h) ==
  /\ CallerRuns
  /\ d \notin nodes
  /\ \/ d \notin Queued /\ (push_kept(d, h) \/ push_discarded(d, h))
     \/ push_faults(d)

\* Whoever else allocates may be given the memory of a listed node as well: a
\* message that is sent and freed at once, the engine, the firmware.
list_overwritten ==
  /\ phase # "fault"
  /\ ~(Queued \subseteq nodes)
  /\ phase' = "fault"
  /\ UNCHANGED <<head, list_length, nodes, iter>>

-----------------------------------------------------------------------------
(* msg_resend *)

resend_start ==
  /\ phase = "idle"
  /\ phase' = "walk"
  /\ iter' = 1
  /\ UNCHANGED <<head, list_length, nodes>>

\* The loop is at a node; the test increments resend_times whatever it answers.
AtNode == phase = "walk" /\ iter \in DOMAIN head
Spent(m) == m.resend_times > MAX_RETRY_TIME

visit_send_skips ==      \* a mutant: pos = pos->next taken twice
  /\ AtNode
  /\ ~Spent(head[iter])
  /\ head' = [head EXCEPT ![iter].resend_times = @ + 1]
  /\ iter' = iter + 2
  /\ nodes' = nodes \ {head[iter].data}
  /\ UNCHANGED <<list_length, phase>>

visit_send_uncounted ==  \* a mutant: resend_times++ forgotten
  /\ AtNode
  /\ ~Spent(head[iter])
  /\ iter' = iter + 1
  /\ nodes' = nodes \ {head[iter].data}
  /\ phase' \in {"walk", "fault"}
  /\ UNCHANGED <<head, list_length>>

\* eat_msg_send frees the data.  The second time the memory may be a node's by
\* now, or nobody's; then the heap may notice, or write over what it was given
\* back, and what follows is undefined.  Delivery says when.
visit_send ==
  /\ AtNode
  /\ ~Spent(head[iter])
  /\ head' = [head EXCEPT ![iter].resend_times = @ + 1]
  /\ nodes' = nodes \ {head[iter].data}
  /\ iter' = iter + 1
  /\ phase' \in {"walk", "fault"}
  /\ UNCHANGED list_length

\* The node is spent and has a handler: call it with the node still listed.
visit_call ==
  /\ AtNode
  /\ Spent(head[iter])
  /\ head[iter].pfn
  /\ head' = [head EXCEPT ![iter].resend_times = @ + 1]
  /\ phase' = "callback"
  /\ UNCHANGED <<list_length, nodes, iter>>

drop_keeps_count ==      \* a mutant: list_length-- forgotten
  /\ nodes' = nodes \ {head[iter].node, head[iter].data}
  /\ head' = RemoveAt(head, iter)
  /\ phase' \in {"walk", "fault"}
  /\ UNCHANGED <<iter, list_length>>

drop_counts_twice ==     \* a mutant: list_length-- in list_del as well
  /\ nodes' = nodes \ {head[iter].node, head[iter].data}
  /\ head' = RemoveAt(head, iter)
  /\ list_length' = list_length - 2
  /\ phase' \in {"walk", "fault"}
  /\ UNCHANGED iter

drop_keeps_node ==       \* a mutant: free(node) forgotten
  /\ nodes' = nodes \ {head[iter].data}
  /\ head' = RemoveAt(head, iter)
  /\ list_length' = list_length - 1
  /\ phase' \in {"walk", "fault"}
  /\ UNCHANGED iter

\* free(data), list_del, list_length--, free(node); then the loop reads
\* iter->next out of the node it has just freed.  The heap either left the word
\* alone (the walk goes on) or has already used it (a wild pointer).
drop ==
  /\ nodes' = nodes \ {head[iter].node, head[iter].data}
  /\ head' = RemoveAt(head, iter)
  /\ list_length' = list_length - 1
  /\ phase' \in {"walk", "fault"}
  /\ UNCHANGED iter

visit_drop ==
  /\ AtNode
  /\ Spent(head[iter])
  /\ ~head[iter].pfn
  /\ drop

callback_return == phase = "callback" /\ drop

resend_end_at_null ==    \* a mutant: the ring is followed until a null link
  /\ phase = "walk"
  /\ iter \notin DOMAIN head
  /\ iter' = 1
  /\ UNCHANGED <<head, list_length, nodes, phase>>

resend_end ==
  /\ phase = "walk"
  /\ iter \notin DOMAIN head
  /\ phase' = "idle"
  /\ iter' = 0
  /\ UNCHANGED <<head, list_length, nodes>>

-----------------------------------------------------------------------------
(* msg_ack *)

\* hits: the pointers whose memory holds the command and sequence number of
\* the acknowledgement.  The walk stops at the first.
FirstHit(i, hits) ==
  /\ head[i].data \in hits
  /\ \A j \in 1 .. i - 1 : head[j].data \notin hits

\* Frees the data too, which a transmission has freed before.
msg_ack(hits) ==
  /\ phase = "idle"
  /\ \E i \in DOMAIN head :
       /\ FirstHit(i, hits)
       /\ nodes' = nodes \ {head[i].node, head[i].data}
       /\ head' = RemoveAt(head, i)
  /\ list_length' = list_length - 1
  /\ phase' \in {"idle", "fault"}
  /\ UNCHANGED iter

-----------------------------------------------------------------------------
(* The module and its callers *)

\* eat_reset_module, a watchdog or a lost battery: the statics and the heap
\* start afresh.
reboot ==
  /\ head' = <<>>
  /\ list_length' = 0
  /\ nodes' = {}
  /\ phase' = "idle"
  /\ iter' = 0

\* The steps of a call that has begun.
resend_step == visit_send \/ visit_call \/ visit_drop \/ callback_return \/ resend_end

Next ==
  \/ \E d \in Data, h \in BOOLEAN : msg_push(d, h)
  \/ list_overwritten
  \/ resend_start
  \/ resend_step
  \/ \E hits \in SUBSET Data : msg_ack(hits)
  \/ reboot

Spec == Init /\ [][Next]_vars

\* A call that has begun runs on: the processor does not stop between two
\* statements, and a handler returns.  No call is ever obliged to be made.
FairSpec == Spec /\ WF_vars(resend_step)

-----------------------------------------------------------------------------
(* Properties *)

\* Every variable has its type.
TypeOK ==
  /\ head \in Seq(MsgNode)
  /\ list_length \in Nat
  /\ nodes \in SUBSET Node
  /\ phase \in Phase
  /\ iter \in Nat

\* msg_count() answers the number of listed nodes at every point the program
\* can ask, inside a handler too: the flush decision of eat_msg_send_packed
\* and the full test of msg_push rest on it.
CountMatches == list_length = Len(head)

\* The list grows to one node beyond MAX_MSG_LIST_LENGTH and no further, even
\* when handlers push in the middle of a walk.
QueueBound == Len(head) <= MAX_MSG_LIST_LENGTH + 1

\* How often a node has been given to eat_msg_send.  The visit that expires it
\* increments the counter once more.
Transmitted(m) ==
  IF m.resend_times > MAX_RETRY_TIME + 1 THEN MAX_RETRY_TIME + 1 ELSE m.resend_times

\* The list is ordered by age, and the order is what makes expiry fair: of two
\* listed messages the one pushed first has been transmitted at least as often,
\* so no message expires while an older one stays.  Within a walk the nodes
\* behind iter are one transmission ahead.
AgeOrder ==
  \A i, j \in DOMAIN head :
    i <= j =>
      Transmitted(head[i]) <=
        Transmitted(head[j]) + (IF i < iter /\ iter <= j THEN 1 ELSE 0)

\* Memory is lost in one place only: a node that is allocated without being
\* listed was allocated by a push that found the list full.
LeaksOnlyWhenFull ==
  [][\A n \in Node : (n \notin nodes \ Queued /\ n \in (nodes \ Queued)') => QueueFull]_vars

\* Every call of msg_resend comes to an end: handlers may push while it runs,
\* and it does not chase what they push.
WalkEnds == (phase = "walk") ~> (phase \in {"idle", "fault"})

\* If the application keeps calling msg_resend no message stays for ever,
\* acknowledged or not.
FlushedOut ==
  ([]<><<resend_start>>_vars) => \A n \in Node : (n \in Queued) ~> (n \notin Queued)

\* The abstract queue this one implements: what the walk has still to visit is
\* what is listed from iter on.
Buffer ==
  INSTANCE RetryBuffer WITH
    Entry <- Node,
    Attempts <- MAX_RETRY_TIME + 1,
    Capacity <- MAX_MSG_LIST_LENGTH + 1,
    attempts <- [n \in Queued |->
                   Transmitted(head[CHOOSE i \in DOMAIN head : head[i].node = n])],
    flushing <- iter # 0,
    pending <- {head[i].node : i \in {j \in DOMAIN head : iter # 0 /\ j >= iter}}

\* Every node is transmitted once by each walk that finds it, MAX_RETRY_TIME + 1
\* times in all, and leaves by expiry, acknowledgement or reset.  That is so as
\* long as nobody has written over the list: a free of data may have released
\* the memory of a listed node, and the list works until it is given out again.
Refines == Buffer!Spec
=============================================================================
