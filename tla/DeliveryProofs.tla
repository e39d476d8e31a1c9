--------------------------- MODULE DeliveryProofs ---------------------------
(***************************************************************************)
(* Theorems about Delivery, for every heap, every number of sequence       *)
(* numbers and every queue, messages and nodes in one heap: the first      *)
(* transmission of a queued message is sound although its memory is freed  *)
(* again and again, the list's own memory is freed through stale pointers  *)
(* only, and memory is lost by a push to a full list only.  What stale     *)
(* pointers may do to the list, and what follows, is phase "fault", of     *)
(* which nothing is shown.                                                 *)
(***************************************************************************)
EXTENDS Delivery, TLAPS

QP == INSTANCE RefinementProofs WITH Node <- Block, Data <- Block

-----------------------------------------------------------------------------
(* The inductive invariant *)

OriginType == origin \in [Block -> [msg : Content, early : BOOLEAN, inside : BOOLEAN]]

Types == MTypeOK /\ OriginType

\* The heap gives a block to a message or to a node, not to both.
Apart == \A n \in nodes : ~heap[n].live

\* An owner has its block: the memory is as it was filled, and every other node that
\* points there is older, so behind it.  A walk has not passed it.
Owned(i) ==
  /\ Intact(i)
  /\ \A j \in DOMAIN head : j < i => head[j].data # head[i].data
  /\ iter # 0 => iter <= i

Ownership == phase # "fault" => \A i \in DOMAIN head : Owner(i) => Owned(i)

Inv == QP!Inv /\ Types /\ Apart /\ Ownership

-----------------------------------------------------------------------------
(* The queue of Delivery *)

LEMMA SameQueue ==
  /\ Q!Init => QP!Init
  /\ \A b \in Block, h \in BOOLEAN : Q!msg_push(b, h) => QP!msg_push(b, h)
  /\ Q!resend_start => QP!resend_start
  /\ Q!visit_send => QP!visit_send
  /\ Q!visit_call => QP!visit_call
  /\ Q!visit_drop => QP!visit_drop
  /\ Q!callback_return => QP!callback_return
  /\ Q!resend_end => QP!resend_end
  /\ \A hits : Q!msg_ack(hits) => QP!msg_ack(hits)
  /\ Q!reboot \/ Q!list_overwritten => QP!reboot \/ QP!list_overwritten
<1>1. Q!Init => QP!Init
  BY DEF Q!Init, QP!Init
<1>2. ASSUME NEW b \in Block, NEW h \in BOOLEAN, Q!msg_push(b, h)
      PROVE  QP!msg_push(b, h)
  BY <1>2 DEF Q!msg_push, Q!CallerRuns, Q!push_kept, Q!push_discarded, Q!push_faults,
       Q!QueueFull, Q!NewNode, Q!Queued, QP!Queued, QP!msg_push, QP!CallerRuns, QP!push_kept,
       QP!push_discarded, QP!push_faults, QP!QueueFull, QP!NewNode, Q!Cons, QP!Cons
<1>3. Q!resend_start => QP!resend_start
  BY DEF Q!resend_start, QP!resend_start
<1>4. Q!visit_send => QP!visit_send
  BY DEF Q!visit_send, Q!AtNode, Q!Spent, QP!visit_send, QP!AtNode, QP!Spent
<1>5. Q!visit_call => QP!visit_call
  BY DEF Q!visit_call, Q!AtNode, Q!Spent, QP!visit_call, QP!AtNode, QP!Spent
<1>6. Q!visit_drop => QP!visit_drop
  BY DEF Q!visit_drop, Q!AtNode, Q!Spent, Q!drop, QP!visit_drop, QP!AtNode, QP!Spent, QP!drop,
       Q!RemoveAt, QP!RemoveAt
<1>7. Q!callback_return => QP!callback_return
  BY DEF Q!callback_return, Q!drop, QP!callback_return, QP!drop, Q!RemoveAt, QP!RemoveAt
<1>8. Q!resend_end => QP!resend_end
  BY DEF Q!resend_end, QP!resend_end
<1>9. ASSUME NEW hits, Q!msg_ack(hits) PROVE QP!msg_ack(hits)
  BY <1>9 DEF Q!msg_ack, Q!FirstHit, QP!msg_ack, QP!FirstHit, Q!RemoveAt, QP!RemoveAt
<1>10. Q!reboot \/ Q!list_overwritten => QP!reboot \/ QP!list_overwritten
  BY DEF Q!reboot, QP!reboot, Q!list_overwritten, QP!list_overwritten, Q!Queued, QP!Queued
<1> QED
  BY <1>1, <1>2, <1>3, <1>4, <1>5, <1>6, <1>7, <1>8, <1>9, <1>10

LEMMA SameQueued == Q!Queued = QP!Queued
BY DEF Q!Queued, QP!Queued

LEMMA Limits == MAX_RETRY_TIME \in Nat /\ MAX_MSG_LIST_LENGTH \in Nat
BY DeliveryAssumption

\* What is known of the list in every step.
LEMMA HeadFacts ==
  ASSUME QP!Inv
  PROVE  /\ QP!ListSound /\ head \in Seq(QP!MsgNode)
         /\ DOMAIN head = 1 .. Len(head) /\ Len(head) \in Nat
         /\ \A i \in DOMAIN head :
              /\ head[i] \in QP!MsgNode /\ head[i].node \in Block /\ head[i].data \in Block
              /\ head[i].node \in QP!Queued /\ head[i].resend_times \in Nat
         /\ \A i, j \in DOMAIN head : head[i].node = head[j].node => i = j
<1>1. QP!ListSound /\ head \in Seq(QP!MsgNode)
  BY DEF QP!Inv, QP!ListSound
<1>2. \A i \in DOMAIN head : head[i] \in QP!MsgNode
  BY <1>1
<1>3. \A i, j \in DOMAIN head : head[i].node = head[j].node => i = j
  BY <1>1 DEF QP!ListSound, QP!NodesSound
<1> QED
  BY <1>1, <1>2, <1>3 DEF QP!MsgNode, QP!Queued

\* A fault outside the queue's own code leaves it as it was.
LEMMA FaultKeeps ==
  ASSUME QP!Inv, UNCHANGED <<head, list_length, nodes, iter>>, phase' \in {phase, "fault"}
  PROVE  QP!Inv'
<1>1. QP!ListSound'
  BY DEF QP!Inv, QP!ListSound, QP!CountMatches, QP!QueueBound, QP!NodesSound
<1>2. /\ phase' \in QP!Phase /\ iter' \in Nat
      /\ QP!IterSound' /\ QP!TransmissionsBounded' /\ QP!AgeOrder'
  BY DEF QP!Inv, QP!Phase, QP!IterSound, QP!TransmissionsBounded, QP!AgeOrder, QP!Transmitted
<1> QED
  BY <1>1, <1>2 DEF QP!Inv

\* Every step is a step of the queue, or leaves it alone, or is a fault elsewhere.
LEMMA QueueSteps ==
  [Next]_vars =>
    \/ [QP!Next]_<<head, list_length, nodes, phase, iter>>
    \/ UNCHANGED <<head, list_length, nodes, iter>> /\ phase' \in {phase, "fault"}
<1> SUFFICES ASSUME [Next]_vars
             PROVE  \/ [QP!Next]_<<head, list_length, nodes, phase, iter>>
                    \/ UNCHANGED <<head, list_length, nodes, iter>> /\ phase' \in {phase, "fault"}
  OBVIOUS
<1>1. ASSUME NEW c \in Cmd, eat_msg_send_packed(c) PROVE QP!Next
  BY <1>1, SameQueue DEF eat_msg_send_packed, push, QP!Next
<1>2. ASSUME NEW c \in Cmd, NEW h \in Handlers, socket_sendDataWaitAck(c, h) PROVE QP!Next
  BY <1>2, SameQueue, DeliveryAssumption DEF socket_sendDataWaitAck, push, QP!Next
<1>3. ASSUME NEW c \in Cmd, eat_send_heartbeat \/ socket_sendDataDirectly(c)
      PROVE  UNCHANGED <<head, list_length, nodes, iter>> /\ phase' \in {phase, "fault"}
  BY <1>3 DEF eat_send_heartbeat, socket_sendDataDirectly, passing
<1>4. CASE \/ msg_resend \/ eat_msg_send \/ resend_failed_handler \/ expire \/ resend_end
           \/ list_overwritten \/ reboot
  BY <1>4, SameQueue DEF msg_resend, eat_msg_send, resend_failed_handler, expire,
       resend_end, list_overwritten, reboot, QP!Next, QP!resend_step
<1>5. ASSUME NEW ack \in Header, msg_ack(ack) PROVE QP!Next
  BY <1>5, SameQueue DEF msg_ack, QP!Next
<1>6. CASE UNCHANGED vars
  BY <1>6 DEF vars
<1>7. "ping" \in Cmd
  BY DeliveryAssumption
<1> QED
  BY <1>1, <1>2, <1>3, <1>4, <1>5, <1>6, <1>7 DEF Next

LEMMA QueueInv == QP!Inv /\ [Next]_vars => QP!Inv'
<1> SUFFICES ASSUME QP!Inv, [Next]_vars PROVE QP!Inv'
  OBVIOUS
<1> DEFINE qvars == <<head, list_length, nodes, phase, iter>>
<1>1. CASE [QP!Next]_qvars
  BY <1>1, Limits, QP!NextKeepsInv DEF QP!vars
<1>2. CASE UNCHANGED <<head, list_length, nodes, iter>> /\ phase' \in {phase, "fault"}
  BY <1>2, FaultKeeps
<1> QED
  BY <1>1, <1>2, QueueSteps

-----------------------------------------------------------------------------
(* The heap *)

Heaps == [Block -> [live : BOOLEAN, msg : Content]]

LEMMA SeqFacts ==
  ASSUME MTypeOK, TakeSeq PROVE seq' \in 0 .. SeqNumbers - 1
BY SeqAssumption DEF MTypeOK, TakeSeq

LEMMA HeaderFacts ==
  MTypeOK => Junk \in Content /\ \A c \in Cmd : NextHeader(c) \in Content
BY DEF MTypeOK, Content, Header, NextHeader

\* Freeing touches the block and no other, and leaves it free.
LEMMA FreedFacts ==
  ASSUME NEW h0 \in Heaps, NEW b \in Block,
         NEW h1 \in Freed(h0, b)
  PROVE  /\ h1 \in Heaps
         /\ ~h1[b].live
         /\ \A x \in Block : x # b => h1[x] = h0[x]
         /\ ~h0[b].live => h1 = h0
<1> USE DEF Heaps
<1>1. Junk \in Content
  BY DEF Content
<1>2. h0[b].msg \in Content /\ h0[b].live \in BOOLEAN
  OBVIOUS
<1>3. CASE h0[b].live
  <2>1. PICK m \in Content : h1 = [h0 EXCEPT ![b] = [live |-> FALSE, msg |-> m]]
    BY <1>1, <1>2, <1>3 DEF Freed
  <2> QED
    BY <2>1, <1>3
<1>4. CASE ~h0[b].live
  BY <1>4 DEF Freed
<1> QED
  BY <1>3, <1>4

LEMMA AllocFacts ==
  ASSUME Types, NEW b \in Block, NEW c \in Cmd, NEW h1 \in alloc_msg(b, c)
  PROVE  /\ h1 \in Heaps
         /\ h1[b] = [live |-> TRUE, msg |-> NextHeader(c)]
         /\ \A x \in Block : x # b => h1[x] = heap[x]
<1>1. /\ heap \in Heaps /\ NextHeader(c) \in Content
      /\ h1 = [heap EXCEPT ![b] = [live |-> TRUE, msg |-> NextHeader(c)]]
  BY HeaderFacts DEF Types, MTypeOK, alloc_msg, Allocated, Heaps
<1> QED
  BY <1>1 DEF Heaps

LEMMA AllocFreeFacts ==
  ASSUME Types, NEW b \in Block, NEW c \in Cmd, NEW h1 \in alloc_and_free(b, c)
  PROVE  /\ h1 \in Heaps /\ ~h1[b].live
         /\ \A x \in Block : x # b => h1[x] = heap[x]
<1> DEFINE h0 == [heap EXCEPT ![b] = [live |-> TRUE, msg |-> NextHeader(c)]]
<1>1. heap \in Heaps /\ NextHeader(c) \in Content /\ h1 \in Freed(h0, b)
  BY HeaderFacts DEF Types, MTypeOK, alloc_and_free, Allocated, Heaps
<1>2. h0 \in Heaps /\ \A x \in Block : x # b => h0[x] = heap[x]
  BY <1>1 DEF Heaps
<1> HIDE DEF h0
<1> QED
  BY <1>1, <1>2, FreedFacts

LEMMA FreeFacts ==
  ASSUME Types, NEW b \in Block, free(b), UNCHANGED seq
  PROVE  /\ MTypeOK' /\ ~heap'[b].live
         /\ \A x \in Block : x # b => heap'[x] = heap[x]
BY FreedFacts DEF Types, MTypeOK, free, Heaps

LEMMA KeepFacts ==
  ASSUME Types, NEW o \in [msg : Content, early : BOOLEAN, inside : BOOLEAN], Keep(o)
  PROVE  /\ OriginType'
         /\ \A n \in Block : n \in Q!Queued' /\ n \in Q!Queued => origin'[n] = origin[n]
         /\ \A n \in Block : n \in Q!Queued' /\ n \notin Q!Queued => origin'[n] = o
<1>1. NoOrigin \in [msg : Content, early : BOOLEAN, inside : BOOLEAN]
  BY DEF NoOrigin, Content
<1> QED
  BY <1>1 DEF Keep, Types, OriginType

\* A push writes the message into a free block and its node into another free
\* one: what is allocated stays as it is.
LEMMA PushFacts ==
  ASSUME QP!Inv, Types, Apart,
         NEW b \in Block, NEW h \in BOOLEAN, NEW heaps, push(b, h, heaps),
         \A h1 \in heaps : h1 \in Heaps /\ \A x \in Block : x # b => h1[x] = heap[x]
  PROVE  /\ Q!msg_push(b, h) /\ ~heap[b].live
         /\ heap' \in Heaps /\ Apart'
         /\ \A x \in Block : x # b /\ heap[x].live => heap'[x] = heap[x]
         /\ \A x \in Block : x # b /\ heap'[x].live => heap[x].live
         /\ \E h1 \in heaps :
              /\ h1[b].live => heap'[b] = h1[b]
              /\ heap'[b].live => h1[b].live
<1>1. Q!msg_push(b, h) /\ ~heap[b].live /\ b \notin nodes
  BY DEF push, FreeBlocks
<1>2. PICK h1 \in heaps :
        /\ heap' = Written(h1, Q!Queued' \ Q!Queued)
        /\ \A n \in nodes' \ nodes : ~h1[n].live
  BY DEF push
<1>3. h1 \in Heaps /\ \A x \in Block : x # b => h1[x] = heap[x]
  BY <1>2
<1>4. QP!Queued' \ QP!Queued \subseteq nodes' \ nodes
  <2>1. QP!msg_push(b, h)
    BY <1>1, SameQueue
  <2>2. CASE QP!push_kept(b, h)
    BY <2>2, Limits, QP!PushKeepsList DEF QP!Inv
  <2>3. CASE QP!push_discarded(b, h) \/ QP!push_faults(b)
    BY <2>3 DEF QP!push_discarded, QP!push_faults, QP!Queued
  <2> QED
    BY <2>1, <2>2, <2>3 DEF QP!msg_push
<1> DEFINE N == Q!Queued' \ Q!Queued
<1>5. N \subseteq nodes' \ nodes
  BY <1>4 DEF Q!Queued, QP!Queued
<1>6. heap' = [x \in Block |-> IF x \in N THEN [live |-> FALSE, msg |-> Junk] ELSE h1[x]]
  BY <1>2 DEF Written
<1> HIDE DEF N
<1>7. heap' \in Heaps
  <2>1. Junk \in Content
    BY DEF Content
  <2> QED
    BY <1>3, <1>6, <2>1 DEF Heaps
<1>8. \A x \in Block : heap'[x].live => h1[x].live
  BY <1>6
<1>9. \A x \in Block : h1[x].live => heap'[x] = h1[x]
  BY <1>2, <1>5, <1>6
<1>10. ASSUME NEW n \in nodes' PROVE ~heap'[n].live
  <2>1. nodes' \subseteq Block
    BY <1>1, SameQueue
       DEF QP!msg_push, QP!push_kept, QP!push_discarded, QP!push_faults, QP!Inv, QP!ListSound
  <2>2. CASE n \in nodes
    BY <1>1, <1>3, <1>8, <2>1, <2>2 DEF Apart
  <2>3. CASE n \notin nodes
    BY <1>2, <1>8, <2>1, <2>3
  <2> QED
    BY <2>2, <2>3
<1> QED
  BY <1>1, <1>2, <1>3, <1>7, <1>8, <1>9, <1>10 DEF Apart

-----------------------------------------------------------------------------
(* Ownership *)

\* A push fills or frees a block that was free, so nobody's, and what it lists
\* goes before every owner.
LEMMA PushKeeps ==
  ASSUME QP!Inv, Types, Ownership,
         NEW b \in Block, ~heap[b].live,
         \A x \in Block : x # b /\ heap[x].live => heap'[x] = heap[x],
         NEW h \in BOOLEAN, Q!msg_push(b, h),
         NEW o \in [msg : Content, early : BOOLEAN, inside : BOOLEAN], Keep(o),
         ~o.early /\ ~o.inside =>
           phase # "callback" /\ heap'[b] = [live |-> TRUE, msg |-> o.msg]
  PROVE  Ownership'
<1> SUFFICES ASSUME phase' # "fault", NEW k \in DOMAIN head', Owner(k)'
             PROVE  Owned(k)'
  BY DEF Ownership
<1>1. QP!msg_push(b, h) /\ phase \in {"idle", "callback"}
  BY SameQueue DEF Q!msg_push, Q!CallerRuns
<1>2. \A i \in DOMAIN head : Owner(i) => Owned(i)
  BY <1>1 DEF Ownership
<1>3. /\ \A n \in Block : n \in QP!Queued' /\ n \in QP!Queued => origin'[n] = origin[n]
      /\ \A n \in Block : n \in QP!Queued' /\ n \notin QP!Queued => origin'[n] = o
  BY KeepFacts, SameQueued DEF Q!Queued, QP!Queued
<1>4. ASSUME NEW i \in DOMAIN head, Owner(i)
      PROVE  /\ head[i].data \in Block /\ head[i].data # b
             /\ heap'[head[i].data] = [live |-> TRUE, msg |-> origin[head[i].node].msg]
             /\ \A j \in DOMAIN head : j < i => head[j].data # head[i].data
             /\ iter # 0 => iter <= i
  <2>1. Owned(i)
    BY <1>2, <1>4
  <2>2. heap[head[i].data] = [live |-> TRUE, msg |-> origin[head[i].node].msg]
    BY <2>1 DEF Owned, Intact
  <2>3. head[i].data \in Block /\ head[i].data # b
    BY <2>2, HeadFacts
  <2> QED
    BY <2>1, <2>2, <2>3 DEF Owned
<1>5. CASE QP!push_kept(b, h)
  <2>1. /\ QP!ListSound' /\ Len(head') = Len(head) + 1
        /\ \A i \in DOMAIN head : head'[i + 1] = head[i]
    BY <1>5, Limits, HeadFacts, QP!PushKeepsList
  <2>2. DOMAIN head = 1 .. Len(head) /\ DOMAIN head' = 1 .. Len(head) + 1 /\ Len(head) \in Nat
    BY <2>1, HeadFacts DEF QP!ListSound
  <2>3. PICK n \in Block \ (nodes \cup QP!Queued) :
          head' = QP!Cons(QP!NewNode(n, b, h), head)
    BY <1>5 DEF QP!push_kept
  <2>4. head'[1].node = n /\ head'[1].data = b
    <3>1. QP!NewNode(n, b, h).node = n /\ QP!NewNode(n, b, h).data = b
      BY DEF QP!NewNode
    <3>2. QP!NewNode(n, b, h) \in QP!MsgNode
      BY DEF QP!NewNode, QP!MsgNode
    <3>3. head'[1] = QP!NewNode(n, b, h)
      <4> DEFINE e == QP!NewNode(n, b, h)
      <4>1. head \in Seq(QP!MsgNode) /\ e \in QP!MsgNode /\ head' = QP!Cons(e, head)
        BY <2>3, <3>2, HeadFacts
      <4> HIDE DEF e
      <4>2. QP!Cons(e, head)[1] = e
        BY <4>1 DEF QP!Cons
      <4> QED
        BY <4>1, <4>2 DEF e
    <3> QED
      BY <3>1, <3>3
  <2>5. iter' = (IF phase = "callback" THEN iter + 1 ELSE iter) /\ (phase = "idle" => iter = 0)
    BY <1>5 DEF QP!push_kept, QP!Inv, QP!IterSound
  <2>6. iter \in Nat
    BY DEF QP!Inv
  <2>7. ASSUME NEW i \in DOMAIN head, Owner(i + 1)'
        PROVE  Owned(i + 1)'
    <3>1. /\ i + 1 \in DOMAIN head' /\ head'[i + 1] = head[i]
          /\ head[i].node \in Block /\ head[i].node \in QP!Queued /\ head[i].node \in QP!Queued'
      BY <2>1, <2>2, HeadFacts DEF QP!Queued
    <3>2. origin'[head[i].node] = origin[head[i].node]
      BY <1>3, <3>1
    <3>3. Owner(i)
      BY <2>7, <3>1, <3>2 DEF Owner, Unsent
    <3>4. Intact(i + 1)'
      BY <1>4, <3>1, <3>2, <3>3 DEF Intact
    <3>5. ASSUME NEW j \in DOMAIN head', j < i + 1 PROVE head'[j].data # head'[i + 1].data
      <4>1. CASE j = 1
        BY <4>1, <1>4, <2>4, <3>1, <3>3
      <4>2. CASE j # 1
        <5>1. j - 1 \in DOMAIN head /\ j - 1 < i /\ (j - 1) + 1 = j
          BY <4>2, <3>5, <2>2
        <5>2. head'[j] = head[j - 1]
          BY <2>1, <5>1
        <5>3. head[j - 1].data # head[i].data
          <6>1. Owned(i)
            BY <1>2, <3>3
          <6> QED
            BY <6>1, <5>1 DEF Owned
        <5> QED
          BY <5>2, <5>3, <3>1
      <4> QED
        BY <4>1, <4>2
    <3>6. iter' # 0 => iter' <= i + 1
      <4>1. iter # 0 => iter <= i
        BY <1>4, <3>3, Zenon
      <4>2. phase = "callback" => iter # 0
        BY <2>2 DEF QP!Inv, QP!IterSound
      <4>3. i \in Nat
        BY <2>2
      <4> QED
        BY <1>1, <2>5, <2>6, <4>1, <4>2, <4>3
    <3> QED
      BY <3>4, <3>5, <3>6 DEF Owned
  <2>8. CASE k = 1
    <3>1. n \in QP!Queued' /\ n \notin QP!Queued
      BY <2>2, <2>3, <2>4 DEF QP!Queued
    <3>2. origin'[head'[1].node] = o
      BY <1>3, <2>4, <3>1
    <3>3. ~o.early /\ ~o.inside
      BY <2>8, <3>2 DEF Owner, Unsent
    <3>4. iter' = 0
      BY <1>1, <2>5, <3>3
    <3>5. Intact(1)'
      BY <2>4, <3>2, <3>3 DEF Intact
    <3>6. \A j \in DOMAIN head' : ~ j < 1
      BY <2>2
    <3> QED
      BY <2>8, <3>4, <3>5, <3>6 DEF Owned
  <2>9. CASE k # 1
    <3>1. k - 1 \in DOMAIN head /\ (k - 1) + 1 = k
      BY <2>2, <2>9
    <3> QED
      BY <2>7, <3>1
  <2> QED
    BY <2>8, <2>9
<1>6. CASE QP!push_discarded(b, h)
  <2>1. head' = head /\ iter' = iter
    BY <1>6 DEF QP!push_discarded
  <2>2. origin'[head[k].node] = origin[head[k].node]
    BY <1>3, <2>1, HeadFacts DEF QP!Queued
  <2>3. Owner(k)
    BY <2>1, <2>2 DEF Owner, Unsent
  <2> QED
    BY <1>4, <2>1, <2>2, <2>3 DEF Owned, Intact
<1>7. CASE QP!push_faults(b)
  BY <1>7 DEF QP!push_faults
<1> QED
  BY <1>1, <1>5, <1>6, <1>7 DEF QP!msg_push

\* A removal frees the block of the node removed, which no owner that stays
\* shares with it.
LEMMA RemovalKeeps ==
  ASSUME QP!Inv, Types, Ownership, phase # "fault",
         NEW r \in DOMAIN head,
         nodes' \subseteq nodes,
         head' = QP!RemoveAt(head, r),
         list_length' = list_length - 1,
         free(head[r].data), UNCHANGED seq, Forget,
         iter \in {0, r}, iter' = iter,
         \A i \in DOMAIN head : i < r /\ Owner(i) => head[i].data # head[r].data
  PROVE  Ownership'
<1> SUFFICES ASSUME NEW k \in DOMAIN head', Owner(k)'
             PROVE  Owned(k)'
  BY DEF Ownership
<1>1. /\ QP!ListSound' /\ Len(head') = Len(head) - 1
      /\ \A i \in DOMAIN head' : head'[i] = IF i < r THEN head[i] ELSE head[i + 1]
  BY HeadFacts, QP!RemovalKeepsList, Limits
<1>2. /\ DOMAIN head = 1 .. Len(head) /\ Len(head) \in Nat /\ DOMAIN head' = 1 .. Len(head) - 1
      /\ iter \in Nat
  BY <1>1, HeadFacts DEF QP!ListSound, QP!Inv
<1> DEFINE old(i) == IF i < r THEN i ELSE i + 1
<1>3. ASSUME NEW i \in DOMAIN head'
      PROVE  old(i) \in DOMAIN head /\ old(i) # r /\ head'[i] = head[old(i)]
  BY <1>1, <1>2
<1>4. PICK i \in DOMAIN head : i = old(k) /\ i # r /\ head'[k] = head[i]
  BY <1>3
<1>5. head[i].node \in Block /\ head[i].node \in QP!Queued /\ head[i].node \in QP!Queued'
  BY <1>4, HeadFacts DEF QP!Queued
<1>6. NoOrigin \in [msg : Content, early : BOOLEAN, inside : BOOLEAN]
  BY DEF NoOrigin, Content
<1>7. origin'[head[i].node] = origin[head[i].node]
  BY <1>5, <1>6, KeepFacts, SameQueued DEF Forget, Q!Queued, QP!Queued
<1>8. Owner(i) /\ Owned(i)
  BY <1>4, <1>7 DEF Owner, Unsent, Ownership
<1>9. head[i].data # head[r].data /\ head[i].data \in Block /\ head[r].data \in Block
  <2>1. i < r \/ r < i
    BY <1>2, <1>4
  <2> QED
    BY <2>1, <1>8, HeadFacts DEF Owned
<1>10. Intact(k)'
  <2>1. heap'[head[i].data] = heap[head[i].data]
    BY <1>9, FreeFacts
  <2> QED
    BY <1>4, <1>7, <1>8, <2>1 DEF Owned, Intact
<1>11. ASSUME NEW j \in DOMAIN head', j < k PROVE head'[j].data # head'[k].data
  <2>1. PICK m \in DOMAIN head : m = old(j) /\ head'[j] = head[m]
    BY <1>3
  <2>2. m < i
    BY <1>2, <1>4, <1>11, <2>1
  <2> QED
    BY <1>4, <1>8, <2>1, <2>2 DEF Owned
<1>12. iter' # 0 => iter' <= k
  BY <1>2, <1>4, <1>8 DEF Owned
<1> QED
  BY <1>10, <1>11, <1>12 DEF Owned

\* The transmission that takes the block from the node at iter: it has counted,
\* and no owner behind it shares the block.
LEMMA SendKeeps ==
  ASSUME QP!Inv, Types, Ownership, eat_msg_send
  PROVE  Ownership'
<1> SUFFICES ASSUME NEW k \in DOMAIN head', Owner(k)'
             PROVE  Owned(k)'
  BY DEF Ownership
<1>1. /\ phase = "walk" /\ iter \in DOMAIN head /\ iter' = iter + 1
      /\ head' = [head EXCEPT ![iter].resend_times = @ + 1]
      /\ free(head[iter].data) /\ UNCHANGED <<seq, origin>>
  BY DEF eat_msg_send, Q!visit_send, Q!AtNode
<1>2. /\ DOMAIN head' = DOMAIN head /\ DOMAIN head = 1 .. Len(head) /\ Len(head) \in Nat
      /\ iter \in Nat \ {0} /\ head[iter].resend_times \in Nat
      /\ head'[iter].resend_times = head[iter].resend_times + 1
  BY <1>1, HeadFacts DEF QP!MsgNode
<1>3. \A i \in DOMAIN head :
        /\ head'[i].node = head[i].node /\ head'[i].data = head[i].data
        /\ i # iter => head'[i] = head[i]
  BY <1>1, HeadFacts DEF QP!MsgNode
<1>4. k # iter /\ Owner(k)
  BY <1>1, <1>2, <1>3 DEF Owner, Unsent
<1>5. Owned(k) /\ iter < k
  BY <1>1, <1>2, <1>4 DEF Ownership, Owned
<1>6. head[k].data # head[iter].data /\ head[k].data \in Block /\ head[iter].data \in Block
  BY <1>1, <1>2, <1>5, HeadFacts DEF Owned
<1>7. heap'[head[k].data] = heap[head[k].data]
  BY <1>1, <1>6, FreeFacts
<1> QED
  BY <1>1, <1>2, <1>3, <1>4, <1>5, <1>7 DEF Owned, Intact

\* Other steps that allocate use a block that was nobody's.
LEMMA OthersKeep ==
  ASSUME QP!Inv, Ownership, phase # "fault",
         UNCHANGED <<head, origin>>,
         iter' \in {0, 1, iter},
         \A x \in Block : heap[x].live => heap'[x] = heap[x]
  PROVE  Ownership'
<1> SUFFICES ASSUME NEW k \in DOMAIN head', Owner(k)'
             PROVE  Owned(k)'
  BY DEF Ownership
<1>1. k \in DOMAIN head /\ Owner(k) /\ DOMAIN head = 1 .. Len(head) /\ Len(head) \in Nat
  BY HeadFacts DEF Owner, Unsent
<1>2. Owned(k)
  BY <1>1 DEF Ownership
<1>3. heap'[head[k].data] = heap[head[k].data]
  BY <1>1, <1>2, HeadFacts DEF Owned, Intact
<1> QED
  BY <1>1, <1>2, <1>3 DEF Owned, Intact

LEMMA CallKeeps ==
  ASSUME QP!Inv, Ownership, resend_failed_handler
  PROVE  Ownership'
<1> SUFFICES ASSUME NEW k \in DOMAIN head', Owner(k)'
             PROVE  Owned(k)'
  BY DEF Ownership
<1>1. /\ phase = "walk" /\ iter \in DOMAIN head /\ iter' = iter
      /\ head' = [head EXCEPT ![iter].resend_times = @ + 1]
      /\ UNCHANGED <<heap, seq, origin>>
  BY DEF resend_failed_handler, Q!visit_call, Q!AtNode
<1>2. /\ DOMAIN head' = DOMAIN head /\ head[iter].resend_times \in Nat
      /\ head'[iter].resend_times = head[iter].resend_times + 1
  BY <1>1, HeadFacts DEF QP!MsgNode
<1>3. \A i \in DOMAIN head :
        /\ head'[i].node = head[i].node /\ head'[i].data = head[i].data
        /\ i # iter => head'[i] = head[i]
  BY <1>1, HeadFacts DEF QP!MsgNode
<1>4. k # iter /\ Owner(k)
  BY <1>1, <1>2, <1>3 DEF Owner, Unsent
<1>5. Owned(k)
  BY <1>1, <1>2, <1>4 DEF Ownership
<1>6. Intact(k)'
  BY <1>1, <1>2, <1>3, <1>5 DEF Owned, Intact
<1>7. ASSUME NEW j \in DOMAIN head', j < k PROVE head'[j].data # head'[k].data
  <2>1. head[j].data # head[k].data
    BY <1>2, <1>5, <1>7 DEF Owned
  <2> QED
    BY <2>1, <1>2, <1>3, <1>7
<1>8. iter' # 0 => iter' <= k
  BY <1>1, <1>5 DEF Owned
<1> QED
  BY <1>6, <1>7, <1>8 DEF Owned

-----------------------------------------------------------------------------
(* The whole *)

LEMMA NoOriginType == NoOrigin \in [msg : Content, early : BOOLEAN, inside : BOOLEAN]
BY DEF NoOrigin, Content

LEMMA PushedType ==
  ASSUME Types, NEW c \in Cmd, NEW early \in BOOLEAN
  PROVE  Pushed(c, early) \in [msg : Content, early : BOOLEAN, inside : BOOLEAN]
BY HeaderFacts DEF Types, Pushed

LEMMA PackedKeeps ==
  ASSUME QP!Inv, Types, Apart, Ownership, NEW c \in Cmd, eat_msg_send_packed(c)
  PROVE  Types' /\ Apart' /\ Ownership'
<1>1. PICK b \in Block : push(b, FALSE, alloc_msg(b, c))
  BY DEF eat_msg_send_packed
<1>2. \A h1 \in alloc_msg(b, c) :
        /\ h1 \in Heaps /\ h1[b] = [live |-> TRUE, msg |-> NextHeader(c)]
        /\ \A x \in Block : x # b => h1[x] = heap[x]
  BY AllocFacts
<1>3. /\ Q!msg_push(b, FALSE) /\ ~heap[b].live /\ heap' \in Heaps /\ Apart'
      /\ \A x \in Block : x # b /\ heap[x].live => heap'[x] = heap[x]
      /\ heap'[b] = [live |-> TRUE, msg |-> NextHeader(c)]
  <2> DEFINE heaps == alloc_msg(b, c)
  <2>1. \A h1 \in heaps : h1 \in Heaps /\ \A x \in Block : x # b => h1[x] = heap[x]
    BY <1>2
  <2>2. PICK h \in BOOLEAN : h = FALSE /\ push(b, h, heaps)
    BY <1>1
  <2> HIDE DEF heaps
  <2>3. /\ Q!msg_push(b, h) /\ ~heap[b].live /\ heap' \in Heaps /\ Apart'
        /\ \A x \in Block : x # b /\ heap[x].live => heap'[x] = heap[x]
    BY <2>1, <2>2, PushFacts
  <2>4. PICK h1 \in heaps : h1[b].live => heap'[b] = h1[b]
    BY <2>1, <2>2, PushFacts
  <2>5. h1[b] = [live |-> TRUE, msg |-> NextHeader(c)]
    BY <2>4, <1>2 DEF heaps
  <2>6. heap'[b] = [live |-> TRUE, msg |-> NextHeader(c)]
    BY <2>4, <2>5
  <2>7. Q!msg_push(b, FALSE)
    BY <2>2, <2>3
  <2> QED
    BY <2>3, <2>6, <2>7
<1> DEFINE o == Pushed(c, FALSE)
<1>4. o \in [msg : Content, early : BOOLEAN, inside : BOOLEAN] /\ Keep(o)
  BY PushedType DEF eat_msg_send_packed
<1>5. ~o.early /\ ~o.inside =>
         phase # "callback" /\ heap'[b] = [live |-> TRUE, msg |-> o.msg]
  BY <1>2, <1>3 DEF Pushed
<1> HIDE DEF o
<1>6. OriginType'
  BY <1>4, KeepFacts
<1>7. MTypeOK'
  BY <1>3, SeqFacts DEF Types, MTypeOK, eat_msg_send_packed, Heaps
<1> QED
  BY <1>3, <1>4, <1>5, <1>6, <1>7, PushKeeps DEF Types

LEMMA WaitAckKeeps ==
  ASSUME QP!Inv, Types, Apart, Ownership,
         NEW c \in Cmd, NEW h \in BOOLEAN, socket_sendDataWaitAck(c, h)
  PROVE  Types' /\ Apart' /\ Ownership'
<1>1. PICK b \in Block : push(b, h, alloc_and_free(b, c))
  BY DEF socket_sendDataWaitAck
<1>2. \A h1 \in alloc_and_free(b, c) :
        h1 \in Heaps /\ \A x \in Block : x # b => h1[x] = heap[x]
  BY AllocFreeFacts
<1>3. /\ Q!msg_push(b, h) /\ ~heap[b].live /\ heap' \in Heaps /\ Apart'
      /\ \A x \in Block : x # b /\ heap[x].live => heap'[x] = heap[x]
  BY <1>1, <1>2, PushFacts
<1> DEFINE o == Pushed(c, TRUE)
<1>4. o \in [msg : Content, early : BOOLEAN, inside : BOOLEAN] /\ Keep(o) /\ o.early
  BY PushedType DEF socket_sendDataWaitAck, Pushed
<1> HIDE DEF o
<1>5. OriginType'
  BY <1>4, KeepFacts
<1>6. MTypeOK'
  BY <1>3, SeqFacts DEF Types, MTypeOK, socket_sendDataWaitAck, Heaps
<1> QED
  BY <1>3, <1>4, <1>5, <1>6, PushKeeps DEF Types

\* A message that is freed before the call returns was in a block of nobody's.
LEMMA PassingFacts ==
  ASSUME QP!Inv, Types, Apart, NEW b \in Block, NEW c \in Cmd, passing(b, c)
  PROVE  /\ MTypeOK' /\ Apart'
         /\ \A x \in Block : heap[x].live => heap'[x] = heap[x]
         /\ \A x \in Block : heap'[x].live => heap[x].live
<1>1. /\ ~heap[b].live /\ heap' \in Heaps /\ ~heap'[b].live
      /\ \A x \in Block : x # b => heap'[x] = heap[x]
  BY AllocFreeFacts DEF passing, FreeBlocks
<1>2. MTypeOK'
  BY <1>1, SeqFacts DEF Types, MTypeOK, passing, Heaps
<1>3. nodes' = nodes /\ nodes \subseteq Block
  BY DEF passing, QP!Inv, QP!ListSound
<1>4. \A x \in Block : heap'[x].live => heap[x].live
  BY <1>1
<1>5. Apart'
  BY <1>3, <1>4 DEF Apart
<1> QED
  BY <1>1, <1>2, <1>4, <1>5

\* A heartbeat, or a message sent directly.
LEMMA DirectKeeps ==
  ASSUME QP!Inv, Types, Apart, Ownership, NEW c \in Cmd,
         eat_send_heartbeat \/ socket_sendDataDirectly(c)
  PROVE  Types' /\ Apart' /\ Ownership'
<1>1. UNCHANGED <<head, iter, origin, nodes>> /\ phase # "fault"
  BY DEF eat_send_heartbeat, socket_sendDataDirectly, passing, Q!CallerRuns
<1>2. CASE \E b \in Block, d \in Cmd : passing(b, d)
  <2>1. MTypeOK' /\ Apart' /\ \A x \in Block : heap[x].live => heap'[x] = heap[x]
    BY <1>2, PassingFacts
  <2> QED
    BY <1>1, <2>1, OthersKeep DEF Types, OriginType
<1>3. CASE UNCHANGED <<heap, seq>>
  <2>1. MTypeOK' /\ Apart' /\ \A x \in Block : heap[x].live => heap'[x] = heap[x]
    BY <1>1, <1>3 DEF Types, MTypeOK, Apart
  <2> QED
    BY <1>1, <2>1, OthersKeep DEF Types, OriginType
<1> QED
  BY <1>2, <1>3, DeliveryAssumption DEF eat_send_heartbeat, socket_sendDataDirectly

\* A free takes nothing from the list's memory that it gives to a message.
LEMMA FreeKeepsApart ==
  ASSUME QP!Inv, Types, Apart, NEW b \in Block, free(b), UNCHANGED seq, nodes' \subseteq nodes
  PROVE  Apart'
<1>1. nodes \subseteq Block
  BY DEF QP!Inv, QP!ListSound
<1> QED
  BY <1>1, FreeFacts DEF Apart

LEMMA ExpireKeeps ==
  ASSUME QP!Inv, Types, Apart, Ownership, expire
  PROVE  Types' /\ Apart' /\ Ownership'
<1>1. /\ iter \in DOMAIN head /\ phase # "fault" /\ QP!drop
      /\ free(head[iter].data) /\ UNCHANGED seq /\ Forget
  BY SameQueue DEF expire, QP!visit_drop, QP!callback_return, QP!AtNode, QP!Inv, QP!IterSound
<1>2. MTypeOK'
  BY <1>1, HeadFacts, FreeFacts
<1>3. OriginType'
  BY <1>1, NoOriginType, KeepFacts DEF Forget
<1>4. \A i \in DOMAIN head : i < iter /\ Owner(i) => head[i].data # head[iter].data
  <2>1. DOMAIN head = 1 .. Len(head) /\ Len(head) \in Nat
    BY HeadFacts
  <2> QED
    BY <1>1, <2>1 DEF Ownership, Owned
<1>5. Apart'
  BY <1>1, HeadFacts, FreeKeepsApart DEF QP!drop
<1> QED
  BY <1>1, <1>2, <1>3, <1>4, <1>5, RemovalKeeps DEF QP!drop, Types

\* The acknowledged message is the first match: an owner in front of it with
\* the same block would match as well.
LEMMA AckKeeps ==
  ASSUME QP!Inv, Types, Apart, Ownership, NEW ack \in Header, msg_ack(ack)
  PROVE  Types' /\ Apart' /\ Ownership'
<1> DEFINE hits == {b \in Block : heap[b].msg = ack}
<1>1. Q!msg_ack(hits) /\ UNCHANGED seq /\ Forget
  BY DEF msg_ack
<1>2. PICK r \in DOMAIN head :
        /\ Q!FirstHit(r, hits)
        /\ nodes' \subseteq nodes
        /\ head' = QP!RemoveAt(head, r)
  BY <1>1 DEF Q!msg_ack, Q!RemoveAt, QP!RemoveAt
<1>3. PICK q \in DOMAIN head : Q!FirstHit(q, hits) /\ free(head[q].data)
  BY DEF msg_ack
<1>4. DOMAIN head = 1 .. Len(head) /\ Len(head) \in Nat
  BY HeadFacts
<1>5. q = r
  <2>1. ~ q < r /\ ~ r < q
    BY <1>2, <1>3, <1>4 DEF Q!FirstHit
  <2> QED
    BY <1>4, <2>1
<1>6. phase = "idle" /\ iter = 0 /\ iter' = iter /\ list_length' = list_length - 1
  BY <1>1 DEF Q!msg_ack, QP!Inv, QP!IterSound
<1>7. \A i \in DOMAIN head : i < r => head[i].data # head[r].data
  BY <1>2, <1>4 DEF Q!FirstHit
<1>8. MTypeOK'
  BY <1>1, <1>3, HeadFacts, FreeFacts
<1>9. OriginType'
  BY <1>1, NoOriginType, KeepFacts DEF Forget
<1>10. Apart'
  BY <1>1, <1>2, <1>3, <1>5, HeadFacts, FreeKeepsApart
<1> QED
  BY <1>1, <1>2, <1>3, <1>5, <1>6, <1>7, <1>8, <1>9, <1>10, RemovalKeeps DEF Types

LEMMA InitInv == Init => Inv
<1> SUFFICES ASSUME Init PROVE Inv
  OBVIOUS
<1>1. QP!Inv
  BY SameQueue, Limits, QP!InitInv DEF Init
<1>2. Types
  BY SeqAssumption, NoOriginType DEF Init, MInit, Types, MTypeOK, OriginType, Content
<1>3. Ownership /\ Apart
  BY DEF Init, Q!Init, Ownership, Apart
<1> QED
  BY <1>1, <1>2, <1>3 DEF Inv

LEMMA NextKeepsInv == Inv /\ [Next]_vars => Inv'
<1> SUFFICES ASSUME Inv, [Next]_vars PROVE Inv'
  OBVIOUS
<1> USE DEF Inv
<1>1. QP!Inv'
  BY QueueInv
<1>2. Types' /\ Apart' /\ Ownership'
  <2>1. ASSUME NEW c \in Cmd, eat_msg_send_packed(c) PROVE Types' /\ Apart' /\ Ownership'
    BY <2>1, PackedKeeps
  <2>2. ASSUME NEW c \in Cmd, socket_sendDataDirectly(c) PROVE Types' /\ Apart' /\ Ownership'
    BY <2>2, DirectKeeps
  <2>3. ASSUME NEW c \in Cmd, NEW h \in Handlers, socket_sendDataWaitAck(c, h)
        PROVE  Types' /\ Apart' /\ Ownership'
    BY <2>3, WaitAckKeeps, DeliveryAssumption
  <2>4. CASE eat_send_heartbeat
    BY <2>4, DirectKeeps, DeliveryAssumption
  <2>5. CASE msg_resend \/ resend_end
    <3>1. /\ UNCHANGED <<head, heap, seq, origin, nodes>> /\ phase # "fault"
          /\ iter' \in {0, 1, iter}
      BY <2>5 DEF msg_resend, resend_end, Q!resend_start, Q!resend_end
    <3> QED
      BY <3>1, OthersKeep DEF Types, MTypeOK, OriginType, Apart
  <2>6. CASE eat_msg_send
    <3>1. /\ iter \in DOMAIN head /\ free(head[iter].data) /\ UNCHANGED <<seq, origin>>
          /\ nodes' \subseteq nodes
      BY <2>6 DEF eat_msg_send, Q!visit_send, Q!AtNode
    <3>2. MTypeOK' /\ Apart'
      BY <3>1, HeadFacts, FreeFacts, FreeKeepsApart
    <3> QED
      BY <2>6, <3>1, <3>2, SendKeeps DEF Types, OriginType
  <2>7. CASE resend_failed_handler
    BY <2>7, CallKeeps DEF resend_failed_handler, Q!visit_call, Types, MTypeOK, OriginType, Apart
  <2>8. CASE expire
    BY <2>8, ExpireKeeps
  <2>9. ASSUME NEW ack \in Header, msg_ack(ack) PROVE Types' /\ Apart' /\ Ownership'
    BY <2>9, AckKeeps
  <2>10. CASE reboot
    <3>1. DOMAIN head' = {}
      BY <2>10 DEF reboot, Q!reboot
    <3>2. Types' /\ Apart'
      BY <2>10, SeqAssumption, NoOriginType DEF reboot, Q!reboot, Apart, Types, MTypeOK, OriginType, Content
    <3> QED
      BY <3>1, <3>2 DEF Ownership
  <2>11. CASE UNCHANGED vars
    BY <2>11 DEF vars, Types, Apart, MTypeOK, OriginType, Ownership, Owner, Owned, Unsent, Intact
  <2>12. CASE list_overwritten
    BY <2>12 DEF list_overwritten, Q!list_overwritten, Types, Apart, MTypeOK, OriginType,
         Ownership
  <2> QED
    BY <2>1, <2>2, <2>3, <2>4, <2>5, <2>6, <2>7, <2>8, <2>9, <2>10, <2>11, <2>12 DEF Next
<1> QED
  BY <1>1, <1>2

\* The invariant holds in every reachable state.
THEOREM Invariance == Spec => []Inv
BY InitInv, NextKeepsInv, PTL DEF Spec

\* Every variable keeps its type.
THEOREM TypeCorrect == Spec => []TypeOK
<1>1. Inv => TypeOK
  BY DEF Inv, Types, OriginType, TypeOK, QP!Inv, QP!ListSound, Q!TypeOK,
       QP!MsgNode, Q!MsgNode, QP!Phase, Q!Phase
<1> QED
  BY <1>1, Invariance, PTL

\* What the first flush sends of a message that was queued outside a walk is
\* that message, whatever was freed and reused before, as long as nobody has
\* written over the list.
THEOREM FirstSendTheorem == Spec => []FirstSendIntact
<1>1. Inv => FirstSendIntact
  BY DEF Inv, Ownership, Owned, FirstSendIntact
<1> QED
  BY <1>1, Invariance, PTL

\* What frees a node that stays listed is the free of some listed message's data.
LEMMA NodeFreed ==
  ASSUME QP!Inv, Next, NEW n \in QP!Queued \cap nodes, n \notin nodes', n \in QP!Queued'
  PROVE  \E i \in DOMAIN head : head[i].data = n
<1> DEFINE Found == \E i \in DOMAIN head : head[i].data = n
<1>1. ASSUME NEW b \in Block, NEW h \in BOOLEAN, Q!msg_push(b, h) PROVE FALSE
  BY <1>1 DEF Q!msg_push, Q!push_kept, Q!push_discarded, Q!push_faults
<1>2. ASSUME NEW k \in DOMAIN head, nodes' = nodes \ {head[k].node, head[k].data},
             head' = QP!RemoveAt(head, k), list_length' = list_length - 1
      PROVE  Found
  <2>1. QP!Queued' = QP!Queued \ {head[k].node}
    BY <1>2, Limits, HeadFacts, QP!RemovalMaps
  <2>2. n # head[k].node
    BY <2>1
  <2> QED
    BY <1>2, <2>2
<1>3. CASE eat_msg_send
  BY <1>3 DEF eat_msg_send, Q!visit_send, Q!AtNode
<1>4. CASE expire
  <2>1. iter \in DOMAIN head /\ QP!drop
    BY <1>4, SameQueue DEF expire, QP!visit_drop, QP!callback_return, QP!AtNode, QP!Inv,
         QP!IterSound
  <2> QED
    BY <1>2, <2>1 DEF QP!drop
<1>5. ASSUME NEW ack \in Header, msg_ack(ack) PROVE Found
  <2> DEFINE hits == {b \in Block : heap[b].msg = ack}
  <2>1. QP!msg_ack(hits)
    BY <1>5, SameQueue DEF msg_ack
  <2>2. PICK k \in DOMAIN head :
          /\ nodes' = nodes \ {head[k].node, head[k].data}
          /\ head' = QP!RemoveAt(head, k)
    BY <2>1 DEF QP!msg_ack
  <2>3. list_length' = list_length - 1
    BY <2>1 DEF QP!msg_ack
  <2> QED
    BY <1>2, <2>2, <2>3
<1>6. ASSUME NEW c \in Cmd, eat_send_heartbeat \/ socket_sendDataDirectly(c) PROVE FALSE
  BY <1>6 DEF eat_send_heartbeat, socket_sendDataDirectly, passing
<1>7. CASE msg_resend \/ resend_failed_handler \/ resend_end \/ list_overwritten
  BY <1>7 DEF msg_resend, resend_failed_handler, resend_end, list_overwritten,
       Q!resend_start, Q!visit_call, Q!resend_end, Q!list_overwritten
<1>8. CASE reboot
  BY <1>8 DEF reboot, Q!reboot, QP!Queued
<1>9. ASSUME NEW c \in Cmd, eat_msg_send_packed(c) PROVE FALSE
  BY <1>1, <1>9 DEF eat_msg_send_packed, push
<1>10. ASSUME NEW c \in Cmd, NEW h \in Handlers, socket_sendDataWaitAck(c, h) PROVE FALSE
  BY <1>1, <1>10, DeliveryAssumption DEF socket_sendDataWaitAck, push
<1> QED
  BY <1>3, <1>4, <1>5, <1>6, <1>7, <1>8, <1>9, <1>10, DeliveryAssumption DEF Next

\* The memory of a listed node is freed through the pointer of a message that was
\* transmitted before, or queued by a handler, and by nothing else.
THEOREM ListFreeTheorem == Spec => ListFreedByStaleOnly
<1>1. ASSUME Inv, phase # "fault", NEW n \in nodes, NEW i \in DOMAIN head, head[i].data = n
      PROVE  ~Owner(i)
  <2>1. ~heap[head[i].data].live
    BY <1>1 DEF Inv, Apart
  <2>2. ASSUME Owner(i) PROVE heap[head[i].data].live
    <3>1. Intact(i)
      BY <1>1, <2>2 DEF Inv, Ownership, Owned
    <3> QED
      BY <3>1 DEF Intact
  <2> QED
    BY <2>1, <2>2
<1>2. ASSUME Inv, Next, phase # "fault",
             NEW n \in Q!Queued \cap nodes, n \in (Q!Queued \ nodes)'
      PROVE  \E i \in DOMAIN head : head[i].data = n /\ ~Owner(i)
  <2>1. n \in QP!Queued \cap nodes /\ n \notin nodes' /\ n \in QP!Queued'
    BY <1>2 DEF Q!Queued, QP!Queued
  <2>2. PICK i \in DOMAIN head : head[i].data = n
    BY <1>2, <2>1, NodeFreed DEF Inv
  <2> QED
    BY <1>1, <1>2, <2>2
<1>3. Inv /\ [Next]_vars =>
        [\A n \in Q!Queued \cap nodes :
           n \in (Q!Queued \ nodes)' /\ phase # "fault" =>
             \E i \in DOMAIN head : head[i].data = n /\ ~Owner(i)]_vars
  BY <1>2
<1> QED
  BY <1>3, Invariance, PTL DEF Spec, ListFreedByStaleOnly

-----------------------------------------------------------------------------
(* Where the memory of messages is lost *)

Lossy == \A b \in Block : ~Orphan(b) /\ Orphan(b)' => Q!QueueFull \/ phase' = "fault"

Listed(b) == \E i \in DOMAIN head : head[i].data = b

LEMMA ListedKeeps ==
  ASSUME \A b \in Block : heap'[b].live => (heap[b].live /\ (Listed(b) => Listed(b)')) \/ Listed(b)'
  PROVE  Lossy
BY DEF Lossy, Orphan, Listed

\* A push lists the block, or finds the list full.
LEMMA PushListed ==
  ASSUME QP!Inv, NEW b \in Block, NEW h \in BOOLEAN, Q!msg_push(b, h)
  PROVE  \/ Q!QueueFull \/ phase' = "fault"
         \/ Listed(b)' /\ \A x \in Block : Listed(x) => Listed(x)'
<1>1. CASE QP!push_kept(b, h)
  <2>1. /\ QP!ListSound' /\ Len(head') = Len(head) + 1
        /\ \A i \in DOMAIN head : head'[i + 1] = head[i]
    BY <1>1, Limits, HeadFacts, QP!PushKeepsList
  <2>2. DOMAIN head = 1 .. Len(head) /\ DOMAIN head' = 1 .. Len(head) + 1 /\ Len(head) \in Nat
    BY <2>1, HeadFacts DEF QP!ListSound
  <2>3. PICK n \in Block : head' = QP!Cons(QP!NewNode(n, b, h), head)
    BY <1>1 DEF QP!push_kept
  <2>4. head'[1].data = b
    <3> DEFINE e == QP!NewNode(n, b, h)
    <3>1. e \in QP!MsgNode /\ e.data = b
      BY DEF QP!NewNode, QP!MsgNode
    <3>2. head \in Seq(QP!MsgNode) /\ head' = QP!Cons(e, head)
      BY <2>3, HeadFacts
    <3> HIDE DEF e
    <3>3. QP!Cons(e, head)[1] = e
      BY <3>1, <3>2 DEF QP!Cons
    <3> QED
      BY <3>1, <3>2, <3>3
  <2>5. Listed(b)'
    BY <2>2, <2>4 DEF Listed
  <2>6. ASSUME NEW x \in Block, NEW i \in DOMAIN head, head[i].data = x PROVE Listed(x)'
    <3>1. i + 1 \in DOMAIN head'
      BY <2>2
    <3> QED
      BY <2>1, <2>6, <3>1 DEF Listed
  <2> QED
    BY <2>5, <2>6 DEF Listed
<1> QED
  BY <1>1, SameQueue DEF QP!msg_push, QP!push_discarded, QP!push_faults, QP!QueueFull,
       Q!QueueFull

\* A removal unlists only what it frees.
LEMMA RemovalListed ==
  ASSUME QP!Inv, Types, NEW r \in DOMAIN head,
         nodes' \subseteq nodes,
         head' = QP!RemoveAt(head, r),
         list_length' = list_length - 1,
         free(head[r].data), UNCHANGED seq
  PROVE  Lossy
<1>1. /\ QP!ListSound' /\ Len(head') = Len(head) - 1
      /\ \A i \in DOMAIN head' : head'[i] = IF i < r THEN head[i] ELSE head[i + 1]
  BY HeadFacts, QP!RemovalKeepsList, Limits
<1>2. DOMAIN head = 1 .. Len(head) /\ Len(head) \in Nat /\ DOMAIN head' = 1 .. Len(head) - 1
  BY <1>1, HeadFacts DEF QP!ListSound
<1>3. head[r].data \in Block /\ ~heap'[head[r].data].live
      /\ \A x \in Block : x # head[r].data => heap'[x] = heap[x]
  BY HeadFacts, FreeFacts
<1>4. ASSUME NEW b \in Block, b # head[r].data, NEW i \in DOMAIN head, head[i].data = b
      PROVE  Listed(b)'
  <2>1. CASE i < r
    <3>1. i \in DOMAIN head' /\ head'[i] = head[i]
      BY <1>1, <1>2, <2>1
    <3> QED
      BY <1>4, <3>1 DEF Listed
  <2>2. CASE r < i
    <3>1. i - 1 \in DOMAIN head' /\ ~ i - 1 < r /\ (i - 1) + 1 = i
      BY <1>2, <2>2
    <3>2. head'[i - 1] = head[i]
      BY <1>1, <3>1
    <3> QED
      BY <1>4, <3>1, <3>2 DEF Listed
  <2>3. i # r
    BY <1>4
  <2> QED
    BY <1>2, <2>1, <2>2, <2>3
<1>5. ASSUME NEW b \in Block, heap'[b].live
      PROVE  heap[b].live /\ (Listed(b) => Listed(b)')
  <2>1. b # head[r].data
    BY <1>3, <1>5
  <2>2. heap'[b] = heap[b]
    BY <1>3, <2>1
  <2>3. Listed(b) => Listed(b)'
    BY <1>4, <2>1 DEF Listed
  <2> QED
    BY <1>5, <2>2, <2>3
<1> QED
  BY <1>5, ListedKeeps

LEMMA NextLoses == Inv /\ [Next]_vars => [Lossy]_vars
<1> SUFFICES ASSUME Inv, Next PROVE Lossy
  OBVIOUS
<1> USE DEF Inv
<1>1. ASSUME NEW b \in Block, NEW h \in BOOLEAN, NEW heaps, push(b, h, heaps),
             \A h1 \in heaps : h1 \in Heaps /\ \A x \in Block : x # b => h1[x] = heap[x]
      PROVE  Lossy
  <2>1. Q!msg_push(b, h) /\ \A x \in Block : x # b /\ heap'[x].live => heap[x].live
    BY <1>1, PushFacts
  <2>2. \/ Q!QueueFull \/ phase' = "fault"
        \/ Listed(b)' /\ \A x \in Block : Listed(x) => Listed(x)'
    BY <2>1, PushListed
  <2> QED
    BY <2>1, <2>2, ListedKeeps DEF Lossy
<1>2. ASSUME NEW c \in Cmd, NEW h \in BOOLEAN,
             eat_msg_send_packed(c) \/ socket_sendDataWaitAck(c, h)
      PROVE  Lossy
  <2>1. CASE eat_msg_send_packed(c)
    <3>1. PICK b \in Block : push(b, FALSE, alloc_msg(b, c))
      BY <2>1 DEF eat_msg_send_packed
    <3>2. \A h1 \in alloc_msg(b, c) : h1 \in Heaps /\ \A x \in Block : x # b => h1[x] = heap[x]
      BY AllocFacts
    <3> QED
      BY <1>1, <3>1, <3>2
  <2>2. CASE socket_sendDataWaitAck(c, h)
    <3>1. PICK b \in Block : push(b, h, alloc_and_free(b, c))
      BY <2>2 DEF socket_sendDataWaitAck
    <3>2. \A h1 \in alloc_and_free(b, c) :
            h1 \in Heaps /\ \A x \in Block : x # b => h1[x] = heap[x]
      BY AllocFreeFacts
    <3> QED
      BY <1>1, <3>1, <3>2
  <2> QED
    BY <1>2, <2>1, <2>2
<1>3. ASSUME NEW c \in Cmd, eat_send_heartbeat \/ socket_sendDataDirectly(c) PROVE Lossy
  <2>1. head' = head
    BY <1>3 DEF eat_send_heartbeat, socket_sendDataDirectly, passing
  <2>2. CASE \E b \in Block, d \in Cmd : passing(b, d)
    BY <2>1, <2>2, PassingFacts, ListedKeeps DEF Listed
  <2>3. CASE UNCHANGED heap
    BY <2>1, <2>3, ListedKeeps DEF Listed
  <2> QED
    BY <1>3, <2>2, <2>3, DeliveryAssumption DEF eat_send_heartbeat, socket_sendDataDirectly
<1>4. CASE msg_resend \/ resend_end
  BY <1>4, ListedKeeps DEF msg_resend, resend_end, Q!resend_start, Q!resend_end, Listed
<1>5. CASE eat_msg_send \/ resend_failed_handler
  <2>1. iter \in DOMAIN head /\ head' = [head EXCEPT ![iter].resend_times = @ + 1]
    BY <1>5 DEF eat_msg_send, resend_failed_handler, Q!visit_send, Q!visit_call, Q!AtNode
  <2>2. DOMAIN head' = DOMAIN head /\ \A i \in DOMAIN head : head'[i].data = head[i].data
    BY <2>1, HeadFacts DEF QP!MsgNode
  <2>3. \A b \in Block : Listed(b) => Listed(b)'
    BY <2>2 DEF Listed
  <2>4. CASE eat_msg_send
    <3>1. free(head[iter].data) /\ UNCHANGED seq
      BY <2>4 DEF eat_msg_send
    <3>2. head[iter].data \in Block
      BY <2>1, HeadFacts
    <3>3. ~heap'[head[iter].data].live /\ \A x \in Block : x # head[iter].data => heap'[x] = heap[x]
      BY <3>1, <3>2, FreeFacts
    <3>4. \A b \in Block : heap'[b].live => heap[b].live
      BY <3>3
    <3> QED
      BY <2>3, <3>4, ListedKeeps
  <2>5. CASE resend_failed_handler
    BY <2>3, <2>5, ListedKeeps DEF resend_failed_handler
  <2> QED
    BY <1>5, <2>4, <2>5
<1>6. CASE expire
  <2>1. /\ iter \in DOMAIN head /\ QP!drop /\ free(head[iter].data) /\ UNCHANGED seq
    BY <1>6, SameQueue DEF expire, QP!visit_drop, QP!callback_return, QP!AtNode, QP!Inv,
         QP!IterSound
  <2> QED
    BY <2>1, RemovalListed DEF QP!drop
<1>7. ASSUME NEW ack \in Header, msg_ack(ack) PROVE Lossy
  <2> DEFINE hits == {b \in Block : heap[b].msg = ack}
  <2>1. PICK r \in DOMAIN head :
          /\ Q!FirstHit(r, hits)
          /\ nodes' \subseteq nodes
          /\ head' = QP!RemoveAt(head, r)
    BY <1>7 DEF msg_ack, Q!msg_ack, Q!RemoveAt, QP!RemoveAt
  <2>2. PICK q \in DOMAIN head : Q!FirstHit(q, hits) /\ free(head[q].data)
    BY <1>7 DEF msg_ack
  <2>3. DOMAIN head = 1 .. Len(head) /\ Len(head) \in Nat
    BY HeadFacts
  <2>4. ~ q < r /\ ~ r < q
    BY <2>1, <2>2, <2>3 DEF Q!FirstHit
  <2>5. q = r
    BY <2>3, <2>4
  <2>6. list_length' = list_length - 1 /\ UNCHANGED seq
    BY <1>7 DEF msg_ack, Q!msg_ack
  <2> QED
    BY <2>1, <2>2, <2>5, <2>6, RemovalListed
<1>8. CASE reboot
  BY <1>8, ListedKeeps DEF reboot
<1>9. CASE list_overwritten
  BY <1>9 DEF list_overwritten, Q!list_overwritten, Lossy
<1> QED
  BY <1>2, <1>3, <1>4, <1>5, <1>6, <1>7, <1>8, <1>9, DeliveryAssumption DEF Next

\* A message's memory is lost by a push that finds the list full, or on the way
\* to a reset, and by nothing else.
THEOREM OrphanTheorem == Spec => OrphansOnlyWhenFull
<1>1. Inv /\ [Next]_vars =>
        [\A b \in Block : ~Orphan(b) /\ Orphan(b)' => Q!QueueFull \/ phase' = "fault"]_vars
  BY NextLoses DEF Lossy
<1> QED
  BY <1>1, Invariance, PTL DEF Spec, OrphansOnlyWhenFull

-----------------------------------------------------------------------------
(* The retry buffer *)

\* Both instances of MsgQueue map to the same buffer.
LEMMA SameBuffer ==
  /\ QP!Buffer!Init => Q!Buffer!Init
  /\ [QP!Buffer!Next]_(QP!Buffer!vars) => [Q!Buffer!Next]_(Q!Buffer!vars)
<1> USE DEF QP!Queued, Q!Queued, QP!Transmitted, Q!Transmitted
<1>1. QP!Buffer!Init => Q!Buffer!Init
  BY DEF QP!Buffer!Init, Q!Buffer!Init
<1>2. UNCHANGED QP!Buffer!vars => UNCHANGED Q!Buffer!vars
  BY DEF QP!Buffer!vars, Q!Buffer!vars
<1>3. ASSUME NEW e \in Block PROVE QP!Buffer!Accept(e) => Q!Buffer!Accept(e)
  BY DEF QP!Buffer!Accept, Q!Buffer!Accept, QP!Buffer!Held, Q!Buffer!Held,
       QP!Buffer!Cardinality, Q!Buffer!Cardinality
<1>4. ASSUME NEW e \in Block PROVE QP!Buffer!Ack(e) => Q!Buffer!Ack(e)
  BY DEF QP!Buffer!Ack, Q!Buffer!Ack, QP!Buffer!Held, Q!Buffer!Held,
       QP!Buffer!Without, Q!Buffer!Without
<1>5. ASSUME NEW e \in Block PROVE QP!Buffer!Transmit(e) => Q!Buffer!Transmit(e)
  BY DEF QP!Buffer!Transmit, Q!Buffer!Transmit
<1>6. ASSUME NEW e \in Block PROVE QP!Buffer!Expire(e) => Q!Buffer!Expire(e)
  BY DEF QP!Buffer!Expire, Q!Buffer!Expire, QP!Buffer!Held, Q!Buffer!Held,
       QP!Buffer!Without, Q!Buffer!Without
<1>7. /\ QP!Buffer!BeginFlush => Q!Buffer!BeginFlush
      /\ QP!Buffer!EndFlush => Q!Buffer!EndFlush
      /\ QP!Buffer!Reset => Q!Buffer!Reset
  BY DEF QP!Buffer!BeginFlush, Q!Buffer!BeginFlush, QP!Buffer!EndFlush,
       Q!Buffer!EndFlush, QP!Buffer!Reset, Q!Buffer!Reset, QP!Buffer!Held, Q!Buffer!Held
<1> QED
  BY <1>1, <1>2, <1>3, <1>4, <1>5, <1>6, <1>7 DEF QP!Buffer!Next, Q!Buffer!Next

\* A step of Delivery is one of the buffer, or none; a fault leaves the buffer.
LEMMA BufferSteps ==
  QP!RInv /\ [Next]_vars => QP!RInv' /\ [QP!Buffer!Next]_(QP!Buffer!vars)
<1> SUFFICES ASSUME QP!RInv, [Next]_vars
             PROVE  QP!RInv' /\ [QP!Buffer!Next]_(QP!Buffer!vars)
  OBVIOUS
<1> DEFINE qvars == <<head, list_length, nodes, phase, iter>>
<1>1. QP!Inv'
  BY QueueInv DEF QP!RInv
<1>2. CASE [QP!Next]_qvars
  BY <1>1, <1>2, Limits, QP!NextKeepsCalled, QP!NextMaps DEF QP!vars, QP!RInv
<1>3. CASE UNCHANGED <<head, list_length, nodes, iter>> /\ phase' \in {phase, "fault"}
  <2>1. QP!CalledSpent'
    BY <1>3 DEF QP!RInv, QP!CalledSpent, QP!Spent
  <2>2. UNCHANGED QP!Buffer!vars
    BY <1>3, Limits, QP!SameBuffer
  <2> QED
    BY <1>1, <2>1, <2>2 DEF QP!RInv
<1> QED
  BY <1>2, <1>3, QueueSteps

\* The queue implements the retry buffer with the commands, the heap and the
\* handlers around it, until somebody writes over the list: that eat_msg_send
\* frees what the queue still points to disturbs what is sent, and may free the
\* memory of a listed node.  It does not disturb which entries are kept,
\* transmitted and expired, nor how often, before that memory is given out again.
THEOREM DeliveryRefines == Spec => Q!Refines
<1>1. Init => QP!RInv /\ QP!Buffer!Init
  BY SameQueue, Limits, QP!InitInv, QP!InitMaps
     DEF Init, QP!RInv, QP!CalledSpent, QP!Init
<1> QED
  BY <1>1, BufferSteps, SameBuffer, PTL DEF Spec, Q!Refines, Q!Buffer!Spec
=============================================================================
