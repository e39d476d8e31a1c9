--------------------------- MODULE MsgQueueProofs ---------------------------
(***************************************************************************)
(* Theorems about MsgQueue, for every number of nodes and data pointers,   *)
(* every MAX_RETRY_TIME and every MAX_MSG_LIST_LENGTH.                     *)
(***************************************************************************)
EXTENDS MsgQueue, TLAPS

-----------------------------------------------------------------------------
(* The two operations of the list *)

\* list_add: the new entry is the first, the others move up by one.
LEMMA ConsFacts ==
  ASSUME NEW S, NEW s \in Seq(S), NEW e \in S
  PROVE  /\ Cons(e, s) \in Seq(S)
         /\ Len(Cons(e, s)) = Len(s) + 1
         /\ Cons(e, s)[1] = e
         /\ \A i \in 1 .. Len(s) : Cons(e, s)[i + 1] = s[i]
BY DEF Cons

\* list_del: the entries before the deleted one stay, those behind it move down.
LEMMA RemoveAtFacts ==
  ASSUME NEW S, NEW s \in Seq(S), NEW k \in DOMAIN s
  PROVE  /\ RemoveAt(s, k) \in Seq(S)
         /\ Len(RemoveAt(s, k)) = Len(s) - 1
         /\ \A i \in 1 .. Len(s) - 1 :
              RemoveAt(s, k)[i] = IF i < k THEN s[i] ELSE s[i + 1]
<1> DEFINE front == SubSeq(s, 1, k - 1)
           back == SubSeq(s, k + 1, Len(s))
<1>1. k \in 1 .. Len(s) /\ Len(s) \in Nat
  OBVIOUS
<1>2. /\ front \in Seq(S) /\ Len(front) = k - 1
      /\ \A i \in 1 .. k - 1 : front[i] = s[i]
  BY <1>1
<1>3. /\ back \in Seq(S) /\ Len(back) = Len(s) - k
      /\ \A i \in 1 .. Len(s) - k : back[i] = s[i + k]
  BY <1>1
<1>4. RemoveAt(s, k) = front \o back
  BY DEF RemoveAt
<1> HIDE DEF front, back
<1>5. /\ front \o back \in Seq(S)
      /\ Len(front \o back) = Len(front) + Len(back)
      /\ \A i \in 1 .. Len(front) + Len(back) :
           (front \o back)[i] = IF i <= Len(front) THEN front[i] ELSE back[i - Len(front)]
  BY <1>2, <1>3
<1>6. ASSUME NEW i \in 1 .. Len(s) - 1
      PROVE  (front \o back)[i] = IF i < k THEN s[i] ELSE s[i + 1]
  <2>1. CASE i < k
    BY <2>1, <1>1, <1>2, <1>3, <1>5
  <2>2. CASE ~ i < k
    <3>1. i - Len(front) \in 1 .. Len(s) - k /\ (i - Len(front)) + k = i + 1
      BY <2>2, <1>1, <1>2
    <3>2. i \in 1 .. Len(front) + Len(back) /\ ~ i <= Len(front)
      BY <2>2, <1>1, <1>2, <1>3
    <3>3. (front \o back)[i] = back[i - Len(front)]
      BY <3>2, <1>5
    <3> QED
      BY <3>1, <3>3, <2>2, <1>3
  <2> QED
    BY <2>1, <2>2
<1>7. Len(front \o back) = Len(s) - 1
  BY <1>1, <1>2, <1>3, <1>5
<1> QED
  BY <1>4, <1>5, <1>6, <1>7

-----------------------------------------------------------------------------
(* The list, its counter and its memory *)

\* No node is listed twice.  That a listed node is among nodes is not so: the
\* free of a message may have released its memory (MsgQueue).
NodesSound == \A i, j \in DOMAIN head : head[i].node = head[j].node => i = j

\* What holds of the three between any two steps, wherever the thread is.
ListSound ==
  /\ head \in Seq(MsgNode)
  /\ list_length \in Nat
  /\ nodes \in SUBSET Node
  /\ CountMatches
  /\ QueueBound
  /\ NodesSound

\* What a listed node is.
LEMMA ListedFacts ==
  ASSUME ListSound
  PROVE  /\ head \in Seq(MsgNode) /\ DOMAIN head = 1 .. Len(head) /\ Len(head) \in Nat
         /\ \A k \in DOMAIN head : head[k] \in MsgNode /\ head[k].resend_times \in Nat
<1>1. head \in Seq(MsgNode) /\ \A m \in MsgNode : m.resend_times \in Nat
  BY DEF ListSound, MsgNode
<1>2. \A k \in DOMAIN head : head[k] \in MsgNode
  BY <1>1
<1> QED
  BY <1>1, <1>2

\* A push that finds room keeps the list sound.
LEMMA PushKeepsList ==
  ASSUME ListSound, NEW d \in Data, NEW h \in BOOLEAN, push_kept(d, h)
  PROVE  /\ ListSound'
         /\ Len(head') = Len(head) + 1
         /\ head'[1].resend_times = 0
         /\ \A i \in DOMAIN head : head'[i + 1] = head[i]
         /\ nodes' \ Queued' \subseteq nodes \ Queued
         /\ Queued' \ Queued \subseteq nodes' \ nodes
<1> USE LengthAssumption
<1>1. PICK n \in Node \ (nodes \cup Queued) :
        /\ nodes' = nodes \cup {n}
        /\ head' = Cons(NewNode(n, d, h), head)
  BY DEF push_kept
<1>2. NewNode(n, d, h) \in MsgNode
  BY DEF NewNode, MsgNode
<1>3. /\ head' \in Seq(MsgNode)
      /\ Len(head') = Len(head) + 1
      /\ head'[1] = NewNode(n, d, h)
      /\ \A i \in 1 .. Len(head) : head'[i + 1] = head[i]
  <2> DEFINE e == NewNode(n, d, h)
  <2>1. head \in Seq(MsgNode) /\ e \in MsgNode
    BY <1>2 DEF ListSound
  <2> HIDE DEF e
  <2>2. /\ Cons(e, head) \in Seq(MsgNode)
        /\ Len(Cons(e, head)) = Len(head) + 1
        /\ Cons(e, head)[1] = e
        /\ \A i \in 1 .. Len(head) : Cons(e, head)[i + 1] = head[i]
    BY <2>1, ConsFacts
  <2>3. head' = Cons(e, head)
    BY <1>1 DEF e
  <2> QED
    BY <2>2, <2>3 DEF e
<1>4. head \in Seq(MsgNode) /\ Len(head) \in Nat /\ DOMAIN head = 1 .. Len(head)
  BY DEF ListSound
<1>5. list_length' = list_length + 1 /\ CountMatches' /\ list_length' \in Nat
  BY <1>3, <1>4 DEF ListSound, CountMatches, push_kept
<1>6. QueueBound'
  BY <1>3, <1>4 DEF ListSound, CountMatches, QueueBound, QueueFull, push_kept
<1>7. DOMAIN head' = {1} \cup {i + 1 : i \in DOMAIN head}
  <2>1. DOMAIN head' = 1 .. Len(head) + 1
    BY <1>3
  <2>2. \A m \in Nat : 1 .. m + 1 = {1} \cup {i + 1 : i \in 1 .. m}
    <3> SUFFICES ASSUME NEW m \in Nat, NEW x
                 PROVE  x \in 1 .. m + 1 <=> x = 1 \/ \E i \in 1 .. m : x = i + 1
      OBVIOUS
    <3>1. x \in 2 .. m + 1 => x - 1 \in 1 .. m /\ x = (x - 1) + 1
      OBVIOUS
    <3> QED
      BY <3>1
  <2> QED
    BY <2>1, <2>2, <1>4
<1>8. NodesSound'
  <2>1. head'[1].node = n /\ \A i \in DOMAIN head : head'[i + 1].node = head[i].node
    BY <1>3, <1>4 DEF NewNode
  <2>2. \A i \in DOMAIN head : head[i].node # n
    BY <1>1 DEF Queued
  <2>3. \A i, j \in DOMAIN head : head[i].node = head[j].node => i = j
    BY DEF ListSound, NodesSound
  <2> QED
    BY <2>1, <2>2, <2>3, <1>7 DEF NodesSound
<1>9. nodes' \in SUBSET Node
  BY <1>1 DEF ListSound
<1>10. nodes' \ Queued' \subseteq nodes \ Queued
  <2>1. n \in Queued'
    BY <1>3, <1>7 DEF Queued, NewNode
  <2>2. Queued \subseteq Queued'
    BY <1>3, <1>4, <1>7 DEF Queued
  <2> QED
    BY <2>1, <2>2, <1>1
<1>11. Queued' \ Queued \subseteq nodes' \ nodes
  <2>1. \A i \in DOMAIN head' : head'[i].node \in Queued \cup {n}
    BY <1>3, <1>4, <1>7 DEF Queued, NewNode
  <2> QED
    BY <2>1, <1>1 DEF Queued
<1> QED
  BY <1>3, <1>4, <1>5, <1>6, <1>8, <1>9, <1>10, <1>11 DEF ListSound, NewNode

\* Taking a node out, by expiry or acknowledgement, keeps the list sound.
LEMMA RemovalKeepsList ==
  ASSUME ListSound, NEW k \in DOMAIN head,
         nodes' \subseteq nodes,
         head' = RemoveAt(head, k),
         list_length' = list_length - 1
  PROVE  /\ ListSound'
         /\ Len(head') = Len(head) - 1
         /\ \A i \in DOMAIN head' : head'[i] = IF i < k THEN head[i] ELSE head[i + 1]
         /\ Queued \subseteq Queued' \cup {head[k].node}
<1>1. /\ head \in Seq(MsgNode) /\ Len(head) \in Nat /\ DOMAIN head = 1 .. Len(head)
      /\ k \in 1 .. Len(head)
  BY DEF ListSound
<1>2. /\ head' \in Seq(MsgNode)
      /\ Len(head') = Len(head) - 1
      /\ DOMAIN head' = 1 .. Len(head) - 1
      /\ \A i \in DOMAIN head' : head'[i] = IF i < k THEN head[i] ELSE head[i + 1]
  <2>1. /\ RemoveAt(head, k) \in Seq(MsgNode)
        /\ Len(RemoveAt(head, k)) = Len(head) - 1
        /\ \A i \in 1 .. Len(head) - 1 :
             RemoveAt(head, k)[i] = IF i < k THEN head[i] ELSE head[i + 1]
    BY <1>1, RemoveAtFacts
  <2>2. DOMAIN head' = 1 .. Len(head')
    BY <2>1
  <2> QED
    BY <2>1, <2>2
<1>3. list_length' \in Nat /\ CountMatches' /\ QueueBound' /\ nodes' \in SUBSET Node
  BY <1>1, <1>2, LengthAssumption DEF ListSound, CountMatches, QueueBound
<1>4. \A i, j \in DOMAIN head : head[i].node = head[j].node => i = j
  BY DEF ListSound, NodesSound
<1>5. \A i, j \in DOMAIN head' : head'[i].node = head'[j].node => i = j
  BY <1>1, <1>2, <1>4
<1>8. ASSUME NEW j \in DOMAIN head, j # k PROVE \E i \in DOMAIN head' : head'[i] = head[j]
  <2>1. CASE j < k
    BY <2>1, <1>1, <1>2
  <2>2. CASE j > k
    <3>1. j - 1 \in DOMAIN head' /\ ~ j - 1 < k /\ (j - 1) + 1 = j
      BY <2>2, <1>1, <1>2
    <3> QED
      BY <3>1, <1>2
  <2> QED
    BY <1>1, <1>8, <2>1, <2>2
<1>9. Queued \subseteq Queued' \cup {head[k].node}
  BY <1>8 DEF Queued
<1>10. NodesSound'
  BY <1>5 DEF NodesSound
<1> QED
  BY <1>2, <1>3, <1>9, <1>10 DEF ListSound

\* Counting a transmission keeps the list sound.
LEMMA CountingKeepsList ==
  ASSUME ListSound, NEW k \in DOMAIN head,
         head' = [head EXCEPT ![k].resend_times = @ + 1],
         nodes' \subseteq nodes,
         UNCHANGED list_length
  PROVE  /\ ListSound'
         /\ Len(head') = Len(head)
         /\ head'[k].resend_times = head[k].resend_times + 1
         /\ head'[k].pfn = head[k].pfn
         /\ \A i \in DOMAIN head : i # k => head'[i] = head[i]
         /\ Queued' = Queued
<1>1. head \in Seq(MsgNode) /\ DOMAIN head = 1 .. Len(head) /\ head[k] \in MsgNode
  BY DEF ListSound
<1>2. head' = [head EXCEPT ![k] = [head[k] EXCEPT !.resend_times = head[k].resend_times + 1]]
  OBVIOUS
<1>3. [head[k] EXCEPT !.resend_times = head[k].resend_times + 1] \in MsgNode
  BY <1>1 DEF MsgNode
<1>4. /\ head' \in Seq(MsgNode) /\ Len(head') = Len(head) /\ DOMAIN head' = DOMAIN head
      /\ \A i \in DOMAIN head : i # k => head'[i] = head[i]
  BY <1>1, <1>2, <1>3
<1>5. /\ head'[k].resend_times = head[k].resend_times + 1
      /\ head'[k].pfn = head[k].pfn
      /\ head'[k].node = head[k].node
  BY <1>1, <1>2 DEF MsgNode
<1>6. \A i \in DOMAIN head : head'[i].node = head[i].node
  BY <1>4, <1>5
<1>7. Queued' = Queued
  BY <1>4, <1>6 DEF Queued
<1>8. NodesSound'
  BY <1>4, <1>6 DEF ListSound, NodesSound
<1> QED
  BY <1>4, <1>5, <1>7, <1>8 DEF ListSound, CountMatches, QueueBound

-----------------------------------------------------------------------------
(* The inductive invariant *)

\* The walk's position is in the list while it serves a node, and beyond its
\* end at most by one.
IterSound ==
  /\ phase = "idle" => iter = 0
  /\ phase = "walk" => iter \in 1 .. Len(head) + 1
  /\ phase = "callback" => iter \in DOMAIN head

\* A node is visited for transmission MAX_RETRY_TIME + 1 times, and once more
\* to expire.
TransmissionsBounded ==
  \A i \in DOMAIN head :
    \/ head[i].resend_times <= MAX_RETRY_TIME + 1
    \/ /\ phase \in {"callback", "fault"} /\ i = iter
       /\ head[i].resend_times = MAX_RETRY_TIME + 2

\* Where the thread is, and what the walk knows of the list it is in.  AgeOrder
\* is inductive only with the others: that a drop keeps it needs iter to be the
\* position dropped, and that the end of a walk keeps it needs iter to be just
\* behind the list.
Inv ==
  /\ ListSound
  /\ phase \in Phase
  /\ iter \in Nat
  /\ IterSound
  /\ TransmissionsBounded
  /\ AgeOrder

\* Transmissions are counted up to MAX_RETRY_TIME + 1 and compared as numbers.
LEMMA TransmittedFacts ==
  ASSUME NEW m \in MsgNode
  PROVE  /\ Transmitted(m) \in Nat
         /\ Transmitted(m) <= MAX_RETRY_TIME + 1
         /\ m.resend_times <= MAX_RETRY_TIME + 1 => Transmitted(m) = m.resend_times
         /\ Spent(m) => Transmitted(m) = MAX_RETRY_TIME + 1
BY RetryAssumption DEF Transmitted, Spent, MsgNode

LEMMA InitInv == Init => Inv
<1> SUFFICES ASSUME Init PROVE Inv
  OBVIOUS
<1>1. head = <<>> /\ DOMAIN head = {} /\ Len(head) = 0 /\ list_length = 0 /\ nodes = {}
  BY DEF Init
<1>2. ListSound
  BY <1>1, LengthAssumption DEF ListSound, CountMatches, QueueBound, NodesSound, Queued
<1> QED
  BY <1>1, <1>2 DEF Inv, Init, Phase, IterSound, TransmissionsBounded, AgeOrder

\* A fault stops the thread where it is.
LEMMA FaultKeepsInv ==
  ASSUME Inv, UNCHANGED <<head, list_length, nodes, iter>>, phase' = "fault"
  PROVE  Inv'
<1> USE DEF Inv
<1>1. ListSound'
  BY DEF ListSound, CountMatches, QueueBound, NodesSound
<1>2. IterSound' /\ phase' \in Phase
  BY DEF IterSound, Phase
<1>3. TransmissionsBounded'
  BY DEF TransmissionsBounded
<1>4. AgeOrder'
  BY DEF AgeOrder, Transmitted
<1> QED
  BY <1>1, <1>2, <1>3, <1>4

\* A push shifts every position, and iter with them.
LEMMA PushKeepsInv ==
  ASSUME Inv, NEW d \in Data, NEW h \in BOOLEAN, msg_push(d, h)
  PROVE  Inv'
<1> USE DEF Inv
<1>1. head \in Seq(MsgNode) /\ DOMAIN head = 1 .. Len(head) /\ Len(head) \in Nat
  BY DEF ListSound
<1>2. CASE push_kept(d, h)
  <2>1. /\ ListSound'
        /\ Len(head') = Len(head) + 1
        /\ head'[1].resend_times = 0
        /\ \A i \in DOMAIN head : head'[i + 1] = head[i]
    BY <1>2, PushKeepsList
  <2>2. /\ phase' = phase /\ phase \in {"idle", "callback"}
        /\ iter' = IF phase = "callback" THEN iter + 1 ELSE iter
        /\ iter' \in Nat
    BY <1>2 DEF push_kept, msg_push, CallerRuns
  <2>3. /\ DOMAIN head' = 1 .. Len(head) + 1
        /\ \A i \in DOMAIN head' : i = 1 \/ (i - 1 \in DOMAIN head /\ head'[i] = head[i - 1])
    <3>1. head' \in Seq(MsgNode)
      BY <2>1 DEF ListSound
    <3>2. DOMAIN head' = 1 .. Len(head) + 1
      BY <3>1, <2>1
    <3>3. ASSUME NEW i \in DOMAIN head', i # 1
          PROVE  i - 1 \in DOMAIN head /\ head'[i] = head[i - 1]
      <4>1. i - 1 \in DOMAIN head /\ (i - 1) + 1 = i
        BY <3>2, <3>3, <1>1
      <4> QED
        BY <4>1, <2>1
    <3> QED
      BY <3>2, <3>3
  <2>4. IterSound'
    BY <2>1, <2>2, <2>3, <1>1 DEF IterSound
  <2>5. TransmissionsBounded'
    <3> SUFFICES ASSUME NEW i \in DOMAIN head'
                 PROVE  \/ head'[i].resend_times <= MAX_RETRY_TIME + 1
                        \/ /\ phase' \in {"callback", "fault"} /\ i = iter'
                           /\ head'[i].resend_times = MAX_RETRY_TIME + 2
      BY DEF TransmissionsBounded
    <3>1. CASE i = 1
      BY <3>1, <2>1, RetryAssumption
    <3>2. CASE i # 1
      BY <3>2, <2>2, <2>3, <1>1 DEF TransmissionsBounded
    <3> QED
      BY <3>1, <3>2
  <2>6. AgeOrder'
    <3> SUFFICES ASSUME NEW i \in DOMAIN head', NEW j \in DOMAIN head', i <= j
                 PROVE  Transmitted(head'[i]) <=
                          Transmitted(head'[j]) + (IF i < iter' /\ iter' <= j THEN 1 ELSE 0)
      BY DEF AgeOrder, Transmitted
    <3>1. head'[i] \in MsgNode /\ head'[j] \in MsgNode
      BY <2>1 DEF ListSound
    <3>2. CASE i = 1
      BY <3>1, <3>2, <2>1, TransmittedFacts, RetryAssumption
    <3>3. CASE i # 1
      <4>1. /\ i - 1 \in DOMAIN head /\ j - 1 \in DOMAIN head /\ i - 1 <= j - 1
            /\ head'[i] = head[i - 1] /\ head'[j] = head[j - 1]
        BY <3>3, <2>3, <1>1
      <4>2. Transmitted(head[i - 1]) <=
              Transmitted(head[j - 1]) + (IF i - 1 < iter /\ iter <= j - 1 THEN 1 ELSE 0)
        BY <4>1 DEF AgeOrder
      <4>3. (i - 1 < iter /\ iter <= j - 1) <=> (i < iter' /\ iter' <= j)
        BY <4>1, <2>2, <2>3, <1>1 DEF IterSound
      <4> QED
        BY <4>1, <4>2, <4>3
    <3> QED
      BY <3>2, <3>3
  <2> QED
    BY <2>1, <2>2, <2>4, <2>5, <2>6
<1>3. CASE push_discarded(d, h)
  <2>1. head' = head /\ list_length' = list_length /\ phase' = phase /\ iter' = iter
    BY <1>3 DEF push_discarded
  <2>2. nodes' \in SUBSET Node /\ nodes \subseteq nodes'
    BY <1>3 DEF push_discarded, ListSound
  <2>3. ListSound'
    BY <2>1, <2>2 DEF ListSound, CountMatches, QueueBound, NodesSound, Queued
  <2> QED
    BY <2>1, <2>3 DEF IterSound, TransmissionsBounded, AgeOrder, Transmitted
<1>4. CASE push_faults(d)
  BY <1>4, FaultKeepsInv DEF push_faults
<1> QED
  BY <1>2, <1>3, <1>4 DEF msg_push

\* A walk starts before the first node and ends behind the last.
LEMMA WalkEdgesKeepInv ==
  ASSUME Inv, resend_start \/ resend_end
  PROVE  Inv'
<1> USE DEF Inv
<1>1. UNCHANGED <<head, list_length, nodes>>
  BY DEF resend_start, resend_end
<1>2. ListSound'
  BY <1>1 DEF ListSound, CountMatches, QueueBound, NodesSound, Queued
<1>3. head \in Seq(MsgNode) /\ DOMAIN head = 1 .. Len(head) /\ Len(head) \in Nat
  BY DEF ListSound
<1>4. phase' \in Phase /\ iter' \in Nat /\ IterSound'
  BY <1>1, <1>3 DEF resend_start, resend_end, Phase, IterSound
<1>5. TransmissionsBounded'
  BY <1>1 DEF resend_start, resend_end, TransmissionsBounded
<1>6. ASSUME NEW i \in DOMAIN head, NEW j \in DOMAIN head
      PROVE  ~(i < iter /\ iter <= j) /\ ~(i < iter' /\ iter' <= j)
  BY <1>3 DEF resend_start, resend_end, IterSound
<1>7. AgeOrder'
  BY <1>1, <1>6 DEF AgeOrder, Transmitted
<1> QED
  BY <1>2, <1>4, <1>5, <1>7

\* A transmission counts once and moves on: the node sent was at most one
\* transmission behind the nodes before it and level with those after it.
LEMMA SendKeepsInv ==
  ASSUME Inv, visit_send
  PROVE  Inv'
<1> USE DEF Inv
<1>1. /\ head \in Seq(MsgNode) /\ DOMAIN head = 1 .. Len(head) /\ Len(head) \in Nat
      /\ iter \in DOMAIN head /\ head[iter] \in MsgNode
      /\ head[iter].resend_times \in Nat
      /\ head[iter].resend_times <= MAX_RETRY_TIME
  <2>1. iter \in DOMAIN head /\ ~ head[iter].resend_times > MAX_RETRY_TIME
    BY DEF visit_send, AtNode, Spent
  <2> QED
    BY <2>1, ListedFacts, RetryAssumption
<1>2. phase' \in {"walk", "fault"} /\ phase = "walk" /\ iter' = iter + 1
  BY DEF visit_send, AtNode
<1>3. /\ ListSound'
      /\ Len(head') = Len(head)
      /\ head'[iter].resend_times = head[iter].resend_times + 1
      /\ \A i \in DOMAIN head : i # iter => head'[i] = head[i]
  BY <1>1, CountingKeepsList DEF visit_send
<1>4. head' \in Seq(MsgNode) /\ DOMAIN head' = DOMAIN head
  BY <1>1, <1>3 DEF ListSound
<1>5. phase' \in Phase /\ iter' \in Nat /\ IterSound'
  BY <1>1, <1>2, <1>3 DEF Phase, IterSound
<1>6. TransmissionsBounded'
  <2> SUFFICES ASSUME NEW i \in DOMAIN head
               PROVE  head'[i].resend_times <= MAX_RETRY_TIME + 1
    BY <1>4 DEF TransmissionsBounded
  <2>1. CASE i = iter
    BY <2>1, <1>1, <1>3, RetryAssumption
  <2>2. CASE i # iter
    BY <2>2, <1>2, <1>3 DEF TransmissionsBounded
  <2> QED
    BY <2>1, <2>2
<1>7. AgeOrder'
  <2> DEFINE T(i) == Transmitted(head[i])
             U(i) == Transmitted(head'[i])
  <2>1. \A i \in DOMAIN head : T(i) \in Nat /\ U(i) \in Nat
    BY <1>1, <1>4, TransmittedFacts
  <2>2. U(iter) = T(iter) + 1
    <3>1. head'[iter] \in MsgNode /\ head'[iter].resend_times <= MAX_RETRY_TIME + 1
      BY <1>1, <1>3, <1>4, RetryAssumption
    <3>2. head[iter].resend_times <= MAX_RETRY_TIME + 1
      BY <1>1, RetryAssumption
    <3> QED
      BY <3>1, <3>2, <1>1, <1>3, TransmittedFacts
  <2>3. \A i \in DOMAIN head : i # iter => U(i) = T(i)
    BY <1>3
  <2>4. \A i, j \in DOMAIN head :
          i <= j => T(i) <= T(j) + (IF i < iter /\ iter <= j THEN 1 ELSE 0)
    BY DEF AgeOrder
  <2> HIDE DEF T, U
  <2>5. ASSUME NEW i \in DOMAIN head, NEW j \in DOMAIN head, i <= j
        PROVE  U(i) <= U(j) + (IF i < iter' /\ iter' <= j THEN 1 ELSE 0)
    <3>1. CASE i = iter /\ j = iter
      BY <3>1, <2>1, <1>1, <1>2
    <3>2. CASE i = iter /\ j # iter
      BY <3>2, <2>1, <2>2, <2>3, <2>4, <2>5, <1>1, <1>2
    <3>3. CASE i # iter /\ j = iter
      BY <3>3, <2>1, <2>2, <2>3, <2>4, <2>5, <1>1, <1>2
    <3>4. CASE i # iter /\ j # iter
      BY <3>4, <2>1, <2>3, <2>4, <2>5, <1>1, <1>2
    <3> QED
      BY <3>1, <3>2, <3>3, <3>4
  <2> QED
    BY <2>5, <1>4 DEF AgeOrder, U, Transmitted
<1> QED
  BY <1>3, <1>5, <1>6, <1>7

\* The handler's visit counts once more, beyond what Transmitted tells apart.
LEMMA CallKeepsInv ==
  ASSUME Inv, visit_call
  PROVE  Inv'
<1> USE DEF Inv
<1>1. /\ head \in Seq(MsgNode) /\ DOMAIN head = 1 .. Len(head) /\ Len(head) \in Nat
      /\ iter \in DOMAIN head /\ head[iter] \in MsgNode
      /\ head[iter].resend_times \in Nat
      /\ Spent(head[iter]) /\ head[iter].pfn
  BY ListedFacts DEF visit_call, AtNode
<1>2. phase' = "callback" /\ phase = "walk" /\ iter' = iter
  BY DEF visit_call, AtNode
<1>3. /\ ListSound'
      /\ Len(head') = Len(head)
      /\ head'[iter].resend_times = head[iter].resend_times + 1
      /\ head'[iter].pfn = head[iter].pfn
      /\ \A i \in DOMAIN head : i # iter => head'[i] = head[i]
  BY <1>1, CountingKeepsList DEF visit_call
<1>4. head' \in Seq(MsgNode) /\ DOMAIN head' = DOMAIN head
  BY <1>1, <1>3 DEF ListSound
<1>5. phase' \in Phase /\ iter' \in Nat /\ IterSound'
  BY <1>1, <1>2, <1>3, <1>4 DEF Phase, IterSound
<1>6. head[iter].resend_times = MAX_RETRY_TIME + 1
  BY <1>1, <1>2, RetryAssumption DEF TransmissionsBounded, Spent
<1>7. TransmissionsBounded'
  <2> SUFFICES ASSUME NEW i \in DOMAIN head
               PROVE  \/ head'[i].resend_times <= MAX_RETRY_TIME + 1
                      \/ i = iter /\ head'[i].resend_times = MAX_RETRY_TIME + 2
    BY <1>2, <1>4 DEF TransmissionsBounded
  <2>1. CASE i = iter
    BY <2>1, <1>3, <1>6, RetryAssumption
  <2>2. CASE i # iter
    BY <2>2, <1>2, <1>3 DEF TransmissionsBounded
  <2> QED
    BY <2>1, <2>2
<1>8. ASSUME NEW i \in DOMAIN head
      PROVE  Transmitted(head'[i]) = Transmitted(head[i])
  <2>1. CASE i = iter
    <3>1. head'[iter] \in MsgNode /\ Spent(head'[iter])
      BY <1>1, <1>3, <1>4, <1>6, RetryAssumption DEF Spent
    <3> QED
      BY <2>1, <3>1, <1>1, TransmittedFacts
  <2>2. CASE i # iter
    BY <2>2, <1>3
  <2> QED
    BY <2>1, <2>2
<1>9. AgeOrder'
  <2> SUFFICES ASSUME NEW i \in DOMAIN head, NEW j \in DOMAIN head, i <= j
               PROVE  Transmitted(head'[i]) <=
                        Transmitted(head'[j]) + (IF i < iter /\ iter <= j THEN 1 ELSE 0)
    BY <1>2, <1>4 DEF AgeOrder, Transmitted
  <2> QED
    BY <1>8 DEF AgeOrder
<1> QED
  BY <1>3, <1>5, <1>7, <1>9

\* A list from which one node has gone keeps its order by age.  Of the positions
\* at is the walk's: the node taken, or 0.
LEMMA RemovalKeepsOrder ==
  ASSUME Inv, NEW k \in DOMAIN head, iter \in {0, k}, iter' = iter,
         ListSound',
         Len(head') = Len(head) - 1,
         \A i \in DOMAIN head' : head'[i] = IF i < k THEN head[i] ELSE head[i + 1]
  PROVE  AgeOrder'
<1> USE DEF Inv
<1>1. /\ DOMAIN head = 1 .. Len(head) /\ Len(head) \in Nat /\ k \in 1 .. Len(head)
      /\ DOMAIN head' = 1 .. Len(head) - 1
  <2>1. head' \in Seq(MsgNode)
    BY DEF ListSound
  <2> QED
    BY <2>1, ListedFacts
<1> DEFINE old(i) == IF i < k THEN i ELSE i + 1
<1>2. \A i \in DOMAIN head' : old(i) \in DOMAIN head /\ head'[i] = head[old(i)]
  BY <1>1
<1>3. ASSUME NEW i \in DOMAIN head', NEW j \in DOMAIN head', i <= j
      PROVE  /\ old(i) <= old(j)
             /\ old(i) < iter /\ iter <= old(j) => i < iter /\ iter <= j
  BY <1>1, <1>3
<1> HIDE DEF old
<1>4. ASSUME NEW i \in DOMAIN head', NEW j \in DOMAIN head', i <= j
      PROVE  Transmitted(head'[i]) <=
               Transmitted(head'[j]) + (IF i < iter /\ iter <= j THEN 1 ELSE 0)
  <2>1. /\ old(i) \in DOMAIN head /\ old(j) \in DOMAIN head /\ old(i) <= old(j)
        /\ head'[i] = head[old(i)] /\ head'[j] = head[old(j)]
    BY <1>2, <1>3, <1>4
  <2>2. Transmitted(head[old(i)]) <=
          Transmitted(head[old(j)]) + (IF old(i) < iter /\ iter <= old(j) THEN 1 ELSE 0)
    BY <2>1 DEF AgeOrder
  <2>3. Transmitted(head[old(i)]) \in Nat /\ Transmitted(head[old(j)]) \in Nat
    BY <2>1, ListedFacts, TransmittedFacts
  <2> QED
    BY <2>1, <2>2, <2>3, <1>3, <1>4
<1> QED
  BY <1>4 DEF AgeOrder, Transmitted

\* Expiry, with or without a handler.
LEMMA DropKeepsInv ==
  ASSUME Inv, phase \in {"walk", "callback"}, iter \in DOMAIN head, drop
  PROVE  Inv'
<1> USE DEF Inv
<1>1. /\ ListSound'
      /\ Len(head') = Len(head) - 1
      /\ \A i \in DOMAIN head' : head'[i] = IF i < iter THEN head[i] ELSE head[i + 1]
  BY RemovalKeepsList DEF drop
<1>2. iter' = iter /\ phase' \in {"walk", "fault"}
  BY DEF drop
<1>3. /\ DOMAIN head = 1 .. Len(head) /\ Len(head) \in Nat
      /\ DOMAIN head' = 1 .. Len(head) - 1
  <2>1. head' \in Seq(MsgNode)
    BY <1>1 DEF ListSound
  <2> QED
    BY <2>1, <1>1, ListedFacts
<1>4. phase' \in Phase /\ iter' \in Nat /\ IterSound'
  BY <1>1, <1>2, <1>3 DEF Phase, IterSound
<1>5. TransmissionsBounded'
  <2> SUFFICES ASSUME NEW i \in DOMAIN head'
               PROVE  head'[i].resend_times <= MAX_RETRY_TIME + 1
    BY DEF TransmissionsBounded
  <2>1. PICK j \in DOMAIN head : j # iter /\ head'[i] = head[j]
    <3>1. CASE i < iter
      BY <3>1, <1>1, <1>3
    <3>2. CASE ~ i < iter
      BY <3>2, <1>1, <1>3
    <3> QED
      BY <3>1, <3>2
  <2> QED
    BY <2>1 DEF TransmissionsBounded
<1>6. AgeOrder'
  BY <1>1, <1>2, RemovalKeepsOrder
<1> QED
  BY <1>1, <1>4, <1>5, <1>6

\* An acknowledgement, which comes between walks only.
LEMMA AckKeepsInv ==
  ASSUME Inv, NEW hits \in SUBSET Data, msg_ack(hits)
  PROVE  Inv'
<1> USE DEF Inv
<1>1. PICK k \in DOMAIN head :
        nodes' \subseteq nodes /\ head' = RemoveAt(head, k)
  BY DEF msg_ack
<1>2. /\ ListSound'
      /\ Len(head') = Len(head) - 1
      /\ \A i \in DOMAIN head' : head'[i] = IF i < k THEN head[i] ELSE head[i + 1]
  BY <1>1, RemovalKeepsList DEF msg_ack
<1>3. iter' = 0 /\ iter = 0 /\ phase = "idle" /\ phase' \in {"idle", "fault"}
  BY DEF msg_ack, IterSound
<1>4. phase' \in Phase /\ iter' \in Nat /\ IterSound'
  BY <1>3 DEF Phase, IterSound
<1>5. /\ DOMAIN head = 1 .. Len(head) /\ Len(head) \in Nat
      /\ DOMAIN head' = 1 .. Len(head) - 1
  <2>1. head' \in Seq(MsgNode)
    BY <1>2 DEF ListSound
  <2> QED
    BY <2>1, <1>2, ListedFacts
<1>6. TransmissionsBounded'
  <2> SUFFICES ASSUME NEW i \in DOMAIN head'
               PROVE  head'[i].resend_times <= MAX_RETRY_TIME + 1
    BY DEF TransmissionsBounded
  <2>1. PICK j \in DOMAIN head : head'[i] = head[j]
    <3>1. (i < k => i \in DOMAIN head) /\ (~ i < k => i + 1 \in DOMAIN head)
      BY <1>5
    <3> QED
      BY <3>1, <1>2
  <2> QED
    BY <2>1, <1>3 DEF TransmissionsBounded
<1>7. AgeOrder'
  BY <1>2, <1>3, RemovalKeepsOrder
<1> QED
  BY <1>2, <1>4, <1>6, <1>7

LEMMA RebootKeepsInv == reboot => Inv'
<1> SUFFICES ASSUME reboot PROVE Inv'
  OBVIOUS
<1>1. /\ head' = <<>> /\ DOMAIN head' = {} /\ Len(head') = 0
      /\ list_length' = 0 /\ nodes' = {}
  BY DEF reboot
<1>2. ListSound'
  BY <1>1, LengthAssumption DEF ListSound, CountMatches, QueueBound, NodesSound, Queued
<1> QED
  BY <1>1, <1>2 DEF Inv, reboot, Phase, IterSound, TransmissionsBounded, AgeOrder

-----------------------------------------------------------------------------
(* The theorems *)

LEMMA NextKeepsInv == Inv /\ [Next]_vars => Inv'
<1> SUFFICES ASSUME Inv, [Next]_vars PROVE Inv'
  OBVIOUS
<1>1. ASSUME NEW d \in Data, NEW h \in BOOLEAN, msg_push(d, h) PROVE Inv'
  BY <1>1, PushKeepsInv
<1>2. CASE resend_start \/ resend_end
  BY <1>2, WalkEdgesKeepInv
<1>3. CASE visit_send
  BY <1>3, SendKeepsInv
<1>4. CASE visit_call
  BY <1>4, CallKeepsInv
<1>5. CASE visit_drop
  BY <1>5, DropKeepsInv DEF visit_drop, AtNode
<1>6. CASE callback_return
  BY <1>6, DropKeepsInv DEF callback_return, Inv, IterSound
<1>7. ASSUME NEW hits \in SUBSET Data, msg_ack(hits) PROVE Inv'
  BY <1>7, AckKeepsInv
<1>8. CASE reboot \/ list_overwritten
  BY <1>8, RebootKeepsInv, FaultKeepsInv DEF list_overwritten
<1>9. CASE UNCHANGED vars
  BY <1>9 DEF vars, Inv, ListSound, CountMatches, QueueBound, NodesSound, Queued,
              IterSound, TransmissionsBounded, AgeOrder, Transmitted
<1> QED
  BY <1>1, <1>2, <1>3, <1>4, <1>5, <1>6, <1>7, <1>8, <1>9 DEF Next, resend_step

THEOREM Invariance == Spec => []Inv
BY InitInv, NextKeepsInv, PTL DEF Spec

\* Every variable keeps its type.
THEOREM TypeCorrect == Spec => []TypeOK
<1>1. Inv => TypeOK
  BY DEF Inv, ListSound, TypeOK
<1> QED
  BY <1>1, Invariance, PTL

\* msg_count() is the number of listed nodes at every point that can ask.
THEOREM CountTheorem == Spec => []CountMatches
<1>1. Inv => CountMatches
  BY DEF Inv, ListSound
<1> QED
  BY <1>1, Invariance, PTL

\* The list holds at most MAX_MSG_LIST_LENGTH + 1 nodes.
THEOREM BoundTheorem == Spec => []QueueBound
<1>1. Inv => QueueBound
  BY DEF Inv, ListSound
<1> QED
  BY <1>1, Invariance, PTL

\* Of two listed messages the older has been transmitted at least as often.
THEOREM AgeTheorem == Spec => []AgeOrder
<1>1. Inv => AgeOrder
  BY DEF Inv
<1> QED
  BY <1>1, Invariance, PTL

-----------------------------------------------------------------------------
(* Where memory is lost *)

Lost == nodes \ Queued

\* A removal takes a node's memory and its link together.
LEMMA RemovalLosesNothing ==
  ASSUME ListSound, NEW k \in DOMAIN head,
         nodes' \subseteq nodes \ {head[k].node},
         head' = RemoveAt(head, k),
         list_length' = list_length - 1
  PROVE  Lost' \subseteq Lost
<1>1. Queued \subseteq Queued' \cup {head[k].node}
  BY RemovalKeepsList
<1> QED
  BY <1>1 DEF Lost

LEMMA NextLoses == Inv /\ [Next]_vars => (Lost' \subseteq Lost \/ QueueFull)
<1> SUFFICES ASSUME Inv, [Next]_vars, ~QueueFull PROVE Lost' \subseteq Lost
  OBVIOUS
<1> USE DEF Inv
<1>1. ASSUME NEW d \in Data, NEW h \in BOOLEAN, msg_push(d, h) PROVE Lost' \subseteq Lost
  <2>1. CASE push_kept(d, h)
    BY <2>1, PushKeepsList DEF Lost
  <2>2. CASE push_faults(d)
    BY <2>2 DEF push_faults, Lost, Queued
  <2> QED
    BY <1>1, <2>1, <2>2 DEF msg_push, push_discarded
<1>2. CASE resend_start \/ resend_end
  BY <1>2 DEF resend_start, resend_end, Lost, Queued
<1>3. CASE visit_send
  BY <1>3, CountingKeepsList DEF visit_send, AtNode, Lost
<1>4. CASE visit_call
  BY <1>4, CountingKeepsList DEF visit_call, AtNode, Lost
<1>5. CASE visit_drop
  BY <1>5, RemovalLosesNothing DEF visit_drop, AtNode, drop
<1>6. CASE callback_return
  BY <1>6, RemovalLosesNothing DEF callback_return, drop, IterSound
<1>7. ASSUME NEW hits \in SUBSET Data, msg_ack(hits) PROVE Lost' \subseteq Lost
  BY <1>7, RemovalLosesNothing DEF msg_ack
<1>8. CASE reboot \/ list_overwritten
  BY <1>8 DEF reboot, list_overwritten, Lost, Queued
<1>9. CASE UNCHANGED vars
  BY <1>9 DEF vars, Lost, Queued
<1> QED
  BY <1>1, <1>2, <1>3, <1>4, <1>5, <1>6, <1>7, <1>8, <1>9 DEF Next, resend_step

\* The queue loses the memory of a node only to a push that finds the list full.
THEOREM LeakTheorem == Spec => LeaksOnlyWhenFull
<1>1. Inv /\ [Next]_vars =>
        [\A n \in Node : (n \notin nodes \ Queued /\ n \in (nodes \ Queued)') => QueueFull]_vars
  BY NextLoses DEF Lost
<1> QED
  BY <1>1, Invariance, PTL DEF Spec, LeaksOnlyWhenFull
=============================================================================
