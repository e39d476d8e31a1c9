-------------------------- MODULE RefinementProofs --------------------------
(***************************************************************************)
(* MsgQueue implements RetryBuffer, for every heap, every set of messages  *)
(* and every pair of limits: initial states map to initial states, and     *)
(* every step to a step of the abstract buffer or to none.                 *)
(***************************************************************************)
EXTENDS MsgQueueProofs, FiniteSetTheorems

\* What Buffer substitutes for attempts and pending.
Sent == [n \in Queued |-> Transmitted(head[CHOOSE i \in DOMAIN head : head[i].node = n])]

ToVisit == {head[i].node : i \in {j \in DOMAIN head : iter # 0 /\ j >= iter}}

\* A node whose handler runs has had its transmissions: the walk compared
\* before it called, and what the handler pushes goes elsewhere.
CalledSpent == phase = "callback" => Spent(head[iter])

RInv == Inv /\ CalledSpent

-----------------------------------------------------------------------------
(* The mapping *)

\* Nodes are listed once, so CHOOSE finds the position it came from.
LEMMA ChosenIndex ==
  ASSUME NEW s, NEW k \in DOMAIN s,
         \A i, j \in DOMAIN s : s[i].node = s[j].node => i = j
  PROVE  (CHOOSE i \in DOMAIN s : s[i].node = s[k].node) = k
OBVIOUS

LEMMA SentAt ==
  ASSUME ListSound
  PROVE  /\ Sent = [n \in Queued |-> Sent[n]]
         /\ \A k \in DOMAIN head :
              head[k].node \in Queued /\ Sent[head[k].node] = Transmitted(head[k])
<1>1. \A i, j \in DOMAIN head : head[i].node = head[j].node => i = j
  BY DEF ListSound, NodesSound
<1>2. ASSUME NEW k \in DOMAIN head
      PROVE  head[k].node \in Queued /\ Sent[head[k].node] = Transmitted(head[k])
  <2>1. (CHOOSE i \in DOMAIN head : head[i].node = head[k].node) = k
    BY <1>1, ChosenIndex
  <2>2. head[k].node \in Queued
    BY DEF Queued
  <2> QED
    BY <2>1, <2>2 DEF Sent
<1>3. Sent = [n \in Queued |-> Sent[n]]
  BY DEF Sent
<1> QED
  BY <1>2, <1>3

LEMMA SentAtNext ==
  ASSUME ListSound'
  PROVE  /\ Sent' = [n \in Queued' |-> Sent'[n]]
         /\ \A k \in DOMAIN head' :
              head'[k].node \in Queued' /\ Sent'[head'[k].node] = Transmitted(head'[k])
<1>1. \A i, j \in DOMAIN head' : head'[i].node = head'[j].node => i = j
  BY DEF ListSound, NodesSound
<1>2. ASSUME NEW k \in DOMAIN head'
      PROVE  head'[k].node \in Queued' /\ Sent'[head'[k].node] = Transmitted(head'[k])
  <2>1. (CHOOSE i \in DOMAIN head' : head'[i].node = head'[k].node) = k
    BY <1>1, ChosenIndex
  <2>2. head'[k].node \in Queued'
    BY DEF Queued
  <2> QED
    BY <2>1, <2>2 DEF Sent, Transmitted
<1>3. Sent' = [n \in Queued' |-> Sent'[n]]
  BY DEF Sent
<1> QED
  BY <1>2, <1>3

LEMMA HeldIs == Buffer!Held = Queued /\ DOMAIN Sent = Queued
BY DEF Buffer!Held, Sent

LEMMA SameCardinality == \A S : Buffer!Cardinality(S) = Cardinality(S)
BY DEF Buffer!Cardinality, Cardinality

\* The capacity counts entries, the list counts positions.
LEMMA QueuedFits ==
  ASSUME ListSound PROVE IsFiniteSet(Queued) /\ Cardinality(Queued) <= Len(head)
<1> DEFINE f == [i \in 1 .. Len(head) |-> head[i].node]
<1>1. Len(head) \in Nat /\ DOMAIN head = 1 .. Len(head)
  BY DEF ListSound
<1>2. f \in Surjection(1 .. Len(head), Queued)
  BY <1>1 DEF Surjection, Queued
<1>3. IsFiniteSet(1 .. Len(head)) /\ Cardinality(1 .. Len(head)) = Len(head)
  <2>1. \A m \in Nat : IsFiniteSet(1 .. m) /\ Cardinality(1 .. m) = IF 1 > m THEN 0 ELSE m - 1 + 1
    BY FS_Interval
  <2> QED
    BY <1>1, <2>1
<1> HIDE DEF f
<1> QED
  BY <1>2, <1>3, FS_Surjection

\* A step that leaves the list and the position alone changes nothing.
LEMMA SameBuffer == UNCHANGED <<head, iter>> => UNCHANGED Buffer!vars
BY DEF Buffer!vars, Queued, Transmitted

-----------------------------------------------------------------------------
(* The strengthening *)

LEMMA NextKeepsCalled == RInv /\ [Next]_vars => CalledSpent'
<1> SUFFICES ASSUME RInv, [Next]_vars, phase' = "callback" PROVE Spent(head[iter])'
  BY DEF CalledSpent
<1>1. ASSUME NEW d \in Data, NEW h \in BOOLEAN, msg_push(d, h) PROVE Spent(head[iter])'
  <2>1. CASE push_kept(d, h)
    <3>1. phase = "callback" /\ iter' = iter + 1 /\ iter \in DOMAIN head
      BY <2>1 DEF push_kept, RInv, Inv, IterSound
    <3>2. head'[iter + 1] = head[iter]
      BY <2>1, <3>1, PushKeepsList DEF RInv, Inv
    <3> QED
      BY <3>1, <3>2 DEF RInv, CalledSpent, Spent
  <2>2. CASE push_discarded(d, h) \/ push_faults(d)
    BY <2>2 DEF push_discarded, push_faults, RInv, CalledSpent, Spent
  <2> QED
    BY <1>1, <2>1, <2>2 DEF msg_push
<1>2. CASE visit_call
  <2>1. /\ iter \in DOMAIN head /\ Spent(head[iter]) /\ iter' = iter
        /\ head' = [head EXCEPT ![iter].resend_times = @ + 1]
    BY <1>2 DEF visit_call, AtNode
  <2>2. head'[iter].resend_times = head[iter].resend_times + 1
    BY <1>2, <2>1, CountingKeepsList DEF RInv, Inv, visit_call
  <2>3. head[iter].resend_times \in Nat
    BY <2>1, ListedFacts DEF RInv, Inv
  <2> QED
    BY <2>1, <2>2, <2>3, RetryAssumption DEF Spent
<1>3. CASE resend_start \/ resend_end \/ visit_send \/ visit_drop \/ callback_return
  BY <1>3 DEF resend_start, resend_end, visit_send, visit_drop, callback_return, drop
<1>4. CASE (\E hits \in SUBSET Data : msg_ack(hits)) \/ reboot \/ list_overwritten
  BY <1>4 DEF msg_ack, reboot, list_overwritten
<1>5. CASE UNCHANGED vars
  BY <1>5 DEF vars, RInv, CalledSpent, Spent
<1> QED
  BY <1>1, <1>2, <1>3, <1>4, <1>5 DEF Next, resend_step

LEMMA RInvariance == Spec => []RInv
<1>1. Init => RInv
  BY InitInv DEF Init, RInv, CalledSpent
<1>2. RInv /\ [Next]_vars => RInv'
  BY NextKeepsInv, NextKeepsCalled DEF RInv
<1> QED
  BY <1>1, <1>2, PTL DEF Spec

-----------------------------------------------------------------------------
(* The steps *)

LEMMA InitMaps == Init => Buffer!Init
<1> SUFFICES ASSUME Init PROVE Buffer!Init
  OBVIOUS
<1>1. DOMAIN head = {} /\ iter = 0
  BY DEF Init
<1>2. Queued = {}
  BY <1>1 DEF Queued
<1> QED
  BY <1>1, <1>2 DEF Buffer!Init

\* A push that is kept accepts an entry, and a walk in progress does not see it.
LEMMA PushMaps ==
  ASSUME RInv, NEW d \in Data, NEW h \in BOOLEAN, msg_push(d, h), push_kept(d, h)
  PROVE  \E e \in Node : Buffer!Accept(e)
<1>1. PICK n \in Node \ (nodes \cup Queued) :
        nodes' = nodes \cup {n} /\ head' = Cons(NewNode(n, d, h), head)
  BY DEF push_kept
<1>2. ListSound /\ head \in Seq(MsgNode) /\ DOMAIN head = 1 .. Len(head) /\ Len(head) \in Nat
  BY DEF RInv, Inv, ListSound
<1>3. /\ ListSound' /\ Len(head') = Len(head) + 1
      /\ \A i \in DOMAIN head : head'[i + 1] = head[i]
  BY <1>2, PushKeepsList
<1>4. /\ DOMAIN head' = 1 .. Len(head) + 1
      /\ \A i \in DOMAIN head' : i = 1 \/ (i - 1 \in DOMAIN head /\ head'[i] = head[i - 1])
  <2>1. head' \in Seq(MsgNode)
    BY <1>3 DEF ListSound
  <2>2. DOMAIN head' = 1 .. Len(head) + 1
    BY <1>3, <2>1
  <2>3. ASSUME NEW i \in DOMAIN head', i # 1
        PROVE  i - 1 \in DOMAIN head /\ head'[i] = head[i - 1]
    <3>1. i - 1 \in DOMAIN head /\ (i - 1) + 1 = i
      BY <2>2, <2>3, <1>2
    <3> QED
      BY <3>1, <1>3
  <2> QED
    BY <2>2, <2>3
<1>5. head'[1].node = n /\ Transmitted(head'[1]) = 0
  <2> DEFINE e == NewNode(n, d, h)
  <2>1. e \in MsgNode
    BY <1>1 DEF NewNode, MsgNode
  <2>2. e.node = n /\ e.resend_times = 0
    BY DEF NewNode
  <2>3. head' = Cons(e, head)
    BY <1>1
  <2> HIDE DEF e
  <2>4. head'[1] = e
    <3>1. head \in Seq(MsgNode)
      BY <1>2
    <3>2. Cons(e, head)[1] = e
      BY <3>1, <2>1, ConsFacts
    <3> QED
      BY <3>2, <2>3
  <2> QED
    BY <2>2, <2>4, RetryAssumption DEF Transmitted
<1>6. n \notin Queued
  BY <1>1
<1>7. Queued' = Queued \cup {n}
  BY <1>2, <1>3, <1>4, <1>5 DEF Queued
<1>8. Sent' = [x \in Queued \cup {n} |-> IF x = n THEN 0 ELSE Sent[x]]
  <2>1. Sent'[n] = 0
    BY <1>3, <1>4, <1>5, <1>2, SentAtNext
  <2>2. ASSUME NEW x \in Queued PROVE Sent'[x] = Sent[x]
    <3>1. PICK i \in DOMAIN head : head[i].node = x
      BY DEF Queued
    <3>2. i + 1 \in DOMAIN head' /\ head'[i + 1] = head[i]
      BY <1>2, <1>3, <1>4
    <3> QED
      BY <1>2, <1>3, <3>1, <3>2, SentAt, SentAtNext
  <2>3. Sent' = [x \in Queued' |-> Sent'[x]]
    BY <1>3, SentAtNext
  <2> HIDE DEF Sent
  <2> QED
    BY <1>6, <1>7, <2>1, <2>2, <2>3
<1>9. ToVisit' = ToVisit /\ (iter' # 0 <=> iter # 0)
  <2>1. \/ phase = "idle" /\ iter = 0 /\ iter' = 0
        \/ phase = "callback" /\ iter \in DOMAIN head /\ iter' = iter + 1
    BY DEF msg_push, CallerRuns, push_kept, RInv, Inv, IterSound
  <2>2. CASE iter = 0 /\ iter' = 0
    BY <2>2 DEF ToVisit
  <2>3. CASE iter \in DOMAIN head /\ iter' = iter + 1
    <3>1. ASSUME NEW j \in DOMAIN head, j >= iter PROVE head[j].node \in ToVisit'
      <4>1. j + 1 \in DOMAIN head' /\ j + 1 >= iter' /\ iter' # 0 /\ head'[j + 1] = head[j]
        BY <1>2, <1>3, <1>4, <2>3, <3>1
      <4> QED
        BY <4>1 DEF ToVisit
    <3>2. ASSUME NEW j \in DOMAIN head', j >= iter' PROVE head'[j].node \in ToVisit
      <4>1. j - 1 \in DOMAIN head /\ j - 1 >= iter /\ iter # 0 /\ head'[j] = head[j - 1]
        BY <1>2, <1>4, <2>3, <3>2
      <4> QED
        BY <4>1 DEF ToVisit
    <3>3. iter # 0 /\ iter' # 0
      BY <1>2, <2>3
    <3> QED
      BY <3>1, <3>2, <3>3 DEF ToVisit
  <2> QED
    BY <2>1, <2>2, <2>3
<1>10. Cardinality(Queued) < MAX_MSG_LIST_LENGTH + 1
  <2>1. Len(head) <= MAX_MSG_LIST_LENGTH
    BY <1>2, LengthAssumption DEF push_kept, QueueFull, ListSound, CountMatches
  <2>2. Cardinality(Queued) \in Nat /\ Cardinality(Queued) <= Len(head)
    BY <1>2, QueuedFits, FS_CardinalityType
  <2> QED
    BY <1>2, <2>1, <2>2, LengthAssumption
<1>11. Buffer!Accept(n)
  <2>1. /\ n \notin Buffer!Held /\ Buffer!Cardinality(Buffer!Held) < MAX_MSG_LIST_LENGTH + 1
        /\ Sent' = [x \in Buffer!Held \cup {n} |-> IF x = n THEN 0 ELSE Sent[x]]
    BY <1>6, <1>8, <1>10, HeldIs, SameCardinality
  <2>2. (iter # 0)' = (iter # 0) /\ ToVisit' = ToVisit
    BY <1>9
  <2> QED
    BY <2>1, <2>2, Zenon DEF Buffer!Accept, Sent, ToVisit
<1> QED
  BY <1>1, <1>11

\* A walk has still to visit everything when it starts.
LEMMA StartMaps == ASSUME RInv, resend_start PROVE Buffer!BeginFlush
<1>1. iter = 0 /\ iter' = 1 /\ head' = head
  BY DEF resend_start, RInv, Inv, IterSound
<1>2. DOMAIN head = 1 .. Len(head)
  BY DEF RInv, Inv, ListSound
<1>3. ToVisit' = Queued
  BY <1>1, <1>2 DEF ToVisit, Queued
<1>4. Sent' = Sent
  BY <1>1 DEF Sent, Queued, Transmitted
<1>5. (iter # 0) = FALSE /\ (iter # 0)' = TRUE /\ ToVisit' = Buffer!Held
  BY <1>1, <1>3, HeldIs
<1> QED
  BY <1>4, <1>5, Zenon DEF Buffer!BeginFlush, Sent, ToVisit

\* At its end nothing is left to visit.
LEMMA EndMaps == ASSUME RInv, resend_end PROVE Buffer!EndFlush
<1>1. /\ DOMAIN head = 1 .. Len(head) /\ Len(head) \in Nat
      /\ iter = Len(head) + 1 /\ iter' = 0 /\ head' = head
  BY DEF resend_end, RInv, Inv, IterSound, ListSound
<1>2. ToVisit = {} /\ ToVisit' = {}
  BY <1>1 DEF ToVisit
<1>3. Sent' = Sent
  BY <1>1 DEF Sent, Queued, Transmitted
<1>4. (iter # 0) = TRUE /\ (iter # 0)' = FALSE /\ ToVisit' = ToVisit
  BY <1>1, <1>2
<1> QED
  BY <1>2, <1>3, <1>4, Zenon DEF Buffer!EndFlush, Sent, ToVisit

\* What the walk has still to visit without the node at iter.
LEMMA FirstToVisit ==
  ASSUME ListSound, iter \in DOMAIN head
  PROVE  /\ head[iter].node \in ToVisit
         /\ ToVisit \ {head[iter].node} =
              {head[j].node : j \in {i \in DOMAIN head : i >= iter + 1}}
<1>1. /\ DOMAIN head = 1 .. Len(head) /\ Len(head) \in Nat /\ iter \in Nat \ {0}
      /\ \A i, j \in DOMAIN head : head[i].node = head[j].node => i = j
  BY DEF ListSound, NodesSound
<1>2. head[iter].node \in ToVisit
  BY <1>1 DEF ToVisit
<1>3. ASSUME NEW x \in ToVisit, x # head[iter].node
      PROVE  x \in {head[j].node : j \in {i \in DOMAIN head : i >= iter + 1}}
  <2>1. PICK j \in DOMAIN head : j >= iter /\ x = head[j].node
    BY DEF ToVisit
  <2>2. j >= iter + 1
    BY <1>1, <1>3, <2>1
  <2> QED
    BY <2>1, <2>2
<1>4. ASSUME NEW j \in DOMAIN head, j >= iter + 1
      PROVE  head[j].node \in ToVisit /\ head[j].node # head[iter].node
  <2>1. j # iter /\ j >= iter
    BY <1>1, <1>4
  <2> QED
    BY <1>1, <2>1 DEF ToVisit
<1> QED
  BY <1>2, <1>3, <1>4

\* A transmission counts for the node at iter and for no other.
LEMMA SendMaps == ASSUME RInv, visit_send PROVE \E e \in Node : Buffer!Transmit(e)
<1> DEFINE e == head[iter].node
<1>1. /\ iter \in DOMAIN head /\ ~Spent(head[iter]) /\ iter' = iter + 1
      /\ head' = [head EXCEPT ![iter].resend_times = @ + 1]
  BY DEF visit_send, AtNode
<1>2. /\ ListSound /\ DOMAIN head = 1 .. Len(head) /\ Len(head) \in Nat
      /\ iter \in Nat \ {0} /\ head[iter] \in MsgNode /\ head[iter].resend_times \in Nat
  BY <1>1, ListedFacts DEF RInv, Inv
<1>3. /\ ListSound' /\ Len(head') = Len(head)
      /\ head'[iter].resend_times = head[iter].resend_times + 1
      /\ \A i \in DOMAIN head : i # iter => head'[i] = head[i]
      /\ Queued' = Queued
  BY <1>1, <1>2, CountingKeepsList DEF visit_send
<1>4. DOMAIN head' = DOMAIN head /\ \A i \in DOMAIN head : head'[i].node = head[i].node
  <2>1. DOMAIN head' = DOMAIN head
    BY <1>1
  <2>2. head'[iter].node = head[iter].node
    BY <1>1, <1>2 DEF MsgNode
  <2> QED
    BY <1>3, <2>1, <2>2
<1>5. /\ Transmitted(head[iter]) = head[iter].resend_times
      /\ Transmitted(head'[iter]) = Transmitted(head[iter]) + 1
      /\ Transmitted(head[iter]) < MAX_RETRY_TIME + 1
  BY <1>1, <1>2, <1>3, RetryAssumption DEF Spent, Transmitted
<1>6. Sent[e] < MAX_RETRY_TIME + 1 /\ e \in Queued /\ e \in Node
  BY <1>1, <1>2, <1>5, SentAt DEF MsgNode
<1>7. Sent' = [Sent EXCEPT ![e] = Sent[e] + 1]
  <2>1. Sent'[e] = Sent[e] + 1
    BY <1>1, <1>2, <1>3, <1>4, <1>5, SentAt, SentAtNext
  <2>2. ASSUME NEW x \in Queued, x # e PROVE Sent'[x] = Sent[x]
    <3>1. PICK i \in DOMAIN head : head[i].node = x
      BY DEF Queued
    <3>2. head'[i] = head[i]
      BY <1>3, <2>2, <3>1
    <3> QED
      BY <1>2, <1>3, <1>4, <3>1, <3>2, SentAt, SentAtNext
  <2>3. Sent' = [x \in Queued |-> Sent'[x]] /\ Sent = [x \in Queued |-> Sent[x]]
    BY <1>2, <1>3, SentAt, SentAtNext
  <2> HIDE DEF e, Sent
  <2> QED
    BY <1>6, <2>1, <2>2, <2>3
<1>8. ToVisit' = ToVisit \ {e} /\ e \in ToVisit
  <2>1. e \in ToVisit /\ ToVisit \ {e} = {head[j].node : j \in {i \in DOMAIN head : i >= iter + 1}}
    BY <1>1, <1>2, FirstToVisit
  <2>2. ToVisit' = {head[j].node : j \in {i \in DOMAIN head : i >= iter + 1}}
    BY <1>1, <1>2, <1>4 DEF ToVisit
  <2> QED
    BY <2>1, <2>2
<1>9. (iter # 0) = TRUE /\ (iter # 0)' = TRUE
  BY <1>1, <1>2
<1>10. ASSUME NEW n \in Node, n = e PROVE Buffer!Transmit(n)
  <2>1. /\ n \in ToVisit /\ Sent[n] < MAX_RETRY_TIME + 1
        /\ Sent' = [Sent EXCEPT ![n] = Sent[n] + 1] /\ ToVisit' = ToVisit \ {n}
    BY <1>6, <1>7, <1>8, <1>10
  <2> QED
    BY <2>1, <1>9, Zenon DEF Buffer!Transmit, Sent, ToVisit
<1> QED
  BY <1>6, <1>10

\* Calling the handler counts beyond the transmissions there are.
LEMMA CallMaps == ASSUME RInv, visit_call PROVE UNCHANGED Buffer!vars
<1>1. /\ iter \in DOMAIN head /\ Spent(head[iter]) /\ iter' = iter
      /\ head' = [head EXCEPT ![iter].resend_times = @ + 1]
  BY DEF visit_call, AtNode
<1>2. /\ ListSound /\ DOMAIN head = 1 .. Len(head) /\ Len(head) \in Nat
      /\ head[iter] \in MsgNode /\ head[iter].resend_times \in Nat
  BY <1>1, ListedFacts DEF RInv, Inv
<1>3. /\ ListSound' /\ head'[iter].resend_times = head[iter].resend_times + 1
      /\ \A i \in DOMAIN head : i # iter => head'[i] = head[i]
      /\ Queued' = Queued
  BY <1>1, <1>2, CountingKeepsList DEF visit_call
<1>4. DOMAIN head' = DOMAIN head /\ \A i \in DOMAIN head : head'[i].node = head[i].node
  <2>1. DOMAIN head' = DOMAIN head
    BY <1>1
  <2>2. head'[iter].node = head[iter].node
    BY <1>1, <1>2 DEF MsgNode
  <2> QED
    BY <1>3, <2>1, <2>2
<1>5. Transmitted(head'[iter]) = Transmitted(head[iter])
  BY <1>1, <1>2, <1>3, RetryAssumption DEF Spent, Transmitted
<1>6. Sent' = Sent
  <2>1. ASSUME NEW x \in Queued PROVE Sent'[x] = Sent[x]
    <3>1. PICK i \in DOMAIN head : head[i].node = x
      BY DEF Queued
    <3>2. Transmitted(head'[i]) = Transmitted(head[i])
      BY <1>3, <1>5
    <3> QED
      BY <1>2, <1>3, <1>4, <3>1, <3>2, SentAt, SentAtNext
  <2>2. Sent' = [x \in Queued |-> Sent'[x]] /\ Sent = [x \in Queued |-> Sent[x]]
    BY <1>2, <1>3, SentAt, SentAtNext
  <2> HIDE DEF Sent
  <2> QED
    BY <2>1, <2>2
<1>7. ToVisit' = ToVisit
  BY <1>1, <1>4 DEF ToVisit
<1>8. (iter # 0)' = (iter # 0)
  BY <1>1
<1> QED
  BY <1>6, <1>7, <1>8, Zenon DEF Buffer!vars, Sent, ToVisit

\* A removal, by the walk or by an acknowledgement, takes one entry out.
LEMMA RemovalMaps ==
  ASSUME ListSound, NEW k \in DOMAIN head,
         nodes' \subseteq nodes,
         head' = RemoveAt(head, k),
         list_length' = list_length - 1
  PROVE  /\ Queued' = Queued \ {head[k].node}
         /\ Sent' = [x \in Queued \ {head[k].node} |-> Sent[x]]
         /\ DOMAIN head' = 1 .. Len(head) - 1
         /\ \A i \in DOMAIN head' : head'[i] = IF i < k THEN head[i] ELSE head[i + 1]
<1> DEFINE e == head[k].node
<1>1. /\ ListSound' /\ Len(head') = Len(head) - 1
      /\ \A i \in DOMAIN head' : head'[i] = IF i < k THEN head[i] ELSE head[i + 1]
      /\ Queued \subseteq Queued' \cup {e}
  BY RemovalKeepsList
<1>2. /\ DOMAIN head = 1 .. Len(head) /\ Len(head) \in Nat
      /\ \A i, j \in DOMAIN head : head[i].node = head[j].node => i = j
  BY DEF ListSound, NodesSound
<1>3. DOMAIN head' = 1 .. Len(head) - 1
  <2>1. head' \in Seq(MsgNode)
    BY <1>1 DEF ListSound
  <2> QED
    BY <1>1, <2>1
<1>4. ASSUME NEW i \in DOMAIN head'
      PROVE  /\ head'[i].node \in Queued \ {e}
             /\ Sent[head'[i].node] = Transmitted(head'[i])
  <2>1. PICK j \in DOMAIN head : j # k /\ head'[i] = head[j]
    <3>1. CASE i < k
      <4>1. i \in DOMAIN head /\ i # k /\ head'[i] = head[i]
        BY <3>1, <1>1, <1>2, <1>3
      <4> QED
        BY <4>1
    <3>2. CASE ~ i < k
      <4>1. i + 1 \in DOMAIN head /\ i + 1 # k /\ head'[i] = head[i + 1]
        BY <3>2, <1>1, <1>2, <1>3
      <4> QED
        BY <4>1
    <3> QED
      BY <3>1, <3>2
  <2>2. head[j].node # e
    BY <1>2, <2>1
  <2> QED
    BY <2>1, <2>2, SentAt
<1>5. Queued' = Queued \ {e}
  <2>1. Queued' \subseteq Queued \ {e}
    BY <1>4 DEF Queued
  <2> QED
    BY <1>1, <2>1
<1>6. Sent' = [x \in Queued \ {e} |-> Sent[x]]
  <2>1. ASSUME NEW x \in Queued' PROVE Sent'[x] = Sent[x]
    <3>1. PICK i \in DOMAIN head' : head'[i].node = x
      BY DEF Queued
    <3> QED
      BY <1>1, <1>4, <3>1, SentAtNext
  <2>2. Sent' = [x \in Queued' |-> Sent'[x]]
    BY <1>1, SentAtNext
  <2> HIDE DEF Sent, e
  <2> QED
    BY <1>5, <2>1, <2>2
<1> QED
  BY <1>1, <1>3, <1>5, <1>6

\* The walk drops a node that has had all its transmissions: an expiry.
LEMMA DropMaps ==
  ASSUME RInv, iter \in DOMAIN head, Spent(head[iter]), drop
  PROVE  \E e \in Node : Buffer!Expire(e)
<1> DEFINE e == head[iter].node
<1>1. /\ ListSound /\ DOMAIN head = 1 .. Len(head) /\ Len(head) \in Nat
      /\ iter \in Nat \ {0} /\ iter' = iter /\ head[iter] \in MsgNode
  BY ListedFacts DEF RInv, Inv, drop
<1>2. /\ Queued' = Queued \ {e} /\ Sent' = [x \in Queued \ {e} |-> Sent[x]]
      /\ DOMAIN head' = 1 .. Len(head) - 1
      /\ \A i \in DOMAIN head' : head'[i] = IF i < iter THEN head[i] ELSE head[i + 1]
  BY <1>1, RemovalMaps DEF drop
<1>3. Sent[e] = MAX_RETRY_TIME + 1 /\ e \in Queued /\ e \in Node
  BY <1>1, SentAt, TransmittedFacts DEF MsgNode
<1>4. ToVisit' = ToVisit \ {e} /\ e \in ToVisit
  <2>1. e \in ToVisit /\ ToVisit \ {e} = {head[j].node : j \in {i \in DOMAIN head : i >= iter + 1}}
    BY <1>1, FirstToVisit
  <2>2. ASSUME NEW j \in DOMAIN head, j >= iter + 1 PROVE head[j].node \in ToVisit'
    <3>1. j - 1 \in DOMAIN head' /\ j - 1 >= iter' /\ iter' # 0 /\ head'[j - 1] = head[j]
      BY <1>1, <1>2, <2>2
    <3> QED
      BY <3>1 DEF ToVisit
  <2>3. ASSUME NEW j \in DOMAIN head', j >= iter'
        PROVE  head'[j].node \in {head[i].node : i \in {i \in DOMAIN head : i >= iter + 1}}
    <3>1. j + 1 \in DOMAIN head /\ j + 1 >= iter + 1 /\ head'[j] = head[j + 1]
      BY <1>1, <1>2, <2>3
    <3> QED
      BY <3>1
  <2>4. ToVisit' = {head[j].node : j \in {i \in DOMAIN head : i >= iter + 1}}
    BY <2>2, <2>3 DEF ToVisit
  <2> QED
    BY <2>1, <2>4
<1>5. (iter # 0) = TRUE /\ (iter # 0)' = TRUE
  BY <1>1
<1>6. ASSUME NEW n \in Node, n = e PROVE Buffer!Expire(n)
  <2>1. /\ n \in ToVisit /\ Sent[n] = MAX_RETRY_TIME + 1
        /\ Sent' = [x \in Buffer!Held \ {n} |-> Sent[x]] /\ ToVisit' = ToVisit \ {n}
    BY <1>2, <1>3, <1>4, <1>6, HeldIs
  <2> QED
    BY <1>5, <2>1, Zenon DEF Buffer!Expire, Buffer!Without, Sent, ToVisit
<1> QED
  BY <1>3, <1>6

LEMMA AckMaps ==
  ASSUME RInv, NEW hits \in SUBSET Data, msg_ack(hits)
  PROVE  \E e \in Node : Buffer!Ack(e)
<1>1. PICK k \in DOMAIN head : nodes' \subseteq nodes /\ head' = RemoveAt(head, k)
  BY DEF msg_ack
<1> DEFINE e == head[k].node
<1>2. ListSound /\ iter = 0 /\ iter' = 0 /\ list_length' = list_length - 1
  BY DEF msg_ack, RInv, Inv, IterSound
<1>3. Sent' = [x \in Queued \ {e} |-> Sent[x]]
  BY <1>1, <1>2, RemovalMaps
<1>4. e \in Queued /\ e \in Node
  BY <1>2, ListedFacts DEF Queued, MsgNode
<1>5. ToVisit' = ToVisit
  BY <1>2 DEF ToVisit
<1>6. (iter # 0) = FALSE /\ (iter # 0)' = FALSE
  BY <1>2
<1>7. Buffer!Ack(e)
  <2>1. Sent' = [x \in Buffer!Held \ {e} |-> Sent[x]] /\ e \in Buffer!Held
    BY <1>3, <1>4, HeldIs
  <2> HIDE DEF e
  <2> QED
    BY <1>5, <1>6, <2>1, Zenon DEF Buffer!Ack, Buffer!Without, Sent, ToVisit
<1> QED
  BY <1>4, <1>7

LEMMA RebootMaps == reboot => Buffer!Reset
<1> SUFFICES ASSUME reboot PROVE Buffer!Reset
  OBVIOUS
<1>1. DOMAIN head' = {} /\ iter' = 0
  BY DEF reboot
<1>2. Queued' = {}
  BY <1>1 DEF Queued
<1> QED
  BY <1>1, <1>2 DEF Buffer!Reset

LEMMA NextMaps == RInv /\ [Next]_vars => [Buffer!Next]_(Buffer!vars)
<1> SUFFICES ASSUME RInv, [Next]_vars PROVE Buffer!Next \/ UNCHANGED Buffer!vars
  OBVIOUS
<1>1. ASSUME NEW d \in Data, NEW h \in BOOLEAN, msg_push(d, h)
      PROVE  Buffer!Next \/ UNCHANGED Buffer!vars
  <2>1. CASE push_kept(d, h)
    BY <1>1, <2>1, PushMaps DEF Buffer!Next
  <2>2. CASE push_discarded(d, h) \/ push_faults(d)
    BY <2>2, SameBuffer DEF push_discarded, push_faults
  <2> QED
    BY <1>1, <2>1, <2>2 DEF msg_push
<1>2. CASE resend_start \/ resend_end
  BY <1>2, StartMaps, EndMaps DEF Buffer!Next
<1>3. CASE visit_send
  BY <1>3, SendMaps DEF Buffer!Next
<1>4. CASE visit_call
  BY <1>4, CallMaps
<1>5. CASE visit_drop
  BY <1>5, DropMaps DEF visit_drop, AtNode, Buffer!Next
<1>6. CASE callback_return
  BY <1>6, DropMaps DEF callback_return, RInv, Inv, IterSound, CalledSpent, Buffer!Next
<1>7. ASSUME NEW hits \in SUBSET Data, msg_ack(hits) PROVE Buffer!Next
  BY <1>7, AckMaps DEF Buffer!Next
<1>8. CASE reboot
  BY <1>8, RebootMaps DEF Buffer!Next
<1>9. CASE UNCHANGED vars \/ list_overwritten
  BY <1>9, SameBuffer DEF vars, list_overwritten
<1> QED
  BY <1>1, <1>2, <1>3, <1>4, <1>5, <1>6, <1>7, <1>8, <1>9 DEF Next, resend_step

\* The list implements the buffer: each walk transmits or expires what was
\* listed when it began once, and nothing is lost otherwise but by a reset or an
\* acknowledgement.  Entries are the listed nodes, whether or not their memory
\* has been given back to the heap: what is shown ends where somebody writes over
\* one that has.
THEOREM RefinementTheorem == Spec => Refines
<1>1. Init => Buffer!Init
  BY InitMaps
<1>2. RInv /\ [Next]_vars => [Buffer!Next]_(Buffer!vars)
  BY NextMaps
<1> QED
  BY <1>1, <1>2, RInvariance, PTL DEF Spec, Refines, Buffer!Spec
=============================================================================
