---------------------------- MODULE RetryBuffer ----------------------------
(***************************************************************************)
(* What the retransmission queue promises to the code that uses it, with   *)
(* no list, no pointers and no order: a bounded set of entries, each with  *)
(* the number of times it has been transmitted.  A flush transmits every   *)
(* entry that was held when it began exactly once, or expires it if it has *)
(* had all its transmissions, and touches nothing that came later.  Only a *)
(* reset loses an entry any other way, and only outside a flush can an     *)
(* acknowledgement take one.                                               *)
(*                                                                         *)
(* MsgQueue implements this module; see Refines there.                     *)
(***************************************************************************)
EXTENDS Naturals, FiniteSets

CONSTANTS
  Entry,        \* what can be held
  Attempts,     \* transmissions an entry gets before it expires
  Capacity      \* entries held at a time

VARIABLES
  attempts,     \* the entries held, and the transmissions each has had
  flushing,     \* a flush is under way
  pending       \* the entries the flush has still to transmit or expire

vars == <<attempts, flushing, pending>>

Held == DOMAIN attempts

Without(e) == [x \in Held \ {e} |-> attempts[x]]

Init ==
  /\ attempts = [x \in {} |-> 0]
  /\ flushing = FALSE
  /\ pending = {}

Accept(e) ==
  /\ e \notin Held
  /\ Cardinality(Held) < Capacity
  /\ attempts' = [x \in Held \cup {e} |-> IF x = e THEN 0 ELSE attempts[x]]
  /\ UNCHANGED <<flushing, pending>>

Ack(e) ==
  /\ ~flushing
  /\ e \in Held
  /\ attempts' = Without(e)
  /\ UNCHANGED <<flushing, pending>>

BeginFlush ==
  /\ ~flushing
  /\ flushing' = TRUE
  /\ pending' = Held
  /\ UNCHANGED attempts

Transmit(e) ==
  /\ flushing
  /\ e \in pending
  /\ attempts[e] < Attempts
  /\ attempts' = [attempts EXCEPT ![e] = @ + 1]
  /\ pending' = pending \ {e}
  /\ UNCHANGED flushing

Expire(e) ==
  /\ flushing
  /\ e \in pending
  /\ attempts[e] = Attempts
  /\ attempts' = Without(e)
  /\ pending' = pending \ {e}
  /\ UNCHANGED flushing

EndFlush ==
  /\ flushing
  /\ pending = {}
  /\ flushing' = FALSE
  /\ UNCHANGED <<attempts, pending>>

Reset ==
  /\ attempts' = [x \in {} |-> 0]
  /\ flushing' = FALSE
  /\ pending' = {}

Next ==
  \/ \E e \in Entry : Accept(e) \/ Ack(e) \/ Transmit(e) \/ Expire(e)
  \/ BeginFlush
  \/ EndFlush
  \/ Reset

Spec == Init /\ [][Next]_vars
=============================================================================
