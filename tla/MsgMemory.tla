----------------------------- MODULE MsgMemory -----------------------------
(***************************************************************************)
(* Message memory: protocol/msg.c over the vendor's heap (eat_mem_alloc    *)
(* and eat_mem_free, external; mem.h makes malloc and free the same two    *)
(* functions, so the nodes of the queue come from it as well).  A block    *)
(* that has been freed keeps its bytes or loses them to the allocator, and *)
(* is given out again by any later allocation, as a message or as a node.  *)
(* Freeing a block that is not allocated is undefined: the heap overlooks  *)
(* it, or is corrupted.                                                    *)
(***************************************************************************)
EXTENDS Naturals

CONSTANTS
  Block,        \* the blocks of the heap
  Cmd,          \* the commands in use
  SeqNumbers    \* how many sequence numbers there are: 65536

ASSUME SeqAssumption == SeqNumbers \in Nat \ {0}

VARIABLES
  heap,         \* each block: is it allocated as a message, and what header
                \* stands at its beginning
  nodes,        \* the blocks that are allocated as nodes of the queue
  seq           \* the static counter of msg.c

Header == [cmd : Cmd, seq : 0 .. SeqNumbers - 1]

\* What a block holds once the allocator or a node has been written over the
\* header.
Junk == [cmd |-> "junk", seq |-> 0]

Content == Header \cup {Junk}

MInit ==
  /\ heap = [b \in Block |-> [live |-> FALSE, msg |-> Junk]]
  /\ seq = 0

MTypeOK ==
  /\ heap \in [Block -> [live : BOOLEAN, msg : Content]]
  /\ seq \in 0 .. SeqNumbers - 1

FreeBlocks == {b \in Block \ nodes : ~heap[b].live}

NextHeader(c) == [cmd |-> c, seq |-> seq]

TakeSeqForever == seq' = seq + 1      \* a mutant: a wider counter
TakeSeq == seq' = (seq + 1) % SeqNumbers

\* The heap after alloc_msg(c) has returned b.
Allocated(b, c) == [heap EXCEPT ![b] = [live |-> TRUE, msg |-> NextHeader(c)]]

\* The heaps that may follow eat_mem_free(b) in h, corruption apart.
Freed(h, b) ==
  IF h[b].live
  THEN {[h EXCEPT ![b] = [live |-> FALSE, msg |-> m]] : m \in {h[b].msg, Junk}}
  ELSE {h}

\* The heap h once the nodes in N have been written into their blocks.
Written(h, N) == [b \in Block |-> IF b \in N THEN [live |-> FALSE, msg |-> Junk] ELSE h[b]]

\* The heaps after alloc_msg(c) has returned b: for a message that is kept, and
\* for one that is transmitted and freed before the caller returns.
alloc_msg(b, c) == {Allocated(b, c)}
alloc_and_free(b, c) == Freed(Allocated(b, c), b)
=============================================================================
