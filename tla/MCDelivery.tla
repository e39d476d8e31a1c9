----------------------------- MODULE MCDelivery -----------------------------
(***************************************************************************)
(* Delivery on a small instance: a heap of a few blocks that are reused at *)
(* once, as messages and as nodes, and sequence numbers that wrap.         *)
(***************************************************************************)
EXTENDS Delivery, TLC

Interchangeable == Permutations(Block)
=============================================================================
