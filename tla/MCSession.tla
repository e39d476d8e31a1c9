----------------------------- MODULE MCSession -----------------------------
(***************************************************************************)
(* Session on a small instance.                                            *)
(***************************************************************************)
EXTENDS Session, TLC

\* The nodes whose memory no message is ever given.
Interchangeable == Permutations(Node \ Data)
=============================================================================
