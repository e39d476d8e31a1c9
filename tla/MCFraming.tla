----------------------------- MODULE MCFraming -----------------------------
(***************************************************************************)
(* Framing on a small instance: payloads that are empty or look like the   *)
(* signature, login answers and a command the program does not know.       *)
(***************************************************************************)
EXTENDS Framing

MCPayloads == {<<>>, <<103>>, <<103, 103>>}
=============================================================================
