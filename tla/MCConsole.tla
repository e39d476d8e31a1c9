------------------------------ MODULE MCConsole ------------------------------
(* Pieces of the serial line and of Bluetooth of up to three characters,   *)
(* texts of the modem of up to five.                                       *)
EXTENDS Console

MCPieces == BoundedSeq({"x", "CR", "LF"}, 3) \ {<<>>}
MCSppPieces == BoundedSeq({"x", "CR"}, 3) \ {<<>>}
MCSppTail == <<"CR", "LF">>
MCTexts == BoundedSeq({"S", "CR", "LF"}, 5) \ {<<>>}
=============================================================================
