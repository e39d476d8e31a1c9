\* Up to three messages in pieces of any length, from servers of both kinds.
\* The buffer holds the longest stream of the second kind but two bytes.
CONSTANTS
  Payloads <- MCPayloads
  Cmds = {1, 2}
  MaxFrames = 3
  Extras = {0, 2}
  BUF = 25
  SIZE_T = 65536
SPECIFICATION Spec
INVARIANTS
  TypeOK
  OnlyMessages
  WholeHandled
  RoomSuffices
CHECK_DEADLOCK TRUE
