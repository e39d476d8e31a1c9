\* Connections are made at once, on a bearer that is activated at once or in the
\* background.
CONSTANTS
  Sock = {0}
  NoSocket = NoSocket
  FirstSocket = 0
  AddrTypes = {"ip"}
  BearerResults = {"ok", "wouldblock"}
  SetupResults = {"ok"}
  ConnectResults = {"now"}
  MaxLookups = 0
  Node = {n1, n2}
  Data = {d1, n1}
  MAX_RETRY_TIME = 1
  MAX_MSG_LIST_LENGTH = 1
  SEND_LIST_LENGTH = 0
  Patient = TRUE
SPECIFICATION FairSpec
PROPERTY Drains
CHECK_DEADLOCK TRUE
