\* Connections are made in the background, as on a non-blocking socket.
CONSTANTS
  Sock = {0}
  NoSocket = NoSocket
  FirstSocket = 0
  AddrTypes = {"ip"}
  BearerResults = {"ok", "wouldblock"}
  SetupResults = {"ok"}
  ConnectResults = {"later"}
  MaxLookups = 0
  Node = {n1, n2}
  Data = {d1, n1}
  MAX_RETRY_TIME = 0
  MAX_MSG_LIST_LENGTH = 0
  SEND_LIST_LENGTH = 0
  Patient = TRUE
SPECIFICATION FairSpec
PROPERTY Drains
CHECK_DEADLOCK TRUE
