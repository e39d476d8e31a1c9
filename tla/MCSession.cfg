\* The stack may answer anything, the application opens when it likes.
CONSTANTS
  Sock = {0, 1}
  NoSocket = NoSocket
  FirstSocket = 0
  AddrTypes = {"ip", "domain"}
  BearerResults = {"ok", "wouldblock"}
  SetupResults = {"ok", "no socket", "no option"}
  ConnectResults = {"now", "no login", "later", "refused"}
  MaxLookups = 2
  Node = {n1, n2, n3}
  Data = {d1, n1}
  MAX_RETRY_TIME = 1
  MAX_MSG_LIST_LENGTH = 1
  SEND_LIST_LENGTH = 0
  Patient = FALSE
SPECIFICATION Spec
SYMMETRY Interchangeable
INVARIANTS
  TypeOK
  WalkOnLoggedInSocket
  LoginOverConnection
CHECK_DEADLOCK TRUE
