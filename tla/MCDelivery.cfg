\* Three blocks for messages and nodes that are reused at once, two sequence
\* numbers, handlers that may push, as the type MSG_RESEND_FAILED_HANDLER invites
\* them to.
CONSTANTS
  Block = {b1, b2, b3}
  Cmd = {"ping", "gps"}
  SeqNumbers = 2
  MAX_RETRY_TIME = 1
  MAX_MSG_LIST_LENGTH = 1
  Handlers = {TRUE, FALSE}
SPECIFICATION Spec
SYMMETRY Interchangeable
INVARIANTS
  TypeOK
  FirstSendIntact
PROPERTIES
  ListFreedByStaleOnly
  OrphansOnlyWhenFull
CHECK_DEADLOCK TRUE
