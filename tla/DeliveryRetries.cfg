\* How often a message is sent again, with the limit the program has.
CONSTANTS
  Block = {b1, b2}
  Cmd = {"ping", "gps"}
  SeqNumbers = 8
  MAX_RETRY_TIME = 3
  MAX_MSG_LIST_LENGTH = 0
  Handlers = {FALSE}
SPECIFICATION Spec
SYMMETRY Interchangeable
INVARIANT RetriesAsCommented
CHECK_DEADLOCK TRUE
