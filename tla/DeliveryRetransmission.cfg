\* What a retransmission finds behind the pointer it kept.
CONSTANTS
  Block = {b1, b2, b3, b4}
  Cmd = {"ping", "gps"}
  SeqNumbers = 8
  MAX_RETRY_TIME = 3
  MAX_MSG_LIST_LENGTH = 1
  Handlers = {FALSE}
SPECIFICATION Spec
INVARIANT RetransmissionIntact
CHECK_DEADLOCK TRUE
