\* Two buffers to send from, a polling loop of three turns.
CONSTANTS
  MCP_N_TXBUFFERS = 2
  TIMEOUTVALUE = 3
  MaxCalls = 3
  MaxFrames = 3
SPECIFICATION Spec
INVARIANTS TypeOK OneFate AnnouncedIsFresh
PROPERTIES PendingUntouched LostOnlyWhenBusy NoFrameDropped
