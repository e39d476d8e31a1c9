CONSTANTS
  Main = Main
  Timer = Timer
  Threads = {Main, Timer}
  Scales = {2, 8}
  HeapBlocks = 1
  MaxCalls = 3
  MaxRestarts = 2
SPECIFICATION FairSpec
INVARIANTS TypeOK ConfigTakes CollisionsAwake FastReadOnlyByStale BootsWhole
PROPERTIES MeasuresAgain Confirmed
CHECK_DEADLOCK FALSE
