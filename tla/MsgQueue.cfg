\* The list fills (three nodes, beyond which a push is discarded), leaks its
\* last node and runs out of memory.  The data of one message and one node share
\* a block of the heap.  No symmetry: FlushedOut is about each node.
CONSTANTS
  Node = {b1, n1, n2, n3}
  Data = {b1, d1}
  MAX_RETRY_TIME = 1
  MAX_MSG_LIST_LENGTH = 2
SPECIFICATION FairSpec
INVARIANTS
  TypeOK
  CountMatches
  QueueBound
  AgeOrder
PROPERTIES
  LeaksOnlyWhenFull
  Refines
  WalkEnds
  FlushedOut
CHECK_DEADLOCK TRUE
