SPECIFICATION FairSpec
CONSTANTS
  Clients = {c1, c2}
  SendBuffer = 2
  MaxBroadcasts = 4
INVARIANTS
  TypeOK
  NoGap
  NoSendOnClosed
PROPERTIES
  HubNeverBlocks
  QueuedIsWritten
  KeepsFeed
CHECK_DEADLOCK FALSE
