\* Two clients and one place for a closing one; frames larger than the socket buffer, and
\* a budget that does not cover two of them.  Two records, a queue of one event, three events.
SPECIFICATION MCSpec
CONSTANTS
  NumClients = 2
  Sizes = {2}
  MaxFrameSize = 2
  RedrawSize = 1
  NoticeSize = 1
  BufferLimit = 3
  WriteBudget = 2
  SocketBuffer = 1
  MaxClosing = 1
  MaxFrames = 2
  Requests <- MCRequests
  EventKinds = {"in-rejected", "out"}
  Capacity = 1
  MaxRecords = 2
  MaxEvents = 3
INVARIANTS FramesIntact QueuesBounded FileFaithful
PROPERTIES QueuesDrain ServeNotHeldUp
CHECK_DEADLOCK FALSE
