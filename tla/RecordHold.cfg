\* One record of one event, and a disk that may never answer.
SPECIFICATION MCSpec
CONSTANTS
  NumClients = 1
  Sizes = {1}
  MaxFrameSize = 1
  RedrawSize = 1
  NoticeSize = 1
  BufferLimit = 2
  WriteBudget = 1
  SocketBuffer = 1
  MaxClosing = 1
  MaxFrames = 1
  Requests <- MCRequests
  EventKinds = {"out"}
  Capacity = 1
  MaxRecords = 1
  MaxEvents = 1
PROPERTIES RecordNeverHolds
CHECK_DEADLOCK FALSE
