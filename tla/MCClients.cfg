\* Client 3 may have a full queue at any enqueue, and an upgrade may abort.  A ring of two
\* bytes; streams of up to seven bytes with two-byte frame headers; four bytes of output and
\* a resize on the daemon's screen; a screen of three cells and one line of scrollback for
\* its text.
SPECIFICATION MCSpec
CONSTANTS
  MaxClientId = 3
  MaxClients = 2
  MaxPending = 2
  Slow = {3}
  UpgradeMayAbort = TRUE
  Readers = {"frames", "until", "strip"}
  HeaderLen = 2
  Base = 4
  MaxFrameSize = 6
  MaxCarry = 3
  Clients = {c1}
  MaxBytes = 2
  MaxChunk = 3
  MaxOutput = 3
  MaxTime = 2
  Lasts = {1, 3}
  Viewers = {v1}
  Sizes = {1, 2}
  LogCapacity = 3
  MaxRead = 3
  MaxMade = 4
  MaxResizes = 1
  Cols = 3
  Rows = 1
  ScrollbackLen = 1
INVARIANTS LeaderPresent LockHolderAttached SoleExclusiveWriter ViewsAgree SweptClean ChunksInvisible ShownTrue
CHECK_DEADLOCK FALSE
