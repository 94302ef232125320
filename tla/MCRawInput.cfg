\* Two clients in all roles; frames larger than what the PTY takes at once.
SPECIFICATION Spec
CONSTANTS
  NumClients = 2
  Roles <- MCRoles
  Lossy = {2}
  NumFrames = 2
  FrameSize = 2
  PtySize = 1
  MaxFeedbackRounds = 8
INVARIANTS FrameAccounted InvocationAtomic
PROPERTIES LockReturned
CHECK_DEADLOCK FALSE
