\* The child, its clients, every way to end a session, and one upgrade that
\* may succeed or fail.
SPECIFICATION ChildSpec
CONSTANTS
  ChildSignals = {"CONT", "TERM", "USR1"}
  TimeoutSet = TRUE
  UntilSet = TRUE
  KillWaits = TRUE
  InitialPolicy = "auto-resume"
  MaxUpgrades = 1
  MaxConts = 2
  SilentContinue = TRUE
INVARIANTS ExitCodeFaithful
PROPERTIES SessionEnds StopFollowed
CHECK_DEADLOCK FALSE
