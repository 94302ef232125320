SPECIFICATION MCSpec
CONSTANTS
  Commands = {"kill", "kill --wait", "kill --kill-on-timeout", "kill --no-terminate", "detach", "upgrade",
    "status", "set", "screen dump", "snapshot", "tail", "wait", "idle", "lock", "lock --mode=wait",
    "unlock", "record start", "record list", "record stop --all", "record stop",
    "GET screen", "POST input", "POST resume", "POST resize"}
  Records = {1, 2}
  MaxEvents = 2
  Sessions = {1, 2, 3, 4}
  OldSessions = {3}
  Requesters = {r1, r2}
  MaxChanges = 2
  Guides = {"help", "bash", "zsh", "fish"}
  MaxOptions = 3
INVARIANTS ExitTruthful TargetRight HelpFollowed CompletionFollowed
PROPERTIES CommandsEnd
CHECK_DEADLOCK FALSE
