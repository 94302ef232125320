SPECIFICATION Spec
CONSTANTS
  Chunks <- MCChunks
  Confs <- MCConfs
  Sizes = {"80x24", "40x12"}
  MaxEvents = 3
  MaxTstp = 1
INVARIANTS KeysArrive TerminalSane SizeFollows
PROPERTY ChildWoken
CHECK_DEADLOCK FALSE
