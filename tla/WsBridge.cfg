\* Two messages of the browser beside output and lost leader roles, three events in all.
SPECIFICATION AttachSpec
CONSTANTS
  MaxMsgs = 2
  MaxEvents = 3
INVARIANTS BridgeFaithful
PROPERTY AttachEnds
CHECK_DEADLOCK FALSE
