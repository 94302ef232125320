SPECIFICATION Spec
CONSTANTS
  Units = {1, 2}
  Addresses = {1, 2}
  Commands = {c1, c2}
  Ops = {"start", "stop", "restart", "add", "remove", "shutdown"}
  MaxOps = 2
  MaxFaults = 1
INVARIANTS NoStrayChild RegistrySound
PROPERTIES RequestsEnd StoppedStays
CHECK_DEADLOCK FALSE
