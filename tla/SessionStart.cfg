SPECIFICATION Spec
CONSTANTS
    d1 = d1
    d2 = d2
    l1 = l1
    old = old
    Daemons = {d1, d2, old}
    Legacy = {old}
    Listers = {l1}
    None = None
    RefusesWhenFull = TRUE
    MaxCrashes = 1
    MaxUpgrades = 1
INVARIANTS NameHeld StartTruthful
PROPERTIES LeftoverPruned NameOwnerSpec
CHECK_DEADLOCK FALSE
