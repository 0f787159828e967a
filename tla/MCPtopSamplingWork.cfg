\* One child, its user time and its end.
SPECIFICATION Spec
CONSTANTS
    Pids = {1, 2}
    Word = 64
    MaxTicks = 2
    MaxHanded = 2
    MaxBirths = 2
    MaxDrops = 0
INVARIANTS
    ChargeIsWork
