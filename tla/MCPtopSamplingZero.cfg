\* Two readings in one jiffy, after a sleep that a signal ended.
SPECIFICATION Spec
CONSTANTS
    Pids = {1, 2}
    Word = 64
    MaxTicks = 2
    MaxBirths = 3
    MaxHanded = 2
    MaxDrops = 0
INVARIANTS
    BusyIsReal
