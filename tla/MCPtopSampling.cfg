\* Two pids, three processes (so a pid is reused), two jiffies and one of iowait
\* taken back; up to two that reapers inherit.
SPECIFICATION Spec
CONSTANTS
    Pids = {1, 2}
    Word = 64
    MaxTicks = 2
    MaxBirths = 3
    MaxHanded = 2
    MaxDrops = 1
INVARIANTS
    Complete
    NoOvercharge
    ChargesFit
    SystemShare
