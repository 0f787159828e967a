\* Every interleaving of the loop with signals and failures: safety, liveness and
\* the refinement of PtopMonitor.  Four blocks: as many as are ever live together.
SPECIFICATION FairSpec
CONSTANTS
    Blocks = {b1, b2, b3, b4}
    Null = Null
    Garbage = Garbage
    MaxCount = 3
    MaxGrow = 2
INVARIANTS
    HeapOwned
    MemorySafe
    OneLateDisplay
    CountKept
    CursorRestored
PROPERTIES
    ExitAnswered
    CountEnds
    ImplementsMonitor
