\* Command lines of up to three options, an int of 4 bits and a long of 5, so
\* that an argument is cut to an int and kept within a long; up to three
\* processes with two loads and two sizes, in any order.
SPECIFICATION Spec
CONSTANTS
    Numbers <- MCNumbers
    IntHalf = 8
    LongHalf = 16
    Letters = {"R", "t"}
    Upper <- MCUpper
    InBusyBox = TRUE
    MaxArgs = 3
    Pids = {1, 2, 3}
    Levels = {0, 1}
    States = {"R", "t"}
INVARIANTS
    LastWins
    Sane
    TypeOK
    Deterministic
