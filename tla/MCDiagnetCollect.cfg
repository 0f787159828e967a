\* Two entries in each table, an array that is full at the first, second and
\* third record, and a limit of two TIME_WAIT entries.
SPECIFICATION Spec
CONSTANTS
    TcpStates <- MCTcpStates
    Rank <- MCRank
    Ports = {22, 8080}
    Whitelist = {22}
    FirstCap = 1
    ManyTimeWait = 2
    MaxLines = 2
INVARIANTS
    TypeOK
    Balanced
    ListMatchesCounts
    ReportExact
PROPERTY
    ImplementsReport
