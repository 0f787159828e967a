\* Any number of bootstraps, scripts run by hand and benchmarks over an upgrade
\* of the repository; two parts, which is enough for a tree of two versions,
\* and two samples of each case.
SPECIFICATION BenchSpec
CONSTANTS
    Parts = {"applets", "libdiag"}
    MaxVersion = 2
    Samples = 2
INVARIANTS
    OnlyVerified
    OneVersion
    Converges
    SummaryBacked
    MeasuresCurrent
    LatestWhole
