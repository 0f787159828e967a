\* The report of a verification that failed.
SPECIFICATION Spec
INVARIANT
    PassMeansPassed
