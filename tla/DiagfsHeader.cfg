\* The header of the table comes out below it when stdout is a pipe.
SPECIFICATION Spec
CONSTANTS
    Formats = {"table", "raw", "json"}
    MaxMounts = 1
INVARIANTS
    HeaderFirst
