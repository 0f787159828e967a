\* Every kind of mount, in tables of up to three lines, with every option.
SPECIFICATION Spec
CONSTANTS
    Formats = {"table", "raw", "json"}
    MaxMounts = 3
INVARIANTS
    JsonDocument
    AllReported
PROPERTY
    ImplementsReport
