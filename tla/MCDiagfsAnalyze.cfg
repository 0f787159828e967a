\* A word of 12 bits and kilobytes of 128 bytes, as many as in a 32-bit word
\* are left over after the product with 100; up to 24 blocks of a quarter of
\* a kilobyte, one, or four, which overflow.
SPECIFICATION Spec
CONSTANTS
    Word = 4096
    KB = 128
    Samples <- MCSamples
    Extents <- MCExtents
    MaxExtents = 6
    Warn = 70
    Critical = 90
    ExtentWarn = 2
    ExtentCritical = 4
INVARIANTS
    SpaceInRange
    PercentsExact
    
    SaturationHarmless
