\* Texts: an address of four digits, a port of two, a word of five digits, so that
\* a number may overflow an unsigned int or an unsigned long; names of up to five
\* characters before a line of six numbers: ppid, one that counts nothing, utime, stime,
\* cutime and one more.
\* Command lines of four options; whitelists whose array grows at the first, third
\* and fifth port.
SPECIFICATION MCSpec
CONSTANTS
    Digits <- MCDigits
    LongDigits = 5
    ByteDigits = 1
    PortDigits = 2
    Before = 1
    Fields = 6
    NameMax = 6
    Alphabet <- MCAlphabet
    MaxText <- MCMaxText
    Blocks = {b1, b2, b3}
    FirstCap = 2
    MaxOptions = 4
    MaxPorts = 5
INVARIANTS
    NumberMeans
    AddressExact
    StatExact
    Exclusive
    MemorySafe
    InBounds
