CONSTANTS
    Byte = {x, newline, nul}
    Newline = newline
    Nul = nul
    N = 4
    FifoSize = 2
SPECIFICATION FairSpec
INVARIANT
    SerialTypeOK
PROPERTIES
    ImplementsQueue
    NothingIsStuck
