SPECIFICATION Spec
CONSTANTS
    None = None
    Worker = {w1, w2}
    MaxFd = 4
    MaxChunks = 2
INVARIANT
    WritesOwnFile
