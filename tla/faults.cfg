SPECIFICATION Spec
CONSTANTS
    NUL = NUL
    None = None
    Path = {p}
    Byte = {a}
    k1 = k1  k2 = k2
    s1 = s1  s2 = s2
    i1 = i1  i2 = i2  i3 = i3
    Client = {k1}
    Sess = {s1, s2}
    host <- SameClient
    Worker = {w1}
    Inode = {i1, i2}
    Garbage <- Uninit
    MaxLen = 1
    MaxWrites = 1
    MaxClock = 2
    MaxFaults = 1
    Env = {"unlink", "truncate", "ioerr", "putcrash", "scrash"}
SYMMETRY SessAndInodes
INVARIANTS
    TypeOK
    CopyPresent
    UploadSealed
