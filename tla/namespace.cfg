SPECIFICATION Spec
CONSTANTS
    d = d  c = c  x = x
    Root = Root
    None = None
    Sess = {s1, s2}
    Path = {d, c, x}
    parent <- Tree
    DirName = {d, c}
    FileName = {x}
    MaxCrashes = 1
INVARIANTS
    TypeOK
    OneOwner
    ReportedTruly
    OwnListed
PROPERTY
    CallsEnd
