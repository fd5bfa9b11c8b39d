SPECIFICATION Spec
CONSTANTS
    Thread = {t1, t2}
    Path <- Paths
    Op <- Ops
    config_path = "conf"
    ConfigFile <- Files
    ErrnoTable <- Table
    Beyond <- Behind
    MAX_PROBABLITY = 2
    UintMod = 8
    None = None
    Unreadable = Unreadable
    MaxReloads = 1
INVARIANT
    InjectsAsDocumented
