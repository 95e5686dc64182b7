CONSTANTS
    cli = cli
    r1 = r1
    r2 = r2
    Rules = {r1, r2}
    DaemonThreads = {"loop"}
    Clis = {}
    DiskFaults = TRUE
    MaxSessions = 1
    MaxOps = 5
    MaxBoots = 3
    Empty = Empty
    Corrupt = Corrupt
    None = None
SPECIFICATION Spec
INVARIANT TypeOK
INVARIANT AckedIsDurable
PROPERTY SaveIsAtomic
CHECK_DEADLOCK FALSE
