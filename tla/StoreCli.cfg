CONSTANTS
    cli = cli
    r1 = r1
    r2 = r2
    Rules = {r1, r2}
    DaemonThreads = {"loop"}
    Clis = {cli}
    DiskFaults = FALSE
    MaxSessions = 1
    MaxOps = 3
    MaxBoots = 1
    Empty = Empty
    Corrupt = Corrupt
    None = None
SPECIFICATION Spec
INVARIANT AckedSurvives
CHECK_DEADLOCK FALSE
