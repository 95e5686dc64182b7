SPECIFICATION FairSpec
CONSTANTS
    metrics = metrics
    perf = perf
    rest = rest
    Streams = {metrics, perf}
    Direct = {perf}
    Calls = {rest}
    MaxInbox = 1
INVARIANT TypeOK NoStaleWork AcloseSafe
PROPERTY LeaversEnd CallsServed StreamsFlow
