SPECIFICATION FairSpec
CONSTANTS
    Devices = {0}
    MaxEvents = 2
    MaxLines = 3
    MaxFaults = 2
    Times = {0, 1}
INVARIANT TypeOK RingIsTail ReportedOnce
PROPERTY CatchesUp
