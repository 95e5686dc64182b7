CONSTANTS
    Pids = {1, 2}
    Starts = {0, 7}
    fio = fio
    auto = auto
    Programs <- MCPrograms
    RuleValues <- MCRuleValues
    Adapters = {auto}
    RuleInputs <- MCRuleInputs
    NameRegex = {}
    CmdlineRegex = {}
    StatLists <- MCStatLists
    MaxKept = 2
    TicksPerSecond = 3
    SuffixMod = 7
    DiskFaults = TRUE
    MaxClock = 3
    MaxBoots = 2
    None = None
SPECIFICATION Spec
INVARIANT TypeOK
INVARIANT RegistryInv
INVARIANT OneSessionPerProcess
INVARIANT ActiveIsObserved
INVARIANT OneActivePerPid
INVARIANT NoIoHidden
PROPERTY SessionsPreserved
