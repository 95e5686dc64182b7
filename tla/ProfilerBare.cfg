SPECIFICATION Spec
SYMMETRY MCSymmetry
CONSTANTS
    p1 = p1
    p2 = p2
    Pids = {p1, p2}
    KernelBirths = {2}
    MaxBirths = 3
    MinTtl = 1
    Factor = 2
    MaxTime = 3
    None = None
    Values <- MCLists
INVARIANT KernelThreadsOnly
