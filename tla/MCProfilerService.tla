--------------------------- MODULE MCProfilerService ---------------------------
(* The profiler service with a few pids and processes. *)
EXTENDS ProfilerService, TLC

CONSTANTS p1, p2

\* The cache holds lists of processes.
MCLists == Lists

\* Nothing depends on which pid is which.
MCSymmetry == Permutations({p1, p2})
===============================================================================
