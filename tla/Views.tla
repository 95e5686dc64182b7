-------------------------------- MODULE Views --------------------------------
(***************************************************************************)
(* The views that are computed from one look at the system: each behaviour *)
(* is one request, or a client that opens rows of the pointer tree one     *)
(* after the other.  What Requests answers with, where it answers OK.      *)
(***************************************************************************)
EXTENDS PrpDecode, TreeWalk, Topology, Workload, Convert

CONSTANTS MaxLen,       \* bound: bytes of a transfer
          Heaps,        \* what the objects of the kernel may look like
          Machines,     \* what buses and disks may look like
          TokenLists,   \* command lines and job files of fio
          Processes,    \* the measured processes
          Definitions   \* what they are started with: command line, job file

ASSUME ViewsAssumption ==
    /\ MaxLen \in Nat
    /\ \A heap \in Heaps : HeapOK(heap)
    /\ \A m \in Machines : IsMachine(m)
    /\ \A tokens \in TokenLists : IsDefinition(tokens)
    /\ \A p \in Processes : IsProcess(p)
    /\ \A d \in Definitions : IsDefinition(d.cmdline) /\ IsDefinition(d.jobfile)

VARIABLE asked          \* the request being answered

ViewsInit == asked = [view |-> "none", in |-> 0]

AskFor(view, in) ==
    /\ asked.view = "none"
    /\ asked' = [view |-> view, in |-> in]

ShowPrp == \E x \in Transfers(MaxLen) : AskFor("prp", x)

ShowTree == \E heap \in Heaps : AskFor("tree", [heap |-> heap, path |-> <<>>])

\* A client opens a row that it sees.
OpenRow ==
    /\ asked.view = "tree" /\ Len(asked.in.path) <= MAX_DEPTH
    /\ \E row \in Expand(asked.in.heap, 1, asked.in.path).children :
          asked' = [asked EXCEPT !.in.path = Append(@, row.name)]

ShowTopology == \E m \in Machines : AskFor("topology", m)

ShowJobs == \E t \in TokenLists : AskFor("jobs", t)

ShowGroups ==
    \E p \in Processes, d \in Definitions :
        AskFor("groups", [p |-> p, cmdline |-> d.cmdline, jobfile |-> d.jobfile])

ShowValue == \E k \in Kinds : \E x \in Values(k) : AskFor("value", [kind |-> k, x |-> x])

ViewsNext ==
    ShowPrp \/ ShowTree \/ OpenRow \/ ShowTopology \/ ShowJobs \/ ShowGroups \/ ShowValue

ViewsSpec == ViewsInit /\ [][ViewsNext]_asked

-----------------------------------------------------------------------------
\* The dump of a command's data is the beginning of its buffer (ShowsPrefix).
PrpShowsPrefix == asked.view = "prp" => ShowsPrefix(asked.in)

\* Every row a client sees leads to the object the row showed, or is one of those that
\* raise (RowsOpen).
TreeRowsOpen == asked.view = "tree" => RowsOpen(asked.in.heap, 1, asked.in.path)

\* The topology tree has each controller once, in its place (TreeSound).
TopologySound == asked.view = "topology" => TreeSound(asked.in)

\* A fio job has its own options and the defaults before it (OptionsAreOwn).
JobOptions == asked.view = "jobs" => OptionsAreOwn(asked.in)

\* The groups of a process share out the I/O of its threads without counting any twice
\* (GroupsPartition).
GroupsShare == asked.view = "groups" => GroupsPartition(asked.in.p, asked.in.cmdline, asked.in.jobfile)

\* Command line and browser tell the same values apart (ToldApart).
FrontEndsAgree == asked.view = "value" => ToldApart(asked.in.kind, asked.in.x)

\* An expandable row can be opened (ExpandableOpens).
ExpandableRowsOpen == asked.view = "tree" => ExpandableOpens(asked.in.heap, 1, asked.in.path)

\* A failed read does not cost the whole topology (TreeReturned).
TopologySurvives == asked.view = "topology" => TreeReturned(asked.in)

\* A job is compared with the direction it states for itself (OwnDirection).
JobDirection == asked.view = "jobs" => OwnDirection(asked.in)

\* The groups have together no more than the process (SharesWithinProcess).
SharesAddUp == asked.view = "groups" => SharesWithinProcess(asked.in.p, asked.in.cmdline, asked.in.jobfile)

\* A job without I/O is not told to match (IdleUndecided).
IdleJobsUndecided == asked.view = "groups" => IdleUndecided(asked.in.p, asked.in.cmdline, asked.in.jobfile)
=============================================================================
