---------------------------- MODULE ProfilerService ----------------------------
(***************************************************************************)
(* The profiler service: get_profile and list_processes join, by pid, the  *)
(* I/O statistics of the collector's last tick with a list of processes    *)
(* that a slow walk over the kernel's tasks produces and the session's     *)
(* cache keeps.  Statistics, list and kernel are three views of different  *)
(* age: processes start and exit, and pids are reused, at every point.     *)
(*                                                                         *)
(* Calls run one at a time on the worker.  A process is named by its birth *)
(* number, which stands for its start_boottime; 0 is a start time that     *)
(* could not be read.  TargetRegistry.refresh is represented by what       *)
(* TargetRegistryProofs shows of it: after it, the active sessions are     *)
(* those of the processes in the list it was given, one per pid.           *)
(***************************************************************************)
EXTENDS AdaptiveTtlCache

CONSTANTS
    Pids,
    KernelBirths,   \* the births that are kernel threads, without an mm
    MaxBirths       \* bound: processes born

Births == 0 .. MaxBirths

\* A ProcessInfo: its start time, and whether it is bare, with neither cmdline
\* nor exe, which makes its error "kernel thread".
Infos == [start: Births, bare: BOOLEAN]

\* A list of processes: what is known of each pid in it.
Lists == UNION {[S -> Infos] : S \in SUBSET Pids}

ASSUME ProfilerAssumption ==
    MaxBirths \in Nat /\ Lists \subseteq Values /\ None # "gone"

VARIABLES
    births,     \* processes born so far
    alive,      \* the process running under each pid, 0 when there is none
    tick,       \* processes with I/O in the collector's last complete tick;
                \* None while there is no log file
    pc,         \* where the call on the worker is
    op,         \* which call it is
    stats,      \* its view of the tick: <<pid, process>> pairs
    available,  \* its view of whether the log is there
    walk,       \* the list of processes in the making
    unread,     \* pids the walk has not come to
    missed,     \* pids of which it met a task that could not be read
    walkFrom,   \* births when the last walk began
    profile,    \* the answer of get_profile, until the next call
    listing     \* the answer of list_processes, until the next call

kernelVars == <<births, alive>>
callVars == <<pc, op, stats, available>>
walkVars == <<walk, unread, missed, walkFrom>>
resultVars == <<profile, listing>>
vars == <<cacheVars, kernelVars, tick, callVars, walkVars, resultVars>>

NoProcs == [p \in {} |-> 0]

-----------------------------------------------------------------------------
(* The kernel and the collector. *)

Spawn(pid) ==
    /\ alive[pid] = 0
    /\ births < MaxBirths
    /\ births' = births + 1
    /\ alive' = [alive EXCEPT ![pid] = births + 1]
    /\ UNCHANGED <<cacheVars, tick, callVars, walkVars, resultVars>>

Exit(pid) ==
    /\ alive[pid] # 0
    /\ alive' = [alive EXCEPT ![pid] = 0]
    /\ UNCHANGED <<cacheVars, births, tick, callVars, walkVars, resultVars>>

\* A tick is complete: the processes in active did I/O during it.
CollectorTick(active) ==
    /\ \A pid \in active : alive[pid] # 0
    /\ tick' = {<<pid, alive[pid]>> : pid \in active}
    /\ UNCHANGED <<cacheVars, kernelVars, callVars, walkVars, resultVars>>

Elapse == Tick /\ UNCHANGED <<kernelVars, tick, callVars, walkVars, resultVars>>

-----------------------------------------------------------------------------
(* A call on the worker. *)

\* _process_stats: nothing without a log.
Begin(call) ==
    /\ pc = "idle"
    /\ pc' = "lookup"
    /\ op' = call
    /\ stats' = IF tick = None THEN {} ELSE tick
    /\ profile' = None
    /\ listing' = NoProcs
    /\ UNCHANGED <<cacheVars, kernelVars, tick, available, walkVars>>

\* get_profile looks at the log a second time.
CheckLog == available' = IF op = "profile" THEN tick # None ELSE available

\* _proc_infos, hit.
LookupHit ==
    /\ pc = "lookup"
    /\ Fresh
    /\ CheckLog
    /\ pc' = "report"
    /\ UNCHANGED <<cacheVars, kernelVars, tick, op, stats, walkVars, resultVars>>

\* _proc_infos, miss: procinfo.list_processes begins its walk.
LookupMiss ==
    /\ pc = "lookup"
    /\ StartCompute
    /\ CheckLog
    /\ pc' = "walk"
    /\ walk' = NoProcs
    /\ unread' = Pids
    /\ missed' = {}
    /\ walkFrom' = births
    /\ UNCHANGED <<kernelVars, tick, op, stats, resultVars>>

\* What the walk may make of a thread group: nothing when no tgid and tid of
\* its tasks can be read, else an entry.  Its start time is 0 when the leader
\* was not met or start_boottime cannot be read; it is bare when cmdline and
\* exe are empty, which those of a kernel thread always are and those of
\* another process are when its memory cannot be read.
Readings(pid) ==
    IF alive[pid] = 0 THEN {None}
    ELSE {None} \cup {info \in [start: {0, alive[pid]}, bare: BOOLEAN] :
                        alive[pid] \in KernelBirths => info.bare}

\* Mutant: a thread group whose start time is unknown is left out.
ReadTaskWithLeader(pid, info) ==
    /\ pc = "walk"
    /\ pid \in unread
    /\ info \in Readings(pid)
    /\ unread' = unread \ {pid}
    /\ missed' = IF alive[pid] # 0 /\ info = None THEN missed \cup {pid} ELSE missed
    /\ walk' = IF info = None \/ info.start = 0 THEN walk
               ELSE [q \in DOMAIN walk \cup {pid} |->
                       IF q = pid THEN info ELSE walk[q]]
    /\ UNCHANGED <<cacheVars, kernelVars, tick, callVars, walkFrom, resultVars>>

\* The walk comes to a pid; a pid without tasks adds nothing.
ReadTask(pid, info) ==
    /\ pc = "walk"
    /\ pid \in unread
    /\ info \in Readings(pid)
    /\ unread' = unread \ {pid}
    /\ missed' = IF alive[pid] # 0 /\ info = None THEN missed \cup {pid} ELSE missed
    /\ walk' = IF info = None THEN walk
               ELSE [q \in DOMAIN walk \cup {pid} |->
                       IF q = pid THEN info ELSE walk[q]]
    /\ UNCHANGED <<cacheVars, kernelVars, tick, callVars, walkFrom, resultVars>>

\* Mutant: what was known of a pid is kept rather than read again.
EndWalkKeeping ==
    LET known == IF entry = None THEN NoProcs ELSE entry.value
    IN  /\ pc = "walk"
        /\ unread = {}
        /\ EndCompute([pid \in DOMAIN walk |->
                         IF pid \in DOMAIN known THEN known[pid] ELSE walk[pid]])
        /\ pc' = "report"
        /\ walk' = NoProcs
        /\ UNCHANGED <<kernelVars, tick, op, stats, available, unread, missed,
                       walkFrom, resultVars>>

\* The walk is over and its list is cached.
EndWalk ==
    /\ pc = "walk"
    /\ unread = {}
    /\ EndCompute(walk)
    /\ pc' = "report"
    /\ walk' = NoProcs
    /\ UNCHANGED <<kernelVars, tick, op, stats, available, unread, missed,
                   walkFrom, resultVars>>

\* Attaching to the kernel or the walk raises; the call fails.
FailWalk ==
    /\ pc = "walk"
    /\ FailCompute
    /\ pc' = "idle"
    /\ walk' = NoProcs
    /\ unread' = {}
    /\ stats' = {}
    /\ UNCHANGED <<kernelVars, tick, op, available, missed, walkFrom, resultVars>>

procs == entry.value

\* refresh(procs, stats): what each session is charged with, and the I/O of
\* pids without one.
Charges == {[pid |-> st[1], start |-> procs[st[1]].start, by |-> st[2]] :
               st \in {s \in stats : s[1] \in DOMAIN procs}}

ReportProfile ==
    /\ pc = "report"
    /\ op = "profile"
    /\ profile' = [sessions  |-> procs,
                   charges   |-> IF available THEN Charges ELSE {},
                   available |-> available]
    /\ pc' = "idle"
    /\ stats' = {}
    /\ UNCHANGED <<cacheVars, kernelVars, tick, op, available, walkVars, listing>>

\* The entries of list_processes with the reason why one cannot be selected:
\* the listed processes, and the pids with I/O that are not listed.
Entries ==
    [pid \in DOMAIN procs \cup {st[1] : st \in stats} |->
       [io |-> \E st \in stats : st[1] = pid,
        unselectable_reason |-> IF pid \notin DOMAIN procs THEN "gone"
                                ELSE IF procs[pid].bare THEN "kernel thread"
                                ELSE None]]

ReportListing(onlyIo) ==
    /\ pc = "report"
    /\ op = "list"
    /\ listing' = [pid \in {p \in DOMAIN Entries : ~onlyIo \/ Entries[p].io} |->
                     Entries[pid]]
    /\ pc' = "idle"
    /\ stats' = {}
    /\ UNCHANGED <<cacheVars, kernelVars, tick, op, available, walkVars, profile>>

-----------------------------------------------------------------------------
Init ==
    /\ CacheInit
    /\ births = 0
    /\ alive = [pid \in Pids |-> 0]
    /\ tick = None
    /\ pc = "idle"
    /\ op = "profile"
    /\ stats = {}
    /\ available = FALSE
    /\ walk = NoProcs
    /\ unread = {}
    /\ missed = {}
    /\ walkFrom = 0
    /\ profile = None
    /\ listing = NoProcs

Next ==
    \/ \E pid \in Pids : Spawn(pid) \/ Exit(pid)
    \/ \E active \in SUBSET Pids : CollectorTick(active)
    \/ Elapse
    \/ \E call \in {"profile", "list"} : Begin(call)
    \/ LookupHit
    \/ LookupMiss
    \/ \E pid \in Pids : \E info \in Readings(pid) : ReadTask(pid, info)
    \/ EndWalk
    \/ FailWalk
    \/ ReportProfile
    \/ \E onlyIo \in BOOLEAN : ReportListing(onlyIo)

Spec == Init /\ [][Next]_vars

-----------------------------------------------------------------------------
\* The process under pid has been running since before the list was read.
Settled(pid) == alive[pid] # 0 /\ alive[pid] <= walkFrom

(* What the join by pid gives for certain, however old the list is: the    *)
(* I/O of a process that was there before the walk and still is goes to    *)
(* its own session, or to the one of its pid with an unknown start time.   *)
OwnSession ==
    profile # None =>
      \A pid \in Pids, c \in profile.charges :
        c.pid = pid /\ Settled(pid) /\ alive[pid] = c.by => c.start \in {0, c.by}

(* A process that was there before the walk and still is has a session     *)
(* when it is a target, and the list of processes never calls it gone,     *)
(* although the walk reads the tasks one by one while others come and go   *)
(* and leaders are missed.  Of a process that it met but could not read    *)
(* the code keeps nothing.                                                 *)
StaysVisible ==
    /\ profile # None =>
         \A pid \in Pids \ missed : Settled(pid) => pid \in DOMAIN profile.sessions
    /\ \A pid \in (Pids \cap DOMAIN listing) \ missed :
         Settled(pid) => listing[pid].unselectable_reason # "gone"

\* A list is right about every settled process.
RightAbout(list) ==
    \A pid \in Pids :
      Settled(pid) => /\ pid \in DOMAIN list \cup missed
                      /\ pid \in DOMAIN list => list[pid].start \in {0, alive[pid]}

(* Why OwnSession and StaysVisible hold: the walk is right about the pids  *)
(* it has come to, and the cached list stays right as long as it may be    *)
(* used, because a process that appears later is not settled and a failed  *)
(* walk leaves only an expired list behind.                                *)
ServiceInv ==
    /\ CacheInv
    /\ births \in Births
    /\ alive \in [Pids -> Births]
    /\ \A pid \in Pids : alive[pid] <= births
    /\ walkFrom \in 0 .. births
    /\ walk \in Lists
    /\ pc = "walk" => DOMAIN walk \cap unread = {}
    /\ pc \in {"idle", "lookup", "walk", "report"}
    /\ pc = "walk" <=> started # None
    /\ pc = "walk" =>
         /\ ~Fresh
         /\ \A pid \in Pids \ unread :
              Settled(pid) =>
                /\ pid \in DOMAIN walk \cup missed
                /\ pid \in DOMAIN walk => walk[pid].start \in {0, alive[pid]}
    /\ Fresh \/ pc = "report" => RightAbout(entry.value)
    /\ pc \in {"lookup", "walk", "report"} => profile = None /\ listing = NoProcs
    /\ OwnSession
    /\ StaysVisible

(* What the comment in TargetRegistry.refresh calls the most dangerous     *)
(* error must not happen: I/O of one process in the session of another.    *)
NoMixedSession ==
    profile # None => \A c \in profile.charges : c.start \in {0, c.by}

(* What the comment of procinfo._cmdline asks for: that a process has no   *)
(* cmdline because it is a kernel thread must be told apart from a cmdline *)
(* that could not be read, so only kernel threads are refused as such.     *)
KernelThreadsOnly ==
    \A pid \in Pids \cap DOMAIN listing :
      Settled(pid) /\ listing[pid].unselectable_reason = "kernel thread" =>
        alive[pid] \in KernelBirths
===============================================================================
