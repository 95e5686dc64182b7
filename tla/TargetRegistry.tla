---------------------------- MODULE TargetRegistry ----------------------------
(***************************************************************************)
(* The profiler's registry of target rules and observation sessions        *)
(* (backend/targets.py, class TargetRegistry).                             *)
(*                                                                         *)
(* Two threads of the daemon work on one registry.  The executor's worker  *)
(* runs refresh(), whose loop over the matched processes is one action per *)
(* iteration here; the event-loop thread runs add_rule, remove_rule and    *)
(* clear_rules between any two of those iterations.  The daemon may be     *)
(* killed and started again at any point and then finds what _save wrote.  *)
(* _save itself is one step in this module; TargetStore opens it up.       *)
(***************************************************************************)
EXTENDS Naturals, Sequences, FiniteSetsExt

CONSTANTS
    Pids,           \* process ids, a set of naturals
    Starts,         \* start_time_ns values; 0 stands for "leader not read"
    Programs,       \* what comm, exe_path and cmdline of a process name
    RuleValues,     \* what a rule is compared with: a pid, a name, a pattern
    Adapters,       \* the adapter names a rule may force
    RuleInputs,     \* the rules a user submits
    NameRegex,      \* <<pattern, program>>: the pattern finds the name
    CmdlineRegex,   \* <<pattern, program>>: the pattern finds the cmdline
    StatLists,      \* the per-process I/O statistics a tick may hold
    MaxKept,        \* the max_finished parameter (50 in the code)
    TicksPerSecond, \* clock values that share one strftime second
    SuffixMod,      \* 65536 in the code: start_ns & 0xFFFF
    DiskFaults,     \* TRUE when writing the state file may fail
    MaxClock,       \* bound: refresh() calls
    MaxBoots,       \* bound: daemon starts
    None

VALID_KINDS == {"pid", "name", "name_pattern", "cmdline_pattern"}

ASSUME ConstantsAssumption ==
    /\ Pids \subseteq Nat
    /\ Starts \subseteq Nat
    /\ RuleInputs \subseteq [kind: STRING, value: RuleValues,
                            adapter: Adapters]
    /\ MaxKept \in Nat \ {0}
    /\ TicksPerSecond \in Nat \ {0}
    /\ SuffixMod \in Nat \ {0}
    /\ \A stats \in StatLists : /\ IsFiniteSet(stats)
                                /\ \A st \in stats : st.iops \in Nat
    /\ DiskFaults \in BOOLEAN
    /\ None \notin Nat

VARIABLES
    rules,      \* self.rules, the set of [kind, value, adapter] records
    sessions,   \* self.sessions, a dict: in insertion order
    byIdentity, \* self._by_identity: <<pid, start>> -> session id
    file,       \* what the state file holds
    clock,      \* time.time_ns(), one tick per refresh()
    boots,      \* how often the daemon was started
    pc,         \* the worker: "idle" or inside refresh()
    plist,      \* refresh(): by_pid, cut down to the matched processes
    todo,       \* refresh(): matched pids the loop has not reached
    activeIds,  \* refresh(): active_ids
    swept,      \* refresh(): the session the second loop last closed
    snapshot    \* the ProfileSnapshot of the last refresh()

registryVars == <<rules, sessions, byIdentity, file>>
refreshVars == <<pc, plist, todo, activeIds, swept, snapshot>>
vars == <<rules, sessions, byIdentity, file, clock, boots, pc, plist, todo,
          activeIds, swept, snapshot>>

-----------------------------------------------------------------------------
(* Data.                                                                   *)

Rule == [kind: VALID_KINDS, value: RuleValues, adapter: Adapters]

Proc == [start: Starts, prog: Programs]
ProcLists == UNION {[P -> Proc] : P \in SUBSET Pids}

Session == [id: Seq(Nat), pid: Pids, start: Starts, cmdline: Programs,
            status: {"active", "finished"}, begin: Nat, end: Nat \cup {None}]

\* The function with no arguments: an empty dict.
EmptyDict == [x \in {} |-> None]

Ids(ss) == {ss[i].id : i \in DOMAIN ss}
Identity(s) == <<s.pid, s.start>>

-----------------------------------------------------------------------------
(* Rules.                                                                  *)

SameKey(r, kind, value) == r.kind = kind /\ r.value = value

rule_matches(rule, pid, proc) ==
    \/ rule.kind = "pid" /\ rule.value = pid
    \/ rule.kind = "name" /\ rule.value = proc.prog
    \/ rule.kind = "name_pattern" /\ <<rule.value, proc.prog>> \in NameRegex
    \/ rule.kind = "cmdline_pattern"
         /\ <<rule.value, proc.prog>> \in CmdlineRegex

\* The pids resolve() maps to a rule.
resolve(procs) ==
    {pid \in DOMAIN procs : \E r \in rules : rule_matches(r, pid, procs[pid])}

\* The last MaxKept sessions, which is all that a save keeps.
Kept(ss) ==
    IF Len(ss) <= MaxKept THEN ss
                          ELSE SubSeq(ss, Len(ss) - MaxKept + 1, Len(ss))

\* _save: replace the whole file, or leave it when the disk refuses.
Save(rs, ss) ==
    \/ file' = [rules |-> rs, sessions |-> Kept(ss)]
    \/ DiskFaults /\ file' = file

\* Mutant: the kind of a rule is not checked.
add_rule_any_kind(rule) ==
    /\ rules' = rules \cup {rule}
    /\ Save(rules', sessions)
    /\ UNCHANGED <<sessions, byIdentity, clock, boots, refreshVars>>

add_rule(rule) ==
    /\ rule.kind \in VALID_KINDS
    /\ rules' = IF \E r \in rules : SameKey(r, rule.kind, rule.value)
                  THEN {IF SameKey(r, rule.kind, rule.value)
                          THEN [r EXCEPT !.adapter = rule.adapter] ELSE r
                        : r \in rules}
                  ELSE rules \cup {rule}
    /\ Save(rules', sessions)
    /\ UNCHANGED <<sessions, byIdentity, clock, boots, refreshVars>>

remove_rule(kind, value) ==
    /\ \E r \in rules : SameKey(r, kind, value)
    /\ rules' = {r \in rules : ~SameKey(r, kind, value)}
    /\ Save(rules', sessions)
    /\ UNCHANGED <<sessions, byIdentity, clock, boots, refreshVars>>

clear_rules ==
    /\ rules' = {}
    /\ Save(rules', sessions)
    /\ UNCHANGED <<sessions, byIdentity, clock, boots, refreshVars>>

-----------------------------------------------------------------------------
(* Sessions.                                                               *)

IdCandidate(pid, start, n) ==
    LET second == clock \div TicksPerSecond
    IN  CASE n = 0 -> <<second, pid>>
          [] n = 1 -> <<second, pid, start % SuffixMod>>
          [] OTHER -> <<second, pid, start % SuffixMod, n>>

\* Mutant: the first candidate is returned without looking whether it is taken.
PicksFirst(pid, start, taken, n) == n = 0

\* _session_id returns its n-th candidate: the first one that is not taken.
PicksCandidate(pid, start, taken, n) ==
    /\ IdCandidate(pid, start, n) \notin taken
    /\ \A m \in 0 .. n - 1 : IdCandidate(pid, start, m) \in taken

Finish(s) == [s EXCEPT !.status = "finished", !.end = clock]

\* A known session is observed (again).
Resume(s) == [s EXCEPT !.status = "active",
                       !.end = IF s.status = "finished" THEN None ELSE s.end]

\* Mutant: the sessions of other pids are closed too.
CloseEveryOther(ss, pid, start) ==
    [i \in DOMAIN ss |-> IF ss[i].status = "active" /\ ss[i].start # start
                           THEN Finish(ss[i]) ELSE ss[i]]

\* A PID was reused: close what its former process left active.
CloseReused(ss, pid, start) ==
    [i \in DOMAIN ss |->
        IF ss[i].pid = pid /\ ss[i].status = "active" /\ ss[i].start # start
          THEN Finish(ss[i]) ELSE ss[i]]

\* dict[id] = s: overwrite in place, or add at the end.
Put(ss, s) ==
    IF s.id \in Ids(ss)
      THEN [i \in DOMAIN ss |-> IF ss[i].id = s.id THEN s ELSE ss[i]]
      ELSE Append(ss, s)

NewSession(id, pid, proc) ==
    [id |-> id, pid |-> pid, start |-> proc.start, cmdline |-> proc.prog,
     status |-> "active", begin |-> clock, end |-> None]

\* "sid is None or sid not in self.sessions" is false.
KnownIdentity(identity) ==
    identity \in DOMAIN byIdentity /\ byIdentity[identity] \in Ids(sessions)

(* refresh(), first part: take the time and resolve the rules. *)
RefreshBegin(procs) ==
    /\ pc = "idle"
    /\ clock < MaxClock
    /\ clock' = clock + 1
    /\ pc' = "refresh"
    /\ todo' = resolve(procs)
    /\ plist' = [pid \in todo' |-> procs[pid]]
    /\ activeIds' = {}
    /\ swept' = 0
    /\ snapshot' = None
    /\ UNCHANGED <<registryVars, boots>>

\* The pid the sorted loop takes next.
NextPid(pid) == pid \in todo /\ \A q \in todo : pid <= q

(* refresh(), loop body for a process without a session. *)
RefreshNew(pid) ==
    /\ pc = "refresh"
    /\ NextPid(pid)
    /\ LET proc == plist[pid]
           identity == <<pid, proc.start>>
       IN  /\ ~KnownIdentity(identity)
           /\ \E n \in 0 .. Len(sessions) :
                LET sid == IdCandidate(pid, proc.start, n)
                IN  /\ PicksCandidate(pid, proc.start, Ids(sessions), n)
                    /\ sessions' = Put(CloseReused(sessions, pid, proc.start),
                                       NewSession(sid, pid, proc))
                    /\ byIdentity' =
                         [x \in DOMAIN byIdentity \cup {identity} |->
                            IF x = identity THEN sid ELSE byIdentity[x]]
                    /\ activeIds' = activeIds \cup {sid}
           /\ Save(rules, sessions')
    /\ todo' = todo \ {pid}
    /\ UNCHANGED <<rules, clock, boots, pc, plist, swept, snapshot>>

(* refresh(), loop body for a process whose session is known.  Nothing is  *)
(* saved.                                                                  *)
RefreshKnown(pid) ==
    /\ pc = "refresh"
    /\ NextPid(pid)
    /\ LET identity == <<pid, plist[pid].start>>
           sid == byIdentity[identity]
       IN  /\ KnownIdentity(identity)
           /\ sessions' = [i \in DOMAIN sessions |->
                             IF sessions[i].id = sid THEN Resume(sessions[i])
                                                     ELSE sessions[i]]
           /\ activeIds' = activeIds \cup {sid}
    /\ todo' = todo \ {pid}
    /\ UNCHANGED <<rules, byIdentity, file, clock, boots, pc, plist, swept,
                   snapshot>>

\* Mutant: no session is ever closed by the second loop.
VanishedNever == {}

\* Mutant: a session counts as observed when its pid is, whatever process
\* runs under it.
VanishedByPid == {i \in DOMAIN sessions :
                    /\ sessions[i].status = "active"
                    /\ sessions[i].pid \notin DOMAIN plist}

\* Positions of active sessions this refresh() did not see.
Vanished == {i \in DOMAIN sessions : /\ sessions[i].status = "active"
                                     /\ sessions[i].id \notin activeIds}

\* Those of them that the second loop, which passes each session once, has
\* not come to.
Unswept == {i \in Vanished : i > swept}

(* refresh(), second loop: close the next vanished session and save. *)
RefreshSweep ==
    /\ pc = "refresh"
    /\ todo = {}
    /\ \E i \in Unswept :
         /\ \A j \in Unswept : i <= j
         /\ sessions' = [sessions EXCEPT ![i] = Finish(sessions[i])]
         /\ swept' = i
    /\ Save(rules, sessions')
    /\ UNCHANGED <<rules, byIdentity, clock, boots, pc, plist, todo, activeIds,
                   snapshot>>

Iops(stats) == MapThenSumSet(LAMBDA st : st.iops, stats)

\* Mutant: finished sessions still claim the I/O of their pid.
WatchedEver == {sessions[i].pid : i \in DOMAIN sessions}

\* session_pids
WatchedPids == {sessions[i].pid : i \in {j \in DOMAIN sessions :
                                          sessions[j].status = "active"}}

\* The device attribution and the unmonitored I/O of a snapshot, with the
\* statistics its sessions aggregate.
Attribution(stats) ==
    LET on(dev) == {st \in stats : st.device = dev}
    IN  [stats |-> stats,
         devices |->
           [dev \in {st.device : st \in stats} |->
              [total |-> Iops(on(dev)),
               attributed |-> Iops({st \in on(dev) : st.pid \in WatchedPids}),
               unattributed |-> Iops({st \in on(dev) : st.pid \notin WatchedPids}),
               contributing |->
                 {sessions[i].id : i \in
                    {j \in DOMAIN sessions :
                       /\ sessions[j].status = "active"
                       /\ \E st \in on(dev) : st.pid = sessions[j].pid}},
               warning |->
                 Cardinality({st.pid : st \in {x \in on(dev) : x.iops > 0}}) > 1]],
         unmonitored |->
           {st \in stats : st.pid \notin WatchedPids /\ st.iops > 0}]

(* refresh(), last part: build the snapshot and return it. *)
RefreshReport(stats) ==
    /\ pc = "refresh"
    /\ todo = {}
    /\ Unswept = {}
    /\ snapshot' = Attribution(stats)
    /\ pc' = "idle"
    /\ plist' = EmptyDict
    /\ activeIds' = {}
    /\ swept' = 0
    /\ UNCHANGED <<registryVars, clock, boots, todo>>

-----------------------------------------------------------------------------
(* _load, in the constructor of a registry.                                *)

Revived(s) == [s EXCEPT !.status = "finished"]

\* Mutant: the index is left empty.
LoadedIndexEmpty(ss) == EmptyDict

\* The identity index is rebuilt; the last session of an identity wins.
LoadedIndex(ss) ==
    [x \in {Identity(ss[i]) : i \in DOMAIN ss} |->
        ss[Max({i \in DOMAIN ss : Identity(ss[i]) = x})].id]

Restart ==
    /\ boots < MaxBoots
    /\ boots' = boots + 1
    /\ rules' = {r \in file.rules : r.kind \in VALID_KINDS}
    /\ sessions' = [i \in DOMAIN file.sessions |-> Revived(file.sessions[i])]
    /\ byIdentity' = LoadedIndex(file.sessions)
    /\ pc' = "idle"
    /\ plist' = EmptyDict
    /\ todo' = {}
    /\ activeIds' = {}
    /\ swept' = 0
    /\ snapshot' = None
    /\ UNCHANGED <<file, clock>>

-----------------------------------------------------------------------------
Init ==
    /\ rules = {}
    /\ sessions = <<>>
    /\ byIdentity = EmptyDict
    /\ file = [rules |-> {}, sessions |-> <<>>]
    /\ clock = 0
    /\ boots = 1
    /\ pc = "idle"
    /\ plist = EmptyDict
    /\ todo = {}
    /\ activeIds = {}
    /\ swept = 0
    /\ snapshot = None

RefreshLoop(pid) == RefreshNew(pid) \/ RefreshKnown(pid)

(* The worker runs on once refresh() was called. *)
Worker ==
    \/ \E pid \in Pids : RefreshLoop(pid)
    \/ RefreshSweep
    \/ \E stats \in StatLists : RefreshReport(stats)

Next ==
    \/ \E rule \in RuleInputs : add_rule(rule)
    \/ \E rule \in RuleInputs : remove_rule(rule.kind, rule.value)
    \/ clear_rules
    \/ \E procs \in ProcLists : RefreshBegin(procs)
    \/ Worker
    \/ Restart

Spec == Init /\ [][Next]_vars

-----------------------------------------------------------------------------
(* Correctness.                                                            *)

(* The type invariant: what each piece of registry state may hold. *)
TypeOK ==
    /\ rules \subseteq Rule
    /\ sessions \in Seq(Session)
    /\ DOMAIN byIdentity \subseteq Pids \X Starts
    /\ byIdentity \in [DOMAIN byIdentity -> Seq(Nat)]
    /\ file \in [rules: SUBSET Rule, sessions: Seq(Session)]
    /\ clock \in Nat
    /\ boots \in Nat
    /\ pc \in {"idle", "refresh"}
    /\ plist \in ProcLists
    /\ todo \subseteq DOMAIN plist
    /\ activeIds \subseteq Seq(Nat)
    /\ swept \in Nat

DistinctIds(ss) == \A i, j \in DOMAIN ss : ss[i].id = ss[j].id => i = j

DistinctProcesses(ss) ==
    \A i, j \in DOMAIN ss : Identity(ss[i]) = Identity(ss[j]) => i = j

(* Two sessions never stand for the same process: the registry finds the   *)
(* session of a process again by (pid, start_time_ns), also after the file *)
(* was reloaded, so that a live process is not shown twice.                *)
OneSessionPerProcess == DistinctProcesses(sessions)

(* When refresh() builds its snapshot, the active sessions are exactly     *)
(* those of the matched processes of the list it was given, start time     *)
(* included: statistics, which carry only a pid, are never added to the    *)
(* session of a former process with that pid.                              *)
ActiveIsObserved ==
    pc = "refresh" /\ todo = {} /\ Unswept = {} =>
        {Identity(sessions[i]) :
            i \in {j \in DOMAIN sessions : sessions[j].status = "active"}}
        = {<<pid, plist[pid].start>> : pid \in DOMAIN plist}

(* Outside refresh() a pid has at most one active session, even when the   *)
(* start time of a process was read as 0 in between and came back.         *)
OneActivePerPid ==
    pc = "idle" =>
        \A i, j \in DOMAIN sessions :
            /\ sessions[i].status = "active"
            /\ sessions[j].status = "active"
            /\ sessions[i].pid = sessions[j].pid
            => i = j

(* A snapshot neither hides I/O nor counts it twice: what a process did on *)
(* a device is either reported as unmonitored or belongs to exactly one    *)
(* contributing session, and the two shares of a device add up.            *)
NoIoHidden ==
    snapshot # None =>
        /\ \A st \in snapshot.stats :
             LET owners == {i \in DOMAIN sessions :
                              /\ sessions[i].id \in
                                   snapshot.devices[st.device].contributing
                              /\ sessions[i].pid = st.pid}
             IN  \/ Cardinality(owners) = 1 /\ st \notin snapshot.unmonitored
                 \/ owners = {} /\ (st.iops > 0 => st \in snapshot.unmonitored)
        /\ \A dev \in DOMAIN snapshot.devices :
             LET d == snapshot.devices[dev]
             IN  /\ d.attributed + d.unattributed = d.total
                 /\ d.unattributed =
                      Iops({u \in snapshot.unmonitored : u.device = dev})

(* While a daemon runs, a recorded session keeps its place, its id, its    *)
(* process and its cmdline: a new session never overwrites an older one.   *)
SessionsPreserved ==
    [][boots' = boots =>
        /\ Len(sessions) <= Len(sessions')
        /\ \A i \in DOMAIN sessions :
             /\ sessions'[i].id = sessions[i].id
             /\ Identity(sessions'[i]) = Identity(sessions[i])
             /\ sessions'[i].cmdline = sessions[i].cmdline
             /\ sessions'[i].begin = sessions[i].begin]_vars

-----------------------------------------------------------------------------
(* The inductive invariant.                                                *)

\* The identity index holds each session under its process, and nothing else.
IndexMatches ==
    /\ \A i \in DOMAIN sessions :
         /\ Identity(sessions[i]) \in DOMAIN byIdentity
         /\ byIdentity[Identity(sessions[i])] = sessions[i].id
    /\ \A x \in DOMAIN byIdentity :
         \E i \in DOMAIN sessions : Identity(sessions[i]) = x

\* The sessions in active_ids are those of the processes already visited.
VisitedActive ==
    /\ pc = "idle" => todo = {}
    /\ pc = "refresh" =>
         /\ \A pid \in DOMAIN plist \ todo :
              \E i \in DOMAIN sessions :
                 /\ Identity(sessions[i]) = <<pid, plist[pid].start>>
                 /\ sessions[i].status = "active"
                 /\ sessions[i].id \in activeIds
         /\ \A i \in DOMAIN sessions :
              sessions[i].id \in activeIds =>
                 /\ sessions[i].pid \in DOMAIN plist \ todo
                 /\ sessions[i].start = plist[sessions[i].pid].start

\* The second loop begins after the first one and leaves nothing behind it.
SweptClosed ==
    /\ pc = "idle" \/ todo # {} => swept = 0
    /\ \A i \in Vanished : i > swept

SessionsOK(ss) ==
    ss \in Seq(Session) /\ DistinctIds(ss) /\ DistinctProcesses(ss)

(* Memory, index and state file agree at every step of refresh(), of the   *)
(* rule operations and of a restart: ids and processes are distinct in     *)
(* memory and in the file, the index is exact, and active_ids names the    *)
(* sessions of exactly the processes the loop has visited.                 *)
RegistryInv ==
    /\ TypeOK
    /\ SessionsOK(sessions)
    /\ SessionsOK(file.sessions)
    /\ IndexMatches
    /\ VisitedActive
    /\ SweptClosed
    /\ OneActivePerPid

===============================================================================
