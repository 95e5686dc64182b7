------------------------------ MODULE Collector ------------------------------
(***************************************************************************)
(* ebpf/nvme_perf.bt and the readers of what it prints.  Probes run on     *)
(* every CPU while the interval handler prints and clears the maps one by  *)
(* one, and the collector may be killed and started again at any moment,   *)
(* appending to the same log.  Maps hold the SETS of commands they have    *)
(* counted, so that a property can tell which command is in which number.  *)
(***************************************************************************)
EXTENDS TickReader

CONSTANTS Cmds,        \* commands, 1 .. n, submitted in this order
          Tags,        \* tags of one queue
          Slow,        \* the commands that may time out
          ErrBudget,   \* the 50 event lines per second
          MaxLines,    \* bound: lines of the log
          MaxKills     \* bound: kills of the collector

ASSUME CollectorAssumption ==
    /\ Cmds \subseteq Nat \ {0} /\ IsFiniteSet(Cmds)
    /\ Cmds \subseteq DOMAIN QueueOf /\ \A n \in Cmds : BucketOf[n] \in Nat
    /\ TailLines \in Nat \ {0}

VARIABLES up,      \* is the collector attached
          pc,      \* next step of the interval handler; 1 between two ticks
          maps,    \* what each counter map has counted
          started, \* @start and @cmd_tgid
          cache,   \* @to_*: per <<queue, tag>>, the command it describes, 0 none
          budget,  \* @err_budget
          cmd,     \* per command: where it is, its tag, what a probe has read for it
          log,     \* the log
          events,  \* the event lines printed: command, and what the line says of it
          kills

vars == <<up, pc, maps, started, cache, budget, cmd, log, events, kills>>

\* Maps that a probe updates together and in the same way are one: "sub" those that
\* a submission adds to with +=, "op" those of a completion; "proc" and "hist" those
\* that count() and hist() keep per CPU, and that lose nothing.
Counters == {"op", "sub", "hist", "err", "proc"}
Blank == [m \in Counters |-> {}]

\* The key a command is counted under.
KeyIn(map, n) ==
    IF map = "proc" THEN ProcOf[n] ELSE IF map = "err" THEN StatusOf[n] ELSE QueueOf[n]

AllKeys == {KeyIn(map, n) : map \in Counters, n \in Cmds}

\* interval:s:1, in its order.  @err_count is printed and never cleared; @err_budget
\* is cleared with the histogram.
Script == <<<<"print", "op">>, <<"print", "sub">>, <<"print", "hist">>, <<"print", "err">>,
            <<"print", "proc">>, <<"print", "tick">>,
            <<"clear", "op">>, <<"clear", "sub">>, <<"clear", "hist">>, <<"clear", "proc">>>>

Init ==
    /\ up = TRUE /\ pc = 1 /\ maps = Blank /\ started = {}
    /\ cache = [k \in Queues \X Tags |-> 0]
    /\ budget = 0 /\ log = <<>> /\ events = {} /\ kills = 0
    /\ cmd = [n \in Cmds |-> [at |-> "new", tag |-> 0, seen |-> {}, timeout |-> "no", opcode |-> 0]]

\* Mutant: the cache is keyed by the tag alone.
MutKey(n) == <<CHOOSE q \in Queues : TRUE, cmd[n].tag>>

Key(n) == <<QueueOf[n], cmd[n].tag>>

\* A tag is free again when its request is: completed, and not held by the
\* timeout handler (external: blk-mq).
TagFree(q, t) ==
    \A m \in Cmds : QueueOf[m] = q /\ cmd[m].tag = t =>
        cmd[m].at \in {"new", "done"} /\ cmd[m].timeout # "reading"

\* What a probe reads of a += counter of n's key, and what the counter is when it
\* has stored that plus one.  In between another CPU may count, and the interval
\* handler may clear: their work is undone.
Read(map, n) == {m \in maps[map] : KeyIn(map, m) = KeyIn(map, n)}
Stored(map, n) == (maps[map] \ Read(map, n)) \cup cmd[n].seen \cup {n}

\* nvme_setup_cmd up to its first +=.
Setup(n, t) ==
    /\ cmd[n].at = "new" /\ TagFree(QueueOf[n], t)
    /\ \A m \in Cmds : m < n => cmd[m].at # "new"
    /\ cmd' = [cmd EXCEPT ![n].at = IF up THEN "setup" ELSE "live", ![n].tag = t,
                          ![n].seen = IF up THEN Read("sub", n) ELSE {}]
    /\ started' = IF up THEN started \cup {n} ELSE started
    /\ UNCHANGED <<up, pc, maps, cache, budget, log, events, kills>>

\* The rest of it: the submission is counted, and remembered under its tag.
CountSetup(n) ==
    /\ cmd[n].at = "setup"
    /\ maps' = [maps EXCEPT !["sub"] = Stored("sub", n), !["proc"] = @ \cup {n}]
    /\ cache' = [cache EXCEPT ![Key(n)] = n]
    /\ cmd' = [cmd EXCEPT ![n].at = "live", ![n].seen = {}]
    /\ UNCHANGED <<up, pc, started, budget, log, events, kills>>

\* nvme_complete_rq up to its first +=.
Complete(n) ==
    /\ cmd[n].at = "live"
    /\ cmd' = [cmd EXCEPT ![n].at = IF up THEN "count" ELSE "done",
                          ![n].seen = IF up THEN Read("op", n) ELSE {}]
    /\ UNCHANGED <<up, pc, maps, started, cache, budget, log, events, kills>>

\* The counters of a completion whose submission was seen, and the event line of
\* one that failed, while there is budget (an update of the budget may be lost too);
\* @err_count is read for its +=.
CountCompletion(n) ==
    LET failed == StatusOf[n] # 0
    IN
    /\ cmd[n].at = "count"
    /\ maps' = IF n \in started
               THEN [maps EXCEPT !["op"] = Stored("op", n), !["hist"] = @ \cup {n}]
               ELSE maps
    /\ started' = started \ {n}
    /\ cmd' = [cmd EXCEPT ![n].at = IF failed THEN "error" ELSE "delete",
                          ![n].seen = IF failed THEN Read("err", n) ELSE {}]
    /\ IF failed /\ budget < ErrBudget
       THEN /\ budget' \in {budget, budget + 1}
            /\ events' = events \cup {[of |-> n, opcode |-> cache[Key(n)], cdw |-> cache[Key(n)]]}
       ELSE UNCHANGED <<budget, events>>
    /\ UNCHANGED <<up, pc, cache, log, kills>>

CountError(n) ==
    /\ cmd[n].at = "error"
    /\ maps' = [maps EXCEPT !["err"] = Stored("err", n)]
    /\ cmd' = [cmd EXCEPT ![n].at = "delete", ![n].seen = {}]
    /\ UNCHANGED <<up, pc, started, cache, budget, log, events, kills>>

\* The deletes of @to_*.
Delete(n) ==
    /\ cmd[n].at = "delete"
    /\ cache' = [cache EXCEPT ![Key(n)] = 0]
    /\ cmd' = [cmd EXCEPT ![n].at = "done"]
    /\ UNCHANGED <<up, pc, maps, started, budget, log, events, kills>>

\* kprobe:nvme_timeout, which may race the completion: it reads the maps of the
\* tag one after the other and prints what it has found.
Timeout(n) ==
    /\ up /\ n \in Slow /\ cmd[n].at = "live" /\ cmd[n].timeout = "no"
    /\ cmd' = [cmd EXCEPT ![n].timeout = "reading", ![n].opcode = cache[Key(n)]]
    /\ UNCHANGED <<up, pc, maps, started, cache, budget, log, events, kills>>

PrintTimeout(n) ==
    /\ cmd[n].timeout = "reading"
    /\ events' = events \cup {[of |-> n, opcode |-> cmd[n].opcode, cdw |-> cache[Key(n)]]}
    /\ cmd' = [cmd EXCEPT ![n].timeout = "printed"]
    /\ UNCHANGED <<up, pc, maps, started, cache, budget, log, kills>>

\* Mutant: the histogram is not cleared.
MutClear(map) ==
    /\ maps' = IF map = "hist" THEN maps ELSE [maps EXCEPT ![map] = {}]
    /\ budget' = IF map = "hist" THEN 0 ELSE budget
    /\ UNCHANGED log

\* One print or one clear; each is carried out on its own, after the probes of
\* other CPUs have gone on counting.
Clear(map) ==
    /\ maps' = [maps EXCEPT ![map] = {}]
    /\ budget' = IF map = "hist" THEN 0 ELSE budget
    /\ UNCHANGED log

Show(map) ==
    /\ log' = Append(log, IF map = "tick" THEN Tick ELSE [map |-> map, of |-> maps[map]])
    /\ UNCHANGED <<maps, budget>>

Interval ==
    /\ up /\ Len(log) < MaxLines
    /\ IF Script[pc][1] = "print" THEN Show(Script[pc][2]) ELSE Clear(Script[pc][2])
    /\ pc' = IF pc = Len(Script) THEN 1 ELSE pc + 1
    /\ UNCHANGED <<up, started, cache, cmd, events, kills>>

\* The collector dies, perhaps inside a map it prints: some keys are written and
\* the others are not.  Probes in progress and all maps are gone.
Kill(partly, keys) ==
    /\ up /\ kills < MaxKills
    /\ up' = FALSE /\ kills' = kills + 1 /\ pc' = 1
    /\ IF partly
       THEN LET map == Script[pc][2]
            IN /\ Script[pc][1] = "print" /\ map # "tick"
               /\ log' = Append(log, [map |-> map, of |-> {n \in maps[map] : KeyIn(map, n) \in keys}])
       ELSE log' = log
    /\ maps' = Blank /\ started' = {} /\ budget' = 0
    /\ cache' = [k \in Queues \X Tags |-> 0]
    /\ cmd' = [n \in Cmds |->
                 [cmd[n] EXCEPT !.at = IF @ = "setup" THEN "live"
                                       ELSE IF @ \in {"count", "error", "delete"} THEN "done" ELSE @,
                                !.timeout = IF @ = "reading" THEN "printed" ELSE @, !.seen = {}]]
    /\ UNCHANGED events

Restart ==
    /\ ~up /\ up' = TRUE
    /\ UNCHANGED <<pc, maps, started, cache, budget, cmd, log, events, kills>>

Next ==
    \/ \E n \in Cmds, t \in Tags : Setup(n, t)
    \/ \E n \in Cmds : \/ CountSetup(n) \/ Complete(n) \/ CountCompletion(n)
                       \/ CountError(n) \/ Delete(n) \/ Timeout(n) \/ PrintTimeout(n)
    \/ Interval
    \/ \E keys \in SUBSET AllKeys : Kill(TRUE, keys)
    \/ Kill(FALSE, {})
    \/ Restart

Spec == Init /\ [][Next]_vars

-----------------------------------------------------------------------------
\* Where a map is kept by count() or hist(), no command is in two numbers of it, be
\* they of two ticks, of a tick and the half tick a killed collector left in front of
\* it, or of two lines that parse_tick adds up: every line that is written for it
\* shows other commands than the lines before, and only commands that happened.
CountedOnce ==
    log # <<>> =>
      LET new == Last(log)
      IN /\ \A n \in new.of : cmd[n].at # "new"
         /\ new.map \in {"hist", "proc"} =>
              \A l \in ToSet(Front(log)) : l.map = new.map => l.of \cap new.of = {}

\* What ebpf_perf.py:1-2 says of the counters with +=, from which the IOPS come: a
\* tick's number is of that second, and no command is in the numbers of two.
OpsOfOneTick ==
    log # <<>> /\ Last(log).map = "op" =>
      \A l \in ToSet(Front(log)) : l.map = "op" => l.of \cap Last(log).of = {}

Samples(tick, q) == UNION {Mine(tick[i].of, q) : i \in Lines(tick, "hist")}

\* b is the least latency bound that covers p per mille of the samples.
Covers(b, samples, p) ==
    LET Below(x) == Cardinality({n \in samples : BucketOf[n] <= x}) * 1000
    IN IF samples = {} THEN b = 0
       ELSE /\ Below(b) >= p * Cardinality(samples)
            /\ \A n \in samples : BucketOf[n] < b => Below(BucketOf[n]) < p * Cardinality(samples)

Completed == {n \in Cmds : cmd[n].at \notin {"new", "setup", "live"}}

SoundPerformance ==
    LET r == ReadPerformance(log)
        rows == DOMAIN r.queues
        tick == LastCompleteTick(log)
    IN /\ \A q \in rows : r.queues[q].iops <= Cardinality(Mine(Completed, q))
       /\ r.aggregate.iops <= Cardinality(Completed)
       /\ \A p \in Quantiles :
             /\ \A q \in rows : Covers(r.queues[q].pct[p], Samples(tick, q), p)
             /\ Covers(r.aggregate.pct[p], UNION {Samples(tick, q) : q \in rows}, p)

SoundProcesses ==
    LET r == ReadProcessStats(log)
    IN \A p \in Procs : r[p] <= Cardinality({n \in Cmds : ProcOf[n] = p /\ cmd[n].at # "new"})

\* What a reader reports of a tick is sound: a process has no more I/O than it
\* submitted, even where lines of a killed run and of its successor are added; a row
\* and the device, whose rows are added up, have no more completions than there have
\* been, so a row that is not a queue has none; and each percentile, of a queue and of
\* the device, is the least bound that covers its share (read_process_stats,
\* read_latest_performance, _percentile_ns).
ReportSound == SoundPerformance /\ SoundProcesses

\* An event line never describes another command: each part of it is of the command
\* that failed or timed out, or blank because the completion had taken it away.
EventDescribesOwn ==
    \A e \in events : e.opcode \in {0, e.of} /\ e.cdw \in {0, e.of}

\* What ebpf_perf.py:156-158 says of the rows: they are the queues of the device.
RowsAreQueues == DOMAIN ReadPerformance(log).queues \subseteq Queues

\* What models.py:278-279 says of @err_count: while no completion is being handled,
\* the collector has counted every error it has seen.
ErrorsExact ==
    kills = 0 /\ (\A n \in Cmds : cmd[n].at \in {"new", "live", "done"}) =>
      maps["err"] = {n \in Completed : StatusOf[n] # 0}

\* What nvme_perf.bt:267-268 and models.py:280-281 say of the error statistics: when
\* a tick is finished they are the totals it has printed, and those of a collector
\* that was started again begin at 0.
ErrorsOfThisRun ==
    log # <<>> /\ Last(log) = Tick =>
      LET tick == LastCompleteTick(log)
          printed == UNION {tick[i].of : i \in Lines(tick, "err")}
      IN \A s \in {StatusOf[n] : n \in Cmds} \ {0} :
           ErrCount(log, s) <= Cardinality(OfStatus(printed, s))
=============================================================================
