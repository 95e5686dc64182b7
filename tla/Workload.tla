------------------------------ MODULE Workload ------------------------------
(***************************************************************************)
(* backend/adapters: what a process is expected to do (fio's command line  *)
(* or job file), which of its threads belong to which job, and whether the *)
(* measured I/O agrees.                                                    *)
(* A token of a definition is <<"name", job>> (--name=job, also of the     *)
(* name global; [job]), <<"global", 0>> ([global], job files only) or      *)
(* <<key, value>>.  Ratios are in percent, quantities in whole numbers.    *)
(***************************************************************************)
EXTENDS Integers, Sequences, FiniteSets, FiniteSetsExt

CONSTANTS Absent,      \* an option that is not given; None
          Unparsed     \* a text that is no number

Options == {"bs", "rw", "readwrite", "iodepth"}
IsDefinition(tokens) ==
    /\ Len(tokens) \in Nat
    /\ \A i \in 1 .. Len(tokens) : tokens[i][1] \in Options \cup {"name", "global"}
NoOptions == [k \in Options |-> Absent]
NoJobs == [globals |-> NoOptions, jobs |-> <<>>, open |-> FALSE]

\* Mutant: a new job shares the dict of the global options instead of copying
\* it, so its options leak into the jobs after it.
MutTakeToken(d, tok) ==
    CASE tok[1] = "name" -> [d EXCEPT !.jobs = Append(@, [name |-> tok[2], opts |-> d.globals]),
                                      !.open = TRUE]
      [] tok[1] = "global" -> [d EXCEPT !.open = FALSE]
      [] tok[1] \in Options ->
           [d EXCEPT !.globals[tok[1]] = tok[2],
                     !.jobs = IF d.open THEN [d.jobs EXCEPT ![Len(d.jobs)].opts[tok[1]] = tok[2]]
                              ELSE d.jobs]

\* The loop bodies of parse_fio_cmdline and parse_job_file: an option belongs to
\* the job that is open, else to the defaults of the jobs to come.
TakeToken(d, tok) ==
    CASE tok[1] = "name" -> [d EXCEPT !.jobs = Append(@, [name |-> tok[2], opts |-> d.globals]),
                                      !.open = TRUE]
      [] tok[1] = "global" -> [d EXCEPT !.open = FALSE]
      [] tok[1] \in Options ->
           IF d.open THEN [d EXCEPT !.jobs[Len(d.jobs)].opts[tok[1]] = tok[2]]
           ELSE [d EXCEPT !.globals[tok[1]] = tok[2]]

Parse(tokens) ==
    LET after[i \in 0 .. Len(tokens)] ==
            IF i = 0 THEN NoJobs ELSE TakeToken(after[i - 1], tokens[i])
    IN after[Len(tokens)].jobs

\* FioAdapter._jobs: the command line, else the first job file with a job.
Jobs(cmdline, jobfile) == IF Parse(cmdline) # <<>> THEN Parse(cmdline) ELSE Parse(jobfile)

\* _spec_from_opts: readwrite is used where there is no rw, and what is not a number is
\* dropped.
SpecFromOpts(opts) ==
    LET Number(k) == IF opts[k] = Unparsed THEN Absent ELSE opts[k]
    IN [bs |-> Number("bs"), iodepth |-> Number("iodepth"),
        rw |-> IF opts["rw"] # Absent THEN opts["rw"] ELSE opts["readwrite"]]

\* The rule that parse_fio_cmdline states: each --name begins a job, the options after
\* it and before the next head are the job's own, and those before it at which no job is
\* open are its defaults.  (fio itself takes --name=global on a command line for the
\* head of defaults.)
Heads(tokens, m) == {i \in 1 .. m : tokens[i][1] = "name"}
InJob(tokens, i, j) == \A h \in i + 1 .. j : tokens[h][1] \notin {"name", "global"}
JobOpen(tokens, m) == \E i \in Heads(tokens, m) : InJob(tokens, i, m)
Latest(tokens, places) == IF places = {} THEN Absent ELSE tokens[Max(places)][2]
Own(tokens, i, m, k) == {j \in i + 1 .. m : tokens[j][1] = k /\ InJob(tokens, i, j)}
General(tokens, m, k) == {j \in 1 .. m : tokens[j][1] = k /\ ~JobOpen(tokens, j)}
OptionOf(tokens, i, m, k) ==
    IF Own(tokens, i, m, k) # {} THEN Latest(tokens, Own(tokens, i, m, k))
    ELSE Latest(tokens, General(tokens, i, k))

\* Each job has its own options over the defaults stated before it, and none of
\* another job, as the rule says (parse_fio_cmdline, parse_job_file).
OptionsAreOwn(tokens) ==
    LET jobs == Parse(tokens)
        m == Len(tokens)
        place(i) == Cardinality(Heads(tokens, i))
    IN /\ Len(jobs) = place(m)
       /\ \A i \in Heads(tokens, m) :
             /\ jobs[place(i)].name = tokens[i][2]
             /\ \A k \in Options : jobs[place(i)].opts[k] = OptionOf(tokens, i, m, k)

\* The same rule for rw and readwrite, two names of one option (fio.py:48-49, 82): the
\* direction a job states for itself is the one it is compared with.
OwnDirection(tokens) ==
    LET jobs == Parse(tokens)
        m == Len(tokens)
    IN \A i \in Heads(tokens, m) :
          LET own == Own(tokens, i, m, "rw") \cup Own(tokens, i, m, "readwrite")
          IN own # {} => SpecFromOpts(jobs[Cardinality(Heads(tokens, i))].opts).rw = Latest(tokens, own)

-----------------------------------------------------------------------------
(* A process p: threads, the thread names each job's name fits ("fits"),   *)
(* IOPS per thread (of threads that have exited too) and, counted apart    *)
(* from these, in all; reads and writes in all, depth, the size most I/O   *)
(* has (0: no I/O seen) and the share of sequential I/O.                   *)

SumOver(f, S) == MapThenSumSet(LAMBDA x : f[x], S)
ThreadIops(p) == SumOver(p.iops, DOMAIN p.iops)

IsProcess(p) ==
    /\ IsFiniteSet(DOMAIN p.iops) /\ \A t \in DOMAIN p.iops : p.iops[t] \in Nat
    /\ p.total \in Nat
    /\ p.threads \subseteq DOMAIN p.iops

\* measured_from_stats: a job gets the share of its threads; sizes are collected
\* per process and are NOT shared out.
Measured(p, shared, tids) ==
    LET own == SumOver(p.iops, tids)
        Share(n) == IF ~shared THEN n ELSE IF p.total = 0 THEN 0 ELSE (n * own) \div p.total
        rw == Share(p.reads) + Share(p.writes)
    IN [size |-> p.size, iops |-> Share(p.total), depth |-> Share(p.depth),
        reads |-> IF rw = 0 THEN 0 ELSE (100 * Share(p.reads)) \div rw,
        writes |-> IF rw = 0 THEN 0 ELSE (100 * Share(p.writes)) \div rw]

\* _pattern_of, and the pattern that compare reads off the share of sequential I/O.
PatternOf(rw) == IF rw = "randread" THEN "random" ELSE "sequential"
SeenPattern(seq) == IF seq >= 80 THEN "sequential" ELSE IF seq <= 20 THEN "random" ELSE "mixed"

\* compare: the reasons against a match; only what is known is compared.
Reasons(spec, got, seq) ==
    LET size == spec.bs # Absent /\ got.size # 0 /\ spec.bs # got.size
        direction == \/ spec.rw \in {"read", "randread"} /\ got.writes > 5
                     \/ spec.rw = "write" /\ got.reads > 5
        depth == /\ spec.iodepth # Absent /\ got.depth # 0
                 /\ ~(7 * spec.iodepth <= 10 * got.depth /\ 10 * got.depth <= 13 * spec.iodepth)
        pattern == /\ spec.rw # Absent /\ seq # Absent
                   /\ PatternOf(spec.rw) # SeenPattern(seq)
    IN {r \in {"size", "rw", "depth", "pattern"} :
          \/ r = "size" /\ size
          \/ r = "rw" /\ direction
          \/ r = "depth" /\ depth
          \/ r = "pattern" /\ pattern}

Verdict(spec, got, seq) ==
    IF got.iops <= 0 /\ got.size = 0 THEN "unknown"
    ELSE IF Reasons(spec, got, seq) = {} THEN "match" ELSE "mismatch"

\* Mutant: a thread that fits two jobs is given to both.
MutTakeThreads(p, jobs, taken, n) ==
    LET fit == p.threads \cap p.fits[jobs[n].name]
    IN IF fit = {} /\ Len(jobs) = 1 THEN p.threads ELSE fit

\* The threads of job n: those that its name fits and no earlier job has taken;
\* the only job takes all if none fits.
TakeThreads(p, jobs, taken, n) ==
    LET fit == (p.threads \cap p.fits[jobs[n].name]) \ taken
    IN IF fit = {} /\ Len(jobs) = 1 THEN p.threads \ taken ELSE fit

\* FioAdapter.get_logical_groups; without a definition one group and no verdict.
FioGroups(p, jobs) ==
    LET taken[n \in 0 .. Len(jobs)] ==
            IF n = 0 THEN {} ELSE taken[n - 1] \cup TakeThreads(p, jobs, taken[n - 1], n)
        Group(n) ==
            LET tids == TakeThreads(p, jobs, taken[n - 1], n)
                got == Measured(p, Len(jobs) > 1, tids)
            IN [tids |-> tids, got |-> got, verdict |-> Verdict(SpecFromOpts(jobs[n].opts), got, p.seq)]
    IN IF jobs = <<>>
       THEN <<[tids |-> p.threads, got |-> Measured(p, FALSE, {}), verdict |-> "unknown"]>>
       ELSE [n \in 1 .. Len(jobs) |-> Group(n)]

\* GenericAdapter.get_logical_groups: threads by the stem of their name, never a
\* verdict; a process without threads is one group, whose thread is its pid.
GenericGroups(p) ==
    LET stems == {p.stem[t] : t \in p.threads}
        Of(s) == {t \in p.threads : p.stem[t] = s}
    IN IF p.threads = {}
       THEN <<[tids |-> {}, got |-> Measured(p, FALSE, {}), verdict |-> "unknown"]>>
       ELSE [s \in stems |->
               [tids |-> Of(s), got |-> Measured(p, Cardinality(stems) > 1, Of(s)),
                verdict |-> "unknown"]]

\* select_adapter: the one asked for, generic if there is no such; else fio for
\* what matches it.
SelectAdapter(isFio, explicit) ==
    IF explicit # Absent THEN (IF explicit = "fio" THEN "fio" ELSE "generic")
    ELSE IF isFio THEN "fio" ELSE "generic"

Groups(p, cmdline, jobfile) ==
    IF SelectAdapter(p.isFio, p.explicit) = "fio" THEN FioGroups(p, Jobs(cmdline, jobfile))
    ELSE GenericGroups(p)

\* No I/O is counted twice: a thread is in at most one group, several groups have
\* together at most the I/O of the threads, a single one has that of the process, and a
\* process without I/O gets no verdict (get_logical_groups, measured_from_stats, compare).
GroupsPartition(p, cmdline, jobfile) ==
    LET gs == Groups(p, cmdline, jobfile)
        iops == [i \in DOMAIN gs |-> gs[i].got.iops]
    IN /\ \A i, j \in DOMAIN gs : i # j => gs[i].tids \cap gs[j].tids = {}
       /\ IF Cardinality(DOMAIN gs) > 1 THEN SumOver(iops, DOMAIN gs) <= ThreadIops(p)
          ELSE \A i \in DOMAIN gs : iops[i] = p.total
       /\ p.total = 0 /\ p.size = 0 => \A i \in DOMAIN gs : gs[i].verdict = "unknown"

\* A group gets its part of the process (base.py:57), so all groups get at most all.
SharesWithinProcess(p, cmdline, jobfile) ==
    LET gs == Groups(p, cmdline, jobfile)
    IN SumOver([i \in DOMAIN gs |-> gs[i].got.iops], DOMAIN gs) <= p.total

\* What had no I/O yet is not a match but undecided (base.py:106-108).
IdleUndecided(p, cmdline, jobfile) ==
    \A g \in Range(Groups(p, cmdline, jobfile)) : g.got.iops = 0 => g.verdict # "match"
=============================================================================
