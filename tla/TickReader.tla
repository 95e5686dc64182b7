----------------------------- MODULE TickReader -----------------------------
(***************************************************************************)
(* What the readers make of the collector's log: backend/ebpf_perf.py,     *)
(* backend/proc_stats.py and the statistics of                             *)
(* backend/ebpf_error_events.py.                                           *)
(* A line is [map |-> name, of |-> set]: the print of one map, where the   *)
(* number printed for a key is the number of commands of that key in the   *)
(* set; or it is the tick mark.  QueueOf, ProcOf, BucketOf and StatusOf    *)
(* give the keys of a command.                                             *)
(***************************************************************************)
EXTENDS Integers, Sequences, FiniteSets, SequencesExt, FiniteSetsExt

CONSTANTS QueueOf, ProcOf, BucketOf,
          StatusOf,       \* the status a command completes with; 0: success
          TailLines       \* _TAIL_BYTES, in lines

Tick == [map |-> "tick", of |-> {}]
Queues == {QueueOf[n] : n \in DOMAIN QueueOf}
Procs == {ProcOf[n] : n \in DOMAIN ProcOf}
Quantiles == {500, 950, 990, 999}

TickMarks(log) == {i \in 1 .. Len(log) : log[i] = Tick}

\* _parse_last_complete_tick, _last_complete_tick: split at the marks; the part
\* after the last one may still be being written and is not used.
LastCompleteTick(log) ==
    IF TickMarks(log) = {} THEN <<>>
    ELSE LET end == Max(TickMarks(log))
             begin == Max({0} \cup (TickMarks(log) \ {end}))
         IN SubSeq(log, begin + 1, end - 1)

\* read_tail.
ReadTail(log) == SubSeq(log, Max({1, Len(log) - TailLines + 1}), Len(log))

\* The prints of one map.
Lines(segment, map) == {i \in DOMAIN segment : segment[i].map = map}
Mine(set, q) == {n \in set : QueueOf[n] = q}

\* Sets side by side: what is in two of them is there twice, so that the size is the
\* sum of the sizes.
Added(parts) == UNION {{<<k, x>> : x \in parts[k]} : k \in DOMAIN parts}

\* _parse_segment, scalars: a key printed twice keeps the later number.
Scalar(segment, map, q) ==
    LET lines == {i \in Lines(segment, map) : Mine(segment[i].of, q) # {}}
    IN IF lines = {} THEN {} ELSE Mine(segment[Max(lines)].of, q)

\* A histogram gives each of its samples the bucket it is in; the number of a bucket
\* is the number of its samples.
\* _parse_segment, histograms: a key printed twice has the buckets of both.
Hist(segment, q) ==
    [s \in Added([i \in Lines(segment, "hist") |-> Mine(segment[i].of, q)]) |-> BucketOf[s[2]]]

\* _merge_buckets.
MergeBuckets(hists) ==
    [s \in Added([q \in DOMAIN hists |-> DOMAIN hists[q]]) |-> hists[s[1]][s[2]]]

Total(hist) == Cardinality(DOMAIN hist)
UpTo(hist, bound) == Cardinality({s \in DOMAIN hist : hist[s] <= bound})

\* Mutant: the bucket that reaches the target exactly is passed over.
MutPercentile(hist, p) ==
    IF Total(hist) = 0 THEN 0
    ELSE Min({b \in Range(hist) : UpTo(hist, b) * 1000 > p * Total(hist)} \cup {Max(Range(hist))})

\* _percentile_ns: the bound of the first bucket (they are named by their upper
\* bound) with which the target share is reached; 0 without samples.
Percentile(hist, p) ==
    IF Total(hist) = 0 THEN 0
    ELSE Min({b \in Range(hist) : UpTo(hist, b) * 1000 >= p * Total(hist)} \cup {Max(Range(hist))})

\* _build_queue_perf.
QueuePerf(ops, hist) ==
    [iops |-> Cardinality(ops), pct |-> [p \in Quantiles |-> Percentile(hist, p)]]

\* _parse_segment: the second keys of all lines with two keys: queues, but also the
\* processes of @proc_bytes, @proc_rd and the like.
Rows(segment) ==
    {QueueOf[n] : n \in UNION {segment[i].of : i \in Lines(segment, "op") \cup Lines(segment, "sub")}}
      \cup {ProcOf[n] : n \in UNION {segment[i].of : i \in Lines(segment, "proc")}}

\* read_latest_performance: a row for each of them, and all of them together.
ReadPerformance(log) ==
    LET segment == LastCompleteTick(log)
        ops == [q \in Rows(segment) |-> Scalar(segment, "op", q)]
        hists == [q \in DOMAIN ops |-> Hist(segment, q)]
    IN [queues |-> [q \in DOMAIN ops |-> QueuePerf(ops[q], hists[q])],
        aggregate |-> QueuePerf(Added(ops), MergeBuckets(hists))]

\* parse_tick and _to_stat: lines of one process are ADDED.
ReadProcessStats(log) ==
    LET segment == LastCompleteTick(ReadTail(log))
    IN [p \in Procs |-> Cardinality(Added([i \in Lines(segment, "proc") |->
                                             {n \in segment[i].of : ProcOf[n] = p}]))]

OfStatus(set, s) == {n \in set : StatusOf[n] = s}

\* _parse_err_counts and read_error_stats: the last number of each status in the
\* tail, complete tick or not; a status the present run has not printed keeps the
\* number of a former run.
ErrCount(log, s) ==
    LET tail == ReadTail(log)
        lines == {i \in Lines(tail, "err") : OfStatus(tail[i].of, s) # {}}
    IN IF lines = {} THEN 0 ELSE Cardinality(OfStatus(tail[Max(lines)].of, s))
=============================================================================
