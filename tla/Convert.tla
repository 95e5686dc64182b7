------------------------------- MODULE Convert -------------------------------
(***************************************************************************)
(* What a browser gets to see of the dataclasses of models.py: the         *)
(* *_to_pb functions of grpcserver/convert.py, MessageToDict as web/app.py *)
(* uses it, and JSON.parse.  A dataclass keeps the fields whose conversion *)
(* can lose something and one of those that are copied as they are.        *)
(* Numbers of 32 bits and doubles arrive as JavaScript numbers; integers   *)
(* of 64 bits are printed by MessageToDict as strings, and addresses by    *)
(* hex(), which is why both arrive exactly.                                *)
(***************************************************************************)
EXTENDS Integers, Sequences

CONSTANTS None,       \* Python's None
          Blank,      \* the empty string
          EXACT,      \* the largest number that JavaScript holds exactly, 2^53
          Addresses,  \* and other numbers of 64 bits
          Counts,     \* numbers of 32 bits, and doubles
          Instants,   \* in nanoseconds; negative before boot
          Texts,      \* that are not empty
          MaxRows,    \* bound: rows of a list
          SessionGroups   \* the groups a session may have

Option(S) == S \cup {None}
Rows(S) == UNION {[1 .. n -> S] : n \in 0 .. MaxRows}

-----------------------------------------------------------------------------
(* models.py *)

QueueSnapshot == [qid : Counts, sq_dma_addr : Addresses, hctx_index : Option(Counts)]
DeviceSnapshot == [addr : Addresses, iommu_enabled : BOOLEAN, queues : Rows(QueueSnapshot)]
QueueEntry == [cid : Counts, uses_sgl : BOOLEAN, prp1 : Addresses, prp2 : Addresses]
CompletionEntry == [command_id : Counts, status_code : Counts, phase : BOOLEAN]
PrpPage == [phys_addr : Addresses, data : Rows(Counts), is_list_page : BOOLEAN]
PrpPayload == [total_len : Counts, pages : Rows(PrpPage), error : Option(Texts)]
TreeNode == [name : Texts, address : Option(Addresses), is_null : BOOLEAN]
TreeExpansion == [node : TreeNode, children : Rows(TreeNode), error : Option(Texts)]
QueuePerf == [qid : Counts \cup {-1}, iops : Counts]
DevicePerf == [queues : Rows(QueuePerf), available : BOOLEAN, error : Option(Texts),
               aggregate : Option(QueuePerf)]
TimeoutEventDetail == [tag : Counts, elapsed_us : Counts]
ErrorEventDetail == [slba : Addresses, lba_valid : BOOLEAN, submit_cached : BOOLEAN]

\* The detail that belongs to the kind is filled, and no other.
NvmeEvent ==
    {e \in [kind : {"timeout", "error", "reset"}, qid : Counts \cup {-1},
            timeout : Option(TimeoutEventDetail), error : Option(ErrorEventDetail)] :
       (e.timeout # None <=> e.kind = "timeout") /\ (e.error # None <=> e.kind = "error")}
DeviceErrorStats == [total : Addresses, available : BOOLEAN, error : Option(Texts)]
TargetRule == [kind : {"pid", "name"}, value : Texts, adapter : Option(Texts)]
WorkloadSpec == [io_size : Option(Counts), queue_depth : Option(Counts), rw : Option(Texts),
                 direct : Option(BOOLEAN)]
MeasuredWorkload == [io_size_dominant : Counts, iops : Counts]
LogicalGroup == [expected_workload : Option(WorkloadSpec), measured_workload : Option(MeasuredWorkload),
                 expectation_match : Option(BOOLEAN), inferred : BOOLEAN]
Session == [start_time_ns : Instants, session_end_ns : Option({n \in Instants : n > 0}),
            aggregate : Option(MeasuredWorkload), matched_rule : Option(Texts),
            logical_groups : Rows(SessionGroups)]
ProcessListEntry == [start_time_ns : Instants, error : Option(Texts),
                     matched_rule : Option(Texts), unselectable_reason : Option(Texts)]

\* Python's None is nothing else, and no text is empty or an address.
ASSUME ConvertAssumption ==
    /\ EXACT \in Nat /\ Addresses \subseteq Nat /\ Counts \subseteq 0 .. EXACT /\ Instants \subseteq Int
    /\ SessionGroups \subseteq LogicalGroup
    /\ Blank \notin Texts
    /\ \A n \in Addresses : Blank # <<"hex", n>>
    /\ None \notin Texts /\ None \notin Counts /\ None \notin Addresses /\ None \notin Instants
    /\ None \notin BOOLEAN /\ None \notin QueuePerf /\ None \notin TimeoutEventDetail
    /\ None \notin ErrorEventDetail /\ None \notin WorkloadSpec /\ None \notin MeasuredWorkload

-----------------------------------------------------------------------------
(* Fields *)

Hex(n) == <<"hex", n>>
Int64(n) == <<"decimal", n>>
Number(n) == IF n <= EXACT THEN n ELSE 2 * (n \div 2)

\* x or "", x or 0.
OrBlank(x) == IF x = None THEN Blank ELSE x
OrZero(x) == IF x = None THEN 0 ELSE x
NotNegative(n) == IF n < 0 THEN 0 ELSE n
Each(Conv(_), s) == [i \in DOMAIN s |-> Conv(s[i])]

-----------------------------------------------------------------------------
(* convert.py, and the JSON of its messages *)

\* Mutant: a queue on hardware context 0 looks like one without.
MutQueueToPb(q) ==
    [qid |-> Number(q.qid), sq_dma_addr |-> Hex(q.sq_dma_addr),
     hctx_index |-> IF q.hctx_index \in {None, 0} THEN -1 ELSE Number(q.hctx_index)]

QueueToPb(q) ==
    [qid |-> Number(q.qid), sq_dma_addr |-> Hex(q.sq_dma_addr),
     hctx_index |-> IF q.hctx_index = None THEN -1 ELSE Number(q.hctx_index)]

DeviceToPb(d) ==
    [addr |-> Hex(d.addr), iommu_enabled |-> d.iommu_enabled, queues |-> Each(QueueToPb, d.queues)]

EntryToPb(e) == [e EXCEPT !.cid = Number(@), !.prp1 = Hex(@), !.prp2 = Hex(@)]

CompletionToPb(c) == [c EXCEPT !.command_id = Number(@), !.status_code = Number(@)]

\* prp_to_pb and _prp_dict: the bytes in hex, the length as a plain number.
PageToPb(p) == [p EXCEPT !.phys_addr = Hex(@), !.data = Each(Hex, @)]
PrpToPb(p) == [p EXCEPT !.total_len = Number(@), !.pages = Each(PageToPb, @), !.error = OrBlank(@)]

TreeNodeToPb(n) == [n EXCEPT !.address = IF @ = None THEN Blank ELSE Hex(@)]
TreeExpansionToPb(e) ==
    [e EXCEPT !.node = TreeNodeToPb(@), !.children = Each(TreeNodeToPb, @), !.error = OrBlank(@)]

\* A message field that is not set is left out of the JSON: None here.
QueuePerfToPb(q) == [q EXCEPT !.qid = Number(@), !.iops = Number(@)]
DevicePerfToPb(d) ==
    [d EXCEPT !.queues = Each(QueuePerfToPb, @), !.error = OrBlank(@),
              !.aggregate = IF @ = None THEN None ELSE QueuePerfToPb(@)]

ErrorDetailToPb(d) == [d EXCEPT !.slba = Int64(@)]

\* oneof detail: setting timeout clears error.
NvmeEventToPb(e) ==
    [e EXCEPT !.qid = Number(@),
              !.error = IF @ = None \/ e.timeout # None THEN None ELSE ErrorDetailToPb(@)]

ErrorStatsToPb(st) == [st EXCEPT !.total = Int64(@), !.error = OrBlank(@)]

TargetRuleToPb(r) == [r EXCEPT !.adapter = OrBlank(@)]

WorkloadSpecToPb(w) ==
    IF w = None
    THEN [has_spec |-> FALSE, io_size |-> 0, queue_depth |-> 0, rw |-> Blank, direct |-> FALSE]
    ELSE [has_spec |-> TRUE, io_size |-> Number(OrZero(w.io_size)),
          queue_depth |-> Number(OrZero(w.queue_depth)), rw |-> OrBlank(w.rw), direct |-> w.direct = TRUE]

MeasuredToPb(m) == IF m = None THEN [io_size_dominant |-> 0, iops |-> 0] ELSE m

GroupToPb(g) ==
    [expected_workload |-> WorkloadSpecToPb(g.expected_workload),
     measured_workload |-> MeasuredToPb(g.measured_workload), inferred |-> g.inferred,
     has_expectation |-> g.expectation_match # None, expectation_match |-> g.expectation_match = TRUE]

SessionToPb(s) ==
    [s EXCEPT !.start_time_ns = Int64(NotNegative(@)), !.session_end_ns = Int64(OrZero(@)),
              !.aggregate = MeasuredToPb(@), !.matched_rule = OrBlank(@),
              !.logical_groups = Each(GroupToPb, @)]

ProcessEntryToPb(e) ==
    [e EXCEPT !.start_time_ns = Int64(NotNegative(@)), !.error = OrBlank(@),
              !.matched_rule = OrBlank(@), !.unselectable_reason = OrBlank(@)]

Kinds == {"device", "entry", "completion", "prp", "tree", "perf", "event", "stats", "rule",
          "group", "session", "process"}

Values(kind) ==
    CASE kind = "device" -> DeviceSnapshot [] kind = "entry" -> QueueEntry
      [] kind = "completion" -> CompletionEntry [] kind = "prp" -> PrpPayload
      [] kind = "tree" -> TreeExpansion [] kind = "perf" -> DevicePerf
      [] kind = "event" -> NvmeEvent [] kind = "stats" -> DeviceErrorStats
      [] kind = "rule" -> TargetRule [] kind = "group" -> LogicalGroup
      [] kind = "session" -> Session [] kind = "process" -> ProcessListEntry

Web(kind, x) ==
    CASE kind = "device" -> DeviceToPb(x) [] kind = "entry" -> EntryToPb(x)
      [] kind = "completion" -> CompletionToPb(x) [] kind = "prp" -> PrpToPb(x)
      [] kind = "tree" -> TreeExpansionToPb(x) [] kind = "perf" -> DevicePerfToPb(x)
      [] kind = "event" -> NvmeEventToPb(x) [] kind = "stats" -> ErrorStatsToPb(x)
      [] kind = "rule" -> TargetRuleToPb(x) [] kind = "group" -> GroupToPb(x)
      [] kind = "session" -> SessionToPb(x) [] kind = "process" -> ProcessEntryToPb(x)

-----------------------------------------------------------------------------
\* What the wire does not tell apart: a time before boot is 0, so is an expected size or
\* depth that fio was not given (the command line prints None), a switch that it was not
\* given is off, and a group without measurement has measured nothing.
Nothing(m) == IF m = None THEN [io_size_dominant |-> 0, iops |-> 0] ELSE m
ShownSpec(w) == IF w = None THEN None ELSE [w EXCEPT !.io_size = OrZero(@), !.queue_depth = OrZero(@),
                                                        !.direct = (@ = TRUE)]
ShownGroup(g) ==
    [g EXCEPT !.measured_workload = Nothing(@), !.expected_workload = ShownSpec(@)]
Shown(kind, x) ==
    CASE kind = "group" -> ShownGroup(x)
      [] kind = "session" -> [x EXCEPT !.start_time_ns = NotNegative(@), !.aggregate = Nothing(@),
                                       !.logical_groups = Each(ShownGroup, @)]
      [] kind = "process" -> [x EXCEPT !.start_time_ns = NotNegative(@)]
      [] OTHER -> x

\* But for that, two values that the command line shows differently reach the browser as
\* different documents: no queue passes for one without hardware context, no undecided group for
\* a mismatch, no address or sector number for its neighbour.
ToldApart(kind, x) ==
    \A y \in Values(kind) : Web(kind, x) = Web(kind, y) => Shown(kind, x) = Shown(kind, y)
=============================================================================
