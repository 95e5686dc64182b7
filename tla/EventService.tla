----------------------------- MODULE EventService -----------------------------
(***************************************************************************)
(* The event service: two readers follow the log the collector appends to, *)
(* each with its own cursor (platform/ebpf/logfile.py) and its own ring of *)
(* the most recent events (TimeoutEventReader, ErrorEventReader), and      *)
(* get_events merges the rings.  The collector writes, dies and restarts,  *)
(* and the log is truncated or removed, between any two system calls of a  *)
(* poll.                                                                   *)
(*                                                                         *)
(* A line of the log is two units, a head and an end: the end carries the  *)
(* newline.  Offsets and sizes count units.  That is enough for a reader   *)
(* to meet a line that is half written, a line whose beginning was cut     *)
(* off, and the remains of a line that a dead collector left in front of   *)
(* the next one.                                                           *)
(***************************************************************************)
EXTENDS Integers, Sequences, FiniteSets

CONSTANTS
    Devices,
    MaxEvents,      \* max_events of a ring
    MaxLines,       \* bound: lines written
    MaxFaults,      \* bound: truncations, removals, daemon restarts
    Times           \* bound: what time.time() may answer, in any order

ASSUME EventAssumption ==
    /\ MaxEvents \in Nat \ {0} /\ MaxLines \in Nat /\ MaxFaults \in Nat
    /\ Times \subseteq Nat

Readers == <<"timeout", "error">>       \* in the order of _readers
Kinds == {"timeout", "error", "tick"}   \* a tick is every other line

VARIABLES
    exists,     \* the log file exists
    file,       \* its content
    open,       \* the line the collector is in the middle of, 0 if none
    line,       \* the lines written so far: kind and device
    faults,
    whole,      \* the log has only been appended to since the readers exist
    trimmed,    \* it has been cut to a rest, which may hold lines read before
    offset,     \* _offset of each reader's cursor
    ring,       \* _events of each reader
    pc,         \* the reader that get_events polls, and how far it is
    device,     \* the argument of get_events
    events      \* its answer

logVars == <<exists, file, open, line>>
readerVars == <<offset, ring>>
callVars == <<pc, device, events>>
faultVars == <<faults, whole, trimmed>>
vars == <<logVars, faultVars, readerVars, callVars>>

NoCall == [reader |-> 0, at |-> "idle"]
EmptyReaders == [r \in 1 .. 2 |-> 0]
EmptyRings == [r \in 1 .. 2 |-> <<>>]

-----------------------------------------------------------------------------
(* The collector and the file system. *)

\* A line begins to reach the file; a file that was removed is created.
WriteHead(kind, dev) ==
    /\ open = 0
    /\ Len(line) < MaxLines
    /\ line' = Append(line, [kind |-> kind, device |-> dev])
    /\ open' = Len(line) + 1
    /\ file' = Append(file, [line |-> Len(line) + 1, part |-> "head"])
    /\ exists' = TRUE
    /\ UNCHANGED <<faultVars, readerVars, callVars>>

\* The rest of it.
WriteEnd ==
    /\ open # 0
    /\ file' = Append(file, [line |-> open, part |-> "end"])
    /\ open' = 0
    /\ UNCHANGED <<exists, line, faultVars, readerVars, callVars>>

\* The collector dies in the middle of a line; the next one appends.
CollectorDies ==
    /\ open # 0
    /\ open' = 0
    /\ UNCHANGED <<exists, file, line, faultVars, readerVars, callVars>>

\* The log loses its beginning, all of it or the first units, and the collector
\* goes on appending.
Trim(cut) ==
    /\ exists
    /\ faults < MaxFaults
    /\ faults' = faults + 1
    /\ file' = SubSeq(file, cut + 1, Len(file))
    /\ whole' = FALSE
    /\ trimmed' = (trimmed \/ cut < Len(file))
    /\ UNCHANGED <<exists, open, line, readerVars, callVars>>

\* The log is removed; nothing is seen until the collector restarts.
Remove ==
    /\ exists
    /\ faults < MaxFaults
    /\ faults' = faults + 1
    /\ file' = <<>>
    /\ exists' = FALSE
    /\ open' = 0
    /\ whole' = FALSE
    /\ UNCHANGED <<trimmed, line, readerVars, callVars>>

-----------------------------------------------------------------------------
(* The cursor. *)

\* Unit i of the chunk ends a line that is there from its first byte.
Complete(chunk, i) ==
    /\ chunk[i].part = "end"
    /\ i > 1
    /\ chunk[i - 1].part = "head"
    /\ i > 2 => chunk[i - 2].part = "end"

\* Mutant: everything that was read counts as consumed.
AfterLastByte(chunk) == Len(chunk)

\* chunk.rfind("\n") + 1.
AfterLastNewline(chunk) ==
    IF \E i \in DOMAIN chunk : chunk[i].part = "end"
    THEN CHOOSE i \in DOMAIN chunk :
           /\ chunk[i].part = "end"
           /\ \A j \in DOMAIN chunk : chunk[j].part = "end" => j <= i
    ELSE 0

\* A finite set of positions, from the first to the last.
Ascending(S) ==
    CHOOSE s \in [1 .. Cardinality(S) -> S] :
      \A i, j \in DOMAIN s : i < j => s[i] < s[j]

\* The positions at which a line ends that the reader of a kind can parse.
Hits(chunk, kind) ==
    {i \in DOMAIN chunk : Complete(chunk, i) /\ line[chunk[i].line].kind = kind}

\* The lines of a chunk that the reader of a kind can parse.
Parsed(chunk, kind) ==
    LET order == Ascending(Hits(chunk, kind))
    IN  [k \in DOMAIN order |-> chunk[order[k]].line]

\* Mutant: the ring is never cut.
WholeRing(s, n) == s

LastN(s, n) == IF Len(s) > n THEN SubSeq(s, Len(s) - n + 1, Len(s)) ELSE s

\* Mutant: the offset is also reset when the size is what it was.
ResetWhenEqual(r) == IF Len(file) <= offset[r] THEN 0 ELSE offset[r]

\* Mutant: the offset is never reset.
NeverReset(r) == offset[r]

\* getsize: a size below the offset means the file was cut.
CheckedOffset(r) == IF Len(file) < offset[r] THEN 0 ELSE offset[r]

-----------------------------------------------------------------------------
(* get_events. *)

\* Without a log there are no events.
BeginNoLog(dev) ==
    /\ pc = NoCall
    /\ ~exists
    /\ device' = dev
    /\ events' = <<>>
    /\ UNCHANGED <<logVars, faultVars, readerVars, pc>>

Begin(dev) ==
    /\ pc = NoCall
    /\ exists
    /\ device' = dev
    /\ events' = <<>>
    /\ pc' = [reader |-> 1, at |-> "size"]
    /\ UNCHANGED <<logVars, faultVars, readerVars>>

\* After the last reader the rings are merged.
NextReader(r) ==
    pc' = IF r < Len(Readers) THEN [reader |-> r + 1, at |-> "size"]
                              ELSE [reader |-> r, at |-> "merge"]

\* read_new_lines, getsize: no file, no lines.
PollSize ==
    /\ pc.at = "size"
    /\ LET r == pc.reader
       IN  IF exists
           THEN /\ offset' = [offset EXCEPT ![r] = CheckedOffset(r)]
                /\ pc' = [pc EXCEPT !.at = "read"]
           ELSE NextReader(r) /\ UNCHANGED offset
    /\ UNCHANGED <<logVars, faultVars, ring, device, events>>

\* The events a poll adds, each with what time.time() answers as it is parsed:
\* twice the same, or less than before, when the clock stands or is set back.
Dated(ids, stamps) ==
    [k \in DOMAIN ids |-> [line |-> ids[k], observed_at |-> stamps[k]]]

\* read_new_lines, open and read, and poll: an offset past the end reads
\* nothing; an unfinished line is left for the next time.
PollRead ==
    /\ pc.at = "read"
    /\ LET r == pc.reader
           chunk == IF exists THEN SubSeq(file, offset[r] + 1, Len(file)) ELSE <<>>
           ids == Parsed(chunk, Readers[r])
       IN  /\ offset' = [offset EXCEPT ![r] = @ + AfterLastNewline(chunk)]
           /\ \E stamps \in [DOMAIN ids -> Times] :
                ring' = [ring EXCEPT ![r] = LastN(@ \o Dated(ids, stamps), MaxEvents)]
           /\ NextReader(r)
    /\ UNCHANGED <<logVars, faultVars, device, events>>

\* events_for_device of every reader: the places of the events in the rings.
Found ==
    {p \in (1 .. 2) \X (1 .. MaxEvents) :
       /\ p[2] \in DOMAIN ring[p[1]]
       /\ line[ring[p[1]][p[2]].line].device = device}

EventAt(p) == ring[p[1]][p[2]]

\* The order in which the readers' lists are put one behind the other.
Listed(p, q) == p[1] < q[1] \/ (p[1] = q[1] /\ p[2] < q[2])

\* list.sort by observed_at: events of one time keep their order.
Before(p, q) ==
    \/ EventAt(p).observed_at < EventAt(q).observed_at
    \/ EventAt(p).observed_at = EventAt(q).observed_at /\ Listed(p, q)

ByTime(places) ==
    CHOOSE s \in [1 .. Cardinality(places) -> places] :
      \A i, j \in DOMAIN s : i < j => Before(s[i], s[j])

Merge ==
    /\ pc.at = "merge"
    /\ LET order == ByTime(Found)
       IN  events' = [k \in DOMAIN order |-> EventAt(order[k])]
    /\ pc' = NoCall
    /\ UNCHANGED <<logVars, faultVars, readerVars, device>>

\* The daemon restarts: new readers begin at the start of the log.
DaemonRestart ==
    /\ faults < MaxFaults
    /\ faults' = faults + 1
    /\ whole' = TRUE
    /\ trimmed' = FALSE
    /\ offset' = EmptyReaders
    /\ ring' = EmptyRings
    /\ pc' = NoCall
    /\ events' = <<>>
    /\ UNCHANGED <<logVars, device>>

-----------------------------------------------------------------------------
Init ==
    /\ exists = FALSE
    /\ file = <<>>
    /\ open = 0
    /\ line = <<>>
    /\ faults = 0
    /\ whole = TRUE
    /\ trimmed = FALSE
    /\ offset = EmptyReaders
    /\ ring = EmptyRings
    /\ pc = NoCall
    /\ device \in Devices
    /\ events = <<>>

Poll == PollSize \/ PollRead \/ Merge

Next ==
    \/ \E kind \in Kinds, dev \in Devices : WriteHead(kind, dev)
    \/ WriteEnd
    \/ CollectorDies
    \/ \E cut \in DOMAIN file : Trim(cut)
    \/ Remove
    \/ \E dev \in Devices : BeginNoLog(dev) \/ Begin(dev)
    \/ PollSize
    \/ PollRead
    \/ Merge
    \/ DaemonRestart

Spec == Init /\ [][Next]_vars

\* A client that watches a device polls again and again (StreamEvents).
FairSpec == Spec /\ WF_vars(Poll) /\ WF_vars(\E dev \in Devices : Begin(dev))

-----------------------------------------------------------------------------
Units == [line: 1 .. MaxLines, part: {"head", "end"}]
Event == [line: 1 .. MaxLines, observed_at: Times]

(* The type invariant of the event service. *)
TypeOK ==
    /\ exists \in BOOLEAN
    /\ file \in Seq(Units)
    /\ open \in 0 .. MaxLines
    /\ line \in Seq([kind: Kinds, device: Devices])
    /\ faults \in 0 .. MaxFaults
    /\ whole \in BOOLEAN /\ trimmed \in BOOLEAN
    /\ offset \in [1 .. 2 -> Nat]
    /\ \A r \in 1 .. 2 : ring[r] \in Seq(Event) /\ Len(ring[r]) <= MaxEvents
    /\ pc \in [reader: 0 .. 2, at: {"idle", "size", "read", "merge"}]
    /\ device \in Devices
    /\ events \in Seq(Event)

LinesOf(evs) == [k \in DOMAIN evs |-> evs[k].line]

(* While the log is only appended to, a reader neither loses nor invents   *)
(* an event, wherever the writes and reads fall: its ring holds exactly    *)
(* the most recent events among the complete lines before its offset.      *)
RingIsTail ==
    whole => \A r \in 1 .. 2 :
      /\ offset[r] <= Len(file)
      /\ LinesOf(ring[r]) =
           LastN(Parsed(SubSeq(file, 1, offset[r]), Readers[r]), MaxEvents)

(* Unless the log is cut to a rest, which may hold lines already read      *)
(* (the cursor reads such a rest again, logfile.py:39), no reader reports  *)
(* an event twice or before an older one of its kind, through removals,    *)
(* truncations and restarts: resetting the offset does not make it read a  *)
(* line again.  An answer merges the readers by the time each line was     *)
(* parsed: it holds no event twice either, and two events of one kind      *)
(* stand in another order than they happened in only if the clock was set  *)
(* back between them.                                                      *)
ReportedOnce ==
    ~trimmed =>
      /\ \A r \in 1 .. 2 : \A i, j \in DOMAIN ring[r] :
           i < j => ring[r][i].line < ring[r][j].line
      /\ \A i, j \in DOMAIN events :
           i < j => \/ events[i].line < events[j].line
                   \/ /\ events[i].line # events[j].line
                      /\ \/ line[events[i].line].kind # line[events[j].line].kind
                         \/ events[i].observed_at < events[j].observed_at

(* A truncated or removed log does not stop a reader for good: once the    *)
(* log is left alone the cursor comes to its last complete line.           *)
CatchesUp ==
    <>[](exists => \A r \in 1 .. 2 :
           offset[r] \in AfterLastNewline(file) .. Len(file))

===============================================================================
