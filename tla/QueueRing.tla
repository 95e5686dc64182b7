----------------------------- MODULE QueueRing -----------------------------
(***************************************************************************)
(* The queue service reading one NVMe queue of a RUNNING kernel            *)
(* (services/queues/service.py, decode.py).  drgn takes no lock: every     *)
(* field is a read of live memory at its own instant, so the driver        *)
(* submits, and the device completes, between any two reads of a dump.     *)
(* A command is known by its number seq in submission order.  Its          *)
(* command_id is made of the tag of its request, reused once the request   *)
(* is done, and of how often that request has been used.  "dptr n" stands  *)
(* for the pointers of command n; a length says whose it is and whether it *)
(* is an estimate from the CDWs, for blocks of 512 bytes.                  *)
(***************************************************************************)
EXTENDS Integers, Sequences, FiniteSets, SequencesExt, FiniteSetsExt

CONSTANTS Depth,        \* q_depth, of the SQ and of the CQ
          Tags,         \* the tags of the hardware queue
          Gens,         \* the values of the genctr in a command id: 16
          MaxSeq,       \* bound: commands submitted
          Online,       \* dev.online_queues
          DefaultLimit, \* the 16 of "limit or 16"
          Limits,       \* limits a client asks for
          OtherTags,    \* tags another hctx of the namespace's disk may have busy
          Faulty,       \* ring slots whose memory may be unreadable
          Sgl,          \* the commands with PSDT # 0
          Estimable     \* the commands whose CDWs give their length

ASSUME QueueAssumption ==
    /\ Depth \in Nat /\ Depth > 1 /\ MaxSeq \in Nat /\ Online \in Nat \ {0}
    /\ Tags \subseteq Nat /\ IsFiniteSet(Tags) /\ Gens \in Nat \ {0} /\ Limits \subseteq Nat /\ DefaultLimit \in Nat \ {0}
    /\ OtherTags \subseteq Tags /\ Faulty \subseteq 0 .. Depth - 1
    /\ Sgl \subseteq 1 .. MaxSeq /\ Estimable \subseteq 1 .. MaxSeq

VARIABLES qid,      \* the queue the ring below belongs to; 0 is the admin queue
          foreign,  \* tags busy on another hctx of the namespace's disk
          bad,      \* ring slots whose memory cannot be read (FaultError)
          subs,     \* commands submitted; nvmeq.sq_tail is subs % Depth
          copying,  \* the command being copied into the ring, 0 if none
          sq,       \* the SQ: per slot, what its head and its dptr hold
          tagOf,    \* tag of each command submitted
          busy,     \* tag -> the started request holding it, 0 if none
          posted,   \* the commands completed, in the order of their CQEs
          consumed, \* CQEs the driver has consumed; cq_head is consumed % Depth
          cq,       \* the CQ: per slot, the number of the CQE it holds
          op        \* the read in progress

ring == <<qid, foreign, bad>>
driver == <<subs, copying, sq, tagOf, busy, posted, consumed, cq>>
vars == <<ring, driver, op>>

Slots == 0 .. Depth - 1
Blank == [head |-> 0, dptr |-> 0]
Idle == [kind |-> "idle", around |-> FALSE, pc |-> "idle", quiet |-> TRUE, cid |-> 0,
         at |-> 0, n |-> 0, todo |-> <<>>, out |-> <<>>]

\* nvme_cid (external: the kernel's nvme.h): the genctr is 1 when a request is used
\* for the first time, and is kept modulo 16.
Shift == 4096
Uses(n) == Cardinality({m \in 1 .. n : tagOf[m] = tagOf[n]})
CidOf(n) == (Uses(n) % Gens) * Shift + tagOf[n]
Cids == {g * Shift + t : g \in 0 .. Gens - 1, t \in Tags}

Init ==
    /\ qid \in {0, 1}
    /\ foreign \in {{}, OtherTags}
    /\ bad \in {{}, Faulty}
    /\ subs = 0 /\ copying = 0 /\ posted = <<>> /\ consumed = 0
    /\ sq = [i \in Slots |-> Blank]
    /\ cq = [i \in Slots |-> 0]
    /\ tagOf = [n \in 1 .. MaxSeq |-> 0]
    /\ busy = [t \in Tags |-> 0]
    /\ op = Idle

(***************************************************************************)
(* The kernel and the device (external): nvme_queue_rq starts a request,   *)
(* copies the command into the slot at sq_tail and then moves the tail;    *)
(* the device posts completions in any order; nvme_process_cq consumes     *)
(* them and frees their tags.                                              *)
(***************************************************************************)
Disturb == op' = [op EXCEPT !.quiet = FALSE]

Outstanding == {n \in 1 .. subs : \E t \in Tags : busy[t] = n}

StartCopy(t) ==
    /\ copying = 0 /\ subs < MaxSeq /\ busy[t] = 0
    /\ Cardinality(Outstanding) < Depth - 1
    /\ copying' = subs + 1
    /\ busy' = [busy EXCEPT ![t] = subs + 1]
    /\ tagOf' = [tagOf EXCEPT ![subs + 1] = t]
    /\ sq' = [sq EXCEPT ![subs % Depth].head = subs + 1]
    /\ Disturb
    /\ UNCHANGED <<ring, subs, posted, consumed, cq>>

EndCopy ==
    /\ copying # 0
    /\ sq' = [sq EXCEPT ![subs % Depth].dptr = copying]
    /\ subs' = copying /\ copying' = 0
    /\ Disturb
    /\ UNCHANGED <<ring, tagOf, busy, posted, consumed, cq>>

Post(n) ==
    /\ n \in Outstanding \ Range(posted)
    /\ Len(posted) - consumed < Depth - 1
    /\ cq' = [cq EXCEPT ![Len(posted) % Depth] = Len(posted) + 1]
    /\ posted' = Append(posted, n)
    /\ Disturb
    /\ UNCHANGED <<ring, subs, copying, sq, tagOf, busy, consumed>>

Consume ==
    /\ consumed < Len(posted)
    /\ consumed' = consumed + 1
    /\ busy' = [busy EXCEPT ![tagOf[posted[consumed + 1]]] = 0]
    /\ Disturb
    /\ UNCHANGED <<ring, subs, copying, sq, tagOf, posted, cq>>

(***************************************************************************)
(* The reader.                                                             *)
(***************************************************************************)
\* Mutant: the window starts at the doorbell itself instead of one before it.
MutWindow(doorbell, limit) ==
    [k \in 1 .. Min({limit, Depth}) |-> (doorbell - (k - 1)) % Depth]

\* decode._window_indices: newest first, wrapping.
Window(doorbell, limit) ==
    [k \in 1 .. Min({limit, Depth}) |-> (doorbell - 1 - (k - 1)) % Depth]

\* Mutant: the limit is not capped by the depth.
MutTable(limit) == [k \in 1 .. (IF limit = 0 THEN Depth ELSE limit) |-> k - 1]

\* Rows 0 .. min(limit, depth) - 1; a limit of 0 means the whole ring.
Table(limit) ==
    [k \in 1 .. (IF limit = 0 THEN Depth ELSE Min({limit, Depth})) |-> k - 1]

\* _instance_of, lookup_device and the range check of qid: an unknown queue
\* is refused before anything of the ring is read.
Refuse(asked) ==
    /\ op.pc = "idle" /\ ~(0 <= asked /\ asked < Online)
    /\ op' = [Idle EXCEPT !.kind = "refused", !.pc = "done"]
    /\ UNCHANGED <<ring, driver>>

\* get_queue_entries and get_completion_entries up to the list of indices:
\* the doorbell is read once, here.
BeginList(kind, limit, around) ==
    LET doorbell == IF kind = "sq" THEN subs ELSE consumed
        rows == IF around
                THEN Window(doorbell % Depth, IF limit = 0 THEN DefaultLimit ELSE limit)
                ELSE Table(limit)
    IN
    /\ op.pc = "idle" /\ qid < Online
    /\ op' = [Idle EXCEPT !.kind = kind, !.around = around,
                          !.pc = "slot", !.at = doorbell, !.quiet = (copying = 0),
                          !.n = Len(rows), !.todo = rows]
    /\ UNCHANGED <<ring, driver>>

\* One slot: opcode, flags and the other CDWs are read before dptr; a
\* FaultError skips the slot and goes on.
ReadHead ==
    /\ op.pc = "slot" /\ op.todo # <<>>
    /\ LET i == Head(op.todo)
           held == IF op.kind = "sq" THEN sq[i].head ELSE cq[i]
       IN op' = IF i \in bad
                THEN [op EXCEPT !.todo = Tail(@)]
                ELSE [op EXCEPT !.pc = "dptr",
                                !.out = Append(@, [index |-> i, head |-> held, dptr |-> 0])]
    /\ UNCHANGED <<ring, driver>>

ReadDptr ==
    /\ op.pc = "dptr"
    /\ LET i == Head(op.todo)
           held == IF op.kind = "sq" THEN sq[i].dptr ELSE cq[i]
       IN op' = [op EXCEPT !.pc = "slot", !.todo = Tail(@),
                           !.out[Len(op.out)].dptr = held]
    /\ UNCHANGED <<ring, driver>>

EndList ==
    /\ op.pc = "slot" /\ op.todo = <<>> /\ op.kind \notin {"prp", "snapshot"}
    /\ op' = [op EXCEPT !.pc = "done"]
    /\ UNCHANGED <<ring, driver>>

\* get_device_snapshot: the busy requests of every hctx are counted first,
\* tag by tag; only then are the queues' registers read.
BeginSnapshot ==
    /\ op.pc = "idle"
    /\ op' = [Idle EXCEPT !.kind = "snapshot", !.pc = "count", !.todo = SetToSeq(Tags)]
    /\ UNCHANGED <<ring, driver>>

\* _inflight_by_hctx; op.n accumulates bucket[qid - 1], the requests of this
\* hctx; those of another go to a bucket of their own.
CountTag ==
    /\ op.pc = "count" /\ op.todo # <<>>
    /\ op' = [op EXCEPT !.todo = Tail(@),
                        !.n = IF busy[Head(op.todo)] # 0 THEN @ + 1 ELSE @]
    /\ UNCHANGED <<ring, driver>>

\* FaultError or LookupError: what was counted so far is kept, the rest is not.
CountFails ==
    /\ op.pc = "count" /\ op.todo # <<>>
    /\ op' = [op EXCEPT !.pc = "registers"]
    /\ UNCHANGED <<ring, driver>>

ReadRegisters ==
    /\ op.pc = "registers" \/ (op.pc = "count" /\ op.todo = <<>>)
    /\ op' = [op EXCEPT !.pc = "done",
                        !.out = <<[sq_tail |-> subs % Depth, cq_head |-> consumed % Depth,
                                   inflight |-> IF qid = 0 THEN 0 ELSE op.n]>>]
    /\ UNCHANGED <<ring, driver>>

\* get_prp_payload: the ring is scanned from row 0, NOT from the doorbell.
BeginPrp(c) ==
    /\ op.pc = "idle" /\ qid < Online
    /\ op' = [Idle EXCEPT !.kind = "prp", !.pc = "scan", !.cid = c, !.at = -1,
                          !.quiet = (copying = 0), !.todo = Table(0)]
    /\ UNCHANGED <<ring, driver>>

\* command_id of a slot; a ring is zeroed when it is allocated.
CidIn(i) == IF sq[i].head = 0 THEN 0 ELSE CidOf(sq[i].head)

\* The match keeps a REFERENCE to the slot: what follows reads it again.
Scan ==
    /\ op.pc = "scan" /\ op.todo # <<>>
    /\ LET i == Head(op.todo) IN
       op' = IF i \notin bad /\ CidIn(i) = op.cid
             THEN [op EXCEPT !.pc = "flags", !.at = i, !.todo = <<>>]
             ELSE [op EXCEPT !.todo = Tail(@)]
    /\ UNCHANGED <<ring, driver>>

ScanFails ==
    /\ op.pc = "scan" /\ op.todo = <<>>
    /\ op' = [op EXCEPT !.pc = "done", !.out = <<>>]
    /\ UNCHANGED <<ring, driver>>

Unknown == [of |-> 0, est |-> TRUE]

\* flags, then prp1 and prp2; PSDT # 0 is marked and not decoded.
ReadPrps ==
    /\ op.pc = "flags"
    /\ op' = IF sq[op.at].head \in Sgl
             THEN [op EXCEPT !.pc = "done", !.out = <<[uses_sgl |-> TRUE, prp |-> 0, len |-> Unknown]>>]
             ELSE [op EXCEPT !.pc = "len",
                             !.out = <<[uses_sgl |-> FALSE, prp |-> sq[op.at].dptr, len |-> Unknown]>>]
    /\ UNCHANGED <<ring, driver>>

\* What the CDWs of the slot say.
Estimate == IF sq[op.at].head \in Estimable THEN [of |-> sq[op.at].head, est |-> TRUE] ELSE Unknown

\* The started request whose TAG is the command id, which it is only where the genctr
\* is 0, on this hctx for an I/O queue and on ANY hctx of the namespace's disk for the
\* admin queue (-1: an unrelated I/O).
TagHolder(c) ==
    IF qid = 0 THEN (IF c \in foreign THEN -1 ELSE 0) ELSE (IF c \in Tags THEN busy[c] ELSE 0)

\* Mutant: the hctx of the request with this tag is not compared.
MutTotalLen ==
    IF op.cid \in foreign THEN {[of |-> -1, est |-> FALSE]}
    ELSE IF op.cid \in Tags /\ busy[op.cid] # 0 THEN {[of |-> busy[op.cid], est |-> FALSE]}
    ELSE {Estimate}

\* _resolve_total_len: that request's length, else, also when a request cannot be
\* read, the estimate.
TotalLen ==
    {Estimate} \cup (IF TagHolder(op.cid) = 0 THEN {} ELSE {[of |-> TagHolder(op.cid), est |-> FALSE]})

ReadLength ==
    /\ op.pc = "len"
    /\ \E len \in TotalLen :
          op' = [op EXCEPT !.pc = "done",
                           !.out = <<[uses_sgl |-> FALSE, prp |-> op.out[1].prp, len |-> len]>>]
    /\ UNCHANGED <<ring, driver>>

Return ==
    /\ op.pc = "done"
    /\ op' = Idle
    /\ UNCHANGED <<ring, driver>>

Next ==
    \/ \E t \in Tags : StartCopy(t)
    \/ EndCopy
    \/ \E n \in 1 .. MaxSeq : Post(n)
    \/ Consume
    \/ \E asked \in {Online} : Refuse(asked)
    \/ \E kind \in {"sq", "cq"}, limit \in Limits, around \in BOOLEAN : BeginList(kind, limit, around)
    \/ ReadHead \/ ReadDptr \/ EndList
    \/ BeginSnapshot \/ CountTag \/ CountFails \/ ReadRegisters
    \/ \E c \in Cids : BeginPrp(c)
    \/ Scan \/ ScanFails \/ ReadPrps \/ ReadLength \/ Return

Spec == Init /\ [][Next]_vars

-----------------------------------------------------------------------------
\* The read fields are those the code computes with.
TypeOK ==
    /\ subs \in 0 .. MaxSeq /\ copying \in {0, subs + 1}
    /\ posted \in Seq(1 .. MaxSeq) /\ consumed \in 0 .. Len(posted)
    /\ sq \in [Slots -> [head : 0 .. MaxSeq, dptr : 0 .. MaxSeq]]
    /\ cq \in [Slots -> 0 .. MaxSeq]
    /\ busy \in [Tags -> 0 .. MaxSeq] /\ tagOf \in [1 .. MaxSeq -> Tags \cup {0}]
    /\ op.todo \in Seq(Slots \cup Tags)
    /\ op.pc \in {"idle", "slot", "dptr", "count", "registers", "scan", "flags", "len", "done"}

\* How far before the doorbell that was read the rows are that a dump around it
\* owes, and which of them is the r-th, newest first.
Owed == {k \in 1 .. op.n : (op.at - k) % Depth \notin bad}
Row(r) == CHOOSE k \in Owed : Cardinality(Owed \cap 1 .. k) = r

\* What a slot may show that was filled for the o-th time at the doorbell (0 or
\* less: never): the o-th command or completion, or one whole laps younger.
Fits(n, o) == IF n = 0 THEN o <= 0 ELSE n >= o /\ (n - o) % Depth = 0

\* A dump around the doorbell never shows something OLDER than its position
\* claims: whatever driver and device do during it, the row k before the sq_tail
\* (cq_head) that was read holds, in each of its halves, that very command
\* (completion) or one a whole number of laps younger (get_queue_entries,
\* get_completion_entries); rows come newest first, none twice, none missed.
ListedIsRecent ==
    op.kind \in {"sq", "cq"} /\ op.around =>
        /\ Len(op.out) <= Cardinality(Owed)
        /\ op.pc = "done" => Len(op.out) = Cardinality(Owed)
        /\ \A r \in 1 .. Len(op.out) :
              /\ op.out[r].index = (op.at - Row(r)) % Depth
              /\ Fits(op.out[r].head, op.at + 1 - Row(r))
              /\ \/ op.pc = "dptr" /\ r = Len(op.out)
                 \/ Fits(op.out[r].dptr, op.at + 1 - Row(r))

Started == {t \in Tags : busy[t] # 0}

\* A read during which nothing moved is exact as far as it can be.  A listing has
\* every readable row of its window, each whole and the latest; a snapshot counts the
\* started requests of this hctx, fewer only if one could not be read; and if one row
\* carries the id of an I/O command, the pointers are that row's, and the length is
\* estimated from that row or is that of a request of this hctx (get_prp_payload).
QuietReadsExact ==
    op.pc = "done" /\ op.quiet =>
        /\ op.kind = "sq" /\ op.around =>
              op.out = [r \in 1 .. Cardinality(Owed) |->
                          LET latest == Max({0, op.at + 1 - Row(r)}) IN
                          [index |-> (op.at - Row(r)) % Depth, head |-> latest, dptr |-> latest]]
        /\ op.kind = "snapshot" =>
              LET inflight == op.out[1].inflight IN
              /\ inflight <= Cardinality(Started)
              /\ op.todo = <<>> /\ qid # 0 => inflight = Cardinality(Started)
        /\ op.kind = "prp" /\ qid # 0 =>
              \A i \in Slots \ bad :
                 {j \in Slots : CidIn(j) = op.cid} = {i} =>
                    /\ Len(op.out) = 1
                    /\ op.out[1].uses_sgl <=> sq[i].head \in Sgl
                    /\ ~op.out[1].uses_sgl =>
                          /\ op.out[1].prp = sq[i].dptr
                          /\ IF op.out[1].len.est THEN op.out[1].len.of \in {0, sq[i].head}
                             ELSE op.out[1].len.of \in Outstanding

\* "The data pages that command points to" (services/queues/contract.py:50): the
\* pointers and the length a payload is decoded with are those of one command.
PayloadOfCommand ==
    op.kind = "prp" /\ op.pc = "done" /\ op.quiet /\ op.out # <<>> =>
        op.out[1].len.of \in {0, op.out[1].prp}

\* What _resolve_total_len says of itself (service.py:282-283): while the command is
\* in flight, its request is found and gives its length.
InflightLength ==
    op.pc = "len" /\ op.quiet /\ qid # 0 /\ op.out[1].prp \in Outstanding =>
        [of |-> op.out[1].prp, est |-> FALSE] \in TotalLen
=============================================================================
