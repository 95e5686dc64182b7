-------------------------- MODULE QueueRingProofs --------------------------
(***************************************************************************)
(* Proofs about QueueRing, for rings of any depth, any number of tags and  *)
(* of commands and any window: what a dump of a live ring may show.        *)
(***************************************************************************)
EXTENDS QueueRing, SequenceTheorems, FiniteSetTheorems, TLAPS

ListRow == [index: Slots, head: 0 .. MaxSeq, dptr: 0 .. MaxSeq]

\* The command last begun, and the last number a listing's doorbell can have.
Begun == IF copying = 0 THEN subs ELSE copying
Filled == IF op.kind = "sq" THEN subs ELSE Len(posted)

\* n is the last of the numbers 1 .. last that go to slot i, 0 if none does.
Latest(n, i, last) ==
    /\ n \in 0 .. last
    /\ n # 0 => (n - 1) % Depth = i
    /\ \A m \in 1 .. last : (m - 1) % Depth = i => m <= n

\* Each slot holds the last command (completion) written to it; the head of an
\* entry is written before its dptr.
RingHolds ==
    \A i \in Slots :
      /\ Latest(sq[i].head, i, Begun)
      /\ Latest(sq[i].dptr, i, subs)
      /\ Latest(cq[i], i, Len(posted))

\* A tag in use names the youngest command that was given it.
TagsHold ==
    \A t \in Tags : busy[t] # 0 =>
      /\ busy[t] \in 1 .. Begun /\ tagOf[busy[t]] = t
      /\ \A m \in 1 .. Begun : tagOf[m] = t => m <= busy[t]

\* What the driver and the device keep.
KernelTypes ==
    /\ subs \in 0 .. MaxSeq /\ copying \in {0, subs + 1} /\ Begun <= MaxSeq
    /\ posted \in Seq(1 .. MaxSeq) /\ consumed \in 0 .. Len(posted)
    /\ sq \in [Slots -> [head : 0 .. MaxSeq, dptr : 0 .. MaxSeq]]
    /\ cq \in [Slots -> 0 .. MaxSeq]
    /\ busy \in [Tags -> 0 .. MaxSeq] /\ tagOf \in [1 .. MaxSeq -> Tags \cup {0}]

\* No command is completed twice.
PostedOnce == Cardinality(Range(posted)) = Len(posted)

\* What the read in progress has in hand.
OpTypes ==
    /\ op \in [kind: {"idle", "refused", "sq", "cq", "snapshot", "prp"}, around: BOOLEAN,
               pc: {"idle", "slot", "dptr", "count", "registers", "scan", "flags", "len", "done"},
               quiet: BOOLEAN, cid: Nat, at: Int, n: Nat, todo: Seq(Slots \cup Tags),
               out: {op.out}]
    /\ op.pc \in {"slot", "dptr"} => op.kind \in {"sq", "cq"}
    /\ op.pc \in {"count", "registers"} => op.kind = "snapshot"
    /\ op.pc \in {"scan", "flags", "len"} => op.kind = "prp"

\* A listing: the row whose dptr is still to be read is that of the next slot.
Listing ==
    op.kind \in {"sq", "cq"} =>
      /\ op.pc \in {"slot", "dptr", "done"}
      /\ op.out \in Seq(ListRow) /\ op.todo \in Seq(Slots)
      /\ op.pc = "dptr" => op.todo # <<>> /\ op.out # <<>>
      /\ op.pc = "done" => op.todo = <<>>

\* The r-th row was read from the slot k before the doorbell, and its halves are
\* no older than that; if nothing moved they are the latest.
GoodHalf(n, k) ==
    /\ Fits(n, op.at + 1 - k)
    /\ op.quiet /\ op.kind = "sq" => n = IF op.at + 1 - k > 0 THEN op.at + 1 - k ELSE 0

GoodRow(r, k) ==
    /\ k \in Owed /\ Cardinality(Owed \cap 1 .. k) = r
    /\ op.out[r].index = (op.at - k) % Depth
    /\ GoodHalf(op.out[r].head, k)
    /\ (op.pc = "dptr" /\ r = Len(op.out)) \/ GoodHalf(op.out[r].dptr, k)

\* The rows a listing has dealt with.
Done == op.n - Len(op.todo)

\* A listing around the doorbell: what is left to read, and what has been read.
Around ==
    op.kind \in {"sq", "cq"} /\ op.around =>
      /\ op.at \in 0 .. Filled /\ op.n <= Depth /\ Done >= 0
      /\ op.quiet /\ op.kind = "sq" => copying = 0 /\ op.at = subs
      /\ \A k \in 1 .. Len(op.todo) : op.todo[k] = (op.at - (Done + k)) % Depth
      /\ op.pc = "dptr" => Done + 1 \in Owed
      /\ Len(op.out) = IF op.pc = "dptr" THEN Cardinality(Owed \cap 1 .. Done + 1)
                                         ELSE Cardinality(Owed \cap 1 .. Done)
      /\ \A r \in 1 .. Len(op.out) : \E k \in 1 .. op.n : GoodRow(r, k)

\* A snapshot: the tags counted so far.
Counted == {t \in Tags \ Range(op.todo) : busy[t] # 0}

Snapshot ==
    op.kind = "snapshot" =>
      /\ op.pc \in {"count", "registers", "done"}
      /\ op.pc = "count" =>
           /\ op.todo \in Seq(Tags)
           /\ \A i, j \in DOMAIN op.todo : op.todo[i] = op.todo[j] => i = j
      /\ op.pc \in {"count", "registers"} /\ op.quiet => op.n = Cardinality(Counted)
      /\ op.pc = "done" /\ op.quiet =>
           op.out[1].inflight = IF qid = 0 THEN 0 ELSE Cardinality(Counted)

\* A payload: the scan misses no row, and keeps one that carries the id.
Matches(i) == i \in Slots \ bad /\ CidIn(i) = op.cid

Exact ==
    qid # 0 => \A i \in Slots \ bad :
      {j \in Slots : CidIn(j) = op.cid} = {i} =>
        /\ Len(op.out) = 1
        /\ op.out[1].uses_sgl <=> sq[i].head \in Sgl
        /\ ~op.out[1].uses_sgl =>
              /\ op.out[1].prp = sq[i].dptr
              /\ IF op.out[1].len.est THEN op.out[1].len.of \in {0, sq[i].head}
                 ELSE op.out[1].len.of \in Outstanding

Payload ==
    op.kind = "prp" =>
      /\ op.pc \in {"scan", "flags", "len", "done"}
      /\ op.pc = "scan" => op.todo \in Seq(Slots)
      /\ op.pc \in {"flags", "len"} => op.at \in Slots
      /\ op.quiet => copying = 0
      /\ op.quiet /\ op.pc = "scan" => \A j \in Slots : Matches(j) => j \in Range(op.todo)
      /\ op.quiet /\ op.pc \in {"flags", "len"} => Matches(op.at)
      /\ op.pc = "len" => op.out = <<[uses_sgl |-> FALSE, prp |-> op.out[1].prp, len |-> Unknown]>>
      /\ op.quiet /\ op.pc = "len" =>
           sq[op.at].head \notin Sgl /\ op.out[1].prp = sq[op.at].dptr
      /\ op.quiet /\ op.pc = "done" => Exact

\* The inductive invariant: what the kernel keeps, and what a read has in hand.
Kernel == KernelTypes /\ RingHolds /\ TagsHold /\ PostedOnce

Reading == OpTypes /\ Listing /\ Around /\ Snapshot /\ Payload

Inv == Kernel /\ Reading

-----------------------------------------------------------------------------
(* Positions modulo the depth. *)

LEMMA Remainder ==
    ASSUME NEW a \in Int
    PROVE  a % Depth \in Slots /\ \E q \in Int : a = Depth * q + (a % Depth)
<1>1. Depth \in Nat \ {0}
  BY QueueAssumption
<1>2. a % Depth \in Slots
  BY <1>1 DEF Slots
<1>3. a \div Depth \in Int /\ a = Depth * (a \div Depth) + (a % Depth)
  BY <1>1
<1> QED
  BY <1>2, <1>3

\* Numbers of one slot are whole laps apart.
LEMMA WholeLaps ==
    ASSUME NEW a \in Int, NEW b \in Int, a % Depth = b % Depth
    PROVE  (a - b) % Depth = 0 /\ \E q \in Int : a - b = Depth * q
<1>0. Depth \in Nat \ {0}
  BY QueueAssumption
<1>1. PICK q \in Int : a = Depth * q + (a % Depth)
  BY Remainder
<1>2. PICK r \in Int : b = Depth * r + (b % Depth)
  BY Remainder
<1>3. a % Depth \in Int
  BY Remainder DEF Slots
<1>4. Depth * q \in Int /\ Depth * r \in Int /\ Depth * (q - r) = Depth * q - Depth * r
  BY <1>0
<1>5. a - b = Depth * (q - r)
  BY <1>1, <1>2, <1>3, <1>4
<1>6. (Depth * (q - r)) % Depth = 0
  BY <1>0
<1> QED
  BY <1>5, <1>6

\* Less than a lap apart, they are the same.
LEMMA OneLap ==
    ASSUME NEW a \in Int, NEW b \in Int, a % Depth = b % Depth,
           a - b < Depth, b - a < Depth
    PROVE  a = b
<1>0. Depth \in Nat \ {0}
  BY QueueAssumption
<1>1. PICK q \in Int : a - b = Depth * q
  BY WholeLaps
<1>2. Depth * q < Depth /\ -Depth < Depth * q
  BY <1>0, <1>1
<1>3. q = 0
  BY <1>0, <1>2
<1> QED
  BY <1>0, <1>1, <1>3

\* Whole laps do not change the slot.
LEMMA SameSlot ==
    ASSUME NEW a \in Int, NEW b \in Int, NEW q \in Int, a = Depth * q + b
    PROVE  a % Depth = b % Depth
<1>0. Depth \in Nat \ {0}
  BY QueueAssumption
<1> DEFINE x == a % Depth
           y == b % Depth
<1>1. x \in 0 .. Depth - 1 /\ y \in 0 .. Depth - 1
  BY Remainder DEF Slots
<1>2. PICK s \in Int : a = Depth * s + x
  BY Remainder
<1>3. PICK t \in Int : b = Depth * t + y
  BY Remainder
<1> HIDE DEF x, y
<1>4. /\ Depth * s \in Int /\ Depth * t \in Int /\ Depth * q \in Int
      /\ Depth * (q + t - s) = Depth * q + Depth * t - Depth * s
  BY <1>0
<1>5. x - y = Depth * (q + t - s)
  <2>1. PICK u \in Int, v \in Int, w \in Int : u = Depth * s /\ v = Depth * t /\ w = Depth * q
    BY <1>4
  <2>2. x = a - u /\ y = b - v /\ a - b = w
    BY <1>1, <1>2, <1>3, <2>1
  <2>3. x - y = w + v - u
    BY <2>2
  <2> QED
    BY <1>4, <2>1, <2>3
<1>6. -Depth < x - y /\ x - y < Depth
  BY <1>0, <1>1
<1>7. q + t - s = 0
  BY <1>0, <1>5, <1>6
<1>8. x - y = 0
  BY <1>0, <1>5, <1>7
<1>9. x = y
  BY <1>1, <1>8
<1> QED
  BY <1>9 DEF x, y

-----------------------------------------------------------------------------
(* What a slot holds. *)

\* The next number goes to the slot that comes next.
LEMMA LatestNext ==
    ASSUME NEW n \in Nat, NEW i \in Slots, NEW x, Latest(x, i, n)
    PROVE  Latest(IF i = n % Depth THEN n + 1 ELSE x, i, n + 1)
BY DEF Latest, Slots

\* The latest number of a slot fits every position of that slot up to the last.
LEMMA LatestFits ==
    ASSUME NEW last \in Nat, NEW o \in Int, o <= last, NEW x,
           Latest(x, (o - 1) % Depth, last)
    PROVE  Fits(x, o)
<1>1. x \in Nat
  BY DEF Latest
<1>2. CASE x = 0
  BY <1>2 DEF Latest, Fits
<1>3. CASE x # 0
  <2>1. (x - 1) % Depth = (o - 1) % Depth /\ (o \in 1 .. last => o <= x)
    BY <1>3 DEF Latest
  <2>2. ((x - 1) - (o - 1)) % Depth = 0
    BY <1>1, <2>1, WholeLaps
  <2>3. (x - 1) - (o - 1) = x - o
    BY <1>1
  <2>4. o <= x
    BY <1>1, <2>1
  <2> QED
    BY <1>3, <2>2, <2>3, <2>4 DEF Fits
<1> QED
  BY <1>2, <1>3

\* At a position of the last lap it is that very number.
LEMMA LatestExact ==
    ASSUME NEW last \in Nat, NEW o \in Int, o <= last, last - o < Depth, NEW x,
           Latest(x, (o - 1) % Depth, last)
    PROVE  x = IF o > 0 THEN o ELSE 0
<1>0. Depth \in Nat
  BY QueueAssumption
<1>1. x \in 0 .. last
  BY DEF Latest
<1>2. CASE x = 0
  BY <1>2 DEF Latest
<1>3. CASE x # 0
  <2>1. (x - 1) % Depth = (o - 1) % Depth /\ (o \in 1 .. last => o <= x)
    BY <1>3 DEF Latest
  <2>2. o <= x
    BY <1>1, <2>1
  <2>3. /\ x - 1 \in Int /\ o - 1 \in Int
        /\ (x - 1) - (o - 1) < Depth /\ (o - 1) - (x - 1) < Depth
    BY <1>0, <1>1, <2>2, QueueAssumption
  <2>4. x - 1 = o - 1
    BY <2>1, <2>3, OneLap
  <2> QED
    BY <1>1, <1>3, <2>4
<1> QED
  BY <1>2, <1>3

-----------------------------------------------------------------------------
(* Rows and counts. *)

\* The rows before the doorbell that are owed are finitely many, and one more is
\* counted at each of them.
LEMMA CountOwed ==
    ASSUME NEW k \in Nat
    PROVE  /\ IsFiniteSet(Owed \cap 1 .. k) /\ Cardinality(Owed \cap 1 .. k) \in Nat
           /\ k + 1 \in Owed => Cardinality(Owed \cap 1 .. k + 1) = Cardinality(Owed \cap 1 .. k) + 1
           /\ k + 1 \notin Owed => Owed \cap 1 .. k + 1 = Owed \cap 1 .. k
<1>1. IsFiniteSet(1 .. k)
  BY FS_Interval
<1>2. IsFiniteSet(Owed \cap 1 .. k)
  BY <1>1, FS_Subset
<1>3. Cardinality(Owed \cap 1 .. k) \in Nat
  BY <1>2, FS_CardinalityType
<1>4. k + 1 \in Owed => Cardinality(Owed \cap 1 .. k + 1) = Cardinality(Owed \cap 1 .. k) + 1
  <2> SUFFICES ASSUME k + 1 \in Owed
               PROVE  Cardinality(Owed \cap 1 .. k + 1) = Cardinality(Owed \cap 1 .. k) + 1
    OBVIOUS
  <2>1. Owed \cap 1 .. k + 1 = (Owed \cap 1 .. k) \cup {k + 1}
    OBVIOUS
  <2>2. k + 1 \notin Owed \cap 1 .. k
    OBVIOUS
  <2> QED
    BY <1>2, <2>1, <2>2, FS_AddElement
<1>5. k + 1 \notin Owed => Owed \cap 1 .. k + 1 = Owed \cap 1 .. k
  OBVIOUS
<1> QED
  BY <1>2, <1>3, <1>4, <1>5

\* The count of a row tells which row it is.
LEMMA CountGrows ==
    ASSUME NEW j \in Owed, NEW k \in Owed, j \in Nat, k \in Nat, j < k
    PROVE  Cardinality(Owed \cap 1 .. j) < Cardinality(Owed \cap 1 .. k)
<1> DEFINE A == Owed \cap 1 .. j
           B == Owed \cap 1 .. k
<1>1. IsFiniteSet(A) /\ IsFiniteSet(B) /\ Cardinality(A) \in Nat /\ Cardinality(B) \in Nat
  BY CountOwed
<1>2. A \subseteq B /\ k \in B /\ k \notin A
  OBVIOUS
<1>3. Cardinality(A) <= Cardinality(B) /\ (Cardinality(A) = Cardinality(B) => A = B)
  BY <1>1, <1>2, FS_Subset
<1>4. Cardinality(A) # Cardinality(B)
  BY <1>2, <1>3
<1> HIDE DEF A, B
<1>5. Cardinality(A) < Cardinality(B)
  BY <1>1, <1>3, <1>4
<1> QED
  BY <1>5 DEF A, B

LEMMA RowIs ==
    ASSUME NEW r, NEW k \in Owed, op.n \in Nat, Cardinality(Owed \cap 1 .. k) = r
    PROVE  Row(r) = k
<1>1. \A j \in Owed : j \in Nat
  BY DEF Owed
<1>2. ASSUME NEW j \in Owed, Cardinality(Owed \cap 1 .. j) = r
      PROVE  j = k
  <2>1. j \in Nat /\ k \in Nat
    BY <1>1
  <2>0. r \in Nat
    BY <2>1, CountOwed
  <2>2. CASE j < k
    <3>1. Cardinality(Owed \cap 1 .. j) < Cardinality(Owed \cap 1 .. k)
      BY <2>1, <2>2, CountGrows
    <3> QED
      BY <1>2, <2>0, <3>1
  <2>3. CASE k < j
    <3>1. Cardinality(Owed \cap 1 .. k) < Cardinality(Owed \cap 1 .. j)
      BY <2>1, <2>3, CountGrows
    <3> QED
      BY <1>2, <2>0, <3>1
  <2> QED
    BY <2>1, <2>2, <2>3
<1> QED
  BY <1>2 DEF Row

-----------------------------------------------------------------------------
(* The driver and the device. *)

LEMMA StartCopyOK ==
    ASSUME Kernel, NEW t \in Tags, StartCopy(t)
    PROVE  Kernel' /\ subs' = subs /\ posted' = posted
<1>1. /\ copying = 0 /\ subs \in Nat /\ subs + 1 <= MaxSeq /\ Begun = subs
      /\ copying' = subs + 1 /\ Begun' = subs + 1 /\ subs' = subs
      /\ UNCHANGED <<posted, consumed, cq>>
  BY QueueAssumption DEF Kernel, KernelTypes, StartCopy, Begun
<1>2. subs % Depth \in Slots
  BY <1>1, Remainder
<1>3. /\ sq' \in [Slots -> [head : 0 .. MaxSeq, dptr : 0 .. MaxSeq]]
      /\ \A i \in Slots : /\ sq'[i].head = IF i = subs % Depth THEN subs + 1 ELSE sq[i].head
                          /\ sq'[i].dptr = sq[i].dptr
  <2>1. sq' = [sq EXCEPT ![subs % Depth] = [sq[subs % Depth] EXCEPT !.head = subs + 1]]
    BY DEF StartCopy
  <2>2. sq \in [Slots -> [head : 0 .. MaxSeq, dptr : 0 .. MaxSeq]] /\ subs + 1 \in 0 .. MaxSeq
    BY <1>1 DEF Kernel, KernelTypes
  <2> QED
    BY <1>2, <2>1, <2>2
<1>4. /\ busy' = [busy EXCEPT ![t] = subs + 1] /\ tagOf' = [tagOf EXCEPT ![subs + 1] = t]
      /\ busy \in [Tags -> 0 .. MaxSeq] /\ tagOf \in [1 .. MaxSeq -> Tags \cup {0}]
  BY DEF StartCopy, Kernel, KernelTypes
<1>5. KernelTypes'
  BY <1>1, <1>3, <1>4 DEF Kernel, KernelTypes
<1>6. RingHolds'
  <2> SUFFICES ASSUME NEW i \in Slots
               PROVE  /\ Latest(sq'[i].head, i, Begun') /\ Latest(sq'[i].dptr, i, subs')
                      /\ Latest(cq'[i], i, Len(posted'))
    BY DEF RingHolds, Latest
  <2>1. /\ Latest(sq[i].head, i, subs) /\ Latest(sq[i].dptr, i, subs)
        /\ Latest(cq[i], i, Len(posted))
    BY <1>1 DEF Kernel, RingHolds
  <2>2. Latest(sq'[i].head, i, Begun')
    BY <1>1, <1>3, <2>1, LatestNext
  <2> QED
    BY <1>1, <1>3, <2>1, <2>2
<1>7. TagsHold'
  <2> SUFFICES ASSUME NEW u \in Tags, busy'[u] # 0
               PROVE  /\ busy'[u] \in 1 .. Begun' /\ tagOf'[busy'[u]] = u
                      /\ \A m \in 1 .. Begun' : tagOf'[m] = u => m <= busy'[u]
    BY DEF TagsHold
  <2>1. CASE u = t
    BY <1>1, <1>4, <2>1
  <2>2. CASE u # t
    <3>1. busy'[u] = busy[u] /\ busy[u] # 0
      BY <1>4, <2>2
    <3>2. /\ busy[u] \in 1 .. subs /\ tagOf[busy[u]] = u
          /\ \A m \in 1 .. subs : tagOf[m] = u => m <= busy[u]
      BY <1>1, <3>1 DEF Kernel, TagsHold
    <3>3. \A m \in 1 .. subs : tagOf'[m] = tagOf[m]
      BY <1>1, <1>4
    <3>4. tagOf'[subs + 1] = t
      BY <1>1, <1>4
    <3> QED
      BY <1>1, <2>2, <3>1, <3>2, <3>3, <3>4
  <2> QED
    BY <2>1, <2>2
<1> QED
  BY <1>1, <1>5, <1>6, <1>7 DEF Kernel, PostedOnce

LEMMA EndCopyOK ==
    ASSUME Kernel, EndCopy
    PROVE  Kernel' /\ subs' = subs + 1 /\ posted' = posted
<1>1. /\ copying = subs + 1 /\ subs \in Nat /\ Begun = subs + 1 /\ subs + 1 <= MaxSeq
      /\ copying' = 0 /\ Begun' = subs + 1 /\ subs' = subs + 1
      /\ UNCHANGED <<tagOf, busy, posted, consumed, cq>>
  BY QueueAssumption DEF Kernel, KernelTypes, EndCopy, Begun
<1>2. subs % Depth \in Slots
  BY <1>1, Remainder
<1>3. /\ sq' \in [Slots -> [head : 0 .. MaxSeq, dptr : 0 .. MaxSeq]]
      /\ \A i \in Slots : /\ sq'[i].dptr = IF i = subs % Depth THEN subs + 1 ELSE sq[i].dptr
                          /\ sq'[i].head = sq[i].head
  <2>1. sq' = [sq EXCEPT ![subs % Depth] = [sq[subs % Depth] EXCEPT !.dptr = subs + 1]]
    BY <1>1 DEF EndCopy
  <2>2. sq \in [Slots -> [head : 0 .. MaxSeq, dptr : 0 .. MaxSeq]] /\ subs + 1 \in 0 .. MaxSeq
    BY <1>1 DEF Kernel, KernelTypes
  <2> QED
    BY <1>2, <2>1, <2>2
<1>4. KernelTypes'
  BY <1>1, <1>3, QueueAssumption DEF Kernel, KernelTypes
<1>5. RingHolds'
  <2> SUFFICES ASSUME NEW i \in Slots
               PROVE  /\ Latest(sq'[i].head, i, Begun') /\ Latest(sq'[i].dptr, i, subs')
                      /\ Latest(cq'[i], i, Len(posted'))
    BY DEF RingHolds, Latest
  <2>1. /\ Latest(sq[i].head, i, subs + 1) /\ Latest(sq[i].dptr, i, subs)
        /\ Latest(cq[i], i, Len(posted))
    BY <1>1 DEF Kernel, RingHolds
  <2>2. Latest(sq'[i].dptr, i, subs')
    BY <1>1, <1>3, <2>1, LatestNext
  <2> QED
    BY <1>1, <1>3, <2>1, <2>2
<1>6. TagsHold' /\ PostedOnce'
  BY <1>1 DEF Kernel, TagsHold, PostedOnce
<1> QED
  BY <1>1, <1>4, <1>5, <1>6 DEF Kernel

LEMMA PostOK ==
    ASSUME Kernel, NEW n \in 1 .. MaxSeq, Post(n)
    PROVE  Kernel' /\ subs' = subs /\ Len(posted') = Len(posted) + 1
<1> DEFINE l == Len(posted)
<1>1. /\ posted \in Seq(1 .. MaxSeq) /\ l \in Nat /\ DOMAIN posted = 1 .. l /\ n \notin Range(posted)
      /\ posted' = Append(posted, n) /\ cq' = [cq EXCEPT ![l % Depth] = l + 1]
      /\ UNCHANGED <<subs, copying, sq, tagOf, busy, consumed>>
  BY LenProperties DEF Kernel, KernelTypes, Post
<1>2. posted' \in Seq(1 .. MaxSeq) /\ Len(posted') = l + 1
  BY <1>1, AppendProperties
<1>3. Range(posted') = Range(posted) \cup {n}
  <2>1. \A i \in 1 .. l : posted'[i] = posted[i]
    BY <1>1, AppendProperties
  <2>2. posted'[l + 1] = n /\ DOMAIN posted' = 1 .. l + 1
    BY <1>1, AppendProperties
  <2> QED
    BY <1>1, <2>1, <2>2 DEF Range
<1>4. Range(posted) \subseteq 1 .. MaxSeq
  <2>1. \A i \in 1 .. l : posted[i] \in 1 .. MaxSeq
    BY <1>1, ElementOfSeq
  <2> QED
    BY <1>1, <2>1 DEF Range
<1>5. IsFiniteSet(1 .. MaxSeq) /\ Cardinality(1 .. MaxSeq) = MaxSeq
  BY QueueAssumption, FS_Interval
<1>6. IsFiniteSet(Range(posted))
  BY <1>4, <1>5, FS_Subset
<1>7. Cardinality(Range(posted')) = l + 1
  <2>1. Cardinality(Range(posted)) = l
    BY DEF Kernel, PostedOnce
  <2>2. n \notin Range(posted)
    BY <1>1
  <2>3. Cardinality(Range(posted) \cup {n}) = Cardinality(Range(posted)) + 1
    BY <1>6, <2>2, FS_AddElement
  <2> QED
    BY <1>3, <2>1, <2>3
<1>8. l + 1 <= MaxSeq
  <2>1. Range(posted') \in SUBSET (1 .. MaxSeq)
    BY <1>3, <1>4
  <2>2. Cardinality(Range(posted')) <= Cardinality(1 .. MaxSeq)
    BY <1>5, <2>1, FS_Subset, ZenonT(40)
  <2> QED
    BY <1>5, <1>7, <2>2
<1> HIDE DEF l
<1>9. l % Depth \in Slots
  BY <1>1, Remainder
<1>10. /\ cq \in [Slots -> 0 .. MaxSeq] /\ cq' \in [Slots -> 0 .. MaxSeq]
       /\ \A i \in Slots : cq'[i] = IF i = l % Depth THEN l + 1 ELSE cq[i]
  <2>1. cq \in [Slots -> 0 .. MaxSeq]
    BY DEF Kernel, KernelTypes
  <2>2. l + 1 \in 0 .. MaxSeq
    BY <1>1, <1>8
  <2> QED
    BY <1>1, <1>9, <2>1, <2>2
<1>11. consumed' \in 0 .. Len(posted')
  <2>1. consumed \in 0 .. l
    BY DEF Kernel, KernelTypes, l
  <2> QED
    BY <1>1, <1>2, <2>1
<1>12. KernelTypes'
  BY <1>1, <1>2, <1>10, <1>11 DEF Kernel, KernelTypes, Begun
<1>13. RingHolds'
  <2> SUFFICES ASSUME NEW i \in Slots
               PROVE  /\ Latest(sq'[i].head, i, Begun') /\ Latest(sq'[i].dptr, i, subs')
                      /\ Latest(cq'[i], i, Len(posted'))
    BY DEF RingHolds, Latest
  <2>1. /\ Latest(sq[i].head, i, Begun) /\ Latest(sq[i].dptr, i, subs)
        /\ Latest(cq[i], i, l)
    BY DEF Kernel, RingHolds, l
  <2>2. Latest(cq'[i], i, Len(posted'))
    BY <1>1, <1>2, <1>10, <2>1, LatestNext
  <2>3. Begun' = Begun
    BY <1>1 DEF Begun
  <2> QED
    BY <1>1, <2>1, <2>2, <2>3
<1>14. TagsHold' /\ PostedOnce'
  BY <1>1, <1>2, <1>7 DEF Kernel, TagsHold, PostedOnce, Begun
<1> QED
  BY <1>1, <1>2, <1>12, <1>13, <1>14 DEF Kernel, l

LEMMA ConsumeOK ==
    ASSUME Kernel, Consume
    PROVE  Kernel' /\ subs' = subs /\ posted' = posted
<1>1. /\ UNCHANGED <<subs, copying, sq, tagOf, posted, cq>> /\ Begun' = Begun
      /\ consumed' = consumed + 1 /\ consumed < Len(posted)
      /\ busy' = [busy EXCEPT ![tagOf[posted[consumed + 1]]] = 0]
  BY DEF Consume, Begun
<1>2. busy \in [Tags -> 0 .. MaxSeq] /\ consumed \in 0 .. Len(posted) /\ Len(posted) \in Nat
  BY LenProperties DEF Kernel, KernelTypes
<1>3. busy' \in [Tags -> 0 .. MaxSeq] /\ \A t \in Tags : busy'[t] \in {0, busy[t]}
  <2> DEFINE t0 == tagOf[posted[consumed + 1]]
  <2>1. busy' = [busy EXCEPT ![t0] = 0]
    BY <1>1
  <2>2. 0 \in 0 .. MaxSeq
    BY QueueAssumption
  <2> HIDE DEF t0
  <2> QED
    BY <1>2, <2>1, <2>2
<1>4. consumed' \in 0 .. Len(posted')
  BY <1>1, <1>2
<1>5. KernelTypes'
  BY <1>1, <1>3, <1>4 DEF Kernel, KernelTypes
<1>6. RingHolds' /\ PostedOnce'
  BY <1>1 DEF Kernel, RingHolds, Latest, PostedOnce
<1>7. TagsHold'
  BY <1>1, <1>3 DEF Kernel, TagsHold
<1> QED
  BY <1>1, <1>5, <1>6, <1>7 DEF Kernel

\* A read in progress survives whatever the driver and the device do.
LEMMA DisturbOK ==
    ASSUME Inv, Kernel', Disturb, UNCHANGED ring, subs' >= subs, Len(posted') >= Len(posted)
    PROVE  Inv'
<1>0. /\ subs \in Nat /\ subs' \in Nat /\ Len(posted) \in Nat /\ Len(posted') \in Nat
      /\ qid' = qid /\ bad' = bad
  BY LenProperties DEF Inv, Kernel, KernelTypes, ring
<1>1. /\ ~op'.quiet /\ op'.quiet \in BOOLEAN
      /\ op'.kind = op.kind /\ op'.around = op.around /\ op'.pc = op.pc /\ op'.cid = op.cid
      /\ op'.at = op.at /\ op'.n = op.n /\ op'.todo = op.todo /\ op'.out = op.out
  BY DEF Inv, Reading, OpTypes, Disturb
<1>2. OpTypes'
  BY DEF Inv, Reading, OpTypes, Disturb
<1>3. Listing' /\ Snapshot' /\ Payload'
  BY <1>1 DEF Inv, Reading, Listing, Snapshot, Payload
<1>4. Owed' = Owed /\ Done' = Done
  BY <1>0, <1>1 DEF Owed, Done
<1>5. \A r, k : GoodRow(r, k) => GoodRow(r, k)'
  BY <1>1, <1>4 DEF GoodRow, GoodHalf
<1>6. Around'
  <2> SUFFICES ASSUME op.kind \in {"sq", "cq"}, op.around
               PROVE  Around'
    BY <1>1 DEF Around
  <2>1. op.at \in 0 .. Filled /\ Around
    BY DEF Inv, Reading, Around
  <2>2. op'.at \in 0 .. Filled'
    BY <1>0, <1>1, <2>1 DEF Filled
  <2>3. \A r \in 1 .. Len(op'.out) : \E k \in 1 .. op'.n : GoodRow(r, k)'
    BY <1>1, <1>5, <2>1 DEF Around
  <2> QED
    BY <1>1, <1>4, <2>1, <2>2, <2>3 DEF Around
<1> QED
  BY <1>2, <1>3, <1>6 DEF Inv, Reading

-----------------------------------------------------------------------------
(* The reads. *)

\* A read changes nothing of the kernel.
LEMMA KernelKept ==
    ASSUME Inv, UNCHANGED <<ring, driver>>
    PROVE  /\ Kernel' /\ Begun' = Begun
           /\ UNCHANGED <<qid, foreign, bad, subs, copying, sq, tagOf, busy, posted, consumed, cq>>
           /\ Outstanding' = Outstanding /\ \A i : CidIn(i)' = CidIn(i)
<1>1. UNCHANGED <<qid, foreign, bad, subs, copying, sq, tagOf, busy, posted, consumed, cq>>
  BY DEF ring, driver
<1>2. Begun' = Begun
  BY <1>1 DEF Begun
<1>3. KernelTypes' /\ PostedOnce'
  BY <1>1, <1>2 DEF Inv, Kernel, KernelTypes, PostedOnce
<1>4. RingHolds' /\ TagsHold'
  BY <1>1, <1>2 DEF Inv, Kernel, RingHolds, TagsHold, Latest
<1>5. \A i : CidIn(i)' = CidIn(i)
  BY <1>1 DEF CidIn, CidOf, Uses
<1>6. Outstanding' = Outstanding
  BY <1>1 DEF Outstanding
<1> QED
  BY <1>1, <1>2, <1>3, <1>4, <1>5, <1>6 DEF Kernel

\* A call that is over, or was refused.
LEMMA ReturnOK ==
    ASSUME Inv, UNCHANGED <<ring, driver>>,
           op' = Idle \/ op' = [Idle EXCEPT !.kind = "refused", !.pc = "done"]
    PROVE  Inv'
<1>1. op'.kind \in {"idle", "refused"}
  <2>1. CASE op' = Idle
    BY <2>1 DEF Idle
  <2>2. CASE op' = [Idle EXCEPT !.kind = "refused", !.pc = "done"]
    BY <2>2 DEF Idle
  <2> QED
    BY <2>1, <2>2
<1>2. OpTypes'
  <2>1. CASE op' = Idle
    BY <2>1 DEF OpTypes, Idle
  <2>2. CASE op' = [Idle EXCEPT !.kind = "refused", !.pc = "done"]
    <3>1. op' = [kind |-> "refused", around |-> FALSE, pc |-> "done", quiet |-> TRUE, cid |-> 0,
                 at |-> 0, n |-> 0, todo |-> <<>>, out |-> <<>>]
      BY <2>2 DEF Idle
    <3> QED
      BY <3>1 DEF OpTypes
  <2> QED
    BY <2>1, <2>2
<1>3. Listing' /\ Around' /\ Snapshot' /\ Payload'
  BY <1>1 DEF Listing, Around, Snapshot, Payload
<1> QED
  BY <1>2, <1>3, KernelKept DEF Inv, Reading

\* The rows of a listing.
LEMMA MinOf ==
    ASSUME NEW a \in Nat, NEW b \in Nat
    PROVE  Min({a, b}) = IF a <= b THEN a ELSE b
<1>1. \E x \in {a, b} : \A y \in {a, b} : x <= y
  OBVIOUS
<1>2. Min({a, b}) \in {a, b} /\ \A y \in {a, b} : Min({a, b}) <= y
  BY <1>1 DEF Min
<1> QED
  BY <1>2

LEMMA TableOf ==
    ASSUME NEW limit \in Nat
    PROVE  Table(limit) \in Seq(Slots) /\ (limit = 0 => Range(Table(limit)) = Slots)
<1> DEFINE n == IF limit = 0 THEN Depth ELSE Min({limit, Depth})
<1>1. n \in Nat /\ n <= Depth /\ (limit = 0 => n = Depth) /\ Depth \in Nat
  BY QueueAssumption, MinOf
<1>2. Table(limit) = [k \in 1 .. n |-> k - 1]
  BY DEF Table
<1> HIDE DEF n
<1>3. \A k \in 1 .. n : k - 1 \in Slots
  BY <1>1 DEF Slots
<1>4. Table(limit) \in Seq(Slots)
  BY <1>1, <1>2, <1>3
<1>5. ASSUME limit = 0
      PROVE  Range(Table(limit)) = Slots
  <2>1. \A i \in Slots : i + 1 \in 1 .. n /\ Table(limit)[i + 1] = i
    BY <1>1, <1>2, <1>5 DEF Slots
  <2>2. DOMAIN Table(limit) = 1 .. n /\ \A k \in 1 .. n : Table(limit)[k] \in Slots
    BY <1>2, <1>3
  <2> QED
    BY <2>1, <2>2 DEF Range
<1> QED
  BY <1>4, <1>5

LEMMA WindowOf ==
    ASSUME NEW at \in Nat, NEW limit \in Nat
    PROVE  LET w == Window(at % Depth, limit) IN
           /\ w \in Seq(Slots) /\ Len(w) <= Depth
           /\ \A k \in 1 .. Len(w) : w[k] = (at - k) % Depth
<1> DEFINE n == Min({limit, Depth})
           w == Window(at % Depth, limit)
<1>1. n \in Nat /\ n <= Depth /\ Depth \in Nat \ {0}
  BY QueueAssumption, MinOf
<1>2. w = [k \in 1 .. n |-> ((at % Depth) - 1 - (k - 1)) % Depth]
  BY DEF Window
<1> HIDE DEF n
<1>3. ASSUME NEW k \in 1 .. n
      PROVE  ((at % Depth) - 1 - (k - 1)) % Depth = (at - k) % Depth
  <2>1. PICK q \in Int : at = Depth * q + (at % Depth)
    BY Remainder
  <2>2. at % Depth \in Int /\ Depth * q \in Int
    BY <1>1, Remainder DEF Slots
  <2>3. (at % Depth) - 1 - (k - 1) = (at % Depth) - k /\ at - k = Depth * q + ((at % Depth) - k)
    BY <2>1, <2>2
  <2>4. at - k \in Int /\ (at % Depth) - k \in Int
    BY <2>2
  <2> QED
    BY <2>3, <2>4, SameSlot
<1>4. \A k \in 1 .. n : w[k] = (at - k) % Depth /\ (at - k) % Depth \in Slots
  <2> SUFFICES ASSUME NEW k \in 1 .. n
               PROVE  w[k] = (at - k) % Depth /\ (at - k) % Depth \in Slots
    OBVIOUS
  <2>1. (at - k) % Depth \in Slots
    BY Remainder
  <2>2. w[k] = ((at % Depth) - 1 - (k - 1)) % Depth
    BY <1>2
  <2> QED
    BY <1>3, <2>1, <2>2
<1>5. DOMAIN w = 1 .. n
  BY <1>2
<1>6. w = [k \in 1 .. n |-> w[k]]
  BY <1>2
<1> HIDE DEF w
<1>7. w \in Seq(Slots) /\ Len(w) = n
  BY <1>1, <1>4, <1>6
<1>8. Len(w) <= Depth /\ \A k \in 1 .. Len(w) : w[k] = (at - k) % Depth
  BY <1>1, <1>4, <1>7
<1> QED
  BY <1>7, <1>8 DEF w

\* The doorbell is read; the rows of the window are those before it.
LEMMA BeginListOK ==
    ASSUME Inv, NEW kind \in {"sq", "cq"}, NEW limit \in Limits, NEW around \in BOOLEAN,
           BeginList(kind, limit, around)
    PROVE  Inv'
<1> DEFINE doorbell == IF kind = "sq" THEN subs ELSE consumed
           wide == IF limit = 0 THEN DefaultLimit ELSE limit
           rows == IF around THEN Window(doorbell % Depth, wide) ELSE Table(limit)
<1>0. UNCHANGED <<ring, driver>>
  BY DEF BeginList
<1>1. op' = [kind |-> kind, around |-> around, pc |-> "slot", quiet |-> (copying = 0), cid |-> 0,
             at |-> doorbell, n |-> Len(rows), todo |-> rows, out |-> <<>>]
  BY DEF BeginList, Idle
<1>2. doorbell \in Nat /\ wide \in Nat /\ limit \in Nat /\ Len(posted) \in Nat /\ consumed <= Len(posted)
  BY QueueAssumption, LenProperties DEF Inv, Kernel, KernelTypes
<1>3. around => /\ Len(rows) <= Depth
                /\ \A k \in 1 .. Len(rows) : rows[k] = (doorbell - k) % Depth
  BY <1>2, WindowOf
<1>4. rows \in Seq(Slots)
  <2>1. CASE around
    BY <1>2, <2>1, WindowOf
  <2>2. CASE ~around
    BY <1>2, <2>2, TableOf
  <2> QED
    BY <2>1, <2>2
<1>5. doorbell <= (IF kind = "sq" THEN subs ELSE Len(posted)) /\ (kind = "sq" => doorbell = subs)
  BY <1>2
<1> HIDE DEF doorbell, rows
<1>6. Len(rows) \in Nat
  BY <1>4, LenProperties
<1>7. /\ op'.kind = kind /\ op'.around = around /\ op'.pc = "slot" /\ op'.quiet = (copying = 0)
      /\ op'.at = doorbell /\ op'.n = Len(rows) /\ op'.todo = rows /\ op'.out = <<>>
  BY <1>1
<1>8. OpTypes'
  <2>1. rows \in Seq(Slots \cup Tags)
    BY <1>4
  <2>2. (copying = 0) \in BOOLEAN
    OBVIOUS
  <2> QED
    BY <1>1, <1>2, <1>6, <2>1, <2>2 DEF OpTypes
<1>9. Listing' /\ Snapshot' /\ Payload'
  BY <1>4, <1>7 DEF Listing, Snapshot, Payload
<1>10. Around'
  <2> SUFFICES ASSUME around PROVE Around'
    BY <1>7 DEF Around
  <2>1. Done' = 0
    BY <1>6, <1>7 DEF Done
  <2>2. doorbell \in 0 .. Filled'
    BY <1>0, <1>2, <1>5, <1>7, KernelKept DEF Filled
  <2>3. op'.quiet /\ op'.kind = "sq" => copying' = 0 /\ op'.at = subs'
    BY <1>0, <1>5, <1>7, KernelKept
  <2>4. \A k \in 1 .. Len(op'.todo) : op'.todo[k] = (op'.at - (Done' + k)) % Depth
    BY <1>3, <1>7, <2>1
  <2>5. Len(op'.out) = 0 /\ Cardinality(Owed' \cap 1 .. Done') = 0
    <3>1. Owed' \cap 1 .. Done' = {}
      BY <2>1
    <3> QED
      BY <1>7, <3>1, FS_EmptySet
  <2> QED
    BY <1>3, <1>7, <2>1, <2>2, <2>3, <2>4, <2>5 DEF Around
<1> QED
  BY <1>0, <1>8, <1>9, <1>10, KernelKept DEF Inv, Reading

\* What is read from a slot of the window now, in either half of an entry.
LEMMA HalfOK ==
    ASSUME Inv, op.kind \in {"sq", "cq"}, op.around, NEW k \in 1 .. op.n, NEW h,
           LET i == (op.at - k) % Depth
           IN  h \in (IF op.kind = "sq" THEN {sq[i].head, sq[i].dptr} ELSE {cq[i]})
    PROVE  GoodHalf(h, k)
<1> DEFINE i == (op.at - k) % Depth
           o == op.at + 1 - k
<1>1. /\ op.at \in 0 .. Filled /\ op.n <= Depth /\ op.n \in Nat
      /\ op.quiet /\ op.kind = "sq" => copying = 0 /\ op.at = subs
  BY DEF Inv, Reading, OpTypes, Around
<1>2. /\ subs \in Nat /\ Begun \in Nat /\ subs <= Begun /\ Len(posted) \in Nat
      /\ copying = 0 => Begun = subs
  BY QueueAssumption, LenProperties DEF Inv, Kernel, KernelTypes, Begun
<1>3. op.at \in Nat /\ o \in Int /\ op.at - k \in Int /\ op.at - k = o - 1 /\ o <= op.at
  BY <1>1, <1>2 DEF Filled
<1>4. i \in Slots /\ i = (o - 1) % Depth
  BY <1>3, Remainder
<1>5. RingHolds
  BY DEF Inv, Kernel
<1> HIDE DEF i, o
<1>6. PICK last \in Nat : /\ Latest(h, i, last) /\ op.at <= last
                          /\ op.quiet /\ op.kind = "sq" => last = op.at
  <2>1. CASE op.kind = "cq"
    <3>1. h = cq[i] /\ op.at <= Len(posted)
      BY <1>1, <2>1 DEF Filled, i
    <3> QED
      BY <1>2, <1>4, <1>5, <2>1, <3>1 DEF RingHolds
  <2>2. CASE op.kind = "sq"
    <3>1. h \in {sq[i].head, sq[i].dptr} /\ op.at <= subs
      BY <1>1, <2>2 DEF Filled, i
    <3>2. CASE h = sq[i].head
      BY <1>1, <1>2, <1>3, <1>4, <1>5, <3>1, <3>2 DEF RingHolds
    <3>3. CASE h = sq[i].dptr
      BY <1>1, <1>2, <1>4, <1>5, <3>1, <3>3 DEF RingHolds
    <3> QED
      BY <3>1, <3>2, <3>3
  <2> QED
    BY <2>1, <2>2
<1>7. o <= last
  BY <1>3, <1>6
<1>8. Fits(h, o)
  BY <1>3, <1>4, <1>6, <1>7, LatestFits
<1>9. ASSUME op.quiet, op.kind = "sq"
      PROVE  h = IF o > 0 THEN o ELSE 0
  <2>1. last - o < Depth
    BY <1>1, <1>3, <1>6, <1>9, QueueAssumption DEF o
  <2> QED
    BY <1>3, <1>4, <1>6, <1>7, <2>1, LatestExact
<1> QED
  BY <1>8, <1>9 DEF GoodHalf, o

\* A row stays good while the read goes on and what the row has is not changed.
LEMMA RowKept ==
    ASSUME Inv, UNCHANGED <<ring, driver>>, NEW r, NEW k, GoodRow(r, k),
           op'.kind = op.kind, op'.quiet = op.quiet, op'.at = op.at, op'.n = op.n,
           op'.out[r] = op.out[r], ~(op.pc = "dptr" /\ r = Len(op.out))
    PROVE  GoodRow(r, k)'
<1>1. bad' = bad
  BY KernelKept
<1>2. Owed' = Owed
  BY <1>1 DEF Owed
<1> QED
  BY <1>2 DEF GoodRow, GoodHalf

\* What a listing takes from the slot that is next.
LEMMA NextSlot ==
    ASSUME Inv, op.kind \in {"sq", "cq"}, op.todo # <<>>
    PROVE  /\ op.todo \in Seq(Slots) /\ Len(op.todo) \in Nat \ {0}
           /\ Head(op.todo) = op.todo[1] /\ Head(op.todo) \in Slots
           /\ Tail(op.todo) \in Seq(Slots) /\ Len(Tail(op.todo)) = Len(op.todo) - 1
           /\ \A k \in 1 .. Len(op.todo) - 1 : Tail(op.todo)[k] = op.todo[k + 1]
           /\ op.around =>
                /\ Done \in Nat /\ Done + 1 \in 1 .. op.n /\ op.n \in Nat /\ op.at \in Int
                /\ Head(op.todo) = (op.at - (Done + 1)) % Depth
                /\ Done + 1 \in Owed <=> Head(op.todo) \notin bad
<1>1. op.todo \in Seq(Slots)
  BY DEF Inv, Reading, Listing
<1>2. Len(op.todo) \in Nat \ {0}
  BY <1>1, EmptySeq, LenProperties
<1>3. Head(op.todo) = op.todo[1] /\ Head(op.todo) \in Slots
  BY <1>1, <1>2, HeadTailProperties, ElementOfSeq
<1>4. /\ Tail(op.todo) \in Seq(Slots) /\ Len(Tail(op.todo)) = Len(op.todo) - 1
      /\ \A k \in 1 .. Len(op.todo) - 1 : Tail(op.todo)[k] = op.todo[k + 1]
  BY <1>1, HeadTailProperties
<1>5. ASSUME op.around
      PROVE  /\ Done \in Nat /\ Done + 1 \in 1 .. op.n /\ op.n \in Nat /\ op.at \in Int
             /\ Head(op.todo) = (op.at - (Done + 1)) % Depth
  <2>1. op.n \in Nat /\ op.at \in Int
    BY DEF Inv, Reading, OpTypes
  <2>2. Done >= 0 /\ \A k \in 1 .. Len(op.todo) : op.todo[k] = (op.at - (Done + k)) % Depth
    BY <1>5 DEF Inv, Reading, Around
  <2>3. Done \in Nat /\ Done + 1 \in 1 .. op.n
    BY <1>2, <2>1, <2>2 DEF Done
  <2>4. 1 \in 1 .. Len(op.todo)
    BY <1>2
  <2> QED
    BY <1>3, <2>1, <2>2, <2>3, <2>4
<1> QED
  BY <1>1, <1>2, <1>3, <1>4, <1>5 DEF Owed

\* What is left after a slot was dealt with.
LEMMA RestOfTodo ==
    ASSUME Inv, op.kind \in {"sq", "cq"}, op.around, op.todo # <<>>,
           op'.todo = Tail(op.todo), op'.n = op.n, op'.at = op.at
    PROVE  /\ Done' = Done + 1
           /\ \A k \in 1 .. Len(op'.todo) : op'.todo[k] = (op'.at - (Done' + k)) % Depth
<1>1. /\ Done \in Nat /\ Len(op.todo) \in Nat \ {0} /\ Len(Tail(op.todo)) = Len(op.todo) - 1
      /\ \A k \in 1 .. Len(op.todo) - 1 : Tail(op.todo)[k] = op.todo[k + 1]
      /\ op.n \in Nat /\ op.at \in Int
  BY NextSlot
<1>2. Done' = Done + 1
  BY <1>1 DEF Done
<1>3. ASSUME NEW k \in 1 .. Len(op'.todo)
      PROVE  op'.todo[k] = (op'.at - (Done' + k)) % Depth
  <2>1. k + 1 \in 1 .. Len(op.todo) /\ op'.todo[k] = op.todo[k + 1]
    BY <1>1
  <2>2. op.todo[k + 1] = (op.at - (Done + (k + 1))) % Depth
    BY <2>1 DEF Inv, Reading, Around
  <2>3. Done + (k + 1) = Done' + k
    BY <1>1, <1>2
  <2> QED
    BY <2>1, <2>2, <2>3
<1> QED
  BY <1>2, <1>3

LEMMA ReadHeadSkips ==
    ASSUME Inv, ReadHead, Head(op.todo) \in bad
    PROVE  Inv'
<1>0. /\ UNCHANGED <<ring, driver>> /\ op.pc = "slot" /\ op.todo # <<>>
      /\ op' = [op EXCEPT !.todo = Tail(op.todo)]
  BY DEF ReadHead
<1>1. op.kind \in {"sq", "cq"}
  BY <1>0 DEF Inv, Reading, OpTypes
<1>2. /\ op'.kind = op.kind /\ op'.around = op.around /\ op'.pc = op.pc /\ op'.quiet = op.quiet
      /\ op'.at = op.at /\ op'.n = op.n /\ op'.todo = Tail(op.todo) /\ op'.out = op.out
  BY <1>0 DEF Inv, Reading, OpTypes
<1>3. Tail(op.todo) \in Seq(Slots) /\ Tail(op.todo) \in Seq(Slots \cup Tags)
  BY <1>0, <1>1, NextSlot
<1>4. OpTypes'
  BY <1>0, <1>3 DEF Inv, Reading, OpTypes
<1>5. Listing' /\ Snapshot' /\ Payload'
  BY <1>0, <1>1, <1>2, <1>3 DEF Inv, Reading, Listing, Snapshot, Payload
<1>6. Around'
  <2> SUFFICES ASSUME op.around PROVE Around'
    BY <1>2 DEF Around
  <2>1. Done \in Nat /\ Done + 1 \in 1 .. op.n /\ Done + 1 \notin Owed /\ op.n \in Nat
    BY <1>0, <1>1, NextSlot
  <2>2. Owed' = Owed /\ Filled' = Filled /\ copying' = copying /\ subs' = subs
    BY <1>0, <1>2, KernelKept DEF Owed, Filled
  <2>3. /\ Done' = Done + 1
        /\ \A k \in 1 .. Len(op'.todo) : op'.todo[k] = (op'.at - (Done' + k)) % Depth
    BY <1>0, <1>1, <1>2, RestOfTodo
  <2>4. Owed \cap 1 .. Done + 1 = Owed \cap 1 .. Done
    BY <2>1, CountOwed
  <2>5. Around
    BY DEF Inv, Reading
  <2>6. \A r \in 1 .. Len(op'.out) : \E k \in 1 .. op'.n : GoodRow(r, k)'
    <3> SUFFICES ASSUME NEW r \in 1 .. Len(op.out)
                 PROVE  \E k \in 1 .. op.n : GoodRow(r, k)'
      BY <1>2
    <3>1. PICK k \in 1 .. op.n : GoodRow(r, k)
      BY <1>1, <2>5 DEF Around
    <3> QED
      BY <1>0, <1>2, <3>1, RowKept
  <2>7. /\ op'.at \in 0 .. Filled' /\ op'.n <= Depth
        /\ op'.quiet /\ op'.kind = "sq" => copying' = 0 /\ op'.at = subs'
    BY <1>1, <1>2, <2>2, <2>5 DEF Around
  <2>8. op'.pc # "dptr" /\ Len(op'.out) = Cardinality(Owed' \cap 1 .. Done') /\ Done' >= 0
    <3>1. Len(op.out) = Cardinality(Owed \cap 1 .. Done)
      BY <1>0, <1>1, <2>5 DEF Around
    <3>2. Owed' \cap 1 .. Done' = Owed \cap 1 .. Done
      BY <2>2, <2>3, <2>4
    <3>3. op'.pc # "dptr" /\ Done' >= 0
      BY <1>0, <1>2, <2>1, <2>3
    <3> QED
      BY <1>2, <3>1, <3>2, <3>3
  <2> QED
    BY <2>3, <2>6, <2>7, <2>8 DEF Around
<1> QED
  BY <1>0, <1>4, <1>5, <1>6, KernelKept DEF Inv, Reading

\* The first half of an entry.
LEMMA ReadHeadReads ==
    ASSUME Inv, ReadHead, Head(op.todo) \notin bad
    PROVE  Inv'
<1> DEFINE i == Head(op.todo)
           held == IF op.kind = "sq" THEN sq[i].head ELSE cq[i]
           row == [index |-> i, head |-> held, dptr |-> 0]
           l == Len(op.out)
<1>0. /\ UNCHANGED <<ring, driver>> /\ op.pc = "slot" /\ op.todo # <<>>
      /\ op' = [op EXCEPT !.pc = "dptr", !.out = Append(op.out, row)]
  BY DEF ReadHead
<1>1. op.kind \in {"sq", "cq"}
  BY <1>0 DEF Inv, Reading, OpTypes
<1>2. /\ op'.kind = op.kind /\ op'.around = op.around /\ op'.pc = "dptr" /\ op'.quiet = op.quiet
      /\ op'.at = op.at /\ op'.n = op.n /\ op'.todo = op.todo /\ op'.out = Append(op.out, row)
  BY <1>0 DEF Inv, Reading, OpTypes
<1>3. i \in Slots /\ op.todo \in Seq(Slots)
  BY <1>0, <1>1, NextSlot
<1>4. row \in ListRow
  <2>1. held \in 0 .. MaxSeq
    BY <1>1, <1>3 DEF Inv, Kernel, KernelTypes
  <2>2. 0 \in 0 .. MaxSeq
    BY QueueAssumption
  <2> HIDE DEF held, i
  <2> QED
    BY <1>3, <2>1, <2>2 DEF ListRow
<1>5. op.out \in Seq(ListRow)
  BY <1>1 DEF Inv, Reading, Listing
<1>6. row.index = i /\ row.head = held
  OBVIOUS
<1> HIDE DEF row
<1>7. /\ op'.out \in Seq(ListRow) /\ Len(op'.out) = l + 1 /\ op'.out[l + 1] = row /\ l \in Nat
      /\ \A r \in 1 .. l : op'.out[r] = op.out[r]
  BY <1>2, <1>4, <1>5, AppendProperties, LenProperties
<1> HIDE DEF l
<1>8. OpTypes'
  BY <1>0, <1>1 DEF Inv, Reading, OpTypes
<1>9. Listing'
  <2>1. op'.out # <<>>
    BY <1>7
  <2> QED
    BY <1>0, <1>1, <1>2, <1>3, <1>7, <2>1 DEF Listing
<1>10. Snapshot' /\ Payload'
  BY <1>1, <1>2 DEF Snapshot, Payload
<1>11. Around'
  <2> SUFFICES ASSUME op.around PROVE Around'
    BY <1>2 DEF Around
  <2>1. /\ Done \in Nat /\ Done + 1 \in 1 .. op.n /\ Done + 1 \in Owed
        /\ i = (op.at - (Done + 1)) % Depth
    BY <1>0, <1>1, NextSlot
  <2>2. Owed' = Owed /\ Filled' = Filled /\ copying' = copying /\ subs' = subs /\ Done' = Done
    BY <1>0, <1>2, KernelKept DEF Owed, Filled, Done
  <2>3. Around
    BY DEF Inv, Reading
  <2>4. /\ op'.at \in 0 .. Filled' /\ op'.n <= Depth /\ Done' >= 0
        /\ op'.quiet /\ op'.kind = "sq" => copying' = 0 /\ op'.at = subs'
        /\ \A k \in 1 .. Len(op'.todo) : op'.todo[k] = (op'.at - (Done' + k)) % Depth
    BY <1>1, <1>2, <2>2, <2>3 DEF Around
  <2>5. l = Cardinality(Owed \cap 1 .. Done)
    BY <1>0, <1>1, <2>3 DEF Around, l
  <2>6. Cardinality(Owed \cap 1 .. Done + 1) = l + 1
    BY <2>1, <2>5, CountOwed
  <2>7. Len(op'.out) = Cardinality(Owed' \cap 1 .. Done' + 1) /\ Done' + 1 \in Owed'
    BY <1>7, <2>1, <2>2, <2>6
  <2>8. ASSUME NEW r \in 1 .. l
        PROVE  \E k \in 1 .. op.n : GoodRow(r, k)'
    <3>1. PICK k \in 1 .. op.n : GoodRow(r, k)
      BY <1>1, <2>3 DEF Around, l
    <3>2. op'.out[r] = op.out[r]
      BY <1>7
    <3>3. GoodRow(r, k)'
      BY <1>0, <1>2, <3>1, <3>2, RowKept
    <3> QED
      BY <3>3
  <2>9. ASSUME NEW r, NEW k, r = l + 1, k = Done + 1
        PROVE  GoodRow(r, k)'
    <3>1. held \in IF op.kind = "sq" THEN {sq[i].head, sq[i].dptr} ELSE {cq[i]}
      OBVIOUS
    <3> HIDE DEF held
    <3>2. GoodHalf(held, Done + 1)
      BY <1>1, <2>1, <3>1, HalfOK
    <3>3. op'.out[l + 1].head = held /\ op'.out[l + 1].index = i
      BY <1>6, <1>7
    <3>4. k \in Owed' /\ Cardinality(Owed' \cap 1 .. k) = r
      BY <2>1, <2>2, <2>6, <2>9
    <3>5. op'.out[r].index = (op'.at - k) % Depth
      BY <1>2, <2>1, <2>9, <3>3
    <3>6. GoodHalf(held, k)
      BY <2>9, <3>2
    <3>7. Fits(op'.out[r].head, op'.at + 1 - k)
      BY <1>2, <2>9, <3>3, <3>6 DEF GoodHalf
    <3>8. op'.quiet /\ op'.kind = "sq" =>
            op'.out[r].head = IF op'.at + 1 - k > 0 THEN op'.at + 1 - k ELSE 0
      BY <1>2, <2>9, <3>3, <3>6 DEF GoodHalf
    <3> QED
      BY <1>2, <1>7, <2>9, <3>4, <3>5, <3>7, <3>8 DEF GoodRow, GoodHalf
  <2>10. \A r \in 1 .. Len(op'.out) : \E k \in 1 .. op'.n : GoodRow(r, k)'
    <3> SUFFICES ASSUME NEW r \in 1 .. l + 1 PROVE \E k \in 1 .. op.n : GoodRow(r, k)'
      BY <1>2, <1>7
    <3>1. CASE r \in 1 .. l
      BY <2>8, <3>1
    <3>2. CASE r = l + 1
      BY <2>1, <2>9, <3>2
    <3> QED
      BY <1>7, <3>1, <3>2
  <2> QED
    BY <1>2, <2>4, <2>7, <2>10 DEF Around
<1> QED
  BY <1>0, <1>8, <1>9, <1>10, <1>11, KernelKept DEF Inv, Reading

\* The second half of the entry the listing has come to.
LEMMA ReadDptrOK ==
    ASSUME Inv, ReadDptr
    PROVE  Inv'
<1> DEFINE i == Head(op.todo)
           held == IF op.kind = "sq" THEN sq[i].dptr ELSE cq[i]
           l == Len(op.out)
           row == [op.out[l] EXCEPT !.dptr = held]
<1>0. /\ UNCHANGED <<ring, driver>> /\ op.pc = "dptr"
      /\ op' = [op EXCEPT !.pc = "slot", !.todo = Tail(op.todo),
                          !.out = [op.out EXCEPT ![l] = row]]
  BY DEF ReadDptr
<1>1. op.kind \in {"sq", "cq"}
  BY <1>0 DEF Inv, Reading, OpTypes
<1>2. /\ op'.kind = op.kind /\ op'.around = op.around /\ op'.pc = "slot" /\ op'.quiet = op.quiet
      /\ op'.at = op.at /\ op'.n = op.n /\ op'.todo = Tail(op.todo)
      /\ op'.out = [op.out EXCEPT ![l] = row]
  BY <1>0 DEF Inv, Reading, OpTypes
<1>3. op.todo # <<>> /\ op.out # <<>> /\ op.out \in Seq(ListRow)
  BY <1>0, <1>1 DEF Inv, Reading, Listing
<1>4. i \in Slots /\ Tail(op.todo) \in Seq(Slots) /\ Tail(op.todo) \in Seq(Slots \cup Tags)
  BY <1>1, <1>3, NextSlot
<1>5. l \in Nat \ {0} /\ DOMAIN op.out = 1 .. l /\ op.out[l] \in ListRow
  BY <1>3, EmptySeq, LenProperties, ElementOfSeq
<1>6. held \in 0 .. MaxSeq
  BY <1>1, <1>4 DEF Inv, Kernel, KernelTypes
<1>7. /\ row \in ListRow /\ row.dptr = held
      /\ row.index = op.out[l].index /\ row.head = op.out[l].head
  <2> HIDE DEF held
  <2> QED
    BY <1>5, <1>6 DEF ListRow
<1> HIDE DEF row, l, held
<1>8. /\ op'.out \in Seq(ListRow) /\ Len(op'.out) = l /\ op'.out[l] = row
      /\ \A r \in 1 .. l : r # l => op'.out[r] = op.out[r]
  BY <1>2, <1>3, <1>5, <1>7, ExceptSeq DEF l
<1>9. OpTypes'
  BY <1>0, <1>1, <1>4 DEF Inv, Reading, OpTypes
<1>10. Listing'
  BY <1>1, <1>2, <1>4, <1>8 DEF Listing
<1>11. Snapshot' /\ Payload'
  BY <1>1, <1>2 DEF Snapshot, Payload
<1>12. Around'
  <2> SUFFICES ASSUME op.around PROVE Around'
    BY <1>2 DEF Around
  <2>1. /\ Done \in Nat /\ Done + 1 \in 1 .. op.n /\ op.n \in Nat
        /\ i = (op.at - (Done + 1)) % Depth
    BY <1>1, <1>3, NextSlot
  <2>2. Owed' = Owed /\ Filled' = Filled /\ copying' = copying /\ subs' = subs
    BY <1>0, <1>2, KernelKept DEF Owed, Filled
  <2>3. Around
    BY DEF Inv, Reading
  <2>4. Done + 1 \in Owed /\ l = Cardinality(Owed \cap 1 .. Done + 1)
    BY <1>0, <1>1, <2>3 DEF Around, l
  <2>5. /\ Done' = Done + 1
        /\ \A k \in 1 .. Len(op'.todo) : op'.todo[k] = (op'.at - (Done' + k)) % Depth
    BY <1>1, <1>2, <1>3, RestOfTodo
  <2>6. /\ op'.at \in 0 .. Filled' /\ op'.n <= Depth
        /\ op'.quiet /\ op'.kind = "sq" => copying' = 0 /\ op'.at = subs'
    BY <1>1, <1>2, <2>2, <2>3 DEF Around
  <2>7. Done' >= 0 /\ Len(op'.out) = Cardinality(Owed' \cap 1 .. Done')
    <3>1. Owed' \cap 1 .. Done' = Owed \cap 1 .. Done + 1
      BY <2>2, <2>5
    <3>2. Done' >= 0
      BY <2>1, <2>5
    <3> QED
      BY <1>8, <2>4, <3>1, <3>2
  <2>8. ASSUME NEW r \in 1 .. l, r # l
        PROVE  \E k \in 1 .. op.n : GoodRow(r, k)'
    <3>1. PICK k \in 1 .. op.n : GoodRow(r, k)
      BY <1>1, <2>3 DEF Around, l
    <3>2. op'.out[r] = op.out[r] /\ r # Len(op.out)
      BY <1>8, <2>8 DEF l
    <3>3. GoodRow(r, k)'
      BY <1>0, <1>2, <3>1, <3>2, RowKept
    <3> QED
      BY <3>3
  <2>9. ASSUME NEW r, NEW k, r = l, k = Done + 1
        PROVE  GoodRow(r, k)'
    <3>1. PICK j \in 1 .. op.n : GoodRow(r, j)
      BY <1>1, <1>5, <2>3, <2>9 DEF Around, l
    <3>2. j \in Owed /\ Cardinality(Owed \cap 1 .. j) = r
      BY <3>1 DEF GoodRow
    <3>3. Row(r) = j
      BY <2>1, <3>2, RowIs
    <3>4. Row(r) = k
      BY <2>1, <2>4, <2>9, RowIs
    <3>5. GoodRow(r, k)
      BY <3>1, <3>3, <3>4
    <3>6. held \in IF op.kind = "sq" THEN {sq[i].head, sq[i].dptr} ELSE {cq[i]}
      BY DEF held
    <3>7. GoodHalf(held, k)
      BY <1>1, <2>1, <2>9, <3>6, HalfOK
    <3>8. /\ op'.out[r].index = op.out[r].index /\ op'.out[r].head = op.out[r].head
          /\ op'.out[r].dptr = held
      BY <1>7, <1>8, <2>9
    <3>9. k \in Owed' /\ Cardinality(Owed' \cap 1 .. k) = r
      BY <2>2, <3>5 DEF GoodRow
    <3>10. op'.out[r].index = (op'.at - k) % Depth
      BY <1>2, <3>5, <3>8 DEF GoodRow
    <3>11. Fits(op'.out[r].head, op'.at + 1 - k) /\ Fits(op'.out[r].dptr, op'.at + 1 - k)
      BY <1>2, <3>5, <3>7, <3>8 DEF GoodRow, GoodHalf
    <3>12. op'.quiet /\ op'.kind = "sq" =>
             /\ op'.out[r].head = IF op'.at + 1 - k > 0 THEN op'.at + 1 - k ELSE 0
             /\ op'.out[r].dptr = IF op'.at + 1 - k > 0 THEN op'.at + 1 - k ELSE 0
      BY <1>2, <3>5, <3>7, <3>8 DEF GoodRow, GoodHalf
    <3> QED
      BY <3>9, <3>10, <3>11, <3>12 DEF GoodRow, GoodHalf
  <2>10. \A r \in 1 .. Len(op'.out) : \E k \in 1 .. op'.n : GoodRow(r, k)'
    <3> SUFFICES ASSUME NEW r \in 1 .. l PROVE \E k \in 1 .. op.n : GoodRow(r, k)'
      BY <1>2, <1>8
    <3>1. CASE r # l
      BY <2>8, <3>1
    <3>2. CASE r = l
      BY <2>1, <2>9, <3>2
    <3> QED
      BY <3>1, <3>2
  <2> QED
    BY <1>2, <2>5, <2>6, <2>7, <2>10 DEF Around
<1> QED
  BY <1>0, <1>9, <1>10, <1>11, <1>12, KernelKept DEF Inv, Reading

LEMMA EndListOK ==
    ASSUME Inv, EndList
    PROVE  Inv'
<1>0. /\ UNCHANGED <<ring, driver>> /\ op.pc = "slot" /\ op.todo = <<>>
      /\ op' = [op EXCEPT !.pc = "done"]
  BY DEF EndList
<1>1. op.kind \in {"sq", "cq"}
  BY <1>0 DEF Inv, Reading, OpTypes
<1>2. /\ op'.kind = op.kind /\ op'.around = op.around /\ op'.pc = "done" /\ op'.quiet = op.quiet
      /\ op'.at = op.at /\ op'.n = op.n /\ op'.todo = op.todo /\ op'.out = op.out
  BY <1>0 DEF Inv, Reading, OpTypes
<1>3. OpTypes'
  BY <1>0, <1>1 DEF Inv, Reading, OpTypes
<1>4. Listing' /\ Snapshot' /\ Payload'
  BY <1>0, <1>1, <1>2 DEF Inv, Reading, Listing, Snapshot, Payload
<1>5. Around'
  <2> SUFFICES ASSUME op.around PROVE Around'
    BY <1>2 DEF Around
  <2>1. Owed' = Owed /\ Filled' = Filled /\ copying' = copying /\ subs' = subs /\ Done' = Done
    BY <1>0, <1>2, KernelKept DEF Owed, Filled, Done
  <2>2. Around
    BY DEF Inv, Reading
  <2>3. \A r \in 1 .. Len(op'.out) : \E k \in 1 .. op'.n : GoodRow(r, k)'
    <3> SUFFICES ASSUME NEW r \in 1 .. Len(op.out)
                 PROVE  \E k \in 1 .. op.n : GoodRow(r, k)'
      BY <1>2
    <3>1. PICK k \in 1 .. op.n : GoodRow(r, k)
      BY <1>1, <2>2 DEF Around
    <3>2. GoodRow(r, k)'
      BY <1>0, <1>2, <3>1, RowKept
    <3> QED
      BY <3>2
  <2> QED
    BY <1>0, <1>1, <1>2, <2>1, <2>2, <2>3 DEF Around
<1> QED
  BY <1>0, <1>3, <1>4, <1>5, KernelKept DEF Inv, Reading

-----------------------------------------------------------------------------
(* The snapshot. *)

\* The tags in some order: each of them, and none twice.
LEMMA AllTags ==
    LET s == SetToSeq(Tags) IN
    /\ s \in Seq(Tags) /\ Range(s) = Tags
    /\ \A i, j \in DOMAIN s : s[i] = s[j] => i = j
<1> DEFINE n == Cardinality(Tags)
           s == SetToSeq(Tags)
<1>1. IsFiniteSet(Tags) /\ n \in Nat /\ ExistsBijection(1 .. n, Tags)
  BY QueueAssumption, FS_CardinalityType
<1>2. \E f \in [1 .. n -> Tags] : IsInjective(f)
  BY <1>1 DEF ExistsBijection, Bijection, Injection
<1>3. s \in [1 .. n -> Tags] /\ IsInjective(s)
  BY <1>2 DEF SetToSeq
<1>4. IsFiniteSet(1 .. n) /\ Cardinality(1 .. n) = n
  BY <1>1, FS_Interval
<1> HIDE DEF s
<1>5. s \in Injection(1 .. n, Tags)
  BY <1>3 DEF Injection
<1>6. Cardinality(1 .. n) = Cardinality(Tags)
  BY <1>4
<1> HIDE DEF n
<1>7. s \in Surjection(1 .. n, Tags)
  BY <1>1, <1>5, <1>6, FS_Injection
<1>8. Range(s) = Tags
  BY <1>3, <1>7 DEF Range, Surjection
<1>9. s \in Seq(Tags)
  BY <1>1, <1>3
<1>10. \A i, j \in DOMAIN s : s[i] = s[j] => i = j
  BY <1>3 DEF IsInjective
<1> QED
  BY <1>8, <1>9, <1>10 DEF s

LEMMA BeginSnapshotOK ==
    ASSUME Inv, BeginSnapshot
    PROVE  Inv'
<1> DEFINE s == SetToSeq(Tags)
<1>0. UNCHANGED <<ring, driver>>
  BY DEF BeginSnapshot
<1>1. op' = [kind |-> "snapshot", around |-> FALSE, pc |-> "count", quiet |-> TRUE, cid |-> 0,
             at |-> 0, n |-> 0, todo |-> s, out |-> <<>>]
  BY DEF BeginSnapshot, Idle
<1>2. /\ s \in Seq(Tags) /\ s \in Seq(Slots \cup Tags) /\ Range(s) = Tags
      /\ \A i, j \in DOMAIN s : s[i] = s[j] => i = j
  BY AllTags
<1> HIDE DEF s
<1>3. OpTypes'
  BY <1>1, <1>2 DEF OpTypes
<1>4. Listing' /\ Around' /\ Payload'
  BY <1>1 DEF Listing, Around, Payload
<1>5. Counted' = {}
  <2>1. Range(op'.todo) = Tags
    BY <1>1, <1>2
  <2> QED
    BY <2>1 DEF Counted
<1>6. Snapshot'
  <2>1. Cardinality(Counted') = 0
    BY <1>5, FS_EmptySet
  <2> QED
    BY <1>1, <1>2, <2>1 DEF Snapshot
<1> QED
  BY <1>0, <1>3, <1>4, <1>6, KernelKept DEF Inv, Reading

\* One more tag is counted.
LEMMA CountTagOK ==
    ASSUME Inv, CountTag
    PROVE  Inv'
<1> DEFINE t == Head(op.todo)
           more == IF busy[t] # 0 THEN op.n + 1 ELSE op.n
<1>0. /\ UNCHANGED <<ring, driver>> /\ op.pc = "count" /\ op.todo # <<>>
      /\ op' = [op EXCEPT !.todo = Tail(op.todo), !.n = more]
  BY DEF CountTag
<1>1. op.kind = "snapshot" /\ op.n \in Nat /\ more \in Nat
  BY <1>0 DEF Inv, Reading, OpTypes
<1>2. /\ op.todo \in Seq(Tags) /\ \A i, j \in DOMAIN op.todo : op.todo[i] = op.todo[j] => i = j
      /\ op.quiet => op.n = Cardinality(Counted)
  BY <1>0, <1>1 DEF Inv, Reading, Snapshot
<1>3. /\ op'.kind = "snapshot" /\ op'.pc = "count" /\ op'.quiet = op.quiet
      /\ op'.n = more /\ op'.todo = Tail(op.todo)
  BY <1>0, <1>1 DEF Inv, Reading, OpTypes
<1>4. /\ Len(op.todo) \in Nat \ {0} /\ DOMAIN op.todo = 1 .. Len(op.todo)
      /\ t = op.todo[1] /\ t \in Tags
      /\ Tail(op.todo) \in Seq(Tags) /\ Len(Tail(op.todo)) = Len(op.todo) - 1
      /\ DOMAIN Tail(op.todo) = 1 .. Len(op.todo) - 1
      /\ \A k \in 1 .. Len(op.todo) - 1 : Tail(op.todo)[k] = op.todo[k + 1]
  BY <1>0, <1>2, EmptySeq, LenProperties, HeadTailProperties, ElementOfSeq
<1> DEFINE l == Len(op.todo)
           rest == Tail(op.todo)
<1>5. /\ l \in Nat \ {0} /\ t = op.todo[1] /\ DOMAIN rest = 1 .. l - 1
      /\ \A k \in 1 .. l - 1 : rest[k] = op.todo[k + 1] /\ k + 1 \in DOMAIN op.todo
      /\ 1 \in DOMAIN op.todo /\ DOMAIN op.todo = 1 .. l
  BY <1>4
<1> HIDE DEF l, rest, t, more
<1>6. \A i, j \in DOMAIN rest : rest[i] = rest[j] => i = j
  <2> SUFFICES ASSUME NEW i \in 1 .. l - 1, NEW j \in 1 .. l - 1, rest[i] = rest[j] PROVE i = j
    BY <1>5
  <2>0. op.todo[i + 1] = op.todo[j + 1] /\ i + 1 \in DOMAIN op.todo /\ j + 1 \in DOMAIN op.todo
    BY <1>5
  <2>1. i + 1 = j + 1
    BY <2>0, <1>2, ZenonT(40)
  <2> QED
    BY <2>1, <1>5
<1>7. Range(op.todo) = Range(rest) \cup {t} /\ t \notin Range(rest)
  <2>1. ASSUME NEW k \in 1 .. l, k # 1
        PROVE  k - 1 \in DOMAIN rest /\ rest[k - 1] = op.todo[k]
    <3>1. k - 1 \in 1 .. l - 1 /\ (k - 1) + 1 = k
      BY <1>5, <2>1
    <3> QED
      BY <1>5, <3>1
  <2>2. ASSUME NEW k \in 1 .. l - 1
        PROVE  rest[k] # t
    <3>1. rest[k] = op.todo[k + 1] /\ k + 1 \in DOMAIN op.todo /\ 1 \in DOMAIN op.todo
      BY <1>5
    <3>2. k + 1 # 1
      BY <1>5
    <3> QED
      BY <1>2, <1>5, <3>1, <3>2
  <2>3. Range(op.todo) \subseteq Range(rest) \cup {t}
    <3> SUFFICES ASSUME NEW k \in 1 .. l PROVE op.todo[k] \in Range(rest) \cup {t}
      BY <1>5 DEF Range
    <3>1. CASE k = 1
      BY <1>5, <3>1
    <3>2. CASE k # 1
      BY <2>1, <3>2 DEF Range
    <3> QED
      BY <3>1, <3>2
  <2>4. Range(rest) \cup {t} \subseteq Range(op.todo)
    BY <1>5 DEF Range
  <2> QED
    BY <1>5, <2>2, <2>3, <2>4 DEF Range
<1>8. busy' = busy
  BY <1>0, KernelKept
<1>9. Counted' = IF busy[t] # 0 THEN Counted \cup {t} ELSE Counted
  <2>1. op'.todo = rest
    BY <1>3 DEF rest
  <2> QED
    BY <1>4, <1>7, <1>8, <2>1 DEF Counted, t
<1>10. t \notin Counted
  BY <1>7 DEF Counted
<1>11. IsFiniteSet(Counted) /\ Cardinality(Counted) \in Nat
  <2>1. Counted \subseteq Tags /\ IsFiniteSet(Tags)
    BY QueueAssumption DEF Counted
  <2> QED
    BY <2>1, FS_Subset, FS_CardinalityType
<1>12. op.quiet => more = Cardinality(Counted')
  <2>1. Cardinality(Counted \cup {t}) = Cardinality(Counted) + 1
    BY <1>10, <1>11, FS_AddElement
  <2>2. CASE busy[t] # 0
    BY <1>2, <1>9, <2>1, <2>2 DEF more
  <2>3. CASE busy[t] = 0
    BY <1>2, <1>9, <2>3 DEF more
  <2> QED
    BY <2>2, <2>3
<1>13. Snapshot'
  BY <1>3, <1>4, <1>6, <1>12 DEF Snapshot, rest
<1>14. OpTypes'
  <2>1. Tail(op.todo) \in Seq(Slots \cup Tags)
    BY <1>4
  <2> QED
    BY <1>0, <1>1, <2>1 DEF Inv, Reading, OpTypes
<1>15. Listing' /\ Around' /\ Payload'
  BY <1>3 DEF Listing, Around, Payload
<1> QED
  BY <1>0, <1>13, <1>14, <1>15, KernelKept DEF Inv, Reading

\* The count ends early: what was counted is kept.
LEMMA CountFailsOK ==
    ASSUME Inv, CountFails
    PROVE  Inv'
<1>0. /\ UNCHANGED <<ring, driver>> /\ op.pc = "count"
      /\ op' = [op EXCEPT !.pc = "registers"]
  BY DEF CountFails
<1>1. op.kind = "snapshot" /\ OpTypes /\ Snapshot
  BY <1>0 DEF Inv, Reading, OpTypes
<1>2. /\ op'.kind = "snapshot" /\ op'.pc = "registers" /\ op'.quiet = op.quiet
      /\ op'.n = op.n /\ op'.todo = op.todo
  BY <1>0, <1>1 DEF OpTypes
<1>3. OpTypes'
  BY <1>0, <1>1 DEF OpTypes
<1>4. Counted' = Counted
  BY <1>0, <1>2, KernelKept DEF Counted
<1>5. Snapshot'
  BY <1>0, <1>1, <1>2, <1>4 DEF Snapshot
<1>6. Listing' /\ Around' /\ Payload'
  BY <1>2 DEF Listing, Around, Payload
<1> QED
  BY <1>0, <1>3, <1>5, <1>6, KernelKept DEF Inv, Reading

LEMMA ReadRegistersOK ==
    ASSUME Inv, ReadRegisters
    PROVE  Inv'
<1> DEFINE regs == [sq_tail |-> subs % Depth, cq_head |-> consumed % Depth,
                    inflight |-> IF qid = 0 THEN 0 ELSE op.n]
<1>0. /\ UNCHANGED <<ring, driver>> /\ op.pc \in {"count", "registers"}
      /\ op' = [op EXCEPT !.pc = "done", !.out = <<regs>>]
  BY DEF ReadRegisters
<1>1. op.kind = "snapshot" /\ OpTypes /\ Snapshot
  BY <1>0 DEF Inv, Reading, OpTypes
<1>2. /\ op'.kind = "snapshot" /\ op'.pc = "done" /\ op'.quiet = op.quiet /\ op'.out = <<regs>>
      /\ op'.todo = op.todo
  BY <1>0, <1>1 DEF OpTypes
<1>3. OpTypes'
  BY <1>0, <1>1 DEF OpTypes
<1>4. Listing' /\ Around' /\ Payload'
  BY <1>2 DEF Listing, Around, Payload
<1>5. regs.inflight = IF qid = 0 THEN 0 ELSE op.n
  OBVIOUS
<1> HIDE DEF regs
<1>6. Counted' = Counted /\ qid' = qid
  BY <1>0, <1>2, KernelKept DEF Counted
<1>7. op.quiet => op.n = Cardinality(Counted)
  BY <1>0, <1>1 DEF Snapshot
<1>8. Snapshot'
  <2>1. op'.out[1] = regs
    BY <1>2
  <2> QED
    BY <1>2, <1>5, <1>6, <1>7, <2>1 DEF Snapshot
<1> QED
  BY <1>0, <1>3, <1>4, <1>8, KernelKept DEF Inv, Reading

-----------------------------------------------------------------------------
(* The payload. *)

\* A payload leaves the listing and the snapshot alone.
LEMMA OtherKinds ==
    ASSUME op'.kind = "prp"
    PROVE  Listing' /\ Around' /\ Snapshot'
BY DEF Listing, Around, Snapshot

LEMMA BeginPrpOK ==
    ASSUME Inv, NEW c \in Cids, BeginPrp(c)
    PROVE  Inv'
<1> DEFINE rows == Table(0)
<1>0. UNCHANGED <<ring, driver>>
  BY DEF BeginPrp
<1>1. op' = [kind |-> "prp", around |-> FALSE, pc |-> "scan", quiet |-> (copying = 0), cid |-> c,
             at |-> -1, n |-> 0, todo |-> rows, out |-> <<>>]
  BY DEF BeginPrp, Idle
<1>2. rows \in Seq(Slots) /\ rows \in Seq(Slots \cup Tags) /\ Range(rows) = Slots
  BY TableOf
<1> HIDE DEF rows
<1>3. /\ op'.kind = "prp" /\ op'.pc = "scan" /\ op'.quiet = (copying = 0) /\ op'.cid = c
      /\ op'.todo = rows
  BY <1>1
<1>4. OpTypes'
  <2>1. c \in Nat /\ (copying = 0) \in BOOLEAN
    BY QueueAssumption DEF Cids, Shift
  <2> QED
    BY <1>1, <1>2, <2>1 DEF OpTypes
<1>5. Payload'
  BY <1>0, <1>2, <1>3, KernelKept DEF Payload
<1> QED
  BY <1>0, <1>3, <1>4, <1>5, KernelKept, OtherKinds DEF Inv, Reading

LEMMA ScanOK ==
    ASSUME Inv, Scan
    PROVE  Inv'
<1> DEFINE i == Head(op.todo)
           found == i \notin bad /\ CidIn(i) = op.cid
<1>0. /\ UNCHANGED <<ring, driver>> /\ op.pc = "scan" /\ op.todo # <<>>
      /\ op' = IF found THEN [op EXCEPT !.pc = "flags", !.at = i, !.todo = <<>>]
                        ELSE [op EXCEPT !.todo = Tail(op.todo)]
  BY DEF Scan
<1>1. op.kind = "prp" /\ OpTypes
  BY <1>0 DEF Inv, Reading, OpTypes
<1>2. Payload /\ op.todo \in Seq(Slots)
  BY <1>0, <1>1 DEF Inv, Reading, Payload
<1>3. /\ Len(op.todo) \in Nat \ {0} /\ i = op.todo[1] /\ i \in Slots
      /\ Tail(op.todo) \in Seq(Slots) /\ DOMAIN op.todo = 1 .. Len(op.todo)
      /\ DOMAIN Tail(op.todo) = 1 .. Len(op.todo) - 1
      /\ \A k \in 1 .. Len(op.todo) - 1 : Tail(op.todo)[k] = op.todo[k + 1]
  BY <1>0, <1>2, EmptySeq, LenProperties, HeadTailProperties, ElementOfSeq
<1>4. Range(op.todo) \subseteq Range(Tail(op.todo)) \cup {i}
  <2> SUFFICES ASSUME NEW k \in 1 .. Len(op.todo)
               PROVE  op.todo[k] \in Range(Tail(op.todo)) \cup {i}
    BY <1>3 DEF Range
  <2>1. CASE k = 1
    BY <1>3, <2>1
  <2>2. CASE k # 1
    <3>1. k - 1 \in 1 .. Len(op.todo) - 1 /\ (k - 1) + 1 = k
      BY <1>3, <2>2
    <3>2. Tail(op.todo)[k - 1] = op.todo[k] /\ k - 1 \in DOMAIN Tail(op.todo)
      BY <1>3, <3>1
    <3> QED
      BY <3>2 DEF Range
  <2> QED
    BY <2>1, <2>2
<1>5. i \in Int /\ <<>> \in Seq(Slots \cup Tags) /\ Tail(op.todo) \in Seq(Slots \cup Tags)
  <2>1. i \in Int
    BY <1>3, QueueAssumption DEF Slots
  <2>2. Tail(op.todo) \in Seq(Slots \cup Tags)
    BY <1>3
  <2> QED
    BY <2>1, <2>2
<1>6. /\ UNCHANGED <<qid, foreign, bad, copying, sq>> /\ \A j : CidIn(j)' = CidIn(j)
  BY <1>0, KernelKept
<1> HIDE DEF i
<1>7. CASE found
  <2>1. op' = [op EXCEPT !.pc = "flags", !.at = i, !.todo = <<>>]
    BY <1>0, <1>7
  <2>2. /\ op'.kind = "prp" /\ op'.pc = "flags" /\ op'.quiet = op.quiet /\ op'.cid = op.cid
        /\ op'.at = i
    BY <1>1, <2>1 DEF OpTypes
  <2>3. OpTypes'
    BY <1>1, <1>5, <2>1 DEF OpTypes
  <2>4. Matches(op.at)'
    BY <1>3, <1>6, <1>7, <2>2 DEF Matches
  <2>5. Payload'
    BY <1>1, <1>2, <1>3, <1>6, <2>2, <2>4 DEF Payload
  <2> QED
    BY <1>0, <2>2, <2>3, <2>5, KernelKept, OtherKinds DEF Inv, Reading
<1>8. CASE ~found
  <2>1. op' = [op EXCEPT !.todo = Tail(op.todo)]
    BY <1>0, <1>8
  <2>2. /\ op'.kind = "prp" /\ op'.pc = "scan" /\ op'.quiet = op.quiet /\ op'.cid = op.cid
        /\ op'.todo = Tail(op.todo)
    BY <1>0, <1>1, <2>1 DEF OpTypes
  <2>3. OpTypes'
    BY <1>1, <1>5, <2>1 DEF OpTypes
  <2>4. ASSUME op.quiet, NEW j \in Slots, Matches(j)'
        PROVE  j \in Range(op'.todo)
    <3>1. Matches(j)
      BY <1>6, <2>2, <2>4 DEF Matches
    <3>2. j \in Range(op.todo)
      BY <1>0, <1>1, <1>2, <2>4, <3>1 DEF Payload
    <3>3. j # i
      BY <1>8, <3>1 DEF Matches
    <3> QED
      BY <1>4, <2>2, <3>2, <3>3
  <2>5. op'.quiet => copying' = 0
    BY <1>1, <1>2, <1>6, <2>2 DEF Payload
  <2>6. Payload'
    BY <1>2, <1>3, <2>2, <2>4, <2>5 DEF Payload
  <2> QED
    BY <1>0, <2>2, <2>3, <2>6, KernelKept, OtherKinds DEF Inv, Reading
<1> QED
  BY <1>7, <1>8

LEMMA ScanFailsOK ==
    ASSUME Inv, ScanFails
    PROVE  Inv'
<1>0. /\ UNCHANGED <<ring, driver>> /\ op.pc = "scan" /\ op.todo = <<>>
      /\ op' = [op EXCEPT !.pc = "done", !.out = <<>>]
  BY DEF ScanFails
<1>1. op.kind = "prp" /\ OpTypes
  BY <1>0 DEF Inv, Reading, OpTypes
<1>2. Payload
  BY DEF Inv, Reading
<1>3. op'.kind = "prp" /\ op'.pc = "done" /\ op'.quiet = op.quiet /\ op'.cid = op.cid
  BY <1>0, <1>1 DEF OpTypes
<1>4. OpTypes'
  BY <1>0, <1>1 DEF OpTypes
<1>5. /\ UNCHANGED <<qid, foreign, bad, copying, sq>> /\ \A j : CidIn(j)' = CidIn(j)
  BY <1>0, KernelKept
<1>6. ASSUME op.quiet
      PROVE  Exact'
  <2>1. Range(op.todo) = {}
    BY <1>0 DEF Range
  <2>2. \A j \in Slots : ~Matches(j)
    BY <1>0, <1>1, <1>2, <1>6, <2>1 DEF Payload
  <2>3. \A j \in Slots \ bad : CidIn(j) # op.cid
    BY <2>2 DEF Matches
  <2>4. \A j \in Slots \ bad' : j \notin {k \in Slots : CidIn(k)' = op'.cid}
    BY <1>3, <1>5, <2>3
  <2> QED
    BY <2>4 DEF Exact
<1>7. Payload'
  BY <1>1, <1>2, <1>3, <1>5, <1>6 DEF Payload
<1> QED
  BY <1>0, <1>3, <1>4, <1>7, KernelKept, OtherKinds DEF Inv, Reading

\* flags, then the pointers.
LEMMA ReadPrpsOK ==
    ASSUME Inv, ReadPrps
    PROVE  Inv'
<1> DEFINE sgl == [uses_sgl |-> TRUE, prp |-> 0, len |-> Unknown]
           prps == [uses_sgl |-> FALSE, prp |-> sq[op.at].dptr, len |-> Unknown]
<1>0. /\ UNCHANGED <<ring, driver>> /\ op.pc = "flags"
      /\ op' = IF sq[op.at].head \in Sgl THEN [op EXCEPT !.pc = "done", !.out = <<sgl>>]
                                         ELSE [op EXCEPT !.pc = "len", !.out = <<prps>>]
  BY DEF ReadPrps
<1>1. op.kind = "prp" /\ OpTypes
  BY <1>0 DEF Inv, Reading, OpTypes
<1>2. Payload
  BY DEF Inv, Reading
<1>3. op.at \in Slots /\ (op.quiet => Matches(op.at) /\ copying = 0)
  BY <1>0, <1>1, <1>2 DEF Payload
<1>4. /\ UNCHANGED <<qid, foreign, bad, copying, sq>> /\ \A j : CidIn(j)' = CidIn(j)
  BY <1>0, KernelKept
<1>5. CASE sq[op.at].head \in Sgl
  <2>1. op' = [op EXCEPT !.pc = "done", !.out = <<sgl>>]
    BY <1>0, <1>5
  <2>2. /\ op'.kind = "prp" /\ op'.pc = "done" /\ op'.quiet = op.quiet /\ op'.cid = op.cid
        /\ op'.at = op.at /\ op'.out = <<sgl>>
    BY <1>1, <2>1 DEF OpTypes
  <2>3. OpTypes'
    BY <1>1, <2>1 DEF OpTypes
  <2>4. Len(op'.out) = 1 /\ op'.out[1].uses_sgl
    BY <2>2
  <2>5. ASSUME op.quiet
        PROVE  Exact'
    <3> SUFFICES ASSUME NEW i \in Slots \ bad', {j \in Slots : CidIn(j)' = op'.cid} = {i}
                 PROVE  sq'[i].head \in Sgl
      BY <2>4 DEF Exact
    <3>1. op.at = i
      BY <1>3, <1>4, <2>2, <2>5 DEF Matches
    <3> QED
      BY <1>4, <1>5, <3>1
  <2>6. Payload'
    BY <1>3, <1>4, <2>2, <2>5 DEF Payload
  <2> QED
    BY <1>0, <2>2, <2>3, <2>6, KernelKept, OtherKinds DEF Inv, Reading
<1>6. CASE sq[op.at].head \notin Sgl
  <2>1. op' = [op EXCEPT !.pc = "len", !.out = <<prps>>]
    BY <1>0, <1>6
  <2>2. /\ op'.kind = "prp" /\ op'.pc = "len" /\ op'.quiet = op.quiet /\ op'.cid = op.cid
        /\ op'.at = op.at /\ op'.out = <<prps>>
    BY <1>1, <2>1 DEF OpTypes
  <2>3. OpTypes'
    BY <1>1, <2>1 DEF OpTypes
  <2>4. op'.out = <<[uses_sgl |-> FALSE, prp |-> op'.out[1].prp, len |-> Unknown]>>
        /\ op'.out[1].prp = sq[op.at].dptr
    <3>1. prps.prp = sq[op.at].dptr
      OBVIOUS
    <3>2. prps = [uses_sgl |-> FALSE, prp |-> prps.prp, len |-> Unknown]
      BY <3>1
    <3> HIDE DEF prps
    <3>3. op'.out[1] = prps
      BY <2>2
    <3> QED
      BY <2>2, <3>1, <3>2, <3>3
  <2>5. op.quiet => Matches(op.at)'
    BY <1>3, <1>4, <2>2 DEF Matches
  <2>6. Payload'
    BY <1>3, <1>4, <1>6, <2>2, <2>4, <2>5 DEF Payload
  <2> QED
    BY <1>0, <2>2, <2>3, <2>6, KernelKept, OtherKinds DEF Inv, Reading
<1> QED
  BY <1>5, <1>6

LEMMA ReadLengthOK ==
    ASSUME Inv, ReadLength
    PROVE  Inv'
<1>1. op.pc = "len" /\ UNCHANGED <<ring, driver>>
  BY DEF ReadLength
<1>2. op.kind = "prp" /\ OpTypes
  BY <1>1 DEF Inv, Reading, OpTypes
<1>3. Payload
  BY DEF Inv, Reading
<1> DEFINE p == op.out[1].prp
<1>4. /\ op.at \in Slots
      /\ op.quiet => /\ Matches(op.at) /\ copying = 0
                     /\ sq[op.at].head \notin Sgl /\ p = sq[op.at].dptr
  BY <1>1, <1>2, <1>3 DEF Payload
<1>5. PICK len \in TotalLen :
        op' = [op EXCEPT !.pc = "done", !.out = <<[uses_sgl |-> FALSE, prp |-> p, len |-> len]>>]
  BY DEF ReadLength
<1> DEFINE now == [uses_sgl |-> FALSE, prp |-> p, len |-> len]
<1>6. /\ op'.kind = "prp" /\ op'.pc = "done" /\ op'.quiet = op.quiet /\ op'.cid = op.cid
      /\ op'.at = op.at /\ op'.out = <<now>>
  BY <1>2, <1>5 DEF OpTypes
<1>7. OpTypes'
  BY <1>2, <1>5 DEF OpTypes
<1>8. /\ UNCHANGED <<qid, foreign, bad, copying, sq>> /\ \A j : CidIn(j)' = CidIn(j)
      /\ Outstanding' = Outstanding
  BY <1>1, KernelKept
<1>9. Len(op'.out) = 1 /\ op'.out[1] = now
  BY <1>6
<1>10. ASSUME op.quiet
       PROVE  Exact'
  <2> SUFFICES ASSUME qid # 0, NEW i \in Slots \ bad, {j \in Slots : CidIn(j) = op.cid} = {i}
               PROVE  /\ ~(sq[i].head \in Sgl) /\ p = sq[i].dptr
                      /\ IF len.est THEN len.of \in {0, sq[i].head} ELSE len.of \in Outstanding
    <3>1. now.uses_sgl = FALSE /\ now.prp = p /\ now.len = len
      OBVIOUS
    <3> HIDE DEF now
    <3> QED
      BY <1>6, <1>8, <1>9, <3>1 DEF Exact
  <2>1. op.at = i
    BY <1>4, <1>10 DEF Matches
  <2>2. CASE len = Estimate
    <3>1. len.est /\ len.of \in {0, sq[i].head}
      BY <2>1, <2>2 DEF Estimate, Unknown
    <3> QED
      BY <1>4, <1>10, <2>1, <3>1
  <2>3. CASE len # Estimate
    <3>1. op.cid \in Tags /\ busy[op.cid] # 0 /\ len = [of |-> busy[op.cid], est |-> FALSE]
      BY <1>5, <2>3 DEF TotalLen, TagHolder
    <3>4. ~len.est /\ len.of = busy[op.cid]
      BY <3>1
    <3>2. Begun = subs /\ TagsHold
      BY <1>4, <1>10 DEF Begun, Inv, Kernel
    <3>3. busy[op.cid] \in 1 .. subs
      BY <3>1, <3>2 DEF TagsHold
    <3> QED
      BY <1>4, <1>10, <2>1, <3>1, <3>3, <3>4 DEF Outstanding
  <2> QED
    BY <2>2, <2>3
<1>11. Payload'
  BY <1>4, <1>6, <1>8, <1>10 DEF Payload
<1> QED
  BY <1>1, <1>6, <1>7, <1>11, KernelKept, OtherKinds DEF Inv, Reading

-----------------------------------------------------------------------------
LEMMA InitOK ==
    ASSUME Init
    PROVE  Inv
<1>1. /\ subs = 0 /\ copying = 0 /\ posted = <<>> /\ consumed = 0 /\ Begun = 0 /\ op = Idle
      /\ sq = [i \in Slots |-> Blank] /\ cq = [i \in Slots |-> 0]
      /\ tagOf = [n \in 1 .. MaxSeq |-> 0] /\ busy = [t \in Tags |-> 0]
  BY DEF Init, Begun
<1>2. KernelTypes
  BY <1>1, QueueAssumption DEF KernelTypes, Blank
<1>3. RingHolds
  <2>1. \A i \in Slots : sq[i].head = 0 /\ sq[i].dptr = 0 /\ cq[i] = 0
    BY <1>1 DEF Blank
  <2>2. Len(posted) = 0
    BY <1>1
  <2> QED
    BY <1>1, <2>1, <2>2 DEF RingHolds, Latest
<1>4. TagsHold
  BY <1>1 DEF TagsHold
<1>5. PostedOnce
  <2>1. Range(posted) = {} /\ Len(posted) = 0
    BY <1>1 DEF Range
  <2> QED
    BY <2>1, FS_EmptySet DEF PostedOnce
<1>6. OpTypes
  BY <1>1 DEF OpTypes, Idle
<1>7. Listing /\ Around /\ Snapshot /\ Payload
  BY <1>1 DEF Idle, Listing, Around, Snapshot, Payload
<1> QED
  BY <1>2, <1>3, <1>4, <1>5, <1>6, <1>7 DEF Inv, Kernel, Reading

\* Steps of driver and device.
LEMMA KernelStepOK ==
    ASSUME Inv, \/ \E t \in Tags : StartCopy(t)
                \/ EndCopy
                \/ \E n \in 1 .. MaxSeq : Post(n)
                \/ Consume
    PROVE  Inv'
<1>0. Kernel /\ subs \in Nat /\ Len(posted) \in Nat
  BY LenProperties DEF Inv, Kernel, KernelTypes
<1>1. ASSUME NEW t \in Tags, StartCopy(t) PROVE Inv'
  <2>1. Disturb /\ UNCHANGED ring
    BY <1>1 DEF StartCopy
  <2>2. Kernel' /\ subs' = subs /\ posted' = posted
    BY <1>0, <1>1, StartCopyOK
  <2> QED
    BY <1>0, <2>1, <2>2, DisturbOK
<1>2. ASSUME EndCopy PROVE Inv'
  <2>1. Disturb /\ UNCHANGED ring
    BY <1>2 DEF EndCopy
  <2>2. Kernel' /\ subs' = subs + 1 /\ posted' = posted
    BY <1>0, <1>2, EndCopyOK
  <2> QED
    BY <1>0, <2>1, <2>2, DisturbOK
<1>3. ASSUME NEW n \in 1 .. MaxSeq, Post(n) PROVE Inv'
  <2>1. Disturb /\ UNCHANGED ring
    BY <1>3 DEF Post
  <2>2. Kernel' /\ subs' = subs /\ Len(posted') = Len(posted) + 1
    BY <1>0, <1>3, PostOK
  <2> QED
    BY <1>0, <2>1, <2>2, DisturbOK
<1>4. ASSUME Consume PROVE Inv'
  <2>1. Disturb /\ UNCHANGED ring
    BY <1>4 DEF Consume
  <2>2. Kernel' /\ subs' = subs /\ posted' = posted
    BY <1>0, <1>4, ConsumeOK
  <2> QED
    BY <1>0, <2>1, <2>2, DisturbOK
<1> QED
  BY <1>1, <1>2, <1>3, <1>4

LEMMA StepOK ==
    ASSUME Inv, [Next]_vars
    PROVE  Inv'
<1>1. CASE UNCHANGED vars
  <2>1. UNCHANGED <<ring, driver>> /\ op' = op
    BY <1>1 DEF vars
  <2>2. /\ Kernel' /\ UNCHANGED <<qid, foreign, bad, subs, copying, sq, tagOf, busy, posted, consumed, cq>>
        /\ Outstanding' = Outstanding /\ \A i : CidIn(i)' = CidIn(i)
    BY <2>1, KernelKept
  <2>3. OpTypes' /\ Listing'
    BY <2>1 DEF Inv, Reading, OpTypes, Listing
  <2>4. Around'
    <3>1. Owed' = Owed /\ Filled' = Filled /\ Done' = Done
      BY <2>1, <2>2 DEF Owed, Filled, Done
    <3>2. \A r, k : GoodRow(r, k) => GoodRow(r, k)'
      BY <2>1, <3>1 DEF GoodRow, GoodHalf
    <3> QED
      BY <2>1, <2>2, <3>1, <3>2 DEF Inv, Reading, Around
  <2>5. Snapshot'
    BY <2>1, <2>2 DEF Inv, Reading, Snapshot, Counted
  <2>6. Payload'
    BY <2>1, <2>2 DEF Inv, Reading, Payload, Matches, Exact
  <2> QED
    BY <2>2, <2>3, <2>4, <2>5, <2>6 DEF Inv, Reading
<1>2. CASE \/ \E t \in Tags : StartCopy(t)
           \/ EndCopy
           \/ \E n \in 1 .. MaxSeq : Post(n)
           \/ Consume
  BY <1>2, KernelStepOK
<1>3. CASE (\E asked \in {Online} : Refuse(asked)) \/ Return
  BY <1>3, ReturnOK DEF Refuse, Return
<1>4. CASE \E kind \in {"sq", "cq"}, limit \in Limits, around \in BOOLEAN :
             BeginList(kind, limit, around)
  BY <1>4, BeginListOK
<1>5. CASE ReadHead
  BY <1>5, ReadHeadSkips, ReadHeadReads
<1>6. CASE ReadDptr \/ EndList
  BY <1>6, ReadDptrOK, EndListOK
<1>7. CASE BeginSnapshot \/ CountTag \/ CountFails \/ ReadRegisters
  BY <1>7, BeginSnapshotOK, CountTagOK, CountFailsOK, ReadRegistersOK
<1>8. CASE \E c \in Cids : BeginPrp(c)
  BY <1>8, BeginPrpOK
<1>9. CASE Scan \/ ScanFails \/ ReadPrps \/ ReadLength
  BY <1>9, ScanOK, ScanFailsOK, ReadPrpsOK, ReadLengthOK
<1> QED
  BY <1>1, <1>2, <1>3, <1>4, <1>5, <1>6, <1>7, <1>8, <1>9 DEF Next

\* The inductive invariant of the queue service on a running kernel.
LEMMA Invariance == Spec => []Inv
<1>1. Init => Inv
  BY InitOK
<1>2. Inv /\ [Next]_vars => Inv'
  BY StepOK
<1> QED
  BY <1>1, <1>2, PTL DEF Spec

\* Type correctness for rings of any depth: in particular no dump reads a slot
\* outside of the ring, whatever limit a client asks for (_window_indices).
THEOREM QueueTypes == Spec => []TypeOK
<1>1. Inv => TypeOK
  BY DEF Inv, Kernel, KernelTypes, Reading, OpTypes, TypeOK
<1> QED
  BY <1>1, Invariance, PTL

\* However far driver and device move between any two reads of a dump, no row of a
\* listing around the doorbell is older than its position says, and each half of it
\* is younger only by whole laps (get_queue_entries, get_completion_entries).
THEOREM RowsAreRecent == Spec => []ListedIsRecent
<1>1. ASSUME Inv
      PROVE  ListedIsRecent
  <2> SUFFICES ASSUME op.kind \in {"sq", "cq"}, op.around
               PROVE  ListedIsRecent
    BY DEF ListedIsRecent
  <2>1. Around /\ Listing /\ op.n \in Nat
    BY <1>1 DEF Inv, Reading, OpTypes
  <2>2. Done \in Nat /\ Done <= op.n /\ (op.pc = "done" => Done = op.n)
    <3>1. op.todo \in Seq(Slots) /\ Len(op.todo) \in Nat /\ (op.pc = "done" => Len(op.todo) = 0)
      BY <2>1, LenProperties DEF Listing
    <3> QED
      BY <2>1, <3>1 DEF Around, Done
  <2>3. Owed \subseteq 1 .. op.n /\ IsFiniteSet(Owed) /\ Owed = Owed \cap 1 .. op.n
    <3>1. Owed \subseteq 1 .. op.n
      BY DEF Owed
    <3>2. IsFiniteSet(1 .. op.n)
      BY <2>1, FS_Interval
    <3> QED
      BY <3>1, <3>2, FS_Subset
  <2>4. Len(op.out) <= Cardinality(Owed)
    <3>1. PICK k \in Nat : Len(op.out) = Cardinality(Owed \cap 1 .. k)
      <4>1. Done + 1 \in Nat /\ Done \in Nat
        BY <2>2
      <4>2. CASE op.pc = "dptr"
        BY <2>1, <4>1, <4>2 DEF Around
      <4>3. CASE op.pc # "dptr"
        BY <2>1, <4>1, <4>3 DEF Around
      <4> QED
        BY <4>2, <4>3
    <3>2. Cardinality(Owed \cap 1 .. k) <= Cardinality(Owed)
      BY <2>3, FS_Subset
    <3> QED
      BY <3>1, <3>2
  <2>5. op.pc = "done" => Len(op.out) = Cardinality(Owed)
    BY <2>1, <2>2, <2>3 DEF Around
  <2>6. ASSUME NEW r \in 1 .. Len(op.out)
        PROVE  /\ op.out[r].index = (op.at - Row(r)) % Depth
               /\ Fits(op.out[r].head, op.at + 1 - Row(r))
               /\ \/ op.pc = "dptr" /\ r = Len(op.out)
                  \/ Fits(op.out[r].dptr, op.at + 1 - Row(r))
    <3>1. PICK k \in 1 .. op.n : GoodRow(r, k)
      BY <2>1 DEF Around
    <3>2. Row(r) = k
      BY <2>1, <3>1, RowIs DEF GoodRow
    <3> QED
      BY <3>1, <3>2 DEF GoodRow, GoodHalf
  <2> QED
    BY <2>4, <2>5, <2>6 DEF ListedIsRecent
<1> QED
  BY <1>1, Invariance, PTL

\* A read during which nothing moved is exact as far as it can be: every readable row of
\* the window, the requests in flight as far as they could be read, and the pointers of
\* the one row that carries the id, with a length that is estimated from that row or
\* that of a request in flight on this hctx (get_prp_payload, _resolve_total_len).
THEOREM QuietIsExact == Spec => []QuietReadsExact
<1>1. ASSUME Inv, ListedIsRecent
      PROVE  QuietReadsExact
  <2> SUFFICES ASSUME op.pc = "done", op.quiet
               PROVE  QuietReadsExact
    BY DEF QuietReadsExact
  <2>1. ASSUME op.kind = "sq", op.around
        PROVE  op.out = [r \in 1 .. Cardinality(Owed) |->
                          LET latest == Max({0, op.at + 1 - Row(r)}) IN
                          [index |-> (op.at - Row(r)) % Depth, head |-> latest, dptr |-> latest]]
    <3>1. op.out \in Seq(ListRow) /\ Around /\ op.n \in Nat /\ op.at \in Int
      BY <1>1, <2>1 DEF Inv, Reading, OpTypes, Listing
    <3>2. Len(op.out) = Cardinality(Owed)
      BY <1>1, <2>1 DEF ListedIsRecent
    <3>3. ASSUME NEW r \in 1 .. Len(op.out)
          PROVE  op.out[r] = LET latest == Max({0, op.at + 1 - Row(r)}) IN
                   [index |-> (op.at - Row(r)) % Depth, head |-> latest, dptr |-> latest]
      <4>1. PICK k \in 1 .. op.n : GoodRow(r, k)
        BY <2>1, <3>1 DEF Around
      <4>2. Row(r) = k
        BY <3>1, <4>1, RowIs DEF GoodRow
      <4> DEFINE o == op.at + 1 - k
                 x == IF o > 0 THEN o ELSE 0
      <4>3. Max({0, o}) = x
        <5>1. \E y \in {0, o} : \A z \in {0, o} : y >= z
          BY <3>1
        <5>2. Max({0, o}) \in {0, o} /\ \A z \in {0, o} : Max({0, o}) >= z
          BY <5>1 DEF Max
        <5> QED
          BY <3>1, <5>2
      <4>4. op.out[r].index = (op.at - k) % Depth /\ op.out[r].head = x /\ op.out[r].dptr = x
        BY <2>1, <4>1 DEF GoodRow, GoodHalf
      <4>5. op.out[r] \in ListRow
        BY <3>1, ElementOfSeq
      <4> HIDE DEF x, o
      <4>6. op.out[r] = [index |-> (op.at - k) % Depth, head |-> x, dptr |-> x]
        BY <4>4, <4>5 DEF ListRow
      <4> QED
        BY <4>2, <4>3, <4>6 DEF o
    <3>4. op.out = [r \in 1 .. Len(op.out) |-> op.out[r]]
      BY <3>1
    <3> QED
      BY <3>2, <3>3, <3>4
  <2>2. ASSUME op.kind = "snapshot"
        PROVE  /\ op.out[1].inflight <= Cardinality(Started)
               /\ op.todo = <<>> /\ qid # 0 => op.out[1].inflight = Cardinality(Started)
    <3>1. op.out[1].inflight = IF qid = 0 THEN 0 ELSE Cardinality(Counted)
      BY <1>1, <2>2 DEF Inv, Reading, Snapshot
    <3>2. Counted \subseteq Started /\ Started \subseteq Tags /\ IsFiniteSet(Tags)
      BY QueueAssumption DEF Counted, Started
    <3>3. /\ IsFiniteSet(Started) /\ Cardinality(Started) \in Nat
          /\ Cardinality(Counted) <= Cardinality(Started)
      BY <3>2, FS_Subset, FS_CardinalityType
    <3>4. op.todo = <<>> => Counted = Started
      BY DEF Counted, Started, Range
    <3> QED
      BY <3>1, <3>3, <3>4
  <2>3. op.kind = "prp" => Exact
    BY <1>1 DEF Inv, Reading, Payload
  <2> QED
    BY <2>1, <2>2, <2>3 DEF QuietReadsExact, Exact
<1> QED
  BY <1>1, Invariance, RowsAreRecent, PTL
=============================================================================
