-------------------------- MODULE StreamServerProofs --------------------------
(***************************************************************************)
(* Proofs about StreamServer, for any number of connections and calls.     *)
(***************************************************************************)
EXTENDS StreamServer, SequenceTheorems, TLAPS

-----------------------------------------------------------------------------
(* Types of the whole request path. *)

\* A queue that lost one work item is a queue.
LEMMA WithdrawnType ==
    ASSUME TypeOK, NEW c
    PROVE  Withdrawn(c) \in Seq(Streams \cup Calls)
<1>1. CASE \E i \in DOMAIN queue : queue[i] = c
  <2> DEFINE i == CHOOSE i \in DOMAIN queue : queue[i] = c
  <2>1. i \in 1 .. Len(queue)
    BY <1>1 DEF TypeOK
  <2>2. Withdrawn(c) = SubSeq(queue, 1, i - 1) \o SubSeq(queue, i + 1, Len(queue))
    BY <1>1 DEF Withdrawn
  <2> HIDE DEF i
  <2>3. SubSeq(queue, 1, i - 1) \in Seq(Streams \cup Calls)
    BY <2>1 DEF TypeOK
  <2>4. SubSeq(queue, i + 1, Len(queue)) \in Seq(Streams \cup Calls)
    BY <2>1 DEF TypeOK
  <2> QED
    BY <2>2, <2>3, <2>4
<1>2. CASE ~ \E i \in DOMAIN queue : queue[i] = c
  BY <1>2 DEF Withdrawn, TypeOK
<1> QED
  BY <1>1, <1>2

\* Every step of a browser, the gateway, the server or the worker keeps the types.
LEMMA TypeStep ==
    ASSUME TypeOK, [Next]_vars
    PROVE  TypeOK'
<1> USE StreamAssumption DEF TypeOK
<1>1. CASE UNCHANGED vars
  BY <1>1 DEF vars, gatewayVars, serverVars, workerVars
<1>2. ASSUME NEW c \in Streams, Open(c) \/ Leave(c) \/ Notice(c)
      PROVE  TypeOK'
  BY <1>2 DEF Open, Leave, Notice, serverVars, workerVars
<1>3. ASSUME NEW c \in Streams, AskNext(c) \/ NextDone(c) \/ GiveUp(c)
      PROVE  TypeOK'
  <2>1. CASE AskNext(c)
    BY <2>1 DEF AskNext, workerVars
  <2>2. CASE NextDone(c)
    <3>1. inbox' \in [Streams -> 0 .. MaxInbox]
      BY <2>2 DEF NextDone
    <3>2. task' \in [Streams -> {"none", "pending", "cancelling", "item", "error"}]
      BY <2>2 DEF NextDone
    <3> QED
      BY <2>2, <3>1, <3>2 DEF NextDone, workerVars
  <2>3. CASE GiveUp(c)
    BY <2>3 DEF GiveUp, serverVars, workerVars
  <2> QED
    BY <1>3, <2>1, <2>2, <2>3
<1>4. ASSUME NEW c \in Streams,
             NextCancelled(c) \/ Unwound(c) \/ Deliver(c, FALSE) \/ Deliver(c, TRUE)
      PROVE  TypeOK'
  BY <1>4 DEF NextCancelled, Unwound, Deliver, serverVars, workerVars
<1>5. ASSUME NEW c \in Streams, RpcError(c) \/ Aclose(c)
      PROVE  TypeOK'
  BY <1>5 DEF RpcError, Aclose, serverVars, workerVars
<1>6. ASSUME NEW c \in Streams, Query(c)
      PROVE  TypeOK'
  <2>1. queue' \in Seq(Streams \cup Calls)
    <3>1. CASE c \in Direct
      BY <1>6, <3>1 DEF Query
    <3>2. CASE c \notin Direct
      <4>1. queue' = Append(queue, c)
        BY <1>6, <3>2 DEF Query
      <4> QED
        BY <4>1
    <3> QED
      BY <3>1, <3>2
  <2>2. rpc' \in [Streams -> {"off", "begin", "await", "yield", "sleep", "failed"}]
    BY <1>6 DEF Query
  <2> QED
    BY <1>6, <2>1, <2>2 DEF Query, gatewayVars
<1>7. ASSUME NEW c \in Streams, Yield(c)
      PROVE  TypeOK'
  BY <1>7 DEF Yield, gatewayVars, workerVars
<1>8. ASSUME NEW c \in Streams, Cancelled(c)
      PROVE  TypeOK'
  <2>1. queue' \in Seq(Streams \cup Calls)
    BY <1>8, WithdrawnType DEF Cancelled
  <2>2. running' \in [who: Streams \cup Calls, live: BOOLEAN] \cup {Idle}
    BY <1>8 DEF Cancelled, Idle
  <2> QED
    BY <1>8, <2>1, <2>2 DEF Cancelled
<1>9. ASSUME NEW u \in Calls, Call(u)
      PROVE  TypeOK'
  BY <1>9 DEF Call, gatewayVars
<1>10. CASE Take
  BY <1>10 DEF Take, gatewayVars, serverVars
<1>11. ASSUME NEW found \in BOOLEAN, Finish(found)
       PROVE  TypeOK'
  BY <1>11 DEF Finish, gatewayVars
<1> QED
  BY <1>1, <1>2, <1>3, <1>4, <1>5, <1>6, <1>7, <1>8, <1>9, <1>10, <1>11
  DEF Next, Gateway, Server, Worker

\* Type correctness, for any number of connections, calls and any inbox.
THEOREM StreamTypes == Spec => []TypeOK
<1>1. Init => TypeOK
  BY StreamAssumption DEF Init, TypeOK
<1> QED
  BY <1>1, TypeStep, PTL DEF Spec

-----------------------------------------------------------------------------
(* Closing the generator. *)

\* Why the generator can be closed: a handler that unwinds has no pending task, and
\* one that closes has none at all.
Settled ==
    \A c \in Streams :
      /\ handler[c] = "unwind" => task[c] # "pending"
      /\ handler[c] = "aclose" => task[c] \notin {"pending", "cancelling"}

\* One step of whichever party keeps the handlers settled.
LEMMA SettledStep ==
    ASSUME TypeOK, Settled, [Next]_vars
    PROVE  Settled'
<1>0. /\ handler \in [Streams -> {"off", "loop", "wait", "unwind", "aclose"}]
      /\ task \in [Streams -> {"none", "pending", "cancelling", "item", "error"}]
  BY DEF TypeOK
<1> USE <1>0 DEF Settled
<1>1. CASE UNCHANGED vars
  BY <1>1 DEF vars, gatewayVars
<1>2. ASSUME NEW c \in Streams, Gateway(c)
      PROVE  Settled'
  <2>1. CASE AskNext(c)
    BY <2>1 DEF AskNext
  <2>2. CASE NextDone(c)
    BY <2>2 DEF NextDone
  <2>3. CASE GiveUp(c)
    BY <2>3 DEF GiveUp
  <2>4. CASE NextCancelled(c)
    BY <2>4 DEF NextCancelled
  <2>5. CASE Unwound(c)
    BY <2>5 DEF Unwound
  <2>6. CASE Deliver(c, FALSE) \/ Deliver(c, TRUE)
    BY <2>6 DEF Deliver
  <2>7. CASE RpcError(c)
    BY <2>7 DEF RpcError
  <2>8. CASE Aclose(c)
    BY <2>8 DEF Aclose
  <2> QED
    BY <1>2, <2>1, <2>2, <2>3, <2>4, <2>5, <2>6, <2>7, <2>8 DEF Gateway
<1>3. ASSUME NEW c \in Streams,
             Open(c) \/ Leave(c) \/ Notice(c) \/ Server(c) \/ Cancelled(c)
      PROVE  Settled'
  BY <1>3 DEF Open, Leave, Notice, Server, Query, Yield, Cancelled, gatewayVars
<1>4. ASSUME NEW u \in Calls, Call(u)
      PROVE  Settled'
  BY <1>4 DEF Call, gatewayVars
<1>5. CASE Worker
  BY <1>5 DEF Worker, Take, Finish, gatewayVars
<1> QED
  BY <1>1, <1>2, <1>3, <1>4, <1>5 DEF Next

\* For any number of WebSocket connections, _stream_ws never closes the generator
\* while next_task still runs in it.
THEOREM AcloseIsSafe == Spec => []AcloseSafe
<1>1. Init => TypeOK /\ Settled
  BY StreamAssumption DEF Init, TypeOK, Settled
<1>2. TypeOK /\ Settled /\ [Next]_vars => TypeOK' /\ Settled'
  BY TypeStep, SettledStep
<1>3. Settled => AcloseSafe
  BY DEF Settled, AcloseSafe
<1> QED
  BY <1>1, <1>2, <1>3, PTL DEF Spec

-----------------------------------------------------------------------------
(* Work items. *)

Awaits(x) == (x \in Streams /\ rpc[x] = "await") \/ (x \in Calls /\ call[x] = "await")

\* The work item of a unary call is never given up: only streams are cancelled.
CallsLive == running # Idle /\ running.who \in Calls => running.live

\* NoStaleWork item by item, and what the worker runs for a call.
WorkOwned ==
    /\ \A i, j \in DOMAIN queue : queue[i] = queue[j] => i = j
    /\ \A i \in DOMAIN queue : running.live => queue[i] # running.who
    /\ \A i \in DOMAIN queue : Awaits(queue[i])
    /\ running.live => Awaits(running.who)
    /\ \A x \in Streams \cup Calls :
         Awaits(x) => \/ \E i \in DOMAIN queue : queue[i] = x
                      \/ running.live /\ running.who = x
    /\ \A c \in Direct : rpc[c] # "await"
    /\ CallsLive

\* What WorkOwned says item by item is what NoStaleWork says of sets.
LEMMA OwnedIsNotStale ==
    ASSUME TypeOK, WorkOwned
    PROVE  NoStaleWork
<1>1. {queue[i] : i \in DOMAIN queue}
        \cup (IF running.live THEN {running.who} ELSE {}) = Waiting
  BY DEF TypeOK, WorkOwned, Awaits, Waiting
<1>2. Waiting \cap Direct = {}
  BY StreamAssumption DEF WorkOwned, Waiting
<1> QED
  BY <1>1, <1>2 DEF WorkOwned, NoStaleWork

\* A step that leaves the work and those who wait for it alone.
LEMMA OwnedUntouched ==
    ASSUME TypeOK, WorkOwned, UNCHANGED <<queue, running, call>>,
           \A c \in Streams : rpc'[c] = "await" <=> rpc[c] = "await"
    PROVE  WorkOwned'
BY StreamAssumption DEF TypeOK, WorkOwned, CallsLive, Awaits

\* What a suffix of a sequence holds.
LEMMA SuffixProperties ==
    ASSUME NEW S, NEW s \in Seq(S), NEW k \in 1 .. Len(s)
    PROVE  LET right == SubSeq(s, k + 1, Len(s))
           IN  /\ right \in Seq(S)
               /\ Len(right) = Len(s) - k
               /\ \A i \in 1 .. Len(s) - k : right[i] = s[i + k]
<1> DEFINE m == k + 1
           n == Len(s)
           right == SubSeq(s, m, n)
<1>1. m \in Int /\ n \in Int /\ k = m - 1 /\ m <= n + 1
  OBVIOUS
<1>2. \A i \in m .. n : s[i] \in S
  OBVIOUS
<1> HIDE DEF m, n
<1>3. /\ right \in Seq(S)
      /\ Len(right) = IF m <= n THEN n - m + 1 ELSE 0
      /\ \A i \in 1 .. n - m + 1 : right[i] = s[m + i - 1]
  BY <1>1, <1>2, SubSeqProperties
<1> HIDE DEF right
<1>4. Len(right) = n - k /\ \A i \in 1 .. n - k : right[i] = s[i + k]
  BY <1>1, <1>3
<1> QED
  BY <1>3, <1>4 DEF m, n, right

\* What withdrawing the work item of c leaves: the others, each once.
LEMMA WithdrawnItems ==
    ASSUME TypeOK, WorkOwned, NEW c
    PROVE  LET q == Withdrawn(c)
           IN  /\ \A i \in DOMAIN q : q[i] # c
               /\ \A i \in DOMAIN q : \E j \in DOMAIN queue : q[i] = queue[j]
               /\ \A i, j \in DOMAIN q : q[i] = q[j] => i = j
               /\ \A j \in DOMAIN queue :
                    queue[j] # c => \E i \in DOMAIN q : q[i] = queue[j]
<1> DEFINE q == Withdrawn(c)
<1>1. CASE \E k \in DOMAIN queue : queue[k] = c
  <2> DEFINE k == CHOOSE k \in DOMAIN queue : queue[k] = c
             left == SubSeq(queue, 1, k - 1)
             right == SubSeq(queue, k + 1, Len(queue))
             n == Len(queue)
  <2>1. k \in 1 .. n /\ queue[k] = c /\ n \in Nat /\ DOMAIN queue = 1 .. n
    BY <1>1 DEF TypeOK
  <2>2. q = left \o right
    BY <1>1 DEF Withdrawn
  <2> HIDE DEF k
  <2>3. /\ left \in Seq(Streams \cup Calls)
        /\ Len(left) = k - 1
        /\ \A i \in 1 .. k - 1 : left[i] = queue[i]
    BY <2>1 DEF TypeOK
  <2>4. /\ right \in Seq(Streams \cup Calls)
        /\ Len(right) = n - k
        /\ \A i \in 1 .. n - k : right[i] = queue[i + k]
    <3>1. queue \in Seq(Streams \cup Calls) /\ k \in 1 .. Len(queue)
      BY <2>1 DEF TypeOK
    <3> QED
      BY <3>1, SuffixProperties, Zenon
  <2> HIDE DEF left, right, q
  <2>5. Len(q) = n - 1 /\ DOMAIN q = 1 .. n - 1
    <3>1. q \in Seq(Streams \cup Calls) /\ Len(q) = Len(left) + Len(right)
      BY <2>2, <2>3, <2>4, ConcatProperties
    <3>2. DOMAIN q = 1 .. Len(q)
      BY <3>1, LenProperties
    <3> QED
      BY <2>1, <2>3, <2>4, <3>1, <3>2
  <2>6. \A i \in 1 .. n - 1 : q[i] = IF i < k THEN queue[i] ELSE queue[i + 1]
    BY <2>1, <2>2, <2>3, <2>4
  <2> HIDE DEF n
  <2>7. \A i, j \in 1 .. n : queue[i] = queue[j] => i = j
    BY <2>1 DEF WorkOwned
  <2>8. \A j \in 1 .. n : queue[j] # c => \E i \in 1 .. n - 1 : q[i] = queue[j]
    <3> SUFFICES ASSUME NEW j \in 1 .. n, queue[j] # c
                 PROVE  \E i \in 1 .. n - 1 : q[i] = queue[j]
      OBVIOUS
    <3>1. CASE j < k
      BY <2>1, <2>6, <3>1
    <3>2. CASE j > k
      <4>1. j - 1 \in 1 .. n - 1 /\ ~(j - 1 < k) /\ (j - 1) + 1 = j
        BY <2>1, <3>2
      <4> QED
        BY <2>6, <4>1
    <3> QED
      BY <2>1, <3>1, <3>2
  <2>9. \A i \in 1 .. n - 1 :
          \E j \in 1 .. n : j # k /\ q[i] = queue[j] /\ j = (IF i < k THEN i ELSE i + 1)
    BY <2>1, <2>6
  <2>10. \A i, j \in 1 .. n - 1 : q[i] = q[j] => i = j
    BY <2>1, <2>7, <2>9
  <2>11. \A i \in 1 .. n - 1 : q[i] # c
    BY <2>1, <2>7, <2>9
  <2>12. \A i \in DOMAIN q : \E j \in DOMAIN queue : q[i] = queue[j]
    BY <2>1, <2>5, <2>9
  <2> QED
    BY <2>1, <2>5, <2>8, <2>10, <2>11, <2>12 DEF q
<1>2. CASE ~ \E k \in DOMAIN queue : queue[k] = c
  BY <1>2 DEF Withdrawn, TypeOK, WorkOwned
<1> QED
  BY <1>1, <1>2

\* A work item is added for one who did not wait, and now does.
LEMMA OwnedAppend ==
    ASSUME TypeOK, WorkOwned, NEW x \in (Streams \cup Calls) \ Direct, ~Awaits(x),
           queue' = Append(queue, x), UNCHANGED running,
           Awaits(x)',
           \A y \in (Streams \cup Calls) \ {x} :
             (y \in Streams => rpc'[y] = rpc[y]) /\ (y \in Calls => call'[y] = call[y])
    PROVE  WorkOwned'
<1> DEFINE n == Len(queue)
<1>1. /\ n \in Nat
      /\ DOMAIN queue = 1 .. n
      /\ DOMAIN queue' = 1 .. n + 1
      /\ \A i \in 1 .. n : queue'[i] = queue[i] /\ queue[i] \in Streams \cup Calls
      /\ queue'[n + 1] = x
  BY DEF TypeOK
<1> HIDE DEF n
<1>2. \A y \in (Streams \cup Calls) \ {x} : Awaits(y)' <=> Awaits(y)
  BY DEF Awaits
<1>3. \A i \in 1 .. n : queue[i] # x
  BY <1>1 DEF WorkOwned
<1>4. running.live => running.who # x /\ running.who \in Streams \cup Calls
  BY DEF WorkOwned, Awaits
<1>5. \A i, j \in DOMAIN queue' : queue'[i] = queue'[j] => i = j
  BY <1>1, <1>3 DEF WorkOwned
<1>6. \A i \in DOMAIN queue' : running'.live => queue'[i] # running'.who
  BY <1>1, <1>4 DEF WorkOwned
<1>7. \A i \in DOMAIN queue' : Awaits(queue[i])'
  BY <1>1, <1>2, <1>3 DEF WorkOwned, Awaits
<1>8. running'.live => Awaits(running.who)'
  BY <1>2, <1>4 DEF WorkOwned, Awaits
<1>9. \A y \in Streams \cup Calls :
        Awaits(y)' => \/ \E i \in DOMAIN queue' : queue'[i] = y
                      \/ running'.live /\ running'.who = y
  <2> SUFFICES ASSUME NEW y \in Streams \cup Calls, Awaits(y)'
               PROVE  \/ \E i \in 1 .. n + 1 : queue'[i] = y
                      \/ running.live /\ running.who = y
    BY <1>1 DEF Awaits
  <2>1. CASE y = x
    BY <1>1, <2>1
  <2>2. CASE y # x
    <3>1. \/ \E i \in 1 .. n : queue[i] = y
          \/ running.live /\ running.who = y
      BY <1>1, <1>2, <2>2 DEF WorkOwned
    <3> QED
      BY <1>1, <3>1
  <2> QED
    BY <2>1, <2>2
<1>10. \A c \in Direct : rpc'[c] # "await"
  BY StreamAssumption DEF WorkOwned
<1>11. CallsLive'
  BY DEF WorkOwned, CallsLive
<1> QED
  BY <1>5, <1>6, <1>7, <1>8, <1>9, <1>10, <1>11 DEF WorkOwned, Awaits

\* A cancelled stream takes its queued work item with it, and disowns a running one.
LEMMA OwnedCancelled ==
    ASSUME TypeOK, WorkOwned, NEW c \in Streams, Cancelled(c)
    PROVE  WorkOwned'
<1> DEFINE Others == (Streams \cup Calls) \ {c}
<1>1. /\ queue' = Withdrawn(c)
      /\ running' = IF running.who = c THEN [running EXCEPT !.live = FALSE] ELSE running
      /\ rpc' = [rpc EXCEPT ![c] = "off"]
      /\ call' = call
  BY DEF Cancelled
<1>2. /\ \A i \in DOMAIN queue' : queue'[i] # c
      /\ \A i \in DOMAIN queue' : \E j \in DOMAIN queue : queue'[i] = queue[j]
      /\ \A i, j \in DOMAIN queue' : queue'[i] = queue'[j] => i = j
      /\ \A j \in DOMAIN queue :
           queue[j] # c => \E i \in DOMAIN queue' : queue'[i] = queue[j]
  BY <1>1, WithdrawnItems
<1>3. \A x \in Others : Awaits(x)' <=> Awaits(x)
  BY <1>1 DEF Awaits, TypeOK
<1>4. ~Awaits(c)'
  BY <1>1, StreamAssumption DEF Awaits, TypeOK
<1>5. /\ running'.live => running.live /\ running'.who = running.who /\ running.who # c
      /\ running.live /\ running.who # c => running' = running
  BY <1>1 DEF TypeOK, Idle
<1>6. \A i \in DOMAIN queue : queue[i] \in Streams \cup Calls
  BY DEF TypeOK
<1>7. \A i \in DOMAIN queue' : running'.live => queue'[i] # running'.who
  BY <1>2, <1>5 DEF WorkOwned
<1>8. \A i \in DOMAIN queue' : queue'[i] \in Others /\ Awaits(queue'[i])
  BY <1>2, <1>6 DEF WorkOwned
<1>9. \A i \in DOMAIN queue' : Awaits(queue[i])'
  BY <1>3, <1>8 DEF Awaits
<1>10. running'.live => Awaits(running.who)'
  <2>1. running'.live => running.who \in Others /\ Awaits(running.who)
    BY <1>5 DEF WorkOwned, Awaits
  <2> QED
    BY <1>3, <1>5, <2>1 DEF Awaits
<1>11. \A x \in Streams \cup Calls :
         Awaits(x)' => \/ \E i \in DOMAIN queue' : queue'[i] = x
                       \/ running'.live /\ running'.who = x
  BY <1>2, <1>3, <1>4, <1>5 DEF WorkOwned
<1>12. \A d \in Direct : rpc'[d] # "await"
  BY <1>1, StreamAssumption DEF WorkOwned, TypeOK
<1>13. CallsLive'
  <2>1. CASE running.who = c
    <3>1. running'.who = c
      BY <1>1, <2>1 DEF TypeOK, Idle
    <3> QED
      BY <3>1, StreamAssumption DEF CallsLive
  <2>2. CASE running.who # c
    BY <1>1, <2>2 DEF WorkOwned, CallsLive
  <2> QED
    BY <2>1, <2>2
<1> QED
  BY <1>2, <1>7, <1>9, <1>10, <1>11, <1>12, <1>13 DEF WorkOwned, Awaits

\* The worker takes the oldest work item; whoever waits for it still does.
LEMMA OwnedTake ==
    ASSUME TypeOK, WorkOwned, Take
    PROVE  WorkOwned'
<1> DEFINE n == Len(queue)
<1>1. /\ n \in Nat \ {0}
      /\ DOMAIN queue = 1 .. n
      /\ DOMAIN queue' = 1 .. n - 1
      /\ \A i \in 1 .. n - 1 : queue'[i] = queue[i + 1]
      /\ running' = [who |-> queue[1], live |-> TRUE]
      /\ running = Idle
      /\ rpc' = rpc /\ call' = call
  BY DEF Take, TypeOK, serverVars
<1> HIDE DEF n
<1>2. running.live = FALSE /\ running' # Idle /\ running'.live /\ running'.who = queue[1]
  BY <1>1 DEF Idle
<1>3. \A i, j \in DOMAIN queue' : queue'[i] = queue'[j] => i = j
  BY <1>1, SMTT(40) DEF WorkOwned
<1>4. \A i \in DOMAIN queue' : running'.live => queue'[i] # running'.who
  BY <1>1, <1>2 DEF WorkOwned
<1>5. \A i \in DOMAIN queue' : Awaits(queue[i])'
  BY <1>1 DEF WorkOwned, Awaits
<1>6. running'.live => Awaits(running.who)'
  BY <1>1, <1>2 DEF WorkOwned, Awaits
<1>7. \A x \in Streams \cup Calls :
        Awaits(x)' => \/ \E i \in DOMAIN queue' : queue'[i] = x
                      \/ running'.live /\ running'.who = x
  <2> SUFFICES ASSUME NEW x \in Streams \cup Calls, Awaits(x)
               PROVE  \/ \E i \in 1 .. n - 1 : queue'[i] = x
                      \/ queue[1] = x
    BY <1>1, <1>2 DEF Awaits
  <2>1. PICK i \in 1 .. n : queue[i] = x
    BY <1>1, <1>2 DEF WorkOwned
  <2>2. CASE i = 1
    BY <2>1, <2>2
  <2>3. CASE i # 1
    <3>1. i - 1 \in 1 .. n - 1 /\ (i - 1) + 1 = i
      BY <1>1, <2>3
    <3> QED
      BY <1>1, <2>1, <3>1
  <2> QED
    BY <2>2, <2>3
<1>8. \A c \in Direct : rpc'[c] # "await"
  BY <1>1 DEF WorkOwned
<1>9. CallsLive'
  BY <1>2 DEF CallsLive
<1> QED
  BY <1>3, <1>4, <1>5, <1>6, <1>7, <1>8, <1>9 DEF WorkOwned, Awaits

\* A query that ends answers the RPC that waits for it, and nobody else.
LEMMA OwnedFinish ==
    ASSUME TypeOK, WorkOwned, NEW found \in BOOLEAN, Finish(found)
    PROVE  WorkOwned'
<1>1. /\ queue' = queue
      /\ running # Idle
      /\ running' = Idle
      /\ running \in [who: Streams \cup Calls, live: BOOLEAN]
  BY DEF Finish, TypeOK
<1>2. running'.live = FALSE
  BY <1>1 DEF Idle
<1>3. \A x \in Streams \cup Calls :
        Awaits(x)' <=> Awaits(x) /\ ~(running.live /\ running.who = x)
  <2> SUFFICES ASSUME NEW x \in Streams \cup Calls
               PROVE  Awaits(x)' <=> Awaits(x) /\ ~(running.live /\ running.who = x)
    OBVIOUS
  <2>1. running.who \in Calls => running.live
    BY <1>1 DEF WorkOwned, CallsLive
  <2>2. CASE x \in Streams
    BY <1>1, <2>2, StreamAssumption DEF Finish, TypeOK, Awaits
  <2>3. CASE x \in Calls
    BY <1>1, <2>1, <2>3, StreamAssumption DEF Finish, TypeOK, Awaits
  <2> QED
    BY <2>2, <2>3
<1>4. \A i \in DOMAIN queue : queue[i] \in Streams \cup Calls
  BY DEF TypeOK
<1>5. \A i \in DOMAIN queue' : Awaits(queue[i])'
  BY <1>1, <1>3, <1>4 DEF WorkOwned, Awaits
<1>6. \A x \in Streams \cup Calls : Awaits(x)' => \E i \in DOMAIN queue' : queue'[i] = x
  BY <1>1, <1>3 DEF WorkOwned
<1>7. \A c \in Direct : rpc'[c] # "await"
  <2> SUFFICES ASSUME NEW c \in Direct, rpc'[c] = "await"
               PROVE  FALSE
    OBVIOUS
  <2>1. c \in Streams /\ Awaits(c)'
    BY StreamAssumption DEF Awaits
  <2> QED
    BY <1>3, <2>1, StreamAssumption DEF WorkOwned, Awaits
<1>8. CallsLive'
  BY <1>1 DEF CallsLive
<1> QED
  BY <1>1, <1>2, <1>5, <1>6, <1>7, <1>8 DEF WorkOwned, Awaits

\* Whatever the browsers, the gateway, the server and the worker do next.
LEMMA OwnedStep ==
    ASSUME TypeOK, WorkOwned, [Next]_vars
    PROVE  WorkOwned'
<1>1. CASE UNCHANGED vars
  BY <1>1, OwnedUntouched DEF vars, gatewayVars, serverVars, workerVars
<1>2. ASSUME NEW c \in Streams, Open(c) \/ Leave(c) \/ Notice(c) \/ Gateway(c) \/ Yield(c)
      PROVE  WorkOwned'
  <2>1. UNCHANGED <<queue, running, call>>
    BY <1>2 DEF Open, Leave, Notice, Gateway, AskNext, NextDone, GiveUp, NextCancelled, Unwound,
                Deliver, RpcError, Aclose, Yield, gatewayVars, serverVars, workerVars
  <2>2. \A d \in Streams : rpc'[d] = "await" <=> rpc[d] = "await"
    BY <1>2 DEF Open, Leave, Notice, Gateway, AskNext, NextDone, GiveUp, NextCancelled, Unwound,
                Deliver, RpcError, Aclose, Yield, serverVars, TypeOK
  <2> QED
    BY <2>1, <2>2, OwnedUntouched
<1>3. ASSUME NEW c \in Streams, Query(c)
      PROVE  WorkOwned'
  <2>1. CASE c \in Direct
    <3>1. UNCHANGED <<queue, running, call>>
      BY <1>3, <2>1 DEF Query
    <3>2. \A d \in Streams : rpc'[d] = "await" <=> rpc[d] = "await"
      BY <1>3, <2>1 DEF Query, TypeOK
    <3> QED
      BY <3>1, <3>2, OwnedUntouched
  <2>2. CASE c \notin Direct
    <3>1. /\ queue' = Append(queue, c)
          /\ rpc' = [rpc EXCEPT ![c] = "await"]
          /\ running' = running /\ call' = call
          /\ rpc[c] # "await"
      BY <1>3, <2>2 DEF Query
    <3>2. ~Awaits(c) /\ Awaits(c)'
      BY <3>1, StreamAssumption DEF Awaits, TypeOK
    <3>3. \A y \in (Streams \cup Calls) \ {c} :
            (y \in Streams => rpc'[y] = rpc[y]) /\ (y \in Calls => call'[y] = call[y])
      BY <3>1 DEF TypeOK
    <3> QED
      BY <2>2, <3>1, <3>2, <3>3, OwnedAppend
  <2> QED
    BY <2>1, <2>2
<1>4. ASSUME NEW u \in Calls, Call(u)
      PROVE  WorkOwned'
  <2>1. /\ queue' = Append(queue, u)
        /\ call' = [call EXCEPT ![u] = "await"]
        /\ running' = running /\ rpc' = rpc
        /\ call[u] # "await"
    BY <1>4 DEF Call
  <2>2. ~Awaits(u) /\ Awaits(u)' /\ u \notin Direct
    BY <2>1, StreamAssumption DEF Awaits, TypeOK
  <2>3. \A y \in (Streams \cup Calls) \ {u} :
          (y \in Streams => rpc'[y] = rpc[y]) /\ (y \in Calls => call'[y] = call[y])
    BY <2>1 DEF TypeOK
  <2> QED
    BY <2>1, <2>2, <2>3, OwnedAppend
<1> QED
  BY <1>1, <1>2, <1>3, <1>4, OwnedCancelled, OwnedTake, OwnedFinish DEF Next, Server, Worker

\* However many tabs are opened and left, every queued work item, and the running one
\* unless it was given up, is awaited by exactly one RPC, and no RPC waits for nothing.
THEOREM WorkIsNotStale == Spec => []NoStaleWork
<1>1. Init => TypeOK /\ WorkOwned
  BY StreamAssumption DEF Init, TypeOK, WorkOwned, CallsLive, Awaits, Idle
<1>2. TypeOK /\ WorkOwned /\ [Next]_vars => TypeOK' /\ WorkOwned'
  BY TypeStep, OwnedStep
<1>3. TypeOK /\ WorkOwned => NoStaleWork
  BY OwnedIsNotStale
<1> QED
  BY <1>1, <1>2, <1>3, PTL DEF Spec
===============================================================================
