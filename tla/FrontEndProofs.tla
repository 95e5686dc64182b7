---------------------------- MODULE FrontEndProofs ----------------------------
(***************************************************************************)
(* Proofs about what a front end is answered with.  First Requests: who    *)
(* answers, and with which status, for any number of concurrent requests   *)
(* and any set of device names.  Then Views: what an answer shows, for     *)
(* every transfer, heap, machine, fio definition, process and value.       *)
(***************************************************************************)
EXTENDS Requests, Views, SequenceTheorems, FiniteSetTheorems, TLAPS

Underway == {"called", "connecting", "reading"}

\* Why the session is never shared: the worker runs one query, and a query of the
\* kernel that has begun and not replied is the worker's.
Owned ==
    /\ \A c, d \in worker : c = d
    /\ \A c \in Clients : at[c] \in Underway /\ req[c].op \in OfKernel => c \in worker
    /\ \A c \in Clients : at[c] \in {"connecting", "reading"} => req[c].op \in OfKernel
    /\ \A c \in Clients : at[c] = "connecting" => session = "closed"

\* What the history of a request says of the devices.
Witnessed == \A c \in Clients : always[c] \subseteq present /\ present \subseteq ever[c]

\* ListDevices is a handler, and a rule is an argument of AddTarget only.
LEMMA HandlerFacts ==
    /\ "ListDevices" \in Ops
    /\ \A op \in Ops : "rule" \in Handlers[op] => op = "AddTarget"
BY DEF Ops, Handlers

\* Every handler that needs the kernel is one that awaits the worker.
LEMMA KernelOnTheWorker == \A op \in OfKernel : ThroughExecutor(op)
BY DEF OfKernel, ThroughExecutor, Ops, Handlers

LEMMA HeadIsClient ==
    ASSUME queue \in Seq(Clients), queue # <<>>
    PROVE  Head(queue) \in Clients /\ Tail(queue) \in Seq(Clients)
OBVIOUS

LEMMA AppendIsQueue ==
    ASSUME queue \in Seq(Clients), NEW c \in Clients
    PROVE  Append(queue, c) \in Seq(Clients)
OBVIOUS

\* Every reachable state has the types of the request path.
THEOREM RequestTypes == Spec => []TypeOK
<1>1. Init => TypeOK
  <2>1. NoRequest \in [op : Ops, device : Devices \cup {""}, fits : BOOLEAN]
    BY HandlerFacts DEF NoRequest
  <2>2. <<>> \in Seq(Clients)
    OBVIOUS
  <2>3. SUFFICES ASSUME Init PROVE TypeOK
    OBVIOUS
  <2>4. req \in [Clients -> [op : Ops, device : Devices \cup {""}, fits : BOOLEAN]]
    BY <2>1, <2>3 DEF Init
  <2>5. ever \in [Clients -> SUBSET Devices] /\ always \in [Clients -> SUBSET Devices]
    BY <2>3 DEF Init
  <2>6. status \in [Clients -> Statuses]
    BY <2>3 DEF Init, Statuses, Broken
  <2> QED
    BY <2>2, <2>3, <2>4, <2>5, <2>6 DEF Init, TypeOK
<1>2. ASSUME TypeOK, [Next]_vars
      PROVE  TypeOK'
  <2>1. CASE UNCHANGED vars
    BY <1>2, <2>1 DEF TypeOK, vars
  <2>2. ASSUME NEW c \in Clients, NEW op \in Ops, NEW d \in Devices, NEW fits \in BOOLEAN,
               Ask(c, op, d, fits)
        PROVE  TypeOK'
    BY <1>2, <2>2 DEF TypeOK, Ask
  <2>3. ASSUME NEW c \in Clients, Serve(c)
        PROVE  TypeOK'
    <3>1. CASE Handle(c)
      <4>1. Append(queue, c) \in Seq(Clients)
        BY <1>2, AppendIsQueue DEF TypeOK
      <4> QED
        BY <1>2, <3>1, <4>1 DEF TypeOK, Handle
    <3>2. CASE Program(c)
      BY <1>2, <3>2 DEF TypeOK, Program
    <3>3. CASE Connected(c)
      BY <1>2, <3>3 DEF TypeOK, Connected
    <3>4. CASE NotConnected(c)
      BY <1>2, <3>4 DEF TypeOK, NotConnected, Reply, Statuses
    <3>5. CASE Answer(c)
      <4>1. Outcome(req[c]) \in Statuses
        BY DEF Outcome, Statuses
      <4> QED
        BY <1>2, <3>5, <4>1 DEF TypeOK, Answer, Reply
    <3>6. CASE Fault(c)
      BY <1>2, <3>6 DEF TypeOK, Fault, Reply, Statuses
    <3>7. CASE Respond(c)
      BY <1>2, <3>7, HandlerFacts DEF TypeOK, Respond, NoRequest, Statuses
    <3> QED
      BY <2>3, <3>1, <3>2, <3>3, <3>4, <3>5, <3>6, <3>7 DEF Serve
  <2>4. CASE Take
    <3>1. Head(queue) \in Clients /\ Tail(queue) \in Seq(Clients)
      BY <1>2, <2>4, HeadIsClient DEF TypeOK, Take
    <3> QED
      BY <1>2, <2>4, <3>1 DEF TypeOK, Take
  <2>5. CASE Shutdown
    BY <1>2, <2>5 DEF TypeOK, Shutdown
  <2>6. ASSUME NEW S \in SUBSET Devices, Plug(S)
        PROVE  TypeOK'
    BY <1>2, <2>6 DEF TypeOK, Plug
  <2>7. ASSUME NEW code \in Broken, Crash(code)
        PROVE  TypeOK'
    <3>1. code \in Statuses
      BY DEF Statuses
    <3>2. <<>> \in Seq(Clients)
      OBVIOUS
    <3>3. at' \in [Clients -> {"idle", "sent", "queued", "called", "connecting", "reading",
                              "replied"}]
      BY <1>2, <2>7 DEF TypeOK, Crash
    <3>4. status' \in [Clients -> Statuses] /\ cutoff' \in [Clients -> BOOLEAN]
      BY <1>2, <2>7, <3>1 DEF TypeOK, Crash
    <3> QED
      BY <1>2, <2>7, <3>2, <3>3, <3>4 DEF TypeOK, Crash
  <2>8. CASE Restart
    BY <1>2, <2>8 DEF TypeOK, Restart
  <2>9. ASSUME NEW c \in Clients, NEW code \in Broken, Disconnect(c, code)
        PROVE  TypeOK'
    BY <1>2, <2>9 DEF TypeOK, Disconnect, Statuses
  <2> QED
    BY <1>2, <2>1, <2>2, <2>3, <2>4, <2>5, <2>6, <2>7, <2>8, <2>9 DEF Next
<1> QED
  BY <1>1, <1>2, PTL DEF Spec

\* One step keeps the ownership of the session.
LEMMA OwnedStep ==
    ASSUME TypeOK, Owned, [Next]_vars
    PROVE  Owned'
<1>1. CASE UNCHANGED vars
  BY <1>1 DEF Owned, vars
<1>2. ASSUME NEW c \in Clients, NEW op \in Ops, NEW d \in Devices, NEW fits \in BOOLEAN,
             Ask(c, op, d, fits)
      PROVE  Owned'
  BY <1>2 DEF TypeOK, Owned, Ask, Underway
<1>3. ASSUME NEW c \in Clients, Serve(c)
      PROVE  Owned'
  <2>1. CASE Handle(c)
    BY <2>1, KernelOnTheWorker DEF TypeOK, Owned, Handle, Underway
  <2>2. CASE Program(c)
    BY <2>2 DEF TypeOK, Owned, Program, Underway
  <2>3. CASE Connected(c)
    <3>1. \A d \in Clients : at[d] = "connecting" => d = c
      BY <2>3 DEF Owned, Connected, Underway
    <3>2. at'[c] = "reading" /\ \A d \in Clients \ {c} : at'[d] = at[d]
      BY <2>3 DEF TypeOK, Connected
    <3> QED
      BY <2>3, <3>1, <3>2 DEF Owned, Connected, Underway
  <2>4. ASSUME NEW code, Reply(c, code), UNCHANGED <<req, session>>
        PROVE  Owned'
    BY <2>4 DEF TypeOK, Owned, Reply, Underway
  <2>5. CASE Respond(c)
    <3>1. at'[c] = "idle" /\ \A d \in Clients \ {c} : at'[d] = at[d] /\ req'[d] = req[d]
      BY <2>5 DEF TypeOK, Respond
    <3> QED
      BY <2>5, <3>1 DEF Owned, Respond, Underway
  <2> QED
    BY <1>3, <2>1, <2>2, <2>3, <2>4, <2>5 DEF Serve, NotConnected, Answer, Fault
<1>4. CASE Take
  <2>1. Head(queue) \in Clients
    BY <1>4, HeadIsClient DEF TypeOK, Take
  <2> QED
    BY <1>4, <2>1 DEF TypeOK, Owned, Take, Underway
<1>5. CASE Shutdown
  BY <1>5 DEF Owned, Shutdown
<1>6. ASSUME NEW S \in SUBSET Devices, Plug(S)
      PROVE  Owned'
  BY <1>6 DEF Owned, Plug
<1>7. ASSUME NEW code \in Broken, Crash(code)
      PROVE  Owned'
  BY <1>7 DEF Owned, Crash, Underway, InServer
<1>8. CASE Restart
  BY <1>8 DEF Owned, Restart
<1>9. ASSUME NEW c \in Clients, NEW code \in Broken, Disconnect(c, code)
      PROVE  Owned'
  BY <1>9 DEF TypeOK, Owned, Disconnect, Underway
<1> QED
  BY <1>1, <1>2, <1>3, <1>4, <1>5, <1>6, <1>7, <1>8, <1>9 DEF Next

\* However many requests are in progress, never are two threads in the drgn session,
\* the event loop never is, and an open session is not connected again.
THEOREM KernelIsSerialised == Spec => []KernelSerialised
<1>1. Init => Owned
  BY DEF Init, Owned, Underway
<1>2. TypeOK /\ Owned /\ [Next]_vars => Owned'
  BY OwnedStep
<1>3. Owned => KernelSerialised
  BY DEF Owned, KernelSerialised, InKernel, Underway
<1> QED
  BY <1>1, <1>2, <1>3, RequestTypes, PTL DEF Spec

\* A true answer stays true while devices come and go.
LEMMA TruthLasts ==
    ASSUME NEW r, NEW code, NEW S, NEW ev, NEW al, NEW cut, Truthful(r, code, ev, al, cut)
    PROVE  Truthful(r, code, ev \cup S, al \cap S, cut)
BY DEF Truthful

\* It stays true when daemon or connection fail later, and the codes of that failure
\* are true of every request.
LEMMA TruthSurvives ==
    ASSUME NEW r, NEW code, NEW ev, NEW al, NEW cut, Truthful(r, code, ev, al, cut)
    PROVE  Truthful(r, code, ev, al, TRUE)
BY DEF Truthful

LEMMA FailureTold ==
    ASSUME NEW r, NEW code \in Broken, NEW ev, NEW al
    PROVE  Truthful(r, code, ev, al, TRUE)
<1>1. HttpStatus(code) = 502
  BY DEF HttpStatus, Broken
<1> QED
  BY <1>1 DEF Truthful

\* Of the devices that are there now, the history knows that they were there.
LEMMA TrueAnswer ==
    ASSUME NEW r, r.op \in Ops, NEW code \in Statuses, NEW ev, NEW al, NEW cut,
           al \subseteq present, present \subseteq ev,
           code = Outcome(r) \/ (code = "UNKNOWN" /\ r.op \in OfKernel)
    PROVE  Truthful(r, code, ev, al, cut)
<1>1. /\ HttpStatus(code) = 404 <=> code = "NOT_FOUND"
      /\ HttpStatus(code) = 200 <=> code = "OK"
      /\ HttpStatus(code) = 502 <=> code \in {"UNKNOWN", "INVALID_ARGUMENT"} \cup Broken
  BY DEF HttpStatus, Statuses, Broken
<1> QED
  BY <1>1, HandlerFacts DEF Truthful, Outcome, Broken

\* One step keeps the history right and the answers true.
LEMMA TruthfulStep ==
    ASSUME TypeOK, Owned, Witnessed, NotFoundIsTrue, [Next]_vars
    PROVE  Witnessed' /\ NotFoundIsTrue'
<1> USE DEF TypeOK, Witnessed, NotFoundIsTrue
<1>1. CASE UNCHANGED vars
  BY <1>1 DEF vars
<1>2. ASSUME NEW c \in Clients, NEW op \in Ops, NEW d \in Devices, NEW fits \in BOOLEAN,
             Ask(c, op, d, fits)
      PROVE  Witnessed' /\ NotFoundIsTrue'
  BY <1>2 DEF Ask
<1>3. ASSUME NEW c \in Clients, Serve(c)
      PROVE  Witnessed' /\ NotFoundIsTrue'
  <2>1. CASE Handle(c)
    BY <2>1 DEF Handle
  <2>2. CASE Program(c)
    BY <2>2 DEF Program
  <2>3. CASE Connected(c)
    BY <2>3 DEF Connected
  <2>4. ASSUME NEW code \in Statuses, Reply(c, code), UNCHANGED <<req, present, ever, always, cutoff>>,
               code = Outcome(req[c]) \/ (code = "UNKNOWN" /\ req[c].op \in OfKernel)
        PROVE  Witnessed' /\ NotFoundIsTrue'
    <3>1. Truthful(req[c], code, ever[c], always[c], cutoff[c])
      BY <2>4, TrueAnswer
    <3> QED
      BY <2>4, <3>1 DEF Reply
  <2>5. Outcome(req[c]) \in Statuses /\ "UNKNOWN" \in Statuses
    BY DEF Outcome, Statuses
  <2>6. CASE NotConnected(c)
    BY <2>4, <2>5, <2>6 DEF NotConnected, Owned
  <2>7. CASE Answer(c)
    BY <2>4, <2>5, <2>7 DEF Answer
  <2>8. CASE Fault(c)
    BY <2>4, <2>5, <2>8 DEF Fault, Owned
  <2>9. CASE Respond(c)
    BY <2>9 DEF Respond
  <2> QED
    BY <1>3, <2>1, <2>2, <2>3, <2>6, <2>7, <2>8, <2>9 DEF Serve
<1>4. CASE Take
  <2>1. Head(queue) \in Clients
    BY <1>4, HeadIsClient DEF Take
  <2> QED
    BY <1>4, <2>1 DEF Take
<1>5. CASE Shutdown
  BY <1>5 DEF Shutdown
<1>6. ASSUME NEW S \in SUBSET Devices, Plug(S)
      PROVE  Witnessed' /\ NotFoundIsTrue'
  BY <1>6, TruthLasts DEF Plug
<1>7. ASSUME NEW code \in Broken, Crash(code)
      PROVE  Witnessed' /\ NotFoundIsTrue'
  <2>1. ASSUME NEW c \in Clients, at'[c] = "replied"
        PROVE  Truthful(req[c], status'[c], ever[c], always[c], TRUE)
    <3>1. CASE at[c] \in InServer
      <4>1. status'[c] = code
        BY <1>7, <3>1 DEF Crash
      <4> QED
        BY <4>1, FailureTold
    <3>2. CASE at[c] \notin InServer
      <4>1. status'[c] = status[c] /\ at[c] = "replied"
        BY <1>7, <2>1, <3>2 DEF Crash
      <4> QED
        BY <4>1, TruthSurvives
    <3> QED
      BY <3>1, <3>2
  <2> QED
    BY <1>7, <2>1 DEF Crash
<1>8. CASE Restart
  BY <1>8 DEF Restart
<1>9. ASSUME NEW c \in Clients, NEW code \in Broken, Disconnect(c, code)
      PROVE  Witnessed' /\ NotFoundIsTrue'
  <2>1. Truthful(req[c], code, ever[c], always[c], TRUE)
    BY FailureTold
  <2> QED
    BY <1>9, <2>1 DEF Disconnect
<1> QED
  BY <1>1, <1>2, <1>3, <1>4, <1>5, <1>6, <1>7, <1>8, <1>9, ZenonT(60) DEF Next

\* For every interleaving of requests with devices that come and go, with deaths and
\* restarts of the daemon and with broken connections, 404 is told only of what was
\* away, 200 of what was there, and 502 only where the kernel, the rule, the daemon or
\* the connection failed.
THEOREM NotFoundTold == Spec => []NotFoundIsTrue
<1>1. Init => Owned /\ Witnessed /\ NotFoundIsTrue
  BY DEF Init, Owned, Witnessed, NotFoundIsTrue, Underway
<1>2. TypeOK /\ Owned /\ Witnessed /\ NotFoundIsTrue /\ [Next]_vars
        => Owned' /\ Witnessed' /\ NotFoundIsTrue'
  BY OwnedStep, TruthfulStep
<1> QED
  BY <1>1, <1>2, RequestTypes, PTL DEF Spec

-----------------------------------------------------------------------------
(* Recursion over the numbers up to n.                                     *)

(* A set of numbers that is not empty has a least one. *)
LEMMA Least ==
    ASSUME NEW B \in SUBSET Nat, B # {}
    PROVE  \E m \in B : \A k \in B : m <= k
<1> DEFINE R == OpToRel(<, Nat)
<1>1. IsWellFoundedOn(R, Nat)
  BY NatLessThanWellFounded
<1>2. \A i, j \in Nat : i < j => <<i, j>> \in R
  BY DEF OpToRel
<1> HIDE DEF R
<1>3. PICK m \in B : \A k \in B : ~(<<k, m>> \in R)
  BY <1>1, WFMin
<1>4. \A k \in B : ~(k < m) /\ k \in Nat /\ m \in Nat
  BY <1>2, <1>3
<1> QED
  BY <1>4

(* g is defined step by step: from base on, with step, values in V. *)
Follows(g, n, V, base, step) ==
    /\ g \in [0 .. n -> V]
    /\ g[0] = base
    /\ \A k \in 1 .. n : g[k] = step[g[k - 1]][k]

(* Such a function exists. *)
LEMMA Recursion ==
    ASSUME NEW n \in Nat, NEW V, NEW base \in V, NEW step \in [V -> [1 .. n -> V]]
    PROVE  \E g : Follows(g, n, V, base, step)
<1> DEFINE Good(m) == \E g \in [0 .. m -> V] :
                         g[0] = base /\ \A k \in 1 .. m : g[k] = step[g[k - 1]][k]
           B == {m \in 0 .. n : ~Good(m)}
<1> SUFFICES ASSUME B # {} PROVE FALSE
  <2>1. n \in 0 .. n
    OBVIOUS
  <2> HIDE DEF Good
  <2>2. B = {} => Good(n)
    BY <2>1
  <2> QED
    BY <2>2 DEF Good, Follows
<1>1. PICK m \in B : \A k \in B : m <= k
  <2>1. B \in SUBSET Nat
    OBVIOUS
  <2> HIDE DEF B
  <2> QED
    BY <2>1, Least
<1>2. m # 0
  <2> SUFFICES Good(0)
    OBVIOUS
  <2> WITNESS [k \in 0 .. 0 |-> base] \in [0 .. 0 -> V]
  <2> QED
    OBVIOUS
<1>3. m \in 1 .. n /\ m - 1 \in 0 .. n /\ m - 1 \notin B
  <2>1. m \in 1 .. n /\ m - 1 \in 0 .. n /\ ~(m <= m - 1)
    BY <1>2
  <2> HIDE DEF B
  <2> QED
    BY <1>1, <2>1
<1>4. PICK g \in [0 .. m - 1 -> V] :
        g[0] = base /\ \A k \in 1 .. m - 1 : g[k] = step[g[k - 1]][k]
  BY <1>3
<1> DEFINE h == [k \in 0 .. m |-> IF k = m THEN step[g[m - 1]][m] ELSE g[k]]
<1>5. step[g[m - 1]][m] \in V
  <2>1. g[m - 1] \in V
    BY <1>3, <1>4
  <2>2. step[g[m - 1]] \in [1 .. n -> V]
    BY <2>1
  <2> QED
    BY <1>3, <2>2
<1>6. h \in [0 .. m -> V]
  BY <1>3, <1>4, <1>5
<1>7. h[0] = base
  BY <1>3, <1>4
<1>8. ASSUME NEW k \in 1 .. m PROVE h[k] = step[h[k - 1]][k]
  <2>1. k - 1 \in 0 .. m /\ k - 1 # m /\ h[k - 1] = g[k - 1]
    BY <1>3
  <2>2. CASE k = m
    BY <2>1, <2>2
  <2>3. CASE k # m
    <3>1. k \in 1 .. m - 1 /\ h[k] = g[k]
      BY <1>3, <2>3
    <3> QED
      BY <1>4, <2>1, <3>1
  <2> QED
    BY <2>2, <2>3
<1>9. Good(m)
  <2> HIDE DEF h
  <2> QED
    BY <1>6, <1>7, <1>8
<1> QED
  BY <1>9

(* Induction over the numbers up to n. *)
LEMMA Inductive ==
    ASSUME NEW n \in Nat, NEW I, 0 \in I, \A k \in 1 .. n : k - 1 \in I => k \in I
    PROVE  \A k \in 0 .. n : k \in I
<1> DEFINE B == {k \in 0 .. n : k \notin I}
<1> SUFFICES ASSUME B # {} PROVE FALSE
  OBVIOUS
<1>1. PICK m \in B : \A k \in B : m <= k
  <2>1. B \in SUBSET Nat
    OBVIOUS
  <2> HIDE DEF B
  <2> QED
    BY <2>1, Least
<1>2. m \in 0 .. n /\ m \notin I
  OBVIOUS
<1>3. m \in 1 .. n /\ m - 1 \in 0 .. n /\ ~(m <= m - 1)
  BY <1>2
<1>4. m - 1 \notin I
  BY <1>2, <1>3
<1> QED
  BY <1>1, <1>3, <1>4

-----------------------------------------------------------------------------
(* The pointer tree.                                                       *)

AtMostOneOf(objects, heap) ==
    objects \in SUBSET DOMAIN heap /\ \A x, y \in objects : x = y

(* A name leads from an object to one other at most. *)
LEMMA StepTyped ==
    ASSUME NEW heap, HeapOK(heap), NEW o \in DOMAIN heap, NEW name
    PROVE  AtMostOneOf(Step(heap, o, name), heap)
<1> DEFINE x == heap[o]
           base == Base(heap, o)
           pool == IF x.kind = "array" THEN x.parts
                   ELSE IF heap[base].kind # "struct" \/ (x.kind = "pointer" /\ x.fault) THEN <<>>
                   ELSE heap[base].parts
           found == {j \in DOMAIN pool : pool[j][1] = name /\ name # NoName}
<1>1. base \in DOMAIN heap
  <2>1. CASE x.kind = "pointer" /\ ~IsNull(heap, o)
    <3>1. x.parts \in Seq((Names \cup {NoName}) \X DOMAIN heap) /\ x.parts # <<>>
      BY <2>1 DEF HeapOK, IsNull
    <3>2. x.parts[1] \in (Names \cup {NoName}) \X DOMAIN heap
      BY <3>1
    <3> QED
      BY <2>1, <3>2 DEF Target, Base
  <2> QED
    BY <2>1 DEF Base
<1>2. CASE pool = <<>>
  <2>1. found = {}
    BY <1>2
  <2> QED
    BY <2>1 DEF Step, AtMostOneOf
<1>3. ASSUME NEW p \in DOMAIN heap, pool = heap[p].parts
      PROVE  AtMostOneOf(Step(heap, o, name), heap)
  <2>1. pool \in Seq((Names \cup {NoName}) \X DOMAIN heap)
    BY <1>3 DEF HeapOK
  <2>2. \A i, j \in DOMAIN pool : pool[i][1] = pool[j][1] /\ pool[i][1] # NoName => i = j
    BY <1>3 DEF HeapOK
  <2>3. Step(heap, o, name) = {pool[i][2] : i \in found}
    BY DEF Step
  <2> HIDE DEF pool
  <2>4. \A i \in DOMAIN pool : pool[i][2] \in DOMAIN heap
    BY <2>1
  <2> QED
    BY <2>2, <2>3, <2>4 DEF AtMostOneOf
<1> QED
  BY <1>1, <1>2, <1>3

(* The recursive function with which a path is resolved. *)
Reaches(r, heap, path) ==
    r = [k \in 0 .. Len(path) |->
           IF k = 0 THEN {1} ELSE UNION {Step(heap, o, path[k]) : o \in r[k - 1]}]

LEMMA ReachesExists ==
    ASSUME NEW heap, HeapOK(heap), NEW path, Len(path) \in Nat
    PROVE  \E r : Reaches(r, heap, path)
<1> DEFINE n == Len(path)
           V == SUBSET DOMAIN heap
           Reached(S, k) == UNION {Step(heap, o, path[k]) : o \in S}
           step == [v \in V |-> [k \in 1 .. n |-> Reached(v, k)]]
<1>0. n \in Nat
  OBVIOUS
<1>1. \A v \in V, k \in 1 .. n : Reached(v, k) \in V
  BY StepTyped DEF AtMostOneOf
<1>2. step \in [V -> [1 .. n -> V]] /\ {1} \in V
  <2> HIDE DEF Reached, V
  <2>1. \A v \in V : [k \in 1 .. n |-> Reached(v, k)] \in [1 .. n -> V]
    BY <1>1
  <2>2. {1} \in V
    BY DEF HeapOK, V
  <2> QED
    BY <2>1, <2>2
<1>3. PICK g \in [0 .. n -> V] :
        g[0] = {1} /\ \A k \in 1 .. n : g[k] = step[g[k - 1]][k]
  <2> DEFINE base == {1}
  <2>1. base \in V /\ step \in [V -> [1 .. n -> V]]
    BY <1>2
  <2> HIDE DEF step, V, n, base
  <2>2. \E g : Follows(g, n, V, base, step)
    BY <1>0, <2>1, Recursion
  <2> QED
    BY <2>2 DEF base, Follows
<1>4. \A k \in 1 .. n : g[k] = Reached(g[k - 1], k)
  <2> TAKE k \in 1 .. n
  <2>1. g[k - 1] \in V
    BY <1>3
  <2> HIDE DEF Reached, V
  <2>2. step[g[k - 1]][k] = Reached(g[k - 1], k)
    BY <2>1
  <2> QED
    BY <1>3, <2>2
<1>5. g = [k \in 0 .. n |-> IF k = 0 THEN {1} ELSE Reached(g[k - 1], k)]
  <2> HIDE DEF Reached, V
  <2> QED
    BY <1>3, <1>4
<1> QED
  BY <1>5 DEF Reaches

(* A path leads to one object at most, and one more name leads on from it. *)
LEMMA PathLeads ==
    ASSUME NEW heap, HeapOK(heap), NEW S, NEW path \in Seq(S), NEW name \in S
    PROVE  LET found == ResolvePath(heap, 1, path)
           IN /\ AtMostOneOf(found, heap)
              /\ ResolvePath(heap, 1, Append(path, name)) = UNION {Step(heap, o, name) : o \in found}
<1> DEFINE n == Len(path)
           more == Append(path, name)
           R(p) == CHOOSE r : Reaches(r, heap, p)
           r == R(path)
           s == R(more)
<1>1. \A p : ResolvePath(heap, 1, p) = R(p)[Len(p)]
  BY DEF ResolvePath, Reaches
<1>2. n \in Nat /\ Len(more) = n + 1 /\ more[n + 1] = name /\ \A k \in 1 .. n : more[k] = path[k]
  OBVIOUS
<1> HIDE DEF n, more
<1>3. Reaches(r, heap, path) /\ Reaches(s, heap, more)
  BY <1>2, ReachesExists DEF n
<1> HIDE DEF R, r, s
<1>4. /\ r[0] = {1} /\ s[0] = {1}
      /\ \A k \in 1 .. n : r[k] = UNION {Step(heap, o, path[k]) : o \in r[k - 1]}
      /\ \A k \in 1 .. n + 1 : s[k] = UNION {Step(heap, o, more[k]) : o \in s[k - 1]}
  <2>1. /\ r[0] = {1}
        /\ \A k \in 1 .. n : r[k] = UNION {Step(heap, o, path[k]) : o \in r[k - 1]}
    <3>1. r = [k \in 0 .. n |->
                 IF k = 0 THEN {1} ELSE UNION {Step(heap, o, path[k]) : o \in r[k - 1]}]
      BY <1>3 DEF Reaches, n
    <3>2. 0 \in 0 .. n /\ \A k \in 1 .. n : k \in 0 .. n /\ k # 0
      BY <1>2
    <3> QED
      BY <3>1, <3>2, Zenon
  <2>2. /\ s[0] = {1}
        /\ \A k \in 1 .. n + 1 : s[k] = UNION {Step(heap, o, more[k]) : o \in s[k - 1]}
    <3>1. s = [k \in 0 .. n + 1 |->
                 IF k = 0 THEN {1} ELSE UNION {Step(heap, o, more[k]) : o \in s[k - 1]}]
      BY <1>2, <1>3 DEF Reaches
    <3>2. 0 \in 0 .. n + 1 /\ \A k \in 1 .. n + 1 : k \in 0 .. n + 1 /\ k # 0
      BY <1>2
    <3> QED
      BY <3>1, <3>2, Zenon
  <2> QED
    BY <2>1, <2>2
<1> DEFINE I == {k \in 0 .. n : r[k] = s[k] /\ AtMostOneOf(r[k], heap)}
<1>5. 0 \in I
  <2>1. AtMostOneOf({1}, heap)
    BY DEF AtMostOneOf, HeapOK
  <2>2. r[0] = {1} /\ s[0] = {1}
    BY <1>4
  <2>3. 0 \in 0 .. n
    BY <1>2
  <2> QED
    BY <2>1, <2>2, <2>3
<1>6. ASSUME NEW k \in 1 .. n, k - 1 \in I PROVE k \in I
  <2>1. r[k - 1] = s[k - 1] /\ AtMostOneOf(r[k - 1], heap)
    BY <1>6
  <2>2. r[k] = s[k]
    <3>1. k \in 1 .. n + 1 /\ more[k] = path[k]
      BY <1>2
    <3>2. r[k] = UNION {Step(heap, o, path[k]) : o \in r[k - 1]}
      BY <1>4
    <3>3. s[k] = UNION {Step(heap, o, more[k]) : o \in s[k - 1]}
      BY <1>4, <3>1
    <3> QED
      BY <2>1, <3>1, <3>2, <3>3
  <2>3. AtMostOneOf(r[k], heap)
    BY <1>4, <2>1, StepTyped DEF AtMostOneOf
  <2> QED
    BY <2>2, <2>3
<1>7. r[n] = s[n] /\ AtMostOneOf(r[n], heap)
  <2>1. n \in I
    <3> HIDE DEF I
    <3>1. \A k \in 0 .. n : k \in I
      BY <1>2, <1>5, <1>6, Inductive
    <3> QED
      BY <1>2, <3>1
  <2> QED
    BY <2>1
<1>8. s[n + 1] = UNION {Step(heap, o, name) : o \in s[n]}
  BY <1>2, <1>4
<1> QED
  BY <1>1, <1>2, <1>7, <1>8 DEF r, s, n, more

LEMMA LessOf ==
    ASSUME NEW a \in Int, NEW b \in Int
    PROVE  Min({a, b}) = IF a <= b THEN a ELSE b
BY DEF Min

RowNames == Names \cup {NoName, Star}

(* A member is found under its name, and only it. *)
LEMMA PartFound ==
    ASSUME NEW heap, HeapOK(heap), NEW p \in DOMAIN heap, NEW i \in DOMAIN heap[p].parts,
           heap[p].parts[i][1] # NoName
    PROVE  LET parts == heap[p].parts IN
           /\ parts[i][1] \in RowNames /\ parts[i][2] \in DOMAIN heap
           /\ {parts[j][2] : j \in {l \in DOMAIN parts : parts[l][1] = parts[i][1]
                                                          /\ parts[i][1] # NoName}}
                = {parts[i][2]}
<1> DEFINE parts == heap[p].parts
<1>1. parts \in Seq((Names \cup {NoName}) \X DOMAIN heap)
  BY DEF HeapOK
<1>2. \A l \in DOMAIN parts : parts[l][1] = parts[i][1] => l = i
  BY DEF HeapOK
<1> HIDE DEF parts
<1>3. parts[i] \in (Names \cup {NoName}) \X DOMAIN heap
  BY <1>1 DEF parts
<1>4. parts[i][1] \in Names \cup {NoName} /\ parts[i][2] \in DOMAIN heap
  BY <1>3
<1>5. {l \in DOMAIN parts : parts[l][1] = parts[i][1] /\ parts[i][1] # NoName} = {i}
  BY <1>2 DEF parts
<1> QED
  BY <1>4, <1>5 DEF parts, RowNames

(* A name of a member is not "*". *)
LEMMA PartNamed ==
    ASSUME NEW heap, HeapOK(heap), NEW p \in DOMAIN heap, NEW i \in DOMAIN heap[p].parts,
           heap[p].parts[i][1] # NoName
    PROVE  heap[p].parts[i][1] # Star
<1>1. heap[p].parts \in Seq((Names \cup {NoName}) \X DOMAIN heap)
  BY DEF HeapOK
<1>2. heap[p].parts[i] \in (Names \cup {NoName}) \X DOMAIN heap
  BY <1>1
<1> QED
  BY <1>2, StarAssumption

(* What is listed under an object is found from it by its name. *)
LEMMA ChildFound ==
    ASSUME NEW heap, HeapOK(heap), NEW o \in DOMAIN heap, Describe(heap, o).expandable,
           NEW kid \in ChildObjects(heap, o)
    PROVE  /\ kid[1] \in RowNames
           /\ kid[1] # Star => Step(heap, o, kid[1]) = {kid[2]} /\ kid[2] \in DOMAIN heap
           /\ kid[1] = Star => /\ Step(heap, o, kid[1]) = {}
                              /\ heap[o].kind # "array" /\ heap[Base(heap, o)].kind # "struct"
<1> DEFINE x == heap[o]
           t == Target(heap, o)
<1>1. x.kind \in {"scalar", "struct", "array", "pointer"}
  BY DEF HeapOK, Bodiless, Describe
<1>2. CASE x.kind = "scalar"
  BY <1>2 DEF ChildObjects
<1>3. CASE x.kind = "struct"
  <2>1. PICK i \in DOMAIN x.parts : x.parts[i][1] # NoName /\ kid = x.parts[i]
    BY <1>3 DEF ChildObjects, Named
  <2>2. Step(heap, o, kid[1])
          = {x.parts[j][2] : j \in {l \in DOMAIN x.parts : x.parts[l][1] = kid[1] /\ kid[1] # NoName}}
    BY <1>3 DEF Step, Base
  <2>3. kid[1] # Star
    BY <2>1, PartNamed
  <2> QED
    BY <2>1, <2>2, <2>3, PartFound
<1>4. CASE x.kind = "array"
  <2>1. kid \in {x.parts[i] : i \in 1 .. Min({Len(x.parts), MAX_ARRAY_CHILDREN})}
    BY <1>4 DEF ChildObjects
  <2>2. x.parts \in Seq((Names \cup {NoName}) \X DOMAIN heap)
    BY DEF HeapOK
  <2>3. Len(x.parts) \in Nat /\ DOMAIN x.parts = 1 .. Len(x.parts)
    BY <2>2
  <2>4. 1 .. Min({Len(x.parts), MAX_ARRAY_CHILDREN}) \subseteq DOMAIN x.parts
    BY <2>3, LessOf, DepthAssumption
  <2>5. PICK i \in DOMAIN x.parts : kid = x.parts[i]
    BY <2>1, <2>4
  <2>6. x.parts[i][1] # NoName
    BY <1>4 DEF HeapOK
  <2>7. Step(heap, o, kid[1])
          = {x.parts[j][2] : j \in {l \in DOMAIN x.parts : x.parts[l][1] = kid[1] /\ kid[1] # NoName}}
    BY <1>4 DEF Step
  <2>8. /\ x.parts[i][1] \in RowNames /\ x.parts[i][2] \in DOMAIN heap
        /\ {x.parts[j][2] : j \in {l \in DOMAIN x.parts : x.parts[l][1] = x.parts[i][1]
                                                           /\ x.parts[i][1] # NoName}}
             = {x.parts[i][2]}
    BY <2>6, PartFound
  <2>9. kid[1] # Star
    BY <2>5, <2>6, PartNamed
  <2> QED
    BY <2>5, <2>7, <2>8, <2>9
<1>5. CASE x.kind = "pointer"
  <2>1. ~IsNull(heap, o)
    BY <1>5 DEF ChildObjects
  <2>5. ~x.fault
    BY <1>5 DEF Describe
  <2>2. t \in DOMAIN heap
    <3>1. x.parts \in Seq((Names \cup {NoName}) \X DOMAIN heap) /\ x.parts # <<>>
      BY <2>1 DEF HeapOK, IsNull
    <3>2. x.parts[1] \in (Names \cup {NoName}) \X DOMAIN heap
      BY <3>1
    <3> QED
      BY <3>2 DEF Target
  <2>3. CASE heap[t].kind = "struct"
    <3>1. kid \in Named(heap[t].parts)
      BY <1>5, <2>1, <2>3 DEF ChildObjects
    <3> HIDE DEF t
    <3>2. PICK i \in DOMAIN heap[t].parts : heap[t].parts[i][1] # NoName /\ kid = heap[t].parts[i]
      BY <3>1 DEF Named
    <3>3. Step(heap, o, kid[1])
            = {heap[t].parts[j][2] : j \in {l \in DOMAIN heap[t].parts :
                 heap[t].parts[l][1] = kid[1] /\ kid[1] # NoName}}
      BY <1>5, <2>1, <2>3, <2>5 DEF Step, Base, t
    <3>4. kid[1] # Star
      BY <2>2, <3>2, PartNamed
    <3> QED
      BY <2>2, <3>2, <3>3, <3>4, PartFound
  <2>4. CASE heap[t].kind # "struct"
    <3>1. kid = <<Star, t>>
      BY <1>5, <2>1, <2>4 DEF ChildObjects
    <3>2. Base(heap, o) = t
      BY <1>5, <2>1 DEF Base
    <3> HIDE DEF t
    <3>3. Step(heap, o, kid[1]) = {}
      <4>1. Step(heap, o, kid[1])
              = {(<<>>)[i][2] : i \in {j \in DOMAIN <<>> : (<<>>)[j][1] = kid[1] /\ kid[1] # NoName}}
        BY <1>5, <2>4, <3>2 DEF Step
      <4> QED
        BY <4>1
    <3> QED
      BY <1>5, <2>4, <3>1, <3>2, <3>3 DEF RowNames
  <2> QED
    BY <2>3, <2>4
<1> QED
  BY <1>1, <1>2, <1>3, <1>4, <1>5

(* A path without its last name. *)
LEMMA Shortened ==
    ASSUME NEW S, NEW path \in Seq(S), NEW name \in S
    PROVE  SubSeq(Append(path, name), 1, Len(path)) = path
OBVIOUS

(* The row of a child leads to the child, or is one of those that raise. *)
LEMMA RowLeads ==
    ASSUME NEW heap, HeapOK(heap), NEW path \in Seq(RowNames),
           NEW row \in Expand(heap, 1, path).children
    PROVE  LET there == Expand(heap, 1, Append(path, row.name))
               shut == \/ row.name = Star
                       \/ /\ row.node.expandable /\ Len(path) + 1 < MAX_DEPTH
                          /\ ListingRaises(heap, row.node.object)
           IN /\ row.name \in RowNames
              /\ shut => there.outcome = "raises"
              /\ ~shut => there.outcome = "ok" /\ there.node = row.node
<1> DEFINE found == ResolvePath(heap, 1, path)
           o == CHOOSE f \in found : TRUE
           more == Append(path, row.name)
           there == Expand(heap, 1, more)
           listed == Describe(heap, o).expandable /\ Len(path) < MAX_DEPTH
<1>1. /\ ~(Len(path) > MAX_DEPTH) /\ found # {} /\ listed
      /\ \E kid \in ChildObjects(heap, o) :
           row = [name |-> kid[1], node |-> Describe(heap, kid[2])]
  <2> HIDE DEF found
  <2>1. ~(Len(path) > MAX_DEPTH \/ found = {})
    BY DEF Expand, found
  <2>2. ~(listed /\ ListingRaises(heap, o))
    BY <2>1 DEF Expand, found
  <2>3. Expand(heap, 1, path).children =
          IF listed
          THEN {[name |-> kid[1], node |-> Describe(heap, kid[2])] : kid \in ChildObjects(heap, o)}
          ELSE {}
    BY <2>1, <2>2 DEF Expand, found
  <2> HIDE DEF o
  <2> QED
    BY <2>1, <2>3
<1>2. PICK kid \in ChildObjects(heap, o) : row = [name |-> kid[1], node |-> Describe(heap, kid[2])]
  BY <1>1
<1>3. row.name = kid[1] /\ row.node = Describe(heap, kid[2])
  BY <1>2
<1> HIDE DEF found
<1>4. o \in found
  BY <1>1
<1>5. AtMostOneOf(found, heap)
  <2>1. Star \in RowNames
    BY DEF RowNames
  <2> QED
    BY <2>1, PathLeads DEF found
<1>6. o \in DOMAIN heap /\ found = {o}
  BY <1>4, <1>5 DEF AtMostOneOf
<1>7. /\ kid[1] \in RowNames
      /\ kid[1] # Star => Step(heap, o, kid[1]) = {kid[2]} /\ kid[2] \in DOMAIN heap
      /\ kid[1] = Star => /\ Step(heap, o, kid[1]) = {}
                         /\ heap[o].kind # "array" /\ heap[Base(heap, o)].kind # "struct"
  <2>1. Describe(heap, o).expandable
    BY <1>1
  <2> HIDE DEF o
  <2> QED
    BY <1>6, <2>1, ChildFound
<1> HIDE DEF o
<1>8. Len(path) \in Nat /\ Len(more) = Len(path) + 1 /\ ~(Len(more) > MAX_DEPTH)
  <2>1. Len(more) = Len(path) + 1 /\ Len(path) \in Nat
    BY <1>3, <1>7
  <2> QED
    BY <1>1, <2>1, DepthAssumption
<1>9. ResolvePath(heap, 1, more) = Step(heap, o, row.name)
  <2>1. ResolvePath(heap, 1, more) = UNION {Step(heap, p, row.name) : p \in found}
    BY <1>3, <1>7, PathLeads DEF found
  <2>2. {Step(heap, p, row.name) : p \in found} = {Step(heap, o, row.name)}
    BY <1>6
  <2> QED
    BY <2>1, <2>2, Zenon
<1>10. ASSUME row.name = Star
       PROVE  there.outcome = "raises"
  <2>1. ResolvePath(heap, 1, more) = {}
    BY <1>3, <1>7, <1>9, <1>10
  <2>2. SubSeq(more, 1, Len(more) - 1) = path /\ Len(more) \in DOMAIN more
    <3>1. SubSeq(more, 1, Len(path)) = path
      BY <1>3, <1>7, Shortened
    <3>2. more \in Seq(RowNames)
      BY <1>3, <1>7
    <3> QED
      BY <1>8, <3>1, <3>2
  <2>3. o \in ResolvePath(heap, 1, SubSeq(more, 1, Len(more) - 1))
    BY <1>6, <2>2 DEF found
  <2> HIDE DEF more
  <2>4. ResolveRaises(heap, 1, more)
    BY <1>3, <1>7, <1>10, <2>2, <2>3 DEF ResolveRaises
  <2> QED
    BY <1>8, <2>1, <2>4 DEF Expand
<1>11. ASSUME row.name # Star
       PROVE  there = LET node == Describe(heap, kid[2])
                          below == node.expandable /\ Len(more) < MAX_DEPTH
                      IN IF below /\ ListingRaises(heap, kid[2])
                         THEN [outcome |-> "raises", node |-> NoNode, children |-> {}]
                         ELSE [outcome |-> "ok", node |-> node,
                               children |-> IF below
                                  THEN {[name |-> k[1], node |-> Describe(heap, k[2])] : k \in ChildObjects(heap, kid[2])}
                                  ELSE {}]
  <2>1. ResolvePath(heap, 1, more) = {kid[2]}
    BY <1>3, <1>7, <1>9, <1>11
  <2>2. (CHOOSE f \in {kid[2]} : TRUE) = kid[2]
    OBVIOUS
  <2> HIDE DEF more
  <2> QED
    BY <1>8, <2>1, <2>2 DEF Expand
<1>12. row.node.object = kid[2]
  BY <1>3 DEF Describe
<1>13. ASSUME row.name # Star, row.node.expandable, Len(path) + 1 < MAX_DEPTH,
              ListingRaises(heap, row.node.object)
       PROVE  there.outcome = "raises"
  <2> HIDE DEF more, there
  <2> QED
    BY <1>3, <1>8, <1>11, <1>12, <1>13
<1>14. ASSUME row.name # Star,
              ~(row.node.expandable /\ Len(path) + 1 < MAX_DEPTH /\ ListingRaises(heap, row.node.object))
       PROVE  there.outcome = "ok" /\ there.node = row.node
  <2> HIDE DEF more, there
  <2> QED
    BY <1>3, <1>8, <1>11, <1>12, <1>14
<1> QED
  BY <1>3, <1>7, <1>10, <1>13, <1>14

-----------------------------------------------------------------------------
(* The dump of a command's data: the pieces of a transfer's pages.         *)

(* The least of three numbers. *)
LEMMA LeastOf ==
    ASSUME NEW a \in Int, NEW b \in Int, NEW c \in Int
    PROVE  /\ Min({a, b, c}) \in Int
           /\ Min({a, b, c}) <= a /\ Min({a, b, c}) <= b /\ Min({a, b, c}) <= c
           /\ \A y \in Int : y <= a /\ y <= b /\ y <= c => y <= Min({a, b, c})
<1>1. \E m \in {a, b, c} : \A y \in {a, b, c} : m <= y
  <2>1. CASE a <= b /\ a <= c
    BY <2>1
  <2>2. CASE b <= a /\ b <= c
    BY <2>2
  <2>3. CASE c <= a /\ c <= b
    BY <2>3
  <2> QED
    BY <2>1, <2>2, <2>3
<1> DEFINE T == {a, b, c}
<1> HIDE DEF T
<1>2. Min(T) \in T /\ \A y \in T : Min(T) <= y
  BY <1>1 DEF Min, T
<1> QED
  BY <1>2 DEF T

(* The greater of zero and a number. *)
LEMMA AtLeastZero ==
    ASSUME NEW a \in Int
    PROVE  LET m == Max({0, a}) IN m \in Nat /\ m >= a /\ (m = 0 \/ m = a)
<1> DEFINE T == {0, a}
<1>1. \E m \in T : \A y \in T : m >= y
  OBVIOUS
<1> HIDE DEF T
<1>2. Max(T) \in T /\ \A y \in T : Max(T) >= y
  BY <1>1 DEF Max
<1> QED
  BY <1>2 DEF T

(* Numbers that leave none out are the ones up to the greatest of them. *)
LEMMA UpToGreatest ==
    ASSUME NEW n \in Nat, NEW U \in SUBSET (1 .. n),
           \A k \in U : \A i \in 1 .. k : i \in U
    PROVE  Max({0} \cup U) \in Nat /\ 1 .. Max({0} \cup U) = U
<1> DEFINE T == {0} \cup U
           B == {n - k : k \in T}
<1>1. T \subseteq 0 .. n /\ 0 \in T
  OBVIOUS
<1>2. PICK m \in T : \A k \in T : k <= m
  <2>1. B \in SUBSET Nat /\ B # {}
    <3> HIDE DEF T
    <3>1. \A k \in T : n - k \in Nat
      BY <1>1
    <3> QED
      BY <1>1, <3>1
  <2> HIDE DEF B
  <2>2. PICK d \in B : \A e \in B : d <= e
    BY <2>1, Least
  <2> HIDE DEF T
  <2>3. PICK m \in T : d = n - m
    BY DEF B
  <2>4. \A k \in T : n - m <= n - k
    BY <2>2, <2>3 DEF B
  <2> QED
    BY <1>1, <2>3, <2>4
<1>3. Max(T) \in T /\ \A k \in T : k <= Max(T)
  <2> HIDE DEF T
  <2>1. \A k \in T : k \in Int
    BY <1>1
  <2>2. \E x \in T : \A y \in T : x >= y
    BY <1>2, <2>1
  <2>3. Max(T) \in T /\ \A y \in T : Max(T) >= y
    BY <2>2 DEF Max
  <2> QED
    BY <2>1, <2>3
<1> DEFINE g == Max(T)
<1>4. g \in Nat /\ (g # 0 => g \in U)
  <2> HIDE DEF g
  <2>1. g \in {0} \cup U
    BY <1>3 DEF g
  <2>2. g \in 0 .. n
    BY <2>1
  <2> QED
    BY <2>1, <2>2
<1>5. \A k \in U : k \in 1 .. g
  BY <1>3, <1>4
<1> HIDE DEF g
<1>6. \A i \in 1 .. g : i \in U
  BY <1>4
<1>7. 1 .. g = U
  <2> HIDE DEF T
  <2> QED
    BY <1>4, <1>5, <1>6
<1> QED
  BY <1>4, <1>7 DEF g

(* Whole pages: more of them are longer, and by a page at least. *)
LEMMA Pages ==
    ASSUME NEW j \in Int, NEW k \in Int
    PROVE  /\ j * PAGE_SIZE \in Int
           /\ (k - 1) * PAGE_SIZE = k * PAGE_SIZE - PAGE_SIZE
           /\ j < k => j * PAGE_SIZE + PAGE_SIZE <= k * PAGE_SIZE
           /\ j <= k => j * PAGE_SIZE <= k * PAGE_SIZE
           /\ j * PAGE_SIZE < k * PAGE_SIZE => j < k
<1>1. PAGE_SIZE \in Nat /\ PAGE_SIZE > 0
  BY PrpAssumption
<1>2. j * PAGE_SIZE \in Int /\ k * PAGE_SIZE \in Int
  BY <1>1
<1>3. (k - 1) * PAGE_SIZE = k * PAGE_SIZE - PAGE_SIZE
  BY <1>1
<1>4. j < k => j * PAGE_SIZE + PAGE_SIZE <= k * PAGE_SIZE
  <2> SUFFICES ASSUME j < k PROVE j * PAGE_SIZE + PAGE_SIZE <= k * PAGE_SIZE
    OBVIOUS
  <2>1. PICK d \in Nat : k = j + 1 + d
    <3>1. k - j - 1 \in Nat /\ k = j + 1 + (k - j - 1)
      OBVIOUS
    <3> QED
      BY <3>1
  <2>2. k * PAGE_SIZE = j * PAGE_SIZE + PAGE_SIZE + d * PAGE_SIZE
    BY <1>1, <2>1
  <2>3. d * PAGE_SIZE \in Int /\ d * PAGE_SIZE >= 0
    BY <1>1
  <2> QED
    BY <1>1, <1>2, <2>2, <2>3
<1>5. k < j => k * PAGE_SIZE + PAGE_SIZE <= j * PAGE_SIZE
  <2> SUFFICES ASSUME k < j PROVE k * PAGE_SIZE + PAGE_SIZE <= j * PAGE_SIZE
    OBVIOUS
  <2>1. PICK d \in Nat : j = k + 1 + d
    <3>1. j - k - 1 \in Nat /\ j = k + 1 + (j - k - 1)
      OBVIOUS
    <3> QED
      BY <3>1
  <2>2. j * PAGE_SIZE = k * PAGE_SIZE + PAGE_SIZE + d * PAGE_SIZE
    BY <1>1, <2>1
  <2>3. d * PAGE_SIZE \in Int /\ d * PAGE_SIZE >= 0
    BY <1>1
  <2> QED
    BY <1>1, <1>2, <2>2, <2>3
<1>6. j = k => j * PAGE_SIZE = k * PAGE_SIZE
  OBVIOUS
<1> QED
  BY <1>1, <1>2, <1>3, <1>4, <1>5, <1>6

(* The page a byte is in, and whole pages below a byte. *)
LEMMA PageOf ==
    ASSUME NEW a \in Int
    PROVE  LET q == a \div PAGE_SIZE
           IN q \in Int /\ q * PAGE_SIZE <= a /\ a < q * PAGE_SIZE + PAGE_SIZE
<1>1. PAGE_SIZE \in Nat /\ PAGE_SIZE > 0
  BY PrpAssumption
<1>2. a \div PAGE_SIZE \in Int /\ a % PAGE_SIZE \in 0 .. PAGE_SIZE - 1
  BY <1>1
<1>3. a = PAGE_SIZE * (a \div PAGE_SIZE) + (a % PAGE_SIZE)
  BY <1>1
<1>4. PAGE_SIZE * (a \div PAGE_SIZE) = (a \div PAGE_SIZE) * PAGE_SIZE
  BY <1>1, <1>2
<1>5. (a \div PAGE_SIZE) * PAGE_SIZE \in Int
  BY <1>1, <1>2
<1> QED
  BY <1>1, <1>2, <1>3, <1>4, <1>5

LEMMA PagesBelow ==
    ASSUME NEW a \in Int, NEW k \in Int, k * PAGE_SIZE <= a
    PROVE  k <= a \div PAGE_SIZE
<1> DEFINE q == a \div PAGE_SIZE
<1>1. q \in Int /\ a < q * PAGE_SIZE + PAGE_SIZE
  BY PageOf
<1>2. PAGE_SIZE \in Nat
  BY PrpAssumption
<1> HIDE DEF q
<1>3. k * PAGE_SIZE \in Int /\ q * PAGE_SIZE \in Int
  BY <1>1, Pages
<1>4. q < k => q * PAGE_SIZE + PAGE_SIZE <= k * PAGE_SIZE
  BY <1>1, Pages
<1>5. k <= q
  BY <1>1, <1>2, <1>3, <1>4
<1> QED
  BY <1>5 DEF q

(* What is read of a data page: its bytes one after the other, all of them  *)
(* unless the page faults.                                                  *)
LEMMA PageRead ==
    ASSUME NEW x \in Transfers(MaxLen), NEW q \in Nat, NEW o \in Int, NEW len \in Int,
           len <= PAGE_SIZE
    PROVE  LET page == ReadPage(x, q, o, len, FALSE)
               data == page.data
           IN /\ page.is_list_page = FALSE
              /\ \A i \in DOMAIN data :
                    i \in 1 .. len /\ data[i] = q * PAGE_SIZE + o - x.offset + i - 1
              /\ x.faults = {} => DOMAIN data = 1 .. len
<1> DEFINE n == Max({0, Min({len, PAGE_SIZE})})
<1>0. PAGE_SIZE \in Nat /\ PAGE_SIZE > 0 /\ x.offset \in Int
  BY PrpAssumption DEF Transfers
<1>1. Min({len, PAGE_SIZE}) = len
  BY <1>0, LessOf
<1>2. n \in Nat /\ n >= len /\ (n = 0 \/ n = len)
  BY <1>1, AtLeastZero
<1>3. 1 .. n = 1 .. len
  <2> HIDE DEF n
  <2> QED
    BY <1>2
<1>4. q # ListPage
  BY DEF ListPage
<1> DEFINE page == ReadPage(x, q, o, len, FALSE)
           all == [b \in 1 .. n |-> Byte(x, q, o + b - 1)]
<1>5. page.is_list_page = FALSE /\ page.data = IF q \in x.faults THEN <<>> ELSE all
  BY DEF ReadPage
<1>6. DOMAIN all = 1 .. len /\ \A i \in 1 .. len : all[i] = q * PAGE_SIZE + o - x.offset + i - 1
  <2>1. \A i \in 1 .. len : Byte(x, q, o + i - 1) = q * PAGE_SIZE + o - x.offset + i - 1
    <3>1. q * PAGE_SIZE \in Int
      BY Pages
    <3> DEFINE w == q * PAGE_SIZE
    <3> TAKE i \in 1 .. len
    <3>2. Byte(x, q, o + i - 1) = w + (o + i - 1) - x.offset
      BY <1>4 DEF Byte
    <3> HIDE DEF w
    <3>3. w + (o + i - 1) - x.offset = w + o - x.offset + i - 1
      BY <1>0, <3>1 DEF w
    <3> QED
      BY <3>2, <3>3 DEF w
  <2> DEFINE D == 1 .. n
             F(b) == Byte(x, q, o + b - 1)
  <2> HIDE DEF D, F
  <2>2. all = [b \in D |-> F(b)] /\ D = 1 .. len
    BY <1>3 DEF D, F
  <2>3. DOMAIN all = D /\ \A i \in D : all[i] = F(i)
    <3> HIDE DEF all
    <3> QED
      BY <2>2
  <2> HIDE DEF all
  <2> QED
    BY <2>1, <2>2, <2>3 DEF F
<1>7. CASE q \in x.faults
  <2>1. page.data = <<>> /\ x.faults # {}
    BY <1>5, <1>7
  <2>2. DOMAIN page.data = {}
    <3> HIDE DEF page
    <3> QED
      BY <2>1
  <2> HIDE DEF page
  <2>3. \A i \in DOMAIN page.data : FALSE
    BY <2>2
  <2> QED
    BY <1>5, <2>1, <2>3 DEF page
<1>8. CASE q \notin x.faults
  <2>1. page.data = all
    BY <1>5, <1>8
  <2> HIDE DEF all
  <2> QED
    BY <1>5, <1>6, <2>1
<1> QED
  BY <1>7, <1>8

(* A page shows the bytes of the buffer from lo on, len of them. *)
Shows(x, page, lo, len) ==
    /\ lo \in Nat /\ len \in Int
    /\ page.is_list_page = FALSE
    /\ \A i \in DOMAIN page.data : i \in 1 .. len /\ page.data[i] = lo + i - 1
    /\ x.faults = {} => DOMAIN page.data = 1 .. len

(* Page q of a buffer, read from its beginning or, page 0, from the offset. *)
LEMMA PageShows ==
    ASSUME NEW x \in Transfers(MaxLen), NEW q \in Nat, NEW len \in Int, len <= PAGE_SIZE
    PROVE  /\ q = 0 => Shows(x, ReadPage(x, q, x.offset, len, FALSE), 0, len)
           /\ q > 0 => /\ q * PAGE_SIZE - x.offset \in Nat
                       /\ Shows(x, ReadPage(x, q, 0, len, FALSE), q * PAGE_SIZE - x.offset, len)
<1> DEFINE w == q * PAGE_SIZE
<1>0. PAGE_SIZE \in Nat /\ PAGE_SIZE > 0 /\ x.offset \in Nat /\ x.offset < PAGE_SIZE
  BY PrpAssumption DEF Transfers
<1>1. w \in Int /\ (q = 0 => w = 0) /\ (q > 0 => w >= PAGE_SIZE)
  <2>1. w \in Int /\ (0 < q => 0 * PAGE_SIZE + PAGE_SIZE <= w)
    BY Pages
  <2>2. 0 * PAGE_SIZE = 0
    BY <1>0
  <2> QED
    BY <1>0, <2>1, <2>2
<1>2. CASE q = 0
  <2> DEFINE page == ReadPage(x, q, x.offset, len, FALSE)
  <2>1. /\ page.is_list_page = FALSE
        /\ \A i \in DOMAIN page.data : i \in 1 .. len /\ page.data[i] = w + x.offset - x.offset + i - 1
        /\ x.faults = {} => DOMAIN page.data = 1 .. len
    <3>1. x.offset \in Int
      BY <1>0
    <3> QED
      BY <3>1, PageRead, Zenon
  <2> HIDE DEF page, w
  <2>2. \A i \in 1 .. len : w + x.offset - x.offset + i - 1 = 0 + i - 1
    BY <1>0, <1>1, <1>2
  <2>3. Shows(x, page, 0, len)
    BY <2>1, <2>2 DEF Shows
  <2> QED
    <3>1. ~(q > 0)
      BY <1>2
    <3> QED
      BY <2>3, <3>1, Zenon DEF page
<1>3. CASE q > 0
  <2> DEFINE page == ReadPage(x, q, 0, len, FALSE)
  <2>1. /\ page.is_list_page = FALSE
        /\ \A i \in DOMAIN page.data : i \in 1 .. len /\ page.data[i] = w + 0 - x.offset + i - 1
        /\ x.faults = {} => DOMAIN page.data = 1 .. len
    <3>1. 0 \in Int
      OBVIOUS
    <3> QED
      BY <3>1, PageRead, Zenon
  <2> HIDE DEF page, w
  <2>2. w - x.offset \in Nat /\ \A i \in 1 .. len : w + 0 - x.offset + i - 1 = (w - x.offset) + i - 1
    BY <1>0, <1>1, <1>3
  <2>3. Shows(x, page, w - x.offset, len)
    BY <2>1, <2>2 DEF Shows
  <2> QED
    <3>1. q # 0
      BY <1>3
    <3> QED
      BY <2>2, <2>3, <3>1, Zenon DEF page, w
<1> QED
  BY <1>2, <1>3

(* The bytes of a transfer that are shown at most. *)
Most(x) == IF x.null THEN 0 ELSE Min({x.total_len, MAX_PAGE_DUMP})

DataPages(pages) == {k \in DOMAIN pages : ~pages[k].is_list_page}

(* Pages that show one piece after the other, without a gap. *)
Pieces(x, pages, lo, len) ==
    LET data == DataPages(pages)
    IN  /\ data \subseteq Int /\ Most(x) \in Int
        /\ \A k \in data : Shows(x, pages[k], lo[k], len[k]) /\ lo[k] + len[k] <= Most(x)
        /\ \A j, k \in data : j < k => lo[j] + len[j] <= lo[k]
        /\ x.faults = {} =>
              \A b \in 0 .. Most(x) - 1 : \E k \in data : lo[k] <= b /\ b < lo[k] + len[k]

(* Together they show the beginning of the buffer. *)
LEMMA PiecesShowPrefix ==
    ASSUME NEW x \in Transfers(MaxLen), NEW lo, NEW len, Pieces(x, DecodePrpPages(x), lo, len)
    PROVE  ShowsPrefix(x)
<1> DEFINE pages == DecodePrpPages(x)
           most == Most(x)
           data == DataPages(pages)
<1> HIDE DEF pages, most, data
<1>0. /\ data \subseteq Int /\ most \in Int
      /\ \A k \in data : Shows(x, pages[k], lo[k], len[k]) /\ lo[k] + len[k] <= most
      /\ \A j, k \in data : j < k => lo[j] + len[j] <= lo[k]
      /\ x.faults = {} =>
            \A b \in 0 .. most - 1 : \E k \in data : lo[k] <= b /\ b < lo[k] + len[k]
  BY DEF Pieces, pages, most, data
<1>1. ASSUME NEW k \in data, NEW i \in DOMAIN pages[k].data
      PROVE  /\ lo[k] \in Nat /\ len[k] \in Int /\ i \in 1 .. len[k]
             /\ pages[k].data[i] = lo[k] + i - 1 /\ pages[k].data[i] \in 0 .. most - 1
             /\ pages[k].data[i] < lo[k] + len[k]
  <2>1. /\ lo[k] \in Nat /\ len[k] \in Int /\ i \in 1 .. len[k] /\ pages[k].data[i] = lo[k] + i - 1
        /\ lo[k] + len[k] <= most
    BY <1>0 DEF Shows
  <2> QED
    BY <1>0, <2>1
<1>2. ASSUME NEW j \in data, NEW k \in data,
             NEW h \in DOMAIN pages[j].data, NEW i \in DOMAIN pages[k].data,
             j < k \/ (j = k /\ h < i)
      PROVE  pages[j].data[h] < pages[k].data[i]
  <2>1. CASE j < k
    <3>1. lo[j] + len[j] <= lo[k]
      BY <1>0, <2>1
    <3>2. /\ lo[j] \in Nat /\ len[j] \in Int /\ pages[j].data[h] \in Int
          /\ pages[j].data[h] < lo[j] + len[j]
      BY <1>1
    <3>3. lo[k] \in Nat /\ i \in 1 .. len[k] /\ pages[k].data[i] = lo[k] + i - 1
      BY <1>1
    <3> QED
      BY <3>1, <3>2, <3>3
  <2>2. CASE j = k /\ h < i
    <3>1. h \in DOMAIN pages[k].data
      BY <2>2
    <3>2. /\ lo[k] \in Nat /\ h \in 1 .. len[k] /\ i \in 1 .. len[k]
          /\ pages[k].data[h] = lo[k] + h - 1 /\ pages[k].data[i] = lo[k] + i - 1
      BY <1>1, <3>1
    <3> QED
      BY <2>2, <3>2
  <2> QED
    BY <1>2, <2>1, <2>2
<1>3. ASSUME x.faults = {}, NEW b \in 0 .. most - 1
      PROVE  \E k \in data : \E i \in DOMAIN pages[k].data : pages[k].data[i] = b
  <2>1. PICK k \in data : lo[k] <= b /\ b < lo[k] + len[k]
    BY <1>0, <1>3
  <2>2. lo[k] \in Nat /\ len[k] \in Int /\ DOMAIN pages[k].data = 1 .. len[k]
    BY <1>0, <1>3 DEF Shows
  <2>3. b - lo[k] + 1 \in 1 .. len[k] /\ lo[k] + (b - lo[k] + 1) - 1 = b
    <3>1. b \in Int
      BY <1>0
    <3> QED
      BY <2>1, <2>2, <3>1
  <2>4. pages[k].data[b - lo[k] + 1] = b
    BY <1>1, <2>2, <2>3
  <2> QED
    BY <2>2, <2>3, <2>4
<1>4. ShowsPrefix(x) =
        (/\ \A k \in data : \A i \in DOMAIN pages[k].data : pages[k].data[i] \in 0 .. most - 1
         /\ \A j, k \in data : \A h \in DOMAIN pages[j].data, i \in DOMAIN pages[k].data :
               j < k \/ (j = k /\ h < i) => pages[j].data[h] < pages[k].data[i]
         /\ x.faults = {} =>
               \A b \in 0 .. most - 1 :
                  \E k \in data : \E i \in DOMAIN pages[k].data : pages[k].data[i] = b)
  BY DEF ShowsPrefix, pages, most, data, Most, DataPages
<1> QED
  BY <1>1, <1>2, <1>3, <1>4

(* The sizes of _decode_prp_pages for a transfer that has bytes. *)
FirstPage(x) == Min({x.total_len, PAGE_SIZE - x.offset})
ShownFirst(x) == Min({FirstPage(x), MAX_PAGE_DUMP})
Remaining(x) == x.total_len - FirstPage(x)

LEMMA Sizes ==
    ASSUME NEW x \in Transfers(MaxLen)
    PROVE  /\ PAGE_SIZE \in Nat /\ PAGE_SIZE > 0 /\ MAX_PAGE_DUMP \in Nat /\ MAX_PAGE_DUMP > 0
           /\ x.offset \in Nat /\ x.offset < PAGE_SIZE /\ x.total_len \in Nat
           /\ FirstPage(x) \in Nat /\ ShownFirst(x) \in Nat /\ Remaining(x) \in Nat
           /\ ShownFirst(x) <= PAGE_SIZE
           /\ Most(x) \in Nat /\ (~x.null => ShownFirst(x) <= Most(x))
           /\ ~x.null => Most(x) <= x.total_len /\ Most(x) <= MAX_PAGE_DUMP
           /\ x.null \/ x.total_len <= 0 => Most(x) = 0
           /\ ~x.null /\ (Remaining(x) <= 0 \/ ShownFirst(x) >= MAX_PAGE_DUMP)
                => Most(x) = ShownFirst(x)
           /\ Remaining(x) > 0 /\ ShownFirst(x) < MAX_PAGE_DUMP
                => /\ ShownFirst(x) = PAGE_SIZE - x.offset
                   /\ Remaining(x) = x.total_len - (PAGE_SIZE - x.offset)
<1>1. /\ PAGE_SIZE \in Nat /\ PAGE_SIZE > 0 /\ MAX_PAGE_DUMP \in Nat /\ MAX_PAGE_DUMP > 0
      /\ x.offset \in Nat /\ x.offset < PAGE_SIZE /\ x.total_len \in Nat
  <2>1. x.total_len \in 0 .. MaxLen /\ x.offset \in 0 .. PAGE_SIZE - 1
    BY DEF Transfers
  <2> QED
    BY <2>1, PrpAssumption, ViewsAssumption
<1>2. FirstPage(x) = IF x.total_len <= PAGE_SIZE - x.offset THEN x.total_len ELSE PAGE_SIZE - x.offset
  BY <1>1, LessOf DEF FirstPage
<1>3. FirstPage(x) \in Nat
  BY <1>1, <1>2
<1>4. ShownFirst(x) = IF FirstPage(x) <= MAX_PAGE_DUMP THEN FirstPage(x) ELSE MAX_PAGE_DUMP
  BY <1>1, <1>3, LessOf DEF ShownFirst
<1>5. Most(x) = IF x.null THEN 0 ELSE IF x.total_len <= MAX_PAGE_DUMP THEN x.total_len ELSE MAX_PAGE_DUMP
  BY <1>1, LessOf DEF Most
<1>6. Remaining(x) = x.total_len - FirstPage(x)
  BY DEF Remaining
<1> QED
  BY <1>1, <1>2, <1>3, <1>4, <1>5, <1>6

(* A transfer of which nothing, or the first page only, is shown. *)
LEMMA FirstPageOnly ==
    ASSUME NEW x \in Transfers(MaxLen),
           \/ x.null \/ x.total_len <= 0
           \/ Remaining(x) <= 0 \/ ShownFirst(x) >= MAX_PAGE_DUMP
    PROVE  ShowsPrefix(x)
<1> DEFINE pages == DecodePrpPages(x)
           shown == ShownFirst(x)
           page == ReadPage(x, 0, x.offset, shown, FALSE)
           lo == [k \in 1 .. 1 |-> 0]
           len == [k \in 1 .. 1 |-> shown]
<1>0. shown \in Nat /\ shown <= PAGE_SIZE /\ Most(x) \in Nat
  BY Sizes
<1>1. CASE x.null \/ x.total_len <= 0
  <2>1. pages = <<>>
    BY <1>1, Zenon DEF DecodePrpPages
  <2>2. DataPages(pages) = {}
    <3> HIDE DEF pages
    <3> QED
      BY <2>1 DEF DataPages
  <2>3. Most(x) = 0
    BY <1>1, Sizes
  <2> HIDE DEF pages, lo, len
  <2>4. \A b \in 0 .. Most(x) - 1 : FALSE
    BY <2>3
  <2>5. Pieces(x, pages, lo, len)
    BY <1>0, <2>2, <2>4 DEF Pieces
  <2> QED
    BY <2>5, PiecesShowPrefix DEF pages
<1>2. CASE ~(x.null \/ x.total_len <= 0)
  <2>1. pages = <<page>>
    BY <1>2, Zenon DEF DecodePrpPages, Remaining, ShownFirst, FirstPage
  <2>2. Shows(x, page, 0, shown)
    <3> HIDE DEF shown
    <3>1. 0 \in Nat /\ shown \in Int
      BY <1>0
    <3> QED
      BY <1>0, <3>1, PageShows, Zenon
  <2> HIDE DEF pages, page
  <2>3. DataPages(pages) = {1} /\ pages[1] = page
    BY <2>1, <2>2 DEF DataPages, Shows
  <2>4. Most(x) = shown
    BY <1>2, Sizes
  <2>5. lo[1] = 0 /\ len[1] = shown
    OBVIOUS
  <2> HIDE DEF lo, len, shown
  <2>6. Pieces(x, pages, lo, len)
    BY <1>0, <2>2, <2>3, <2>4, <2>5 DEF Pieces
  <2> QED
    BY <2>6, PiecesShowPrefix DEF pages
<1> QED
  BY <1>1, <1>2

(* PRP2 is the second page itself exactly when one page is left: the driver *)
(* and the decoder count alike.                                             *)
LEMMA OnePageLeft ==
    ASSUME NEW x \in Transfers(MaxLen), Remaining(x) > 0, ShownFirst(x) < MAX_PAGE_DUMP,
           MorePages(Remaining(x)) = 1
    PROVE  Remaining(x) <= PAGE_SIZE /\ Prp2(x) = 1
<1> DEFINE r == Remaining(x)
           q == PageCount(x)
<1>1. /\ PAGE_SIZE \in Nat /\ PAGE_SIZE > 0 /\ x.offset \in Nat /\ x.total_len \in Nat /\ r \in Nat
      /\ r = x.total_len - (PAGE_SIZE - x.offset)
  BY Sizes
<1> HIDE DEF r
<1>2. r + PAGE_SIZE - 1 < PAGE_SIZE + PAGE_SIZE
  <2> DEFINE a == r + PAGE_SIZE - 1
  <2>1. a \in Int /\ a \div PAGE_SIZE = 1
    BY <1>1 DEF MorePages, r
  <2>2. a < (a \div PAGE_SIZE) * PAGE_SIZE + PAGE_SIZE
    BY <2>1, PageOf
  <2> HIDE DEF a
  <2>3. a < 1 * PAGE_SIZE + PAGE_SIZE
    BY <2>1, <2>2
  <2>4. 1 * PAGE_SIZE = PAGE_SIZE
    BY <1>1
  <2> QED
    BY <2>3, <2>4 DEF a
<1>3. q \in Int /\ q * PAGE_SIZE <= x.offset + x.total_len + PAGE_SIZE - 1
  <2>1. x.offset + x.total_len + PAGE_SIZE - 1 \in Int
    BY <1>1
  <2> QED
    BY <2>1, PageOf DEF PageCount
<1> HIDE DEF q
<1>4. q * PAGE_SIZE < 3 * PAGE_SIZE
  <2>1. 3 * PAGE_SIZE = PAGE_SIZE + PAGE_SIZE + PAGE_SIZE
    BY <1>1
  <2>2. q * PAGE_SIZE \in Int
    BY <1>3, Pages
  <2> QED
    BY <1>1, <1>2, <1>3, <2>1, <2>2
<1>5. q < 3
  BY <1>3, <1>4, Pages
<1>6. ~(q > 2)
  BY <1>3, <1>5
<1>7. r <= PAGE_SIZE
  BY <1>1, <1>2
<1> QED
  BY <1>6, <1>7 DEF Prp2, r, q

(* A transfer of two pages. *)
LEMMA TwoPages ==
    ASSUME NEW x \in Transfers(MaxLen), ~x.null, x.total_len > 0,
           Remaining(x) > 0, ShownFirst(x) < MAX_PAGE_DUMP, MorePages(Remaining(x)) = 1
    PROVE  ShowsPrefix(x)
<1> DEFINE pages == DecodePrpPages(x)
           shown == ShownFirst(x)
           r == Remaining(x)
           w == Min({r, MAX_PAGE_DUMP - shown})
           first == ReadPage(x, 0, x.offset, shown, FALSE)
           second == ReadPage(x, 1, 0, w, FALSE)
           lo == <<0, shown>>
           len == <<shown, w>>
<1>1. /\ PAGE_SIZE \in Nat /\ MAX_PAGE_DUMP \in Nat /\ x.offset \in Nat /\ x.total_len \in Nat
      /\ r \in Nat /\ shown \in Nat /\ shown <= PAGE_SIZE /\ shown = PAGE_SIZE - x.offset
      /\ r = x.total_len - shown /\ Most(x) \in Nat /\ shown <= Most(x)
      /\ r > 0 /\ shown < MAX_PAGE_DUMP
  BY Sizes
<1>2. Most(x) = IF x.total_len <= MAX_PAGE_DUMP THEN x.total_len ELSE MAX_PAGE_DUMP
  BY <1>1, LessOf DEF Most
<1>3. r <= PAGE_SIZE /\ Prp2(x) = 1
  BY OnePageLeft
<1>4. DOMAIN pages = {1, 2} /\ pages[1] = first /\ pages[2] = second
  <2> DEFINE sec == ReadPage(x, Prp2(x), 0, w, FALSE)
  <2>1. ~(x.null \/ x.total_len <= 0) /\ ~(r <= 0 \/ shown >= MAX_PAGE_DUMP)
    <3>1. ~(x.total_len <= 0) /\ ~(r <= 0 \/ shown >= MAX_PAGE_DUMP)
      BY <1>1
    <3> QED
      BY <3>1, Zenon
  <2>2. pages = Append(<<first>>, sec)
    BY <2>1, Zenon DEF DecodePrpPages, Remaining, ShownFirst, FirstPage
  <2>3. sec = second
    BY <1>3, Zenon
  <2> HIDE DEF pages, first, second, sec
  <2> QED
    BY <2>2, <2>3
<1> HIDE DEF r, shown
<1>5. w = IF r <= MAX_PAGE_DUMP - shown THEN r ELSE MAX_PAGE_DUMP - shown
  BY <1>1, LessOf
<1> HIDE DEF w
<1>6. w \in Int /\ w <= PAGE_SIZE /\ shown + w = Most(x)
  BY <1>1, <1>2, <1>3, <1>5
<1>7. Shows(x, first, 0, shown)
  <2>1. 0 \in Nat /\ shown \in Int
    BY <1>1
  <2> QED
    BY <1>1, <2>1, PageShows, Zenon
<1>8. Shows(x, second, shown, w)
  <2>1. 1 \in Nat /\ 1 > 0 /\ 1 * PAGE_SIZE - x.offset = shown
    BY <1>1
  <2> HIDE DEF second
  <2>2. Shows(x, second, 1 * PAGE_SIZE - x.offset, w)
    BY <1>6, <2>1, PageShows, Zenon DEF second
  <2> QED
    BY <2>1, <2>2
<1> HIDE DEF pages, first, second
<1>9. DataPages(pages) = {1, 2} /\ pages[1] = first /\ pages[2] = second
  BY <1>4, <1>7, <1>8 DEF DataPages, Shows
<1>10. lo[1] = 0 /\ lo[2] = shown /\ len[1] = shown /\ len[2] = w
  OBVIOUS
<1> HIDE DEF lo, len
<1>11. Pieces(x, pages, lo, len)
  BY <1>1, <1>6, <1>7, <1>8, <1>9, <1>10 DEF Pieces
<1> QED
  BY <1>11, PiecesShowPrefix DEF pages

(* What is wanted of a page of a list. *)
Wanted(x, k) ==
    Min({PAGE_SIZE, Remaining(x) - (k - 1) * PAGE_SIZE,
         MAX_PAGE_DUMP - ShownFirst(x) - (k - 1) * PAGE_SIZE})

LEMMA WantedOf ==
    ASSUME NEW x \in Transfers(MaxLen), ~x.null, Remaining(x) > 0, ShownFirst(x) < MAX_PAGE_DUMP,
           NEW k \in Nat
    PROVE  LET lo == k * PAGE_SIZE - x.offset
           IN /\ lo \in Int /\ Wanted(x, k) \in Int /\ Wanted(x, k) <= PAGE_SIZE
              /\ lo + Wanted(x, k) <= Most(x)
              /\ \A b \in Int : b < Most(x) /\ b < lo + PAGE_SIZE => b < lo + Wanted(x, k)
<1> DEFINE w == k * PAGE_SIZE
           r == Remaining(x)
           shown == ShownFirst(x)
           v == (k - 1) * PAGE_SIZE
           want == Wanted(x, k)
<1>1. /\ PAGE_SIZE \in Nat /\ MAX_PAGE_DUMP \in Nat /\ x.offset \in Nat /\ x.total_len \in Nat
      /\ r \in Nat /\ shown \in Nat /\ shown = PAGE_SIZE - x.offset
      /\ r = x.total_len - shown /\ Most(x) \in Nat
  BY Sizes
<1>2. Most(x) = IF x.total_len <= MAX_PAGE_DUMP THEN x.total_len ELSE MAX_PAGE_DUMP
  BY <1>1, LessOf DEF Most
<1>3. w \in Int /\ v = w - PAGE_SIZE
  BY Pages
<1> HIDE DEF w, r, shown, v
<1>4. v \in Int /\ r - v \in Int /\ MAX_PAGE_DUMP - shown - v \in Int
  BY <1>1, <1>3
<1>5. want = Min({PAGE_SIZE, r - v, MAX_PAGE_DUMP - shown - v})
  BY DEF Wanted, r, shown, v
<1>6. /\ want \in Int /\ want <= PAGE_SIZE /\ want <= r - v /\ want <= MAX_PAGE_DUMP - shown - v
      /\ \A y \in Int : y <= PAGE_SIZE /\ y <= r - v /\ y <= MAX_PAGE_DUMP - shown - v => y <= want
  <2>1. PAGE_SIZE \in Int
    BY <1>1
  <2> HIDE DEF want
  <2> QED
    BY <1>4, <1>5, <2>1, LeastOf, Zenon
<1> HIDE DEF want
<1>7. r - v = x.total_len - (w - x.offset) /\ MAX_PAGE_DUMP - shown - v = MAX_PAGE_DUMP - (w - x.offset)
  BY <1>1, <1>3
<1>8. w - x.offset \in Int /\ (w - x.offset) + want <= Most(x)
  BY <1>1, <1>2, <1>3, <1>6, <1>7
<1>9. ASSUME NEW b \in Int, b < Most(x), b < (w - x.offset) + PAGE_SIZE
      PROVE  b < (w - x.offset) + want
  <2> DEFINE y == b + 1 - (w - x.offset)
  <2>1. y \in Int /\ y <= PAGE_SIZE /\ y <= r - v /\ y <= MAX_PAGE_DUMP - shown - v
    BY <1>1, <1>2, <1>3, <1>7, <1>9
  <2>2. y <= want
    <3> HIDE DEF y
    <3> QED
      BY <1>6, <2>1
  <2> QED
    BY <1>1, <1>3, <1>6, <2>2
<1> QED
  BY <1>6, <1>8, <1>9 DEF w, want

(* The pages of a list: as many as are needed for the bytes that are shown. *)
LEMMA ListShows ==
    ASSUME NEW x \in Transfers(MaxLen), ~x.null, Remaining(x) > 0, ShownFirst(x) < MAX_PAGE_DUMP
    PROVE  \E n \in Nat :
             /\ ListedPages(x, ShownFirst(x), Remaining(x))
                  = [k \in 1 .. n |-> ReadPage(x, k, 0, Wanted(x, k), FALSE)]
             /\ x.faults = {} => \A b \in ShownFirst(x) .. Most(x) - 1 :
                   \E k \in 1 .. n : /\ k * PAGE_SIZE - x.offset <= b
                                     /\ b < (k * PAGE_SIZE - x.offset) + Wanted(x, k)
<1> DEFINE r == Remaining(x)
           shown == ShownFirst(x)
           least == Min({MorePages(r), PRPS_PER_PAGE - 1, ListEntries})
           show == IF ListPage \in x.faults THEN 0 ELSE least
           used == {k \in 1 .. show : \A i \in 1 .. k : Wanted(x, i) > 0}
           n == Max({0} \cup used)
<1>1. /\ PAGE_SIZE \in Nat /\ PAGE_SIZE > 0 /\ MAX_PAGE_DUMP \in Nat
      /\ x.offset \in Nat /\ x.offset < PAGE_SIZE /\ x.total_len \in Nat
      /\ r \in Nat /\ shown \in Nat /\ shown = PAGE_SIZE - x.offset
      /\ r = x.total_len - shown /\ Most(x) \in Nat
      /\ Most(x) <= x.total_len /\ Most(x) <= MAX_PAGE_DUMP
  BY Sizes
<1>2. /\ ListEntries \in Nat /\ PRPS_PER_PAGE \in Nat
      /\ MAX_PAGE_DUMP <= ListEntries * PAGE_SIZE
      /\ MAX_PAGE_DUMP <= (PRPS_PER_PAGE - 1) * PAGE_SIZE
  BY PrpAssumption
<1>3. MorePages(r) \in Int
  <2> HIDE DEF r
  <2>1. r + PAGE_SIZE - 1 \in Int
    BY <1>1
  <2> QED
    BY <2>1, PageOf DEF MorePages
<1>4. /\ least \in Int
      /\ \A y \in Int : y <= MorePages(r) /\ y <= PRPS_PER_PAGE - 1 /\ y <= ListEntries => y <= least
  <2>1. PRPS_PER_PAGE - 1 \in Int /\ ListEntries \in Int
    BY <1>2
  <2> QED
    BY <1>3, <2>1, LeastOf, Zenon
<1> HIDE DEF least
<1>5. n \in Nat /\ 1 .. n = used
  <2> DEFINE top == IF show <= 0 THEN 0 ELSE show
  <2>1. top \in Nat /\ 1 .. show \subseteq 1 .. top
    BY <1>4
  <2> HIDE DEF show, top
  <2>2. used \in SUBSET (1 .. top) /\ \A k \in used : \A i \in 1 .. k : i \in used
    <3>1. used \in SUBSET (1 .. top)
      BY <2>1
    <3>2. ASSUME NEW k \in used, NEW i \in 1 .. k PROVE i \in used
      <4>1. k \in 1 .. show /\ \A j \in 1 .. k : Wanted(x, j) > 0
        OBVIOUS
      <4>2. show \in Int
        BY <1>4 DEF show
      <4>3. i \in 1 .. show /\ \A j \in 1 .. i : j \in 1 .. k
        BY <4>1, <4>2
      <4> QED
        BY <4>1, <4>3
    <3> QED
      BY <3>1, <3>2
  <2> HIDE DEF used
  <2> QED
    BY <2>1, <2>2, UpToGreatest
<1>6. ListedPages(x, shown, r) = [k \in 1 .. n |-> ReadPage(x, k, 0, Wanted(x, k), FALSE)]
  BY DEF ListedPages, Wanted, least
<1>7. ASSUME x.faults = {}, NEW b \in shown .. Most(x) - 1
      PROVE  \E k \in 1 .. n : /\ k * PAGE_SIZE - x.offset <= b
                              /\ b < (k * PAGE_SIZE - x.offset) + Wanted(x, k)
  <2> DEFINE a == b + x.offset
             k == a \div PAGE_SIZE
             w == k * PAGE_SIZE
  <2> HIDE DEF r, shown
  <2>1. b \in Int /\ a \in Int /\ PAGE_SIZE <= a /\ b < Most(x)
    BY <1>1
  <2> HIDE DEF a
  <2>2. k \in Int /\ w <= a /\ a < w + PAGE_SIZE
    BY <2>1, PageOf
  <2>3. 1 <= k
    <3>1. 1 * PAGE_SIZE <= a
      BY <1>1, <2>1
    <3> QED
      BY <2>1, <3>1, PagesBelow
  <2> HIDE DEF k
  <2>4. k <= MorePages(r)
    <3>1. w <= r + PAGE_SIZE - 1 /\ r + PAGE_SIZE - 1 \in Int
      <4>1. w \in Int
        BY <2>2, Pages
      <4> HIDE DEF w
      <4> QED
        BY <1>1, <2>1, <2>2, <4>1 DEF a
    <3> QED
      BY <2>2, <3>1, PagesBelow DEF MorePages
  <2>5. k <= ListEntries
    <3>1. w < (ListEntries + 1) * PAGE_SIZE
      <4>1. w \in Int /\ ListEntries * PAGE_SIZE = (ListEntries + 1) * PAGE_SIZE - PAGE_SIZE
        BY <1>1, <1>2, <2>2, Pages
      <4>2. (ListEntries + 1) * PAGE_SIZE \in Int
        BY <1>2, Pages
      <4> HIDE DEF w
      <4> QED
        BY <1>1, <1>2, <2>1, <2>2, <4>1, <4>2 DEF a
    <3>2. k < ListEntries + 1
      BY <1>2, <2>2, <3>1, Pages
    <3> QED
      BY <1>2, <2>2, <3>2
  <2>6. k <= PRPS_PER_PAGE - 1
    <3>1. w < PRPS_PER_PAGE * PAGE_SIZE
      <4>1. w \in Int /\ (PRPS_PER_PAGE - 1) * PAGE_SIZE = PRPS_PER_PAGE * PAGE_SIZE - PAGE_SIZE
        BY <1>2, <2>2, Pages
      <4>2. PRPS_PER_PAGE * PAGE_SIZE \in Int
        BY <1>2, Pages
      <4> HIDE DEF w
      <4> QED
        BY <1>1, <1>2, <2>1, <2>2, <4>1, <4>2 DEF a
    <3>2. k < PRPS_PER_PAGE
      BY <1>2, <2>2, <3>1, Pages
    <3> QED
      BY <1>2, <2>2, <3>2
  <2>7. k \in 1 .. show
    <3>1. show = least
      BY <1>7
    <3>2. k <= least
      BY <1>4, <2>2, <2>4, <2>5, <2>6
    <3> HIDE DEF show
    <3> QED
      BY <1>4, <2>2, <2>3, <3>1, <3>2
  <2>8. ASSUME NEW i \in 1 .. k PROVE Wanted(x, i) > 0
    <3> DEFINE v == i * PAGE_SIZE
    <3>1. i \in Nat /\ i \in Int /\ i <= k
      BY <2>2
    <3>2. v \in Int /\ v <= w /\ w \in Int
      BY <2>2, <3>1, Pages
    <3>3. /\ Wanted(x, i) \in Int
          /\ \A c \in Int : c < Most(x) /\ c < (v - x.offset) + PAGE_SIZE
                => c < (v - x.offset) + Wanted(x, i)
      BY <3>1, WantedOf
    <3> HIDE DEF v, w
    <3>4. v - x.offset \in Int /\ v - x.offset < Most(x) /\ v - x.offset < (v - x.offset) + PAGE_SIZE
      BY <1>1, <2>1, <2>2, <3>2 DEF a
    <3>5. v - x.offset < (v - x.offset) + Wanted(x, i)
      BY <3>3, <3>4
    <3> QED
      BY <3>3, <3>4, <3>5
  <2>9. k \in 1 .. n
    <3> HIDE DEF show, n
    <3> QED
      BY <1>5, <2>7, <2>8
  <2>10. w - x.offset <= b /\ b < (w - x.offset) + Wanted(x, k)
    <3>1. k \in Nat /\ w \in Int
      BY <2>2, <2>3, Pages
    <3>2. \A c \in Int : c < Most(x) /\ c < (w - x.offset) + PAGE_SIZE
                => c < (w - x.offset) + Wanted(x, k)
      BY <3>1, WantedOf
    <3> HIDE DEF w
    <3>3. w - x.offset <= b /\ b < (w - x.offset) + PAGE_SIZE
      BY <1>1, <2>1, <2>2, <3>1 DEF a
    <3> QED
      BY <2>1, <3>2, <3>3
  <2> QED
    BY <2>9, <2>10
<1> QED
  BY <1>5, <1>6, <1>7

(* A transfer of more pages than two. *)
LEMMA MorePagesThanTwo ==
    ASSUME NEW x \in Transfers(MaxLen), ~x.null, x.total_len > 0,
           Remaining(x) > 0, ShownFirst(x) < MAX_PAGE_DUMP, MorePages(Remaining(x)) # 1
    PROVE  ShowsPrefix(x)
<1> DEFINE pages == DecodePrpPages(x)
           shown == ShownFirst(x)
           r == Remaining(x)
           first == ReadPage(x, 0, x.offset, shown, FALSE)
           list == ReadPage(x, Prp2(x), 0, Min({r, PAGE_SIZE}), TRUE)
           listed == ListedPages(x, shown, r)
           Lo(k) == k * PAGE_SIZE - x.offset
<1>1. /\ PAGE_SIZE \in Nat /\ PAGE_SIZE > 0 /\ x.offset \in Nat /\ x.offset < PAGE_SIZE
      /\ shown \in Nat /\ shown <= PAGE_SIZE /\ shown = PAGE_SIZE - x.offset
      /\ r \in Nat /\ r > 0 /\ Most(x) \in Nat /\ shown <= Most(x)
  BY Sizes
<1>2. pages = <<first>> \o <<list>> \o listed
  <2>1. ~(x.null \/ x.total_len <= 0) /\ ~(r <= 0 \/ shown >= MAX_PAGE_DUMP)
    <3>1. ~(x.total_len <= 0) /\ ~(r <= 0 \/ shown >= MAX_PAGE_DUMP)
      BY Sizes
    <3> QED
      BY <3>1, Zenon
  <2> QED
    BY <2>1, Zenon DEF DecodePrpPages, Remaining, ShownFirst, FirstPage
<1>3. PICK n \in Nat :
        /\ listed = [k \in 1 .. n |-> ReadPage(x, k, 0, Wanted(x, k), FALSE)]
        /\ x.faults = {} => \A b \in shown .. Most(x) - 1 :
              \E k \in 1 .. n : Lo(k) <= b /\ b < Lo(k) + Wanted(x, k)
  BY ListShows
<1>4. list.is_list_page = TRUE
  BY DEF ReadPage
<1>5. Shows(x, first, 0, shown)
  <2> HIDE DEF shown
  <2>1. 0 \in Nat /\ shown \in Int
    BY <1>1
  <2> QED
    BY <1>1, <2>1, PageShows, Zenon
<1>6. ASSUME NEW k \in 1 .. n
      PROVE  /\ listed[k] = ReadPage(x, k, 0, Wanted(x, k), FALSE)
             /\ Shows(x, listed[k], Lo(k), Wanted(x, k))
             /\ Lo(k) + Wanted(x, k) <= Most(x)
             /\ Lo(k) \in Nat /\ Wanted(x, k) \in Int /\ Wanted(x, k) <= PAGE_SIZE
  <2> HIDE DEF shown, r, listed
  <2>1. k \in Nat /\ k > 0
    OBVIOUS
  <2>2. listed[k] = ReadPage(x, k, 0, Wanted(x, k), FALSE)
    BY <1>3
  <2>3. /\ Wanted(x, k) \in Int /\ Wanted(x, k) <= PAGE_SIZE /\ Lo(k) + Wanted(x, k) <= Most(x)
    BY <2>1, WantedOf
  <2>4. Lo(k) \in Nat /\ Shows(x, ReadPage(x, k, 0, Wanted(x, k), FALSE), Lo(k), Wanted(x, k))
    BY <2>1, <2>3, PageShows, Zenon
  <2> QED
    BY <2>2, <2>3, <2>4, Zenon
<1> HIDE DEF Lo
<1> DEFINE D == 1 .. n + 2
           lo == [k \in D |-> IF k = 1 THEN 0 ELSE Lo(k - 2)]
           len == [k \in D |-> IF k = 1 THEN shown ELSE Wanted(x, k - 2)]
<1> HIDE DEF shown, r, first, list, listed, pages
<1>7. /\ DOMAIN pages = D /\ pages[1] = first /\ pages[2] = list
      /\ \A k \in 3 .. n + 2 : pages[k] = listed[k - 2]
  <2> DEFINE V == {listed[k] : k \in 1 .. n}
  <2>1. listed \in Seq(V) /\ Len(listed) = n
    <3>1. listed \in [1 .. n -> V]
      <4> DEFINE F(k) == ReadPage(x, k, 0, Wanted(x, k), FALSE)
      <4>1. listed = [k \in 1 .. n |-> F(k)]
        BY <1>3
      <4> HIDE DEF F
      <4> QED
        BY <4>1
    <3> HIDE DEF V
    <3> QED
      BY <3>1
  <2> HIDE DEF V
  <2>2. pages[1] = first /\ pages[2] = list
    BY <1>2, <2>1
  <2>3. DOMAIN pages = 1 .. Len(listed) + 2
    BY <1>2, <2>1
  <2>4. \A k \in 3 .. n + 2 : pages[k] = listed[k - 2]
    BY <1>2, <2>1
  <2> QED
    BY <2>1, <2>2, <2>3, <2>4
<1>8. DataPages(pages) = {1} \cup 3 .. n + 2
  <2>1. pages[1].is_list_page = FALSE
    BY <1>5, <1>7 DEF Shows
  <2>2. \A k \in 3 .. n + 2 : pages[k].is_list_page = FALSE
    <3> TAKE k \in 3 .. n + 2
    <3>1. k - 2 \in 1 .. n
      OBVIOUS
    <3> QED
      BY <1>6, <1>7, <3>1 DEF Shows
  <2>3. pages[2].is_list_page = TRUE
    BY <1>4, <1>7
  <2>4. D = {1, 2} \cup 3 .. n + 2
    OBVIOUS
  <2> HIDE DEF D
  <2> QED
    BY <1>7, <2>1, <2>2, <2>3, <2>4 DEF DataPages
<1>9. lo[1] = 0 /\ len[1] = shown
  OBVIOUS
<1>10. ASSUME NEW k \in 3 .. n + 2
       PROVE  k - 2 \in 1 .. n /\ lo[k] = Lo(k - 2) /\ len[k] = Wanted(x, k - 2)
  OBVIOUS
<1> HIDE DEF lo, len, D
<1>11. ASSUME NEW j \in 1 .. n, NEW k \in 1 .. n, j < k PROVE Lo(j) + PAGE_SIZE <= Lo(k)
  <2>1. /\ j * PAGE_SIZE \in Int /\ k * PAGE_SIZE \in Int
        /\ j * PAGE_SIZE + PAGE_SIZE <= k * PAGE_SIZE
    BY <1>11, Pages
  <2> QED
    BY <1>1, <2>1 DEF Lo
<1>12. \A k \in 1 .. n : shown <= Lo(k)
  <2> TAKE k \in 1 .. n
  <2>1. 1 * PAGE_SIZE <= k * PAGE_SIZE /\ k * PAGE_SIZE \in Int
    BY Pages
  <2> QED
    BY <1>1, <2>1 DEF Lo
<1>13. Pieces(x, pages, lo, len)
  <2> DEFINE data == DataPages(pages)
  <2>1. data \subseteq Int /\ Most(x) \in Int
    BY <1>1, <1>8
  <2>2. ASSUME NEW k \in data
        PROVE  Shows(x, pages[k], lo[k], len[k]) /\ lo[k] + len[k] <= Most(x)
    <3>1. CASE k = 1
      BY <1>1, <1>5, <1>7, <1>9, <3>1
    <3>2. CASE k \in 3 .. n + 2
      <4>1. k - 2 \in 1 .. n /\ lo[k] = Lo(k - 2) /\ len[k] = Wanted(x, k - 2)
        BY <1>10, <3>2
      <4>2. pages[k] = listed[k - 2]
        BY <1>7, <3>2
      <4> QED
        BY <1>6, <4>1, <4>2
    <3> QED
      BY <1>8, <3>1, <3>2
  <2>3. ASSUME NEW j \in data, NEW k \in data, j < k PROVE lo[j] + len[j] <= lo[k]
    <3>1. k \in 3 .. n + 2 /\ j \in {1} \cup 3 .. n + 2
      BY <1>8, <2>3
    <3>2. k - 2 \in 1 .. n /\ lo[k] = Lo(k - 2) /\ Lo(k - 2) \in Nat
      BY <1>6, <1>10, <3>1
    <3>3. CASE j = 1
      BY <1>1, <1>9, <1>12, <3>2, <3>3
    <3>4. CASE j \in 3 .. n + 2
      <4>1. /\ j - 2 \in 1 .. n /\ lo[j] = Lo(j - 2) /\ len[j] = Wanted(x, j - 2)
            /\ Lo(j - 2) \in Nat /\ Wanted(x, j - 2) \in Int /\ Wanted(x, j - 2) <= PAGE_SIZE
        BY <1>6, <1>10, <3>4
      <4>2. j - 2 < k - 2
        BY <2>3, <3>1, <3>4
      <4>3. Lo(j - 2) + PAGE_SIZE <= Lo(k - 2)
        BY <1>11, <3>2, <4>1, <4>2
      <4> QED
        BY <1>1, <3>2, <4>1, <4>3
    <3> QED
      BY <3>1, <3>3, <3>4
  <2>4. ASSUME x.faults = {}, NEW b \in 0 .. Most(x) - 1
        PROVE  \E k \in data : lo[k] <= b /\ b < lo[k] + len[k]
    <3>1. CASE b < shown
      <4>1. 1 \in data /\ lo[1] <= b /\ b < lo[1] + len[1]
        BY <1>1, <1>8, <1>9, <3>1
      <4> QED
        BY <4>1
    <3>2. CASE ~(b < shown)
      <4>1. b \in shown .. Most(x) - 1
        BY <1>1, <3>2
      <4>2. PICK k \in 1 .. n : Lo(k) <= b /\ b < Lo(k) + Wanted(x, k)
        BY <1>3, <2>4, <4>1
      <4>3. k + 2 \in 3 .. n + 2 /\ (k + 2) - 2 = k
        OBVIOUS
      <4>4. lo[k + 2] = Lo(k) /\ len[k + 2] = Wanted(x, k) /\ k + 2 \in data
        BY <1>8, <1>10, <4>3
      <4> QED
        BY <4>2, <4>4
    <3> QED
      BY <3>1, <3>2
  <2> HIDE DEF data
  <2> QED
    BY <2>1, <2>2, <2>3, <2>4 DEF Pieces, data
<1> QED
  BY <1>13, PiecesShowPrefix DEF pages

(* Whatever the transfer. *)
LEMMA PrefixShown ==
    ASSUME NEW x \in Transfers(MaxLen)
    PROVE  ShowsPrefix(x)
<1>1. x.total_len \in Nat /\ Remaining(x) \in Nat /\ ShownFirst(x) \in Nat /\ MAX_PAGE_DUMP \in Nat
  BY Sizes
<1>2. x.total_len <= 0 \/ x.total_len > 0
  BY <1>1
<1>3. Remaining(x) <= 0 \/ Remaining(x) > 0
  BY <1>1
<1>4. ShownFirst(x) >= MAX_PAGE_DUMP \/ ShownFirst(x) < MAX_PAGE_DUMP
  BY <1>1
<1> QED
  BY <1>2, <1>3, <1>4, FirstPageOnly, TwoPages, MorePagesThanTwo, Zenon

-----------------------------------------------------------------------------
(* The definitions of fio's jobs.                                          *)

ValuesIn(tokens) == {Absent} \cup {tokens[i][2] : i \in 1 .. Len(tokens)}
OptionsIn(tokens) == [Options -> ValuesIn(tokens)]
JobsIn(tokens) == [name : ValuesIn(tokens), opts : OptionsIn(tokens)]

(* What the loops over the tokens keep. *)
Parsing(tokens) ==
    {d \in [globals : OptionsIn(tokens), jobs : Seq(JobsIn(tokens)), open : BOOLEAN] :
       d.open => d.jobs # <<>>}

(* What one token does to it. *)
LEMMA TakeName ==
    ASSUME NEW tokens, NEW d \in Parsing(tokens), NEW i \in 1 .. Len(tokens), tokens[i][1] = "name"
    PROVE  LET e == TakeToken(d, tokens[i])
           IN /\ e \in Parsing(tokens) /\ e.globals = d.globals /\ e.open = TRUE
              /\ e.jobs = Append(d.jobs, [name |-> tokens[i][2], opts |-> d.globals])
<1> DEFINE e == TakeToken(d, tokens[i])
           job == [name |-> tokens[i][2], opts |-> d.globals]
           J == JobsIn(tokens)
           O == OptionsIn(tokens)
<1>1. d \in [globals : O, jobs : Seq(J), open : BOOLEAN]
  BY DEF Parsing
<1>2. job \in J
  <2>1. tokens[i][2] \in ValuesIn(tokens)
    BY DEF ValuesIn
  <2> QED
    BY <1>1, <2>1 DEF JobsIn
<1>3. e = [d EXCEPT !.jobs = Append(@, job), !.open = TRUE]
  BY DEF TakeToken, Options
<1> HIDE DEF e, J, O, job
<1>4. Append(d.jobs, job) \in Seq(J) /\ Append(d.jobs, job) # <<>>
  BY <1>1, <1>2
<1>5. /\ e.globals = d.globals /\ e.open = TRUE /\ e.jobs = Append(d.jobs, job)
      /\ e \in [globals : O, jobs : Seq(J), open : BOOLEAN]
  BY <1>1, <1>3, <1>4
<1> QED
  BY <1>4, <1>5 DEF e, J, O, job, Parsing

LEMMA TakeGlobal ==
    ASSUME NEW tokens, NEW d \in Parsing(tokens), NEW i \in 1 .. Len(tokens), tokens[i][1] = "global"
    PROVE  LET e == TakeToken(d, tokens[i])
           IN /\ e \in Parsing(tokens) /\ e.globals = d.globals /\ e.open = FALSE /\ e.jobs = d.jobs
<1> DEFINE e == TakeToken(d, tokens[i])
           J == JobsIn(tokens)
           O == OptionsIn(tokens)
<1>1. d \in [globals : O, jobs : Seq(J), open : BOOLEAN]
  BY DEF Parsing
<1>2. e = [d EXCEPT !.open = FALSE]
  BY DEF TakeToken, Options
<1> HIDE DEF e, J, O
<1>3. /\ e.globals = d.globals /\ e.open = FALSE /\ e.jobs = d.jobs
      /\ e \in [globals : O, jobs : Seq(J), open : BOOLEAN]
  BY <1>1, <1>2
<1> QED
  BY <1>3 DEF e, J, O, Parsing

LEMMA TakeDefault ==
    ASSUME NEW tokens, NEW d \in Parsing(tokens), NEW i \in 1 .. Len(tokens),
           tokens[i][1] \in Options, ~d.open
    PROVE  LET e == TakeToken(d, tokens[i])
           IN /\ e \in Parsing(tokens) /\ e.jobs = d.jobs /\ e.open = FALSE
              /\ \A k \in Options : e.globals[k] = IF k = tokens[i][1] THEN tokens[i][2] ELSE d.globals[k]
<1> DEFINE e == TakeToken(d, tokens[i])
           J == JobsIn(tokens)
           O == OptionsIn(tokens)
           V == ValuesIn(tokens)
           key == tokens[i][1]
           value == tokens[i][2]
<1>1. d \in [globals : O, jobs : Seq(J), open : BOOLEAN]
  BY DEF Parsing
<1>2. e = [d EXCEPT !.globals[key] = value]
  BY DEF TakeToken, Options
<1>3. value \in V /\ O = [Options -> V]
  BY DEF ValuesIn, OptionsIn
<1> HIDE DEF e, J, O, V, value
<1>4. d.globals \in [Options -> V] /\ d.open = FALSE /\ d.jobs \in Seq(J)
  BY <1>1, <1>3
<1>5. e = [globals |-> [d.globals EXCEPT ![key] = value], jobs |-> d.jobs, open |-> d.open]
  BY <1>1, <1>2
<1>6. [d.globals EXCEPT ![key] = value] \in [Options -> V]
  BY <1>3, <1>4
<1>7. \A k \in Options : e.globals[k] = IF k = key THEN value ELSE d.globals[k]
  BY <1>4, <1>5
<1>8. e.jobs = d.jobs /\ e.open = FALSE /\ e \in [globals : O, jobs : Seq(J), open : BOOLEAN]
  BY <1>3, <1>4, <1>5, <1>6
<1> QED
  BY <1>7, <1>8 DEF e, J, O, value, Parsing

\* The last job gets an option, and nothing else changes.
LastGets(d, e, key, value) ==
    LET n == Len(d.jobs)
    IN /\ e.globals = d.globals /\ e.open = TRUE
       /\ n \in Nat /\ n > 0 /\ Len(e.jobs) = n
       /\ \A l \in 1 .. n :
             /\ e.jobs[l].name = d.jobs[l].name
             /\ \A k \in Options :
                   e.jobs[l].opts[k] = IF l = n /\ k = key THEN value ELSE d.jobs[l].opts[k]

LEMMA TakeOwn ==
    ASSUME NEW tokens, NEW d \in Parsing(tokens), NEW i \in 1 .. Len(tokens),
           tokens[i][1] \in Options, d.open
    PROVE  /\ TakeToken(d, tokens[i]) \in Parsing(tokens)
           /\ LastGets(d, TakeToken(d, tokens[i]), tokens[i][1], tokens[i][2])
<1> DEFINE e == TakeToken(d, tokens[i])
           n == Len(d.jobs)
           J == JobsIn(tokens)
           O == OptionsIn(tokens)
           V == ValuesIn(tokens)
           key == tokens[i][1]
           value == tokens[i][2]
<1>1. d \in [globals : O, jobs : Seq(J), open : BOOLEAN] /\ d.jobs # <<>>
  BY DEF Parsing
<1>2. e = [d EXCEPT !.jobs[n].opts[key] = value]
  BY DEF TakeToken, Options
<1>3. value \in V /\ O = [Options -> V] /\ J = [name : V, opts : O]
  BY DEF ValuesIn, OptionsIn, JobsIn
<1> HIDE DEF e, J, O, V, value, key
<1>4. d.jobs \in Seq(J) /\ d.open = TRUE /\ d.globals \in O
  BY <1>1
<1> DEFINE new == [d.jobs[n] EXCEPT !.opts[key] = value]
           jobs == [d.jobs EXCEPT ![n] = new]
<1>5. e = [globals |-> d.globals, jobs |-> jobs, open |-> d.open]
  BY <1>1, <1>2
<1>6. n \in Nat /\ n > 0 /\ d.jobs[n] \in J
  BY <1>1, <1>4
<1>7. /\ new \in J /\ new.name = d.jobs[n].name
      /\ \A k \in Options : new.opts[k] = IF k = key THEN value ELSE d.jobs[n].opts[k]
  <2> DEFINE old == d.jobs[n]
  <2> HIDE DEF old
  <2>1. old \in [name : V, opts : [Options -> V]]
    BY <1>3, <1>6 DEF old
  <2>2. new = [old EXCEPT !.opts[key] = value]
    BY DEF old
  <2> HIDE DEF new
  <2>3. new = [name |-> old.name, opts |-> [old.opts EXCEPT ![key] = value]]
    BY <2>1, <2>2
  <2>4. old.name \in V /\ old.opts \in [Options -> V]
    BY <2>1
  <2>5. [old.opts EXCEPT ![key] = value] \in [Options -> V]
    BY <1>3, <2>4
  <2>6. \A k \in Options : [old.opts EXCEPT ![key] = value][k] = IF k = key THEN value ELSE old.opts[k]
    BY <2>4
  <2>7. new \in [name : V, opts : [Options -> V]]
    BY <2>3, <2>4, <2>5
  <2> QED
    BY <1>3, <2>3, <2>6, <2>7 DEF old
<1> HIDE DEF new
<1>8. /\ jobs \in Seq(J) /\ Len(jobs) = n
      /\ \A l \in 1 .. n : jobs[l] = IF l = n THEN new ELSE d.jobs[l]
  <2> DEFINE s == d.jobs
  <2> HIDE DEF s
  <2>1. s \in Seq(J) /\ Len(s) = n
    BY <1>4 DEF s
  <2> HIDE DEF n
  <2> QED
    BY <1>6, <1>7, <2>1 DEF s
<1> HIDE DEF n, jobs
<1>9. e.globals = d.globals /\ e.open = TRUE /\ e.jobs = jobs
  BY <1>4, <1>5
<1>10. jobs # <<>>
  BY <1>6, <1>8
<1>11. e \in [globals : O, jobs : Seq(J), open : BOOLEAN]
  BY <1>4, <1>5, <1>8
<1>12. e \in Parsing(tokens)
  BY <1>9, <1>10, <1>11 DEF J, O, Parsing
<1>13. \A l \in 1 .. n :
         /\ e.jobs[l].name = d.jobs[l].name
         /\ \A k \in Options : e.jobs[l].opts[k] =
               IF l = n /\ k = key THEN value ELSE d.jobs[l].opts[k]
  BY <1>7, <1>8, <1>9
<1> QED
  BY <1>6, <1>8, <1>9, <1>12, <1>13 DEF e, n, value, key, LastGets

(* The recursive function with which a definition is parsed. *)
Parsed(g, tokens) ==
    g = [i \in 0 .. Len(tokens) |-> IF i = 0 THEN NoJobs ELSE TakeToken(g[i - 1], tokens[i])]

LEMMA TakeTyped ==
    ASSUME NEW tokens, IsDefinition(tokens), NEW d \in Parsing(tokens), NEW i \in 1 .. Len(tokens)
    PROVE  TakeToken(d, tokens[i]) \in Parsing(tokens)
<1>1. tokens[i][1] \in Options \cup {"name", "global"}
  BY DEF IsDefinition
<1>2. CASE tokens[i][1] = "name"
  BY <1>2, TakeName
<1>3. CASE tokens[i][1] = "global"
  BY <1>3, TakeGlobal
<1>4. CASE tokens[i][1] \in Options /\ d.open
  BY <1>4, TakeOwn
<1>5. CASE tokens[i][1] \in Options /\ ~d.open
  BY <1>5, TakeDefault
<1> QED
  BY <1>1, <1>2, <1>3, <1>4, <1>5

LEMMA ParsedStart ==
    ASSUME NEW tokens
    PROVE  NoJobs \in Parsing(tokens)
<1>1. NoOptions \in OptionsIn(tokens)
  BY DEF NoOptions, OptionsIn, ValuesIn
<1> QED
  BY <1>1 DEF NoJobs, Parsing

LEMMA ParsedExists ==
    ASSUME NEW tokens, IsDefinition(tokens)
    PROVE  \E g : Parsed(g, tokens)
<1> DEFINE n == Len(tokens)
           V == Parsing(tokens)
           step == [v \in V |-> [i \in 1 .. n |-> TakeToken(v, tokens[i])]]
           base == NoJobs
<1>0. n \in Nat
  BY DEF IsDefinition
<1>1. \A v \in V, i \in 1 .. n : TakeToken(v, tokens[i]) \in V
  BY TakeTyped
<1>2. base \in V
  BY ParsedStart
<1> HIDE DEF V
<1>3. step \in [V -> [1 .. n -> V]]
  <2>1. \A v \in V : [i \in 1 .. n |-> TakeToken(v, tokens[i])] \in [1 .. n -> V]
    BY <1>1
  <2> QED
    BY <2>1
<1>4. PICK g : Follows(g, n, V, base, step)
  <2> HIDE DEF step, n, base
  <2> QED
    BY <1>0, <1>2, <1>3, Recursion
<1> HIDE DEF base
<1>5. g \in [0 .. n -> V] /\ g[0] = base
  BY <1>4 DEF Follows
<1>6. \A i \in 1 .. n : g[i] = TakeToken(g[i - 1], tokens[i])
  <2> TAKE i \in 1 .. n
  <2>1. g[i - 1] \in V
    BY <1>5
  <2>2. step[g[i - 1]][i] = TakeToken(g[i - 1], tokens[i])
    BY <2>1
  <2> HIDE DEF step
  <2> QED
    BY <1>4, <2>2 DEF Follows
<1>7. g = [i \in 0 .. n |-> IF i = 0 THEN base ELSE TakeToken(g[i - 1], tokens[i])]
  BY <1>5, <1>6
<1> QED
  BY <1>7 DEF Parsed, base

(* The heads of jobs. *)
LEMMA HeadsCount ==
    ASSUME NEW tokens, NEW m \in Nat
    PROVE  /\ IsFiniteSet(Heads(tokens, m)) /\ Cardinality(Heads(tokens, m)) \in Nat
           /\ \A i \in Heads(tokens, m) :
                /\ i \in 1 .. m /\ i \in Heads(tokens, i) /\ Heads(tokens, i) \subseteq Heads(tokens, m)
                /\ Cardinality(Heads(tokens, i)) \in 1 .. Cardinality(Heads(tokens, m))
<1>1. \A l \in Nat : IsFiniteSet(Heads(tokens, l)) /\ Cardinality(Heads(tokens, l)) \in Nat
  <2> TAKE l \in Nat
  <2>1. IsFiniteSet(1 .. l)
    BY FS_Interval
  <2>2. Heads(tokens, l) \subseteq 1 .. l
    BY DEF Heads
  <2> QED
    BY <2>1, <2>2, FS_Subset, FS_CardinalityType
<1>2. ASSUME NEW i \in Heads(tokens, m)
      PROVE  /\ i \in 1 .. m /\ i \in Heads(tokens, i) /\ Heads(tokens, i) \subseteq Heads(tokens, m)
             /\ Cardinality(Heads(tokens, i)) \in 1 .. Cardinality(Heads(tokens, m))
  <2>1. i \in 1 .. m /\ i \in Heads(tokens, i) /\ Heads(tokens, i) \subseteq Heads(tokens, m)
    BY DEF Heads
  <2>2. IsFiniteSet(Heads(tokens, i)) /\ Cardinality(Heads(tokens, i)) \in Nat
    BY <1>1, <2>1
  <2>3. Cardinality(Heads(tokens, i)) <= Cardinality(Heads(tokens, m))
    BY <1>1, <2>1, FS_Subset
  <2>4. Cardinality(Heads(tokens, i)) # 0
    BY <2>1, <2>2, FS_EmptySet
  <2> QED
    BY <1>1, <2>1, <2>2, <2>3, <2>4
<1> QED
  BY <1>1, <1>2

(* While a job is open, it is the last one. *)
LEMMA OpenIsLast ==
    ASSUME NEW tokens, NEW m \in Nat, JobOpen(tokens, m), NEW i \in Heads(tokens, m)
    PROVE  Cardinality(Heads(tokens, i)) = Cardinality(Heads(tokens, m)) <=> InJob(tokens, i, m)
<1>1. /\ IsFiniteSet(Heads(tokens, m)) /\ i \in 1 .. m /\ Heads(tokens, i) \subseteq Heads(tokens, m)
  BY HeadsCount
<1>2. PICK l \in Heads(tokens, m) : InJob(tokens, l, m)
  BY DEF JobOpen
<1>3. l \in 1 .. m
  BY DEF Heads
<1>4. ASSUME Cardinality(Heads(tokens, i)) = Cardinality(Heads(tokens, m)) PROVE InJob(tokens, i, m)
  <2>1. Heads(tokens, i) = Heads(tokens, m)
    BY <1>1, <1>4, FS_Subset
  <2>2. l \in 1 .. i
    BY <2>1 DEF Heads
  <2>3. \A h \in i + 1 .. m : h \in l + 1 .. m
    BY <1>1, <1>3, <2>2
  <2> QED
    BY <1>2, <2>3 DEF InJob
<1>5. ASSUME InJob(tokens, i, m)
      PROVE  Cardinality(Heads(tokens, i)) = Cardinality(Heads(tokens, m))
  <2>1. \A h \in 1 .. m : tokens[h][1] = "name" => h \in 1 .. i
    <3> TAKE h \in 1 .. m
    <3>1. h \in 1 .. i \/ h \in i + 1 .. m
      BY <1>1
    <3> QED
      BY <1>5, <3>1 DEF InJob
  <2>2. Heads(tokens, m) \subseteq Heads(tokens, i)
    BY <2>1 DEF Heads
  <2>3. Heads(tokens, m) = Heads(tokens, i)
    BY <1>1, <2>2
  <2> QED
    BY <2>3
<1> QED
  BY <1>4, <1>5

(* A later place is the latest. *)
LEMMA LatestAdds ==
    ASSUME NEW tokens, NEW m \in Nat, NEW places \in SUBSET (1 .. m)
    PROVE  Latest(tokens, places \cup {m + 1}) = tokens[m + 1][2]
<1> DEFINE T == places \cup {m + 1}
<1>1. m + 1 \in T /\ \A y \in T : m + 1 >= y /\ y \in Int
  OBVIOUS
<1> HIDE DEF T
<1>2. Max(T) \in T /\ \A y \in T : Max(T) >= y
  BY <1>1 DEF Max
<1>3. Max(T) = m + 1
  BY <1>1, <1>2
<1> QED
  BY <1>1, <1>3 DEF Latest, T

(* What the next token, an option, changes in the rule. *)
LEMMA RuleAtOption ==
    ASSUME NEW tokens, NEW m \in Nat, tokens[m + 1][1] \in Options
    PROVE  /\ Heads(tokens, m + 1) = Heads(tokens, m)
           /\ JobOpen(tokens, m + 1) = JobOpen(tokens, m)
           /\ \A k \in Options :
                General(tokens, m + 1, k)
                  = IF k = tokens[m + 1][1] /\ ~JobOpen(tokens, m)
                    THEN General(tokens, m, k) \cup {m + 1} ELSE General(tokens, m, k)
           /\ \A k \in Options : \A i \in 1 .. m :
                Own(tokens, i, m + 1, k)
                  = IF k = tokens[m + 1][1] /\ InJob(tokens, i, m)
                    THEN Own(tokens, i, m, k) \cup {m + 1} ELSE Own(tokens, i, m, k)
<1>1. tokens[m + 1][1] \notin {"name", "global"}
  BY DEF Options
<1>2. Heads(tokens, m + 1) = Heads(tokens, m)
  BY <1>1 DEF Heads
<1>3. \A i \in 1 .. m : InJob(tokens, i, m + 1) <=> InJob(tokens, i, m)
  <2> TAKE i \in 1 .. m
  <2>1. i + 1 .. m + 1 = (i + 1 .. m) \cup {m + 1}
    OBVIOUS
  <2> QED
    BY <1>1, <2>1 DEF InJob
<1>4. JobOpen(tokens, m + 1) = JobOpen(tokens, m)
  <2>1. \A i \in Heads(tokens, m) : i \in 1 .. m
    BY DEF Heads
  <2>2. JobOpen(tokens, m + 1) <=> JobOpen(tokens, m)
    BY <1>2, <1>3, <2>1 DEF JobOpen
  <2>3. JobOpen(tokens, m + 1) \in BOOLEAN /\ JobOpen(tokens, m) \in BOOLEAN
    BY DEF JobOpen
  <2> QED
    BY <2>2, <2>3
<1>5. ASSUME NEW k \in Options
      PROVE  General(tokens, m + 1, k)
               = IF k = tokens[m + 1][1] /\ ~JobOpen(tokens, m)
                 THEN General(tokens, m, k) \cup {m + 1} ELSE General(tokens, m, k)
  <2>1. 1 .. m + 1 = (1 .. m) \cup {m + 1}
    OBVIOUS
  <2>2. CASE k = tokens[m + 1][1] /\ ~JobOpen(tokens, m)
    BY <1>4, <2>1, <2>2 DEF General
  <2>3. CASE ~(k = tokens[m + 1][1] /\ ~JobOpen(tokens, m))
    BY <1>4, <2>1, <2>3 DEF General
  <2> QED
    BY <2>2, <2>3
<1>6. ASSUME NEW k \in Options, NEW i \in 1 .. m
      PROVE  Own(tokens, i, m + 1, k)
               = IF k = tokens[m + 1][1] /\ InJob(tokens, i, m)
                 THEN Own(tokens, i, m, k) \cup {m + 1} ELSE Own(tokens, i, m, k)
  <2>1. i + 1 .. m + 1 = (i + 1 .. m) \cup {m + 1}
    OBVIOUS
  <2>2. InJob(tokens, i, m + 1) <=> InJob(tokens, i, m)
    BY <1>3
  <2>3. CASE k = tokens[m + 1][1] /\ InJob(tokens, i, m)
    BY <2>1, <2>2, <2>3 DEF Own
  <2>4. CASE ~(k = tokens[m + 1][1] /\ InJob(tokens, i, m))
    BY <2>1, <2>2, <2>4 DEF Own
  <2> QED
    BY <2>3, <2>4
<1> QED
  BY <1>2, <1>4, <1>5, <1>6

(* What the head of a section changes. *)
LEMMA RuleAtHead ==
    ASSUME NEW tokens, NEW m \in Nat, tokens[m + 1][1] \in {"name", "global"}
    PROVE  /\ Heads(tokens, m + 1)
                = IF tokens[m + 1][1] = "name" THEN Heads(tokens, m) \cup {m + 1} ELSE Heads(tokens, m)
           /\ JobOpen(tokens, m + 1) = (tokens[m + 1][1] = "name")
           /\ \A k \in Options : General(tokens, m + 1, k) = General(tokens, m, k)
           /\ \A k \in Options : \A i \in 1 .. m : Own(tokens, i, m + 1, k) = Own(tokens, i, m, k)
           /\ \A k \in Options : Own(tokens, m + 1, m + 1, k) = {}
<1>0. tokens[m + 1][1] \notin Options /\ 1 .. m + 1 = (1 .. m) \cup {m + 1}
  BY DEF Options
<1>1. Heads(tokens, m + 1)
        = IF tokens[m + 1][1] = "name" THEN Heads(tokens, m) \cup {m + 1} ELSE Heads(tokens, m)
  BY <1>0 DEF Heads
<1>2. JobOpen(tokens, m + 1) <=> tokens[m + 1][1] = "name"
  <2>1. CASE tokens[m + 1][1] = "name"
    <3>1. m + 1 \in Heads(tokens, m + 1)
      BY <1>1, <2>1
    <3>2. InJob(tokens, m + 1, m + 1)
      BY DEF InJob
    <3> QED
      BY <2>1, <3>1, <3>2 DEF JobOpen
  <2>2. CASE tokens[m + 1][1] # "name"
    <3>1. \A i \in Heads(tokens, m + 1) : i \in 1 .. m
      BY <1>1, <2>2 DEF Heads
    <3>2. \A i \in 1 .. m : ~InJob(tokens, i, m + 1)
      <4> TAKE i \in 1 .. m
      <4>1. m + 1 \in i + 1 .. m + 1
        OBVIOUS
      <4> QED
        BY <4>1 DEF InJob
    <3> QED
      BY <2>2, <3>1, <3>2 DEF JobOpen
  <2> QED
    BY <2>1, <2>2
<1>3. JobOpen(tokens, m + 1) = (tokens[m + 1][1] = "name")
  <2>1. JobOpen(tokens, m + 1) \in BOOLEAN
    BY DEF JobOpen
  <2> QED
    BY <1>2, <2>1
<1>4. \A k \in Options : General(tokens, m + 1, k) = General(tokens, m, k)
  BY <1>0 DEF General
<1>5. ASSUME NEW k \in Options, NEW i \in 1 .. m
      PROVE  Own(tokens, i, m + 1, k) = Own(tokens, i, m, k)
  <2>1. i + 1 .. m + 1 = (i + 1 .. m) \cup {m + 1}
    OBVIOUS
  <2> QED
    BY <1>0, <2>1 DEF Own
<1>6. \A k \in Options : Own(tokens, m + 1, m + 1, k) = {}
  BY DEF Own
<1> QED
  BY <1>1, <1>3, <1>4, <1>5, <1>6

(* After m tokens the loops have what the rule says of them. *)
ParsedTo(d, tokens, m) ==
    /\ d \in Parsing(tokens)
    /\ d.open = JobOpen(tokens, m)
    /\ \A k \in Options : d.globals[k] = Latest(tokens, General(tokens, m, k))
    /\ Len(d.jobs) = Cardinality(Heads(tokens, m))
    /\ \A i \in Heads(tokens, m) :
         LET n == Cardinality(Heads(tokens, i))
         IN /\ d.jobs[n].name = tokens[i][2]
            /\ \A k \in Options : d.jobs[n].opts[k] = OptionOf(tokens, i, m, k)

LEMMA ParsedNone ==
    ASSUME NEW tokens
    PROVE  ParsedTo(NoJobs, tokens, 0)
<1>1. Heads(tokens, 0) = {} /\ \A k \in Options : General(tokens, 0, k) = {}
  BY DEF Heads, General
<1>2. JobOpen(tokens, 0) = FALSE
  <2>1. JobOpen(tokens, 0) \in BOOLEAN
    BY DEF JobOpen
  <2> QED
    BY <1>1, <2>1 DEF JobOpen
<1>3. Cardinality({}) = 0
  BY FS_EmptySet
<1>4. NoJobs.open = FALSE /\ NoJobs.jobs = <<>> /\ \A k \in Options : NoJobs.globals[k] = Absent
  BY DEF NoJobs, NoOptions
<1> QED
  BY <1>1, <1>2, <1>3, <1>4, ParsedStart DEF ParsedTo, Latest

LEMMA ParsedName ==
    ASSUME NEW tokens, NEW m \in Nat, m + 1 \in 1 .. Len(tokens), NEW d, ParsedTo(d, tokens, m),
           tokens[m + 1][1] = "name"
    PROVE  ParsedTo(TakeToken(d, tokens[m + 1]), tokens, m + 1)
<1> DEFINE e == TakeToken(d, tokens[m + 1])
           job == [name |-> tokens[m + 1][2], opts |-> d.globals]
           H == Heads(tokens, m)
           c == Cardinality(H)
           Place(i) == Cardinality(Heads(tokens, i))
<1>0. /\ d \in Parsing(tokens) /\ Len(d.jobs) = c
      /\ \A k \in Options : d.globals[k] = Latest(tokens, General(tokens, m, k))
      /\ \A i \in H : /\ d.jobs[Place(i)].name = tokens[i][2]
                      /\ \A k \in Options : d.jobs[Place(i)].opts[k] = OptionOf(tokens, i, m, k)
  BY DEF ParsedTo
<1>1. /\ e \in Parsing(tokens) /\ e.globals = d.globals /\ e.open = TRUE
      /\ e.jobs = Append(d.jobs, job)
  BY <1>0, TakeName
<1>2. /\ Heads(tokens, m + 1) = H \cup {m + 1} /\ JobOpen(tokens, m + 1) = TRUE
      /\ \A k \in Options : General(tokens, m + 1, k) = General(tokens, m, k)
      /\ \A k \in Options : \A i \in 1 .. m : Own(tokens, i, m + 1, k) = Own(tokens, i, m, k)
      /\ \A k \in Options : Own(tokens, m + 1, m + 1, k) = {}
  BY RuleAtHead
<1>3. /\ IsFiniteSet(H) /\ c \in Nat
      /\ \A i \in H : i \in 1 .. m /\ Place(i) \in 1 .. c
  BY HeadsCount
<1>4. Place(m + 1) = c + 1
  <2>1. m + 1 \notin H
    BY DEF Heads
  <2> QED
    BY <1>2, <1>3, <2>1, FS_AddElement
<1>5. /\ Len(e.jobs) = c + 1 /\ e.jobs[c + 1] = job
      /\ \A n \in 1 .. c : e.jobs[n] = d.jobs[n]
  <2> HIDE DEF e, job, c
  <2>1. d.jobs \in Seq(JobsIn(tokens))
    BY <1>0 DEF Parsing
  <2>2. Append(d.jobs, job) \in Seq(JobsIn(tokens) \cup {job})
    BY <2>1
  <2> QED
    BY <1>0, <1>1, <1>3, <2>1, <2>2
<1> HIDE DEF e, H, c, Place
<1>6. ASSUME NEW i \in H, NEW k \in Options
      PROVE  OptionOf(tokens, i, m + 1, k) = OptionOf(tokens, i, m, k)
  BY <1>2, <1>3 DEF OptionOf
<1>7. ASSUME NEW k \in Options
      PROVE  OptionOf(tokens, m + 1, m + 1, k) = d.globals[k]
  BY <1>0, <1>2 DEF OptionOf
<1>8. ASSUME NEW i \in Heads(tokens, m + 1)
      PROVE  /\ e.jobs[Place(i)].name = tokens[i][2]
             /\ \A k \in Options : e.jobs[Place(i)].opts[k] = OptionOf(tokens, i, m + 1, k)
  <2>1. CASE i \in H
    <3>1. Place(i) \in 1 .. c
      BY <1>3, <2>1
    <3>2. e.jobs[Place(i)] = d.jobs[Place(i)]
      BY <1>5, <3>1
    <3> QED
      BY <1>0, <1>6, <2>1, <3>2
  <2>2. CASE i = m + 1
    <3>1. e.jobs[Place(i)] = job
      BY <1>4, <1>5, <2>2
    <3> QED
      BY <1>7, <2>2, <3>1
  <2> QED
    BY <1>2, <2>1, <2>2
<1>9. \A k \in Options : e.globals[k] = Latest(tokens, General(tokens, m + 1, k))
  BY <1>0, <1>1, <1>2
<1>10. Len(e.jobs) = Cardinality(Heads(tokens, m + 1))
  BY <1>4, <1>5 DEF Place
<1> QED
  BY <1>1, <1>2, <1>8, <1>9, <1>10 DEF ParsedTo, Place, e

LEMMA ParsedGlobal ==
    ASSUME NEW tokens, NEW m \in Nat, m + 1 \in 1 .. Len(tokens), NEW d, ParsedTo(d, tokens, m),
           tokens[m + 1][1] = "global"
    PROVE  ParsedTo(TakeToken(d, tokens[m + 1]), tokens, m + 1)
<1> DEFINE e == TakeToken(d, tokens[m + 1])
<1>1. e \in Parsing(tokens) /\ e.globals = d.globals /\ e.open = FALSE /\ e.jobs = d.jobs
  BY TakeGlobal DEF ParsedTo
<1>2. /\ Heads(tokens, m + 1) = Heads(tokens, m) /\ JobOpen(tokens, m + 1) = FALSE
      /\ \A k \in Options : General(tokens, m + 1, k) = General(tokens, m, k)
      /\ \A k \in Options : \A i \in 1 .. m : Own(tokens, i, m + 1, k) = Own(tokens, i, m, k)
  BY RuleAtHead
<1>3. \A i \in Heads(tokens, m) : i \in 1 .. m
  BY DEF Heads
<1>4. ASSUME NEW i \in Heads(tokens, m), NEW k \in Options
      PROVE  OptionOf(tokens, i, m + 1, k) = OptionOf(tokens, i, m, k)
  BY <1>2, <1>3 DEF OptionOf
<1> HIDE DEF e
<1> QED
  BY <1>1, <1>2, <1>4 DEF ParsedTo, e

LEMMA ParsedDefault ==
    ASSUME NEW tokens, NEW m \in Nat, m + 1 \in 1 .. Len(tokens), NEW d, ParsedTo(d, tokens, m),
           tokens[m + 1][1] \in Options, ~d.open
    PROVE  ParsedTo(TakeToken(d, tokens[m + 1]), tokens, m + 1)
<1> DEFINE e == TakeToken(d, tokens[m + 1])
<1>0. d \in Parsing(tokens) /\ d.open = JobOpen(tokens, m)
  BY DEF ParsedTo
<1>1. /\ e \in Parsing(tokens) /\ e.jobs = d.jobs /\ e.open = FALSE
      /\ \A k \in Options : e.globals[k] =
            IF k = tokens[m + 1][1] THEN tokens[m + 1][2] ELSE d.globals[k]
  BY <1>0, TakeDefault
<1>2. /\ Heads(tokens, m + 1) = Heads(tokens, m)
      /\ JobOpen(tokens, m + 1) = JobOpen(tokens, m) /\ ~JobOpen(tokens, m)
      /\ \A k \in Options : General(tokens, m + 1, k)
           = IF k = tokens[m + 1][1] THEN General(tokens, m, k) \cup {m + 1} ELSE General(tokens, m, k)
  BY <1>0, RuleAtOption
<1>3. \A i \in Heads(tokens, m) : i \in 1 .. m /\ ~InJob(tokens, i, m)
  BY <1>2 DEF Heads, JobOpen
<1>4. \A k \in Options : \A i \in Heads(tokens, m) : Own(tokens, i, m + 1, k) = Own(tokens, i, m, k)
  BY <1>3, RuleAtOption
<1>5. ASSUME NEW i \in Heads(tokens, m), NEW k \in Options
      PROVE  OptionOf(tokens, i, m + 1, k) = OptionOf(tokens, i, m, k)
  BY <1>4 DEF OptionOf
<1>6. ASSUME NEW k \in Options
      PROVE  e.globals[k] = Latest(tokens, General(tokens, m + 1, k))
  <2>1. CASE k = tokens[m + 1][1]
    <3>1. General(tokens, m, k) \in SUBSET (1 .. m)
      BY DEF General
    <3>2. Latest(tokens, General(tokens, m, k) \cup {m + 1}) = tokens[m + 1][2]
      BY <3>1, LatestAdds
    <3> QED
      BY <1>1, <1>2, <2>1, <3>2
  <2>2. CASE k # tokens[m + 1][1]
    BY <1>1, <1>2, <2>2 DEF ParsedTo
  <2> QED
    BY <2>1, <2>2
<1>7. e.open = JobOpen(tokens, m + 1)
  BY <1>0, <1>1, <1>2 DEF Parsing
<1> HIDE DEF e
<1> QED
  BY <1>1, <1>2, <1>5, <1>6, <1>7 DEF ParsedTo, e

LEMMA ParsedOwn ==
    ASSUME NEW tokens, NEW m \in Nat, m + 1 \in 1 .. Len(tokens), NEW d, ParsedTo(d, tokens, m),
           tokens[m + 1][1] \in Options, d.open
    PROVE  ParsedTo(TakeToken(d, tokens[m + 1]), tokens, m + 1)
<1> DEFINE e == TakeToken(d, tokens[m + 1])
           key == tokens[m + 1][1]
           H == Heads(tokens, m)
           n == Len(d.jobs)
           Place(i) == Cardinality(Heads(tokens, i))
<1>0. /\ d \in Parsing(tokens) /\ d.open = JobOpen(tokens, m) /\ n = Cardinality(H)
      /\ \A i \in H : /\ d.jobs[Place(i)].name = tokens[i][2]
                      /\ \A k \in Options : d.jobs[Place(i)].opts[k] = OptionOf(tokens, i, m, k)
  BY DEF ParsedTo
<1>1. /\ e \in Parsing(tokens) /\ e.globals = d.globals /\ e.open = TRUE
      /\ n \in Nat /\ n > 0 /\ Len(e.jobs) = n
      /\ \A l \in 1 .. n :
            /\ e.jobs[l].name = d.jobs[l].name
            /\ \A k \in Options : e.jobs[l].opts[k] =
                  IF l = n /\ k = key THEN tokens[m + 1][2] ELSE d.jobs[l].opts[k]
  <2>1. d \in Parsing(tokens)
    BY <1>0
  <2>2. e \in Parsing(tokens) /\ LastGets(d, e, key, tokens[m + 1][2])
    BY <2>1, TakeOwn
  <2> HIDE DEF e, key
  <2> QED
    BY <2>2 DEF LastGets
<1>2. /\ Heads(tokens, m + 1) = H
      /\ JobOpen(tokens, m + 1) = JobOpen(tokens, m) /\ JobOpen(tokens, m)
      /\ \A k \in Options : General(tokens, m + 1, k) = General(tokens, m, k)
  BY <1>0, RuleAtOption
<1>3. \A i \in H : i \in 1 .. m /\ Place(i) \in 1 .. n /\ (Place(i) = n <=> InJob(tokens, i, m))
  BY <1>0, <1>2, HeadsCount, OpenIsLast
<1>4. \A k \in Options : \A i \in H :
        Own(tokens, i, m + 1, k)
          = IF k = key /\ InJob(tokens, i, m) THEN Own(tokens, i, m, k) \cup {m + 1}
            ELSE Own(tokens, i, m, k)
  BY <1>3, RuleAtOption
<1> HIDE DEF H, n, Place, e
<1>5. ASSUME NEW i \in H, NEW k \in Options
      PROVE  e.jobs[Place(i)].opts[k] = OptionOf(tokens, i, m + 1, k)
  <2>0. e.jobs[Place(i)].opts[k] = IF Place(i) = n /\ k = key THEN tokens[m + 1][2]
                                   ELSE d.jobs[Place(i)].opts[k]
    BY <1>1, <1>3
  <2>1. CASE k = key /\ InJob(tokens, i, m)
    <3>1. Own(tokens, i, m, k) \in SUBSET (1 .. m)
      BY <1>3 DEF Own
    <3>2. Own(tokens, i, m + 1, k) = Own(tokens, i, m, k) \cup {m + 1}
      BY <1>4, <2>1
    <3>3. Latest(tokens, Own(tokens, i, m + 1, k)) = tokens[m + 1][2]
      BY <3>1, <3>2, LatestAdds
    <3>4. OptionOf(tokens, i, m + 1, k) = tokens[m + 1][2]
      BY <3>2, <3>3 DEF OptionOf
    <3> QED
      BY <1>3, <2>0, <2>1, <3>4
  <2>2. CASE ~(k = key /\ InJob(tokens, i, m))
    <3>1. Own(tokens, i, m + 1, k) = Own(tokens, i, m, k)
      BY <1>4, <2>2
    <3>2. OptionOf(tokens, i, m + 1, k) = OptionOf(tokens, i, m, k)
      BY <3>1 DEF OptionOf
    <3> QED
      BY <1>0, <1>3, <2>0, <2>2, <3>2
  <2> QED
    BY <2>1, <2>2
<1>6. \A i \in H : e.jobs[Place(i)].name = tokens[i][2]
  BY <1>0, <1>1, <1>3
<1>7. e.open = JobOpen(tokens, m + 1)
  BY <1>0, <1>1, <1>2 DEF Parsing
<1>8. \A k \in Options : e.globals[k] = Latest(tokens, General(tokens, m + 1, k))
  BY <1>1, <1>2 DEF ParsedTo
<1>9. Len(e.jobs) = Cardinality(H)
  BY <1>0, <1>1
<1> QED
  BY <1>1, <1>2, <1>5, <1>6, <1>7, <1>8, <1>9 DEF ParsedTo, Place, e

(* The parsers read every definition by the rule. *)
LEMMA ParsedByRule ==
    ASSUME NEW tokens, IsDefinition(tokens)
    PROVE  \E d : Parse(tokens) = d.jobs /\ ParsedTo(d, tokens, Len(tokens))
<1> DEFINE m == Len(tokens)
           g == CHOOSE f : Parsed(f, tokens)
           I == {i \in 0 .. m : ParsedTo(g[i], tokens, i)}
<1>1. Parse(tokens) = g[m].jobs
  BY DEF Parse, Parsed
<1>2. Parsed(g, tokens) /\ m \in Nat
  BY ParsedExists DEF IsDefinition
<1> HIDE DEF g, m
<1>3. g[0] = NoJobs /\ \A i \in 1 .. m : g[i] = TakeToken(g[i - 1], tokens[i])
  BY <1>2 DEF Parsed, m
<1>4. 0 \in I
  BY <1>2, <1>3, ParsedNone
<1>5. ASSUME NEW i \in 1 .. m, i - 1 \in I PROVE i \in I
  <2>1. ParsedTo(g[i - 1], tokens, i - 1)
    BY <1>5
  <2> DEFINE p == i - 1
             d == g[i - 1]
  <2>2. p \in Nat /\ p + 1 \in 1 .. Len(tokens) /\ p + 1 = i
    BY DEF m
  <2>3. tokens[i][1] \in Options \cup {"name", "global"} /\ g[i] = TakeToken(d, tokens[i])
    BY <1>3 DEF IsDefinition, m
  <2> HIDE DEF p, d
  <2>4. ParsedTo(d, tokens, p)
    BY <2>1 DEF p, d
  <2>5. ParsedTo(TakeToken(d, tokens[p + 1]), tokens, p + 1)
    <3>1. CASE tokens[p + 1][1] = "name"
      BY <2>2, <2>4, <3>1, ParsedName
    <3>2. CASE tokens[p + 1][1] = "global"
      BY <2>2, <2>4, <3>2, ParsedGlobal
    <3>3. CASE tokens[p + 1][1] \in Options /\ d.open
      BY <2>2, <2>4, <3>3, ParsedOwn
    <3>4. CASE tokens[p + 1][1] \in Options /\ ~d.open
      BY <2>2, <2>4, <3>4, ParsedDefault
    <3> QED
      BY <2>2, <2>3, <3>1, <3>2, <3>3, <3>4
  <2> QED
    BY <2>2, <2>3, <2>5
<1>6. m \in I
  <2> HIDE DEF I
  <2>1. \A i \in 0 .. m : i \in I
    BY <1>2, <1>4, <1>5, Inductive
  <2> QED
    BY <1>2, <2>1
<1> QED
  BY <1>1, <1>6 DEF m

LEMMA OwnOptions ==
    ASSUME NEW tokens, IsDefinition(tokens)
    PROVE  OptionsAreOwn(tokens)
BY ParsedByRule DEF OptionsAreOwn, ParsedTo

-----------------------------------------------------------------------------
(* Sums over finite sets.                                                  *)

(* Of the subsets of a finite set, some one is smallest. *)
LEMMA Smallest ==
    ASSUME NEW T, IsFiniteSet(T), NEW B \in SUBSET (SUBSET T), B # {}
    PROVE  \E m \in B : \A s \in B : s \subseteq m => s = m
<1> DEFINE R == StrictSubsetOrdering(T)
           F == FiniteSubsetsOf(T)
<1>1. IsWellFoundedOn(R, F)
  BY FS_StrictSubsetOrderingWellFounded
<1>2. F = SUBSET T
  BY FS_FiniteSubsetsOfFinite
<1>3. \A u, v \in SUBSET T : u \subseteq v /\ u # v => <<u, v>> \in R
  BY DEF StrictSubsetOrdering
<1> HIDE DEF R, F
<1>4. PICK m \in B : \A s \in B : ~(<<s, m>> \in R)
  BY <1>1, <1>2, WFMin
<1> QED
  BY <1>3, <1>4

Pick(s) == CHOOSE x \in s : TRUE

(* g is the recursive function with which the sum over T is defined. *)
Sums(g, f, T) ==
    g = [s \in SUBSET T |-> IF s = {} THEN 0 ELSE f[Pick(s)] + g[s \ {Pick(s)}]]

LEMMA SumsStep ==
    ASSUME NEW f, NEW T, NEW g, Sums(g, f, T), NEW s \in SUBSET T
    PROVE  /\ s = {} => g[s] = 0
           /\ s # {} => /\ g[s] = f[Pick(s)] + g[s \ {Pick(s)}]
                        /\ Pick(s) \in s /\ s \ {Pick(s)} \in SUBSET T
<1>1. s # {} => Pick(s) \in s
  BY DEF Pick
<1>2. g[s] = IF s = {} THEN 0 ELSE f[Pick(s)] + g[s \ {Pick(s)}]
  BY DEF Sums
<1> QED
  BY <1>1, <1>2

(* Two such functions agree where both are defined. *)
LEMMA SumsAgree ==
    ASSUME NEW f, NEW T, IsFiniteSet(T), NEW U, NEW g, NEW h, Sums(g, f, T), Sums(h, f, U)
    PROVE  \A s \in SUBSET T : s \in SUBSET U => g[s] = h[s]
<1> DEFINE B == {s \in SUBSET T : s \in SUBSET U /\ g[s] # h[s]}
<1> SUFFICES ASSUME B # {} PROVE FALSE
  OBVIOUS
<1>1. PICK m \in B : \A s \in B : s \subseteq m => s = m
  <2>1. B \in SUBSET (SUBSET T)
    OBVIOUS
  <2> HIDE DEF B
  <2> QED
    BY <2>1, Smallest
<1>2. m \in SUBSET T /\ m \in SUBSET U /\ g[m] # h[m]
  OBVIOUS
<1>3. m # {}
  BY <1>2, SumsStep
<1> DEFINE r == m \ {Pick(m)}
<1>4. /\ g[m] = f[Pick(m)] + g[r] /\ h[m] = f[Pick(m)] + h[r]
      /\ Pick(m) \in m /\ r \in SUBSET T /\ r \in SUBSET U
  <2>1. g[m] = f[Pick(m)] + g[r] /\ Pick(m) \in m /\ r \in SUBSET T
    BY <1>2, <1>3, SumsStep
  <2>2. h[m] = f[Pick(m)] + h[r] /\ r \in SUBSET U
    BY <1>2, <1>3, SumsStep
  <2> QED
    BY <2>1, <2>2
<1>5. g[r] # h[r]
  BY <1>2, <1>4
<1> QED
  BY <1>1, <1>4, <1>5

(* There is such a function: put together from those of the smaller sets. *)
LEMMA SumsExist ==
    ASSUME NEW f, NEW T, IsFiniteSet(T)
    PROVE  \E g : Sums(g, f, T)
<1> DEFINE B == {s \in SUBSET T : ~ \E g : Sums(g, f, s)}
<1> SUFFICES ASSUME B # {} PROVE FALSE
  OBVIOUS
<1>1. PICK m \in B : \A s \in B : s \subseteq m => s = m
  <2>1. B \in SUBSET (SUBSET T)
    OBVIOUS
  <2> HIDE DEF B
  <2> QED
    BY <2>1, Smallest
<1> DEFINE G(s) == CHOOSE g : Sums(g, f, s)
           h == [s \in SUBSET m |->
                   IF s = {} THEN 0
                   ELSE f[Pick(s)] + G(s \ {Pick(s)})[s \ {Pick(s)}]]
<1>2. \A s \in SUBSET m : s # m => Sums(G(s), f, s) /\ IsFiniteSet(s)
  <2> TAKE s \in SUBSET m
  <2> SUFFICES ASSUME s # m PROVE Sums(G(s), f, s) /\ IsFiniteSet(s)
    OBVIOUS
  <2>1. s \in SUBSET T /\ s \notin B
    BY <1>1
  <2>2. \E g : Sums(g, f, s)
    BY <2>1
  <2> QED
    BY <2>1, <2>2, FS_Subset
<1> HIDE DEF G
<1>3. \A u \in SUBSET m : u # m => h[u] = G(u)[u]
  <2> SUFFICES ASSUME NEW u \in SUBSET m, u # m PROVE h[u] = G(u)[u]
    OBVIOUS
  <2>1. Sums(G(u), f, u) /\ u \in SUBSET u
    BY <1>2
  <2>2. CASE u = {}
    <3>1. h[u] = 0
      BY <2>2
    <3>2. G(u)[u] = 0
      BY <2>1, <2>2, SumsStep
    <3> QED
      BY <3>1, <3>2
  <2>3. CASE u # {}
    <3> DEFINE v == u \ {Pick(u)}
    <3>1. G(u)[u] = f[Pick(u)] + G(u)[v] /\ Pick(u) \in u /\ v \in SUBSET u
      BY <2>1, <2>3, SumsStep
    <3>2. h[u] = f[Pick(u)] + G(v)[v]
      BY <2>3
    <3>3. Sums(G(v), f, v) /\ IsFiniteSet(v)
      BY <1>2, <3>1
    <3>4. G(v)[v] = G(u)[v]
      BY <2>1, <3>1, <3>3, SumsAgree
    <3> QED
      BY <3>1, <3>2, <3>4
  <2> QED
    BY <2>2, <2>3
<1>4. \A s \in SUBSET m :
        h[s] = IF s = {} THEN 0 ELSE f[Pick(s)] + h[s \ {Pick(s)}]
  <2> TAKE s \in SUBSET m
  <2>1. CASE s = {}
    BY <2>1
  <2>2. CASE s # {}
    <3> DEFINE u == s \ {Pick(s)}
    <3>1. Pick(s) \in s
      BY <2>2 DEF Pick
    <3>2. u \in SUBSET m /\ u # m
      BY <3>1
    <3>3. h[u] = G(u)[u]
      BY <1>3, <3>2
    <3>4. h[s] = f[Pick(s)] + G(u)[u]
      BY <2>2
    <3> QED
      BY <2>2, <3>3, <3>4
  <2> QED
    BY <2>1, <2>2
<1>5. Sums(h, f, m)
  <2>1. h = [s \in SUBSET m |-> h[s]]
    OBVIOUS
  <2> HIDE DEF h
  <2> QED
    BY <1>4, <2>1 DEF Sums
<1> QED
  BY <1>5

(* The sum over the members of a set, one of them after the other. *)
LEMMA SumStep ==
    ASSUME NEW f, NEW T, IsFiniteSet(T)
    PROVE  /\ T = {} => SumOver(f, T) = 0
           /\ T # {} => /\ SumOver(f, T) = f[Pick(T)] + SumOver(f, T \ {Pick(T)})
                        /\ Pick(T) \in T
<1> DEFINE It(S) == CHOOSE g : Sums(g, f, S)
           r == T \ {Pick(T)}
<1>1. \A S : SumOver(f, S) = It(S)[S]
  BY DEF SumOver, MapThenSumSet, MapThenFoldSet, Sums, Pick
<1>2. Sums(It(T), f, T)
  BY SumsExist
<1>3. IsFiniteSet(r)
  BY FS_Subset
<1>4. Sums(It(r), f, r)
  BY <1>3, SumsExist
<1> HIDE DEF It
<1>5. T = {} => It(T)[T] = 0
  BY <1>2, SumsStep
<1>6. T # {} => It(T)[T] = f[Pick(T)] + It(T)[r] /\ Pick(T) \in T
  BY <1>2, SumsStep
<1>7. It(T)[r] = It(r)[r]
  BY <1>2, <1>3, <1>4, SumsAgree
<1> QED
  BY <1>1, <1>5, <1>6, <1>7

Numbers(f, T) == IsFiniteSet(T) /\ \A st \in T : f[st] \in Nat

(* A sum of numbers is a number. *)
LEMMA SumNat ==
    ASSUME NEW f, NEW T, Numbers(f, T)
    PROVE  \A s \in SUBSET T : SumOver(f, s) \in Nat /\ IsFiniteSet(s)
<1>1. \A s \in SUBSET T : IsFiniteSet(s)
  BY FS_Subset DEF Numbers
<1> DEFINE B == {s \in SUBSET T : SumOver(f, s) \notin Nat}
<1> SUFFICES ASSUME B # {} PROVE FALSE
  BY <1>1
<1>2. PICK m \in B : \A s \in B : s \subseteq m => s = m
  <2>1. B \in SUBSET (SUBSET T)
    OBVIOUS
  <2> HIDE DEF B
  <2> QED
    BY <2>1, Smallest DEF Numbers
<1>3. IsFiniteSet(m)
  BY <1>1
<1>4. m # {} /\ SumOver(f, m) = f[Pick(m)] + SumOver(f, m \ {Pick(m)}) /\ Pick(m) \in m
  <2>1. SumOver(f, m) \notin Nat
    OBVIOUS
  <2> HIDE DEF B
  <2>2. m = {} => SumOver(f, m) = 0
    BY <1>3, SumStep
  <2>3. m # {}
    BY <2>1, <2>2
  <2> QED
    BY <1>3, <2>3, SumStep
<1>5. SumOver(f, m \ {Pick(m)}) \in Nat /\ SumOver(f, m) \notin Nat
  BY <1>2, <1>4
<1>6. f[Pick(m)] \in Nat
  BY <1>4 DEF Numbers
<1> QED
  BY <1>4, <1>5, <1>6

(* Any member may be taken first. *)
LEMMA SumRemove ==
    ASSUME NEW f, NEW T, Numbers(f, T)
    PROVE  \A s \in SUBSET T : \A x \in s : SumOver(f, s) = f[x] + SumOver(f, s \ {x})
<1> DEFINE B == {s \in SUBSET T : \E x \in s : SumOver(f, s) # f[x] + SumOver(f, s \ {x})}
<1> SUFFICES ASSUME B # {} PROVE FALSE
  OBVIOUS
<1>1. PICK m \in B : \A s \in B : s \subseteq m => s = m
  <2>1. B \in SUBSET (SUBSET T)
    OBVIOUS
  <2> HIDE DEF B
  <2> QED
    BY <2>1, Smallest DEF Numbers
<1>2. PICK x \in m : SumOver(f, m) # f[x] + SumOver(f, m \ {x})
  OBVIOUS
<1> DEFINE y == Pick(m)
           both == (m \ {y}) \ {x}
<1>3. IsFiniteSet(m) /\ m \in SUBSET T
  BY SumNat
<1>4. SumOver(f, m) = f[y] + SumOver(f, m \ {y}) /\ y \in m
  BY <1>3, SumStep
<1>5. x # y
  BY <1>2, <1>4
<1> HIDE DEF y
<1>6. SumOver(f, m \ {y}) = f[x] + SumOver(f, both)
  <2>1. m \ {y} \in SUBSET T /\ m \ {y} # m /\ m \ {y} \subseteq m /\ x \in m \ {y}
    BY <1>3, <1>4, <1>5
  <2> QED
    BY <1>1, <2>1
<1>7. SumOver(f, m \ {x}) = f[y] + SumOver(f, both)
  <2>1. m \ {x} \in SUBSET T /\ m \ {x} # m /\ m \ {x} \subseteq m /\ y \in m \ {x}
    BY <1>3, <1>4, <1>5
  <2>2. (m \ {x}) \ {y} = both
    OBVIOUS
  <2>3. m \ {x} \notin B
    BY <1>1, <2>1
  <2> QED
    BY <2>1, <2>2, <2>3
<1>8. f[x] \in Nat /\ f[y] \in Nat /\ SumOver(f, both) \in Nat
  <2>1. both \in SUBSET T
    BY <1>3
  <2> QED
    BY <1>3, <1>4, <2>1, SumNat DEF Numbers
<1> QED
  BY <1>2, <1>4, <1>6, <1>7, <1>8

(* The sums of a part and of the rest add up. *)
LEMMA SumSplit ==
    ASSUME NEW f, NEW T, Numbers(f, T), NEW A
    PROVE  SumOver(f, T) = SumOver(f, T \cap A) + SumOver(f, T \ A)
<1> DEFINE B == {s \in SUBSET T : SumOver(f, s) # SumOver(f, s \cap A) + SumOver(f, s \ A)}
<1> SUFFICES ASSUME B # {} PROVE FALSE
  OBVIOUS
<1>1. PICK m \in B : \A s \in B : s \subseteq m => s = m
  <2>1. B \in SUBSET (SUBSET T)
    OBVIOUS
  <2> HIDE DEF B
  <2> QED
    BY <2>1, Smallest DEF Numbers
<1>2. m # {}
  <2>1. SumOver(f, {}) = 0
    BY FS_EmptySet, SumStep
  <2>2. {} \cap A = {} /\ {} \ A = {}
    OBVIOUS
  <2> QED
    BY <2>1, <2>2
<1>3. PICK x : x \in m
  BY <1>2
<1> DEFINE r == m \ {x}
<1>4. /\ m \in SUBSET T /\ r \in SUBSET T /\ r \subseteq m /\ r # m
      /\ m \cap A \in SUBSET T /\ m \ A \in SUBSET T
      /\ r \cap A \in SUBSET T /\ r \ A \in SUBSET T
  BY <1>3
<1>5. SumOver(f, r) = SumOver(f, r \cap A) + SumOver(f, r \ A)
  BY <1>1, <1>4
<1>6. SumOver(f, m) = f[x] + SumOver(f, r)
  BY <1>3, <1>4, SumRemove
<1>7. /\ f[x] \in Nat /\ SumOver(f, r \cap A) \in Nat /\ SumOver(f, r \ A) \in Nat
  BY <1>3, <1>4, SumNat DEF Numbers
<1> HIDE DEF r
<1>8. CASE x \in A
  <2>1. m \ A = r \ A /\ (m \cap A) \ {x} = r \cap A /\ x \in m \cap A
    BY <1>3, <1>8 DEF r
  <2>2. SumOver(f, m \cap A) = f[x] + SumOver(f, r \cap A)
    BY <1>4, <2>1, SumRemove
  <2>3. SumOver(f, m) = SumOver(f, m \cap A) + SumOver(f, m \ A)
    <3> DEFINE i == f[x]
               a == SumOver(f, r \cap A)
               b == SumOver(f, r \ A)
    <3>1. SumOver(f, m) = i + (a + b)
      BY <1>5, <1>6
    <3>2. SumOver(f, m \cap A) = i + a /\ SumOver(f, m \ A) = b
      BY <2>1, <2>2
    <3>3. i \in Nat /\ a \in Nat /\ b \in Nat
      BY <1>7
    <3> HIDE DEF i, a, b
    <3> QED
      BY <3>1, <3>2, <3>3
  <2> QED
    BY <2>3
<1>9. CASE x \notin A
  <2>1. m \cap A = r \cap A /\ (m \ A) \ {x} = r \ A /\ x \in m \ A
    BY <1>3, <1>9 DEF r
  <2>2. SumOver(f, m \ A) = f[x] + SumOver(f, r \ A)
    BY <1>4, <2>1, SumRemove
  <2>3. SumOver(f, m) = SumOver(f, m \cap A) + SumOver(f, m \ A)
    <3> DEFINE i == f[x]
               a == SumOver(f, r \cap A)
               b == SumOver(f, r \ A)
    <3>1. SumOver(f, m) = i + (a + b)
      BY <1>5, <1>6
    <3>2. SumOver(f, m \cap A) = a /\ SumOver(f, m \ A) = i + b
      BY <2>1, <2>2
    <3>3. i \in Nat /\ a \in Nat /\ b \in Nat
      BY <1>7
    <3> HIDE DEF i, a, b
    <3> QED
      BY <3>1, <3>2, <3>3
  <2> QED
    BY <2>3
<1> QED
  BY <1>8, <1>9



LEMMA SumBelow ==
    ASSUME NEW f, NEW T, Numbers(f, T), NEW A \in SUBSET T
    PROVE  /\ SumOver(f, A) \in Nat /\ SumOver(f, T) \in Nat
           /\ SumOver(f, A) <= SumOver(f, T)
<1>1. SumOver(f, T) = SumOver(f, T \cap A) + SumOver(f, T \ A)
  BY SumSplit
<1>2. T \cap A = A /\ T \ A \in SUBSET T /\ T \in SUBSET T
  OBVIOUS
<1>3. SumOver(f, A) \in Nat /\ SumOver(f, T \ A) \in Nat /\ SumOver(f, T) \in Nat
  BY <1>2, SumNat
<1> QED
  BY <1>1, <1>2, <1>3

(* Sets that have nothing in common share a sum out. *)
LEMMA SumShared ==
    ASSUME NEW f, NEW T, Numbers(f, T), NEW D, IsFiniteSet(D), NEW parts \in [D -> SUBSET T],
           \A i, j \in D : i # j => parts[i] \cap parts[j] = {},
           NEW g, \A i \in D : g[i] = SumOver(f, parts[i])
    PROVE  SumOver(g, D) <= SumOver(f, T)
<1> DEFINE Of(E) == UNION {parts[i] : i \in E}
           B == {E \in SUBSET D : SumOver(g, E) # SumOver(f, Of(E))}
<1>1. \A E \in SUBSET D : Of(E) \in SUBSET T
  OBVIOUS
<1>2. Numbers(g, D)
  <2>1. \A i \in D : parts[i] \in SUBSET T
    OBVIOUS
  <2>2. \A i \in D : g[i] \in Nat
    BY <2>1, SumBelow
  <2> QED
    BY <2>2 DEF Numbers
<1>3. ASSUME B # {} PROVE FALSE
  <2>1. PICK m \in B : \A s \in B : s \subseteq m => s = m
    <3>1. B \in SUBSET (SUBSET D)
      OBVIOUS
    <3> HIDE DEF B
    <3> QED
      BY <1>3, <3>1, Smallest
  <2>2. m \in SUBSET D /\ SumOver(g, m) # SumOver(f, Of(m))
    OBVIOUS
  <2>3. m # {}
    <3>1. SumOver(g, {}) = 0 /\ SumOver(f, {}) = 0
      BY FS_EmptySet, SumStep
    <3>2. Of({}) = {}
      OBVIOUS
    <3> HIDE DEF B, Of
    <3> QED
      BY <2>2, <3>1, <3>2
  <2>4. PICK x : x \in m
    BY <2>3
  <2> DEFINE r == m \ {x}
  <2>5. r \in SUBSET D /\ r \subseteq m /\ r # m /\ x \in D
    BY <2>2, <2>4
  <2>6. SumOver(g, r) = SumOver(f, Of(r))
    <3>1. r \notin B
      <4> HIDE DEF B, r
      <4> QED
        BY <2>1, <2>5
    <3> HIDE DEF Of, r
    <3> QED
      BY <2>5, <3>1
  <2>7. SumOver(g, m) = g[x] + SumOver(g, r)
    <3> HIDE DEF B
    <3> QED
      BY <1>2, <2>2, <2>4, SumRemove
  <2>8. Of(m) \cap parts[x] = parts[x] /\ Of(m) \ parts[x] = Of(r)
    BY <2>2, <2>4
  <2>9. SumOver(f, Of(m)) = SumOver(f, parts[x]) + SumOver(f, Of(r))
    <3>1. Numbers(f, Of(m))
      <4>1. Of(m) \in SUBSET T
        BY <1>1, <2>2
      <4> HIDE DEF Of, B
      <4> QED
        <5>1. IsFiniteSet(T) /\ \A t \in T : f[t] \in Nat
          BY DEF Numbers
        <5>2. IsFiniteSet(Of(m))
          BY <4>1, <5>1, FS_Subset
        <5> QED
          BY <4>1, <5>1, <5>2 DEF Numbers
    <3> DEFINE all == Of(m)
               mine == parts[x]
    <3> HIDE DEF Of, B, r, all, mine
    <3>2. Numbers(f, all)
      BY <3>1 DEF all
    <3>3. SumOver(f, all) = SumOver(f, all \cap mine) + SumOver(f, all \ mine)
      BY <3>2, SumSplit
    <3> QED
      BY <2>8, <3>3 DEF all, mine
  <2> HIDE DEF Of, B, r
  <2> QED
    BY <2>2, <2>5, <2>6, <2>7, <2>9
<1>4. SumOver(g, D) = SumOver(f, Of(D))
  BY <1>3
<1>5. SumOver(f, Of(D)) <= SumOver(f, T)
  <2>1. Of(D) \in SUBSET T
    BY <1>1
  <2> HIDE DEF Of
  <2> QED
    BY <2>1, SumBelow
<1> QED
  BY <1>4, <1>5

-----------------------------------------------------------------------------
(* The groups of a process.                                                *)

LEMMA ProcessNumbers ==
    ASSUME NEW p, IsProcess(p)
    PROVE  /\ Numbers(p.iops, DOMAIN p.iops) /\ ThreadIops(p) \in Nat /\ p.total \in Nat
           /\ \A tids \in SUBSET p.threads :
                /\ tids \in SUBSET DOMAIN p.iops
                /\ SumOver(p.iops, tids) \in Nat
<1>1. Numbers(p.iops, DOMAIN p.iops)
  BY DEF IsProcess, Numbers
<1>2. \A tids \in SUBSET p.threads : tids \in SUBSET DOMAIN p.iops
  BY DEF IsProcess
<1>3. {} \in SUBSET DOMAIN p.iops
  OBVIOUS
<1> QED
  BY <1>1, <1>2, <1>3, SumBelow DEF ThreadIops, IsProcess

(* A group that shares measures the I/O of its threads, if the process has    *)
(* any; one that does not, that of the process.                               *)
Shared(p, tids) == IF p.total = 0 THEN 0 ELSE SumOver(p.iops, tids)

LEMMA MeasuredIops ==
    ASSUME NEW p, IsProcess(p), NEW tids \in SUBSET p.threads, NEW shared \in BOOLEAN
    PROVE  LET got == Measured(p, shared, tids)
           IN /\ shared => got.iops = Shared(p, tids)
              /\ ~shared => got.iops = p.total
              /\ got.size = p.size
<1> DEFINE total == p.total
           own == SumOver(p.iops, tids)
           got == Measured(p, shared, tids)
<1>1. total \in Nat /\ own \in Nat
  BY ProcessNumbers
<1>2. /\ got.iops = IF ~shared THEN total ELSE IF total = 0 THEN 0 ELSE (total * own) \div total
      /\ got.size = p.size
  BY DEF Measured
<1> HIDE DEF total, own, got
<1>3. total # 0 => (total * own) \div total = own
  BY <1>1
<1> QED
  BY <1>2, <1>3 DEF total, own, got, Shared

(* What makes groups a partition. *)
AreGroups(p, gs) ==
    /\ IsFiniteSet(DOMAIN gs)
    /\ \A i \in DOMAIN gs : gs[i].tids \in SUBSET p.threads
    /\ \A i, j \in DOMAIN gs : i # j => gs[i].tids \cap gs[j].tids = {}
    /\ IF Cardinality(DOMAIN gs) > 1 THEN \A i \in DOMAIN gs : gs[i].got.iops = Shared(p, gs[i].tids)
       ELSE \A i \in DOMAIN gs : gs[i].got.iops = p.total
    /\ p.total = 0 /\ p.size = 0 => \A i \in DOMAIN gs : gs[i].verdict = "unknown"

LEMMA GroupsShareOut ==
    ASSUME NEW p, IsProcess(p), NEW gs, AreGroups(p, gs), Cardinality(DOMAIN gs) > 1
    PROVE  SumOver([i \in DOMAIN gs |-> gs[i].got.iops], DOMAIN gs) <= ThreadIops(p)
<1> DEFINE D == DOMAIN gs
           g == [i \in D |-> gs[i].got.iops]
           parts == [i \in D |-> IF p.total = 0 THEN {} ELSE gs[i].tids]
           f == p.iops
           T == DOMAIN p.iops
<1>1. Numbers(f, T)
  BY ProcessNumbers
<1>2. \A i \in D : gs[i].got.iops = Shared(p, gs[i].tids)
  BY DEF AreGroups
<1>3. parts \in [D -> SUBSET T]
  BY ProcessNumbers DEF AreGroups
<1>4. IsFiniteSet(D) /\ \A i, j \in D : i # j => parts[i] \cap parts[j] = {}
  BY DEF AreGroups
<1>5. SumOver(f, {}) = 0
  BY FS_EmptySet, SumStep
<1>6. \A i \in D : g[i] = SumOver(f, parts[i])
  BY <1>2, <1>5 DEF Shared
<1> HIDE DEF D, g, parts, f, T
<1>7. SumOver(g, D) <= SumOver(f, T)
  BY <1>1, <1>3, <1>4, <1>6, SumShared
<1> QED
  BY <1>7 DEF D, g, f, T, ThreadIops

(* The threads that the first n jobs have taken. *)
Taken(g, p, jobs) ==
    g = [n \in 0 .. Len(jobs) |->
           IF n = 0 THEN {} ELSE g[n - 1] \cup TakeThreads(p, jobs, g[n - 1], n)]

LEMMA ThreadsTaken ==
    ASSUME NEW p, NEW jobs, NEW taken, NEW n
    PROVE  LET tids == TakeThreads(p, jobs, taken, n)
           IN tids \in SUBSET p.threads /\ tids \cap taken = {}
BY DEF TakeThreads

LEMMA TakenExists ==
    ASSUME NEW p, NEW jobs, Len(jobs) \in Nat
    PROVE  \E g : Taken(g, p, jobs)
<1> DEFINE n == Len(jobs)
           V == SUBSET p.threads
           To(v, i) == v \cup TakeThreads(p, jobs, v, i)
           step == [v \in V |-> [i \in 1 .. n |-> To(v, i)]]
           base == {}
<1>1. \A v \in V, i \in 1 .. n : To(v, i) \in V
  BY ThreadsTaken
<1>2. base \in V /\ n \in Nat
  OBVIOUS
<1> HIDE DEF V, To
<1>3. step \in [V -> [1 .. n -> V]]
  <2>1. \A v \in V : [i \in 1 .. n |-> To(v, i)] \in [1 .. n -> V]
    BY <1>1
  <2> QED
    BY <2>1
<1>4. PICK g : Follows(g, n, V, base, step)
  <2> HIDE DEF step, n, base
  <2> QED
    BY <1>2, <1>3, Recursion
<1> HIDE DEF base, n
<1>5. g \in [0 .. n -> V] /\ g[0] = base
  BY <1>4 DEF Follows
<1>6. \A i \in 1 .. n : g[i] = To(g[i - 1], i)
  <2> TAKE i \in 1 .. n
  <2>1. g[i - 1] \in V
    BY <1>2, <1>5
  <2>2. step[g[i - 1]][i] = To(g[i - 1], i)
    BY <2>1
  <2> HIDE DEF step
  <2> QED
    BY <1>4, <2>2 DEF Follows
<1>7. g = [i \in 0 .. n |-> IF i = 0 THEN base ELSE To(g[i - 1], i)]
  BY <1>2, <1>5, <1>6
<1> QED
  BY <1>7 DEF Taken, To, base, n

(* What a group of threads is measured at, as one predicate. *)
MeasuredAs(p, shared, tids) ==
    /\ shared => Measured(p, shared, tids).iops = Shared(p, tids)
    /\ ~shared => Measured(p, shared, tids).iops = p.total

LEMMA MeasuresAs ==
    ASSUME NEW p, IsProcess(p), NEW shared \in BOOLEAN, NEW tids \in SUBSET p.threads
    PROVE  MeasuredAs(p, shared, tids)
  BY MeasuredIops, Zenon DEF MeasuredAs

(* The fields of a group. *)
GroupOf(a, b, c) == [tids |-> a, got |-> b, verdict |-> c]

HasFields(r, a, b, c) == r.tids = a /\ r.got = b /\ r.verdict = c

LEMMA GroupFields ==
    ASSUME NEW a, NEW b, NEW c
    PROVE  HasFields(GroupOf(a, b, c), a, b, c)
  BY DEF GroupOf, HasFields

(* The groups of fio's jobs. *)
LEMMA FioAreGroups ==
    ASSUME NEW p, IsProcess(p), NEW jobs, Len(jobs) \in Nat
    PROVE  AreGroups(p, FioGroups(p, jobs))
<1> DEFINE gs == FioGroups(p, jobs)
           n == Len(jobs)
           g == CHOOSE f : Taken(f, p, jobs)
           Tids(i) == TakeThreads(p, jobs, g[i - 1], i)
           shared == n > 1
           Group(i) == [tids |-> Tids(i), got |-> Measured(p, shared, Tids(i)),
                        verdict |-> Verdict(SpecFromOpts(jobs[i].opts), Measured(p, shared, Tids(i)), p.seq)]
<1>1. CASE jobs = <<>>
  <2> DEFINE got == Measured(p, FALSE, {})
             only == [tids |-> p.threads, got |-> got, verdict |-> "unknown"]
  <2>1. gs = <<only>>
    BY <1>1 DEF FioGroups
  <2>2. got.iops = p.total
    <3>1. {} \in SUBSET p.threads /\ FALSE \in BOOLEAN
      OBVIOUS
    <3> QED
      BY <3>1, MeasuredIops, Zenon
  <2> HIDE DEF gs, got
  <2>3. DOMAIN gs = {1} /\ gs[1] = only
    <3> HIDE DEF only
    <3> QED
      BY <2>1
  <2>4. IsFiniteSet({1}) /\ Cardinality({1}) = 1
    BY FS_Singleton
  <2>5. AreGroups(p, gs)
    BY <2>2, <2>3, <2>4 DEF AreGroups
  <2> QED
    BY <2>5 DEF gs
<1>2. CASE jobs # <<>>
  <2>1. gs = [i \in 1 .. n |-> Group(i)]
    BY <1>2 DEF FioGroups, Taken
  <2>2. Taken(g, p, jobs) /\ n \in Nat /\ shared \in BOOLEAN
    BY TakenExists
  <2> HIDE DEF gs, g, n, shared
  <2>3. \A i \in 1 .. n : g[i] = g[i - 1] \cup Tids(i)
    <3>1. g = [i \in 0 .. n |-> IF i = 0 THEN {} ELSE g[i - 1] \cup Tids(i)]
      BY <2>2 DEF Taken, n
    <3>2. \A i \in 1 .. n : i \in 0 .. n /\ i # 0
      BY <2>2
    <3> QED
      BY <3>1, <3>2, Zenon
  <2>4. \A i \in 1 .. n : Tids(i) \in SUBSET p.threads /\ Tids(i) \cap g[i - 1] = {}
    BY ThreadsTaken
  <2>5. ASSUME NEW i \in 1 .. n, NEW j \in 1 .. n, i < j PROVE Tids(i) \cap Tids(j) = {}
    <3> DEFINE I == {k \in 0 .. n : k >= i => g[i] \subseteq g[k]}
    <3>1. 0 \in I
      BY <2>2
    <3>2. ASSUME NEW k \in 1 .. n, k - 1 \in I PROVE k \in I
      <4> HIDE DEF Tids
      <4>1. k = i \/ k < i \/ k - 1 >= i
        BY <2>2
      <4>2. g[k - 1] \subseteq g[k]
        BY <2>3
      <4> QED
        BY <2>2, <3>2, <4>1, <4>2
    <3> HIDE DEF I, Tids
    <3>3. \A k \in 0 .. n : k \in I
      BY <2>2, <3>1, <3>2, Inductive
    <3>4. j - 1 \in 0 .. n /\ j - 1 >= i
      BY <2>2, <2>5
    <3>5. g[i] \subseteq g[j - 1]
      BY <3>3, <3>4 DEF I
    <3>6. Tids(i) \subseteq g[i]
      BY <2>3
    <3> QED
      BY <2>4, <3>5, <3>6
  <2> HIDE DEF Tids
  <2>6. DOMAIN gs = 1 .. n /\ IsFiniteSet(1 .. n) /\ Cardinality(1 .. n) = n
    BY <2>1, <2>2, FS_Interval
  <2>7. \A i \in 1 .. n : gs[i] = Group(i)
    BY <2>1
  <2>8. \A i \in 1 .. n :
          /\ gs[i].tids = Tids(i) /\ gs[i].got = Measured(p, shared, Tids(i))
          /\ gs[i].verdict = Verdict(SpecFromOpts(jobs[i].opts), Measured(p, shared, Tids(i)), p.seq)
    <3> DEFINE M(i) == Measured(p, shared, Tids(i))
               W(i) == Verdict(SpecFromOpts(jobs[i].opts), M(i), p.seq)
    <3> HIDE DEF M, W
    <3>1. \A i \in 1 .. n : gs[i] = GroupOf(Tids(i), M(i), W(i))
      BY <2>7, Zenon DEF M, W, GroupOf
    <3>2. \A i \in 1 .. n : HasFields(gs[i], Tids(i), M(i), W(i))
      BY <3>1, GroupFields, Zenon
    <3> QED
      BY <3>2, Zenon DEF M, W, HasFields
  <2>9. \A i, j \in 1 .. n : i # j => gs[i].tids \cap gs[j].tids = {}
    <3> TAKE i, j \in 1 .. n
    <3>1. i # j => i < j \/ j < i
      BY <2>2
    <3> QED
      BY <2>5, <2>8, <3>1
  <2>10. IF n > 1 THEN \A i \in 1 .. n : gs[i].got.iops = Shared(p, gs[i].tids)
         ELSE \A i \in 1 .. n : gs[i].got.iops = p.total
    <3>1. \A i \in 1 .. n : MeasuredAs(p, shared, Tids(i))
      BY <2>2, <2>4, MeasuresAs, Zenon
    <3>2. \A i \in 1 .. n : /\ shared => gs[i].got.iops = Shared(p, gs[i].tids)
                            /\ ~shared => gs[i].got.iops = p.total
      <4> TAKE i \in 1 .. n
      <4>1. gs[i].tids = Tids(i) /\ gs[i].got = Measured(p, shared, Tids(i))
        BY <2>8
      <4>2. MeasuredAs(p, shared, Tids(i))
        BY <3>1
      <4> QED
        BY <4>1, <4>2 DEF MeasuredAs
    <3>3. CASE shared
      BY <3>2, <3>3, Zenon DEF shared
    <3>4. CASE ~shared
      BY <3>2, <3>4, Zenon DEF shared
    <3> QED
      BY <3>3, <3>4
  <2>11. ASSUME p.total = 0, p.size = 0, NEW i \in 1 .. n PROVE gs[i].verdict = "unknown"
    <3> DEFINE got == Measured(p, shared, Tids(i))
    <3>1. gs[i].verdict = Verdict(SpecFromOpts(jobs[i].opts), got, p.seq)
      BY <2>8
    <3>2. got.size = 0 /\ got.iops <= 0
      <4>1. /\ shared => got.iops = Shared(p, Tids(i))
            /\ ~shared => got.iops = p.total
            /\ got.size = p.size
        BY <2>2, <2>4, MeasuredIops
      <4> HIDE DEF got
      <4> QED
        BY <2>2, <2>11, <4>1 DEF Shared
    <3> HIDE DEF got
    <3> QED
      BY <3>1, <3>2 DEF Verdict
  <2>12. \A i \in 1 .. n : gs[i].tids \in SUBSET p.threads
    BY <2>4, <2>8
  <2>13. AreGroups(p, gs)
    BY <2>6, <2>9, <2>10, <2>11, <2>12 DEF AreGroups
  <2> QED
    BY <2>13 DEF gs
<1> QED
  BY <1>1, <1>2

(* The groups of threads by the stem of their name. *)
LEMMA GenericAreGroups ==
    ASSUME NEW p, IsProcess(p)
    PROVE  AreGroups(p, GenericGroups(p))
<1> DEFINE gs == GenericGroups(p)
           stems == {p.stem[t] : t \in p.threads}
           Of(s) == {t \in p.threads : p.stem[t] = s}
           shared == Cardinality(stems) > 1
           Group(s) == [tids |-> Of(s), got |-> Measured(p, shared, Of(s)), verdict |-> "unknown"]
<1>1. CASE p.threads = {}
  <2> DEFINE got == Measured(p, FALSE, {})
             only == [tids |-> {}, got |-> got, verdict |-> "unknown"]
  <2>1. gs = <<only>>
    BY <1>1 DEF GenericGroups
  <2>2. got.iops = p.total
    <3>1. {} \in SUBSET p.threads /\ FALSE \in BOOLEAN
      OBVIOUS
    <3> QED
      BY <3>1, MeasuredIops, Zenon
  <2> HIDE DEF gs, got
  <2>3. DOMAIN gs = {1} /\ gs[1] = only
    <3> HIDE DEF only
    <3> QED
      BY <2>1
  <2>4. IsFiniteSet({1}) /\ Cardinality({1}) = 1
    BY FS_Singleton
  <2>5. AreGroups(p, gs)
    BY <2>2, <2>3, <2>4 DEF AreGroups
  <2> QED
    BY <2>5 DEF gs
<1>2. CASE p.threads # {}
  <2>1. gs = [s \in stems |-> Group(s)]
    BY <1>2 DEF GenericGroups
  <2>2. IsFiniteSet(stems)
    <3>1. IsFiniteSet(p.threads)
      BY FS_Subset DEF IsProcess
    <3> DEFINE f == [t \in p.threads |-> p.stem[t]]
    <3>2. f \in [p.threads -> stems] /\ \A s \in stems : \E t \in p.threads : f[t] = s
      OBVIOUS
    <3> HIDE DEF f, stems
    <3>3. f \in Surjection(p.threads, stems)
      BY <3>2 DEF Surjection
    <3> QED
      BY <3>1, <3>3, FS_Surjection
  <2>4. \A s \in stems : Of(s) \in SUBSET p.threads
    OBVIOUS
  <2>5. \A s, r \in stems : s # r => Of(s) \cap Of(r) = {}
    OBVIOUS
  <2>6. shared \in BOOLEAN
    OBVIOUS
  <2> HIDE DEF gs, stems, Of, shared
  <2>7. DOMAIN gs = stems /\ \A s \in stems : gs[s] = Group(s)
    BY <2>1
  <2>8. \A s \in stems : /\ gs[s].tids = Of(s) /\ gs[s].got = Measured(p, shared, Of(s))
                         /\ gs[s].verdict = "unknown"
    BY <2>7
  <2>9. IF Cardinality(stems) > 1 THEN \A s \in stems : gs[s].got.iops = Shared(p, gs[s].tids)
        ELSE \A s \in stems : gs[s].got.iops = p.total
    <3>1. \A s \in stems : MeasuredAs(p, shared, Of(s))
      BY <2>4, <2>6, MeasuresAs, Zenon
    <3>2. \A s \in stems : /\ shared => gs[s].got.iops = Shared(p, gs[s].tids)
                           /\ ~shared => gs[s].got.iops = p.total
      <4> TAKE s \in stems
      <4>1. gs[s].tids = Of(s) /\ gs[s].got = Measured(p, shared, Of(s))
        BY <2>8
      <4>2. MeasuredAs(p, shared, Of(s))
        BY <3>1
      <4> QED
        BY <4>1, <4>2 DEF MeasuredAs
    <3>3. CASE shared
      BY <3>2, <3>3, Zenon DEF shared
    <3>4. CASE ~shared
      BY <3>2, <3>4, Zenon DEF shared
    <3> QED
      BY <3>3, <3>4
  <2>10. AreGroups(p, gs)
    BY <2>2, <2>4, <2>5, <2>7, <2>8, <2>9 DEF AreGroups
  <2> QED
    BY <2>10 DEF gs
<1> QED
  BY <1>1, <1>2

LEMMA GroupsArePartition ==
    ASSUME NEW p, IsProcess(p), NEW cmdline, IsDefinition(cmdline), NEW jobfile, IsDefinition(jobfile)
    PROVE  GroupsPartition(p, cmdline, jobfile)
<1> DEFINE gs == Groups(p, cmdline, jobfile)
<1>1. \A tokens : IsDefinition(tokens) => Len(Parse(tokens)) \in Nat
  <2> SUFFICES ASSUME NEW tokens, IsDefinition(tokens) PROVE Len(Parse(tokens)) \in Nat
    OBVIOUS
  <2>1. PICK d : Parse(tokens) = d.jobs /\ d \in Parsing(tokens)
    BY ParsedByRule DEF ParsedTo
  <2> QED
    BY <2>1 DEF Parsing
<1>2. Len(Jobs(cmdline, jobfile)) \in Nat
  BY <1>1 DEF Jobs
<1>3. AreGroups(p, gs)
  BY <1>2, FioAreGroups, GenericAreGroups DEF Groups
<1> HIDE DEF gs
<1>4. Cardinality(DOMAIN gs) > 1
        => SumOver([i \in DOMAIN gs |-> gs[i].got.iops], DOMAIN gs) <= ThreadIops(p)
  BY <1>3, GroupsShareOut
<1>5. ~(Cardinality(DOMAIN gs) > 1)
        => \A i \in DOMAIN gs : [j \in DOMAIN gs |-> gs[j].got.iops][i] = p.total
  BY <1>3 DEF AreGroups
<1>6. /\ \A i, j \in DOMAIN gs : i # j => gs[i].tids \cap gs[j].tids = {}
      /\ p.total = 0 /\ p.size = 0 => \A i \in DOMAIN gs : gs[i].verdict = "unknown"
  BY <1>3 DEF AreGroups
<1> QED
  BY <1>4, <1>5, <1>6, Zenon DEF GroupsPartition, gs

-----------------------------------------------------------------------------
(* Conversion to protobuf and to JSON: what is told apart.                 *)

(* A number of 32 bits arrives as it is. *)
LEMMA NumberExact ==
    ASSUME NEW n \in Counts \cup {-1}
    PROVE  Number(n) = n /\ n \in Int /\ n >= -1
<1>1. EXACT \in Nat /\ Counts \subseteq 0 .. EXACT
  BY ConvertAssumption, Zenon
<1>2. n \in Int /\ n >= -1 /\ n <= EXACT
  BY <1>1
<1> QED
  BY <1>1, <1>2 DEF Number

LEMMA HexApart ==
    ASSUME NEW a, NEW b, Hex(a) = Hex(b)
    PROVE  a = b
BY DEF Hex

LEMMA Int64Apart ==
    ASSUME NEW a, NEW b, Int64(a) = Int64(b)
    PROVE  a = b
BY DEF Int64

LEMMA BlankApart ==
    ASSUME NEW a \in Option(Texts), NEW b \in Option(Texts), OrBlank(a) = OrBlank(b)
    PROVE  a = b
BY ConvertAssumption DEF Option, OrBlank

(* A list keeps its rows if each row is told apart: what Each makes of two  *)
(* lists is equal only if they have the same rows in the same places.       *)
LEMMA SameRows ==
    ASSUME NEW S, NEW s \in Rows(S), NEW t \in Rows(S), DOMAIN s = DOMAIN t,
           \A i \in DOMAIN s : s[i] \in S /\ t[i] \in S => s[i] = t[i]
    PROVE  s = t
<1>1. PICK n \in 0 .. MaxRows : s \in [1 .. n -> S]
  BY DEF Rows
<1>2. PICK m \in 0 .. MaxRows : t \in [1 .. m -> S]
  BY DEF Rows
<1>3. t \in [1 .. n -> S]
  BY <1>1, <1>2
<1> QED
  BY <1>1, <1>3

LEMMA QueuesApart ==
    ASSUME NEW x \in QueueSnapshot, NEW y \in QueueSnapshot, QueueToPb(x) = QueueToPb(y)
    PROVE  x = y
<1>1. x.qid = y.qid
  <2>1. Number(x.qid) = Number(y.qid)
    BY DEF QueueToPb
  <2> QED
    BY <2>1, NumberExact DEF QueueSnapshot
<1>2. x.sq_dma_addr = y.sq_dma_addr
  <2>1. Hex(x.sq_dma_addr) = Hex(y.sq_dma_addr)
    BY DEF QueueToPb
  <2> QED
    BY <2>1, HexApart
<1>3. x.hctx_index = y.hctx_index
  <2> DEFINE a == x.hctx_index
             b == y.hctx_index
  <2>1. (IF a = None THEN -1 ELSE Number(a)) = (IF b = None THEN -1 ELSE Number(b))
    BY DEF QueueToPb
  <2>2. a \in Counts \cup {None} /\ b \in Counts \cup {None}
    BY DEF QueueSnapshot, Option
  <2> HIDE DEF a, b
  <2>3. \A n \in Counts : Number(n) = n /\ n # -1
    BY ConvertAssumption, NumberExact
  <2>4. a = b
    BY <2>1, <2>2, <2>3
  <2> QED
    BY <2>4 DEF a, b
<1> QED
  BY <1>1, <1>2, <1>3 DEF QueueSnapshot

LEMMA DevicesApart ==
    ASSUME NEW x \in DeviceSnapshot, NEW y \in DeviceSnapshot, DeviceToPb(x) = DeviceToPb(y)
    PROVE  x = y
<1>1. x.addr = y.addr
  <2>1. Hex(x.addr) = Hex(y.addr)
    BY DEF DeviceToPb
  <2> QED
    BY <2>1, HexApart
<1>2. x.iommu_enabled = y.iommu_enabled
  BY DEF DeviceToPb
<1>3. x.queues = y.queues
  <2> DEFINE s == x.queues
             t == y.queues
  <2>1. Each(QueueToPb, s) = Each(QueueToPb, t)
    BY DEF DeviceToPb
  <2>2. s \in Rows(QueueSnapshot) /\ t \in Rows(QueueSnapshot)
    BY DEF DeviceSnapshot
  <2> HIDE DEF s, t
  <2>3. DOMAIN s = DOMAIN t /\ \A i \in DOMAIN s : QueueToPb(s[i]) = QueueToPb(t[i])
    BY <2>1 DEF Each
  <2>4. s = t
    BY <2>2, <2>3, QueuesApart, SameRows
  <2> QED
    BY <2>4 DEF s, t
<1> QED
  BY <1>1, <1>2, <1>3 DEF DeviceSnapshot

LEMMA EntriesApart ==
    ASSUME NEW x \in QueueEntry, NEW y \in QueueEntry, EntryToPb(x) = EntryToPb(y)
    PROVE  x = y
<1>1. \A e \in QueueEntry :
        /\ EntryToPb(e).cid = Number(e.cid) /\ EntryToPb(e).uses_sgl = e.uses_sgl
        /\ EntryToPb(e).prp1 = Hex(e.prp1) /\ EntryToPb(e).prp2 = Hex(e.prp2)
  BY DEF EntryToPb, QueueEntry
<1>2. /\ Number(x.cid) = Number(y.cid) /\ x.uses_sgl = y.uses_sgl
      /\ Hex(x.prp1) = Hex(y.prp1) /\ Hex(x.prp2) = Hex(y.prp2)
  BY <1>1
<1>3. x.cid = y.cid
  BY <1>2, NumberExact DEF QueueEntry
<1>4. x.prp1 = y.prp1 /\ x.prp2 = y.prp2
  BY <1>2, HexApart
<1> QED
  BY <1>2, <1>3, <1>4 DEF QueueEntry

LEMMA CompletionsApart ==
    ASSUME NEW x \in CompletionEntry, NEW y \in CompletionEntry, CompletionToPb(x) = CompletionToPb(y)
    PROVE  x = y
<1>1. \A c \in CompletionEntry :
        /\ CompletionToPb(c).command_id = Number(c.command_id) /\ CompletionToPb(c).phase = c.phase
        /\ CompletionToPb(c).status_code = Number(c.status_code)
  BY DEF CompletionToPb, CompletionEntry
<1>2. /\ Number(x.command_id) = Number(y.command_id) /\ x.phase = y.phase
      /\ Number(x.status_code) = Number(y.status_code)
  BY <1>1
<1>3. x.command_id = y.command_id /\ x.status_code = y.status_code
  BY <1>2, NumberExact DEF CompletionEntry
<1> QED
  BY <1>2, <1>3 DEF CompletionEntry

LEMMA PagesApart ==
    ASSUME NEW x \in PrpPage, NEW y \in PrpPage, PageToPb(x) = PageToPb(y)
    PROVE  x = y
<1>1. \A p \in PrpPage :
        /\ PageToPb(p).phys_addr = Hex(p.phys_addr) /\ PageToPb(p).is_list_page = p.is_list_page
        /\ PageToPb(p).data = [i \in DOMAIN p.data |-> Hex(p.data[i])]
  BY DEF PageToPb, PrpPage, Each
<1>2. /\ Hex(x.phys_addr) = Hex(y.phys_addr) /\ x.is_list_page = y.is_list_page
      /\ [i \in DOMAIN x.data |-> Hex(x.data[i])] = [i \in DOMAIN y.data |-> Hex(y.data[i])]
  BY <1>1
<1>3. x.phys_addr = y.phys_addr
  BY <1>2, HexApart
<1>4. x.data = y.data
  <2> DEFINE s == x.data
             t == y.data
  <2>1. s \in Rows(Counts) /\ t \in Rows(Counts)
    BY DEF PrpPage
  <2> HIDE DEF s, t
  <2>2. DOMAIN s = DOMAIN t /\ \A i \in DOMAIN s : Hex(s[i]) = Hex(t[i])
    BY <1>2 DEF s, t
  <2>3. s = t
    BY <2>1, <2>2, HexApart, SameRows
  <2> QED
    BY <2>3 DEF s, t
<1> QED
  BY <1>2, <1>3, <1>4 DEF PrpPage

LEMMA PayloadsApart ==
    ASSUME NEW x \in PrpPayload, NEW y \in PrpPayload, PrpToPb(x) = PrpToPb(y)
    PROVE  x = y
<1>1. \A p \in PrpPayload :
        /\ PrpToPb(p).total_len = Number(p.total_len) /\ PrpToPb(p).error = OrBlank(p.error)
        /\ PrpToPb(p).pages = [i \in DOMAIN p.pages |-> PageToPb(p.pages[i])]
  BY DEF PrpToPb, PrpPayload, Each
<1>2. /\ Number(x.total_len) = Number(y.total_len) /\ OrBlank(x.error) = OrBlank(y.error)
      /\ [i \in DOMAIN x.pages |-> PageToPb(x.pages[i])] = [i \in DOMAIN y.pages |-> PageToPb(y.pages[i])]
  BY <1>1
<1>3. x.total_len = y.total_len /\ x.error = y.error
  BY <1>2, NumberExact, BlankApart DEF PrpPayload
<1>4. x.pages = y.pages
  <2> DEFINE s == x.pages
             t == y.pages
  <2>1. s \in Rows(PrpPage) /\ t \in Rows(PrpPage)
    BY DEF PrpPayload
  <2> HIDE DEF s, t
  <2>2. DOMAIN s = DOMAIN t /\ \A i \in DOMAIN s : PageToPb(s[i]) = PageToPb(t[i])
    BY <1>2 DEF s, t
  <2>3. s = t
    BY <2>1, <2>2, PagesApart, SameRows
  <2> QED
    BY <2>3 DEF s, t
<1> QED
  BY <1>3, <1>4 DEF PrpPayload

LEMMA NodesApart ==
    ASSUME NEW x \in TreeNode, NEW y \in TreeNode, TreeNodeToPb(x) = TreeNodeToPb(y)
    PROVE  x = y
<1> DEFINE Told(a) == IF a = None THEN Blank ELSE Hex(a)
<1>1. \A n \in TreeNode :
        TreeNodeToPb(n) = [name |-> n.name, address |-> Told(n.address), is_null |-> n.is_null]
  BY DEF TreeNodeToPb, TreeNode
<1>2. x.name = y.name /\ x.is_null = y.is_null /\ Told(x.address) = Told(y.address)
  <2> HIDE DEF Told
  <2> QED
    BY <1>1
<1>3. \A n \in Addresses : Hex(n) # Blank
  BY ConvertAssumption DEF Hex
<1>4. \A a, b \in Addresses \cup {None} : Told(a) = Told(b) => a = b
  BY <1>3, HexApart
<1>5. x.address = y.address
  <2> HIDE DEF Told
  <2> QED
    BY <1>2, <1>4 DEF TreeNode, Option
<1> QED
  BY <1>2, <1>5 DEF TreeNode

LEMMA ExpansionsApart ==
    ASSUME NEW x \in TreeExpansion, NEW y \in TreeExpansion,
           TreeExpansionToPb(x) = TreeExpansionToPb(y)
    PROVE  x = y
<1>1. \A e \in TreeExpansion :
        LET pb == TreeExpansionToPb(e)
        IN /\ pb.node = TreeNodeToPb(e.node) /\ pb.error = OrBlank(e.error)
           /\ pb.children = [i \in DOMAIN e.children |-> TreeNodeToPb(e.children[i])]
  BY DEF TreeExpansionToPb, TreeExpansion, Each
<1>2. /\ TreeNodeToPb(x.node) = TreeNodeToPb(y.node) /\ OrBlank(x.error) = OrBlank(y.error)
      /\ [i \in DOMAIN x.children |-> TreeNodeToPb(x.children[i])]
           = [i \in DOMAIN y.children |-> TreeNodeToPb(y.children[i])]
  BY <1>1
<1>3. x.node = y.node /\ x.error = y.error
  BY <1>2, NodesApart, BlankApart DEF TreeExpansion
<1>4. x.children = y.children
  <2> DEFINE s == x.children
             t == y.children
  <2>1. s \in Rows(TreeNode) /\ t \in Rows(TreeNode)
    BY DEF TreeExpansion
  <2> HIDE DEF s, t
  <2>2. DOMAIN s = DOMAIN t /\ \A i \in DOMAIN s : TreeNodeToPb(s[i]) = TreeNodeToPb(t[i])
    BY <1>2 DEF s, t
  <2>3. s = t
    BY <2>1, <2>2, NodesApart, SameRows
  <2> QED
    BY <2>3 DEF s, t
<1> QED
  BY <1>3, <1>4 DEF TreeExpansion

(* A queue's numbers arrive as they are. *)
LEMMA QueuePerfSame ==
    ASSUME NEW q \in QueuePerf
    PROVE  QueuePerfToPb(q) = q
<1>1. Number(q.qid) = q.qid /\ Number(q.iops) = q.iops
  BY NumberExact DEF QueuePerf
<1> QED
  BY <1>1 DEF QueuePerfToPb, QueuePerf

LEMMA PerfApart ==
    ASSUME NEW x \in DevicePerf, NEW y \in DevicePerf, DevicePerfToPb(x) = DevicePerfToPb(y)
    PROVE  x = y
<1> DEFINE Told(a) == IF a = None THEN None ELSE QueuePerfToPb(a)
<1>1. \A d \in DevicePerf :
        /\ DevicePerfToPb(d).queues = [i \in DOMAIN d.queues |-> QueuePerfToPb(d.queues[i])]
        /\ DevicePerfToPb(d).available = d.available /\ DevicePerfToPb(d).error = OrBlank(d.error)
        /\ DevicePerfToPb(d).aggregate = Told(d.aggregate)
  BY DEF DevicePerfToPb, DevicePerf, Each
<1> HIDE DEF Told
<1>2. /\ [i \in DOMAIN x.queues |-> QueuePerfToPb(x.queues[i])]
           = [i \in DOMAIN y.queues |-> QueuePerfToPb(y.queues[i])]
      /\ x.available = y.available /\ OrBlank(x.error) = OrBlank(y.error)
      /\ Told(x.aggregate) = Told(y.aggregate)
  BY <1>1
<1>3. \A a \in QueuePerf \cup {None} : Told(a) = a
  BY QueuePerfSame DEF Told
<1>4. x.error = y.error /\ x.aggregate = y.aggregate
  BY <1>2, <1>3, BlankApart DEF DevicePerf, Option
<1>5. x.queues = y.queues
  <2> DEFINE s == x.queues
             t == y.queues
  <2>1. s \in Rows(QueuePerf) /\ t \in Rows(QueuePerf)
    BY DEF DevicePerf
  <2> HIDE DEF s, t
  <2>2. DOMAIN s = DOMAIN t /\ \A i \in DOMAIN s : QueuePerfToPb(s[i]) = QueuePerfToPb(t[i])
    BY <1>2 DEF s, t
  <2>3. s = t
    BY <2>1, <2>2, QueuePerfSame, SameRows
  <2> QED
    BY <2>3 DEF s, t
<1> QED
  BY <1>2, <1>4, <1>5 DEF DevicePerf

LEMMA EventsApart ==
    ASSUME NEW x \in NvmeEvent, NEW y \in NvmeEvent, NvmeEventToPb(x) = NvmeEventToPb(y)
    PROVE  x = y
<1> DEFINE Told(d) == ErrorDetailToPb(d)
<1>1. \A e \in NvmeEvent :
        /\ NvmeEventToPb(e).kind = e.kind /\ NvmeEventToPb(e).qid = Number(e.qid)
        /\ NvmeEventToPb(e).timeout = e.timeout
        /\ e.kind = "error" => NvmeEventToPb(e).error = Told(e.error) /\ e.error \in ErrorEventDetail
        /\ e.kind # "error" => e.error = None
  <2> TAKE e \in NvmeEvent
  <2> DEFINE error == IF e.error = None \/ e.timeout # None THEN None ELSE Told(e.error)
  <2>1. /\ e \in [kind : {"timeout", "error", "reset"}, qid : Counts \cup {-1},
                  timeout : Option(TimeoutEventDetail), error : Option(ErrorEventDetail)]
        /\ e.timeout # None <=> e.kind = "timeout"
        /\ e.error # None <=> e.kind = "error"
    BY DEF NvmeEvent
  <2>2. NvmeEventToPb(e) = [e EXCEPT !.qid = Number(@), !.error = error]
    BY DEF NvmeEventToPb
  <2>3. e.kind = "error" => error = Told(e.error) /\ e.error \in ErrorEventDetail
    BY <2>1 DEF Option
  <2> HIDE DEF error, Told
  <2>4. /\ NvmeEventToPb(e).kind = e.kind /\ NvmeEventToPb(e).qid = Number(e.qid)
        /\ NvmeEventToPb(e).timeout = e.timeout /\ NvmeEventToPb(e).error = error
    BY <2>1, <2>2
  <2> QED
    BY <2>1, <2>3, <2>4
<1>2. \A a, b \in ErrorEventDetail : Told(a) = Told(b) => a = b
  <2> SUFFICES ASSUME NEW a \in ErrorEventDetail, NEW b \in ErrorEventDetail, Told(a) = Told(b)
               PROVE  a = b
    OBVIOUS
  <2>1. \A d \in ErrorEventDetail : /\ Told(d).slba = Int64(d.slba) /\ Told(d).lba_valid = d.lba_valid
                                    /\ Told(d).submit_cached = d.submit_cached
    BY DEF ErrorEventDetail, ErrorDetailToPb
  <2> HIDE DEF Told
  <2>2. /\ Int64(a.slba) = Int64(b.slba) /\ a.lba_valid = b.lba_valid
        /\ a.submit_cached = b.submit_cached
    BY <2>1
  <2>3. a.slba = b.slba
    BY <2>2, Int64Apart
  <2> QED
    BY <2>2, <2>3 DEF ErrorEventDetail
<1> HIDE DEF Told
<1>3. x.kind = y.kind /\ x.timeout = y.timeout /\ Number(x.qid) = Number(y.qid) /\ x.error = y.error
  BY <1>1, <1>2
<1>4. x.qid = y.qid
  BY <1>3, NumberExact DEF NvmeEvent
<1> QED
  BY <1>3, <1>4 DEF NvmeEvent

LEMMA StatsApart ==
    ASSUME NEW x \in DeviceErrorStats, NEW y \in DeviceErrorStats, ErrorStatsToPb(x) = ErrorStatsToPb(y)
    PROVE  x = y
<1>1. \A d \in DeviceErrorStats :
        /\ ErrorStatsToPb(d).total = Int64(d.total) /\ ErrorStatsToPb(d).available = d.available
        /\ ErrorStatsToPb(d).error = OrBlank(d.error)
  BY DEF ErrorStatsToPb, DeviceErrorStats
<1>2. Int64(x.total) = Int64(y.total) /\ x.available = y.available /\ OrBlank(x.error) = OrBlank(y.error)
  BY <1>1
<1>3. x.total = y.total /\ x.error = y.error
  BY <1>2, Int64Apart, BlankApart DEF DeviceErrorStats
<1> QED
  BY <1>2, <1>3 DEF DeviceErrorStats

LEMMA RulesApart ==
    ASSUME NEW x \in TargetRule, NEW y \in TargetRule, TargetRuleToPb(x) = TargetRuleToPb(y)
    PROVE  x = y
<1>1. \A r \in TargetRule :
        /\ TargetRuleToPb(r).kind = r.kind /\ TargetRuleToPb(r).value = r.value
        /\ TargetRuleToPb(r).adapter = OrBlank(r.adapter)
  BY DEF TargetRuleToPb, TargetRule
<1>2. x.kind = y.kind /\ x.value = y.value /\ OrBlank(x.adapter) = OrBlank(y.adapter)
  BY <1>1
<1>3. x.adapter = y.adapter
  BY <1>2, BlankApart DEF TargetRule
<1> QED
  BY <1>2, <1>3 DEF TargetRule

LEMMA SpecsApart ==
    ASSUME NEW w \in Option(WorkloadSpec), NEW v \in Option(WorkloadSpec),
           WorkloadSpecToPb(w) = WorkloadSpecToPb(v)
    PROVE  ShownSpec(w) = ShownSpec(v)
<1>1. None \notin WorkloadSpec
  BY ConvertAssumption
<1>2. WorkloadSpecToPb(w).has_spec = WorkloadSpecToPb(v).has_spec
  OBVIOUS
<1>3. \A u : WorkloadSpecToPb(u).has_spec <=> u # None
  BY DEF WorkloadSpecToPb
<1>4. CASE w = None
  <2>1. v = None
    BY <1>2, <1>3, <1>4, Zenon
  <2> QED
    BY <1>4, <2>1
<1>5. CASE w # None
  <2>1. v # None
    BY <1>2, <1>3, <1>5, Zenon
  <2>2. w \in WorkloadSpec /\ v \in WorkloadSpec
    BY <1>5, <2>1 DEF Option
  <2>3. \A u \in WorkloadSpec :
          /\ WorkloadSpecToPb(u).io_size = Number(OrZero(u.io_size))
          /\ WorkloadSpecToPb(u).queue_depth = Number(OrZero(u.queue_depth))
          /\ WorkloadSpecToPb(u).rw = OrBlank(u.rw)
          /\ WorkloadSpecToPb(u).direct = (u.direct = TRUE)
    BY <1>1 DEF WorkloadSpecToPb
  <2>4. /\ Number(OrZero(w.io_size)) = Number(OrZero(v.io_size))
        /\ Number(OrZero(w.queue_depth)) = Number(OrZero(v.queue_depth))
        /\ OrBlank(w.rw) = OrBlank(v.rw)
    BY <2>2, <2>3
  <2>5. (w.direct = TRUE) = (v.direct = TRUE)
    BY <2>2, <2>3, Zenon
  <2>6. w.rw = v.rw
    BY <2>2, <2>4, BlankApart DEF WorkloadSpec
  <2>7. OrZero(w.io_size) = OrZero(v.io_size) /\ OrZero(w.queue_depth) = OrZero(v.queue_depth)
    <3>1. \A a \in Counts \cup {None} : Number(OrZero(a)) = OrZero(a)
      BY ConvertAssumption, NumberExact DEF OrZero, Number
    <3>2. \A u \in WorkloadSpec : u.io_size \in Counts \cup {None} /\ u.queue_depth \in Counts \cup {None}
      BY DEF WorkloadSpec, Option
    <3> QED
      BY <2>2, <2>4, <3>1, <3>2
  <2>8. \A u \in WorkloadSpec :
          ShownSpec(u) = [io_size |-> OrZero(u.io_size), queue_depth |-> OrZero(u.queue_depth),
                          rw |-> u.rw, direct |-> (u.direct = TRUE)]
    <3> TAKE u \in WorkloadSpec
    <3> DEFINE b == u.direct = TRUE
               n == OrZero(u.io_size)
               d == OrZero(u.queue_depth)
               A == Option(Counts)
               R == Option(Texts)
               D == Option(BOOLEAN)
    <3>1. ShownSpec(u) = [u EXCEPT !.io_size = n, !.queue_depth = d, !.direct = b]
      BY <1>1 DEF ShownSpec
    <3>2. u \in [io_size : A, queue_depth : A, rw : R, direct : D]
      BY DEF WorkloadSpec
    <3> HIDE DEF b, n, d, A, R, D
    <3> DEFINE h == [u EXCEPT !.io_size = n, !.queue_depth = d, !.direct = b]
               T == [io_size : {n}, queue_depth : {d}, rw : R, direct : {b}]
    <3>3. h \in T /\ h.io_size = n /\ h.queue_depth = d /\ h.rw = u.rw /\ h.direct = b
      BY <3>2
    <3>4. u.rw \in R
      BY <3>2
    <3>5. \A x, y \in T : x.rw = y.rw => x = y
      OBVIOUS
    <3>6. [io_size |-> n, queue_depth |-> d, rw |-> u.rw, direct |-> b] \in T
      BY <3>4
    <3>7. h = [io_size |-> n, queue_depth |-> d, rw |-> u.rw, direct |-> b]
      <4> DEFINE k == [io_size |-> n, queue_depth |-> d, rw |-> u.rw, direct |-> b]
      <4>1. k.rw = u.rw
        OBVIOUS
      <4> HIDE DEF h, k, T
      <4> QED
        BY <3>3, <3>5, <3>6, <4>1 DEF k
    <3> QED
      BY <3>1, <3>7 DEF b, n, d
  <2> QED
    BY <2>2, <2>5, <2>6, <2>7, <2>8, Zenon
<1> QED
  BY <1>4, <1>5

(* What is shown of a group is its other fields, the expectation and the    *)
(* measurement.                                                             *)
GroupTold(g, w, m) == [g EXCEPT !.measured_workload = m, !.expected_workload = w]

LEMMA GroupToldSame ==
    ASSUME NEW x \in LogicalGroup, NEW y \in LogicalGroup, NEW w, NEW m,
           x.expectation_match = y.expectation_match, x.inferred = y.inferred
    PROVE  GroupTold(x, w, m) = GroupTold(y, w, m)
<1> DEFINE A == Option(WorkloadSpec)
           B == Option(MeasuredWorkload)
           C == Option(BOOLEAN)
           D == BOOLEAN
           T == [expected_workload : {w}, measured_workload : {m}, expectation_match : C, inferred : D]
<1>1. \A g \in LogicalGroup :
        g \in [expected_workload : A, measured_workload : B, expectation_match : C, inferred : D]
  BY DEF LogicalGroup
<1> HIDE DEF A, B, C, D
<1>2. \A g \in LogicalGroup :
        LET h == GroupTold(g, w, m)
        IN /\ h \in T /\ h.expected_workload = w /\ h.measured_workload = m
           /\ h.inferred = g.inferred /\ h.expectation_match = g.expectation_match
  BY <1>1 DEF GroupTold
<1>3. \A h, k \in T : /\ h.expected_workload = k.expected_workload
                       /\ h.measured_workload = k.measured_workload
                       /\ h.expectation_match = k.expectation_match /\ h.inferred = k.inferred
                       => h = k
  OBVIOUS
<1> HIDE DEF T
<1> QED
  BY <1>2, <1>3

LEMMA GroupsApart ==
    ASSUME NEW x \in LogicalGroup, NEW y \in LogicalGroup, GroupToPb(x) = GroupToPb(y)
    PROVE  ShownGroup(x) = ShownGroup(y)
<1>1. /\ WorkloadSpecToPb(x.expected_workload) = WorkloadSpecToPb(y.expected_workload)
      /\ MeasuredToPb(x.measured_workload) = MeasuredToPb(y.measured_workload)
      /\ x.inferred = y.inferred
  BY DEF GroupToPb
<1>2. /\ (x.expectation_match # None) = (y.expectation_match # None)
      /\ (x.expectation_match = TRUE) = (y.expectation_match = TRUE)
  <2>1. \A g : /\ GroupToPb(g).has_expectation = (g.expectation_match # None)
               /\ GroupToPb(g).expectation_match = (g.expectation_match = TRUE)
    BY DEF GroupToPb
  <2> QED
    BY <2>1, Zenon
<1>3. x.expectation_match = y.expectation_match
  <2>1. x.expectation_match \in {TRUE, FALSE, None} /\ y.expectation_match \in {TRUE, FALSE, None}
    BY DEF LogicalGroup, Option
  <2>2. None # TRUE /\ None # FALSE
    BY ConvertAssumption
  <2> DEFINE a == x.expectation_match
             b == y.expectation_match
  <2>3. (a # None <=> b # None) /\ (a = TRUE <=> b = TRUE)
    BY <1>2, Zenon
  <2>4. a = TRUE \/ a = FALSE \/ a = None
    BY <2>1
  <2>5. b = TRUE \/ b = FALSE \/ b = None
    BY <2>1
  <2> HIDE DEF a, b
  <2>6. TRUE # FALSE
    OBVIOUS
  <2>7. a = b
    BY <2>2, <2>3, <2>4, <2>5, <2>6, Zenon
  <2> QED
    BY <2>7 DEF a, b
<1>4. Nothing(x.measured_workload) = Nothing(y.measured_workload)
  BY <1>1 DEF Nothing, MeasuredToPb
<1>5. ShownSpec(x.expected_workload) = ShownSpec(y.expected_workload)
  BY <1>1, SpecsApart DEF LogicalGroup
<1> DEFINE Told(g) == <<ShownSpec(g.expected_workload), Nothing(g.measured_workload)>>
<1>6. \A g \in LogicalGroup : ShownGroup(g) = GroupTold(g, Told(g)[1], Told(g)[2])
  BY DEF ShownGroup, GroupTold
<1>7. Told(x)[1] = Told(y)[1] /\ Told(x)[2] = Told(y)[2]
  BY <1>4, <1>5
<1> HIDE DEF Told
<1>8. GroupTold(x, Told(x)[1], Told(x)[2]) = GroupTold(y, Told(y)[1], Told(y)[2])
  BY <1>1, <1>3, <1>7, GroupToldSame
<1> QED
  BY <1>6, <1>8

LEMMA SessionsApart ==
    ASSUME NEW x \in Session, NEW y \in Session, SessionToPb(x) = SessionToPb(y)
    PROVE  Shown("session", x) = Shown("session", y)
<1> DEFINE E == Option({n \in Instants : n > 0})
           A == Option(MeasuredWorkload)
           R == Option(Texts)
           L == Rows(SessionGroups)
           F == [start_time_ns : Instants, session_end_ns : E, aggregate : A, matched_rule : R,
                 logical_groups : L]
<1>1. x \in F /\ y \in F
  BY DEF Session
<1> HIDE DEF E, A, R, L
<1>2. \A s \in F :
        /\ SessionToPb(s).start_time_ns = Int64(NotNegative(s.start_time_ns))
        /\ SessionToPb(s).session_end_ns = Int64(OrZero(s.session_end_ns))
        /\ SessionToPb(s).aggregate = MeasuredToPb(s.aggregate)
        /\ SessionToPb(s).matched_rule = OrBlank(s.matched_rule)
        /\ SessionToPb(s).logical_groups = [i \in DOMAIN s.logical_groups |-> GroupToPb(s.logical_groups[i])]
  BY DEF SessionToPb, Each
<1>3. NotNegative(x.start_time_ns) = NotNegative(y.start_time_ns)
  <2>1. Int64(NotNegative(x.start_time_ns)) = Int64(NotNegative(y.start_time_ns))
    BY <1>1, <1>2
  <2> QED
    BY <2>1, Int64Apart, Zenon
<1>4. x.session_end_ns = y.session_end_ns
  <2>0. Int64(OrZero(x.session_end_ns)) = Int64(OrZero(y.session_end_ns))
    BY <1>1, <1>2
  <2>1. OrZero(x.session_end_ns) = OrZero(y.session_end_ns)
    BY <2>0, Int64Apart, Zenon
  <2> QED
    BY <1>1, <2>1, ConvertAssumption DEF OrZero, E, Option
<1>5. Nothing(x.aggregate) = Nothing(y.aggregate)
  <2>1. MeasuredToPb(x.aggregate) = MeasuredToPb(y.aggregate)
    BY <1>1, <1>2
  <2> QED
    BY <2>1 DEF Nothing, MeasuredToPb
<1>6. x.matched_rule = y.matched_rule
  <2>1. OrBlank(x.matched_rule) = OrBlank(y.matched_rule)
    BY <1>1, <1>2
  <2> QED
    BY <1>1, <2>1, BlankApart DEF R
<1>7. Each(ShownGroup, x.logical_groups) = Each(ShownGroup, y.logical_groups)
  <2> DEFINE s == x.logical_groups
             t == y.logical_groups
  <2>1. [i \in DOMAIN s |-> GroupToPb(s[i])] = [i \in DOMAIN t |-> GroupToPb(t[i])]
    BY <1>1, <1>2
  <2>2. s \in Rows(SessionGroups) /\ t \in Rows(SessionGroups)
    BY <1>1 DEF L
  <2> HIDE DEF s, t
  <2>3. \A i \in DOMAIN s : s[i] \in LogicalGroup
    BY <2>2, ConvertAssumption DEF Rows
  <2>4. \A i \in DOMAIN t : t[i] \in LogicalGroup
    BY <2>2, ConvertAssumption DEF Rows
  <2>5. DOMAIN s = DOMAIN t /\ \A i \in DOMAIN s : GroupToPb(s[i]) = GroupToPb(t[i])
    BY <2>1
  <2>6. \A i \in DOMAIN s : ShownGroup(s[i]) = ShownGroup(t[i])
    BY <2>3, <2>4, <2>5, GroupsApart
  <2> QED
    BY <2>5, <2>6 DEF Each, s, t
<1> DEFINE a == NotNegative(x.start_time_ns)
           m == Nothing(x.aggregate)
           l == Each(ShownGroup, x.logical_groups)
           Told(s) == [s EXCEPT !.start_time_ns = a, !.aggregate = m, !.logical_groups = l]
<1>8. Shown("session", x) = Told(x) /\ Shown("session", y) = Told(y)
  BY <1>3, <1>5, <1>7 DEF Shown
<1> HIDE DEF a, m, l
<1>9. Told(x) = Told(y)
  <2> DEFINE T == [start_time_ns : {a}, session_end_ns : E, aggregate : {m}, matched_rule : R,
                   logical_groups : {l}]
  <2>1. \A s \in F : /\ Told(s) \in T /\ Told(s).session_end_ns = s.session_end_ns
                     /\ Told(s).matched_rule = s.matched_rule
    OBVIOUS
  <2>2. \A h, k \in T : h.session_end_ns = k.session_end_ns /\ h.matched_rule = k.matched_rule => h = k
    OBVIOUS
  <2> HIDE DEF T, F, Told
  <2> QED
    BY <1>1, <1>4, <1>6, <2>1, <2>2
<1> QED
  BY <1>8, <1>9

LEMMA ProcessesApart ==
    ASSUME NEW x \in ProcessListEntry, NEW y \in ProcessListEntry,
           ProcessEntryToPb(x) = ProcessEntryToPb(y)
    PROVE  Shown("process", x) = Shown("process", y)
<1> DEFINE R == Option(Texts)
           F == [start_time_ns : Instants, error : R, matched_rule : R, unselectable_reason : R]
<1>1. x \in F /\ y \in F
  BY DEF ProcessListEntry
<1> HIDE DEF R
<1>2. \A e \in F :
        /\ ProcessEntryToPb(e).start_time_ns = Int64(NotNegative(e.start_time_ns))
        /\ ProcessEntryToPb(e).error = OrBlank(e.error)
        /\ ProcessEntryToPb(e).matched_rule = OrBlank(e.matched_rule)
        /\ ProcessEntryToPb(e).unselectable_reason = OrBlank(e.unselectable_reason)
  BY DEF ProcessEntryToPb
<1>3. NotNegative(x.start_time_ns) = NotNegative(y.start_time_ns)
  <2>1. Int64(NotNegative(x.start_time_ns)) = Int64(NotNegative(y.start_time_ns))
    BY <1>1, <1>2
  <2> QED
    BY <2>1, Int64Apart, Zenon
<1>4. /\ x.error = y.error /\ x.matched_rule = y.matched_rule
      /\ x.unselectable_reason = y.unselectable_reason
  <2>1. /\ OrBlank(x.error) = OrBlank(y.error) /\ OrBlank(x.matched_rule) = OrBlank(y.matched_rule)
        /\ OrBlank(x.unselectable_reason) = OrBlank(y.unselectable_reason)
    BY <1>1, <1>2
  <2> QED
    BY <1>1, <2>1, BlankApart DEF R
<1> DEFINE a == NotNegative(x.start_time_ns)
           Told(e) == [e EXCEPT !.start_time_ns = a]
<1>5. Shown("process", x) = Told(x) /\ Shown("process", y) = Told(y)
  BY <1>3 DEF Shown
<1> HIDE DEF a
<1>6. Told(x) = Told(y)
  <2> DEFINE T == [start_time_ns : {a}, error : R, matched_rule : R, unselectable_reason : R]
  <2>1. \A e \in F : /\ Told(e) \in T /\ Told(e).error = e.error
                     /\ Told(e).matched_rule = e.matched_rule
                     /\ Told(e).unselectable_reason = e.unselectable_reason
    OBVIOUS
  <2>2. \A h, k \in T : (/\ h.error = k.error /\ h.matched_rule = k.matched_rule
                         /\ h.unselectable_reason = k.unselectable_reason) => h = k
    OBVIOUS
  <2> HIDE DEF T, F, Told
  <2> QED
    BY <1>1, <1>4, <2>1, <2>2
<1> QED
  BY <1>5, <1>6

(* Values of every kind are told apart. *)
LEMMA KindsApart ==
    ASSUME NEW kind \in Kinds, NEW x \in Values(kind)
    PROVE  ToldApart(kind, x)
<1> SUFFICES ASSUME NEW y \in Values(kind), Web(kind, x) = Web(kind, y)
             PROVE  Shown(kind, x) = Shown(kind, y)
  BY DEF ToldApart
<1>1. CASE kind = "device"
  <2>1. x = y
    BY <1>1, DevicesApart DEF Values, Web
  <2> QED
    BY <2>1
<1>2. CASE kind = "entry"
  <2>1. x = y
    BY <1>2, EntriesApart DEF Values, Web
  <2> QED
    BY <2>1
<1>3. CASE kind = "completion"
  <2>1. x = y
    BY <1>3, CompletionsApart DEF Values, Web
  <2> QED
    BY <2>1
<1>4. CASE kind = "prp"
  <2>1. x = y
    BY <1>4, PayloadsApart DEF Values, Web
  <2> QED
    BY <2>1
<1>5. CASE kind = "tree"
  <2>1. x = y
    BY <1>5, ExpansionsApart DEF Values, Web
  <2> QED
    BY <2>1
<1>6. CASE kind = "perf"
  <2>1. x = y
    BY <1>6, PerfApart DEF Values, Web
  <2> QED
    BY <2>1
<1>7. CASE kind = "event"
  <2>1. x = y
    BY <1>7, EventsApart DEF Values, Web
  <2> QED
    BY <2>1
<1>8. CASE kind = "stats"
  <2>1. x = y
    BY <1>8, StatsApart DEF Values, Web
  <2> QED
    BY <2>1
<1>9. CASE kind = "rule"
  <2>1. x = y
    BY <1>9, RulesApart DEF Values, Web
  <2> QED
    BY <2>1
<1>10. CASE kind = "group"
  <2>1. ShownGroup(x) = ShownGroup(y)
    BY <1>10, GroupsApart DEF Values, Web
  <2> QED
    BY <1>10, <2>1 DEF Shown
<1>11. CASE kind = "session"
  BY <1>11, SessionsApart DEF Values, Web
<1>12. CASE kind = "process"
  BY <1>12, ProcessesApart DEF Values, Web
<1> QED
  BY <1>1, <1>2, <1>3, <1>4, <1>5, <1>6, <1>7, <1>8, <1>9, <1>10, <1>11, <1>12 DEF Kinds

-----------------------------------------------------------------------------
(* The topology tree: how it grows, controller by controller.              *)

(* A climb from a controller's bus: each bus is above the one before it,   *)
(* and none is met twice.                                                  *)
Climbed(m, s) ==
    /\ s \in Seq(DOMAIN m.up) /\ Len(s) >= 1
    /\ \A k \in 1 .. Len(s) - 1 : s[k + 1] = m.up[s[k]]
    /\ \A j, k \in 1 .. Len(s) : s[j] = s[k] => j = k

LEMMA ClimbStarts ==
    ASSUME NEW m, IsMachine(m), NEW c \in 0 .. m.last
    PROVE  Climbed(m, <<m.busOf[c]>>)
<1> DEFINE B == DOMAIN m.up
           b == m.busOf[c]
           s == <<b>>
<1>1. b \in B
  BY DEF IsMachine
<1>2. s \in Seq(B) /\ Len(s) = 1
  <2> HIDE DEF b, B
  <2> QED
    BY <1>1
<1>3. \A j, k \in 1 .. 1 : j = k
  OBVIOUS
<1>4. \A k \in 1 .. 1 - 1 : FALSE
  OBVIOUS
<1> HIDE DEF s
<1>5. 1 >= 1 /\ \A k \in 1 .. Len(s) - 1 : FALSE
  BY <1>2, <1>4
<1>6. Climbed(m, s)
  BY <1>2, <1>3, <1>5 DEF Climbed
<1> QED
  BY <1>6 DEF s, b

LEMMA ClimbKeeps ==
    ASSUME NEW m, IsMachine(m), NEW c, NEW s, Climbed(m, s)
    PROVE  Climbed(m, Climb(m, c, s))
<1> DEFINE B == DOMAIN m.up
           n == Len(s)
           above == m.up[s[n]]
           t == Append(s, above)
<1>1. s \in Seq(B) /\ n \in Nat /\ n >= 1 /\ DOMAIN s = 1 .. n /\ s[n] \in B
  BY DEF Climbed
<1>2. above \in B
  BY <1>1 DEF IsMachine
<1>3. CASE <<c, s[n]>> \in m.blind \/ \E k \in DOMAIN s : s[k] = above
  BY <1>3 DEF Climb
<1>4. CASE ~(<<c, s[n]>> \in m.blind \/ \E k \in DOMAIN s : s[k] = above)
  <2>1. t \in Seq(B) /\ Len(t) = n + 1 /\ t[n + 1] = above /\ \A k \in 1 .. n : t[k] = s[k]
    <3> HIDE DEF B, above
    <3> QED
      BY <1>1, <1>2
  <2>2. Climb(m, c, s) = t
    BY <1>4 DEF Climb
  <2>3. \A k \in 1 .. n : t[k + 1] = m.up[t[k]]
    <3> TAKE k \in 1 .. n
    <3>1. CASE k = n
      BY <1>1, <2>1, <3>1
    <3>2. CASE k # n
      <4>0. n \in Nat /\ k \in 1 .. n
        BY <1>1
      <4>1. k \in 1 .. n - 1 /\ k + 1 \in 1 .. n
        <5> HIDE DEF n
        <5> QED
          BY <3>2, <4>0
      <4>2. s[k + 1] = m.up[s[k]]
        BY <4>1 DEF Climbed
      <4> HIDE DEF t, n
      <4> QED
        BY <2>1, <4>1, <4>2
    <3> QED
      BY <3>1, <3>2
  <2>4. \A j, k \in 1 .. n + 1 : t[j] = t[k] => j = k
    <3>1. \A k \in 1 .. n : s[k] # above
      BY <1>1, <1>4
    <3>2. \A j, k \in 1 .. n : s[j] = s[k] => j = k
      BY DEF Climbed
    <3> HIDE DEF t, n, above
    <3>3. \A k \in 1 .. n + 1 : k \in 1 .. n \/ k = n + 1
      BY <1>1
    <3> QED
      BY <2>1, <3>1, <3>2, <3>3
  <2>5. Len(t) >= 1 /\ Len(t) - 1 = n
    BY <1>1, <2>1
  <2> HIDE DEF t, n
  <2> QED
    BY <2>1, <2>2, <2>3, <2>4, <2>5 DEF Climbed
<1> QED
  BY <1>3, <1>4

(* What _bus_chain returns: the climb from its end.                        *)
Chain(m, chain) ==
    /\ Len(chain) \in Nat /\ Len(chain) >= 1
    /\ chain \in [1 .. Len(chain) -> DOMAIN m.up]
    /\ \A k \in 2 .. Len(chain) : chain[k - 1] = m.up[chain[k]]
    /\ \A j, k \in 1 .. Len(chain) : chain[j] = chain[k] => j = k

Climbs(f, m, c) ==
    f = [n \in 0 .. Cardinality(DOMAIN m.up) |->
           IF n = 0 THEN <<m.busOf[c]>> ELSE Climb(m, c, f[n - 1])]

LEMMA ClimbsExists ==
    ASSUME NEW m, IsMachine(m), NEW c \in 0 .. m.last
    PROVE  \E f : Climbs(f, m, c)
<1> DEFINE N == Cardinality(DOMAIN m.up)
           V == {s \in Seq(DOMAIN m.up) : Climbed(m, s)}
           base == <<m.busOf[c]>>
           step == [v \in V |-> [k \in 1 .. N |-> Climb(m, c, v)]]
<1>1. N \in Nat
  BY FS_CardinalityType DEF IsMachine
<1>2. base \in V
  <2>1. Climbed(m, base)
    BY ClimbStarts
  <2> HIDE DEF base
  <2>2. base \in Seq(DOMAIN m.up)
    BY <2>1 DEF Climbed
  <2> QED
    BY <2>1, <2>2
<1>3. \A v \in V : Climb(m, c, v) \in V
  BY ClimbKeeps DEF Climbed
<1>4. step \in [V -> [1 .. N -> V]]
  <2> HIDE DEF V, N
  <2> QED
    BY <1>3
<1> HIDE DEF N, V, base
<1>5. PICK g : Follows(g, N, V, base, step)
  <2> HIDE DEF step
  <2> QED
    BY <1>1, <1>2, <1>4, Recursion
<1>6. g \in [0 .. N -> V] /\ g[0] = base /\ \A k \in 1 .. N : g[k] = Climb(m, c, g[k - 1])
  <2>1. \A k \in 1 .. N : k - 1 \in 0 .. N
    BY <1>1
  <2> QED
    BY <1>5, <2>1 DEF Follows
<1>7. g = [n \in 0 .. N |-> IF n = 0 THEN base ELSE Climb(m, c, g[n - 1])]
  <2>1. \A n \in 0 .. N : n = 0 \/ n \in 1 .. N
    BY <1>1
  <2> QED
    BY <1>6, <2>1
<1> QED
  BY <1>7 DEF Climbs, N, base

LEMMA ChainOf ==
    ASSUME NEW m, IsMachine(m), NEW c \in 0 .. m.last
    PROVE  Chain(m, BusChain(m, c))
<1> DEFINE N == Cardinality(DOMAIN m.up)
           f == CHOOSE g : Climbs(g, m, c)
           s == f[N]
           n == Len(s)
           chain == [k \in 1 .. n |-> s[n + 1 - k]]
<1>1. BusChain(m, c) = chain
  BY DEF BusChain, Climbs
<1>2. Climbs(f, m, c)
  BY ClimbsExists
<1>3. N \in Nat
  BY FS_CardinalityType DEF IsMachine
<1> HIDE DEF N, f
<1>4. f[0] = <<m.busOf[c]>> /\ \A k \in 1 .. N : f[k] = Climb(m, c, f[k - 1])
  <2>1. f = [k \in 0 .. N |-> IF k = 0 THEN <<m.busOf[c]>> ELSE Climb(m, c, f[k - 1])]
    BY <1>2 DEF Climbs, N
  <2>2. 0 \in 0 .. N /\ \A k \in 1 .. N : k \in 0 .. N /\ k # 0
    BY <1>3
  <2> QED
    BY <2>1, <2>2, Zenon
<1>5. Climbed(m, s)
  <2> DEFINE I == {k \in 0 .. N : Climbed(m, f[k])}
  <2>1. 0 \in I
    BY <1>3, <1>4, ClimbStarts
  <2>2. ASSUME NEW k \in 1 .. N, k - 1 \in I PROVE k \in I
    BY <1>4, <2>2, ClimbKeeps
  <2>3. N \in I
    <3> HIDE DEF I
    <3>1. \A k \in 0 .. N : k \in I
      BY <1>3, <2>1, <2>2, Inductive
    <3> QED
      BY <1>3, <3>1
  <2> QED
    BY <2>3
<1> HIDE DEF s
<1>6. s \in Seq(DOMAIN m.up) /\ n \in Nat /\ n >= 1 /\ s \in [1 .. n -> DOMAIN m.up]
  BY <1>5 DEF Climbed
<1>7. \A k \in 1 .. n : n + 1 - k \in 1 .. n /\ chain[k] = s[n + 1 - k] /\ chain[k] \in DOMAIN m.up
  BY <1>6
<1>8. chain \in [1 .. n -> DOMAIN m.up] /\ Len(chain) = n
  BY <1>6, <1>7
<1>9. \A k \in 2 .. n : chain[k - 1] = m.up[chain[k]]
  <2> TAKE k \in 2 .. n
  <2> DEFINE j == n + 1 - k
  <2>1. j \in 1 .. n - 1 /\ k \in 1 .. n /\ k - 1 \in 1 .. n /\ n + 1 - (k - 1) = j + 1
    BY <1>6
  <2>2. s[j + 1] = m.up[s[j]]
    BY <1>5, <2>1 DEF Climbed
  <2>3. chain[k] = s[j] /\ chain[k - 1] = s[j + 1]
    BY <1>7, <2>1
  <2> QED
    BY <2>2, <2>3
<1>10. \A j, k \in 1 .. n : chain[j] = chain[k] => j = k
  <2> TAKE j, k \in 1 .. n
  <2> HAVE chain[j] = chain[k]
  <2>1. n + 1 - j \in 1 .. n /\ n + 1 - k \in 1 .. n /\ s[n + 1 - j] = s[n + 1 - k]
    BY <1>7
  <2>2. n + 1 - j = n + 1 - k
    BY <1>5, <2>1 DEF Climbed
  <2> QED
    BY <1>6, <2>2
<1> HIDE DEF chain, n
<1> QED
  BY <1>1, <1>6, <1>8, <1>9, <1>10 DEF Chain

PathKinds == {"host", "pci", "pci_function"}

LEMMA BusNodes ==
    ASSUME NEW m, NEW a, NEW b
    PROVE  /\ BusNode(m, a) = BusNode(m, b) => a = b
           /\ BusNode(m, a)[1] \in {"host", "pci"} /\ BusNode(m, a) # System
           /\ BusNode(m, a)[2] = a
           /\ m.up[a] = a => BusNode(m, a) = <<"host", a>>
           /\ m.up[a] # a => BusNode(m, a) = <<"pci", a>>
BY DEF BusNode, System

(* The path of a controller: the nodes of its chain, then its function.    *)
IsPath(m, c, n, p) ==
    /\ n = Len(BusChain(m, c)) /\ n \in Nat /\ n >= 1
    /\ DOMAIN p = 1 .. n + 1 /\ p[n + 1] = <<"pci_function", c>>
    /\ \A k \in 1 .. n : p[k] = BusNode(m, BusChain(m, c)[k])
    /\ \A j, k \in 1 .. n + 1 : p[j] = p[k] => j = k
    /\ \A k \in 1 .. n + 1 : p[k][1] \in PathKinds /\ p[k] # System
    /\ \A k \in 1 .. n : p[k][1] # "pci_function"

LEMMA PathOf ==
    ASSUME NEW m, IsMachine(m), NEW c \in 0 .. m.last
    PROVE  IsPath(m, c, Len(BusChain(m, c)), Path(m, c))
<1> DEFINE chain == BusChain(m, c)
           n == Len(chain)
           p == [k \in 1 .. n + 1 |->
                   IF k = n + 1 THEN <<"pci_function", c>> ELSE BusNode(m, chain[k])]
<1>1. Path(m, c) = p
  BY DEF Path
<1>2. Chain(m, chain)
  BY ChainOf
<1> HIDE DEF chain
<1>3. n \in Nat /\ n >= 1
  BY <1>2 DEF Chain
<1> HIDE DEF n
<1>4. n + 1 \in 1 .. n + 1 /\ \A k \in 1 .. n : k \in 1 .. n + 1 /\ k # n + 1
  BY <1>3
<1>5. \A k \in 1 .. n + 1 : k \in 1 .. n \/ k = n + 1
  BY <1>3
<1>6. DOMAIN p = 1 .. n + 1 /\ p[n + 1] = <<"pci_function", c>>
  BY <1>4
<1>7. \A k \in 1 .. n : p[k] = BusNode(m, chain[k])
  BY <1>4
<1> HIDE DEF p
<1>8. \A k \in 1 .. n : p[k][1] \in {"host", "pci"} /\ p[k] # System
  BY <1>7, BusNodes
<1>9. p[n + 1][1] = "pci_function" /\ p[n + 1] # System
  BY <1>6 DEF System
<1>10. \A j, k \in 1 .. n : p[j] = p[k] => j = k
  <2> TAKE j, k \in 1 .. n
  <2> HAVE p[j] = p[k]
  <2>1. chain[j] = chain[k]
    BY <1>7, BusNodes
  <2> QED
    BY <1>2, <2>1 DEF Chain, n
<1>11. \A j, k \in 1 .. n + 1 : p[j] = p[k] => j = k
  <2> TAKE j, k \in 1 .. n + 1
  <2> HAVE p[j] = p[k]
  <2>1. p[j][1] = p[k][1]
    OBVIOUS
  <2>2. "pci_function" \notin {"host", "pci"}
    OBVIOUS
  <2> QED
    BY <1>5, <1>8, <1>9, <1>10, <2>1, <2>2
<1>12. \A k \in 1 .. n + 1 : p[k][1] \in PathKinds /\ p[k] # System
  BY <1>5, <1>8, <1>9 DEF PathKinds
<1>13. \A k \in 1 .. n : p[k][1] # "pci_function"
  BY <1>8
<1>14. IsPath(m, c, n, p)
  BY <1>3, <1>6, <1>7, <1>11, <1>12, <1>13 DEF IsPath, n, chain
<1> QED
  BY <1>1, <1>14 DEF n, chain

(* On a chain that reaches a root bus, the first bus and no other is one.  *)
LEMMA RootsFirst ==
    ASSUME NEW m, IsMachine(m), Acyclic(m), NEW c \in 0 .. m.last,
           NEW k \in 1 .. Len(BusChain(m, c))
    PROVE  LET chain == BusChain(m, c)
           IN /\ chain[k] \in DOMAIN m.up
              /\ k = 1 <=> m.up[chain[k]] = chain[k]
              /\ k # 1 => k - 1 \in 1 .. Len(chain) /\ chain[k - 1] = m.up[chain[k]]
<1> DEFINE chain == BusChain(m, c)
           n == Len(chain)
<1>1. Chain(m, chain)
  BY ChainOf
<1>2. chain[1] \in Roots(m)
  BY DEF Acyclic
<1>0. k \in 1 .. n
  OBVIOUS
<1> HIDE DEF chain
<1>3. n \in Nat /\ n >= 1 /\ chain[k] \in DOMAIN m.up
  BY <1>0, <1>1 DEF Chain
<1> HIDE DEF n
<1>4. CASE k = 1
  BY <1>2, <1>3, <1>4 DEF Roots, chain
<1>5. CASE k # 1
  <2>1. k \in 2 .. n /\ k - 1 \in 1 .. n /\ k - 1 # k
    BY <1>0, <1>3, <1>5
  <2>2. chain[k - 1] = m.up[chain[k]]
    BY <1>1, <2>1 DEF Chain, n
  <2>3. chain[k - 1] # chain[k]
    BY <1>0, <1>1, <2>1 DEF Chain, n
  <2> QED
    BY <1>3, <1>5, <2>1, <2>2, <2>3 DEF chain, n
<1> QED
  BY <1>4, <1>5

(* A node has the same parent on every path.                               *)
LEMMA SameParent ==
    ASSUME NEW m, IsMachine(m), Acyclic(m), NEW c \in 0 .. m.last, NEW d \in 0 .. m.last,
           NEW k \in DOMAIN Path(m, c), NEW j \in DOMAIN Path(m, d),
           Path(m, c)[k] = Path(m, d)[j]
    PROVE  Above(Path(m, c), k) = Above(Path(m, d), j)
<1> DEFINE p == Path(m, c)
           q == Path(m, d)
           a == BusChain(m, c)
           b == BusChain(m, d)
<1>1. IsPath(m, c, Len(a), p) /\ IsPath(m, d, Len(b), q)
  BY PathOf
<1>0. p[k] = q[j] /\ k \in DOMAIN p /\ j \in DOMAIN q
  OBVIOUS
<1>2. \A i \in 1 .. Len(a) : /\ i = 1 <=> m.up[a[i]] = a[i]
                             /\ i # 1 => i - 1 \in 1 .. Len(a) /\ a[i - 1] = m.up[a[i]]
  BY RootsFirst
<1>3. \A i \in 1 .. Len(b) : /\ i = 1 <=> m.up[b[i]] = b[i]
                             /\ i # 1 => i - 1 \in 1 .. Len(b) /\ b[i - 1] = m.up[b[i]]
  BY RootsFirst
<1> HIDE DEF p, q, a, b
<1>4. CASE k = Len(a) + 1
  <2>1. p[k] = <<"pci_function", c>> /\ p[k][1] = "pci_function"
    BY <1>1, <1>4 DEF IsPath
  <2>2. j = Len(b) + 1
    <3>1. j \in 1 .. Len(b) \/ j = Len(b) + 1
      BY <1>0, <1>1 DEF IsPath
    <3> QED
      BY <1>0, <1>1, <2>1, <3>1 DEF IsPath
  <2>3. q[j] = <<"pci_function", d>>
    BY <1>1, <2>2 DEF IsPath
  <2>4. c = d
    <3>1. <<"pci_function", c>> = <<"pci_function", d>>
      BY <1>0, <2>1, <2>3, Zenon
    <3> QED
      BY <3>1
  <2> QED
    BY <1>4, <2>2, <2>4 DEF p, q, a, b
<1>5. CASE k # Len(a) + 1
  <2>1. k \in 1 .. Len(a) /\ p[k] = BusNode(m, a[k])
    <3>1. k \in 1 .. Len(a)
      BY <1>0, <1>1, <1>5 DEF IsPath
    <3> QED
      BY <1>1, <3>1 DEF IsPath, a
  <2>2. j \in 1 .. Len(b)
    <3>1. j \in 1 .. Len(b) \/ j = Len(b) + 1
      BY <1>0, <1>1 DEF IsPath
    <3>2. p[k][1] # "pci_function"
      BY <1>1, <2>1 DEF IsPath
    <3>3. j = Len(b) + 1 => q[j][1] = "pci_function"
      BY <1>1 DEF IsPath
    <3> QED
      BY <1>0, <3>1, <3>2, <3>3
  <2>3. a[k] = b[j]
    <3>1. q[j] = BusNode(m, b[j])
      BY <1>1, <2>2 DEF IsPath, b
    <3>2. BusNode(m, a[k]) = BusNode(m, b[j])
      BY <1>0, <2>1, <3>1, Zenon
    <3> QED
      <4>1. BusNode(m, a[k])[2] = a[k] /\ BusNode(m, b[j])[2] = b[j]
        BY BusNodes
      <4> QED
        BY <3>2, <4>1, Zenon
  <2>4. k = 1 <=> j = 1
    BY <1>2, <1>3, <2>1, <2>2, <2>3
  <2>5. CASE k = 1
    BY <2>4, <2>5 DEF Above, p, q
  <2>6. CASE k # 1
    <3>1. k - 1 \in 1 .. Len(a) /\ j - 1 \in 1 .. Len(b) /\ a[k - 1] = b[j - 1]
      <4>1. k - 1 \in 1 .. Len(a) /\ a[k - 1] = m.up[a[k]]
        BY <1>2, <2>1, <2>6, Zenon
      <4>2. j - 1 \in 1 .. Len(b) /\ b[j - 1] = m.up[b[j]]
        BY <1>3, <2>2, <2>4, <2>6, Zenon
      <4> QED
        BY <2>3, <4>1, <4>2, Zenon
    <3>2. p[k - 1] = BusNode(m, a[k - 1])
      BY <1>1, <3>1 DEF IsPath, a
    <3>3. q[j - 1] = BusNode(m, b[j - 1])
      BY <1>1, <3>1 DEF IsPath, b
    <3> QED
      BY <2>4, <2>6, <3>1, <3>2, <3>3 DEF Above, p, q
  <2> QED
    BY <2>5, <2>6
<1> QED
  BY <1>4, <1>5

(* Nothing is above the host bridge of a root bus.                         *)
LEMMA HostOnTop ==
    ASSUME NEW m, IsMachine(m), Acyclic(m), NEW c \in 0 .. m.last, NEW h \in Roots(m),
           NEW k \in DOMAIN Path(m, c), Path(m, c)[k] = <<"host", h>>
    PROVE  Above(Path(m, c), k) = System
<1> DEFINE p == Path(m, c)
           a == BusChain(m, c)
<1>0. p[k] = <<"host", h>> /\ k \in DOMAIN p /\ m.up[h] = h
  BY DEF Roots
<1>1. IsPath(m, c, Len(a), p)
  BY PathOf
<1>2. \A i \in 1 .. Len(a) : i = 1 <=> m.up[a[i]] = a[i]
  BY RootsFirst
<1> HIDE DEF p, a
<1>3. k \in 1 .. Len(a)
  <2>1. k \in 1 .. Len(a) \/ k = Len(a) + 1
    BY <1>0, <1>1 DEF IsPath
  <2>2. k = Len(a) + 1 => p[k][1] = "pci_function"
    BY <1>1 DEF IsPath
  <2>3. p[k][1] = "host"
    BY <1>0
  <2> QED
    BY <2>1, <2>2, <2>3
<1>4. a[k] = h
  <2>1. p[k] = BusNode(m, a[k])
    BY <1>1, <1>3 DEF IsPath, a
  <2>2. BusNode(m, a[k])[2] = a[k]
    BY BusNodes
  <2> QED
    BY <1>0, <2>1, <2>2
<1>5. k = 1
  BY <1>0, <1>2, <1>3, <1>4
<1> QED
  BY <1>5 DEF Above

RealEdges(m, c) == CtrlEdges(m, c, NamespaceNodes(m, c))

(* What is below a controller's function, and that it is its own.          *)
LEMMA CtrlOnly ==
    ASSUME NEW m, NEW c, NEW e \in RealEdges(m, c)
    PROVE  /\ e[3] = c /\ e[2][1] \notin PathKinds /\ e[2] # System
           /\ e[2][1] = "ctrl" => e = <<<<"pci_function", c>>, <<"ctrl", c>>, c>>
<1> DEFINE ctrl == <<"ctrl", c>>
           group == <<"queues", c>>
<1>1. \/ e = <<<<"pci_function", c>>, ctrl, c>>
      \/ \E d : e = <<ctrl, <<"ns", <<c, d>>>>, c>>
      \/ \E d : e = <<ctrl, <<"subsys", d>>, c>>
      \/ e = <<ctrl, group, c>>
      \/ \E d : e = <<group, <<"queue", <<c, d>>>>, c>>
  BY DEF RealEdges, CtrlEdges, SubsystemNode, NamespaceNodes, QueueGroupNode, QueueEdges
<1>2. CASE e = <<<<"pci_function", c>>, ctrl, c>>
  BY <1>2 DEF PathKinds, System
<1>3. CASE \E d : e = <<ctrl, <<"ns", <<c, d>>>>, c>>
  BY <1>3 DEF PathKinds, System
<1>4. CASE \E d : e = <<ctrl, <<"subsys", d>>, c>>
  BY <1>4 DEF PathKinds, System
<1>5. CASE e = <<ctrl, group, c>>
  BY <1>5 DEF PathKinds, System
<1>6. CASE \E d : e = <<group, <<"queue", <<c, d>>>>, c>>
  BY <1>6 DEF PathKinds, System
<1> QED
  BY <1>1, <1>2, <1>3, <1>4, <1>5, <1>6

LEMMA PathOnly ==
    ASSUME NEW m, IsMachine(m), NEW c \in 0 .. m.last, NEW e \in PathEdges(Path(m, c), c)
    PROVE  /\ e[3] = c /\ e[2][1] \in PathKinds /\ e[2] # System
           /\ \E k \in DOMAIN Path(m, c) : e = <<Above(Path(m, c), k), Path(m, c)[k], c>>
           /\ e[2][1] = "pci_function" => e[2] = <<"pci_function", c>>
<1> DEFINE p == Path(m, c)
           n == Len(BusChain(m, c))
<1>1. IsPath(m, c, n, p)
  BY PathOf
<1>2. PICK k \in DOMAIN p : e = <<Above(p, k), p[k], c>>
  BY DEF PathEdges
<1> HIDE DEF p, n
<1>3. e[3] = c /\ e[2] = p[k]
  BY <1>2
<1>4. k \in 1 .. n + 1 /\ (k \in 1 .. n \/ k = n + 1)
  BY <1>1 DEF IsPath
<1>5. p[k][1] \in PathKinds /\ p[k] # System
  BY <1>1, <1>4 DEF IsPath
<1>6. p[k][1] = "pci_function" => p[k] = <<"pci_function", c>>
  BY <1>1, <1>4 DEF IsPath
<1> QED
  BY <1>2, <1>3, <1>5, <1>6 DEF p

(* The edges of one path are told apart by their lower ends.               *)
LEMMA PathApart ==
    ASSUME NEW m, IsMachine(m), NEW c \in 0 .. m.last,
           NEW e \in PathEdges(Path(m, c), c), NEW f \in PathEdges(Path(m, c), c), e[2] = f[2]
    PROVE  e = f
<1> DEFINE p == Path(m, c)
           n == Len(BusChain(m, c))
<1>1. IsPath(m, c, n, p)
  BY PathOf
<1>2. PICK j \in DOMAIN p : e = <<Above(p, j), p[j], c>>
  BY DEF PathEdges
<1>3. PICK k \in DOMAIN p : f = <<Above(p, k), p[k], c>>
  BY DEF PathEdges
<1> HIDE DEF p, n
<1>4. p[j] = p[k]
  BY <1>2, <1>3
<1>5. j = k
  BY <1>1, <1>4 DEF IsPath
<1> QED
  BY <1>2, <1>3, <1>5

(* A tree that has grown from start by the controllers in done.            *)
StartOK(m, start) ==
    /\ \A e \in start : \E h \in Roots(m) : e = <<System, <<"host", h>>, 0>>
    /\ \A e, f \in start : e = f

Source(m, start, done, e) ==
    e \in start \/ \E c \in done : e \in PathEdges(Path(m, c), c) \/ e \in RealEdges(m, c)

Grown(m, start, edges, done) ==
    /\ start \subseteq edges
    /\ \A e \in edges : Source(m, start, done, e)
    /\ \A c \in done : RealEdges(m, c) \subseteq edges
    /\ \A c \in done : \A k \in DOMAIN Path(m, c) : Path(m, c)[k] \in Nodes(edges)
    /\ \A e, f \in edges : e[2] = f[2] /\ e[2][1] \in PathKinds => e = f

LEMMA GrownStart ==
    ASSUME NEW m, NEW start, StartOK(m, start)
    PROVE  Grown(m, start, start, {})
BY DEF Grown, StartOK, Source

LEMMA GrownStep ==
    ASSUME NEW m, IsMachine(m), NEW start, NEW edges, NEW done \in SUBSET (0 .. m.last),
           Grown(m, start, edges, done), NEW c \in 0 .. m.last, c \notin done
    PROVE  Grown(m, start, Merge(edges, Path(m, c), c) \cup RealEdges(m, c), done \cup {c})
<1> DEFINE p == Path(m, c)
           added == {e \in PathEdges(p, c) : e[2] \notin Nodes(edges)}
           own == RealEdges(m, c)
           all == edges \cup added \cup own
<1>1. Merge(edges, p, c) \cup own = all
  BY DEF Merge
<1>2. start \subseteq all
  BY DEF Grown
<1>3. \A e \in all : Source(m, start, done \cup {c}, e)
  <2>1. \A e \in edges : Source(m, start, done, e)
    BY DEF Grown
  <2> QED
    BY <2>1 DEF Source
<1>4. \A d \in done \cup {c} : RealEdges(m, d) \subseteq all
  BY DEF Grown
<1>5. \A d \in done \cup {c} : \A k \in DOMAIN Path(m, d) : Path(m, d)[k] \in Nodes(all)
  <2>1. Nodes(edges) \subseteq Nodes(all)
    BY DEF Nodes
  <2>2. ASSUME NEW k \in DOMAIN p PROVE p[k] \in Nodes(all)
    <3>1. CASE p[k] \in Nodes(edges)
      BY <2>1, <3>1
    <3>2. CASE p[k] \notin Nodes(edges)
      <4> DEFINE e == <<Above(p, k), p[k], c>>
      <4>1. e \in PathEdges(p, c) /\ e[2] = p[k]
        BY DEF PathEdges
      <4>2. e \in added
        BY <3>2, <4>1
      <4> QED
        BY <4>1, <4>2 DEF Nodes
    <3> QED
      BY <3>1, <3>2
  <2> HIDE DEF all
  <2> QED
    BY <2>1, <2>2 DEF Grown
<1>6. ASSUME NEW e \in all, NEW f \in all, e[2] = f[2], e[2][1] \in PathKinds PROVE e = f
  <2>1. e \notin own /\ f \notin own
    BY <1>6, CtrlOnly
  <2>2. \A g \in edges : g[2] \in Nodes(edges)
    BY DEF Nodes
  <2>3. CASE e \in edges /\ f \in edges
    BY <1>6, <2>3 DEF Grown
  <2>4. CASE e \in added /\ f \in added
    BY <1>6, <2>4, PathApart
  <2> QED
    BY <1>6, <2>1, <2>2, <2>3, <2>4
<1> HIDE DEF all
<1>7. Grown(m, start, all, done \cup {c})
  BY <1>2, <1>3, <1>4, <1>5, <1>6 DEF Grown
<1> QED
  BY <1>1, <1>7

(* What the edges of a grown tree are, by the kind of their lower end.     *)
LEMMA CtrlOnce ==
    ASSUME NEW m, IsMachine(m), NEW start, StartOK(m, start), NEW edges,
           NEW done \in SUBSET (0 .. m.last), Grown(m, start, edges, done), NEW c
    PROVE  {e \in edges : e[2] = <<"ctrl", c>>}
             = IF c \in done THEN {<<<<"pci_function", c>>, <<"ctrl", c>>, c>>} ELSE {}
<1> DEFINE ctrl == <<"ctrl", c>>
           edge == <<<<"pci_function", c>>, ctrl, c>>
<1>1. ASSUME NEW e \in edges, e[2] = ctrl PROVE c \in done /\ e = edge
  <2>1. e[2][1] = "ctrl" /\ e[2][2] = c
    BY <1>1
  <2>2. e \notin start
    BY <2>1 DEF StartOK
  <2>3. PICK d \in done : e \in PathEdges(Path(m, d), d) \/ e \in RealEdges(m, d)
    BY <2>2 DEF Grown, Source
  <2>4. e \notin PathEdges(Path(m, d), d)
    BY <2>1, PathOnly DEF PathKinds
  <2>5. e = <<<<"pci_function", d>>, <<"ctrl", d>>, d>>
    BY <2>1, <2>3, <2>4, CtrlOnly
  <2>6. e[2][2] = d
    BY <2>5
  <2> QED
    BY <2>1, <2>5, <2>6
<1>2. ASSUME c \in done PROVE edge \in edges /\ edge[2] = ctrl
  <2>1. edge \in RealEdges(m, c)
    BY DEF RealEdges, CtrlEdges
  <2> QED
    BY <1>2, <2>1 DEF Grown
<1> HIDE DEF ctrl, edge
<1>3. {e \in edges : e[2] = ctrl} = IF c \in done THEN {edge} ELSE {}
  BY <1>1, <1>2
<1> QED
  BY <1>3 DEF ctrl, edge

LEMMA NodeOnce ==
    ASSUME NEW m, NEW start, NEW edges, NEW done, Grown(m, start, edges, done),
           NEW n \in Nodes(edges), n[1] \in PathKinds
    PROVE  \E x \in edges : {e \in edges : e[2] = n} = {x}
<1>1. n # System
  BY DEF System, PathKinds
<1>2. PICK x \in edges : x[2] = n
  BY <1>1 DEF Nodes
<1>3. \A e \in edges : e[2] = n => e = x
  BY <1>2 DEF Grown
<1> QED
  BY <1>2, <1>3

LEMMA ParentsOf ==
    ASSUME NEW m, IsMachine(m), Acyclic(m), NEW start, StartOK(m, start), NEW edges,
           NEW done \in SUBSET (0 .. m.last), Grown(m, start, edges, done),
           NEW c \in done, NEW k \in DOMAIN Path(m, c)
    PROVE  {e[1] : e \in {f \in edges : f[2] = Path(m, c)[k]}} = {Above(Path(m, c), k)}
<1> DEFINE p == Path(m, c)
           n == p[k]
           above == Above(p, k)
<1>0. c \in 0 .. m.last /\ IsPath(m, c, Len(BusChain(m, c)), p)
  BY PathOf
<1>1. n \in Nodes(edges) /\ n[1] \in PathKinds
  BY <1>0 DEF Grown, IsPath
<1>2. PICK x \in edges : {e \in edges : e[2] = n} = {x}
  <2> HIDE DEF n
  <2> QED
    BY <1>1, NodeOnce
<1>3. x[2] = n
  <2> HIDE DEF n
  <2> QED
    BY <1>2
<1>4. x[1] = above
  <2>1. CASE x \in start
    <3>1. PICK h \in Roots(m) : x = <<System, <<"host", h>>, 0>>
      BY <2>1 DEF StartOK
    <3>2. p[k] = <<"host", h>> /\ x[1] = System
      BY <1>3, <3>1
    <3> QED
      BY <1>0, <3>2, HostOnTop
  <2>2. CASE x \notin start
    <3>1. PICK d \in done : x \in PathEdges(Path(m, d), d) \/ x \in RealEdges(m, d)
      BY <2>2 DEF Grown, Source
    <3>2. x \in PathEdges(Path(m, d), d)
      BY <1>1, <1>3, <3>1, CtrlOnly
    <3>3. PICK j \in DOMAIN Path(m, d) : x = <<Above(Path(m, d), j), Path(m, d)[j], d>>
      BY <3>2 DEF PathEdges
    <3>4. x[1] = Above(Path(m, d), j) /\ Path(m, d)[j] = p[k]
      BY <1>3, <3>3
    <3>5. Above(Path(m, d), j) = Above(Path(m, c), k)
      BY <1>0, <3>4, SameParent
    <3> QED
      BY <3>4, <3>5
  <2> QED
    BY <2>1, <2>2
<1> HIDE DEF n, above
<1>5. {e[1] : e \in {f \in edges : f[2] = n}} = {above}
  BY <1>2, <1>4
<1> QED
  BY <1>5 DEF n, above

(* The links of a grown tree: those of every path, once or not.            *)
OwnLinks(m, c) == Links(PathEdges(Path(m, c), c)) \cup Links(RealEdges(m, c))

LEMMA LinksOf ==
    ASSUME NEW m, IsMachine(m), Acyclic(m), NEW start, StartOK(m, start), NEW edges,
           NEW done \in SUBSET (0 .. m.last), Grown(m, start, edges, done)
    PROVE  Links(edges) = Links(start) \cup UNION {OwnLinks(m, c) : c \in done}
<1>1. ASSUME NEW l \in Links(edges) PROVE l \in Links(start) \cup UNION {OwnLinks(m, c) : c \in done}
  <2>1. PICK e \in edges : l = <<e[1], e[2]>>
    BY DEF Links
  <2>2. CASE e \in start
    BY <2>1, <2>2 DEF Links
  <2>3. CASE e \notin start
    <3>1. PICK c \in done : e \in PathEdges(Path(m, c), c) \/ e \in RealEdges(m, c)
      BY <2>3 DEF Grown, Source
    <3>2. l \in OwnLinks(m, c)
      BY <2>1, <3>1 DEF OwnLinks, Links
    <3> QED
      BY <3>2
  <2> QED
    BY <2>2, <2>3
<1>2. Links(start) \subseteq Links(edges)
  BY DEF Grown, Links
<1>3. ASSUME NEW c \in done PROVE Links(RealEdges(m, c)) \subseteq Links(edges)
  <2>1. RealEdges(m, c) \subseteq edges
    BY DEF Grown
  <2> QED
    BY <2>1 DEF Links
<1>4. ASSUME NEW c \in done, NEW l \in Links(PathEdges(Path(m, c), c)) PROVE l \in Links(edges)
  <2> DEFINE p == Path(m, c)
  <2>1. PICK k \in DOMAIN p : l = <<Above(p, k), p[k]>>
    BY DEF Links, PathEdges
  <2>2. {e[1] : e \in {f \in edges : f[2] = p[k]}} = {Above(p, k)}
    BY ParentsOf
  <2> HIDE DEF p
  <2>3. PICK e \in edges : e[2] = p[k] /\ e[1] = Above(p, k)
    BY <2>2
  <2> QED
    BY <2>1, <2>3 DEF Links
<1>5. \A c \in done : OwnLinks(m, c) \subseteq Links(edges)
  BY <1>3, <1>4 DEF OwnLinks
<1> QED
  BY <1>1, <1>2, <1>5

(* A controller is found if a visible disk of it is left.                  *)
LEMMA FoundIfLeft ==
    ASSUME NEW m, IsMachine(m), NEW c
    PROVE  LookupDevice(m, c) <=> ~\A d \in m.disks \ m.gone : d[1] = c => d[3]
<1> DEFINE own == {d \in Visible(m.disks \ m.gone) : d[1] = c}
           least == {d \in own : \A e \in own : d[2] <= e[2]}
<1>1. LookupDevice(m, c) <=> least # {}
  BY DEF LookupDevice, FindDisk
<1>2. own = {d \in m.disks \ m.gone : ~d[3] /\ d[1] = c}
  BY DEF Visible
<1>3. own = {} <=> \A d \in m.disks \ m.gone : d[1] = c => d[3]
  BY <1>2, Zenon
<1>4. ASSUME own # {} PROVE least # {}
  <2> DEFINE T == {d[2] : d \in own}
  <2>1. \A d \in own : d[2] \in Nat
    BY <1>2 DEF IsMachine
  <2> HIDE DEF own
  <2>2. T \subseteq Nat /\ T # {}
    BY <1>4, <2>1
  <2>3. PICK t \in T : \A y \in T : t <= y
    <3> HIDE DEF T
    <3> QED
      BY <2>2, Least
  <2> QED
    BY <2>3
<1>5. least # {} => own # {}
  OBVIOUS
<1> QED
  BY <1>1, <1>3, <1>4, <1>5

LEMMA ListedIn ==
    ASSUME NEW m, IsMachine(m)
    PROVE  ListDevices(m) \subseteq 0 .. m.last
<1>1. \A d \in m.disks : d[1] \in 0 .. m.last
  BY DEF IsMachine
<1> QED
  BY <1>1 DEF ListDevices, Visible

(* The loop of build_topology, turn by turn.                               *)
Empty == [edges |-> {}, errors |-> {}, raised |-> FALSE]
Builds(b, m) ==
    b = [k \in 0 .. m.last + 1 |-> IF k = 0 THEN Empty ELSE AddDevice(b[k - 1], m, k - 1)]

Trees(E, C) == [edges : SUBSET E, errors : SUBSET C, raised : BOOLEAN]

LEMMA BuildsExists ==
    ASSUME NEW m, IsMachine(m)
    PROVE  \E b : Builds(b, m)
<1> DEFINE N == m.last + 1
           C == 0 .. m.last
           E == UNION {PathEdges(Path(m, c), c) \cup RealEdges(m, c) : c \in C}
           V == Trees(E, C)
           step == [v \in V |-> [k \in 1 .. N |-> AddDevice(v, m, k - 1)]]
<1>1. N \in Nat /\ \A k \in 1 .. N : k - 1 \in C
  BY DEF IsMachine
<1>2. Empty \in V
  <2> HIDE DEF C, E
  <2> QED
    BY DEF Empty, Trees
<1>3. ASSUME NEW v \in V, NEW c \in C PROVE AddDevice(v, m, c) \in V
  <2>1. PathEdges(Path(m, c), c) \subseteq E /\ RealEdges(m, c) \subseteq E
    OBVIOUS
  <2> HIDE DEF C, E
  <2>2. v.edges \subseteq E /\ v.errors \subseteq C
    BY DEF Trees
  <2>3. Merge(v.edges, Path(m, c), c) \cup RealEdges(m, c) \subseteq E
    BY <2>1, <2>2 DEF Merge
  <2> DEFINE grown == Merge(v.edges, Path(m, c), c) \cup RealEdges(m, c)
             more == v.errors \cup {c}
  <2>4. more \subseteq C
    BY <2>2
  <2>5. \/ AddDevice(v, m, c) = v
        \/ AddDevice(v, m, c) = [v EXCEPT !.errors = more]
        \/ AddDevice(v, m, c) = [v EXCEPT !.raised = TRUE]
        \/ AddDevice(v, m, c) = [v EXCEPT !.edges = grown]
    BY DEF AddDevice, RealEdges
  <2> HIDE DEF grown, more
  <2>6. [v EXCEPT !.errors = more] \in V
    BY <2>4 DEF Trees
  <2>7. [v EXCEPT !.raised = TRUE] \in V
    BY <2>4 DEF Trees
  <2>8. [v EXCEPT !.edges = grown] \in V
    BY <2>3 DEF Trees, grown
  <2> QED
    BY <2>5, <2>6, <2>7, <2>8
<1> HIDE DEF V, C
<1>4. step \in [V -> [1 .. N -> V]]
  <2> HIDE DEF N
  <2>1. \A v \in V, k \in 1 .. N : AddDevice(v, m, k - 1) \in V
    BY <1>1, <1>3
  <2> QED
    BY <2>1
<1> HIDE DEF N
<1>5. PICK g : Follows(g, N, V, Empty, step)
  <2> HIDE DEF step
  <2> QED
    BY <1>1, <1>2, <1>4, Recursion
<1>6. g \in [0 .. N -> V] /\ g[0] = Empty /\ \A k \in 1 .. N : g[k] = AddDevice(g[k - 1], m, k - 1)
  <2>1. \A k \in 1 .. N : k - 1 \in 0 .. N
    BY <1>1
  <2> QED
    BY <1>5, <2>1 DEF Follows
<1>7. g = [k \in 0 .. N |-> IF k = 0 THEN Empty ELSE AddDevice(g[k - 1], m, k - 1)]
  <2>1. \A k \in 0 .. N : k = 0 \/ k \in 1 .. N
    BY <1>1
  <2> QED
    BY <1>6, <2>1
<1> QED
  BY <1>7 DEF Builds, N

Found(m, c) == LookupDevice(m, c) /\ c \notin m.lost
Met(m, k) == {c \in ListDevices(m) : c < k /\ Found(m, c)}
Missed(m, k) == {c \in ListDevices(m) : c < k /\ ~Found(m, c)}

BuiltTo(m, t, k) ==
    /\ DOMAIN t = {"edges", "errors", "raised"}
    /\ t.raised => m.broken # {}
    /\ ~t.raised => t.errors = Missed(m, k) /\ Grown(m, {}, t.edges, Met(m, k))

LEMMA BuiltOn ==
    ASSUME NEW m, IsMachine(m), NEW t, NEW c \in 0 .. m.last, BuiltTo(m, t, c)
    PROVE  BuiltTo(m, AddDevice(t, m, c), c + 1)
<1> DEFINE grown == Merge(t.edges, Path(m, c), c) \cup RealEdges(m, c)
           u == AddDevice(t, m, c)
<1>1. c \in Nat /\ ListDevices(m) \subseteq Nat /\ ListDevices(m) \subseteq 0 .. m.last
  BY ListedIn DEF IsMachine
<1>2. \A d \in ListDevices(m) : d < c + 1 <=> d < c \/ d = c
  BY <1>1
<1>3. CASE t.raised
  <2>1. u = t
    BY <1>3 DEF AddDevice
  <2> QED
    BY <1>3, <2>1 DEF BuiltTo
<1>4. CASE ~t.raised /\ c \notin ListDevices(m)
  <2>1. u = t
    BY <1>4 DEF AddDevice
  <2>2. Met(m, c + 1) = Met(m, c) /\ Missed(m, c + 1) = Missed(m, c)
    BY <1>2, <1>4 DEF Met, Missed
  <2> QED
    BY <2>1, <2>2 DEF BuiltTo
<1>5. CASE ~t.raised /\ c \in ListDevices(m) /\ ~Found(m, c)
  <2> DEFINE more == t.errors \cup {c}
  <2>1. u = [t EXCEPT !.errors = more]
    BY <1>5 DEF AddDevice, Found, RealEdges
  <2>2. Met(m, c + 1) = Met(m, c) /\ Missed(m, c + 1) = Missed(m, c) \cup {c}
    BY <1>2, <1>5 DEF Met, Missed
  <2>3. DOMAIN t = {"edges", "errors", "raised"}
    BY DEF BuiltTo
  <2>4. u.edges = t.edges /\ u.errors = more /\ u.raised = t.raised /\ DOMAIN u = DOMAIN t
    <3> HIDE DEF more, u
    <3> QED
      BY <2>1, <2>3
  <2> HIDE DEF u
  <2>5. more = Missed(m, c + 1)
    BY <1>5, <2>2 DEF BuiltTo
  <2> HIDE DEF more
  <2>6. BuiltTo(m, u, c + 1)
    BY <1>5, <2>2, <2>3, <2>4, <2>5 DEF BuiltTo
  <2> QED
    BY <2>6 DEF u
<1>6. CASE ~t.raised /\ c \in ListDevices(m) /\ Found(m, c) /\ Touched(m, c) \cap m.broken # {}
  <2>1. u = [t EXCEPT !.raised = TRUE]
    BY <1>6 DEF AddDevice, Found, RealEdges
  <2>3. DOMAIN t = {"edges", "errors", "raised"}
    BY DEF BuiltTo
  <2> HIDE DEF u
  <2>4. u.raised /\ DOMAIN u = DOMAIN t
    BY <2>1, <2>3
  <2>5. m.broken # {}
    BY <1>6
  <2>6. BuiltTo(m, u, c + 1)
    BY <2>3, <2>4, <2>5 DEF BuiltTo
  <2> QED
    BY <2>6 DEF u
<1>7. CASE ~t.raised /\ c \in ListDevices(m) /\ Found(m, c) /\ ~(Touched(m, c) \cap m.broken # {})
  <2>1. u = [t EXCEPT !.edges = grown]
    BY <1>7 DEF AddDevice, Found, RealEdges
  <2>2. Met(m, c + 1) = Met(m, c) \cup {c} /\ Missed(m, c + 1) = Missed(m, c)
    BY <1>2, <1>7 DEF Met, Missed
  <2>3. DOMAIN t = {"edges", "errors", "raised"}
    BY DEF BuiltTo
  <2>4. u.edges = grown /\ u.errors = t.errors /\ u.raised = t.raised /\ DOMAIN u = DOMAIN t
    <3> HIDE DEF grown, u
    <3> QED
      BY <2>1, <2>3
  <2>5. Grown(m, {}, grown, Met(m, c) \cup {c})
    <3>1. Met(m, c) \in SUBSET (0 .. m.last) /\ c \notin Met(m, c)
      BY <1>1 DEF Met
    <3>2. Grown(m, {}, t.edges, Met(m, c))
      BY <1>7 DEF BuiltTo
    <3> QED
      BY <3>1, <3>2, GrownStep
  <2> HIDE DEF u, grown
  <2>6. BuiltTo(m, u, c + 1)
    BY <1>7, <2>2, <2>3, <2>4, <2>5 DEF BuiltTo
  <2> QED
    BY <2>6 DEF u
<1> QED
  BY <1>3, <1>4, <1>5, <1>6, <1>7

LEMMA TreeBuilt ==
    ASSUME NEW m, IsMachine(m)
    PROVE  BuiltTo(m, BuildTopology(m), m.last + 1)
<1> DEFINE N == m.last + 1
           b == CHOOSE g : Builds(g, m)
<1>1. BuildTopology(m) = b[N]
  BY DEF BuildTopology, Builds, Empty
<1>2. Builds(b, m)
  BY BuildsExists
<1>3. N \in Nat /\ \A k \in 1 .. N : k - 1 \in 0 .. m.last /\ (k - 1) + 1 = k
  BY DEF IsMachine
<1> HIDE DEF b
<1>4. b[0] = Empty /\ \A k \in 1 .. N : b[k] = AddDevice(b[k - 1], m, k - 1)
  <2>1. b = [k \in 0 .. N |-> IF k = 0 THEN Empty ELSE AddDevice(b[k - 1], m, k - 1)]
    BY <1>2 DEF Builds
  <2> HIDE DEF N
  <2>2. 0 \in 0 .. N /\ \A k \in 1 .. N : k \in 0 .. N /\ k # 0
    BY <1>3
  <2> QED
    BY <2>1, <2>2, Zenon
<1> HIDE DEF N
<1> DEFINE I == {k \in 0 .. N : BuiltTo(m, b[k], k)}
<1>5. 0 \in I
  <2>1. Met(m, 0) = {} /\ Missed(m, 0) = {}
    <3>1. \A d \in ListDevices(m) : ~(d < 0)
      BY ListedIn DEF IsMachine
    <3> QED
      BY <3>1 DEF Met, Missed
  <2>2. Grown(m, {}, {}, {})
    BY GrownStart DEF StartOK
  <2>3. /\ DOMAIN Empty = {"edges", "errors", "raised"}
        /\ ~Empty.raised /\ Empty.errors = {} /\ Empty.edges = {}
    BY DEF Empty
  <2>4. BuiltTo(m, Empty, 0)
    BY <2>1, <2>2, <2>3 DEF BuiltTo
  <2> QED
    BY <1>3, <1>4, <2>4
<1>6. ASSUME NEW k \in 1 .. N, k - 1 \in I PROVE k \in I
  <2>1. BuiltTo(m, b[k - 1], k - 1)
    BY <1>6
  <2>2. BuiltTo(m, AddDevice(b[k - 1], m, k - 1), (k - 1) + 1)
    BY <1>3, <2>1, BuiltOn
  <2>3. BuiltTo(m, b[k], k)
    BY <1>3, <1>4, <2>2
  <2> QED
    BY <1>3, <2>3
<1>7. N \in I
  <2> HIDE DEF I
  <2>1. \A k \in 0 .. N : k \in I
    BY <1>3, <1>5, <1>6, Inductive
  <2> QED
    BY <1>3, <2>1
<1> QED
  BY <1>1, <1>7 DEF N

(* The inventory appends for a controller what the drgn backend appends.   *)
LEMMA MockSame ==
    ASSUME NEW m, IsMachine(m), Acyclic(m), NEW h, Roots(m) = {h}, NEW start, StartOK(m, start),
           NEW edges, NEW done \in SUBSET (0 .. m.last), Grown(m, start, edges, done),
           NEW c \in ListDevices(m), c \notin done, m.spaces[c] = {1}
    PROVE  AddMock(edges, m, h, c) = Merge(edges, Path(m, c), c) \cup RealEdges(m, c)
<1> DEFINE a == BusChain(m, c)
           n == Len(a)
           p == Path(m, c)
           q == [k \in 1 .. n |-> IF k = 1 THEN <<"host", h>> ELSE <<"pci", a[k]>>]
           func == <<"pci_function", c>>
           last == <<p[n], func, c>>
<1>1. c \in 0 .. m.last
  BY ListedIn
<1>2. IsPath(m, c, n, p)
  BY <1>1, PathOf
<1>3. AddMock(edges, m, h, c)
        = Merge(edges, q, c) \cup {<<q[n], func, c>>} \cup RealEdges(m, c)
  <2>1. NamespaceNodes(m, c) = {<<"ns", <<c, 1>>>>}
    BY DEF NamespaceNodes
  <2> QED
    BY <2>1 DEF AddMock, RealEdges
<1>4. \A k \in 1 .. n : k = 1 <=> m.up[a[k]] = a[k]
  BY <1>1, RootsFirst
<1>5. \A k \in 1 .. n : m.up[a[k]] = a[k] => a[k] = h
  <2>1. \A k \in 1 .. n : a[k] \in DOMAIN m.up
    BY <1>1, RootsFirst
  <2> QED
    BY <2>1 DEF Roots
<1>6. \A k \in 1 .. n : p[k] = BusNode(m, a[k])
  BY <1>2 DEF IsPath
<1>7. n \in Nat /\ n >= 1 /\ DOMAIN p = 1 .. n + 1 /\ p[n + 1] = func
  BY <1>2 DEF IsPath
<1>8. func \notin Nodes(edges)
  <2>1. func # System /\ func[1] = "pci_function" /\ func[1] \in PathKinds /\ func[2] = c
    BY DEF System, PathKinds
  <2> SUFFICES ASSUME NEW e \in edges, e[2] = func PROVE FALSE
    BY <2>1 DEF Nodes
  <2>2. e \notin start
    BY DEF StartOK
  <2>3. PICK d \in done : e \in PathEdges(Path(m, d), d) \/ e \in RealEdges(m, d)
    BY <2>2 DEF Grown, Source
  <2>4. e \in PathEdges(Path(m, d), d)
    BY <2>1, <2>3, CtrlOnly
  <2>5. e[2] = <<"pci_function", d>>
    BY <2>1, <2>4, PathOnly
  <2>6. c = d
    <3>1. <<"pci_function", d>>[2] = d
      OBVIOUS
    <3> QED
      BY <2>1, <2>5, <3>1
  <2> QED
    BY <2>6
<1> HIDE DEF a, n, p
<1>9. DOMAIN q = 1 .. n /\ \A k \in 1 .. n : q[k] = p[k]
  <2>1. ASSUME NEW k \in 1 .. n PROVE q[k] = BusNode(m, a[k])
    <3>1. CASE k = 1
      <4>1. m.up[a[k]] = a[k] /\ a[k] = h
        BY <1>4, <1>5, <3>1
      <4>2. BusNode(m, a[k]) = <<"host", a[k]>>
        BY <4>1, BusNodes
      <4>3. q[k] = <<"host", h>>
        BY <3>1
      <4> HIDE DEF q
      <4> QED
        BY <4>1, <4>2, <4>3
    <3>2. CASE k # 1
      <4>1. m.up[a[k]] # a[k]
        BY <1>4, <3>2
      <4>2. BusNode(m, a[k]) = <<"pci", a[k]>>
        BY <4>1, BusNodes
      <4>3. q[k] = <<"pci", a[k]>>
        BY <3>2
      <4> HIDE DEF q
      <4> QED
        BY <4>2, <4>3
    <3> QED
      BY <3>1, <3>2
  <2>2. DOMAIN q = 1 .. n
    OBVIOUS
  <2> HIDE DEF q
  <2> QED
    BY <1>6, <2>1, <2>2
<1> HIDE DEF q, func
<1>10. q[n] = p[n] /\ last[2] = func
  BY <1>7, <1>9
<1>11. \A k \in 1 .. n : Above(q, k) = Above(p, k) /\ q[k] = p[k]
  <2>1. \A k \in 1 .. n : k = 1 \/ k - 1 \in 1 .. n
    BY <1>7
  <2> QED
    BY <1>9, <2>1 DEF Above
<1>12. <<Above(p, n + 1), p[n + 1], c>> = last
  BY <1>7 DEF Above
<1> HIDE DEF last
<1>13. PathEdges(p, c) = PathEdges(q, c) \cup {last}
  <2>1. \A k \in DOMAIN p : k \in 1 .. n \/ k = n + 1
    BY <1>7
  <2>2. n + 1 \in DOMAIN p /\ \A k \in 1 .. n : k \in DOMAIN p
    BY <1>7
  <2>3. PathEdges(p, c) \subseteq PathEdges(q, c) \cup {last}
    <3> SUFFICES ASSUME NEW k \in DOMAIN p
                 PROVE  <<Above(p, k), p[k], c>> \in PathEdges(q, c) \cup {last}
      BY DEF PathEdges
    <3>1. CASE k \in 1 .. n
      BY <1>9, <1>11, <3>1 DEF PathEdges
    <3>2. CASE k = n + 1
      BY <1>12, <3>2
    <3> QED
      BY <2>1, <3>1, <3>2
  <2>4. PathEdges(q, c) \subseteq PathEdges(p, c)
    BY <1>9, <1>11, <2>2 DEF PathEdges
  <2>5. last \in PathEdges(p, c)
    BY <1>12, <2>2 DEF PathEdges
  <2> QED
    BY <2>3, <2>4, <2>5
<1>14. Merge(edges, p, c) = Merge(edges, q, c) \cup {last}
  BY <1>8, <1>10, <1>13 DEF Merge
<1>15. <<q[n], func, c>> = last
  BY <1>10 DEF last
<1> QED
  BY <1>3, <1>14, <1>15 DEF p

Mocks(b, m, h) ==
    b = [k \in 0 .. m.last + 1 |->
           IF k = 0 THEN {<<System, <<"host", h>>, 0>>} ELSE AddMock(b[k - 1], m, h, k - 1)]

LEMMA MocksExists ==
    ASSUME NEW m, IsMachine(m), NEW h
    PROVE  \E b : Mocks(b, m, h)
<1> DEFINE N == m.last + 1
           C == 0 .. m.last
           first == <<System, <<"host", h>>, 0>>
           E == {first} \cup UNION {AddMock({}, m, h, c) : c \in C}
           V == SUBSET E
           base == {first}
           step == [v \in V |-> [k \in 1 .. N |-> AddMock(v, m, h, k - 1)]]
<1>1. N \in Nat /\ \A k \in 1 .. N : k - 1 \in C
  BY DEF IsMachine
<1>2. base \in V
  OBVIOUS
<1>3. ASSUME NEW v \in V, NEW c \in C PROVE AddMock(v, m, h, c) \in V
  <2>1. AddMock({}, m, h, c) \subseteq E
    OBVIOUS
  <2>2. \A path : Merge(v, path, c) \subseteq v \cup Merge({}, path, c)
    BY DEF Merge, Nodes
  <2>3. AddMock(v, m, h, c) \subseteq v \cup AddMock({}, m, h, c)
    BY <2>2 DEF AddMock
  <2> HIDE DEF E
  <2> QED
    BY <2>1, <2>3
<1> HIDE DEF V, C
<1>4. step \in [V -> [1 .. N -> V]]
  <2> HIDE DEF N
  <2>1. \A v \in V, k \in 1 .. N : AddMock(v, m, h, k - 1) \in V
    BY <1>1, <1>3
  <2> QED
    BY <2>1
<1> HIDE DEF N, base
<1>5. PICK g : Follows(g, N, V, base, step)
  <2> HIDE DEF step
  <2> QED
    BY <1>1, <1>2, <1>4, Recursion
<1>6. g \in [0 .. N -> V] /\ g[0] = base /\ \A k \in 1 .. N : g[k] = AddMock(g[k - 1], m, h, k - 1)
  <2>1. \A k \in 1 .. N : k - 1 \in 0 .. N
    BY <1>1
  <2> QED
    BY <1>5, <2>1 DEF Follows
<1>7. g = [k \in 0 .. N |-> IF k = 0 THEN base ELSE AddMock(g[k - 1], m, h, k - 1)]
  <2>1. \A k \in 0 .. N : k = 0 \/ k \in 1 .. N
    BY <1>1
  <2> QED
    BY <1>6, <2>1
<1> QED
  BY <1>7 DEF Mocks, N, base

Before(m, k) == {c \in ListDevices(m) : c < k}

LEMMA MockBuilt ==
    ASSUME NEW m, IsMachine(m), Acyclic(m), NEW h, Roots(m) = {h},
           \A c \in ListDevices(m) : m.spaces[c] = {1}
    PROVE  Grown(m, {<<System, <<"host", h>>, 0>>}, MockTopology(m), ListDevices(m))
<1> DEFINE N == m.last + 1
           b == CHOOSE g : Mocks(g, m, h)
           start == {<<System, <<"host", h>>, 0>>}
<1>0. (CHOOSE r \in Roots(m) : TRUE) = h
  OBVIOUS
<1>1. MockTopology(m) = b[N]
  BY <1>0 DEF MockTopology, Mocks
<1>2. Mocks(b, m, h)
  BY MocksExists
<1>3. N \in Nat /\ \A k \in 1 .. N : k - 1 \in 0 .. m.last /\ k - 1 \in Nat
  BY DEF IsMachine
<1> HIDE DEF b
<1>4. b[0] = start /\ \A k \in 1 .. N : b[k] = AddMock(b[k - 1], m, h, k - 1)
  <2>1. b = [k \in 0 .. N |-> IF k = 0 THEN start ELSE AddMock(b[k - 1], m, h, k - 1)]
    BY <1>2 DEF Mocks
  <2> HIDE DEF N
  <2>2. 0 \in 0 .. N /\ \A k \in 1 .. N : k \in 0 .. N /\ k # 0
    BY <1>3
  <2> QED
    BY <2>1, <2>2, Zenon
<1>5. ListDevices(m) \subseteq Nat /\ ListDevices(m) \subseteq 0 .. m.last /\ Before(m, N) = ListDevices(m)
  BY ListedIn DEF IsMachine, Before
<1> HIDE DEF N
<1>6. StartOK(m, start)
  BY DEF StartOK
<1> HIDE DEF start
<1> DEFINE I == {k \in 0 .. N : Grown(m, start, b[k], Before(m, k))}
<1>7. 0 \in I
  <2>1. Before(m, 0) = {}
    BY <1>5 DEF Before
  <2> QED
    BY <1>3, <1>4, <1>6, <2>1, GrownStart
<1>8. ASSUME NEW k \in 1 .. N, k - 1 \in I PROVE k \in I
  <2> DEFINE c == k - 1
  <2>1. Grown(m, start, b[c], Before(m, c)) /\ c \in 0 .. m.last /\ c \in Nat /\ k = c + 1
    BY <1>3, <1>8
  <2>2. b[k] = AddMock(b[c], m, h, c)
    BY <1>4
  <2> HIDE DEF c
  <2>3. \A d \in ListDevices(m) : d < k <=> d < c \/ d = c
    BY <1>5, <2>1
  <2>4. CASE c \notin ListDevices(m)
    <3>1. Before(m, k) = Before(m, c)
      BY <2>3, <2>4 DEF Before
    <3>2. b[k] = b[c]
      BY <2>2, <2>4 DEF AddMock
    <3> QED
      BY <1>3, <2>1, <3>1, <3>2
  <2>5. CASE c \in ListDevices(m)
    <3>1. Before(m, k) = Before(m, c) \cup {c} /\ c \notin Before(m, c)
      <4>1. ~(c < c)
        BY <2>1
      <4> QED
        BY <2>3, <2>5, <4>1, Zenon DEF Before
    <3>2. Before(m, c) \in SUBSET (0 .. m.last)
      <4>1. Before(m, c) \subseteq ListDevices(m)
        BY DEF Before
      <4> QED
        BY <1>5, <4>1
    <3>3. b[k] = Merge(b[c], Path(m, c), c) \cup RealEdges(m, c)
      BY <1>6, <2>1, <2>2, <2>5, <3>1, <3>2, MockSame
    <3>4. Grown(m, start, b[k], Before(m, k))
      BY <2>1, <3>1, <3>2, <3>3, GrownStep
    <3> QED
      BY <1>3, <3>4
  <2> QED
    BY <2>4, <2>5
<1>9. N \in I
  <2> HIDE DEF I
  <2>1. \A k \in 0 .. N : k \in I
    BY <1>3, <1>7, <1>8, Inductive
  <2> QED
    BY <1>3, <2>1
<1> QED
  BY <1>1, <1>5, <1>9 DEF start

(* With one root bus and nothing missing, both trees have the same links.  *)
LEMMA MockLinks ==
    ASSUME NEW m, IsMachine(m), IsInventory(m)
    PROVE  Links(MockTopology(m)) = Links(BuildTopology(m).edges)
<1> DEFINE t == BuildTopology(m)
           listed == ListDevices(m)
<1>0. /\ m.gone = {} /\ m.lost = {} /\ m.broken = {} /\ \A c \in listed : m.spaces[c] = {1}
      /\ Acyclic(m) /\ listed # {} /\ Cardinality(Roots(m)) = 1
  BY DEF IsInventory
<1>1. PICK h : Roots(m) = {h}
  <2>1. IsFiniteSet(Roots(m))
    BY FS_Subset DEF Roots, IsMachine
  <2> QED
    BY <1>0, <2>1, FS_Singleton
<1> DEFINE first == <<System, <<"host", h>>, 0>>
           start == {first}
<1>2. listed \in SUBSET (0 .. m.last)
  BY ListedIn
<1>3. Met(m, m.last + 1) = listed
  <2>1. \A c \in listed : LookupDevice(m, c)
    <3> SUFFICES ASSUME NEW d \in m.disks, ~d[3] PROVE LookupDevice(m, d[1])
      BY DEF ListDevices, Visible
    <3> QED
      BY <1>0, FoundIfLeft
  <2>2. \A c \in listed : c < m.last + 1
    BY <1>2 DEF IsMachine
  <2> QED
    BY <1>0, <2>1, <2>2 DEF Met, Found
<1>4. Grown(m, {}, t.edges, listed)
  BY <1>0, <1>3, TreeBuilt DEF BuiltTo
<1>5. StartOK(m, {}) /\ StartOK(m, start)
  BY <1>1 DEF StartOK
<1>6. Grown(m, start, MockTopology(m), listed)
  BY <1>0, <1>1, MockBuilt
<1> HIDE DEF t, listed, start
<1>7. Links(t.edges) = Links({}) \cup UNION {OwnLinks(m, c) : c \in listed}
  BY <1>0, <1>2, <1>4, <1>5, LinksOf
<1>8. Links(MockTopology(m)) = Links(start) \cup UNION {OwnLinks(m, c) : c \in listed}
  BY <1>0, <1>2, <1>5, <1>6, LinksOf
<1>9. Links({}) = {} /\ Links(start) = {<<System, <<"host", h>>>>}
  BY DEF Links, start
<1>10. <<System, <<"host", h>>>> \in UNION {OwnLinks(m, c) : c \in listed}
  <2>1. PICK c \in listed : TRUE
    BY <1>0
  <2> DEFINE p == Path(m, c)
             a == BusChain(m, c)
             e == <<Above(p, 1), p[1], c>>
  <2>2. IsPath(m, c, Len(a), p)
    BY <1>2, PathOf
  <2>3. 1 \in 1 .. Len(a) /\ 1 \in DOMAIN p /\ p[1] = BusNode(m, a[1])
    BY <2>2 DEF IsPath
  <2>4. a[1] = h /\ m.up[a[1]] = a[1]
    <3>1. a[1] \in Roots(m)
      BY <1>0, <1>2 DEF Acyclic, listed
    <3> QED
      BY <1>1, <3>1 DEF Roots
  <2> HIDE DEF a, p
  <2>5. p[1] = <<"host", h>>
    BY <2>3, <2>4, BusNodes
  <2>6. e \in PathEdges(p, c) /\ e[1] = System /\ e[2] = <<"host", h>>
    BY <2>3, <2>5 DEF PathEdges, Above
  <2>7. <<System, <<"host", h>>>> \in OwnLinks(m, c)
    BY <2>6 DEF OwnLinks, Links, p
  <2> QED
    BY <2>7
<1> QED
  BY <1>7, <1>8, <1>9, <1>10 DEF t

LEMMA TreeIsSound ==
    ASSUME NEW m, IsMachine(m)
    PROVE  TreeSound(m)
<1> DEFINE t == BuildTopology(m)
           listed == ListDevices(m)
           Times(node) == Cardinality({e \in t.edges : e[2] = node})
           Parents(node) == {e[1] : e \in {f \in t.edges : f[2] = node}}
           met == Met(m, m.last + 1)
           B == \A c \in listed : Times(<<"ctrl", c>>) = IF c \in t.errors THEN 0 ELSE 1
           C == t.errors = {c \in listed : c \in m.lost \/ \A d \in m.disks \ m.gone : d[1] = c => d[3]}
           D == \A n \in Nodes(t.edges) : n[1] \in {"host", "pci", "pci_function"} => Times(n) = 1
           E == Acyclic(m) => \A c \in listed \ t.errors :
                   /\ Parents(<<"ctrl", c>>) = {<<"pci_function", c>>}
                   /\ \A k \in DOMAIN Path(m, c) : Parents(Path(m, c)[k]) = {Above(Path(m, c), k)}
           F == IsInventory(m) => Links(MockTopology(m)) = Links(t.edges)
<1>1. BuiltTo(m, t, m.last + 1)
  BY TreeBuilt
<1>2. listed \subseteq 0 .. m.last /\ \A c \in listed : c < m.last + 1
  BY ListedIn DEF IsMachine
<1>3. met = {c \in listed : Found(m, c)} /\ met \in SUBSET (0 .. m.last)
  BY <1>2 DEF Met
<1>5. ASSUME ~t.raised PROVE B /\ C /\ D /\ E
  <2>1. Grown(m, {}, t.edges, met) /\ StartOK(m, {})
    BY <1>1, <1>5 DEF BuiltTo, StartOK
  <2>2. t.errors = {c \in listed : ~Found(m, c)}
    BY <1>1, <1>2, <1>5 DEF BuiltTo, Missed
  <2> HIDE DEF met
  <2>3. \A c \in listed : c \in met <=> c \notin t.errors
    BY <1>3, <2>2
  <2> HIDE DEF t, listed
  <2>4. \A x : Cardinality({x}) = 1
    BY FS_Singleton
  <2>5. Cardinality({}) = 0
    BY FS_EmptySet
  <2>6. B
    <3> SUFFICES ASSUME NEW c \in listed
                 PROVE  Times(<<"ctrl", c>>) = IF c \in t.errors THEN 0 ELSE 1
      OBVIOUS
    <3> DEFINE S == {e \in t.edges : e[2] = <<"ctrl", c>>}
               x == <<<<"pci_function", c>>, <<"ctrl", c>>, c>>
    <3>1. S = IF c \in met THEN {x} ELSE {}
      <4> DEFINE edges == t.edges
      <4>1. Grown(m, {}, edges, met) /\ StartOK(m, {}) /\ met \in SUBSET (0 .. m.last)
        BY <1>3, <2>1, Zenon
      <4> HIDE DEF edges
      <4>2. {e \in edges : e[2] = <<"ctrl", c>>} = IF c \in met THEN {x} ELSE {}
        BY <4>1, CtrlOnce
      <4> QED
        BY <4>2 DEF edges
    <3> HIDE DEF S, x
    <3>2. Cardinality(S) = IF c \in t.errors THEN 0 ELSE 1
      BY <2>3, <2>4, <2>5, <3>1
    <3> QED
      BY <3>2 DEF S
  <2>7. C
    BY <2>2, FoundIfLeft DEF Found
  <2>8. D
    <3> SUFFICES ASSUME NEW n \in Nodes(t.edges), n[1] \in PathKinds
                 PROVE  Cardinality({e \in t.edges : e[2] = n}) = 1
      BY DEF PathKinds
    <3>1. PICK x \in t.edges : {e \in t.edges : e[2] = n} = {x}
      BY <2>1, NodeOnce
    <3> QED
      BY <2>4, <3>1
  <2>9. E
    <3> SUFFICES ASSUME Acyclic(m), NEW c \in met
                 PROVE  /\ Parents(<<"ctrl", c>>) = {<<"pci_function", c>>}
                        /\ \A k \in DOMAIN Path(m, c) : Parents(Path(m, c)[k]) = {Above(Path(m, c), k)}
      BY <2>3
    <3>1. Parents(<<"ctrl", c>>) = {<<"pci_function", c>>}
      <4> DEFINE S == {e \in t.edges : e[2] = <<"ctrl", c>>}
                 x == <<<<"pci_function", c>>, <<"ctrl", c>>, c>>
      <4>1. S = {x}
        BY <1>3, <2>1, CtrlOnce
      <4>2. x[1] = <<"pci_function", c>>
        OBVIOUS
      <4> HIDE DEF x, S
      <4>3. {e[1] : e \in S} = {<<"pci_function", c>>}
        BY <4>1, <4>2
      <4> QED
        BY <4>3 DEF S
    <3>2. \A k \in DOMAIN Path(m, c) : Parents(Path(m, c)[k]) = {Above(Path(m, c), k)}
      <4> TAKE k \in DOMAIN Path(m, c)
      <4> DEFINE edges == t.edges
                 start == {}
      <4>1. Grown(m, start, edges, met) /\ StartOK(m, start)
        BY <2>1
      <4>2. met \in SUBSET (0 .. m.last)
        BY <1>3
      <4> HIDE DEF edges, start
      <4>3. {e[1] : e \in {f \in edges : f[2] = Path(m, c)[k]}} = {Above(Path(m, c), k)}
        BY <4>1, <4>2, ParentsOf
      <4> QED
        BY <4>3 DEF edges
    <3> QED
      BY <3>1, <3>2
  <2> QED
    BY <2>6, <2>7, <2>8, <2>9
<1>6. F
  BY MockLinks
<1>7. TreeSound(m) <=> (~t.raised => B /\ C /\ D /\ E) /\ F
  BY DEF TreeSound
<1> HIDE DEF B, C, D, E, F
<1> QED
  BY <1>5, <1>6, <1>7

-----------------------------------------------------------------------------
(* What the views show.                                                    *)

(* What may be asked. *)
AskedTyped ==
    \/ asked = [view |-> "none", in |-> 0]
    \/ \E x \in Transfers(MaxLen) : asked = [view |-> "prp", in |-> x]
    \/ \E heap \in Heaps, path \in Seq(RowNames) :
         asked = [view |-> "tree", in |-> [heap |-> heap, path |-> path]]
    \/ \E m \in Machines : asked = [view |-> "topology", in |-> m]
    \/ \E t \in TokenLists : asked = [view |-> "jobs", in |-> t]
    \/ \E p \in Processes, d \in Definitions :
         asked = [view |-> "groups", in |-> [p |-> p, cmdline |-> d.cmdline, jobfile |-> d.jobfile]]
    \/ \E k \in Kinds : \E x \in Values(k) :
         asked = [view |-> "value", in |-> [kind |-> k, x |-> x]]

LEMMA AskedStep ==
    ASSUME AskedTyped, [ViewsNext]_asked
    PROVE  AskedTyped'
<1>1. CASE ShowPrp
  BY <1>1 DEF ShowPrp, AskFor, AskedTyped
<1>2. CASE ShowTree
  <2>1. <<>> \in Seq(RowNames)
    OBVIOUS
  <2> QED
    BY <1>2, <2>1 DEF ShowTree, AskFor, AskedTyped
<1>3. CASE OpenRow
  <2>1. PICK heap \in Heaps, path \in Seq(RowNames) :
          asked = [view |-> "tree", in |-> [heap |-> heap, path |-> path]]
    BY <1>3 DEF OpenRow, AskedTyped
  <2>2. PICK row \in Expand(heap, 1, path).children :
          asked' = [asked EXCEPT !.in.path = Append(@, row.name)]
    BY <1>3, <2>1 DEF OpenRow
  <2>3. row.name \in RowNames
    BY RowLeads, ViewsAssumption
  <2>4. Append(path, row.name) \in Seq(RowNames)
    BY <2>3
  <2>5. asked' = [view |-> "tree", in |-> [heap |-> heap, path |-> Append(path, row.name)]]
    BY <2>1, <2>2
  <2> QED
    BY <2>4, <2>5 DEF AskedTyped
<1>4. CASE ShowTopology
  BY <1>4 DEF ShowTopology, AskFor, AskedTyped
<1>5. CASE ShowJobs
  BY <1>5 DEF ShowJobs, AskFor, AskedTyped
<1>6. CASE ShowGroups
  BY <1>6 DEF ShowGroups, AskFor, AskedTyped
<1>7. CASE ShowValue
  BY <1>7 DEF ShowValue, AskFor, AskedTyped
<1>8. CASE UNCHANGED asked
  BY <1>8 DEF AskedTyped
<1> QED
  BY <1>1, <1>2, <1>3, <1>4, <1>5, <1>6, <1>7, <1>8 DEF ViewsNext

LEMMA AskedAlways == ViewsSpec => []AskedTyped
<1>1. ViewsInit => AskedTyped
  BY DEF ViewsInit, AskedTyped
<1> QED
  BY <1>1, AskedStep, PTL DEF ViewsSpec

(* Every row of the pointer tree that a client can open, on every heap and *)
(* after any number of rows, leads to the object it showed, but for the    *)
(* rows "*" and those of pointers to what cannot be listed, which raise    *)
(* (treewalk.py: expand, resolve_path, _child_objects).                    *)
THEOREM RowsLeadToTheirObjects == ViewsSpec => []TreeRowsOpen
<1>1. ASSUME AskedTyped PROVE TreeRowsOpen
  <2> SUFFICES ASSUME asked.view = "tree" PROVE RowsOpen(asked.in.heap, 1, asked.in.path)
    BY DEF TreeRowsOpen
  <2>1. PICK heap \in Heaps, path \in Seq(RowNames) :
          asked = [view |-> "tree", in |-> [heap |-> heap, path |-> path]]
    BY <1>1 DEF AskedTyped
  <2>2. RowsOpen(heap, 1, path)
    BY RowLeads, ViewsAssumption DEF RowsOpen
  <2> QED
    BY <2>1, <2>2
<1> QED
  BY <1>1, AskedAlways, PTL

(* Whatever the length of a transfer and wherever its pages lie, the dump  *)
(* of a command's data is the beginning of its buffer, up to the bound on  *)
(* a dump (services/queues/decode.py: _decode_prp_pages).                  *)
THEOREM DumpIsPrefix == ViewsSpec => []PrpShowsPrefix
<1>1. ASSUME AskedTyped PROVE PrpShowsPrefix
  <2> SUFFICES ASSUME asked.view = "prp" PROVE ShowsPrefix(asked.in)
    BY DEF PrpShowsPrefix
  <2>1. asked.in \in Transfers(MaxLen)
    BY <1>1 DEF AskedTyped
  <2> QED
    BY <2>1, PrefixShown
<1> QED
  BY <1>1, AskedAlways, PTL

(* Each job of every fio definition has its own options, and where it has  *)
(* none the defaults that were given before it, by the rule the parser     *)
(* states (adapters/fio.py: parse_fio_cmdline, parse_job_file).            *)
THEOREM JobsHaveTheirOptions == ViewsSpec => []JobOptions
<1>1. ASSUME AskedTyped PROVE JobOptions
  <2> SUFFICES ASSUME asked.view = "jobs" PROVE OptionsAreOwn(asked.in)
    BY DEF JobOptions
  <2>1. asked.in \in TokenLists
    BY <1>1 DEF AskedTyped
  <2> QED
    BY <2>1, OwnOptions, ViewsAssumption
<1> QED
  BY <1>1, AskedAlways, PTL

(* For every process and every definition it may have been started with,   *)
(* no thread is in two groups, several groups together have no more I/O    *)
(* than the threads and a single one has that of the process               *)
(* (get_logical_groups, measured_from_stats, compare).                     *)
THEOREM GroupsShareOutIo == ViewsSpec => []GroupsShare
<1>1. ASSUME AskedTyped PROVE GroupsShare
  <2> SUFFICES ASSUME asked.view = "groups"
               PROVE  GroupsPartition(asked.in.p, asked.in.cmdline, asked.in.jobfile)
    BY DEF GroupsShare
  <2>1. PICK p \in Processes, d \in Definitions :
          asked = [view |-> "groups", in |-> [p |-> p, cmdline |-> d.cmdline, jobfile |-> d.jobfile]]
    BY <1>1 DEF AskedTyped
  <2>2. GroupsPartition(p, d.cmdline, d.jobfile)
    BY GroupsArePartition, ViewsAssumption
  <2> QED
    BY <2>1, <2>2
<1> QED
  BY <1>1, AskedAlways, PTL

(* On every machine whose tree is returned, whatever of it was lost or     *)
(* could not be climbed, each controller that is listed is once in it,     *)
(* below its own chain of buses, or among the errors; what controllers     *)
(* share is there once; and the mock shows the same tree of an inventory   *)
(* (backend/topology.py: build_topology; MockTopologyService).             *)
THEOREM TopologyHasEachOnce == ViewsSpec => []TopologySound
<1>1. ASSUME AskedTyped PROVE TopologySound
  <2> SUFFICES ASSUME asked.view = "topology" PROVE TreeSound(asked.in)
    BY DEF TopologySound
  <2>1. asked.in \in Machines
    BY <1>1 DEF AskedTyped
  <2> QED
    BY <2>1, TreeIsSound, ViewsAssumption
<1> QED
  BY <1>1, AskedAlways, PTL

(* Two values that the command line shows differently, other than by None  *)
(* for a 0 or for off, reach the browser as different documents, whatever  *)
(* the addresses, counts, texts and lists in them (grpcserver/convert.py,  *)
(* web/app.py: _dict).                                                     *)
THEOREM FrontEndsTellTheSame == ViewsSpec => []FrontEndsAgree
<1>1. ASSUME AskedTyped PROVE FrontEndsAgree
  <2> SUFFICES ASSUME asked.view = "value" PROVE ToldApart(asked.in.kind, asked.in.x)
    BY DEF FrontEndsAgree
  <2>1. PICK k \in Kinds : \E x \in Values(k) : asked = [view |-> "value", in |-> [kind |-> k, x |-> x]]
    BY <1>1 DEF AskedTyped
  <2>2. PICK x \in Values(k) : asked = [view |-> "value", in |-> [kind |-> k, x |-> x]]
    BY <2>1
  <2>3. ToldApart(k, x)
    BY KindsApart
  <2> QED
    BY <2>2, <2>3
<1> QED
  BY <1>1, AskedAlways, PTL
===============================================================================
