----------------------------- MODULE StreamServer -----------------------------
(***************************************************************************)
(* How requests reach the backend: WebSocket handlers of the gateway       *)
(* (web/app.py, _stream_ws), the streaming and unary RPCs of the server    *)
(* (grpcserver/server.py), and the executor with one worker that every     *)
(* kernel query goes through (_run).                                       *)
(*                                                                         *)
(* A stream is three parties: the handler, whose next_task waits for an    *)
(* item of the RPC; the RPC's coroutine, which queries, yields and sleeps; *)
(* and the work item it waits for.  The browser leaves at any moment, and  *)
(* a cancellation travels from the handler over the RPC to the work item,  *)
(* which can be withdrawn only while it is queued.                         *)
(***************************************************************************)
EXTENDS Integers, Sequences

CONSTANTS
    Streams,        \* WebSocket connections; a closed one may be opened again
    Direct,         \* those whose RPC reads only the log, on the event loop
    Calls,          \* unary RPCs that go through the executor
    MaxInbox        \* bound: items an RPC may be ahead of its reader

ASSUME StreamAssumption ==
    Direct \subseteq Streams /\ Streams \cap Calls = {} /\ MaxInbox \in Nat \ {0}

VARIABLES
    ws,         \* the browser's end, and whether disconnect_task has noticed
    handler,    \* where _stream_ws is
    task,       \* its next_task
    cancelled,  \* the call was cancelled, which the server has yet to learn
    rpc,        \* where the coroutine of the RPC is
    inbox,      \* items the RPC has sent and the handler has not read
    call,       \* unary RPCs
    queue,      \* work items of the executor, by the RPC that waits for each
    running     \* the work item on the worker: for whom, and whether the RPC
                \* still waits for it

gatewayVars == <<ws, handler, task, cancelled>>
serverVars == <<rpc, inbox, call>>
workerVars == <<queue, running>>
vars == <<gatewayVars, serverVars, workerVars>>

Idle == [who |-> "nobody", live |-> FALSE]

-----------------------------------------------------------------------------
(* The browser. *)

Open(c) ==
    /\ ws[c] = "closed"
    /\ handler[c] = "off"
    /\ rpc[c] = "off"
    /\ ws' = [ws EXCEPT ![c] = "open"]
    /\ handler' = [handler EXCEPT ![c] = "loop"]
    /\ UNCHANGED <<task, cancelled, serverVars, workerVars>>

Leave(c) ==
    /\ ws[c] = "open"
    /\ ws' = [ws EXCEPT ![c] = "gone"]
    /\ UNCHANGED <<handler, task, cancelled, serverVars, workerVars>>

-----------------------------------------------------------------------------
(* The gateway. *)

\* Mutant: nobody listens for the disconnection.
NoticeNever(c) == FALSE /\ UNCHANGED vars

\* disconnect_task, _watch_disconnect: the message is received.
Notice(c) ==
    /\ ws[c] = "gone"
    /\ handler[c] # "off"
    /\ ws' = [ws EXCEPT ![c] = "noticed"]
    /\ UNCHANGED <<handler, task, cancelled, serverVars, workerVars>>

\* gen.__anext__() is started; the first one opens the RPC.
AskNext(c) ==
    /\ handler[c] = "loop"
    /\ handler' = [handler EXCEPT ![c] = "wait"]
    /\ task' = [task EXCEPT ![c] = "pending"]
    /\ rpc' = [rpc EXCEPT ![c] = IF @ = "off" THEN "begin" ELSE @]
    /\ UNCHANGED <<ws, cancelled, inbox, call, workerVars>>

\* Mutant: an item is taken whether or not there is one.
NextDoneUnchecked(c) ==
    /\ task[c] = "pending"
    /\ inbox[c] > 0 \/ rpc[c] = "failed"
    /\ task' = [task EXCEPT ![c] = "item"]
    /\ inbox' = [inbox EXCEPT ![c] = @ - 1]
    /\ UNCHANGED <<ws, handler, cancelled, rpc, call, workerVars>>

\* next_task is done: there is an item, or the RPC has failed.
NextDone(c) ==
    /\ task[c] = "pending"
    /\ inbox[c] > 0 \/ rpc[c] = "failed"
    /\ task' = [task EXCEPT ![c] = IF inbox[c] > 0 THEN "item" ELSE "error"]
    /\ inbox' = [inbox EXCEPT ![c] = IF @ > 0 THEN @ - 1 ELSE 0]
    /\ UNCHANGED <<ws, handler, cancelled, rpc, call, workerVars>>

\* Mutant: the handler does not wait for the cancelled task.
GiveUpAtOnce(c) ==
    /\ handler[c] = "wait"
    /\ ws[c] = "noticed"
    /\ handler' = [handler EXCEPT ![c] = "aclose"]
    /\ task' = [task EXCEPT ![c] = IF @ = "pending" THEN "cancelling" ELSE @]
    /\ UNCHANGED <<ws, cancelled, serverVars, workerVars>>

\* asyncio.wait returned, disconnect_task is in done: cancel next_task.
GiveUp(c) ==
    /\ handler[c] = "wait"
    /\ ws[c] = "noticed"
    /\ handler' = [handler EXCEPT ![c] = "unwind"]
    /\ task' = [task EXCEPT ![c] = IF @ = "pending" THEN "cancelling" ELSE @]
    /\ UNCHANGED <<ws, cancelled, serverVars, workerVars>>

\* The cancellation reaches next_task, and with it the call.
NextCancelled(c) ==
    /\ task[c] = "cancelling"
    /\ task' = [task EXCEPT ![c] = "none"]
    /\ cancelled' = [cancelled EXCEPT ![c] = TRUE]
    /\ UNCHANGED <<ws, handler, serverVars, workerVars>>

\* "await next_task" returned.
Unwound(c) ==
    /\ handler[c] = "unwind"
    /\ task[c] # "cancelling"
    /\ handler' = [handler EXCEPT ![c] = "aclose"]
    /\ UNCHANGED <<ws, task, cancelled, serverVars, workerVars>>

\* asyncio.wait returned with an item, which is sent.  Sending to a browser
\* that has left may raise.
Deliver(c, raises) ==
    /\ handler[c] = "wait"
    /\ ws[c] # "noticed"
    /\ task[c] = "item"
    /\ raises => ws[c] = "gone"
    /\ handler' = [handler EXCEPT ![c] = IF raises THEN "aclose" ELSE "loop"]
    /\ task' = [task EXCEPT ![c] = "none"]
    /\ UNCHANGED <<ws, cancelled, serverVars, workerVars>>

\* asyncio.wait returned with the error of the RPC.
RpcError(c) ==
    /\ handler[c] = "wait"
    /\ ws[c] # "noticed"
    /\ task[c] = "error"
    /\ handler' = [handler EXCEPT ![c] = "aclose"]
    /\ UNCHANGED <<ws, task, cancelled, serverVars, workerVars>>

\* The finally clause: the generator is closed, which ends the call.
Aclose(c) ==
    /\ handler[c] = "aclose"
    /\ handler' = [handler EXCEPT ![c] = "off"]
    /\ ws' = [ws EXCEPT ![c] = "closed"]
    /\ task' = [task EXCEPT ![c] = "none"]
    /\ cancelled' = [cancelled EXCEPT ![c] = rpc[c] # "off"]
    /\ UNCHANGED <<serverVars, workerVars>>

-----------------------------------------------------------------------------
(* The server. *)

\* The coroutine of a stream queries the backend: through the executor, or
\* at once for what is read from the log.
Query(c) ==
    /\ rpc[c] \in {"begin", "sleep"}
    /\ IF c \in Direct
         THEN /\ rpc' = [rpc EXCEPT ![c] = "yield"]
              /\ UNCHANGED queue
         ELSE /\ rpc' = [rpc EXCEPT ![c] = "await"]
              /\ queue' = Append(queue, c)
    /\ UNCHANGED <<gatewayVars, inbox, call, running>>

\* yield, which waits while the reader is too far behind; then sleep.
Yield(c) ==
    /\ rpc[c] = "yield"
    /\ inbox[c] < MaxInbox
    /\ inbox' = [inbox EXCEPT ![c] = @ + 1]
    /\ rpc' = [rpc EXCEPT ![c] = "sleep"]
    /\ UNCHANGED <<gatewayVars, call, workerVars>>

\* Mutant: the work item stays queued.
NotWithdrawn(c) == queue

\* The queue without the work item of c, of which there is at most one.
Withdrawn(c) ==
    IF \E i \in DOMAIN queue : queue[i] = c
    THEN LET i == CHOOSE i \in DOMAIN queue : queue[i] = c
         IN  SubSeq(queue, 1, i - 1) \o SubSeq(queue, i + 1, Len(queue))
    ELSE queue

\* The call was cancelled: CancelledError at whatever the coroutine waits
\* for.  A queued work item is withdrawn; a running one cannot be stopped.
Cancelled(c) ==
    /\ cancelled[c]
    /\ rpc' = [rpc EXCEPT ![c] = "off"]
    /\ inbox' = [inbox EXCEPT ![c] = 0]
    /\ cancelled' = [cancelled EXCEPT ![c] = FALSE]
    /\ queue' = Withdrawn(c)
    /\ running' = IF running.who = c THEN [running EXCEPT !.live = FALSE]
                                     ELSE running
    /\ UNCHANGED <<ws, handler, task, call>>

\* A unary RPC arrives.
Call(u) ==
    /\ call[u] = "idle"
    /\ call' = [call EXCEPT ![u] = "await"]
    /\ queue' = Append(queue, u)
    /\ UNCHANGED <<gatewayVars, rpc, inbox, running>>

-----------------------------------------------------------------------------
(* The executor. *)

\* Mutant: the newest work item comes first.
TakeNewest ==
    /\ running = Idle
    /\ queue # <<>>
    /\ running' = [who |-> queue[Len(queue)], live |-> TRUE]
    /\ queue' = SubSeq(queue, 1, Len(queue) - 1)
    /\ UNCHANGED <<gatewayVars, serverVars>>

\* The worker takes the oldest work item.
Take ==
    /\ running = Idle
    /\ queue # <<>>
    /\ running' = [who |-> Head(queue), live |-> TRUE]
    /\ queue' = Tail(queue)
    /\ UNCHANGED <<gatewayVars, serverVars>>

\* Mutant: a query that raises leaves the RPC waiting.
FinishSilently(found) ==
    LET who == running.who
    IN  /\ running # Idle
        /\ running' = Idle
        /\ rpc' = IF who \in Streams /\ running.live /\ found
                  THEN [rpc EXCEPT ![who] = "yield"] ELSE rpc
        /\ call' = IF who \in Calls THEN [call EXCEPT ![who] = "idle"] ELSE call
        /\ UNCHANGED <<gatewayVars, inbox, queue>>

\* The query returns, or raises (DeviceNotFoundError: the RPC is aborted).
Finish(found) ==
    LET who == running.who
    IN  /\ running # Idle
        /\ running' = Idle
        /\ rpc' = IF who \in Streams /\ running.live
                  THEN [rpc EXCEPT ![who] = IF found THEN "yield" ELSE "failed"]
                  ELSE rpc
        /\ call' = IF who \in Calls THEN [call EXCEPT ![who] = "idle"] ELSE call
        /\ UNCHANGED <<gatewayVars, inbox, queue>>

-----------------------------------------------------------------------------
Init ==
    /\ ws = [c \in Streams |-> "closed"]
    /\ handler = [c \in Streams |-> "off"]
    /\ task = [c \in Streams |-> "none"]
    /\ cancelled = [c \in Streams |-> FALSE]
    /\ rpc = [c \in Streams |-> "off"]
    /\ inbox = [c \in Streams |-> 0]
    /\ call = [u \in Calls |-> "idle"]
    /\ queue = <<>>
    /\ running = Idle

Gateway(c) ==
    \/ AskNext(c)
    \/ NextDone(c)
    \/ GiveUp(c)
    \/ NextCancelled(c)
    \/ Unwound(c)
    \/ Deliver(c, FALSE)
    \/ Deliver(c, TRUE)
    \/ RpcError(c)
    \/ Aclose(c)

Server(c) == Query(c) \/ Yield(c)

Worker == Take \/ Finish(TRUE) \/ Finish(FALSE)

Next ==
    \/ \E c \in Streams :
         Open(c) \/ Leave(c) \/ Notice(c) \/ Gateway(c) \/ Server(c) \/ Cancelled(c)
    \/ \E u \in Calls : Call(u)
    \/ Worker

Spec == Init /\ [][Next]_vars

(* The event loops run what is ready, a message that was sent arrives, and *)
(* a query of the backend ends.  The browser owes nothing.                 *)
FairSpec ==
    /\ Spec
    /\ \A c \in Streams :
         /\ WF_vars(Notice(c))
         /\ WF_vars(Gateway(c))
         /\ WF_vars(Server(c))
         /\ WF_vars(Cancelled(c))
    /\ WF_vars(Worker)

-----------------------------------------------------------------------------
(* The type invariant of the request path. *)
TypeOK ==
    /\ ws \in [Streams -> {"closed", "open", "gone", "noticed"}]
    /\ handler \in [Streams -> {"off", "loop", "wait", "unwind", "aclose"}]
    /\ task \in [Streams -> {"none", "pending", "cancelling", "item", "error"}]
    /\ cancelled \in [Streams -> BOOLEAN]
    /\ rpc \in [Streams -> {"off", "begin", "await", "yield", "sleep", "failed"}]
    /\ inbox \in [Streams -> 0 .. MaxInbox]
    /\ call \in [Calls -> {"idle", "await"}]
    /\ queue \in Seq(Streams \cup Calls)
    /\ running \in [who: Streams \cup Calls, live: BOOLEAN] \cup {Idle}

Waiting == {c \in Streams : rpc[c] = "await"} \cup {u \in Calls : call[u] = "await"}

(* No work piles up behind the worker, however fast tabs are opened and    *)
(* left: every queued work item, and the running one unless it was given   *)
(* up, belongs to an RPC that still waits for it, each RPC has one, and    *)
(* none of a Direct stream is there.                                       *)
NoStaleWork ==
    /\ \A i, j \in DOMAIN queue : queue[i] = queue[j] => i = j
    /\ \A i \in DOMAIN queue : running.live => queue[i] # running.who
    /\ {queue[i] : i \in DOMAIN queue}
         \cup (IF running.live THEN {running.who} ELSE {}) = Waiting
    /\ Waiting \cap Direct = {}

(* The generator is never closed while next_task still runs in it: the     *)
(* RuntimeError that killed handlers, as the comment in _stream_ws tells,  *)
(* cannot occur.                                                           *)
AcloseSafe ==
    \A c \in Streams :
      handler[c] = "aclose" => task[c] \notin {"pending", "cancelling"}

(* When a browser has left, its handler ends and its RPC ends, although    *)
(* neither may be able to send, and also while a query runs.               *)
LeaversEnd ==
    \A c \in Streams : ws[c] = "gone" ~> handler[c] = "off" /\ rpc[c] = "off"

(* A unary call is answered even if streams keep the worker busy all the   *)
(* time.                                                                   *)
CallsServed == \A u \in Calls : call[u] = "await" ~> call[u] = "idle"

(* A stream whose browser stays gets its next item, or its error.          *)
StreamsFlow ==
    \A c \in Streams :
      handler[c] = "wait" /\ ws[c] = "open" ~> handler[c] # "wait" \/ ws[c] # "open"
===============================================================================
