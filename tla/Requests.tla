------------------------------ MODULE Requests ------------------------------
(***************************************************************************)
(* One request of the browser from the REST route over the gateway's gRPC  *)
(* client (web/app.py, grpcserver/client.py) and the handler of the server *)
(* (grpcserver/server.py) to the backend and back, with the status it is   *)
(* answered with.  The server has two threads: the event loop, which runs  *)
(* one coroutine at a time, and the worker of the executor.  A handler     *)
(* either submits its query to the worker (_run) or calls the backend      *)
(* itself, on the loop.  Queries that look at the kernel share one drgn    *)
(* session, which is connected by the first that needs it                  *)
(* (platform/kernel/drgn_session.py) and is not safe for two threads.      *)
(* Devices come and go meanwhile, the daemon may die and be started again, *)
(* and the connection to it may break.                                     *)
(***************************************************************************)
EXTENDS Integers, Sequences, FiniteSets

CONSTANTS Clients,     \* concurrent requests
          Devices      \* names of devices a client may ask for

\* What a handler needs of the backend: the kernel, a device, a queue of it.
Handlers == [ListDevices |-> {"kernel"}, GetDeviceSnapshot |-> {"kernel", "device"},
             GetQueueEntries |-> {"kernel", "device", "queue"},
             GetCompletionEntries |-> {"kernel", "device", "queue"},
             GetPrpPayload |-> {"kernel", "device", "queue"}, GetTreeNode |-> {"kernel", "device"},
             GetTopology |-> {"kernel"}, ListProcesses |-> {"kernel"}, GetProfile |-> {"kernel"},
             GetPerformance |-> {}, GetEvents |-> {}, GetErrorStats |-> {}, ListEventKinds |-> {},
             ListTargets |-> {}, AddTarget |-> {"rule"}, RemoveTarget |-> {}]
Ops == DOMAIN Handlers
OfKernel == {op \in Ops : "kernel" \in Handlers[op]}
\* get_profile and list_processes may find the process list in the session's cache.
MayBeCached == {"ListProcesses", "GetProfile"}
\* How gRPC ends a call whose server or connection is gone.
Broken == {"UNAVAILABLE", "CANCELLED"}
Statuses == {"OK", "NOT_FOUND", "INVALID_ARGUMENT", "UNKNOWN"} \cup Broken

VARIABLES req,       \* per client: what it asks
          at,        \* per client: how far that has come
          status,    \* per client: the answer of the server
          channel,   \* the gateway's connection, made by the first request
          queue,     \* of the executor
          worker,    \* the client whose query the worker runs, or {}
          loop,      \* the client whose handler calls the backend on the loop, or {}
          session,   \* the drgn session: closed or open
          up,        \* whether the daemon runs
          present,   \* the devices the kernel has
          ever,      \* history: per client, the devices that were there at some time
                     \* since it asked
          always,    \* history: and those that were there all the time
          cutoff     \* history: per client, whether the daemon or the connection
                     \* failed since it asked

vars == <<req, at, status, channel, queue, worker, loop, session, up, present, ever, always,
          cutoff>>

NoRequest == [op |-> "ListDevices", device |-> "", fits |-> TRUE]

Init ==
    /\ req = [c \in Clients |-> NoRequest]
    /\ at = [c \in Clients |-> "idle"] /\ status = [c \in Clients |-> "OK"]
    /\ channel = FALSE /\ queue = <<>> /\ worker = {} /\ loop = {} /\ session = "closed"
    /\ up = TRUE /\ present = {}
    /\ ever = [c \in Clients |-> {}] /\ always = [c \in Clients |-> {}]
    /\ cutoff = [c \in Clients |-> FALSE]

\* Mutant: ListDevices calls the backend from its coroutine.
MutThroughExecutor(op) ==
    op \in {"GetDeviceSnapshot", "GetQueueEntries", "GetCompletionEntries", "GetPrpPayload",
            "GetTreeNode", "GetTopology", "ListProcesses", "GetProfile"}

\* The handlers that await self._run(...).
ThroughExecutor(op) ==
    op \in {"ListDevices", "GetDeviceSnapshot", "GetQueueEntries", "GetCompletionEntries",
            "GetPrpPayload", "GetTreeNode", "GetTopology", "ListProcesses", "GetProfile"}

\* A route is called; _ensure makes the channel.  fits: the queue is in range, the
\* rule can be parsed.
Ask(c, op, d, fits) ==
    /\ at[c] = "idle"
    /\ req' = [req EXCEPT ![c] = [op |-> op, device |-> d, fits |-> fits]]
    /\ at' = [at EXCEPT ![c] = "sent"]
    /\ channel' = TRUE
    /\ ever' = [ever EXCEPT ![c] = present] /\ always' = [always EXCEPT ![c] = present]
    /\ cutoff' = [cutoff EXCEPT ![c] = ~up]
    /\ UNCHANGED <<status, queue, worker, loop, session, up, present>>

\* The handler begins: it submits its query, or runs on the loop, which is free.
Handle(c) ==
    /\ at[c] = "sent" /\ up /\ loop = {}
    /\ IF ThroughExecutor(req[c].op)
       THEN /\ queue' = Append(queue, c)
            /\ at' = [at EXCEPT ![c] = "queued"]
            /\ UNCHANGED loop
       ELSE /\ loop' = {c}
            /\ at' = [at EXCEPT ![c] = "called"]
            /\ UNCHANGED queue
    /\ UNCHANGED <<req, status, channel, worker, session, up, present, ever, always, cutoff>>

Take ==
    /\ worker = {} /\ queue # <<>>
    /\ worker' = {Head(queue)} /\ queue' = Tail(queue)
    /\ at' = [at EXCEPT ![Head(queue)] = "called"]
    /\ UNCHANGED <<req, status, channel, loop, session, up, present, ever, always, cutoff>>

\* A query of the kernel begins with program(), which connects if nobody has; while
\* it connects the session is still closed.
Program(c) ==
    /\ at[c] = "called" /\ req[c].op \in OfKernel
    /\ at' = [at EXCEPT ![c] = IF session = "open" THEN "reading" ELSE "connecting"]
    /\ UNCHANGED <<req, status, channel, queue, worker, loop, session, up, present, ever, always, cutoff>>

Reply(c, code) ==
    /\ at' = [at EXCEPT ![c] = "replied"] /\ status' = [status EXCEPT ![c] = code]
    /\ worker' = worker \ {c} /\ loop' = loop \ {c}

Connected(c) ==
    /\ at[c] = "connecting"
    /\ session' = "open"
    /\ at' = [at EXCEPT ![c] = "reading"]
    /\ UNCHANGED <<req, status, channel, queue, worker, loop, up, present, ever, always, cutoff>>

\* No permission, no symbols: the next query tries again.
NotConnected(c) ==
    /\ at[c] = "connecting"
    /\ Reply(c, "UNKNOWN")
    /\ UNCHANGED <<req, channel, queue, session, up, present, ever, always, cutoff>>

\* Mutant: a queue beyond the last is looked up all the same.
MutOutcome(r) ==
    IF "device" \in Handlers[r.op] /\ r.device \notin present THEN "NOT_FOUND"
    ELSE IF "rule" \in Handlers[r.op] /\ ~r.fits THEN "INVALID_ARGUMENT" ELSE "OK"

\* What the backend returns or raises, and what the handler makes of it: device and
\* queue not found, and the rule that is none.  A query of the log answers for a
\* device that does not exist, with nothing.
Outcome(r) ==
    IF \/ "device" \in Handlers[r.op] /\ r.device \notin present
       \/ "queue" \in Handlers[r.op] /\ ~r.fits
    THEN "NOT_FOUND"
    ELSE IF "rule" \in Handlers[r.op] /\ ~r.fits THEN "INVALID_ARGUMENT" ELSE "OK"

Answer(c) ==
    /\ \/ at[c] = "reading"
       \/ at[c] = "called" /\ req[c].op \notin OfKernel
       \/ at[c] = "called" /\ req[c].op \in MayBeCached /\ session = "open"
    /\ Reply(c, Outcome(req[c]))
    /\ UNCHANGED <<req, channel, queue, session, up, present, ever, always, cutoff>>

\* A fault, because the driver takes down what is being read.
Fault(c) ==
    /\ at[c] = "reading"
    /\ Reply(c, "UNKNOWN")
    /\ UNCHANGED <<req, channel, queue, session, up, present, ever, always, cutoff>>

\* _call: the status of the HTTP response.
HttpStatus(code) == CASE code = "OK" -> 200 [] code = "NOT_FOUND" -> 404 [] OTHER -> 502

Respond(c) ==
    /\ at[c] = "replied"
    /\ req' = [req EXCEPT ![c] = NoRequest]
    /\ at' = [at EXCEPT ![c] = "idle"] /\ status' = [status EXCEPT ![c] = "OK"]
    /\ UNCHANGED <<channel, queue, worker, loop, session, up, present, ever, always, cutoff>>

\* The gateway shuts down between requests: close() drops channel and stub.
Shutdown ==
    /\ channel /\ \A c \in Clients : at[c] = "idle"
    /\ channel' = FALSE
    /\ UNCHANGED <<at, status, req, queue, worker, loop, session, up, present, ever, always, cutoff>>

Plug(S) ==
    /\ present' = S
    /\ ever' = [c \in Clients |-> ever[c] \cup S]
    /\ always' = [c \in Clients |-> always[c] \cap S]
    /\ UNCHANGED <<at, status, req, channel, queue, worker, loop, session, up, cutoff>>

InServer == {"sent", "queued", "called", "connecting", "reading"}

\* The daemon dies or is stopped: every call it has is ended by gRPC with one of its
\* own codes, and executor and session are gone with it.
Crash(code) ==
    /\ up /\ up' = FALSE
    /\ at' = [c \in Clients |-> IF at[c] \in InServer THEN "replied" ELSE at[c]]
    /\ status' = [c \in Clients |-> IF at[c] \in InServer THEN code ELSE status[c]]
    /\ queue' = <<>> /\ worker' = {} /\ loop' = {} /\ session' = "closed"
    /\ cutoff' = [c \in Clients |-> TRUE]
    /\ UNCHANGED <<req, channel, present, ever, always>>

Restart ==
    /\ ~up /\ up' = TRUE
    /\ UNCHANGED <<req, at, status, channel, queue, worker, loop, session, present, ever, always,
                   cutoff>>

\* The connection fails before the handler has the request, as it must when nobody
\* listens, or after the handler has answered.
Disconnect(c, code) ==
    /\ at[c] \in {"sent", "replied"}
    /\ at' = [at EXCEPT ![c] = "replied"] /\ status' = [status EXCEPT ![c] = code]
    /\ cutoff' = [cutoff EXCEPT ![c] = TRUE]
    /\ UNCHANGED <<req, channel, queue, worker, loop, session, up, present, ever, always>>

Serve(c) ==
    \/ Handle(c) \/ Program(c) \/ Connected(c) \/ NotConnected(c)
    \/ Answer(c) \/ Fault(c) \/ Respond(c)

Next ==
    \/ \E c \in Clients : \/ \E op \in Ops, d \in Devices, fits \in BOOLEAN : Ask(c, op, d, fits)
                          \/ Serve(c)
                          \/ \E code \in Broken : Disconnect(c, code)
    \/ Take \/ Shutdown \/ Restart
    \/ \E code \in Broken : Crash(code)
    \/ \E S \in SUBSET Devices : Plug(S)

Spec == Init /\ [][Next]_vars

-----------------------------------------------------------------------------
\* The type invariant of the request path.
TypeOK ==
    /\ req \in [Clients -> [op : Ops, device : Devices \cup {""}, fits : BOOLEAN]]
    /\ at \in [Clients -> {"idle", "sent", "queued", "called", "connecting", "reading", "replied"}]
    /\ status \in [Clients -> Statuses]
    /\ channel \in BOOLEAN /\ queue \in Seq(Clients)
    /\ worker \subseteq Clients /\ loop \subseteq Clients
    /\ session \in {"closed", "open"} /\ up \in BOOLEAN /\ present \subseteq Devices
    /\ ever \in [Clients -> SUBSET Devices] /\ always \in [Clients -> SUBSET Devices]
    /\ cutoff \in [Clients -> BOOLEAN]

InKernel == {c \in Clients : at[c] \in {"connecting", "reading"}}

\* Never are two threads in the drgn session, be it to connect it or to read, the
\* event loop never is, and nobody connects a session that is open: the defect that
\* the comment in ListDevices tells of cannot come back by any interleaving.
KernelSerialised ==
    /\ \A c, d \in InKernel : c = d
    /\ InKernel \subseteq worker
    /\ \A c \in Clients : at[c] = "connecting" => session = "closed"

\* An answer is true of a request when the device was there at the times `ever` and
\* `always` tell, and daemon and connection failed if `cut`.
Truthful(r, code, somewhen, throughout, cut) ==
    LET http == HttpStatus(code)
        badQueue == "queue" \in Handlers[r.op] /\ ~r.fits
    IN /\ http = 404 => badQueue \/ ("device" \in Handlers[r.op] /\ r.device \notin throughout)
       /\ http = 502 => r.op \in OfKernel \/ (r.op = "AddTarget" /\ ~r.fits) \/ cut
       /\ "device" \in Handlers[r.op] /\ r.device \notin somewhen => http # 200
       /\ badQueue => http # 200

\* The browser is told 404 only of what is not there: the queue asked for is out of
\* range, or the device was away at some time since, and never because the daemon was
\* restarted meanwhile; 502 only when a query of the kernel failed, a rule is none, or
\* the daemon or the connection to it failed while the request was under way, which
\* _call tells of every route with the same status; and a request for a device that was
\* never there, or a queue that cannot be, is not answered 200.
NotFoundIsTrue ==
    \A c \in Clients :
        at[c] = "replied" => Truthful(req[c], status[c], ever[c], always[c], cutoff[c])
=============================================================================
