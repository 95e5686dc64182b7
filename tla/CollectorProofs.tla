--------------------------- MODULE CollectorProofs ---------------------------
(***************************************************************************)
(* Proofs about Collector, for any number of commands, queues and tags,    *)
(* any log and any number of kills.                                        *)
(***************************************************************************)
EXTENDS Collector, SequenceTheorems, FiniteSetTheorems, TLAPS

Line == [map: Counters \cup {"tick"}, of: SUBSET Cmds]
Command == [at: {"new", "setup", "live", "count", "error", "delete", "done"}, tag: Tags \cup {0},
            seen: SUBSET Cmds, timeout: {"no", "reading", "printed"}, opcode: Cmds \cup {0}]
Event == [of: Cmds, opcode: Cmds \cup {0}, cdw: Cmds \cup {0}]

\* The type invariant; a command that was set up has a tag.
Types ==
    /\ up \in BOOLEAN
    /\ pc \in 1 .. 10
    /\ maps \in [Counters -> SUBSET Cmds]
    /\ started \in SUBSET Cmds
    /\ cache \in [Queues \X Tags -> Cmds \cup {0}]
    /\ budget \in Nat
    /\ cmd \in [Cmds -> Command]
    /\ log \in Seq(Line)
    /\ events \in SUBSET Event
    /\ kills \in Nat
    /\ \A n \in Cmds : cmd[n].at # "new" => cmd[n].tag \in Tags

\* The interval handler step by step.
LEMMA ScriptSteps ==
    /\ Len(Script) = 10
    /\ Script[1] = <<"print", "op">> /\ Script[2] = <<"print", "sub">>
    /\ Script[3] = <<"print", "hist">> /\ Script[4] = <<"print", "err">>
    /\ Script[5] = <<"print", "proc">> /\ Script[6] = <<"print", "tick">>
    /\ Script[7] = <<"clear", "op">> /\ Script[8] = <<"clear", "sub">>
    /\ Script[9] = <<"clear", "hist">> /\ Script[10] = <<"clear", "proc">>
BY DEF Script

\* The key of a command that has a tag is a key of the cache.
LEMMA KeyType ==
    ASSUME Types, NEW n \in Cmds, cmd[n].at # "new"
    PROVE  Key(n) \in Queues \X Tags
BY CollectorAssumption DEF Types, Key, Queues

\* A map after the store of a +=.
LEMMA StoredType ==
    ASSUME Types, NEW n \in Cmds, NEW map \in Counters
    PROVE  /\ Read(map, n) \in SUBSET maps[map] /\ Read(map, n) \in SUBSET Cmds
           /\ Stored(map, n) \subseteq maps[map] \cup cmd[n].seen \cup {n}
           /\ Stored(map, n) \in SUBSET Cmds
<1>1. maps[map] \in SUBSET Cmds /\ cmd[n] \in Command
  BY DEF Types
<1>2. cmd[n].seen \in SUBSET Cmds
  BY <1>1 DEF Command
<1> QED
  BY <1>1, <1>2 DEF Read, Stored

\* What a step of a probe makes of its command, and the types it keeps.
LEMMA CommandStep ==
    ASSUME Types, NEW n \in Cmds, NEW c \in Command, cmd' = [cmd EXCEPT ![n] = c],
           c.at # "new" => c.tag \in Tags
    PROVE  /\ cmd' \in [Cmds -> Command]
           /\ \A m \in Cmds : cmd'[m].at # "new" => cmd'[m].tag \in Tags
BY DEF Types

\* A submission keeps the types.
LEMMA SetupTypes ==
    ASSUME Types, NEW n \in Cmds, NEW t \in Tags, Setup(n, t)
    PROVE  Types'
<1> DEFINE c == [cmd[n] EXCEPT !.at = IF up THEN "setup" ELSE "live", !.tag = t,
                               !.seen = IF up THEN Read("sub", n) ELSE {}]
<1>0. cmd[n] \in Command
  BY DEF Types
<1>1. cmd' = [cmd EXCEPT ![n] = c]
  BY <1>0 DEF Setup, Types, Command
<1>2. Read("sub", n) \in SUBSET Cmds
  BY StoredType DEF Counters
<1>3. c \in Command /\ c.tag = t
  BY <1>0, <1>2 DEF Command
<1> HIDE DEF c
<1>4. /\ cmd' \in [Cmds -> Command]
      /\ \A m \in Cmds : cmd'[m].at # "new" => cmd'[m].tag \in Tags
  BY <1>1, <1>3, CommandStep
<1>5. started' \in SUBSET Cmds
  BY DEF Setup, Types
<1> QED
  BY <1>4, <1>5 DEF Setup, Types

\* So do its counting and its entry in the cache.
LEMMA CountSetupTypes ==
    ASSUME Types, NEW n \in Cmds, CountSetup(n)
    PROVE  Types'
<1> DEFINE c == [cmd[n] EXCEPT !.at = "live", !.seen = {}]
<1>0. cmd[n] \in Command /\ cmd[n].tag \in Tags /\ Key(n) \in Queues \X Tags
  BY KeyType DEF CountSetup, Types
<1>1. cmd' = [cmd EXCEPT ![n] = c]
  BY <1>0 DEF CountSetup, Types, Command
<1>2. c \in Command /\ c.tag \in Tags
  BY <1>0 DEF Command
<1> HIDE DEF c
<1>3. /\ cmd' \in [Cmds -> Command]
      /\ \A m \in Cmds : cmd'[m].at # "new" => cmd'[m].tag \in Tags
  BY <1>1, <1>2, CommandStep
<1>4. maps' \in [Counters -> SUBSET Cmds]
  <2>1. Stored("sub", n) \in SUBSET Cmds
    BY StoredType DEF Counters
  <2> QED
    BY <2>1 DEF CountSetup, Types, Counters
<1>5. cache' \in [Queues \X Tags -> Cmds \cup {0}]
  BY <1>0 DEF CountSetup, Types
<1> QED
  BY <1>3, <1>4, <1>5 DEF CountSetup, Types

\* So does a completion.
LEMMA CompleteTypes ==
    ASSUME Types, NEW n \in Cmds, Complete(n)
    PROVE  Types'
<1> DEFINE c == [cmd[n] EXCEPT !.at = IF up THEN "count" ELSE "done",
                               !.seen = IF up THEN Read("op", n) ELSE {}]
<1>0. cmd[n] \in Command /\ cmd[n].tag \in Tags
  BY DEF Complete, Types
<1>1. cmd' = [cmd EXCEPT ![n] = c]
  BY <1>0 DEF Complete, Types, Command
<1>2. Read("op", n) \in SUBSET Cmds
  BY StoredType DEF Counters
<1>3. c \in Command /\ c.tag \in Tags
  BY <1>0, <1>2 DEF Command
<1> HIDE DEF c
<1>4. /\ cmd' \in [Cmds -> Command]
      /\ \A m \in Cmds : cmd'[m].at # "new" => cmd'[m].tag \in Tags
  BY <1>1, <1>3, CommandStep
<1> QED
  BY <1>4 DEF Complete, Types

\* And its counting.
LEMMA CountCompletionTypes ==
    ASSUME Types, NEW n \in Cmds, CountCompletion(n)
    PROVE  Types'
<1> DEFINE c == [cmd[n] EXCEPT !.at = IF StatusOf[n] # 0 THEN "error" ELSE "delete",
                               !.seen = IF StatusOf[n] # 0 THEN Read("err", n) ELSE {}]
<1>0. cmd[n] \in Command /\ cmd[n].tag \in Tags /\ Key(n) \in Queues \X Tags
  BY KeyType DEF CountCompletion, Types
<1>1. cmd' = [cmd EXCEPT ![n] = c]
  BY <1>0 DEF CountCompletion, Types, Command
<1>2. Read("err", n) \in SUBSET Cmds /\ Stored("op", n) \in SUBSET Cmds
  BY StoredType DEF Counters
<1>3. c \in Command /\ c.tag \in Tags
  BY <1>0, <1>2 DEF Command
<1> HIDE DEF c
<1>4. /\ cmd' \in [Cmds -> Command]
      /\ \A m \in Cmds : cmd'[m].at # "new" => cmd'[m].tag \in Tags
  BY <1>1, <1>3, CommandStep
<1>5. maps' \in [Counters -> SUBSET Cmds]
  <2>1. CASE n \in started
    <3>1. maps' = [maps EXCEPT !["op"] = Stored("op", n), !["hist"] = @ \cup {n}]
      BY <2>1 DEF CountCompletion
    <3> QED
      BY <1>2, <3>1 DEF Types, Counters
  <2>2. CASE n \notin started
    BY <2>2 DEF CountCompletion, Types
  <2> QED
    BY <2>1, <2>2
<1>6. events' \in SUBSET Event /\ budget' \in Nat
  <2>1. cache[Key(n)] \in Cmds \cup {0}
    BY <1>0 DEF Types
  <2>2. [of |-> n, opcode |-> cache[Key(n)], cdw |-> cache[Key(n)]] \in Event
    BY <2>1 DEF Event
  <2>3. \/ events' = events \cup {[of |-> n, opcode |-> cache[Key(n)], cdw |-> cache[Key(n)]]}
        \/ events' = events
    BY DEF CountCompletion
  <2>4. budget' \in {budget, budget + 1}
    BY DEF CountCompletion
  <2> QED
    BY <2>2, <2>3, <2>4 DEF Types
<1>7. started' \in SUBSET Cmds
  BY DEF CountCompletion, Types
<1> QED
  BY <1>4, <1>5, <1>6, <1>7 DEF CountCompletion, Types

\* The steps after the completion, and the timeout handler.
LEMMA ProbeTypes ==
    ASSUME Types, NEW n \in Cmds,
           CountError(n) \/ Delete(n) \/ Timeout(n) \/ PrintTimeout(n),
           cmd[n].timeout = "reading" => cmd[n].at # "new"
    PROVE  Types'
<1>0. cmd[n] \in Command
  BY DEF Types
<1>1. cmd[n].at # "new" /\ Key(n) \in Queues \X Tags
  BY KeyType DEF CountError, Delete, Timeout, PrintTimeout
<1>2. CASE CountError(n)
  <2> DEFINE c == [cmd[n] EXCEPT !.at = "delete", !.seen = {}]
  <2>1. cmd' = [cmd EXCEPT ![n] = c]
    BY <1>2 DEF CountError, Types, Command
  <2>2. c \in Command /\ c.tag = cmd[n].tag
    BY <1>0 DEF Command
  <2>3. maps' \in [Counters -> SUBSET Cmds]
    <3>1. Stored("err", n) \in SUBSET Cmds
      BY StoredType DEF Counters
    <3> QED
      BY <1>2, <3>1 DEF CountError, Types
  <2> HIDE DEF c
  <2>4. /\ cmd' \in [Cmds -> Command]
        /\ \A m \in Cmds : cmd'[m].at # "new" => cmd'[m].tag \in Tags
    BY <1>1, <2>1, <2>2 DEF Types
  <2> QED
    BY <1>2, <2>3, <2>4 DEF CountError, Types
<1>3. CASE Delete(n)
  <2> DEFINE c == [cmd[n] EXCEPT !.at = "done"]
  <2>1. cmd' = [cmd EXCEPT ![n] = c]
    BY <1>3 DEF Delete, Types, Command
  <2>2. c \in Command /\ c.tag = cmd[n].tag
    BY <1>0 DEF Command
  <2> HIDE DEF c
  <2> QED
    BY <1>1, <1>3, <2>1, <2>2 DEF Delete, Types
<1>4. CASE Timeout(n)
  <2> DEFINE c == [cmd[n] EXCEPT !.timeout = "reading", !.opcode = cache[Key(n)]]
  <2>1. cmd' = [cmd EXCEPT ![n] = c]
    BY <1>4 DEF Timeout, Types, Command
  <2>2. cache[Key(n)] \in Cmds \cup {0}
    BY <1>1 DEF Types
  <2>3. c \in Command /\ c.tag = cmd[n].tag /\ c.at = cmd[n].at
    BY <1>0, <2>2 DEF Command
  <2> HIDE DEF c
  <2> QED
    BY <1>1, <1>4, <2>1, <2>3, ZenonT(60) DEF Timeout, Types
<1>5. CASE PrintTimeout(n)
  <2> DEFINE c == [cmd[n] EXCEPT !.timeout = "printed"]
  <2>1. cmd' = [cmd EXCEPT ![n] = c]
    BY <1>5 DEF PrintTimeout, Types, Command
  <2>2. c \in Command /\ c.tag = cmd[n].tag /\ c.at = cmd[n].at
    BY <1>0 DEF Command
  <2>3. cache[Key(n)] \in Cmds \cup {0} /\ cmd[n].opcode \in Cmds \cup {0}
    BY <1>0, <1>1 DEF Types, Command
  <2>4. events' \in SUBSET Event
    BY <1>5, <2>3 DEF PrintTimeout, Types, Event
  <2> HIDE DEF c
  <2> QED
    BY <1>1, <1>5, <2>1, <2>2, <2>4 DEF PrintTimeout, Types
<1> QED
  BY <1>2, <1>3, <1>4, <1>5

\* A step of the interval handler: which map it prints or clears.
LEMMA IntervalSteps ==
    ASSUME Types, Interval
    PROVE  /\ UNCHANGED <<up, started, cache, cmd, events, kills>>
           /\ pc' \in 1 .. 10
           /\ pc' = IF pc = 10 THEN 1 ELSE pc + 1
           /\ pc = 1 => Show("op")
           /\ pc = 2 => Show("sub")
           /\ pc = 3 => Show("hist")
           /\ pc = 4 => Show("err")
           /\ pc = 5 => Show("proc")
           /\ pc = 6 => Show("tick")
           /\ pc = 7 => Clear("op")
           /\ pc = 8 => Clear("sub")
           /\ pc = 9 => Clear("hist")
           /\ pc = 10 => Clear("proc")
           /\ \/ \E m \in Counters \cup {"tick"} : Show(m)
              \/ \E m \in Counters : Clear(m)
<1>1. pc = 1 \/ pc = 2 \/ pc = 3 \/ pc = 4 \/ pc = 5 \/ pc = 6 \/ pc = 7 \/ pc = 8 \/ pc = 9 \/ pc = 10
  BY DEF Types
<1>2. pc' = IF pc = 10 THEN 1 ELSE pc + 1
  BY ScriptSteps DEF Interval
<1>3. /\ Script[pc][1] = "print" => Show(Script[pc][2])
      /\ Script[pc][1] # "print" => Clear(Script[pc][2])
  BY DEF Interval
<1>4. /\ pc = 1 => Show("op")
      /\ pc = 2 => Show("sub")
      /\ pc = 3 => Show("hist")
      /\ pc = 4 => Show("err")
      /\ pc = 5 => Show("proc")
      /\ pc = 6 => Show("tick")
  BY <1>3, ScriptSteps
<1>5. /\ pc = 7 => Clear("op")
      /\ pc = 8 => Clear("sub")
      /\ pc = 9 => Clear("hist")
      /\ pc = 10 => Clear("proc")
  BY <1>3, ScriptSteps
<1>6. \/ \E m \in Counters \cup {"tick"} : Show(m)
      \/ \E m \in Counters : Clear(m)
  BY <1>1, <1>4, <1>5 DEF Counters
<1> QED
  BY <1>1, <1>2, <1>4, <1>5, <1>6 DEF Interval

\* What a kill may leave in the log: a part of the map that was being printed.
LEMMA KillSteps ==
    ASSUME Types, NEW partly \in BOOLEAN, NEW keys, Kill(partly, keys)
    PROVE  \/ log' = log
           \/ \E m \in Counters, part \in SUBSET Cmds :
                /\ part \subseteq maps[m]
                /\ log' = Append(log, [map |-> m, of |-> part])
                /\ m = "hist" => pc = 3
                /\ m = "proc" => pc = 5
<1> SUFFICES ASSUME log' # log
             PROVE  \E m \in Counters, part \in SUBSET Cmds :
                      /\ part \subseteq maps[m]
                      /\ log' = Append(log, [map |-> m, of |-> part])
                      /\ m = "hist" => pc = 3
                      /\ m = "proc" => pc = 5
  OBVIOUS
<1> DEFINE m == Script[pc][2]
           part == {n \in maps[m] : KeyIn(m, n) \in keys}
<1>1. /\ Script[pc][1] = "print" /\ m # "tick"
      /\ log' = Append(log, [map |-> m, of |-> part])
  BY DEF Kill
<1>2. pc = 1 \/ pc = 2 \/ pc = 3 \/ pc = 4 \/ pc = 5
  BY <1>1, ScriptSteps DEF Types
<1>3. /\ m \in Counters
      /\ m = "hist" => pc = 3
      /\ m = "proc" => pc = 5
  BY <1>2, ScriptSteps DEF Counters
<1> HIDE DEF m
<1>4. part \subseteq maps[m] /\ part \in SUBSET Cmds
  BY <1>3 DEF Types
<1> QED
  BY <1>1, <1>3, <1>4

\* What a kill does to the probes of a command.
LEMMA KilledCommands ==
    ASSUME Types, NEW partly \in BOOLEAN, NEW keys, Kill(partly, keys)
    PROVE  /\ cmd' \in [Cmds -> Command]
           /\ \A n \in Cmds :
                /\ cmd'[n].tag = cmd[n].tag
                /\ cmd'[n].at = IF cmd[n].at = "setup" THEN "live"
                                 ELSE IF cmd[n].at \in {"count", "error", "delete"} THEN "done" ELSE cmd[n].at
                /\ cmd'[n].timeout # "reading"
                /\ cmd'[n].seen = {}
<1> DEFINE killed(n) == [cmd[n] EXCEPT !.at = IF @ = "setup" THEN "live"
                                             ELSE IF @ \in {"count", "error", "delete"} THEN "done" ELSE @,
                                       !.timeout = IF @ = "reading" THEN "printed" ELSE @,
                                       !.seen = {}]
<1>1. cmd' = [n \in Cmds |-> killed(n)]
  BY DEF Kill
<1>2. ASSUME NEW n \in Cmds
      PROVE  /\ killed(n) \in Command
             /\ killed(n).tag = cmd[n].tag
             /\ killed(n).at = IF cmd[n].at = "setup" THEN "live"
                                ELSE IF cmd[n].at \in {"count", "error", "delete"} THEN "done" ELSE cmd[n].at
             /\ killed(n).timeout # "reading"
             /\ killed(n).seen = {}
  <2>1. cmd[n] \in Command
    BY DEF Types
  <2> QED
    BY <2>1 DEF Command
<1> HIDE DEF killed
<1> QED
  BY <1>1, <1>2

\* The interval handler, the death and the restart of the collector keep the types.
LEMMA CollectorTypes ==
    ASSUME Types, Interval \/ (\E partly \in BOOLEAN, keys \in SUBSET AllKeys : Kill(partly, keys)) \/ Restart
    PROVE  Types'
<1>1. CASE Interval
  <2>1. ASSUME NEW m \in Counters \cup {"tick"}, Show(m)
        PROVE  log' \in Seq(Line) /\ UNCHANGED <<maps, budget>>
    <3> DEFINE line == IF m = "tick" THEN Tick ELSE [map |-> m, of |-> maps[m]]
    <3>1. line \in Line
      BY <2>1 DEF Line, Tick, Counters, Types
    <3>2. log' = Append(log, line)
      BY <2>1 DEF Show
    <3> HIDE DEF line
    <3> QED
      BY <2>1, <3>1, <3>2 DEF Show, Types
  <2>2. ASSUME NEW m \in Counters, Clear(m)
        PROVE  log' = log /\ maps' \in [Counters -> SUBSET Cmds] /\ budget' \in Nat
    BY <2>2 DEF Clear, Types
  <2> QED
    BY <1>1, <2>1, <2>2, IntervalSteps DEF Types
<1>2. ASSUME NEW partly \in BOOLEAN, NEW keys, Kill(partly, keys)
      PROVE  Types'
  <2>1. log' \in Seq(Line)
    <3>1. ASSUME NEW m \in Counters, NEW part \in SUBSET Cmds,
                 log' = Append(log, [map |-> m, of |-> part])
          PROVE  log' \in Seq(Line)
      <4>1. [map |-> m, of |-> part] \in Line
        BY DEF Line
      <4> QED
        BY <3>1, <4>1 DEF Types
    <3> QED
      BY <1>2, <3>1, KillSteps DEF Types
  <2>2. maps' \in [Counters -> SUBSET Cmds] /\ cache' \in [Queues \X Tags -> Cmds \cup {0}]
    BY <1>2 DEF Kill, Blank
  <2>3. /\ cmd' \in [Cmds -> Command]
        /\ \A n \in Cmds : cmd'[n].at # "new" => cmd'[n].tag \in Tags
    BY <1>2, KilledCommands DEF Types
  <2>4. up' = FALSE /\ pc' = 1 /\ started' = {} /\ budget' = 0 /\ events' = events /\ kills' = kills + 1
    BY <1>2 DEF Kill
  <2>5. kills \in Nat /\ events \in SUBSET Event
    BY DEF Types
  <2>6. pc' \in 1 .. 10 /\ budget' \in Nat /\ kills' \in Nat
    BY <2>4, <2>5
  <2>7. up' \in BOOLEAN /\ started' \in SUBSET Cmds
    BY <2>4
  <2> QED
    BY <2>1, <2>2, <2>3, <2>4, <2>5, <2>6, <2>7, Zenon DEF Types
<1>3. CASE Restart
  BY <1>3 DEF Restart, Types
<1> QED
  BY <1>1, <1>2, <1>3

-----------------------------------------------------------------------------
(* Event lines. *)

\* Command n occupies its tag: it is in flight, or the timeout handler holds it.
Holds(n) == cmd[n].at \in {"setup", "live", "count", "error", "delete"} \/ cmd[n].timeout = "reading"

\* The stages in which a command may have an entry in the cache.
Cached == {"live", "count", "error", "delete"}

\* The cache under a tag is that of the command that occupies the tag.
CacheIsOwn ==
    /\ \A n \in Cmds : Holds(n) => cmd[n].at # "new"
    /\ \A k \in Queues \X Tags : cache[k] # 0 => cmd[cache[k]].at \in Cached /\ Key(cache[k]) = k
    /\ \A n \in Cmds : cmd[n].timeout = "reading" => cmd[n].opcode \in {0, n}
    /\ \A m, n \in Cmds : Holds(m) /\ Holds(n) /\ Key(m) = Key(n) => m = n
    /\ \A n \in Cmds : cmd[n].at = "setup" => up
    /\ ~up => \A k \in Queues \X Tags : cache[k] = 0
    /\ EventDescribesOwn

\* A submission takes a free tag, so nobody else's cache is under its key.
LEMMA SetupOwn ==
    ASSUME Types, CacheIsOwn, NEW n \in Cmds, NEW t \in Tags, Setup(n, t)
    PROVE  CacheIsOwn'
<1>1. /\ cmd[n].at = "new" /\ TagFree(QueueOf[n], t)
      /\ up' = up /\ events' = events /\ cache' = cache
  BY DEF Setup
<1>2. /\ cmd'[n].at \in {"setup", "live"} /\ cmd'[n].tag = t
      /\ cmd'[n].at = "setup" => up
      /\ cmd'[n].timeout = cmd[n].timeout /\ cmd'[n].opcode = cmd[n].opcode
      /\ \A m \in Cmds \ {n} : cmd'[m] = cmd[m]
  <2>1. cmd[n] \in Command
    BY DEF Types
  <2> QED
    BY <2>1 DEF Setup, Types, Command
<1>3. Holds(n)' /\ ~Holds(n) /\ \A m \in Cmds \ {n} : Holds(m)' <=> Holds(m)
  BY <1>1, <1>2 DEF Holds, CacheIsOwn
<1>4. Key(n)' = <<QueueOf[n], t>> /\ \A m \in Cmds \ {n} : Key(m)' = Key(m)
  BY <1>2 DEF Key
<1>5. \A m \in Cmds : Holds(m) => Key(m) # <<QueueOf[n], t>>
  BY <1>1 DEF TagFree, Holds, Key
<1>6. ASSUME NEW k \in Queues \X Tags, cache'[k] # 0
      PROVE  cmd'[cache'[k]].at \in Cached /\ <<QueueOf[cache'[k]], cmd'[cache'[k]].tag>> = k
  <2>1. cache[k] \in Cmds /\ cmd[cache[k]].at \in Cached /\ Key(cache[k]) = k
    BY <1>1, <1>6 DEF CacheIsOwn, Types
  <2>2. cache[k] # n
    BY <1>1, <2>1 DEF Cached
  <2> QED
    BY <1>1, <1>2, <2>1, <2>2 DEF Key
<1>7. \A m \in Cmds : Holds(m)' => cmd'[m].at # "new"
  BY <1>2, <1>3 DEF CacheIsOwn
<1>8. \A m \in Cmds : cmd'[m].timeout = "reading" => cmd'[m].opcode \in {0, m}
  BY <1>2 DEF CacheIsOwn
<1>9. \A l, m \in Cmds : Holds(l)' /\ Holds(m)' /\ Key(l)' = Key(m)' => l = m
  BY <1>3, <1>4, <1>5 DEF CacheIsOwn
<1>10. \A m \in Cmds : cmd'[m].at = "setup" => up'
  BY <1>1, <1>2 DEF CacheIsOwn
<1>11. EventDescribesOwn' /\ (~up' => \A k \in Queues \X Tags : cache'[k] = 0)
  BY <1>1 DEF CacheIsOwn, EventDescribesOwn
<1> QED
  BY <1>6, <1>7, <1>8, <1>9, <1>10, <1>11 DEF CacheIsOwn, Holds, Key

\* Its entry is put under a key no other command holds.
LEMMA CountSetupOwn ==
    ASSUME Types, CacheIsOwn, NEW n \in Cmds, CountSetup(n)
    PROVE  CacheIsOwn'
<1>1. cmd[n].at = "setup" /\ up /\ up' = up /\ events' = events /\ Holds(n)
  BY DEF CountSetup, CacheIsOwn, Holds
<1>2. /\ cmd'[n].at = "live" /\ cmd'[n].tag = cmd[n].tag
      /\ cmd'[n].timeout = cmd[n].timeout /\ cmd'[n].opcode = cmd[n].opcode
      /\ \A m \in Cmds \ {n} : cmd'[m] = cmd[m]
  <2>1. cmd[n] \in Command
    BY DEF Types
  <2> QED
    BY <2>1 DEF CountSetup, Types, Command
<1>3. \A m \in Cmds : (Holds(m)' <=> Holds(m)) /\ Key(m)' = Key(m)
  BY <1>1, <1>2 DEF Holds, Key
<1>4. Key(n) \in Queues \X Tags /\ cache' = [cache EXCEPT ![Key(n)] = n]
  BY <1>1, KeyType DEF CountSetup
<1>5. ASSUME NEW k \in Queues \X Tags, cache'[k] # 0
      PROVE  cmd'[cache'[k]].at \in Cached /\ <<QueueOf[cache'[k]], cmd'[cache'[k]].tag>> = k
  <2>1. CASE k = Key(n)
    BY <1>2, <1>4, <2>1 DEF Cached, Types, Key
  <2>2. CASE k # Key(n)
    <3>1. cache'[k] = cache[k]
      BY <1>4, <2>2 DEF Types
    <3>2. cache[k] \in Cmds /\ cmd[cache[k]].at \in Cached /\ Key(cache[k]) = k
      BY <1>5, <3>1 DEF CacheIsOwn, Types
    <3>3. cache[k] # n
      BY <2>2, <3>2
    <3> QED
      BY <1>2, <3>1, <3>2, <3>3 DEF Key
  <2> QED
    BY <2>1, <2>2
<1>6. /\ \A m \in Cmds : Holds(m)' => cmd'[m].at # "new"
      /\ \A m \in Cmds : cmd'[m].timeout = "reading" => cmd'[m].opcode \in {0, m}
      /\ \A m \in Cmds : cmd'[m].at = "setup" => up'
  BY <1>1, <1>2, <1>3 DEF CacheIsOwn
<1>7. \A l, m \in Cmds : Holds(l)' /\ Holds(m)' /\ Key(l)' = Key(m)' => l = m
  BY <1>3 DEF CacheIsOwn
<1>8. EventDescribesOwn' /\ up'
  BY <1>1 DEF CacheIsOwn, EventDescribesOwn
<1> QED
  BY <1>5, <1>6, <1>7, <1>8 DEF CacheIsOwn, Holds, Key

\* A step that gives no command a tag and only takes entries out of the cache.
LEMMA OwnShrinks ==
    ASSUME Types, CacheIsOwn,
           \A m \in Cmds :
             /\ Holds(m)' => Holds(m) /\ cmd'[m].at # "new"
             /\ cmd'[m].tag = cmd[m].tag
             /\ cmd'[m].timeout = "reading" => cmd'[m].opcode \in {0, m}
             /\ cmd'[m].at = "setup" => up',
           \A k \in Queues \X Tags :
             cache'[k] # 0 => cache'[k] = cache[k] /\ cmd'[cache[k]].at \in Cached,
           ~up' => \A k \in Queues \X Tags : cache'[k] = 0,
           EventDescribesOwn'
    PROVE  CacheIsOwn'
<1>1. \A m \in Cmds : Key(m)' = Key(m)
  BY DEF Key
<1>2. ASSUME NEW k \in Queues \X Tags, cache'[k] # 0
      PROVE  cmd'[cache'[k]].at \in Cached /\ <<QueueOf[cache'[k]], cmd'[cache'[k]].tag>> = k
  <2>1. cache'[k] = cache[k] /\ cmd'[cache[k]].at \in Cached
    BY <1>2
  <2>2. cache[k] \in Cmds /\ Key(cache[k]) = k
    BY <1>2, <2>1 DEF CacheIsOwn, Types
  <2> QED
    BY <2>1, <2>2 DEF Key
<1>3. \A l, m \in Cmds : Holds(l)' /\ Holds(m)' /\ Key(l)' = Key(m)' => l = m
  BY <1>1 DEF CacheIsOwn
<1> QED
  BY <1>2, <1>3 DEF CacheIsOwn, Holds, Key

\* The cache entry a probe reads is blank or its own command's.
LEMMA ReadsOwn ==
    ASSUME Types, CacheIsOwn, NEW n \in Cmds, Holds(n)
    PROVE  cmd[n].at # "new" /\ Key(n) \in Queues \X Tags /\ cache[Key(n)] \in {0, n}
<1>1. cmd[n].at # "new" /\ Key(n) \in Queues \X Tags
  BY KeyType DEF CacheIsOwn
<1>2. ASSUME cache[Key(n)] # 0
      PROVE  cache[Key(n)] = n
  <2> DEFINE m == cache[Key(n)]
  <2>1. m \in Cmds /\ cmd[m].at \in Cached /\ Key(m) = Key(n)
    BY <1>1, <1>2 DEF CacheIsOwn, Types
  <2>2. Holds(m)
    BY <2>1 DEF Holds, Cached
  <2> HIDE DEF m
  <2> QED
    BY <2>1, <2>2 DEF CacheIsOwn, m
<1> QED
  BY <1>1, <1>2

\* The steps of a completion and of the timeout handler.
LEMMA ProbeOwn ==
    ASSUME Types, CacheIsOwn, NEW n \in Cmds,
           \/ Complete(n) \/ CountCompletion(n) \/ CountError(n) \/ Delete(n)
           \/ Timeout(n) \/ PrintTimeout(n)
    PROVE  CacheIsOwn'
<1>0. cmd[n] \in Command
  BY DEF Types
<1>1. Holds(n) /\ cmd[n].at # "new" /\ Key(n) \in Queues \X Tags /\ cache[Key(n)] \in {0, n}
  BY ReadsOwn DEF Complete, CountCompletion, CountError, Delete, Timeout, PrintTimeout, Holds
<1>2. \A m \in Cmds \ {n} : cmd'[m] = cmd[m]
  BY DEF Complete, CountCompletion, CountError, Delete, Timeout, PrintTimeout, Types
<1>3. /\ cmd'[n].tag = cmd[n].tag /\ cmd'[n].at # "new"
      /\ cmd'[n].at = "setup" => cmd[n].at = "setup"
      /\ cmd'[n].timeout = "reading" => cmd'[n].opcode \in {0, n}
  <2>1. CASE Complete(n)
    BY <1>0, <1>1, <2>1 DEF Complete, Types, Command, CacheIsOwn
  <2>2. CASE CountCompletion(n)
    BY <1>0, <1>1, <2>2 DEF CountCompletion, Types, Command, CacheIsOwn
  <2>3. CASE CountError(n)
    BY <1>0, <1>1, <2>3 DEF CountError, Types, Command, CacheIsOwn
  <2>4. CASE Delete(n)
    BY <1>0, <1>1, <2>4 DEF Delete, Types, Command, CacheIsOwn
  <2>5. CASE Timeout(n)
    BY <1>0, <1>1, <2>5 DEF Timeout, Types, Command
  <2>6. CASE PrintTimeout(n)
    BY <1>0, <1>1, <2>6 DEF PrintTimeout, Types, Command
  <2> QED
    BY <2>1, <2>2, <2>3, <2>4, <2>5, <2>6
<1>4. up' = up
  BY DEF Complete, CountCompletion, CountError, Delete, Timeout, PrintTimeout
<1>5. ASSUME NEW k \in Queues \X Tags, cache'[k] # 0
      PROVE  cache'[k] = cache[k] /\ cmd'[cache[k]].at \in Cached
  <2>1. cache'[k] = cache[k] /\ (Delete(n) => k # Key(n))
    BY <1>1, <1>5 DEF Complete, CountCompletion, CountError, Delete, Timeout, PrintTimeout, Types
  <2>2. cache[k] \in Cmds /\ cmd[cache[k]].at \in Cached /\ Key(cache[k]) = k /\ up
    BY <1>5, <2>1 DEF CacheIsOwn, Types
  <2>3. CASE cache[k] # n
    BY <1>2, <2>1, <2>2, <2>3
  <2>4. CASE cache[k] = n
    <3>1. ~Delete(n)
      BY <2>1, <2>2, <2>4
    <3>2. cmd'[n].at \in Cached
      <4>1. CASE Complete(n)
        BY <1>0, <2>2, <4>1 DEF Complete, Types, Command, Cached
      <4>2. CASE CountCompletion(n)
        BY <1>0, <4>2 DEF CountCompletion, Types, Command, Cached
      <4>3. CASE CountError(n)
        BY <1>0, <4>3 DEF CountError, Types, Command, Cached
      <4>4. CASE Timeout(n) \/ PrintTimeout(n)
        <5>1. cmd'[n].at = cmd[n].at
          BY <1>0, <4>4 DEF Timeout, PrintTimeout, Types, Command
        <5> QED
          BY <2>2, <2>4, <5>1
      <4> QED
        BY <3>1, <4>1, <4>2, <4>3, <4>4
    <3> QED
      BY <2>1, <2>4, <3>2
  <2> QED
    BY <2>3, <2>4
<1>6. EventDescribesOwn'
  <2>1. CASE CountCompletion(n)
    BY <1>1, <2>1 DEF CountCompletion, CacheIsOwn, EventDescribesOwn
  <2>2. CASE PrintTimeout(n)
    <3>1. cmd[n].opcode \in {0, n}
      BY <2>2 DEF PrintTimeout, CacheIsOwn
    <3> QED
      BY <1>1, <2>2, <3>1 DEF PrintTimeout, CacheIsOwn, EventDescribesOwn
  <2>3. CASE Complete(n) \/ CountError(n) \/ Delete(n) \/ Timeout(n)
    BY <2>3 DEF Complete, CountError, Delete, Timeout, CacheIsOwn, EventDescribesOwn
  <2> QED
    BY <2>1, <2>2, <2>3
<1>7. \A m \in Cmds :
        /\ Holds(m)' => Holds(m) /\ cmd'[m].at # "new"
        /\ cmd'[m].tag = cmd[m].tag
        /\ cmd'[m].timeout = "reading" => cmd'[m].opcode \in {0, m}
        /\ cmd'[m].at = "setup" => up'
  BY <1>1, <1>2, <1>3, <1>4 DEF Holds, CacheIsOwn
<1>8. ~up' => \A k \in Queues \X Tags : cache'[k] = 0
  BY <1>4, <1>5 DEF CacheIsOwn
<1> QED
  BY <1>5, <1>6, <1>7, <1>8, OwnShrinks

\* The interval handler, the death and the restart of the collector.
LEMMA CollectorOwn ==
    ASSUME Types, CacheIsOwn,
           Interval \/ (\E partly \in BOOLEAN, keys \in SUBSET AllKeys : Kill(partly, keys)) \/ Restart
    PROVE  CacheIsOwn'
<1>1. CASE Interval
  <2>1. UNCHANGED <<up, cache, cmd, events>>
    BY <1>1, IntervalSteps
  <2> QED
    BY <2>1 DEF CacheIsOwn, EventDescribesOwn, Holds, Key
<1>2. ASSUME NEW partly \in BOOLEAN, NEW keys, Kill(partly, keys)
      PROVE  CacheIsOwn'
  <2>1. /\ \A k \in Queues \X Tags : cache'[k] = 0
        /\ events' = events
    BY <1>2 DEF Kill
  <2>2. \A m \in Cmds :
          /\ Holds(m)' => Holds(m) /\ cmd'[m].at # "new"
          /\ cmd'[m].tag = cmd[m].tag
          /\ cmd'[m].timeout # "reading"
          /\ cmd'[m].at # "setup"
    BY <1>2, KilledCommands DEF Holds
  <2>3. EventDescribesOwn'
    BY <2>1 DEF CacheIsOwn, EventDescribesOwn
  <2> QED
    BY <2>1, <2>2, <2>3, OwnShrinks
<1>3. CASE Restart
  BY <1>3 DEF Restart, CacheIsOwn, EventDescribesOwn, Holds, Key
<1> QED
  BY <1>1, <1>2, <1>3

\* Types and ownership hold together at the start and after every step.
LEMMA OwnInit == Init => Types /\ CacheIsOwn
<1> SUFFICES ASSUME Init
             PROVE  Types /\ CacheIsOwn
  OBVIOUS
<1>1. cmd \in [Cmds -> Command] /\ \A n \in Cmds : cmd[n].at = "new" /\ cmd[n].timeout = "no"
  BY DEF Init, Command
<1>2. Types
  BY <1>1 DEF Init, Types, Blank
<1>3. CacheIsOwn
  BY <1>1 DEF Init, CacheIsOwn, Holds, EventDescribesOwn
<1> QED
  BY <1>2, <1>3

LEMMA OwnStep ==
    ASSUME Types, CacheIsOwn, [Next]_vars
    PROVE  Types' /\ CacheIsOwn'
<1>1. CASE UNCHANGED vars
  BY <1>1 DEF vars, Types, CacheIsOwn, EventDescribesOwn, Holds, Key
<1>2. ASSUME NEW n \in Cmds, NEW t \in Tags, Setup(n, t)
      PROVE  Types' /\ CacheIsOwn'
  BY <1>2, SetupTypes, SetupOwn
<1>3. ASSUME NEW n \in Cmds, CountSetup(n)
      PROVE  Types' /\ CacheIsOwn'
  BY <1>3, CountSetupTypes, CountSetupOwn
<1>4. ASSUME NEW n \in Cmds,
             \/ Complete(n) \/ CountCompletion(n) \/ CountError(n) \/ Delete(n)
             \/ Timeout(n) \/ PrintTimeout(n)
      PROVE  Types' /\ CacheIsOwn'
  <2>1. cmd[n].timeout = "reading" => cmd[n].at # "new"
    BY DEF CacheIsOwn, Holds
  <2>2. CacheIsOwn'
    BY <1>4, ProbeOwn
  <2>3. Types'
    BY <1>4, <2>1, CompleteTypes, CountCompletionTypes, ProbeTypes
  <2> QED
    BY <2>2, <2>3
<1>5. CASE Interval \/ (\E partly \in BOOLEAN, keys \in SUBSET AllKeys : Kill(partly, keys)) \/ Restart
  BY <1>5, CollectorTypes, CollectorOwn
<1>6. (\E keys \in SUBSET AllKeys : Kill(TRUE, keys)) \/ Kill(FALSE, {})
        => \E partly \in BOOLEAN, keys \in SUBSET AllKeys : Kill(partly, keys)
  OBVIOUS
<1> QED
  BY <1>1, <1>2, <1>3, <1>4, <1>5, <1>6 DEF Next

\* Whatever tags are reused, whichever probe of whichever CPU comes first and however
\* often the collector is killed, an event line describes its own command.
THEOREM EventsDescribeOwn == Spec => []EventDescribesOwn
<1>1. CacheIsOwn => EventDescribesOwn
  BY DEF CacheIsOwn
<1> QED
  BY <1>1, OwnInit, OwnStep, PTL DEF Spec

-----------------------------------------------------------------------------
(* Counters and the lines that show them. *)

\* The commands a map may have counted by now: for the counters of submissions those
\* whose submission was handled, for the others those whose completion was.
Reached(map) ==
    {n \in Cmds : /\ cmd[n].at \notin {"new", "setup"}
                  /\ map \notin {"sub", "proc"} => cmd[n].at \notin {"live", "count"}}

\* The maps that lose nothing and give nothing back.
Kept == {"hist", "proc"}

\* Nothing is counted, read or printed before it has happened.
CountedLate ==
    /\ \A m \in Counters : maps[m] \subseteq Reached(m)
    /\ \A n \in Cmds : cmd[n].seen \subseteq (IF cmd[n].at = "setup" THEN Reached("sub") ELSE Reached("op"))
    /\ \A i \in DOMAIN log : log[i].of \subseteq Reached(log[i].map)

\* Between its clear and its next print a kept map holds what no line shows yet.
Unprinted(m) ==
    /\ m = "hist" => pc \notin 4 .. 9
    /\ m = "proc" => pc \notin 6 .. 10

\* No two lines of a kept map share a command, nor do a line and a map not yet printed.
LinesDisjoint ==
    /\ \A i, j \in DOMAIN log :
         i # j /\ log[i].map = log[j].map /\ log[i].map \in Kept => log[i].of \cap log[j].of = {}
    /\ \A m \in Kept : \A i \in DOMAIN log :
         Unprinted(m) /\ log[i].map = m => log[i].of \cap maps[m] = {}

\* A command never goes back.
LEMMA ReachedGrows ==
    ASSUME Types, [Next]_vars
    PROVE  \A map : Reached(map) \subseteq Reached(map)'
<1> DEFINE Late == {"error", "delete", "done"}
           Grows(m) == /\ cmd[m].at \notin {"new", "setup"} => cmd'[m].at \notin {"new", "setup"}
                       /\ cmd[m].at \in Late => cmd'[m].at \in Late
<1>0. \A m \in Cmds : cmd[m] \in Command /\ cmd[m].at \in {"new", "setup", "live", "count"} \cup Late
  BY DEF Types, Command
<1>s. SUFFICES \A m \in Cmds : Grows(m)
  BY <1>0 DEF Reached
<1> SUFFICES ASSUME NEW m \in Cmds PROVE Grows(m)
  OBVIOUS
<1>1. CASE UNCHANGED vars
  BY <1>1 DEF vars
<1>2. ASSUME NEW n \in Cmds, NEW t \in Tags, Setup(n, t)
      PROVE  Grows(m)
  BY <1>0, <1>2 DEF Setup, Types, Command
<1>3. ASSUME NEW n \in Cmds, CountSetup(n) \/ Complete(n)
      PROVE  Grows(m)
  <2>1. CASE CountSetup(n)
    BY <1>0, <2>1 DEF CountSetup, Types, Command
  <2>2. CASE Complete(n)
    BY <1>0, <2>2 DEF Complete, Types, Command
  <2> QED
    BY <1>3, <2>1, <2>2
<1>4. ASSUME NEW n \in Cmds, CountCompletion(n)
      PROVE  Grows(m)
  BY <1>0, <1>4 DEF CountCompletion, Types, Command
<1>5. ASSUME NEW n \in Cmds, CountError(n) \/ Delete(n) \/ Timeout(n) \/ PrintTimeout(n)
      PROVE  Grows(m)
  BY <1>0, <1>5 DEF CountError, Delete, Timeout, PrintTimeout, Types, Command
<1>6. CASE Interval \/ Restart
  BY <1>6 DEF Interval, Restart
<1>7. ASSUME NEW partly \in BOOLEAN, NEW keys, Kill(partly, keys)
      PROVE  Grows(m)
  BY <1>7, KilledCommands
<1> HIDE DEF Grows
<1> QED
  BY <1>1, <1>2, <1>3, <1>4, <1>5, <1>6, <1>7 DEF Next

\* A probe adds to a map only what has just happened, and so is in no line.
LEMMA ProbeCounts ==
    ASSUME Types, CountedLate, LinesDisjoint,
           UNCHANGED <<log, pc>>,
           \A m \in Counters \cup {"tick"} : Reached(m) \subseteq Reached(m)',
           \A m \in Counters : maps'[m] \subseteq Reached(m)',
           \A m \in Kept : \A x \in maps'[m] : x \in maps[m] \/ x \notin Reached(m),
           \A n \in Cmds : cmd'[n].seen \subseteq (IF cmd'[n].at = "setup" THEN Reached("sub")' ELSE Reached("op")')
    PROVE  CountedLate' /\ LinesDisjoint'
<1>1. \A i \in DOMAIN log : log[i].map \in Counters \cup {"tick"}
  <2>1. \A i \in DOMAIN log : log[i] \in Line
    BY DEF Types
  <2> QED
    BY <2>1 DEF Line
<1>2. ASSUME NEW i \in DOMAIN log'
      PROVE  log'[i].of \subseteq Reached(log[i].map)'
  <2>1. Reached(log[i].map) \subseteq Reached(log[i].map)'
    BY <1>1 DEF Reached
  <2> QED
    BY <1>2, <2>1 DEF CountedLate
<1>3. CountedLate'
  BY <1>2 DEF CountedLate, Reached
<1>4. \A m \in Kept : \A i \in DOMAIN log :
        Unprinted(m)' /\ log[i].map = m => log[i].of \cap maps'[m] = {}
  <2> SUFFICES ASSUME NEW m \in Kept, NEW i \in DOMAIN log,
                      Unprinted(m)', log[i].map = m, NEW x \in log[i].of, x \in maps'[m]
               PROVE  FALSE
    BY DEF Unprinted
  <2>1. Unprinted(m)
    BY DEF Unprinted
  <2>2. x \in Reached(m) /\ x \notin maps[m]
    BY <2>1 DEF CountedLate, LinesDisjoint
  <2> QED
    BY <2>2
<1>5. LinesDisjoint'
  BY <1>4 DEF LinesDisjoint, Unprinted
<1> QED
  BY <1>3, <1>5

\* A line is appended that shows a map not yet printed, or part of it, or nothing.
LEMMA LineAppended ==
    ASSUME Types, CountedLate, LinesDisjoint,
           NEW m \in Counters \cup {"tick"}, NEW part \in SUBSET Cmds,
           log' = Append(log, [map |-> m, of |-> part]),
           m = "tick" => part = {},
           m # "tick" => part \subseteq maps[m] /\ Unprinted(m)
    PROVE  /\ \A i \in DOMAIN log' : log'[i].of \subseteq Reached(log'[i].map)
           /\ \A i, j \in DOMAIN log' :
                i # j /\ log'[i].map = log'[j].map /\ log'[i].map \in Kept
                  => log'[i].of \cap log'[j].of = {}
           /\ \A i \in DOMAIN log' :
                \/ i \in DOMAIN log /\ log'[i] = log[i]
                \/ i = Len(log) + 1 /\ log'[i] = [map |-> m, of |-> part]
<1> DEFINE n == Len(log)
           line == [map |-> m, of |-> part]
<1>1. /\ n \in Nat
      /\ DOMAIN log = 1 .. n
      /\ DOMAIN log' = 1 .. n + 1
      /\ \A i \in 1 .. n : log'[i] = log[i]
      /\ log'[n + 1] = line
  BY DEF Types
<1>2. line.map = m /\ line.of = part
  OBVIOUS
<1>3. \A i \in 1 .. n : log[i].map = m /\ m \in Kept => log[i].of \cap part = {}
  BY <1>1 DEF LinesDisjoint, Kept
<1>4. part \subseteq Reached(m)
  BY DEF CountedLate
<1> HIDE DEF n, line
<1>5. \A i \in DOMAIN log' : (i \in 1 .. n /\ log'[i] = log[i]) \/ (i = n + 1 /\ log'[i] = line)
  BY <1>1
<1>6. \A i \in DOMAIN log' : log'[i].of \subseteq Reached(log'[i].map)
  <2> SUFFICES ASSUME NEW i \in DOMAIN log'
               PROVE  log'[i].of \subseteq Reached(log'[i].map)
    OBVIOUS
  <2>1. CASE i \in 1 .. n /\ log'[i] = log[i]
    BY <1>1, <2>1 DEF CountedLate
  <2>2. CASE log'[i] = line
    BY <1>2, <1>4, <2>2
  <2> QED
    BY <1>5, <2>1, <2>2
<1>7. ASSUME NEW i \in DOMAIN log', NEW j \in DOMAIN log',
             i # j, log'[i].map = log'[j].map, log'[i].map \in Kept
      PROVE  log'[i].of \cap log'[j].of = {}
  <2>1. CASE i \in 1 .. n /\ j \in 1 .. n
    BY <1>1, <1>7, <2>1 DEF LinesDisjoint
  <2>2. CASE i = n + 1 /\ j \in 1 .. n
    BY <1>1, <1>2, <1>3, <1>7, <2>2
  <2>3. CASE j = n + 1 /\ i \in 1 .. n
    BY <1>1, <1>2, <1>3, <1>7, <2>3
  <2> QED
    BY <1>5, <1>7, <2>1, <2>2, <2>3
<1> QED
  BY <1>1, <1>5, <1>6, <1>7 DEF n, line

\* Submissions and completions, and what their probes do afterwards.
LEMMA ProbesCount ==
    ASSUME Types, CountedLate, LinesDisjoint, NEW n \in Cmds,
           \/ \E t \in Tags : Setup(n, t)
           \/ CountSetup(n) \/ Complete(n) \/ CountCompletion(n)
           \/ CountError(n) \/ Delete(n) \/ Timeout(n) \/ PrintTimeout(n)
    PROVE  CountedLate' /\ LinesDisjoint'
<1> DEFINE SeenLate(k) == cmd'[k].seen \subseteq (IF cmd'[k].at = "setup" THEN Reached("sub")' ELSE Reached("op")')
<1>0. cmd[n] \in Command
  BY DEF Types
<1>1. UNCHANGED <<log, pc>>
  BY DEF Setup, CountSetup, Complete, CountCompletion, CountError, Delete, Timeout, PrintTimeout
<1>2. \A m : Reached(m) \subseteq Reached(m)'
  BY ReachedGrows DEF Next
<1>3. \A m \in Counters : maps[m] \subseteq Reached(m)'
  BY <1>2 DEF CountedLate
<1>4. \A k \in Cmds \ {n} : cmd'[k] = cmd[k]
  BY DEF Setup, CountSetup, Complete, CountCompletion, CountError, Delete, Timeout, PrintTimeout, Types
<1>5. \A k \in Cmds \ {n} : SeenLate(k)
  BY <1>2, <1>4 DEF CountedLate
<1>r. ASSUME NEW m \in Counters
      PROVE  Read(m, n) \subseteq Reached(m)'
  BY <1>3 DEF Read
<1>6. CASE \E t \in Tags : Setup(n, t)
  <2>1. PICK t \in Tags : Setup(n, t)
    BY <1>6
  <2>2. /\ maps' = maps
        /\ up => cmd'[n].at = "setup" /\ cmd'[n].seen = Read("sub", n)
        /\ ~up => cmd'[n].seen = {}
    BY <1>0, <2>1 DEF Setup, Types, Command
  <2>3. SeenLate(n)
    BY <1>r, <2>2 DEF Counters
  <2> QED
    BY <1>1, <1>2, <1>3, <1>5, <2>2, <2>3, ProbeCounts
<1>7. CASE CountSetup(n)
  <2>1. cmd[n].at = "setup" /\ cmd'[n].at = "live" /\ cmd'[n].seen = {}
    BY <1>0, <1>7 DEF CountSetup, Types, Command
  <2>2. /\ n \in Reached("sub")' /\ n \in Reached("proc")'
        /\ n \notin Reached("proc")
        /\ cmd[n].seen \subseteq Reached("sub")'
    BY <1>2, <2>1 DEF Reached, CountedLate
  <2>3. Stored("sub", n) \subseteq maps["sub"] \cup cmd[n].seen \cup {n}
    BY StoredType DEF Counters
  <2>4. /\ maps'["sub"] = Stored("sub", n) /\ maps'["proc"] = maps["proc"] \cup {n}
        /\ \A m \in Counters \ {"sub", "proc"} : maps'[m] = maps[m]
    BY <1>7 DEF CountSetup, Types, Counters
  <2>5. \A m \in Counters : maps'[m] \subseteq Reached(m)'
    <3>1. maps'["sub"] \subseteq Reached("sub")' /\ maps'["proc"] \subseteq Reached("proc")'
      BY <1>3, <2>2, <2>3, <2>4 DEF Counters
    <3> QED
      BY <1>3, <2>4, <3>1
  <2>6. \A m \in Kept : \A x \in maps'[m] : x \in maps[m] \/ x \notin Reached(m)
    BY <2>2, <2>4 DEF Kept, Counters
  <2>7. SeenLate(n)
    BY <2>1
  <2> QED
    BY <1>1, <1>2, <1>5, <2>5, <2>6, <2>7, ProbeCounts
<1>8. CASE Complete(n)
  <2>1. /\ maps' = maps /\ cmd'[n].at # "setup"
        /\ cmd'[n].seen \subseteq Read("op", n)
    BY <1>0, <1>8 DEF Complete, Types, Command
  <2>2. SeenLate(n)
    BY <1>r, <2>1 DEF Counters
  <2> QED
    BY <1>1, <1>2, <1>3, <1>5, <2>1, <2>2, ProbeCounts
<1>9. CASE CountCompletion(n)
  <2>1. /\ cmd[n].at = "count" /\ cmd'[n].at \in {"error", "delete"}
        /\ cmd'[n].seen \subseteq Read("err", n)
    BY <1>0, <1>9 DEF CountCompletion, Types, Command
  <2>2. /\ \A m : n \in Reached(m)'
        /\ n \notin Reached("hist")
        /\ cmd[n].seen \subseteq Reached("op")'
    BY <1>2, <2>1 DEF Reached, CountedLate
  <2>3. Stored("op", n) \subseteq maps["op"] \cup cmd[n].seen \cup {n}
    BY StoredType DEF Counters
  <2>4. /\ maps'["op"] \subseteq maps["op"] \cup cmd[n].seen \cup {n}
        /\ maps'["hist"] \subseteq maps["hist"] \cup {n}
        /\ \A m \in Counters \ {"op", "hist"} : maps'[m] = maps[m]
    <3>1. CASE n \in started
      <4>1. maps' = [maps EXCEPT !["op"] = Stored("op", n), !["hist"] = @ \cup {n}]
        BY <1>9, <3>1 DEF CountCompletion
      <4> QED
        BY <2>3, <4>1 DEF Types, Counters
    <3>2. CASE n \notin started
      BY <1>9, <3>2 DEF CountCompletion
    <3> QED
      BY <3>1, <3>2
  <2>5. \A m \in Counters : maps'[m] \subseteq Reached(m)'
    <3>1. maps'["op"] \subseteq Reached("op")' /\ maps'["hist"] \subseteq Reached("hist")'
      BY <1>3, <2>2, <2>4 DEF Counters
    <3> QED
      BY <1>3, <2>4, <3>1
  <2>6. \A m \in Kept : \A x \in maps'[m] : x \in maps[m] \/ x \notin Reached(m)
    BY <2>2, <2>4 DEF Kept, Counters
  <2>7. SeenLate(n)
    <3>1. Reached("err")' = Reached("op")'
      BY DEF Reached
    <3> QED
      BY <1>r, <2>1, <3>1 DEF Counters
  <2> QED
    BY <1>1, <1>2, <1>5, <2>5, <2>6, <2>7, ProbeCounts
<1>10. CASE CountError(n)
  <2>1. cmd[n].at = "error" /\ cmd'[n].at = "delete" /\ cmd'[n].seen = {}
    BY <1>0, <1>10 DEF CountError, Types, Command
  <2>2. n \in Reached("err")' /\ cmd[n].seen \subseteq Reached("err")'
    <3>1. Reached("err")' = Reached("op")'
      BY DEF Reached
    <3> QED
      BY <1>2, <2>1, <3>1 DEF Reached, CountedLate
  <2>3. Stored("err", n) \subseteq maps["err"] \cup cmd[n].seen \cup {n}
    BY StoredType DEF Counters
  <2>4. maps'["err"] = Stored("err", n) /\ \A m \in Counters \ {"err"} : maps'[m] = maps[m]
    BY <1>10 DEF CountError, Types, Counters
  <2>5. \A m \in Counters : maps'[m] \subseteq Reached(m)'
    <3>1. maps'["err"] \subseteq Reached("err")'
      BY <1>3, <2>2, <2>3, <2>4 DEF Counters
    <3> QED
      BY <1>3, <2>4, <3>1
  <2>6. \A m \in Kept : \A x \in maps'[m] : x \in maps[m] \/ x \notin Reached(m)
    BY <2>4 DEF Kept, Counters
  <2>7. SeenLate(n)
    BY <2>1
  <2> QED
    BY <1>1, <1>2, <1>5, <2>5, <2>6, <2>7, ProbeCounts
<1>11. CASE Delete(n) \/ Timeout(n) \/ PrintTimeout(n)
  <2>1. /\ maps' = maps /\ cmd'[n].seen = cmd[n].seen
        /\ cmd'[n].at = "setup" <=> cmd[n].at = "setup"
    BY <1>0, <1>11 DEF Delete, Timeout, PrintTimeout, Types, Command
  <2>2. SeenLate(n)
    BY <1>2, <2>1 DEF CountedLate
  <2> QED
    BY <1>1, <1>2, <1>3, <1>5, <2>1, <2>2, ProbeCounts
<1> QED
  BY <1>6, <1>7, <1>8, <1>9, <1>10, <1>11

\* A map is printed when no line shows it yet, and is not again before it is cleared.
LEMMA IntervalCounts ==
    ASSUME Types, CountedLate, LinesDisjoint, Interval
    PROVE  CountedLate' /\ LinesDisjoint'
<1>0. UNCHANGED cmd /\ pc' = IF pc = 10 THEN 1 ELSE pc + 1
  BY IntervalSteps
<1>1. ASSUME NEW m \in Counters \cup {"tick"}, Show(m),
             m # "tick" => Unprinted(m),
             \A k \in Kept : Unprinted(k)' => Unprinted(k) /\ k # m
      PROVE  CountedLate' /\ LinesDisjoint'
  <2> DEFINE part == IF m = "tick" THEN {} ELSE maps[m]
  <2>1. log' = Append(log, [map |-> m, of |-> part]) /\ maps' = maps
    BY <1>1 DEF Show, Tick
  <2>2. part \in SUBSET Cmds /\ (m # "tick" => part \subseteq maps[m])
    <3>1. m # "tick" => maps[m] \in SUBSET Cmds
      BY DEF Types
    <3> QED
      BY <3>1
  <2>3. m = "tick" => part = {}
    OBVIOUS
  <2> HIDE DEF part
  <2>4. /\ \A i \in DOMAIN log' : log'[i].of \subseteq Reached(log'[i].map)
        /\ \A i, j \in DOMAIN log' :
             i # j /\ log'[i].map = log'[j].map /\ log'[i].map \in Kept
               => log'[i].of \cap log'[j].of = {}
        /\ \A i \in DOMAIN log' :
             \/ i \in DOMAIN log /\ log'[i] = log[i]
             \/ i = Len(log) + 1 /\ log'[i] = [map |-> m, of |-> part]
    BY <1>1, <2>1, <2>2, <2>3, LineAppended
  <2>5. CountedLate'
    BY <1>0, <2>1, <2>4 DEF CountedLate, Reached
  <2>6. ASSUME NEW k \in Kept, NEW i \in DOMAIN log', Unprinted(k)', log'[i].map = k
        PROVE  log'[i].of \cap maps'[k] = {}
    <3>1. Unprinted(k) /\ k # m
      BY <1>1, <2>6
    <3>2. i \in DOMAIN log /\ log'[i] = log[i]
      BY <2>4, <2>6, <3>1
    <3> QED
      BY <2>1, <2>6, <3>1, <3>2 DEF LinesDisjoint
  <2> QED
    BY <2>4, <2>5, <2>6 DEF LinesDisjoint, Unprinted
<1>2. ASSUME NEW m \in Counters, Clear(m),
             \A k \in Kept \ {m} : Unprinted(k)' => Unprinted(k)
      PROVE  CountedLate' /\ LinesDisjoint'
  <2>1. log' = log /\ maps'[m] = {} /\ \A k \in Counters \ {m} : maps'[k] = maps[k]
    BY <1>2 DEF Clear, Types
  <2>2. CountedLate'
    BY <1>0, <2>1 DEF CountedLate, Reached
  <2>3. ASSUME NEW k \in Kept, NEW i \in DOMAIN log, Unprinted(k)', log[i].map = k
        PROVE  log[i].of \cap maps'[k] = {}
    BY <1>2, <2>1, <2>3 DEF LinesDisjoint, Kept, Counters
  <2> QED
    BY <2>1, <2>2, <2>3 DEF LinesDisjoint, Unprinted
<1>3. pc = 1 \/ pc = 2 \/ pc = 3 \/ pc = 4 \/ pc = 5 \/ pc = 6 \/ pc = 7 \/ pc = 8 \/ pc = 9 \/ pc = 10
  BY DEF Types
<1>4. CASE pc = 1
  <2>1. Show("op") /\ Unprinted("op") /\ pc' = 2
    BY <1>0, <1>4, IntervalSteps DEF Unprinted
  <2>2. \A k \in Kept : Unprinted(k)' => Unprinted(k) /\ k # "op"
    BY <1>4, <2>1 DEF Unprinted, Kept
  <2> QED
    BY <1>1, <2>1, <2>2 DEF Counters
<1>5. CASE pc = 2
  <2>1. Show("sub") /\ Unprinted("sub") /\ pc' = 3
    BY <1>0, <1>5, IntervalSteps DEF Unprinted
  <2>2. \A k \in Kept : Unprinted(k)' => Unprinted(k) /\ k # "sub"
    BY <1>5, <2>1 DEF Unprinted, Kept
  <2> QED
    BY <1>1, <2>1, <2>2 DEF Counters
<1>6. CASE pc = 3
  <2>1. Show("hist") /\ Unprinted("hist") /\ pc' = 4
    BY <1>0, <1>6, IntervalSteps DEF Unprinted
  <2>2. \A k \in Kept : Unprinted(k)' => Unprinted(k) /\ k # "hist"
    BY <1>6, <2>1 DEF Unprinted, Kept
  <2> QED
    BY <1>1, <2>1, <2>2 DEF Counters
<1>7. CASE pc = 4
  <2>1. Show("err") /\ Unprinted("err") /\ pc' = 5
    BY <1>0, <1>7, IntervalSteps DEF Unprinted
  <2>2. \A k \in Kept : Unprinted(k)' => Unprinted(k) /\ k # "err"
    BY <1>7, <2>1 DEF Unprinted, Kept
  <2> QED
    BY <1>1, <2>1, <2>2 DEF Counters
<1>8. CASE pc = 5
  <2>1. Show("proc") /\ Unprinted("proc") /\ pc' = 6
    BY <1>0, <1>8, IntervalSteps DEF Unprinted
  <2>2. \A k \in Kept : Unprinted(k)' => Unprinted(k) /\ k # "proc"
    BY <1>8, <2>1 DEF Unprinted, Kept
  <2> QED
    BY <1>1, <2>1, <2>2 DEF Counters
<1>9. CASE pc = 6
  <2>1. Show("tick") /\ pc' = 7
    BY <1>0, <1>9, IntervalSteps DEF Unprinted
  <2>2. \A k \in Kept : Unprinted(k)' => Unprinted(k) /\ k # "tick"
    BY <1>9, <2>1 DEF Unprinted, Kept
  <2> QED
    BY <1>1, <2>1, <2>2 DEF Counters
<1>10. CASE pc = 7
  <2>1. Clear("op") /\ pc' = 8
    BY <1>0, <1>10, IntervalSteps
  <2>2. \A k \in Kept \ {"op"} : Unprinted(k)' => Unprinted(k)
    BY <1>10, <2>1 DEF Unprinted, Kept
  <2> QED
    BY <1>2, <2>1, <2>2 DEF Counters
<1>11. CASE pc = 8
  <2>1. Clear("sub") /\ pc' = 9
    BY <1>0, <1>11, IntervalSteps
  <2>2. \A k \in Kept \ {"sub"} : Unprinted(k)' => Unprinted(k)
    BY <1>11, <2>1 DEF Unprinted, Kept
  <2> QED
    BY <1>2, <2>1, <2>2 DEF Counters
<1>12. CASE pc = 9
  <2>1. Clear("hist") /\ pc' = 10
    BY <1>0, <1>12, IntervalSteps
  <2>2. \A k \in Kept \ {"hist"} : Unprinted(k)' => Unprinted(k)
    BY <1>12, <2>1 DEF Unprinted, Kept
  <2> QED
    BY <1>2, <2>1, <2>2 DEF Counters
<1>13. CASE pc = 10
  <2>1. Clear("proc") /\ pc' = 1
    BY <1>0, <1>13, IntervalSteps
  <2>2. \A k \in Kept \ {"proc"} : Unprinted(k)' => Unprinted(k)
    BY <1>13, <2>1 DEF Unprinted, Kept
  <2> QED
    BY <1>2, <2>1, <2>2 DEF Counters
<1> QED
  BY <1>3, <1>4, <1>5, <1>6, <1>7, <1>8, <1>9, <1>10, <1>11, <1>12, <1>13

\* A kill inside a print leaves a part of a map that nobody prints again.
LEMMA KillCounts ==
    ASSUME Types, CountedLate, LinesDisjoint, NEW partly \in BOOLEAN, NEW keys \in SUBSET AllKeys, Kill(partly, keys)
    PROVE  CountedLate' /\ LinesDisjoint'
<1>1. \A m \in Counters : maps'[m] = {}
  BY DEF Kill, Blank
<1>2. \A m : Reached(m) \subseteq Reached(m)'
  BY KilledCommands DEF Reached, Types, Command
<1>3. \A n \in Cmds : cmd'[n].seen = {}
  BY KilledCommands
<1>4. /\ \A i \in DOMAIN log' : log'[i].map \in Counters \cup {"tick"} /\ log'[i].of \subseteq Reached(log'[i].map)
      /\ \A i, j \in DOMAIN log' :
           i # j /\ log'[i].map = log'[j].map /\ log'[i].map \in Kept
             => log'[i].of \cap log'[j].of = {}
  <2>0. \A i \in DOMAIN log : log[i].map \in Counters \cup {"tick"}
    <3>1. \A i \in DOMAIN log : log[i] \in Line
      BY DEF Types
    <3> QED
      BY <3>1 DEF Line
  <2>1. CASE log' = log
    BY <2>0, <2>1 DEF CountedLate, LinesDisjoint
  <2>2. ASSUME NEW m \in Counters, NEW part \in SUBSET Cmds,
               part \subseteq maps[m],
               log' = Append(log, [map |-> m, of |-> part]),
               m = "hist" => pc = 3, m = "proc" => pc = 5
        PROVE  /\ \A i \in DOMAIN log' : log'[i].map \in Counters \cup {"tick"} /\ log'[i].of \subseteq Reached(log'[i].map)
               /\ \A i, j \in DOMAIN log' :
                    i # j /\ log'[i].map = log'[j].map /\ log'[i].map \in Kept
                      => log'[i].of \cap log'[j].of = {}
    <3>1. Unprinted(m) /\ m # "tick"
      BY <2>2 DEF Unprinted, Counters
    <3>2. /\ \A i \in DOMAIN log' : log'[i].of \subseteq Reached(log'[i].map)
          /\ \A i, j \in DOMAIN log' :
               i # j /\ log'[i].map = log'[j].map /\ log'[i].map \in Kept
                 => log'[i].of \cap log'[j].of = {}
          /\ \A i \in DOMAIN log' :
               \/ i \in DOMAIN log /\ log'[i] = log[i]
               \/ i = Len(log) + 1 /\ log'[i] = [map |-> m, of |-> part]
      BY <2>2, <3>1, LineAppended
    <3> QED
      BY <2>0, <3>2
  <2> QED
    BY <2>1, <2>2, KillSteps
<1>5. CountedLate'
  BY <1>1, <1>2, <1>3, <1>4 DEF CountedLate, Reached
<1>6. LinesDisjoint'
  BY <1>1, <1>4 DEF LinesDisjoint, Kept, Counters
<1> QED
  BY <1>5, <1>6

LEMMA CountStep ==
    ASSUME Types, CountedLate, LinesDisjoint, [Next]_vars
    PROVE  CountedLate' /\ LinesDisjoint'
<1>1. CASE UNCHANGED vars \/ Restart
  BY <1>1 DEF vars, Restart, CountedLate, LinesDisjoint, Reached, Unprinted
<1>2. ASSUME NEW keys \in SUBSET AllKeys, Kill(TRUE, keys) \/ Kill(FALSE, {})
      PROVE  CountedLate' /\ LinesDisjoint'
  BY <1>2, KillCounts
<1> QED
  BY <1>1, <1>2, ProbesCount, IntervalCounts DEF Next

\* What the invariants say of the last line is CountedOnce.
LEMMA DisjointIsOnce ==
    ASSUME Types, CountedLate, LinesDisjoint
    PROVE  CountedOnce
<1> SUFFICES ASSUME log # <<>>
             PROVE  /\ \A n \in Last(log).of : cmd[n].at # "new"
                    /\ \A l \in ToSet(Front(log)) :
                         l.map = Last(log).map /\ Last(log).map \in Kept => l.of \cap Last(log).of = {}
  BY DEF CountedOnce, Kept
<1> DEFINE n == Len(log)
<1>1. n \in Nat \ {0} /\ DOMAIN log = 1 .. n /\ Last(log) = log[n]
  BY DEF Types, Last
<1>2. \A l \in ToSet(Front(log)) : \E i \in 1 .. n - 1 : l = log[i]
  BY <1>1 DEF Types, Front, ToSet
<1> HIDE DEF n
<1> QED
  BY <1>1, <1>2 DEF CountedLate, LinesDisjoint, Reached

\* However the probes of other CPUs interleave with the prints and clears, and wherever
\* a kill falls, no line of a map that count() or hist() keeps shows a command an earlier
\* line of it has shown, and no line shows one before it has happened.
THEOREM CommandsCountedOnce == Spec => []CountedOnce
<1>1. Init => CountedLate /\ LinesDisjoint
  BY DEF Init, CountedLate, LinesDisjoint, Blank, Kept, Counters
<1>2. Types /\ CacheIsOwn /\ CountedLate /\ LinesDisjoint /\ [Next]_vars
        => (Types /\ CacheIsOwn /\ CountedLate /\ LinesDisjoint)'
  BY OwnStep, CountStep
<1>3. Types /\ CountedLate /\ LinesDisjoint => CountedOnce
  BY DisjointIsOnce
<1> QED
  BY <1>1, <1>2, <1>3, OwnInit, PTL DEF Spec

-----------------------------------------------------------------------------
(* Pieces of the log. *)

\* A finite set of numbers has a greatest and a least one: the members not below
\* (not above) a member are fewest there.
LEMMA MaxMin ==
    ASSUME NEW T, T \subseteq Int, T # {}, IsFiniteSet(T)
    PROVE  /\ Max(T) \in T /\ \A y \in T : Max(T) >= y
           /\ Min(T) \in T /\ \A y \in T : Min(T) <= y
<1> DEFINE Above(t) == {y \in T : y >= t}
           Below(t) == {y \in T : y <= t}
           F == {Above(t) : t \in T}
           G == {Below(t) : t \in T}
           R == StrictSubsetOrdering(T)
           S == FiniteSubsetsOf(T)
<1>1. F \subseteq S /\ F # {} /\ G \subseteq S /\ G # {}
  <2>1. \A t \in T : Above(t) \in S /\ Below(t) \in S
    <3> TAKE t \in T
    <3>1. Above(t) \in SUBSET T /\ Below(t) \in SUBSET T
      OBVIOUS
    <3> HIDE DEF Above, Below
    <3>2. IsFiniteSet(Above(t)) /\ IsFiniteSet(Below(t))
      BY <3>1, FS_Subset
    <3> QED
      BY <3>1, <3>2 DEF FiniteSubsetsOf
  <2> HIDE DEF Above, Below, S
  <2> QED
    BY <2>1
<1>2. IsWellFoundedOn(R, S)
  BY FS_StrictSubsetOrderingWellFounded
<1>3. \A u, v \in SUBSET T : u \subseteq v /\ u # v => <<u, v>> \in R
  BY DEF StrictSubsetOrdering
<1>4. PICK a \in F : \A b \in F : ~(<<b, a>> \in R)
  <2> HIDE DEF F, G, R, S
  <2> QED
    BY <1>1, <1>2, WFMin
<1>5. PICK c \in G : \A b \in G : ~(<<b, c>> \in R)
  <2> HIDE DEF F, G, R, S
  <2> QED
    BY <1>1, <1>2, WFMin
<1>6. PICK x \in T : a = Above(x)
  BY <1>4
<1>7. PICK z \in T : c = Below(z)
  BY <1>5
<1>8. ASSUME NEW y \in T, ~(x >= y)
      PROVE  FALSE
  <2>0. x \in Int /\ y \in Int /\ x < y /\ \A w \in T : w \in Int
    BY <1>8
  <2>1. Above(y) \in F /\ Above(y) \subseteq Above(x) /\ x \in Above(x) /\ x \notin Above(y)
    <3>1. Above(y) \in F
      OBVIOUS
    <3>2. \A w \in T : w >= y => w >= x
      BY <2>0
    <3>3. x >= x /\ ~(x >= y)
      BY <2>0
    <3> QED
      BY <3>1, <3>2, <3>3
  <2>2. <<Above(y), a>> \in R
    <3>1. Above(y) \in SUBSET T /\ Above(x) \in SUBSET T
      OBVIOUS
    <3> HIDE DEF Above, R
    <3> QED
      BY <1>6, <1>3, <2>1, <3>1
  <2> QED
    BY <1>4, <2>1, <2>2
<1>9. ASSUME NEW y \in T, ~(z <= y)
      PROVE  FALSE
  <2>0. z \in Int /\ y \in Int /\ y < z /\ \A w \in T : w \in Int
    BY <1>9
  <2>1. Below(y) \in G /\ Below(y) \subseteq Below(z) /\ z \in Below(z) /\ z \notin Below(y)
    <3>1. Below(y) \in G
      OBVIOUS
    <3>2. \A w \in T : w <= y => w <= z
      BY <2>0
    <3>3. z <= z /\ ~(z <= y)
      BY <2>0
    <3> QED
      BY <3>1, <3>2, <3>3
  <2>2. <<Below(y), c>> \in R
    <3>1. Below(y) \in SUBSET T /\ Below(z) \in SUBSET T
      OBVIOUS
    <3> HIDE DEF Below, R
    <3> QED
      BY <1>7, <1>3, <2>1, <3>1
  <2> QED
    BY <1>5, <2>1, <2>2
<1>10. (\E u \in T : \A y \in T : u >= y) /\ (\E u \in T : \A y \in T : u <= y)
  BY <1>8, <1>9
<1>11. Max(T) \in T /\ \A y \in T : Max(T) >= y
  BY <1>10 DEF Max
<1>12. Min(T) \in T /\ \A y \in T : Min(T) <= y
  BY <1>10 DEF Min
<1> QED
  BY <1>11, <1>12

\* t is a piece of s: its lines are lines of s, each at another place.
Piece(t, s) ==
    /\ t \in Seq(Line)
    /\ \E d \in Int : \A i \in DOMAIN t : i + d \in DOMAIN s /\ t[i] = s[i + d]

\* What SubSeq cuts out is a piece.
LEMMA CutIsPiece ==
    ASSUME NEW s \in Seq(Line), NEW m \in Int, NEW n \in Int, m >= 1, n <= Len(s)
    PROVE  Piece(SubSeq(s, m, n), s)
<1> DEFINE cut == SubSeq(s, m, n)
           l == Len(s)
<1>1. l \in Nat /\ DOMAIN s = 1 .. l /\ \A i \in 1 .. l : s[i] \in Line
  OBVIOUS
<1> HIDE DEF l
<1>2. \A i \in m .. n : i \in DOMAIN s /\ s[i] \in Line
  BY <1>1 DEF l
<1>3. /\ cut \in Seq(Line)
      /\ Len(cut) = IF m <= n THEN n - m + 1 ELSE 0
      /\ \A i \in 1 .. n - m + 1 : cut[i] = s[m + i - 1]
  BY <1>2, SubSeqProperties
<1> HIDE DEF cut
<1>4. DOMAIN cut = 1 .. Len(cut)
  BY <1>3, LenProperties
<1>5. ASSUME NEW i \in DOMAIN cut
      PROVE  i + (m - 1) \in DOMAIN s /\ cut[i] = s[i + (m - 1)]
  <2>0. Len(cut) \in Int /\ i \in 1 .. Len(cut)
    BY <1>3, <1>4, <1>5
  <2>2. m <= n /\ Len(cut) = n - m + 1
    BY <1>3, <2>0
  <2>1. i \in 1 .. n - m + 1 /\ m + i - 1 \in m .. n /\ i + (m - 1) = m + i - 1
    BY <2>0, <2>2
  <2> QED
    BY <1>2, <1>3, <2>1
<1>6. m - 1 \in Int
  OBVIOUS
<1> QED
  BY <1>3, <1>5, <1>6 DEF cut, Piece

\* A piece of a piece is a piece.
LEMMA PieceOfPiece ==
    ASSUME NEW s, NEW t, NEW u, Piece(t, s), Piece(u, t)
    PROVE  Piece(u, s)
<1>1. PICK d \in Int : \A i \in DOMAIN t : i + d \in DOMAIN s /\ t[i] = s[i + d]
  BY DEF Piece
<1>2. PICK e \in Int : \A i \in DOMAIN u : i + e \in DOMAIN t /\ u[i] = t[i + e]
  BY DEF Piece
<1>3. ASSUME NEW i \in DOMAIN u
      PROVE  i + (e + d) \in DOMAIN s /\ u[i] = s[i + (e + d)]
  <2>1. i \in Int
    BY DEF Piece
  <2>2. (i + e) + d = i + (e + d)
    BY <2>1
  <2> QED
    BY <1>1, <1>2, <2>2
<1>4. e + d \in Int
  OBVIOUS
<1> QED
  BY <1>3, <1>4 DEF Piece

\* read_tail and the last complete tick are pieces of the log.
LEMMA TailIsPiece ==
    ASSUME NEW s \in Seq(Line)
    PROVE  Piece(ReadTail(s), s)
<1> DEFINE T == {1, Len(s) - TailLines + 1}
<1>1. T \subseteq Int /\ T # {} /\ IsFiniteSet(T) /\ 1 \in T
  <2>1. Len(s) \in Nat /\ TailLines \in Nat
    BY CollectorAssumption
  <2>2. IsFiniteSet({1} \cup {Len(s) - TailLines + 1})
    BY FS_Singleton, FS_AddElement
  <2>3. T = {1} \cup {Len(s) - TailLines + 1} /\ 1 \in T
    OBVIOUS
  <2>4. IsFiniteSet(T)
    BY <2>2, <2>3
  <2>5. T \subseteq Int
    BY <2>1
  <2> HIDE DEF T
  <2> QED
    BY <2>3, <2>4, <2>5
<1> HIDE DEF T
<1>2. Max(T) \in Int /\ Max(T) >= 1
  BY <1>1, MaxMin
<1>3. Len(s) \in Int /\ Len(s) <= Len(s)
  OBVIOUS
<1>4. ReadTail(s) = SubSeq(s, Max(T), Len(s))
  BY DEF ReadTail, T
<1> QED
  BY <1>2, <1>3, <1>4, CutIsPiece

LEMMA TickIsPiece ==
    ASSUME NEW s \in Seq(Line)
    PROVE  Piece(LastCompleteTick(s), s)
<1> DEFINE M == TickMarks(s)
           l == Len(s)
<1>1. l \in Nat /\ M \subseteq 1 .. l /\ IsFiniteSet(M) /\ M \subseteq Int
  <2>1. l \in Nat
    OBVIOUS
  <2>2. M \in SUBSET (1 .. l)
    BY DEF TickMarks
  <2> HIDE DEF M, l
  <2>3. IsFiniteSet(1 .. l)
    BY <2>1, FS_Interval
  <2>4. IsFiniteSet(M)
    BY <2>2, <2>3, FS_Subset
  <2>5. M \subseteq Int
    BY <2>1, <2>2
  <2> QED
    BY <2>1, <2>2, <2>4, <2>5
<1>2. CASE M = {}
  <2>1. LastCompleteTick(s) = <<>>
    BY <1>2 DEF LastCompleteTick
  <2> QED
    BY <2>1 DEF Piece
<1>3. CASE M # {}
  <2> DEFINE end == Max(M)
             N == {0} \cup (M \ {end})
             begin == Max(N)
  <2>1. end \in 1 .. l
    <3> HIDE DEF M
    <3> QED
      BY <1>1, <1>3, MaxMin
  <2>2. N \subseteq Int /\ N # {} /\ IsFiniteSet(N) /\ 0 \in N
    <3> HIDE DEF M, end
    <3>1. IsFiniteSet(M \ {end}) /\ IsFiniteSet({0})
      BY <1>1, FS_Subset, FS_Singleton
    <3>2. IsFiniteSet(N)
      BY <3>1, FS_Union
    <3>3. M \subseteq Int
      BY <1>1
    <3>5. 0 \in N /\ \A x \in N : x = 0 \/ x \in M
      OBVIOUS
    <3>4. N \subseteq Int /\ 0 \in N
      <4>1. ASSUME NEW x \in N PROVE x \in Int
        <5>1. CASE x = 0
          BY <5>1
        <5>2. CASE x \in M
          BY <3>3, <5>2
        <5> QED
          BY <3>5, <4>1, <5>1, <5>2
      <4> HIDE DEF N
      <4> QED
        BY <3>5, <4>1
    <3> QED
      BY <3>2, <3>4
  <2>3. begin \in Int /\ begin >= 0
    <3> HIDE DEF N
    <3> QED
      BY <2>2, MaxMin
  <2>4. LastCompleteTick(s) = SubSeq(s, begin + 1, end - 1)
    BY <1>3 DEF LastCompleteTick
  <2>5. begin + 1 \in Int /\ end - 1 \in Int /\ begin + 1 >= 1 /\ end - 1 <= Len(s)
    <3> HIDE DEF begin, end
    <3> QED
      BY <1>1, <2>1, <2>3
  <2> HIDE DEF begin, end
  <2> QED
    BY <2>4, <2>5, CutIsPiece
<1> QED
  BY <1>2, <1>3

-----------------------------------------------------------------------------
(* What the readers report of a tick. *)

\* No two lines of a map show the same command, and only what has happened.
GoodLines(t) ==
    /\ t \in Seq(Line)
    /\ \A i, j \in DOMAIN t :
         i # j /\ t[i].map = t[j].map /\ t[i].map \in Kept => t[i].of \cap t[j].of = {}
    /\ \A i \in DOMAIN t : t[i].of \subseteq Reached(t[i].map)

\* The lines of a piece are at different places of the log.
LEMMA PieceIsGood ==
    ASSUME CountedLate, LinesDisjoint, NEW t, Piece(t, log)
    PROVE  GoodLines(t)
<1>1. PICK d \in Int : \A i \in DOMAIN t : i + d \in DOMAIN log /\ t[i] = log[i + d]
  BY DEF Piece
<1>2. t \in Seq(Line) /\ \A i \in DOMAIN t : i \in Int
  BY DEF Piece
<1>3. ASSUME NEW i \in DOMAIN t, NEW j \in DOMAIN t, i # j,
             t[i].map = t[j].map, t[i].map \in Kept
      PROVE  t[i].of \cap t[j].of = {}
  <2>1. i + d # j + d
    BY <1>2, <1>3
  <2> QED
    BY <1>1, <1>3, <2>1 DEF LinesDisjoint
<1>4. \A i \in DOMAIN t : t[i].of \subseteq Reached(t[i].map)
  BY <1>1 DEF CountedLate
<1> QED
  BY <1>2, <1>3, <1>4 DEF GoodLines

\* The members of sets side by side.
LEMMA AddedIs ==
    ASSUME NEW parts
    PROVE  \A s : s \in Added(parts) <=> \E k \in DOMAIN parts : \E x \in parts[k] : s = <<k, x>>
BY DEF Added

\* Disjoint sets side by side are their union.
LEMMA AddedCounts ==
    ASSUME NEW parts, NEW W, IsFiniteSet(W),
           \A k \in DOMAIN parts : parts[k] \subseteq W,
           \A j, k \in DOMAIN parts : j # k => parts[j] \cap parts[k] = {}
    PROVE  /\ [s \in Added(parts) |-> s[2]]
                \in Bijection(Added(parts), UNION {parts[k] : k \in DOMAIN parts})
           /\ Cardinality(Added(parts)) <= Cardinality(W)
<1> DEFINE A == Added(parts)
           U == UNION {parts[k] : k \in DOMAIN parts}
           f == [s \in A |-> s[2]]
<1>1. \A s : s \in A <=> \E k \in DOMAIN parts : \E x \in parts[k] : s = <<k, x>>
  BY AddedIs
<1> HIDE DEF A
<1>2. \A u : u \in U <=> \E k \in DOMAIN parts : u \in parts[k]
  OBVIOUS
<1> HIDE DEF U
<1>3. \A s \in A : s[2] \in U
  BY <1>1, <1>2
<1>4. \A s, t \in A : s[2] = t[2] => s = t
  BY <1>1
<1>5. \A u \in U : \E s \in A : s[2] = u
  <2> TAKE u \in U
  <2>1. PICK k \in DOMAIN parts : u \in parts[k]
    BY <1>2
  <2>2. <<k, u>> \in A /\ <<k, u>>[2] = u
    BY <1>1, <2>1
  <2> QED
    BY <2>2
<1>6. f \in [A -> U]
  BY <1>3
<1>7. f \in Injection(A, U) /\ f \in Surjection(A, U)
  BY <1>4, <1>5, <1>6 DEF Injection, Surjection, IsInjective
<1>8. U \in SUBSET W
  BY <1>2
<1>9. IsFiniteSet(U) /\ Cardinality(U) <= Cardinality(W)
  BY <1>8, FS_Subset
<1> HIDE DEF f
<1>10. Cardinality(A) <= Cardinality(U) /\ IsFiniteSet(A)
  BY <1>7, <1>9, FS_Injection
<1>11. Cardinality(A) \in Nat /\ Cardinality(U) \in Nat /\ Cardinality(W) \in Nat
  BY <1>9, <1>10, FS_CardinalityType
<1>12. Cardinality(A) <= Cardinality(W)
  BY <1>9, <1>10, <1>11
<1> QED
  BY <1>7, <1>12 DEF A, U, f, Bijection

\* As many are related to the members of a part as are in the part.
LEMMA SameSize ==
    ASSUME NEW H, NEW X, IsFiniteSet(X), NEW k \in Bijection(H, X), NEW P \in SUBSET X
    PROVE  Cardinality({h \in H : k[h] \in P}) = Cardinality(P) /\ IsFiniteSet(H)
<1> DEFINE G == {h \in H : k[h] \in P}
           g == [h \in G |-> k[h]]
<1>1. /\ k \in [H -> X] /\ \A a, b \in H : k[a] = k[b] => a = b
      /\ \A x \in X : \E h \in H : k[h] = x
  BY DEF Bijection, Injection, Surjection, IsInjective
<1>2. g \in [G -> P]
  BY <1>1
<1>3. g \in Injection(G, P) /\ g \in Surjection(G, P)
  BY <1>1, <1>2 DEF Injection, Surjection, IsInjective
<1>4. IsFiniteSet(P) /\ IsFiniteSet(H)
  BY FS_Subset, FS_Injection DEF Bijection
<1> HIDE DEF g, G
<1>5. Cardinality(G) = Cardinality(P)
  BY <1>3, <1>4, FS_Injection
<1> QED
  BY <1>4, <1>5 DEF G

\* A percentile of a histogram whose samples are those of a set of commands is the
\* least bound that covers its share of them.
LEMMA PercentileCovers ==
    ASSUME NEW H, NEW hist \in [H -> Nat], NEW X, IsFiniteSet(X), NEW k \in Bijection(H, X),
           \A h \in H : hist[h] = BucketOf[k[h]], NEW p \in Quantiles
    PROVE  Covers(Percentile(hist, p), X, p)
<1> DEFINE Up(x) == {n \in X : BucketOf[n] <= x}
           T == Cardinality(X)
           R == Range(hist)
           G == {b \in R : UpTo(hist, b) * 1000 >= p * T}
<1>1. p \in Nat /\ p <= 1000 /\ DOMAIN hist = H
  BY DEF Quantiles
<1>2. /\ k \in [H -> X] /\ \A x \in X : \E h \in H : k[h] = x
  BY DEF Bijection, Surjection
<1>3. Total(hist) = T /\ T \in Nat /\ IsFiniteSet(H)
  <2>1. X \in SUBSET X /\ {h \in H : k[h] \in X} = H
    BY <1>2
  <2>2. Cardinality({h \in H : k[h] \in X}) = Cardinality(X) /\ IsFiniteSet(H)
    BY <2>1, SameSize
  <2> QED
    BY <1>1, <2>1, <2>2, FS_CardinalityType DEF Total
<1>4. \A x : UpTo(hist, x) = Cardinality(Up(x)) /\ Cardinality(Up(x)) \in Nat
  <2> TAKE x
  <2>1. Up(x) \in SUBSET X /\ {h \in H : k[h] \in Up(x)} = {h \in H : hist[h] <= x}
    BY <1>2
  <2>2. Cardinality({h \in H : k[h] \in Up(x)}) = Cardinality(Up(x))
    <3> HIDE DEF Up
    <3> QED
      BY <2>1, SameSize
  <2>3. IsFiniteSet(Up(x))
    BY <2>1, FS_Subset
  <2> QED
    BY <1>1, <2>1, <2>2, <2>3, FS_CardinalityType DEF UpTo
<1>5. CASE X = {}
  <2>1. T = 0
    BY <1>5, FS_EmptySet
  <2>2. Percentile(hist, p) = 0
    BY <1>3, <2>1 DEF Percentile
  <2> QED
    BY <1>5, <2>2 DEF Covers
<1>6. CASE X # {}
  <2>1. T # 0
    BY <1>6, FS_EmptySet
  <2>2. /\ R \subseteq Nat /\ R # {} /\ IsFiniteSet(R)
        /\ (\A h \in H : hist[h] \in R) /\ \A n \in X : BucketOf[n] \in R
    <3>1. R \subseteq Nat /\ (\A h \in H : hist[h] \in R) /\ \A b \in R : \E h \in H : hist[h] = b
      BY <1>1 DEF Range
    <3>2. hist \in Surjection(H, R)
      BY <1>1, <3>1 DEF Surjection
    <3> HIDE DEF R
    <3>3. IsFiniteSet(R)
      BY <1>3, <3>2, FS_Surjection
    <3>4. \A n \in X : BucketOf[n] \in R
      BY <1>2, <3>1
    <3> QED
      BY <1>6, <3>1, <3>3, <3>4
  <2>3. Max(R) \in R /\ \A y \in R : Max(R) >= y
    <3> HIDE DEF R
    <3>1. R \subseteq Int
      BY <2>2
    <3> QED
      BY <2>2, <3>1, MaxMin
  <2>4. Max(R) \in G
    <3>1. Up(Max(R)) = X
      BY <2>2, <2>3
    <3>2. UpTo(hist, Max(R)) = T
      BY <1>4, <3>1
    <3>3. T * 1000 >= p * T
      BY <1>1, <1>3
    <3> HIDE DEF R, T
    <3> QED
      BY <2>3, <3>2, <3>3
  <2> DEFINE b == Min(G)
  <2>5. b \in G /\ \A y \in G : b <= y
    <3>1. G \in SUBSET R
      OBVIOUS
    <3> HIDE DEF G, R
    <3>2. IsFiniteSet(G)
      BY <2>2, <3>1, FS_Subset
    <3>3. G \subseteq Int /\ G # {}
      BY <2>2, <2>4, <3>1
    <3> QED
      BY <3>2, <3>3, MaxMin
  <2>6. Percentile(hist, p) = b
    <3>1. Percentile(hist, p) = Min(G \cup {Max(R)})
      BY <1>3, <2>1 DEF Percentile
    <3>2. G \cup {Max(R)} = G
      BY <2>4
    <3> HIDE DEF G, R
    <3> QED
      BY <3>1, <3>2
  <2>7. b \in Nat /\ Cardinality(Up(b)) * 1000 >= p * T
    <3> HIDE DEF b
    <3> QED
      BY <1>4, <2>2, <2>5
  <2>8. ASSUME NEW n \in X, BucketOf[n] < b
        PROVE  Cardinality(Up(BucketOf[n])) * 1000 < p * T
    <3> DEFINE c == BucketOf[n]
               u == Cardinality(Up(c))
    <3>1. c \in R /\ c \in Nat
      BY <2>2
    <3> HIDE DEF b
    <3>2. c \notin G
      BY <2>5, <2>7, <2>8, <3>1
    <3>3. ~(u * 1000 >= p * T) /\ u \in Nat
      BY <1>4, <3>1, <3>2
    <3> HIDE DEF u, T
    <3>4. u * 1000 < p * T
      BY <1>1, <1>3, <3>3
    <3> QED
      BY <3>4 DEF u, T
  <2> HIDE DEF b
  <2> QED
    BY <1>6, <2>6, <2>7, <2>8 DEF Covers
<1> QED
  BY <1>5, <1>6

\* The lines of a process that are added up show different submissions.
LEMMA ProcessesSound ==
    ASSUME Types, CountedLate, LinesDisjoint
    PROVE  SoundProcesses
<1> DEFINE seg == LastCompleteTick(ReadTail(log))
<1>1. GoodLines(seg)
  <2>1. Piece(ReadTail(log), log)
    BY TailIsPiece DEF Types
  <2>2. ReadTail(log) \in Seq(Line)
    BY <2>1 DEF Piece
  <2>3. Piece(seg, ReadTail(log))
    BY <2>2, TickIsPiece
  <2> QED
    BY <2>1, <2>3, PieceOfPiece, PieceIsGood
<1> SUFFICES ASSUME NEW p \in Procs
             PROVE  ReadProcessStats(log)[p]
                      <= Cardinality({n \in Cmds : ProcOf[n] = p /\ cmd[n].at # "new"})
  BY DEF SoundProcesses
<1> DEFINE parts == [i \in Lines(seg, "proc") |-> {n \in seg[i].of : ProcOf[n] = p}]
           W == {n \in Cmds : ProcOf[n] = p /\ cmd[n].at # "new"}
<1>2. ReadProcessStats(log)[p] = Cardinality(Added(parts))
  BY DEF ReadProcessStats
<1> HIDE DEF seg
<1>3. IsFiniteSet(W)
  BY CollectorAssumption, FS_Subset
<1>4. \A k \in DOMAIN parts : parts[k] \subseteq W
  BY <1>1 DEF GoodLines, Reached, Lines
<1>5. \A j, k \in DOMAIN parts : j # k => parts[j] \cap parts[k] = {}
  BY <1>1 DEF GoodLines, Lines, Kept
<1> HIDE DEF parts, W
<1>6. Cardinality(Added(parts)) <= Cardinality(W)
  BY <1>3, <1>4, <1>5, AddedCounts
<1> QED
  BY <1>2, <1>6 DEF W

\* What a queue's counter shows are completions of the queue.
LEMMA ScalarSound ==
    ASSUME NEW t, GoodLines(t), NEW q
    PROVE  Scalar(t, "op", q) \subseteq Mine(Completed, q)
<1> DEFINE lines == {i \in Lines(t, "op") : Mine(t[i].of, q) # {}}
<1>1. CASE lines = {}
  BY <1>1 DEF Scalar
<1>2. CASE lines # {}
  <2>1. t \in Seq(Line) /\ Len(t) \in Nat /\ lines \in SUBSET (1 .. Len(t))
    BY DEF GoodLines, Lines
  <2>2. Scalar(t, "op", q) = Mine(t[Max(lines)].of, q)
    BY <1>2 DEF Scalar
  <2>3. Max(lines) \in lines
    <3> HIDE DEF lines
    <3>1. IsFiniteSet(1 .. Len(t))
      BY <2>1, FS_Interval
    <3>2. IsFiniteSet(lines)
      BY <2>1, <3>1, FS_Subset
    <3>3. lines \subseteq Int
      BY <2>1
    <3> QED
      BY <1>2, <3>2, <3>3, MaxMin
  <2>4. t[Max(lines)].map = "op" /\ Max(lines) \in DOMAIN t
    BY <2>3 DEF Lines
  <2>5. t[Max(lines)].of \subseteq Completed
    BY <2>4 DEF GoodLines, Reached, Completed
  <2> QED
    BY <2>2, <2>5 DEF Mine
<1> QED
  BY <1>1, <1>2

\* The samples of a queue's histogram are the commands its lines show, each once.
LEMMA HistSound ==
    ASSUME NEW t, GoodLines(t), NEW q
    PROVE  LET H == DOMAIN Hist(t, q) IN
           /\ Hist(t, q) \in [H -> Nat] /\ \A h \in H : Hist(t, q)[h] = BucketOf[h[2]]
           /\ [h \in H |-> h[2]] \in Bijection(H, Samples(t, q))
           /\ Samples(t, q) \subseteq Mine(Cmds, q) /\ IsFiniteSet(Samples(t, q))
<1> DEFINE parts == [i \in Lines(t, "hist") |-> Mine(t[i].of, q)]
           H == Added(parts)
           U == UNION {parts[i] : i \in DOMAIN parts}
<1>1. \A k \in DOMAIN parts : parts[k] \subseteq Mine(Cmds, q)
  <2>1. \A k \in DOMAIN t : t[k] \in Line
    BY DEF GoodLines
  <2>2. \A k \in DOMAIN t : t[k].of \subseteq Cmds
    BY <2>1 DEF Line
  <2> QED
    BY <2>2 DEF Lines, Mine
<1>2. \A j, k \in DOMAIN parts : j # k => parts[j] \cap parts[k] = {}
  BY DEF GoodLines, Lines, Mine, Kept
<1>3. IsFiniteSet(Mine(Cmds, q))
  BY CollectorAssumption, FS_Subset DEF Mine
<1>4. Hist(t, q) = [s \in H |-> BucketOf[s[2]]]
  BY DEF Hist
<1>5. Samples(t, q) = U
  BY DEF Samples
<1> HIDE DEF parts
<1>6. [h \in H |-> h[2]] \in Bijection(H, U)
  BY <1>1, <1>2, <1>3, AddedCounts
<1>7. U \subseteq Mine(Cmds, q)
  BY <1>1
<1> HIDE DEF H, U
<1>8. IsFiniteSet(U)
  BY <1>3, <1>7, FS_Subset
<1>9. \A h \in H : h[2] \in U
  <2>1. [h \in H |-> h[2]] \in [H -> U]
    BY <1>6 DEF Bijection, Injection
  <2> QED
    BY <2>1
<1>10. \A h \in H : BucketOf[h[2]] \in Nat
  BY <1>7, <1>9, CollectorAssumption DEF Mine
<1>11. Hist(t, q) \in [H -> Nat] /\ DOMAIN Hist(t, q) = H
       /\ \A h \in H : Hist(t, q)[h] = BucketOf[h[2]]
  BY <1>4, <1>10
<1> QED
  BY <1>5, <1>6, <1>7, <1>8, <1>11

\* Merging the histograms of different queues keeps all their samples apart.
LEMMA MergedSound ==
    ASSUME NEW t, GoodLines(t), NEW Q
    PROVE  LET hists == [q \in Q |-> Hist(t, q)]
               H == DOMAIN MergeBuckets(hists)
           IN /\ MergeBuckets(hists) \in [H -> Nat]
              /\ \A h \in H : MergeBuckets(hists)[h] = BucketOf[h[2][2]]
              /\ [h \in H |-> h[2][2]] \in Bijection(H, UNION {Samples(t, q) : q \in Q})
              /\ IsFiniteSet(UNION {Samples(t, q) : q \in Q})
<1> DEFINE hists == [q \in Q |-> Hist(t, q)]
           parts == [q \in DOMAIN hists |-> DOMAIN hists[q]]
           H == Added(parts)
           U == UNION {Samples(t, q) : q \in Q}
           k == [h \in H |-> h[2][2]]
<1>1. MergeBuckets(hists) = [s \in H |-> hists[s[1]][s[2]]]
  BY DEF MergeBuckets
<1>2. \A s : s \in H <=> \E q \in Q : \E x \in DOMAIN Hist(t, q) : s = <<q, x>>
  <2>1. DOMAIN parts = Q /\ \A q \in Q : parts[q] = DOMAIN Hist(t, q)
    OBVIOUS
  <2> HIDE DEF parts
  <2>2. \A s : s \in H <=> \E q \in DOMAIN parts : \E x \in parts[q] : s = <<q, x>>
    BY AddedIs
  <2> HIDE DEF H
  <2> QED
    BY <2>1, <2>2
<1> HIDE DEF H
<1>3. \A q \in Q : /\ \A x \in DOMAIN Hist(t, q) :
                        /\ x[2] \in Samples(t, q) /\ x[2] \in Cmds /\ QueueOf[x[2]] = q
                        /\ Hist(t, q)[x] = BucketOf[x[2]] /\ Hist(t, q)[x] \in Nat
                   /\ \A x, y \in DOMAIN Hist(t, q) : x[2] = y[2] => x = y
                   /\ \A n \in Samples(t, q) : \E x \in DOMAIN Hist(t, q) : x[2] = n
                   /\ Samples(t, q) \subseteq Cmds
  <2> TAKE q \in Q
  <2> DEFINE D == DOMAIN Hist(t, q)
             g == [h \in D |-> h[2]]
  <2>1. /\ Hist(t, q) \in [D -> Nat] /\ \A h \in D : Hist(t, q)[h] = BucketOf[h[2]]
        /\ g \in Bijection(D, Samples(t, q)) /\ Samples(t, q) \subseteq Mine(Cmds, q)
    BY HistSound
  <2>2. /\ g \in [D -> Samples(t, q)] /\ \A x, y \in D : g[x] = g[y] => x = y
        /\ \A n \in Samples(t, q) : \E x \in D : g[x] = n
    BY <2>1 DEF Bijection, Injection, Surjection, IsInjective
  <2>3. \A x \in D : g[x] = x[2]
    OBVIOUS
  <2> HIDE DEF D, g
  <2>4. \A x \in D : x[2] \in Samples(t, q) /\ x[2] \in Cmds /\ QueueOf[x[2]] = q
    BY <2>1, <2>2, <2>3 DEF Mine
  <2>5. \A x \in D : Hist(t, q)[x] = BucketOf[x[2]] /\ Hist(t, q)[x] \in Nat
    BY <2>1
  <2>6. /\ \A x, y \in D : x[2] = y[2] => x = y
        /\ \A n \in Samples(t, q) : \E x \in D : x[2] = n
    BY <2>2, <2>3
  <2>7. Samples(t, q) \subseteq Cmds
    BY <2>1 DEF Mine
  <2> QED
    BY <2>4, <2>5, <2>6, <2>7 DEF D
<1>4. \A s \in H : \E q \in Q : \E x \in DOMAIN Hist(t, q) : s = <<q, x>> /\ s[1] = q /\ s[2] = x
  BY <1>2
<1>5. \A s \in H : /\ s[2][2] \in U /\ hists[s[1]][s[2]] = BucketOf[s[2][2]]
                   /\ hists[s[1]][s[2]] \in Nat
  <2> TAKE s \in H
  <2>1. PICK q \in Q : \E x \in DOMAIN Hist(t, q) : s = <<q, x>> /\ s[1] = q /\ s[2] = x
    BY <1>4
  <2>2. s[2] \in DOMAIN Hist(t, q) /\ hists[s[1]] = Hist(t, q)
    BY <2>1
  <2>3. s[2][2] \in Samples(t, q)
    BY <1>3, <2>2
  <2> QED
    BY <1>3, <2>2, <2>3
<1>6. \A a, b \in H : a[2][2] = b[2][2] => a = b
  <2> SUFFICES ASSUME NEW a \in H, NEW b \in H, a[2][2] = b[2][2] PROVE a = b
    OBVIOUS
  <2>1. PICK q \in Q : \E x \in DOMAIN Hist(t, q) : a = <<q, x>> /\ a[1] = q /\ a[2] = x
    BY <1>4
  <2>2. PICK r \in Q : \E x \in DOMAIN Hist(t, r) : b = <<r, x>> /\ b[1] = r /\ b[2] = x
    BY <1>4
  <2>3. a[2] \in DOMAIN Hist(t, q) /\ b[2] \in DOMAIN Hist(t, r)
    BY <2>1, <2>2
  <2>4. q = r
    BY <1>3, <2>3
  <2>5. a[2] = b[2]
    BY <1>3, <2>3, <2>4
  <2> QED
    BY <2>1, <2>2, <2>4, <2>5
<1>7. \A u \in U : \E s \in H : s[2][2] = u
  <2> TAKE u \in U
  <2>1. PICK q \in Q : u \in Samples(t, q)
    OBVIOUS
  <2>2. PICK x \in DOMAIN Hist(t, q) : x[2] = u
    BY <1>3, <2>1
  <2>3. <<q, x>> \in H /\ <<q, x>>[2] = x
    BY <1>2
  <2> QED
    BY <2>2, <2>3
<1>8. k \in Bijection(H, U)
  <2>1. k \in [H -> U] /\ \A s \in H : k[s] = s[2][2]
    BY <1>5
  <2> HIDE DEF k, U
  <2> QED
    BY <1>6, <1>7, <2>1 DEF Bijection, Injection, Surjection, IsInjective
<1>9. IsFiniteSet(U)
  <2>1. U \in SUBSET Cmds
    BY <1>3
  <2> QED
    BY <2>1, CollectorAssumption, FS_Subset
<1>10. /\ MergeBuckets(hists) \in [H -> Nat] /\ DOMAIN MergeBuckets(hists) = H
       /\ \A h \in H : MergeBuckets(hists)[h] = BucketOf[h[2][2]]
  <2> HIDE DEF hists, U
  <2> QED
    BY <1>1, <1>5
<1> QED
  BY <1>8, <1>9, <1>10

\* The queues' counters count different completions, and the percentiles are taken of
\* histograms whose samples are the commands the tick shows.
LEMMA PerformanceSound ==
    ASSUME Types, CountedLate, LinesDisjoint
    PROVE  SoundPerformance
<1> DEFINE t == LastCompleteTick(log)
           S == Rows(t)
           ops == [q \in S |-> Scalar(t, "op", q)]
           hists == [q \in S |-> Hist(t, q)]
           U == UNION {Samples(t, q) : q \in S}
           r == ReadPerformance(log)
<1>1. GoodLines(t)
  <2>1. Piece(t, log)
    BY TickIsPiece DEF Types
  <2> QED
    BY <2>1, PieceIsGood
<1>2. r = [queues |-> [q \in S |-> QueuePerf(ops[q], hists[q])],
           aggregate |-> QueuePerf(Added(ops), MergeBuckets(hists))]
  BY DEF ReadPerformance
<1>3. /\ DOMAIN r.queues = S
      /\ \A q \in S : r.queues[q] = QueuePerf(Scalar(t, "op", q), Hist(t, q))
      /\ r.aggregate = QueuePerf(Added(ops), MergeBuckets(hists))
  BY <1>2
<1> HIDE DEF r, t, S
<1>4. \A q : Scalar(t, "op", q) \in SUBSET Mine(Completed, q)
  BY <1>1, ScalarSound
<1>5. IsFiniteSet(Completed) /\ \A q : IsFiniteSet(Mine(Completed, q))
  BY CollectorAssumption, FS_Subset DEF Completed, Mine
<1>6. \A q \in S : r.queues[q].iops <= Cardinality(Mine(Completed, q))
  <2>1. \A q : Cardinality(Scalar(t, "op", q)) <= Cardinality(Mine(Completed, q))
    BY <1>4, <1>5, FS_Subset
  <2> TAKE q \in S
  <2>2. r.queues[q] = QueuePerf(Scalar(t, "op", q), Hist(t, q))
    BY <1>3
  <2>3. r.queues[q].iops = Cardinality(Scalar(t, "op", q))
    BY <2>2 DEF QueuePerf
  <2> QED
    BY <2>1, <2>3
<1>7. r.aggregate.iops <= Cardinality(Completed)
  <2>1. \A q \in DOMAIN ops : ops[q] \subseteq Completed
    BY <1>4 DEF Mine
  <2>2. \A j, k \in DOMAIN ops : j # k => ops[j] \cap ops[k] = {}
    BY <1>4 DEF Mine
  <2> HIDE DEF ops
  <2>3. Cardinality(Added(ops)) <= Cardinality(Completed)
    BY <1>5, <2>1, <2>2, AddedCounts
  <2> QED
    BY <1>3, <2>3 DEF QueuePerf
<1>8. ASSUME NEW p \in Quantiles, NEW q \in S
      PROVE  Covers(r.queues[q].pct[p], Samples(t, q), p)
  <2> DEFINE h == Hist(t, q)
             H == DOMAIN h
             k == [x \in H |-> x[2]]
  <2>1. /\ h \in [H -> Nat] /\ \A x \in H : h[x] = BucketOf[x[2]]
        /\ k \in Bijection(H, Samples(t, q)) /\ IsFiniteSet(Samples(t, q))
    BY <1>1, HistSound
  <2>2. \A x \in H : h[x] = BucketOf[k[x]]
    BY <2>1
  <2> HIDE DEF k, h
  <2>3. Covers(Percentile(h, p), Samples(t, q), p)
    BY <2>1, <2>2, PercentileCovers
  <2>4. r.queues[q].pct[p] = Percentile(h, p)
    <3>1. r.queues[q] = QueuePerf(Scalar(t, "op", q), h)
      BY <1>3 DEF h
    <3> QED
      BY <3>1 DEF QueuePerf
  <2> QED
    BY <2>3, <2>4
<1>9. ASSUME NEW p \in Quantiles
      PROVE  Covers(r.aggregate.pct[p], U, p)
  <2> DEFINE h == MergeBuckets(hists)
             H == DOMAIN h
             k == [x \in H |-> x[2][2]]
  <2>1. /\ h \in [H -> Nat] /\ \A x \in H : h[x] = BucketOf[x[2][2]]
        /\ k \in Bijection(H, U) /\ IsFiniteSet(U)
    BY <1>1, MergedSound
  <2>2. \A x \in H : h[x] = BucketOf[k[x]]
    BY <2>1
  <2> HIDE DEF k, h, U
  <2>3. Covers(Percentile(h, p), U, p)
    BY <2>1, <2>2, PercentileCovers
  <2>4. r.aggregate.pct[p] = Percentile(h, p)
    BY <1>3 DEF QueuePerf, h
  <2> QED
    BY <2>3, <2>4
<1> QED
  BY <1>3, <1>6, <1>7, <1>8, <1>9 DEF SoundPerformance, r, t

\* What the readers report of a tick is sound: a process has no more I/O than it
\* submitted, a queue and the device no more completions than there have been, and
\* each percentile is the least bound that covers its share
\* (read_process_stats, read_latest_performance, _percentile_ns).
THEOREM ReportsAreSound == Spec => []ReportSound
<1>1. Init => CountedLate /\ LinesDisjoint
  BY DEF Init, CountedLate, LinesDisjoint, Blank, Kept, Counters
<1>2. Types /\ CacheIsOwn /\ CountedLate /\ LinesDisjoint /\ [Next]_vars
        => (Types /\ CacheIsOwn /\ CountedLate /\ LinesDisjoint)'
  BY OwnStep, CountStep
<1>3. Types /\ CountedLate /\ LinesDisjoint => ReportSound
  BY PerformanceSound, ProcessesSound DEF ReportSound
<1> QED
  BY <1>1, <1>2, <1>3, OwnInit, PTL DEF Spec

==============================================================================
