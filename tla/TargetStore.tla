------------------------------ MODULE TargetStore ------------------------------
(***************************************************************************)
(* How the target rules get into the state file (backend/targets.py,       *)
(* _save and _load; services/profiler/service.py, _registry).              *)
(*                                                                         *)
(* The daemon has two threads that save: the event loop, which serves      *)
(* AddTarget and RemoveTarget, and the executor's worker, whose refresh()  *)
(* opens sessions.  Both share one registry, made by the first of them     *)
(* that needs it.  A CLI command is a process with a registry of its own   *)
(* on the same file.  A save computes its payload, opens the one temporary *)
(* file (which truncates it), writes, and renames: four steps here.  Each  *)
(* of them may fail; the error is swallowed and the operation answered as  *)
(* if its rule had been saved.                                             *)
(***************************************************************************)
EXTENDS Naturals, FiniteSets

CONSTANTS
    Rules,          \* rule keys
    DaemonThreads,  \* a subset of {"loop", "worker"}
    Clis,           \* CLI processes, one command each
    DiskFaults,     \* TRUE when a step of a save may raise OSError
    MaxSessions,    \* bound: sessions a registry opens
    MaxOps,         \* bound: operations begun
    MaxBoots,       \* bound: daemon starts
    Empty,          \* the content of a truncated file
    Corrupt,        \* the content of a file that is no JSON text
    None

Threads == DaemonThreads \cup Clis
Processes == {"daemon"} \cup Clis
ProcessOf(t) == IF t \in DaemonThreads THEN "daemon" ELSE t

\* Enough inodes for both names and for a descriptor of every thread.
Inodes == 1 .. Cardinality(Threads) + 2

Payloads == [rules: SUBSET Rules, sessions: 0 .. MaxSessions]
EmptyState == [rules |-> {}, sessions |-> 0]

ASSUME StoreAssumption ==
    /\ MaxSessions \in Nat
    /\ DiskFaults \in BOOLEAN
    /\ None \notin Threads
    /\ {None, Empty, Corrupt} \cap Payloads = {}

VARIABLES
    targets,    \* per process: self._targets, named by the thread that made it
    registry,   \* per thread: the contents of the registry object it made
    pc,         \* per thread: the next step of its operation
    op,         \* per thread: the operation it serves
    self,       \* per thread: the registry object it works on
    payload,    \* per thread: the local "payload" of _save
    fd,         \* per thread: the inode its open file refers to
    content,    \* per inode
    tmpName,    \* the inode that <path>.tmp names, or None
    pathName,   \* the inode that <path> names, or None
    acked,      \* per rule: what the user was told last
    unsaved,    \* the rules told whose save failed, with none after it
    ops,        \* operations begun so far
    boots       \* daemon starts so far

fsVars == <<content, tmpName, pathName>>
vars == <<targets, registry, pc, op, self, payload, fd, content, tmpName, pathName,
          acked, unsaved, ops, boots>>

-----------------------------------------------------------------------------
(* The file system, as the code uses it.                                   *)

Size(p) == Cardinality(p.rules) + p.sessions

\* Writing p from offset 0 over old: a longer old text shows behind it.
Overlay(old, p) ==
    IF old \in Payloads /\ Size(old) > Size(p) THEN Corrupt ELSE p

\* An inode that no name and no descriptor refers to.
FreeInode(i) == i # tmpName /\ i # pathName /\ \A t \in Threads : fd[t] # i

\* _load: a missing or unreadable file counts as no state.
Load == IF pathName # None /\ content[pathName] \in Payloads
          THEN content[pathName] ELSE EmptyState

-----------------------------------------------------------------------------
(* Operations.                                                             *)

AddOp(r) == [kind |-> "add", rule |-> r]
RemoveOp(r) == [kind |-> "remove", rule |-> r]
SessionOp == [kind |-> "session", rule |-> None]

OpsOf(t) ==
    IF t = "worker" THEN {SessionOp}
    ELSE {AddOp(r) : r \in Rules} \cup {RemoveOp(r) : r \in Rules}

\* A request reaches a thread.  Users do not race on one and the same rule.
Begin(t, o) ==
    /\ pc[t] = "idle"
    /\ ops < MaxOps
    /\ o \in OpsOf(t)
    /\ \A u \in Threads : op[u] # None => op[u].rule # o.rule
    /\ t \in Clis => targets[t] = None
    /\ ops' = ops + 1
    /\ op' = [op EXCEPT ![t] = o]
    /\ pc' = [pc EXCEPT ![t] = IF targets[ProcessOf(t)] = None
                                 THEN "construct" ELSE "mutate"]
    /\ acked' = IF o.kind = "session" THEN acked
                                      ELSE [acked EXCEPT ![o.rule] = "unknown"]
    /\ UNCHANGED <<targets, registry, self, payload, fd, fsVars, unsaved, boots>>

\* Mutant: the list of sessions starts as None and a missing file leaves it so.
ConstructBare(t) ==
    /\ pc[t] = "construct"
    /\ registry' = [registry EXCEPT ![t] =
                      IF pathName = None THEN [Load EXCEPT !.sessions = None]
                                         ELSE Load]
    /\ pc' = [pc EXCEPT ![t] = "assign"]
    /\ UNCHANGED <<targets, op, self, payload, fd, fsVars, acked, unsaved, ops,
                   boots>>

\* _registry(): "self._targets is None" was seen; construct and load.
Construct(t) ==
    /\ pc[t] = "construct"
    /\ registry' = [registry EXCEPT ![t] = Load]
    /\ pc' = [pc EXCEPT ![t] = "assign"]
    /\ UNCHANGED <<targets, op, self, payload, fd, fsVars, acked, unsaved, ops,
                   boots>>

\* _registry(): the assignment.  A registry made meanwhile is dropped.
Assign(t) ==
    /\ pc[t] = "assign"
    /\ targets' = [targets EXCEPT ![ProcessOf(t)] = t]
    /\ pc' = [pc EXCEPT ![t] = "mutate"]
    /\ UNCHANGED <<registry, op, self, payload, fd, fsVars, acked, unsaved, ops,
                   boots>>

\* What an operation makes of a registry.
Applied(o, reg) ==
    CASE o.kind = "add" -> [reg EXCEPT !.rules = @ \cup {o.rule}]
      [] o.kind = "remove" -> [reg EXCEPT !.rules = @ \ {o.rule}]
      [] o.kind = "session" -> [reg EXCEPT !.sessions = @ + 1]

\* Mutant: a removal is never saved.
NeedsSaveUnlessRemove(o, reg) == o.kind # "remove"

\* remove_rule saves only when it removed something.
NeedsSave(o, reg) == o.kind = "remove" => o.rule \in reg.rules

Acknowledged(t) ==
    CASE op[t].kind = "add" -> [acked EXCEPT ![op[t].rule] = "present"]
      [] op[t].kind = "remove" -> [acked EXCEPT ![op[t].rule] = "absent"]
      [] op[t].kind = "session" -> acked

Return(t) ==
    /\ acked' = Acknowledged(t)
    /\ op' = [op EXCEPT ![t] = None]
    /\ pc' = [pc EXCEPT ![t] = "idle"]

\* The first half of add_rule, remove_rule and refresh, in memory.  The
\* worker opens a session only for a rule, and only as the bound allows.
Mutate(t) ==
    LET obj == targets[ProcessOf(t)]
    IN  /\ pc[t] = "mutate"
        /\ op[t].kind = "session" => /\ registry[obj].rules # {}
                                      /\ registry[obj].sessions < MaxSessions
        /\ self' = [self EXCEPT ![t] = obj]
        /\ registry' = [registry EXCEPT ![obj] = Applied(op[t], @)]
        /\ IF NeedsSave(op[t], registry[obj])
             THEN /\ pc' = [pc EXCEPT ![t] = "payload"]
                  /\ UNCHANGED <<op, acked>>
             ELSE Return(t)
        /\ UNCHANGED <<targets, payload, fd, fsVars, unsaved, ops, boots>>

\* _save: the payload is computed from the registry the thread works on.
ComputePayload(t) ==
    /\ pc[t] = "payload"
    /\ payload' = [payload EXCEPT ![t] = registry[self[t]]]
    /\ pc' = [pc EXCEPT ![t] = "open"]
    /\ UNCHANGED <<targets, registry, op, self, fd, fsVars, acked, unsaved, ops,
                   boots>>

\* Mutant: the state file itself is opened for writing.
OpenInPlace(t) ==
    /\ pc[t] = "open"
    /\ \E i \in Inodes :
         /\ IF pathName = None
              THEN FreeInode(i) /\ \A j \in 1 .. i - 1 : ~FreeInode(j)
              ELSE i = pathName
         /\ pathName' = i
         /\ fd' = [fd EXCEPT ![t] = i]
         /\ content' = [content EXCEPT ![i] = Empty]
    /\ pc' = [pc EXCEPT ![t] = "write"]
    /\ UNCHANGED <<targets, registry, op, self, payload, tmpName, acked,
                   unsaved, ops, boots>>

\* _save: open(tmp, "w") truncates the temporary file, or creates it.
OpenTmp(t) ==
    /\ pc[t] = "open"
    /\ \E i \in Inodes :
         /\ IF tmpName = None
              THEN FreeInode(i) /\ \A j \in 1 .. i - 1 : ~FreeInode(j)
              ELSE i = tmpName
         /\ tmpName' = i
         /\ fd' = [fd EXCEPT ![t] = i]
         /\ content' = [content EXCEPT ![i] = Empty]
    /\ pc' = [pc EXCEPT ![t] = "write"]
    /\ UNCHANGED <<targets, registry, op, self, payload, pathName, acked,
                   unsaved, ops, boots>>

\* _save: json.dump and close, which flushes the text.
Write(t) ==
    /\ pc[t] = "write"
    /\ content' = [content EXCEPT ![fd[t]] = Overlay(@, payload[t])]
    /\ fd' = [fd EXCEPT ![t] = None]
    /\ pc' = [pc EXCEPT ![t] = "replace"]
    /\ UNCHANGED <<targets, registry, op, self, payload, tmpName, pathName, acked,
                   unsaved, ops, boots>>

\* The rules whose answer is not on disk once the save of t has failed.
StillUnsaved(t) ==
    unsaved \cup (IF op[t].kind = "session" THEN {} ELSE {op[t].rule})

\* _save: os.replace; that the temporary file is gone is an OSError, too.
Replace(t) ==
    /\ pc[t] = "replace"
    /\ pathName' = IF tmpName = None THEN pathName ELSE tmpName
    /\ unsaved' = IF tmpName = None THEN StillUnsaved(t) ELSE {}
    /\ tmpName' = None
    /\ payload' = [payload EXCEPT ![t] = None]
    /\ Return(t)
    /\ UNCHANGED <<targets, registry, self, fd, content, ops, boots>>

\* _save: makedirs, open, dump or replace raises OSError, which is swallowed.
\* A dump may have written a part of its text; the with statement closes.
SaveFails(t) ==
    /\ DiskFaults
    /\ pc[t] \in {"payload", "open", "write", "replace"}
    /\ \/ content' = content
       \/ /\ pc[t] = "write"
          /\ content' = [content EXCEPT ![fd[t]] = Corrupt]
    /\ fd' = [fd EXCEPT ![t] = None]
    /\ payload' = [payload EXCEPT ![t] = None]
    /\ unsaved' = StillUnsaved(t)
    /\ Return(t)
    /\ UNCHANGED <<targets, registry, self, tmpName, pathName, ops, boots>>

\* A process is killed; the daemon may be started again.  Of what it could
\* not save nothing is left.
Crash(p) ==
    LET mine == {t \in Threads : ProcessOf(t) = p}
    IN  /\ p = "daemon" => boots < MaxBoots
        /\ \E t \in mine : pc[t] # "idle" \/ targets[p] # None
        /\ boots' = IF p = "daemon" THEN boots + 1 ELSE boots
        /\ targets' = [targets EXCEPT ![p] = None]
        /\ registry' = [t \in Threads |->
                          IF t \in mine THEN EmptyState ELSE registry[t]]
        /\ pc' = [t \in Threads |-> IF t \notin mine THEN pc[t]
                                    ELSE IF t \in Clis THEN "exited" ELSE "idle"]
        /\ op' = [t \in Threads |-> IF t \in mine THEN None ELSE op[t]]
        /\ self' = [t \in Threads |-> IF t \in mine THEN None ELSE self[t]]
        /\ payload' = [t \in Threads |-> IF t \in mine THEN None ELSE payload[t]]
        /\ fd' = [t \in Threads |-> IF t \in mine THEN None ELSE fd[t]]
        /\ acked' = [r \in Rules |-> IF r \in unsaved THEN "unknown"
                                                     ELSE acked[r]]
        /\ unsaved' = {}
        /\ UNCHANGED <<fsVars, ops>>

-----------------------------------------------------------------------------
Init ==
    /\ targets = [p \in Processes |-> None]
    /\ registry = [t \in Threads |-> EmptyState]
    /\ pc = [t \in Threads |-> "idle"]
    /\ op = [t \in Threads |-> None]
    /\ self = [t \in Threads |-> None]
    /\ payload = [t \in Threads |-> None]
    /\ fd = [t \in Threads |-> None]
    /\ content = [i \in Inodes |-> Empty]
    /\ tmpName = None
    /\ pathName = None
    /\ acked = [r \in Rules |-> "absent"]
    /\ unsaved = {}
    /\ ops = 0
    /\ boots = 1

Step(t) ==
    \/ \E o \in OpsOf(t) : Begin(t, o)
    \/ Construct(t)
    \/ Assign(t)
    \/ Mutate(t)
    \/ ComputePayload(t)
    \/ OpenTmp(t)
    \/ Write(t)
    \/ Replace(t)
    \/ SaveFails(t)

Next ==
    \/ \E t \in Threads : Step(t)
    \/ \E p \in Processes : Crash(p)

Spec == Init /\ [][Next]_vars

-----------------------------------------------------------------------------
(* Correctness.                                                            *)

(* The type invariant; in particular a registry never holds what an        *)
(* unreadable file contained.                                              *)
TypeOK ==
    /\ targets \in [Processes -> Threads \cup {None}]
    /\ registry \in [Threads -> Payloads]
    /\ pc \in [Threads -> {"idle", "construct", "assign", "mutate", "payload",
                           "open", "write", "replace", "exited"}]
    /\ self \in [Threads -> Threads \cup {None}]
    /\ payload \in [Threads -> Payloads \cup {None}]
    /\ fd \in [Threads -> Inodes \cup {None}]
    /\ content \in [Inodes -> Payloads \cup {Empty, Corrupt}]
    /\ tmpName \in Inodes \cup {None}
    /\ pathName \in Inodes \cup {None}
    /\ acked \in [Rules -> {"present", "absent", "unknown"}]
    /\ unsaved \subseteq Rules

(* What a user was told about a rule is what a daemon started now would    *)
(* load, also when it is killed between any two steps of a save, unless    *)
(* the save of that answer failed (_save swallows the error) and none has  *)
(* succeeded since: a later save of anything makes up for the failed ones. *)
AckedIsDurable ==
    \A r \in Rules \ unsaved : /\ acked[r] = "present" => r \in Load.rules
                               /\ acked[r] = "absent" => r \notin Load.rules

(* The same, asked only when every operation has returned: what the        *)
(* persistence test requires of a rule, and what sharing one file between  *)
(* the daemon and the CLI is for.                                          *)
AckedSurvives ==
    (\A t \in Threads : pc[t] \in {"idle", "exited"}) => AckedIsDurable

(* With one thread that saves, _save implements an atomic register: a      *)
(* crash finds the state before or after, never a part or a mix.  This is  *)
(* what lets TargetRegistry treat _save as one step.                       *)
Register == INSTANCE StateRegister WITH
    memory <- IF targets["daemon"] = None THEN None
              ELSE registry[targets["daemon"]],
    disk <- Load
SaveIsAtomic == Register!Spec
===============================================================================
