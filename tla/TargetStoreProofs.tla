--------------------------- MODULE TargetStoreProofs ---------------------------
(***************************************************************************)
(* Proofs about TargetStore: types for any number of threads and CLI       *)
(* processes; durability and the atomicity of _save where at most one      *)
(* thread saves.                                                           *)
(***************************************************************************)
EXTENDS TargetStore, TLAPS

Operations == [kind: {"add", "remove"}, rule: Rules] \cup {SessionOp}

\* What a thread has in hand at each step of its operation.
InHand ==
    \A t \in Threads :
      /\ pc[t] \notin {"idle", "exited"} => op[t] \in Operations
      /\ pc[t] = "mutate" => targets[ProcessOf(t)] \in Threads
      /\ pc[t] = "payload" => self[t] \in Threads
      /\ pc[t] \in {"open", "write"} => payload[t] \in Payloads

OpTypes == op \in [Threads -> Operations \cup {None}]

\* What the operators of TargetStore yield.
LEMMA EmptyStateType == EmptyState \in Payloads
BY StoreAssumption DEF EmptyState, Payloads

LEMMA LoadType == Load \in Payloads
BY EmptyStateType DEF Load

LEMMA OpsOfType == \A t : OpsOf(t) \subseteq Operations
BY DEF OpsOf, Operations, AddOp, RemoveOp

LEMMA ProcessType == \A t \in Threads : ProcessOf(t) \in Processes
BY DEF ProcessOf, Processes, Threads

\* An operation turns a state into a state, unless it opens a session too many.
LEMMA AppliedType ==
    ASSUME NEW o \in Operations, NEW reg \in Payloads,
           o.kind = "session" => reg.sessions < MaxSessions
    PROVE  Applied(o, reg) \in Payloads
<1>1. CASE o.kind = "add"
  <2>1. o.rule \in Rules
    BY <1>1 DEF Operations, SessionOp
  <2>2. Applied(o, reg) = [reg EXCEPT !.rules = @ \cup {o.rule}]
    BY <1>1 DEF Applied
  <2> QED
    BY <2>1, <2>2 DEF Payloads
<1>2. CASE o.kind = "remove"
  <2>1. Applied(o, reg) = [reg EXCEPT !.rules = @ \ {o.rule}]
    BY <1>2 DEF Applied
  <2> QED
    BY <2>1 DEF Payloads
<1>3. CASE o.kind = "session"
  <2>1. Applied(o, reg) = [reg EXCEPT !.sessions = @ + 1]
    BY <1>3 DEF Applied
  <2>2. reg.sessions + 1 \in 0 .. MaxSessions
    BY <1>3, StoreAssumption DEF Payloads
  <2> QED
    BY <2>1, <2>2 DEF Payloads
<1> QED
  BY <1>1, <1>2, <1>3 DEF Operations, SessionOp

LEMMA AcknowledgedType ==
    ASSUME NEW t \in Threads, op[t] \in Operations,
           acked \in [Rules -> {"present", "absent", "unknown"}]
    PROVE  Acknowledged(t) \in [Rules -> {"present", "absent", "unknown"}]
<1>1. CASE op[t].kind = "add"
  BY <1>1 DEF Acknowledged
<1>2. CASE op[t].kind = "remove"
  BY <1>2 DEF Acknowledged
<1>3. CASE op[t].kind = "session"
  BY <1>3 DEF Acknowledged
<1> QED
  BY <1>1, <1>2, <1>3 DEF Operations, SessionOp

\* What a failed save leaves unsaved are rules.
LEMMA UnsavedType ==
    ASSUME NEW t \in Threads, op[t] \in Operations, unsaved \subseteq Rules
    PROVE  StillUnsaved(t) \subseteq Rules
BY DEF StillUnsaved, Operations, SessionOp

\* One step of a thread keeps the types and what it has in hand.
LEMMA StepTypes ==
    ASSUME TypeOK, OpTypes, InHand, NEW t \in Threads, Step(t)
    PROVE  TypeOK' /\ OpTypes' /\ InHand'
<1> USE DEF TypeOK, OpTypes, InHand
<1>0. ProcessOf(t) \in Processes
  BY ProcessType
<1>1. ASSUME NEW o \in OpsOf(t), Begin(t, o)
      PROVE  TypeOK' /\ OpTypes' /\ InHand'
  <2>1. o \in Operations
    BY OpsOfType
  <2>2. acked' \in [Rules -> {"present", "absent", "unknown"}]
    BY <1>1 DEF Begin
  <2>3. targets[ProcessOf(t)] # None => targets[ProcessOf(t)] \in Threads
    BY <1>0
  <2> QED
    BY <1>1, <2>1, <2>2, <2>3 DEF Begin, fsVars
<1>2. CASE Construct(t)
  BY <1>2, LoadType DEF Construct, fsVars
<1>3. CASE Assign(t)
  BY <1>0, <1>3 DEF Assign, fsVars
<1>4. CASE Mutate(t)
  <2> DEFINE obj == targets[ProcessOf(t)]
  <2>1. obj \in Threads /\ op[t] \in Operations
    BY <1>4 DEF Mutate
  <2>2. registry' = [registry EXCEPT ![obj] = Applied(op[t], registry[obj])]
    BY <1>4 DEF Mutate
  <2>3. Applied(op[t], registry[obj]) \in Payloads
    BY <1>4, <2>1, AppliedType DEF Mutate
  <2>4. registry' \in [Threads -> Payloads]
    BY <2>1, <2>2, <2>3
  <2>5. self' = [self EXCEPT ![t] = obj]
    BY <1>4 DEF Mutate
  <2> HIDE DEF obj
  <2>6. CASE NeedsSave(op[t], registry[obj])
    BY <1>4, <2>1, <2>4, <2>5, <2>6 DEF Mutate, fsVars, obj
  <2>7. CASE ~NeedsSave(op[t], registry[obj])
    <3>1. Return(t)
      BY <1>4, <2>7 DEF Mutate, obj
    <3>2. acked' \in [Rules -> {"present", "absent", "unknown"}]
      BY <2>1, <3>1, AcknowledgedType DEF Return
    <3> QED
      BY <1>4, <2>1, <2>4, <2>5, <3>1, <3>2 DEF Mutate, Return, fsVars
  <2> QED
    BY <2>6, <2>7
<1>5. CASE ComputePayload(t)
  BY <1>5 DEF ComputePayload, fsVars
<1>6. CASE OpenTmp(t)
  BY <1>6 DEF OpenTmp
<1>7. CASE Write(t)
  <2>1. \A old : Overlay(old, payload[t]) \in Payloads \cup {Corrupt}
    BY <1>7 DEF Write, Overlay
  <2> QED
    BY <1>7, <2>1 DEF Write
<1>8. CASE Replace(t)
  <2>1. acked' \in [Rules -> {"present", "absent", "unknown"}]
    BY <1>8, AcknowledgedType DEF Replace, Return
  <2>2. unsaved' \subseteq Rules
    BY <1>8, UnsavedType DEF Replace
  <2> QED
    BY <1>8, <2>1, <2>2 DEF Replace, Return
<1>9. CASE SaveFails(t)
  <2>1. acked' \in [Rules -> {"present", "absent", "unknown"}]
    BY <1>9, AcknowledgedType DEF SaveFails, Return
  <2>2. unsaved' \subseteq Rules
    BY <1>9, UnsavedType DEF SaveFails
  <2>3. content' \in [Inodes -> Payloads \cup {Empty, Corrupt}]
    BY <1>9 DEF SaveFails
  <2> QED
    BY <1>9, <2>1, <2>2, <2>3 DEF SaveFails, Return
<1> QED
  BY <1>1, <1>2, <1>3, <1>4, <1>5, <1>6, <1>7, <1>8, <1>9 DEF Step

\* So does a crash: the threads of the process start over with nothing.
LEMMA CrashTypes ==
    ASSUME TypeOK, OpTypes, InHand, NEW p \in Processes, Crash(p)
    PROVE  TypeOK' /\ OpTypes' /\ InHand'
<1>1. TypeOK'
  BY EmptyStateType DEF Crash, TypeOK, fsVars
<1>2. OpTypes'
  BY DEF Crash, OpTypes
<1>3. ASSUME NEW t \in Threads
      PROVE  /\ pc'[t] \notin {"idle", "exited"} => op'[t] \in Operations
             /\ pc'[t] = "mutate" => targets'[ProcessOf(t)] \in Threads
             /\ pc'[t] = "payload" => self'[t] \in Threads
             /\ pc'[t] \in {"open", "write"} => payload'[t] \in Payloads
  <2>1. CASE ProcessOf(t) = p
    BY <2>1 DEF Crash
  <2>2. CASE ProcessOf(t) # p
    <3>1. targets'[ProcessOf(t)] = targets[ProcessOf(t)]
      BY <2>2, ProcessType DEF Crash, TypeOK
    <3> QED
      BY <2>2, <3>1 DEF Crash, InHand
  <2> QED
    BY <2>1, <2>2
<1> QED
  BY <1>1, <1>2, <1>3 DEF InHand

LEMMA TypesStep ==
    ASSUME TypeOK, OpTypes, InHand, [Next]_vars
    PROVE  TypeOK' /\ OpTypes' /\ InHand'
<1>1. CASE UNCHANGED vars
  BY <1>1 DEF vars, TypeOK, OpTypes, InHand
<1> QED
  BY <1>1, StepTypes, CrashTypes DEF Next

LEMMA TypesInit == Init => TypeOK /\ OpTypes /\ InHand
BY EmptyStateType DEF Init, TypeOK, OpTypes, InHand

\* Type correctness for any number of threads of the daemon and of CLI processes: in
\* particular no thread ever works on a registry that was not constructed, and none
\* ever holds what _load could not read.
THEOREM StoreTypes == Spec => []TypeOK
<1> QED
  BY TypesInit, TypesStep, PTL DEF Spec

-----------------------------------------------------------------------------
(* One thread that saves. *)

OneSaver == \A t, u \in Threads : t = u

\* The names of the files, and what the temporary file holds while it matters.
FilesApart ==
    /\ tmpName # None => tmpName # pathName
    /\ \A t \in Threads :
         /\ pc[t] = "write" => /\ fd[t] = tmpName /\ tmpName # None
                               /\ content[tmpName] = Empty
         /\ pc[t] = "replace" => tmpName # None /\ content[tmpName] = payload[t]

\* The operation of t is about rule r.
About(t, r) == op[t].kind # "session" /\ r = op[t].rule

\* Memory and disk agree on the rules whose save has not failed, except on the one
\* that is being changed; what was told is in memory.
InStepOf(t) ==
    /\ targets[ProcessOf(t)] \in {None, t}
    /\ targets[ProcessOf(t)] = None => unsaved = {}
    /\ pc[t] \in {"construct", "assign"} => targets[ProcessOf(t)] = None
    /\ pc[t] = "assign" => registry[t] = Load
    /\ targets[ProcessOf(t)] = t /\ pc[t] \in {"idle", "mutate"} =>
         \A r \in Rules \ unsaved : r \in registry[t].rules <=> r \in Load.rules
    /\ pc[t] \in {"payload", "open", "write", "replace"} =>
         /\ targets[ProcessOf(t)] = t /\ self[t] = t
         /\ \A r \in Rules \ unsaved :
              About(t, r) \/ (r \in registry[t].rules <=> r \in Load.rules)
         /\ op[t].kind = "add" => op[t].rule \in registry[t].rules
         /\ op[t].kind = "remove" => op[t].rule \notin registry[t].rules
    /\ pc[t] \in {"open", "write", "replace"} => payload[t] = registry[t]

\* What was told is in memory; of the rule that is being changed nothing is told.
ToldOf(t) ==
    /\ pc[t] \notin {"idle", "exited"} =>
         \A r \in Rules : About(t, r) => acked[r] = "unknown"
    /\ targets[ProcessOf(t)] = t =>
         \A r \in Rules : /\ acked[r] = "present" => r \in registry[t].rules
                          /\ acked[r] = "absent" => r \notin registry[t].rules

Told == \A t \in Threads : ToldOf(t)

InStep == \A t \in Threads : InStepOf(t)

\* What the disk holds changes only with the names and the content of <path>.
LEMMA LoadKept ==
    ASSUME TypeOK, pathName' = pathName, pathName # None => content'[pathName] = content[pathName]
    PROVE  Load' = Load
BY DEF Load, TypeOK

\* What a removal that finds nothing makes of a state: the same state.
LEMMA AppliedNothing ==
    ASSUME NEW o \in Operations, NEW reg \in Payloads, ~NeedsSave(o, reg)
    PROVE  Applied(o, reg) = reg /\ o.kind = "remove" /\ o.rule \notin reg.rules
<1>1. o.kind = "remove" /\ o.rule \notin reg.rules
  BY DEF NeedsSave
<1>2. Applied(o, reg) = [reg EXCEPT !.rules = @ \ {o.rule}]
  BY <1>1 DEF Applied
<1>3. reg.rules \ {o.rule} = reg.rules
  BY <1>1
<1> QED
  BY <1>1, <1>2, <1>3 DEF Payloads

\* What an operation does to the rules of a state.
LEMMA AppliedRules ==
    ASSUME NEW o \in Operations, NEW reg \in Payloads
    PROVE  Applied(o, reg).rules = CASE o.kind = "add" -> reg.rules \cup {o.rule}
                                     [] o.kind = "remove" -> reg.rules \ {o.rule}
                                     [] o.kind = "session" -> reg.rules
<1>1. CASE o.kind = "add"
  BY <1>1 DEF Applied, Payloads
<1>2. CASE o.kind = "remove"
  BY <1>2 DEF Applied, Payloads
<1>3. CASE o.kind = "session"
  BY <1>3 DEF Applied, Payloads
<1> QED
  BY <1>1, <1>2, <1>3 DEF Operations, SessionOp

\* An operation changes no rule but its own.
LEMMA OnlyItsRule ==
    ASSUME NEW t \in Threads, op[t] \in Operations, NEW reg \in Payloads
    PROVE  /\ \A r \in Rules : About(t, r) \/ (r \in Applied(op[t], reg).rules <=> r \in reg.rules)
           /\ op[t].kind = "add" => op[t].rule \in Applied(op[t], reg).rules
           /\ op[t].kind = "remove" => op[t].rule \notin Applied(op[t], reg).rules
<1>1. CASE op[t].kind = "add"
  <2>1. Applied(op[t], reg).rules = reg.rules \cup {op[t].rule}
    BY <1>1, AppliedRules
  <2> QED
    BY <1>1, <2>1 DEF About
<1>2. CASE op[t].kind = "remove"
  <2>1. Applied(op[t], reg).rules = reg.rules \ {op[t].rule}
    BY <1>2, AppliedRules
  <2> QED
    BY <1>2, <2>1 DEF About
<1>3. CASE op[t].kind = "session"
  <2>1. Applied(op[t], reg).rules = reg.rules
    BY <1>3, AppliedRules
  <2> QED
    BY <1>3, <2>1 DEF About
<1> QED
  BY <1>1, <1>2, <1>3 DEF Operations, SessionOp

\* A step of the thread that saves: the temporary file is its own.
LEMMA SaverFiles ==
    ASSUME OneSaver, TypeOK, FilesApart, NEW t \in Threads, Step(t)
    PROVE  FilesApart'
<1>1. ASSUME NEW u \in Threads
      PROVE  u = t
  BY DEF OneSaver
<1>2. CASE \E o \in OpsOf(t) : Begin(t, o)
  BY <1>1, <1>2 DEF Begin, TypeOK, FilesApart, fsVars
<1>3. CASE Construct(t) \/ Assign(t)
  BY <1>1, <1>3 DEF Construct, Assign, TypeOK, FilesApart, fsVars
<1>4. CASE Mutate(t)
  BY <1>1, <1>4 DEF Mutate, Return, TypeOK, FilesApart, fsVars
<1>5. CASE ComputePayload(t)
  BY <1>1, <1>5 DEF ComputePayload, TypeOK, FilesApart, fsVars
<1>6. CASE OpenTmp(t)
  <2>1. PICK i \in Inodes :
          /\ IF tmpName = None THEN FreeInode(i) ELSE i = tmpName
          /\ tmpName' = i
          /\ fd' = [fd EXCEPT ![t] = i]
          /\ content' = [content EXCEPT ![i] = Empty]
    BY <1>6 DEF OpenTmp
  <2>2. i # None /\ i # pathName
    BY <2>1 DEF FreeInode, FilesApart
  <2>3. pathName' = pathName /\ pc' = [pc EXCEPT ![t] = "write"]
    BY <1>6 DEF OpenTmp
  <2>4. pc'[t] = "write" /\ fd'[t] = i /\ content'[i] = Empty
    BY <2>1, <2>3 DEF TypeOK
  <2> QED
    BY <1>1, <2>1, <2>2, <2>3, <2>4 DEF FilesApart
<1>7. CASE Write(t)
  <2>1. /\ fd[t] = tmpName /\ tmpName # None /\ content[tmpName] = Empty
        /\ tmpName \in Inodes
    BY <1>7 DEF Write, FilesApart, TypeOK
  <2>2. content'[tmpName] = payload[t]
    BY <1>7, <2>1, StoreAssumption DEF Write, Overlay, TypeOK
  <2> QED
    BY <1>1, <1>7, <2>1, <2>2 DEF Write, TypeOK, FilesApart
<1>8. CASE Replace(t)
  BY <1>1, <1>8 DEF Replace, Return, TypeOK, FilesApart
<1>9. CASE SaveFails(t)
  BY <1>1, <1>9 DEF SaveFails, Return, TypeOK, FilesApart
<1> QED
  BY <1>2, <1>3, <1>4, <1>5, <1>6, <1>7, <1>8, <1>9 DEF Step

\* Only the rename changes what a restart would find, and it makes it what the thread
\* has in memory.
LEMMA SaverDisk ==
    ASSUME OneSaver, TypeOK, InHand, FilesApart, InStep, NEW t \in Threads, Step(t)
    PROVE  /\ ~Replace(t) => Load' = Load
           /\ Replace(t) => /\ Load' = payload[t] /\ payload[t] = registry[t]
                            /\ unsaved' = {}
<1>1. CASE OpenTmp(t)
  <2>1. PICK i \in Inodes :
          /\ IF tmpName = None THEN FreeInode(i) ELSE i = tmpName
          /\ content' = [content EXCEPT ![i] = Empty]
    BY <1>1 DEF OpenTmp
  <2>2. i # pathName /\ pathName' = pathName /\ pc[t] = "open"
    BY <1>1, <2>1 DEF OpenTmp, FreeInode, FilesApart
  <2>3. pathName # None => content'[pathName] = content[pathName]
    BY <2>1, <2>2 DEF TypeOK
  <2> QED
    BY <2>2, <2>3, LoadKept DEF Replace
<1>2. CASE Write(t)
  <2>1. fd[t] # pathName /\ pathName' = pathName /\ pc[t] = "write"
    BY <1>2 DEF Write, FilesApart
  <2>2. pathName # None => content'[pathName] = content[pathName]
    BY <1>2, <2>1 DEF Write, TypeOK
  <2> QED
    BY <2>1, <2>2, LoadKept DEF Replace
<1>3. CASE Replace(t)
  <2>1. tmpName # None /\ content[tmpName] = payload[t] /\ payload[t] = registry[t]
    BY <1>3 DEF Replace, FilesApart, InStep, InStepOf
  <2>2. pathName' = tmpName /\ content' = content /\ unsaved' = {}
    BY <1>3, <2>1 DEF Replace
  <2>3. payload[t] \in Payloads
    BY <1>3 DEF Replace, InStep, InStepOf, TypeOK
  <2> QED
    BY <1>3, <2>1, <2>2, <2>3 DEF Load
<1>5. CASE SaveFails(t)
  <2>1. pathName' = pathName /\ (pc[t] = "write" => fd[t] # pathName)
    BY <1>5 DEF SaveFails, FilesApart
  <2>2. pathName # None => content'[pathName] = content[pathName]
    BY <1>5, <2>1 DEF SaveFails, TypeOK
  <2>3. Load' = Load
    BY <2>1, <2>2, LoadKept
  <2> QED
    BY <2>3, <1>3
<1>4. CASE ~(OpenTmp(t) \/ Write(t) \/ Replace(t) \/ SaveFails(t))
  <2>1. pathName' = pathName /\ content' = content
    BY <1>4 DEF Step, Begin, Construct, Assign, Mutate, ComputePayload, fsVars
  <2> QED
    BY <1>4, <2>1, LoadKept
<1> QED
  BY <1>1, <1>2, <1>3, <1>4, <1>5

\* A step of the thread that saves: memory and disk agree but for what could not be
\* saved and for the rule that is being changed.
LEMMA SaverInStep ==
    ASSUME OneSaver, TypeOK, OpTypes, InHand, FilesApart, InStep, NEW t \in Threads, Step(t)
    PROVE  InStep'
<1> SUFFICES InStepOf(t)'
  BY DEF OneSaver, InStep
<1>0. ProcessOf(t) \in Processes /\ InStepOf(t) /\ t # None
  BY ProcessType, StoreAssumption DEF InStep
<1>1. ASSUME NEW o \in OpsOf(t), Begin(t, o)
      PROVE  InStepOf(t)'
  <2>1. Load' = Load
    BY <1>1, LoadKept DEF Begin, fsVars
  <2>2. /\ UNCHANGED <<targets, registry, unsaved>>
        /\ pc[t] = "idle"
        /\ pc'[t] = IF targets[ProcessOf(t)] = None THEN "construct" ELSE "mutate"
    BY <1>1 DEF Begin, TypeOK
  <2> QED
    BY <1>0, <2>1, <2>2 DEF InStepOf
<1>2. CASE Construct(t)
  <2>1. Load' = Load
    BY <1>2, LoadKept DEF Construct, fsVars
  <2>2. /\ UNCHANGED <<targets, unsaved>> /\ pc[t] = "construct" /\ pc'[t] = "assign"
        /\ registry'[t] = Load
    BY <1>2 DEF Construct, TypeOK
  <2> QED
    BY <1>0, <2>1, <2>2 DEF InStepOf
<1>3. CASE Assign(t)
  <2>1. Load' = Load
    BY <1>3, LoadKept DEF Assign, fsVars
  <2>2. /\ UNCHANGED <<registry, unsaved>> /\ pc[t] = "assign" /\ pc'[t] = "mutate"
        /\ targets'[ProcessOf(t)] = t
    BY <1>0, <1>3 DEF Assign, TypeOK
  <2> QED
    BY <1>0, <2>1, <2>2 DEF InStepOf
<1>4. CASE Mutate(t)
  <2>1. Load' = Load
    BY <1>4, LoadKept DEF Mutate, fsVars
  <2>2. /\ pc[t] = "mutate" /\ UNCHANGED <<targets, unsaved>>
        /\ targets[ProcessOf(t)] \in Threads /\ op[t] \in Operations
    BY <1>4 DEF Mutate, InHand
  <2>3. /\ targets[ProcessOf(t)] = t /\ registry[t] \in Payloads
        /\ \A r \in Rules \ unsaved : r \in registry[t].rules <=> r \in Load.rules
    BY <1>0, <2>2 DEF OneSaver, InStepOf, TypeOK
  <2>4. self'[t] = t /\ registry'[t] = Applied(op[t], registry[t])
    BY <1>4, <2>3 DEF Mutate, TypeOK
  <2>5. CASE NeedsSave(op[t], registry[t])
    <3>1. pc'[t] = "payload" /\ op' = op
      BY <1>4, <2>3, <2>5 DEF Mutate, TypeOK
    <3>2. /\ \A r \in Rules : \/ About(t, r)
                              \/ r \in registry'[t].rules <=> r \in registry[t].rules
          /\ op[t].kind = "add" => op[t].rule \in registry'[t].rules
          /\ op[t].kind = "remove" => op[t].rule \notin registry'[t].rules
      BY <2>2, <2>3, <2>4, OnlyItsRule
    <3>3. \A r : About(t, r)' <=> About(t, r)
      BY <3>1 DEF About
    <3> QED
      BY <2>1, <2>2, <2>3, <2>4, <3>1, <3>2, <3>3, <1>0 DEF InStepOf
  <2>6. CASE ~NeedsSave(op[t], registry[t])
    <3>1. pc'[t] = "idle"
      BY <1>4, <2>3, <2>6 DEF Mutate, Return, TypeOK
    <3>2. Applied(op[t], registry[t]) = registry[t]
      BY <2>2, <2>3, <2>6, AppliedNothing
    <3> QED
      BY <2>1, <2>2, <2>3, <2>4, <3>1, <3>2, <1>0 DEF InStepOf
  <2> QED
    BY <2>5, <2>6
<1>5. CASE ComputePayload(t)
  <2>1. Load' = Load
    BY <1>5, LoadKept DEF ComputePayload, fsVars
  <2>2. /\ UNCHANGED <<targets, registry, op, self, unsaved>>
        /\ pc[t] = "payload" /\ pc'[t] = "open"
        /\ payload'[t] = registry[self[t]]
    BY <1>5 DEF ComputePayload, TypeOK
  <2> QED
    BY <1>0, <2>1, <2>2 DEF InStepOf, About
<1>6. CASE OpenTmp(t)
  <2>1. /\ UNCHANGED <<targets, registry, op, self, payload, unsaved>>
        /\ pc[t] = "open" /\ pc'[t] = "write"
    BY <1>6 DEF OpenTmp, TypeOK
  <2>2. Load' = Load
    BY <2>1, SaverDisk DEF Replace
  <2> QED
    BY <1>0, <2>1, <2>2 DEF InStepOf, About
<1>7. CASE Write(t)
  <2>1. /\ UNCHANGED <<targets, registry, op, self, payload, unsaved>>
        /\ pc[t] = "write" /\ pc'[t] = "replace"
    BY <1>7 DEF Write, TypeOK
  <2>2. Load' = Load
    BY <2>1, SaverDisk DEF Replace
  <2> QED
    BY <1>0, <2>1, <2>2 DEF InStepOf, About
<1>8. CASE Replace(t)
  <2>1. /\ UNCHANGED <<targets, registry, self>>
        /\ pc[t] = "replace" /\ pc'[t] = "idle"
    BY <1>8 DEF Replace, Return, TypeOK
  <2>2. Load' = registry[t] /\ unsaved' = {}
    BY <1>8, SaverDisk
  <2> QED
    BY <1>0, <2>1, <2>2 DEF InStepOf
<1>9. CASE SaveFails(t)
  <2>1. /\ UNCHANGED <<targets, registry, self>>
        /\ pc[t] \in {"payload", "open", "write", "replace"} /\ pc'[t] = "idle"
        /\ unsaved' = StillUnsaved(t)
    BY <1>9 DEF SaveFails, Return, TypeOK
  <2>2. Load' = Load
    <3>1. CASE Replace(t)
      BY <3>1, <1>9 DEF Replace, SaveFails, FilesApart
    <3> QED
      BY <3>1, SaverDisk
  <2>3. \A r \in Rules \ unsaved' : r \in Rules \ unsaved /\ ~About(t, r)
    BY <2>1 DEF StillUnsaved, About
  <2> QED
    BY <1>0, <2>1, <2>2, <2>3 DEF InStepOf
<1> QED
  BY <1>1, <1>2, <1>3, <1>4, <1>5, <1>6, <1>7, <1>8, <1>9 DEF Step

\* A crash of its process leaves the files as they are, and nothing in memory.
LEMMA CrashKeeps ==
    ASSUME OneSaver, TypeOK, FilesApart, InStep, NEW p \in Processes, Crash(p)
    PROVE  /\ FilesApart' /\ InStep' /\ Told' /\ Load' = Load /\ targets'[p] = None
           /\ AckedIsDurable => AckedIsDurable'
<1>1. PICK t \in Threads : ProcessOf(t) = p
  BY DEF Crash
<1>2. /\ pc'[t] \in {"idle", "exited"} /\ targets'[ProcessOf(t)] = None
      /\ UNCHANGED <<content, tmpName, pathName>> /\ unsaved' = {}
  BY <1>1 DEF Crash, TypeOK, fsVars
<1>3. Load' = Load
  BY <1>2, LoadKept
<1>4. InStepOf(t)' /\ ToldOf(t)'
  BY <1>2, StoreAssumption DEF InStepOf, ToldOf
<1>5. \A u \in Threads : u = t
  BY DEF OneSaver
<1>6. ASSUME AckedIsDurable PROVE AckedIsDurable'
  BY <1>3, <1>6 DEF AckedIsDurable, Crash
<1> QED
  BY <1>1, <1>2, <1>3, <1>4, <1>5, <1>6 DEF FilesApart, InStep, Told

\* What the answer of an operation adds to what was told.
LEMMA ToldRules ==
    ASSUME TypeOK, NEW t \in Threads, op[t] \in Operations, NEW r \in Rules
    PROVE  /\ ~About(t, r) => Acknowledged(t)[r] = acked[r]
           /\ About(t, r) => \/ op[t].kind = "add" /\ Acknowledged(t)[r] = "present"
                             \/ op[t].kind = "remove" /\ Acknowledged(t)[r] = "absent"
<1>1. CASE op[t].kind = "add"
  BY <1>1 DEF Acknowledged, About, TypeOK
<1>2. CASE op[t].kind = "remove"
  BY <1>2 DEF Acknowledged, About, TypeOK
<1>3. CASE op[t].kind = "session"
  BY <1>3 DEF Acknowledged, About, TypeOK
<1> QED
  BY <1>1, <1>2, <1>3 DEF Operations, SessionOp

\* The thread that saves answers when its memory agrees, and the disk with it unless
\* the save failed.
LEMMA SaverDurable ==
    ASSUME OneSaver, TypeOK, OpTypes, InHand, FilesApart, InStep, Told, AckedIsDurable,
           NEW t \in Threads, Step(t)
    PROVE  Told' /\ AckedIsDurable'
<1> SUFFICES ToldOf(t)' /\ AckedIsDurable'
  BY DEF OneSaver, Told
<1>0. InStepOf(t) /\ ToldOf(t) /\ ProcessOf(t) \in Processes /\ t # None
  BY ProcessType, StoreAssumption DEF InStep, Told
<1>1. ASSUME NEW o \in OpsOf(t), Begin(t, o)
      PROVE  ToldOf(t)' /\ AckedIsDurable'
  <2>1. Load' = Load /\ UNCHANGED <<targets, registry, unsaved>>
    BY <1>1, LoadKept DEF Begin, fsVars
  <2>2. \A r \in Rules : acked'[r] \in {acked[r], "unknown"}
    BY <1>1 DEF Begin, TypeOK
  <2>3. op'[t] = o
    BY <1>1 DEF Begin, OpTypes
  <2>4. \A r \in Rules : About(t, r)' => acked'[r] = "unknown"
    BY <1>1, <2>3 DEF Begin, About, TypeOK
  <2> QED
    BY <1>0, <2>1, <2>2, <2>4 DEF AckedIsDurable, ToldOf
<1>2. CASE Construct(t)
  <2>1. /\ UNCHANGED <<targets, unsaved, acked, op>> /\ pc[t] = "construct"
        /\ Load' = Load
    BY <1>2, LoadKept DEF Construct, fsVars
  <2>2. targets[ProcessOf(t)] = None
    BY <1>0, <2>1 DEF InStepOf
  <2> QED
    BY <1>0, <2>1, <2>2 DEF ToldOf, About, AckedIsDurable
<1>3. CASE Assign(t)
  <2>1. /\ UNCHANGED <<registry, unsaved, acked, op>> /\ pc[t] = "assign"
        /\ Load' = Load
    BY <1>3, LoadKept DEF Assign, fsVars
  <2>2. unsaved = {} /\ registry[t] = Load
    BY <1>0, <2>1 DEF InStepOf
  <2> QED
    BY <1>0, <2>1, <2>2 DEF ToldOf, About, AckedIsDurable
<1>4. CASE Mutate(t)
  <2>1. Load' = Load /\ UNCHANGED <<targets, unsaved>>
    BY <1>4, LoadKept DEF Mutate, fsVars
  <2>2. op[t] \in Operations /\ targets[ProcessOf(t)] \in Threads /\ pc[t] = "mutate"
    BY <1>4 DEF Mutate, InHand
  <2>3. /\ targets[ProcessOf(t)] = t /\ registry[t] \in Payloads
        /\ \A r \in Rules \ unsaved : r \in registry[t].rules <=> r \in Load.rules
    BY <1>0, <2>2 DEF OneSaver, InStepOf, TypeOK
  <2>4. registry'[t] = Applied(op[t], registry[t])
    BY <1>4, <2>3 DEF Mutate, TypeOK
  <2>5. \A r \in Rules : About(t, r) => acked[r] = "unknown"
    BY <1>0, <2>2 DEF ToldOf
  <2>6. CASE NeedsSave(op[t], registry[t])
    <3>1. UNCHANGED <<acked, op>>
      BY <1>4, <2>3, <2>6 DEF Mutate
    <3>2. \A r \in Rules : \/ About(t, r)
                           \/ r \in registry'[t].rules <=> r \in registry[t].rules
      BY <2>2, <2>3, <2>4, OnlyItsRule
    <3>3. \A r \in Rules : /\ acked[r] = "present" => r \in registry'[t].rules
                           /\ acked[r] = "absent" => r \notin registry'[t].rules
      BY <1>0, <2>3, <2>5, <3>2 DEF ToldOf
    <3>4. \A r \in Rules : About(t, r)' => acked'[r] = "unknown"
      BY <2>5, <3>1 DEF About
    <3> QED
      BY <2>1, <2>3, <3>1, <3>3, <3>4 DEF ToldOf, AckedIsDurable
  <2>7. CASE ~NeedsSave(op[t], registry[t])
    <3>1. acked' = Acknowledged(t) /\ pc'[t] = "idle"
      BY <1>4, <2>3, <2>7 DEF Mutate, Return, TypeOK
    <3>2. /\ Applied(op[t], registry[t]) = registry[t] /\ op[t].kind = "remove"
          /\ op[t].rule \notin registry[t].rules
      BY <2>2, <2>3, <2>7, AppliedNothing
    <3>3. \A r \in Rules : /\ acked'[r] = "present" => r \in registry[t].rules
                           /\ acked'[r] = "absent" => r \notin registry[t].rules
      <4> TAKE r \in Rules
      <4>1. CASE About(t, r)
        BY <2>2, <3>1, <3>2, <4>1, ToldRules DEF About
      <4>2. CASE ~About(t, r)
        BY <1>0, <2>2, <2>3, <3>1, <4>2, ToldRules DEF ToldOf
      <4> QED
        BY <4>1, <4>2
    <3>4. ToldOf(t)'
      BY <2>4, <3>1, <3>2, <3>3 DEF ToldOf
    <3>5. AckedIsDurable'
      BY <2>1, <2>3, <3>3 DEF AckedIsDurable
    <3> QED
      BY <3>4, <3>5
  <2> QED
    BY <2>6, <2>7
<1>5. CASE ComputePayload(t) \/ OpenTmp(t) \/ Write(t)
  <2>1. /\ UNCHANGED <<acked, unsaved, targets, registry, op>>
        /\ pc[t] \in {"payload", "open", "write"}
    BY <1>5 DEF ComputePayload, OpenTmp, Write
  <2>2. Load' = Load
    BY <2>1, SaverDisk DEF Replace
  <2> QED
    BY <1>0, <2>1, <2>2 DEF AckedIsDurable, ToldOf, About
<1>6. CASE Replace(t) \/ SaveFails(t)
  <2>1. /\ op[t] \in Operations /\ acked' = Acknowledged(t) /\ pc'[t] = "idle"
        /\ pc[t] \in {"payload", "open", "write", "replace"}
        /\ UNCHANGED <<targets, registry>>
    BY <1>6 DEF Replace, SaveFails, Return, InHand, TypeOK
  <2>2. /\ targets[ProcessOf(t)] = t
        /\ op[t].kind = "add" => op[t].rule \in registry[t].rules
        /\ op[t].kind = "remove" => op[t].rule \notin registry[t].rules
    BY <1>0, <2>1 DEF InStepOf
  <2>3. \A r \in Rules : /\ acked'[r] = "present" => r \in registry[t].rules
                         /\ acked'[r] = "absent" => r \notin registry[t].rules
    <3> TAKE r \in Rules
    <3>1. CASE About(t, r)
      BY <2>1, <2>2, <3>1, ToldRules DEF About
    <3>2. CASE ~About(t, r)
      BY <1>0, <2>1, <2>2, <3>2, ToldRules DEF ToldOf
    <3> QED
      BY <3>1, <3>2
  <2>4. ToldOf(t)'
    BY <2>1, <2>3 DEF ToldOf
  <2>5. CASE Replace(t)
    BY <2>3, <2>4, <2>5, SaverDisk DEF AckedIsDurable
  <2>6. CASE SaveFails(t) /\ ~Replace(t)
    <3>1. Load' = Load
      BY <2>6, SaverDisk
    <3>2. \A r \in Rules \ unsaved' : r \in Rules \ unsaved /\ acked'[r] = acked[r]
      BY <2>1, <2>6, ToldRules DEF SaveFails, StillUnsaved, About
    <3> QED
      BY <2>4, <3>1, <3>2 DEF AckedIsDurable
  <2> QED
    BY <1>6, <2>5, <2>6
<1> QED
  BY <1>1, <1>2, <1>3, <1>4, <1>5, <1>6 DEF Step

\* The inductive invariant of a store with one thread that saves.
OneSaverInv ==
    TypeOK /\ OpTypes /\ InHand /\ FilesApart /\ InStep /\ Told /\ AckedIsDurable

LEMMA OneSaverInit ==
    ASSUME Init
    PROVE  OneSaverInv /\ Load = EmptyState
<1>1. TypeOK /\ OpTypes /\ InHand
  BY TypesInit
<1>2. FilesApart
  BY DEF Init, FilesApart
<1>3. InStep /\ Told
  BY ProcessType, StoreAssumption DEF Init, InStep, InStepOf, Told, ToldOf
<1>4. Load = EmptyState
  BY DEF Init, Load
<1>5. AckedIsDurable
  BY <1>4 DEF Init, AckedIsDurable, EmptyState
<1> QED
  BY <1>1, <1>2, <1>3, <1>4, <1>5 DEF OneSaverInv

LEMMA OneSaverStep ==
    ASSUME OneSaver, OneSaverInv, [Next]_vars
    PROVE  OneSaverInv'
<1> USE DEF OneSaverInv
<1>1. TypeOK' /\ OpTypes' /\ InHand'
  BY TypesStep
<1>2. CASE UNCHANGED vars
  <2>1. Load' = Load
    BY <1>2, LoadKept DEF vars
  <2>2. FilesApart' /\ AckedIsDurable'
    BY <1>2, <2>1 DEF vars, FilesApart, AckedIsDurable
  <2>3. InStep' /\ Told'
    BY <1>2, <2>1 DEF vars, InStep, InStepOf, Told, ToldOf, About
  <2> QED
    BY <1>1, <2>2, <2>3
<1>3. ASSUME NEW t \in Threads, Step(t)
      PROVE  FilesApart' /\ InStep' /\ Told' /\ AckedIsDurable'
  BY <1>3, SaverFiles, SaverInStep, SaverDurable
<1>4. ASSUME NEW p \in Processes, Crash(p)
      PROVE  FilesApart' /\ InStep' /\ Told' /\ AckedIsDurable'
  BY <1>4, CrashKeeps
<1> QED
  BY <1>1, <1>2, <1>3, <1>4 DEF Next

\* With one thread that saves, what add_rule and remove_rule have answered survives a
\* crash between any two steps of any save, for any rules and any number of restarts,
\* unless that answer's save failed and no save has succeeded since.
THEOREM AnswersAreDurable ==
    ASSUME OneSaver
    PROVE  Spec => []AckedIsDurable
<1>1. Init => OneSaverInv
  BY OneSaverInit
<1>2. OneSaverInv /\ [Next]_vars => OneSaverInv'
  BY OneSaverStep
<1>3. OneSaverInv => AckedIsDurable
  BY DEF OneSaverInv
<1> QED
  BY <1>1, <1>2, <1>3, PTL DEF Spec

-----------------------------------------------------------------------------
(* _save implements an atomic register. *)

OneDaemonThread == OneSaver /\ Clis = {}

\* What the register's memory is: nothing, or the registry of the daemon's thread.
Memory == IF targets["daemon"] = None THEN None ELSE registry[targets["daemon"]]

LEMMA DaemonThread ==
    ASSUME OneDaemonThread, NEW t \in Threads
    PROVE  ProcessOf(t) = "daemon" /\ OneSaver
BY DEF OneDaemonThread, Threads, ProcessOf

\* A step of the thread is a step of the register, or none.
LEMMA StepRefines ==
    ASSUME OneDaemonThread, OneSaverInv, NEW t \in Threads, Step(t)
    PROVE  \/ Memory = None /\ Memory' = Load /\ Load' = Load
           \/ Memory # None /\ Memory' \in Payloads /\ Load' = Load
           \/ Memory # None /\ Load' = Memory /\ Memory' = Memory
           \/ Memory' = Memory /\ Load' = Load
<1> USE DEF OneSaverInv
<1>0. OneSaver /\ ProcessOf(t) = "daemon" /\ InStepOf(t) /\ t # None
  BY DaemonThread, StoreAssumption DEF InStep
<1>1. targets["daemon"] = t => Memory = registry[t] /\ Memory \in Payloads /\ Memory # None
  BY <1>0, StoreAssumption DEF Memory, TypeOK
<1>2. ~Replace(t) => Load' = Load
  BY <1>0, SaverDisk
<1>3. CASE Replace(t)
  <2>1. targets["daemon"] = t /\ payload[t] = registry[t] /\ UNCHANGED <<targets, registry>>
    BY <1>0, <1>3 DEF Replace, InStepOf
  <2>2. Load' = payload[t]
    BY <1>0, <1>3, SaverDisk
  <2> QED
    BY <1>1, <2>1, <2>2 DEF Memory
<1>4. CASE Assign(t)
  <2>1. /\ targets["daemon"] = None /\ registry[t] = Load /\ registry' = registry
        /\ targets'["daemon"] = t /\ pc[t] = "assign"
    BY <1>0, <1>4 DEF Assign, InStepOf, TypeOK, Processes
  <2> QED
    BY <1>0, <1>2, <2>1 DEF Memory, Replace
<1>5. CASE Mutate(t)
  <2>1. targets["daemon"] = t /\ targets' = targets /\ pc[t] = "mutate"
    BY <1>0, <1>5 DEF Mutate, InHand, OneSaver
  <2>2. registry' \in [Threads -> Payloads]
    BY <1>5, StepTypes DEF TypeOK
  <2> QED
    BY <1>0, <1>1, <1>2, <2>1, <2>2 DEF Memory, Replace
<1>6. CASE Construct(t)
  <2>1. targets["daemon"] = None /\ targets' = targets /\ pc[t] = "construct"
    BY <1>0, <1>6 DEF Construct, InStepOf
  <2> QED
    BY <1>2, <2>1 DEF Memory, Replace
<1>7. CASE ComputePayload(t) \/ OpenTmp(t) \/ Write(t) \/ \E o \in OpsOf(t) : Begin(t, o)
  <2>1. UNCHANGED <<targets, registry>> /\ pc[t] # "replace"
    BY <1>7 DEF ComputePayload, OpenTmp, Write, Begin
  <2> QED
    BY <1>2, <2>1 DEF Memory, Replace
<1>8. CASE SaveFails(t)
  BY <1>2, <1>3, <1>8 DEF Memory, SaveFails
<1> QED
  BY <1>3, <1>4, <1>5, <1>6, <1>7, <1>8 DEF Step

\* Every step is a step of the abstract register of StateRegister.
LEMMA NextRefines ==
    ASSUME OneDaemonThread, OneSaverInv, [Next]_vars
    PROVE  [Register!Next]_(Register!vars)
<1> USE DEF Register!Next, Register!Load, Register!Change, Register!Persist, Register!Crash,
            Register!vars
<1>1. CASE UNCHANGED vars
  <2>1. Load' = Load
    BY <1>1, LoadKept DEF vars, OneSaverInv
  <2> QED
    BY <1>1, <2>1 DEF vars
<1>2. ASSUME NEW t \in Threads, Step(t)
      PROVE  [Register!Next]_(Register!vars)
  BY <1>2, StepRefines DEF Memory
<1>3. ASSUME NEW p \in Processes, Crash(p)
      PROVE  [Register!Next]_(Register!vars)
  <2>1. p = "daemon" /\ OneSaver
    BY DEF OneDaemonThread, Processes
  <2>2. Load' = Load /\ targets'["daemon"] = None
    BY <1>3, <2>1, CrashKeeps DEF OneSaverInv
  <2> QED
    BY <2>2
<1> QED
  BY <1>1, <1>2, <1>3 DEF Next

\* With one thread that saves, the four steps of _save and the lazy construction of the
\* registry implement the register: a crash finds the state before or after a save.
THEOREM SaveRefinesRegister ==
    ASSUME OneDaemonThread
    PROVE  Spec => SaveIsAtomic
<1>1. Init => OneSaverInv
  BY OneSaverInit
<1>2. OneSaverInv /\ [Next]_vars => OneSaverInv'
  BY OneSaverStep DEF OneDaemonThread
<1>3. Init => Register!Init
  BY OneSaverInit, EmptyStateType DEF Init, Register!Init, Processes
<1>4. OneSaverInv /\ [Next]_vars => [Register!Next]_(Register!vars)
  BY NextRefines
<1> QED
  BY <1>1, <1>2, <1>3, <1>4, PTL DEF Spec, SaveIsAtomic, Register!Spec
===============================================================================
