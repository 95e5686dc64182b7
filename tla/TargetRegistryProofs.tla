------------------------- MODULE TargetRegistryProofs -------------------------
(***************************************************************************)
(* Proofs about TargetRegistry: RegistryInv is inductive, and the session  *)
(* properties follow from it for every set of processes, rules and bounds. *)
(***************************************************************************)
EXTENDS TargetRegistry, SequenceTheorems, FiniteSetTheorems, TLAPS

(* A function on the positions of a sequence is a sequence of its length. *)
LEMMA MapSeq ==
    ASSUME NEW S, NEW T, NEW s \in Seq(S), NEW f \in [DOMAIN s -> T]
    PROVE  /\ f \in Seq(T)
           /\ Len(f) = Len(s)
           /\ DOMAIN f = DOMAIN s
<1>1. Len(s) \in Nat /\ DOMAIN s = 1 .. Len(s)
  BY LenProperties
<1>2. f \in [1 .. Len(s) -> T]
  BY <1>1
<1>3. f \in Seq(T)
  BY <1>1, <1>2, SeqDef
<1>4. DOMAIN f = 1 .. Len(f) /\ Len(f) \in Nat
  BY <1>3, LenProperties
<1>5. Len(f) = Len(s)
  BY <1>1, <1>2, <1>4
<1> QED
  BY <1>1, <1>2, <1>3, <1>5

(* Changing status and end of sessions in place keeps them distinct. *)
LEMMA InPlace ==
    ASSUME NEW ss, SessionsOK(ss), NEW tt \in [DOMAIN ss -> Session],
           \A i \in DOMAIN ss : /\ tt[i].id = ss[i].id
                                /\ tt[i].pid = ss[i].pid
                                /\ tt[i].start = ss[i].start
    PROVE  /\ SessionsOK(tt)
           /\ DOMAIN tt = DOMAIN ss
           /\ Len(tt) = Len(ss)
           /\ Ids(tt) = Ids(ss)
<1>1. tt \in Seq(Session) /\ DOMAIN tt = DOMAIN ss /\ Len(tt) = Len(ss)
  BY MapSeq DEF SessionsOK
<1>2. DistinctIds(tt)
  BY <1>1 DEF SessionsOK, DistinctIds
<1>3. DistinctProcesses(tt)
  BY <1>1 DEF SessionsOK, DistinctProcesses, Identity
<1>4. Ids(tt) = Ids(ss)
  BY <1>1 DEF Ids
<1> QED
  BY <1>1, <1>2, <1>3, <1>4 DEF SessionsOK

(* What _save keeps of distinct sessions is again distinct sessions. *)
LEMMA KeptOK ==
    ASSUME NEW ss, SessionsOK(ss)
    PROVE  SessionsOK(Kept(ss))
<1>1. CASE Len(ss) <= MaxKept
  BY <1>1 DEF Kept
<1>2. CASE ~(Len(ss) <= MaxKept)
  <2> DEFINE m == Len(ss) - MaxKept + 1
             kk == SubSeq(ss, m, Len(ss))
  <2>1. ss \in Seq(Session) /\ Len(ss) \in Nat /\ DOMAIN ss = 1 .. Len(ss)
    BY LenProperties DEF SessionsOK
  <2>2. m \in 1 .. Len(ss)
    BY <1>2, <2>1, ConstantsAssumption
  <2>3. /\ kk \in Seq(Session)
        /\ Len(kk) = Len(ss) - m + 1
        /\ \A i \in 1 .. Len(ss) - m + 1 : kk[i] = ss[m + i - 1]
    BY <2>1, <2>2, SubSeqProperties
  <2>4. DOMAIN kk = 1 .. Len(ss) - m + 1
    BY <2>3, LenProperties
  <2>5. \A i \in DOMAIN kk : m + i - 1 \in DOMAIN ss /\ kk[i] = ss[m + i - 1]
    BY <2>1, <2>2, <2>3, <2>4
  <2>6. \A i, j \in DOMAIN kk : m + i - 1 = m + j - 1 => i = j
    BY <2>1, <2>2, <2>4
  <2> HIDE DEF m, kk
  <2>7. DistinctIds(kk) /\ DistinctProcesses(kk)
    BY <2>5, <2>6 DEF SessionsOK, DistinctIds, DistinctProcesses
  <2> QED
    BY <1>2, <2>3, <2>7 DEF Kept, SessionsOK, m, kk
<1> QED
  BY <1>1, <1>2

(* _save leaves a well-formed file, whether the disk took it or not. *)
LEMMA SaveOK ==
    ASSUME TypeOK, SessionsOK(file.sessions), NEW rs \in SUBSET Rule,
           NEW ss, SessionsOK(ss), Save(rs, ss)
    PROVE  /\ file' \in [rules: SUBSET Rule, sessions: Seq(Session)]
           /\ SessionsOK(file'.sessions)
<1>1. CASE file' = [rules |-> rs, sessions |-> Kept(ss)]
  BY <1>1, KeptOK DEF SessionsOK
<1>2. CASE file' = file
  BY <1>2 DEF TypeOK
<1> QED
  BY <1>1, <1>2 DEF Save

(* The initial state satisfies the invariant. *)
LEMMA InitOK == Init => RegistryInv
<1> SUFFICES ASSUME Init PROVE RegistryInv
  OBVIOUS
<1>1. SessionsOK(<<>>)
  BY EmptySeq DEF SessionsOK, DistinctIds, DistinctProcesses
<1>2. EmptyDict \in ProcLists /\ DOMAIN EmptyDict = {}
  BY DEF EmptyDict, ProcLists
<1>3. TypeOK
  BY <1>1, <1>2 DEF Init, TypeOK, SessionsOK, EmptyDict
<1>4. DOMAIN sessions = {}
  BY EmptySeq, LenProperties DEF Init
<1> QED
  BY <1>1, <1>2, <1>3, <1>4
  DEF Init, RegistryInv, IndexMatches, VisitedActive, SweptClosed, Vanished,
      OneActivePerPid

(* The event-loop thread may save other rules at any point of refresh(). *)
LEMMA RulesOK ==
    ASSUME RegistryInv, rules' \subseteq Rule, Save(rules', sessions),
           UNCHANGED <<sessions, byIdentity, clock, boots, refreshVars>>
    PROVE  RegistryInv'
<1> USE DEF RegistryInv
<1>1. /\ file' \in [rules: SUBSET Rule, sessions: Seq(Session)]
      /\ SessionsOK(file'.sessions)
  BY SaveOK
<1>2. TypeOK'
  BY <1>1 DEF TypeOK, refreshVars
<1> QED
  BY <1>1, <1>2
  DEF refreshVars, IndexMatches, VisitedActive, SweptClosed, Vanished,
      OneActivePerPid, SessionsOK

(* Nothing is swept: every position of a session is beyond 0. *)
LEMMA NothingSwept ==
    ASSUME NEW S, NEW ss \in Seq(S)
    PROVE  \A i \in DOMAIN ss : i > 0
  BY LenProperties

(* The start of refresh(): nothing is visited yet. *)
LEMMA BeginOK ==
    ASSUME RegistryInv, NEW procs \in ProcLists, RefreshBegin(procs)
    PROVE  RegistryInv'
<1> USE DEF RegistryInv
<1>1. /\ UNCHANGED <<rules, sessions, byIdentity, file, boots>>
      /\ pc' = "refresh" /\ activeIds' = {} /\ swept' = 0 /\ clock' = clock + 1
      /\ todo' = resolve(procs)
      /\ plist' = [pid \in todo' |-> procs[pid]]
  BY DEF RefreshBegin, registryVars
<1>2. todo' \subseteq DOMAIN procs
  BY <1>1 DEF resolve
<1>3. plist' \in ProcLists /\ DOMAIN plist' = todo'
  <2>1. PICK P \in SUBSET Pids : procs \in [P -> Proc]
    BY DEF ProcLists
  <2>2. todo' \in SUBSET Pids /\ plist' \in [todo' -> Proc]
    BY <2>1, <1>1, <1>2
  <2> QED
    BY <2>2 DEF ProcLists
<1>4. TypeOK'
  BY <1>1, <1>3 DEF TypeOK
<1>5. SweptClosed'
  BY <1>1, <1>4, NothingSwept DEF SweptClosed, Vanished, TypeOK
<1> QED
  BY <1>1, <1>3, <1>4, <1>5
  DEF IndexMatches, VisitedActive, OneActivePerPid, SessionsOK

(* What the provers need of a record update. *)
LEMMA FinishOK ==
    ASSUME TypeOK, NEW s \in Session
    PROVE  /\ Finish(s) \in Session
           /\ Finish(s).id = s.id /\ Finish(s).pid = s.pid
           /\ Finish(s).start = s.start /\ Finish(s).cmdline = s.cmdline
           /\ Finish(s).begin = s.begin /\ Finish(s).status = "finished"
  BY DEF Finish, Session, TypeOK

(* The same for a session that is observed again. *)
LEMMA ResumeOK ==
    ASSUME NEW s \in Session
    PROVE  /\ Resume(s) \in Session
           /\ Resume(s).id = s.id /\ Resume(s).pid = s.pid
           /\ Resume(s).start = s.start /\ Resume(s).cmdline = s.cmdline
           /\ Resume(s).begin = s.begin /\ Resume(s).status = "active"
  BY DEF Resume, Session

(* A session id is a sequence of naturals. *)
LEMMA CandidateOK ==
    ASSUME TypeOK, NEW pid \in Pids, NEW start \in Starts, NEW n \in Nat
    PROVE  IdCandidate(pid, start, n) \in Seq(Nat)
<1> DEFINE second == clock \div TicksPerSecond
           suffix == start % SuffixMod
<1>0. \A a \in Nat, b \in Nat \ {0} : a \div b \in Nat /\ a % b \in Nat
  OBVIOUS
<1>1. second \in Nat /\ suffix \in Nat /\ pid \in Nat
  <2>1. /\ clock \in Nat /\ TicksPerSecond \in Nat \ {0}
        /\ start \in Nat /\ SuffixMod \in Nat \ {0} /\ pid \in Nat
    BY ConstantsAssumption DEF TypeOK
  <2> QED
    BY <1>0, <2>1
<1> HIDE DEF second, suffix
<1>2. /\ <<second, pid>> \in Seq(Nat)
      /\ <<second, pid, suffix>> \in Seq(Nat)
      /\ <<second, pid, suffix, n>> \in Seq(Nat)
  BY <1>1
<1> QED
  BY <1>2 DEF IdCandidate, second, suffix

(* Adding a session with a fresh id for a process without one. *)
LEMMA PutOK ==
    ASSUME NEW ss, SessionsOK(ss), NEW s \in Session, s.id \notin Ids(ss),
           \A i \in DOMAIN ss : Identity(ss[i]) # Identity(s)
    PROVE  /\ SessionsOK(Put(ss, s))
           /\ Len(ss) \in Nat
           /\ DOMAIN ss = 1 .. Len(ss)
           /\ DOMAIN Put(ss, s) = 1 .. Len(ss) + 1
           /\ \A i \in DOMAIN ss : Put(ss, s)[i] = ss[i]
           /\ Put(ss, s)[Len(ss) + 1] = s
           /\ Len(Put(ss, s)) = Len(ss) + 1
<1> DEFINE tt == Append(ss, s)
<1>1. Put(ss, s) = tt
  BY DEF Put
<1>2. ss \in Seq(Session) /\ Len(ss) \in Nat /\ DOMAIN ss = 1 .. Len(ss)
  BY LenProperties DEF SessionsOK
<1>3. /\ tt \in Seq(Session) /\ Len(tt) = Len(ss) + 1
      /\ \A i \in DOMAIN ss : tt[i] = ss[i]
      /\ tt[Len(ss) + 1] = s
  BY <1>2, AppendProperties
<1>4. DOMAIN tt = 1 .. Len(ss) + 1
  BY <1>3, LenProperties
<1>5. \A i \in DOMAIN tt : i \in DOMAIN ss \/ i = Len(ss) + 1
  BY <1>2, <1>4
<1> HIDE DEF tt
<1>6. DistinctIds(tt)
  BY <1>3, <1>5 DEF DistinctIds, SessionsOK, Ids
<1>7. DistinctProcesses(tt)
  BY <1>3, <1>5 DEF DistinctProcesses, SessionsOK
<1> QED
  BY <1>1, <1>2, <1>3, <1>4, <1>6, <1>7 DEF SessionsOK

(* The loop body that opens a session. *)
LEMMA NewOK ==
    ASSUME RegistryInv, NEW pid \in Pids, RefreshNew(pid)
    PROVE  /\ RegistryInv'
           /\ Len(sessions) <= Len(sessions')
           /\ \A i \in DOMAIN sessions :
                /\ i \in DOMAIN sessions'
                /\ sessions'[i].id = sessions[i].id
                /\ Identity(sessions'[i]) = Identity(sessions[i])
                /\ sessions'[i].cmdline = sessions[i].cmdline
                /\ sessions'[i].begin = sessions[i].begin
<1> DEFINE proc == plist[pid]
           identity == <<pid, proc.start>>
           closed == CloseReused(sessions, pid, proc.start)
<1>1. PICK n \in 0 .. Len(sessions) :
        /\ PicksCandidate(pid, proc.start, Ids(sessions), n)
        /\ sessions' = Put(closed, NewSession(IdCandidate(pid, proc.start, n),
                                              pid, proc))
        /\ byIdentity' =
             [x \in DOMAIN byIdentity \cup {identity} |->
                IF x = identity THEN IdCandidate(pid, proc.start, n)
                                ELSE byIdentity[x]]
        /\ activeIds' = activeIds \cup {IdCandidate(pid, proc.start, n)}
  BY DEF RefreshNew
<1> DEFINE sid == IdCandidate(pid, proc.start, n)
           new == NewSession(sid, pid, proc)
<1>2. /\ pc = "refresh" /\ pid \in todo /\ ~KnownIdentity(identity)
      /\ todo' = todo \ {pid} /\ Save(rules, sessions')
      /\ UNCHANGED <<rules, clock, boots, pc, plist, swept, snapshot>>
  BY DEF RefreshNew, NextPid
<1>3. /\ TypeOK /\ SessionsOK(sessions) /\ SessionsOK(file.sessions)
      /\ IndexMatches /\ VisitedActive /\ SweptClosed /\ OneActivePerPid
  BY DEF RegistryInv
<1>4. proc \in Proc /\ proc.start \in Starts /\ proc.prog \in Programs
  <2>1. pid \in DOMAIN plist /\ plist \in ProcLists
    BY <1>2, <1>3 DEF TypeOK
  <2>2. proc \in Proc
    BY <2>1 DEF ProcLists
  <2> QED
    BY <2>2 DEF Proc
<1>5. sid \in Seq(Nat) /\ sid \notin Ids(sessions)
  <2>1. n \in Nat
    BY <1>3, LenProperties DEF SessionsOK
  <2> QED
    BY <1>1, <1>3, <1>4, <2>1, CandidateOK DEF PicksCandidate
<1>6. /\ new \in Session /\ new.id = sid /\ new.pid = pid
      /\ new.start = proc.start /\ new.status = "active"
      /\ Identity(new) = identity
  BY <1>3, <1>4, <1>5 DEF NewSession, Session, TypeOK, Identity
<1>7. \A i \in DOMAIN sessions : sessions[i] \in Session
  BY <1>3 DEF SessionsOK
<1>8. /\ DOMAIN closed = DOMAIN sessions
      /\ \A i \in DOMAIN sessions :
           /\ closed[i] \in Session
           /\ closed[i].id = sessions[i].id
           /\ closed[i].pid = sessions[i].pid
           /\ closed[i].start = sessions[i].start
           /\ closed[i].cmdline = sessions[i].cmdline
           /\ closed[i].begin = sessions[i].begin
           /\ closed[i].pid # pid => closed[i] = sessions[i]
  BY <1>3, <1>7, FinishOK DEF CloseReused
<1>9. closed \in [DOMAIN sessions -> Session]
  BY <1>8 DEF CloseReused
<1>10. /\ SessionsOK(closed) /\ Len(closed) = Len(sessions)
       /\ Ids(closed) = Ids(sessions)
  BY <1>3, <1>8, <1>9, InPlace
<1>11. identity \notin DOMAIN byIdentity
  BY <1>2, <1>3 DEF KnownIdentity, IndexMatches, Ids
<1>12. \A i \in DOMAIN closed : Identity(closed[i]) # Identity(new)
  BY <1>3, <1>6, <1>8, <1>11 DEF IndexMatches, Identity
<1> HIDE DEF closed, new, sid, proc
<1>13. /\ SessionsOK(sessions')
       /\ Len(sessions) \in Nat
       /\ DOMAIN sessions = 1 .. Len(sessions)
       /\ DOMAIN sessions' = 1 .. Len(sessions) + 1
       /\ \A i \in DOMAIN sessions : sessions'[i] = closed[i]
       /\ sessions'[Len(sessions) + 1] = new
       /\ Len(sessions') = Len(sessions) + 1
  <2>1. sessions' = Put(closed, new)
    BY <1>1 DEF new, sid
  <2>2. new.id \notin Ids(closed)
    BY <1>5, <1>6, <1>10
  <2>3. /\ SessionsOK(Put(closed, new))
        /\ Len(closed) \in Nat
        /\ DOMAIN closed = 1 .. Len(closed)
        /\ DOMAIN Put(closed, new) = 1 .. Len(closed) + 1
        /\ \A i \in DOMAIN closed : Put(closed, new)[i] = closed[i]
        /\ Put(closed, new)[Len(closed) + 1] = new
        /\ Len(Put(closed, new)) = Len(closed) + 1
    BY <1>6, <1>10, <1>12, <2>2, PutOK
  <2> QED
    BY <1>8, <1>10, <2>1, <2>3
<1>14. \A i \in DOMAIN sessions' : i \in DOMAIN sessions \/ i = Len(sessions) + 1
  BY <1>13
<1>15. \A i \in DOMAIN sessions : i \in DOMAIN sessions'
  BY <1>13
<1>16. Len(sessions) + 1 \in DOMAIN sessions'
  BY <1>13
<1>17. /\ file' \in [rules: SUBSET Rule, sessions: Seq(Session)]
       /\ SessionsOK(file'.sessions)
  BY <1>2, <1>3, <1>13, SaveOK DEF TypeOK
<1>18. TypeOK'
  <2>1. identity \in Pids \X Starts
    BY <1>4
  <2>2. /\ DOMAIN byIdentity' \subseteq Pids \X Starts
        /\ byIdentity' \in [DOMAIN byIdentity' -> Seq(Nat)]
    BY <1>1, <1>3, <1>5, <2>1 DEF TypeOK, sid
  <2>3. activeIds' \subseteq Seq(Nat)
    BY <1>1, <1>3, <1>5 DEF TypeOK, sid
  <2> QED
    BY <1>2, <1>3, <1>13, <1>17, <2>2, <2>3 DEF TypeOK, SessionsOK
<1>19. IndexMatches'
  <2>1. /\ DOMAIN byIdentity' = DOMAIN byIdentity \cup {identity}
        /\ byIdentity'[identity] = sid
        /\ \A x \in DOMAIN byIdentity : byIdentity'[x] = byIdentity[x]
    BY <1>1, <1>11 DEF sid
  <2>2. \A i \in DOMAIN sessions :
          /\ Identity(sessions'[i]) = Identity(sessions[i])
          /\ sessions'[i].id = sessions[i].id
    BY <1>8, <1>13 DEF Identity
  <2>3. ASSUME NEW i \in DOMAIN sessions'
        PROVE  /\ Identity(sessions'[i]) \in DOMAIN byIdentity'
               /\ byIdentity'[Identity(sessions'[i])] = sessions'[i].id
    <3>1. CASE i \in DOMAIN sessions
      BY <3>1, <1>3, <2>1, <2>2 DEF IndexMatches
    <3>2. CASE i = Len(sessions) + 1
      BY <3>2, <1>6, <1>13, <2>1
    <3> QED
      BY <3>1, <3>2, <1>14
  <2>4. ASSUME NEW x \in DOMAIN byIdentity'
        PROVE  \E i \in DOMAIN sessions' : Identity(sessions'[i]) = x
    <3>1. CASE x = identity
      BY <3>1, <1>6, <1>13, <1>16
    <3>2. CASE x \in DOMAIN byIdentity
      BY <3>2, <1>3, <1>15, <2>2 DEF IndexMatches
    <3> QED
      BY <3>1, <3>2, <2>1
  <2> QED
    BY <2>3, <2>4 DEF IndexMatches
<1>20. VisitedActive'
  <2>1. \A i \in DOMAIN sessions : sessions[i].id # sid
    BY <1>5 DEF Ids
  <2>2. ASSUME NEW q \in DOMAIN plist \ (todo \ {pid})
        PROVE  \E i \in DOMAIN sessions' :
                  /\ Identity(sessions'[i]) = <<q, plist[q].start>>
                  /\ sessions'[i].status = "active"
                  /\ sessions'[i].id \in activeIds'
    <3>1. CASE q = pid
      BY <3>1, <1>1, <1>6, <1>13, <1>16 DEF sid, proc
    <3>2. CASE q # pid
      <4>1. PICK i \in DOMAIN sessions :
               /\ Identity(sessions[i]) = <<q, plist[q].start>>
               /\ sessions[i].status = "active"
               /\ sessions[i].id \in activeIds
        BY <3>2, <1>2, <1>3 DEF VisitedActive
      <4>2. sessions'[i] = sessions[i]
        BY <3>2, <4>1, <1>8, <1>13 DEF Identity
      <4> QED
        BY <4>1, <4>2, <1>1, <1>15
    <3> QED
      BY <3>1, <3>2
  <2>3. ASSUME NEW i \in DOMAIN sessions', sessions'[i].id \in activeIds'
        PROVE  /\ sessions'[i].pid \in DOMAIN plist \ (todo \ {pid})
               /\ sessions'[i].start = plist[sessions'[i].pid].start
    <3>1. CASE i \in DOMAIN sessions
      <4>1. sessions[i].id \in activeIds
        BY <3>1, <2>1, <2>3, <1>1, <1>8, <1>13 DEF sid
      <4> QED
        BY <3>1, <4>1, <1>2, <1>3, <1>8, <1>13 DEF VisitedActive
    <3>2. CASE i = Len(sessions) + 1
      BY <3>2, <1>2, <1>3, <1>6, <1>13 DEF proc, TypeOK
    <3> QED
      BY <3>1, <3>2, <1>14
  <2> QED
    BY <1>2, <2>2, <2>3 DEF VisitedActive
<1>21. OneActivePerPid'
  BY <1>2 DEF OneActivePerPid
<1>23. SweptClosed'
  BY <1>2, <1>3, <1>18, NothingSwept DEF SweptClosed, Vanished, TypeOK
<1>22. RegistryInv'
  BY <1>13, <1>17, <1>18, <1>19, <1>20, <1>21, <1>23 DEF RegistryInv
<1> QED
  BY <1>8, <1>13, <1>15, <1>22 DEF Identity

(* The loop body for a process whose session is known. *)
LEMMA KnownOK ==
    ASSUME RegistryInv, NEW pid \in Pids, RefreshKnown(pid)
    PROVE  /\ RegistryInv'
           /\ DOMAIN sessions' = DOMAIN sessions
           /\ Len(sessions') = Len(sessions)
           /\ \A i \in DOMAIN sessions :
                /\ sessions'[i].id = sessions[i].id
                /\ Identity(sessions'[i]) = Identity(sessions[i])
                /\ sessions'[i].cmdline = sessions[i].cmdline
                /\ sessions'[i].begin = sessions[i].begin
<1> DEFINE identity == <<pid, plist[pid].start>>
           sid == byIdentity[identity]
<1>1. /\ pc = "refresh" /\ pid \in todo /\ KnownIdentity(identity)
      /\ sessions' = [i \in DOMAIN sessions |->
                        IF sessions[i].id = sid THEN Resume(sessions[i])
                                                ELSE sessions[i]]
      /\ activeIds' = activeIds \cup {sid}
      /\ todo' = todo \ {pid}
      /\ UNCHANGED <<rules, byIdentity, file, clock, boots, pc, plist, swept,
                     snapshot>>
  BY DEF RefreshKnown, NextPid
<1>2. /\ TypeOK /\ SessionsOK(sessions) /\ SessionsOK(file.sessions)
      /\ IndexMatches /\ VisitedActive /\ SweptClosed /\ OneActivePerPid
  BY DEF RegistryInv
<1>3. \A i \in DOMAIN sessions : sessions[i] \in Session
  BY <1>2 DEF SessionsOK
<1>4. PICK k \in DOMAIN sessions : /\ Identity(sessions[k]) = identity
                                   /\ sessions[k].id = sid
  BY <1>1, <1>2 DEF KnownIdentity, IndexMatches
<1> HIDE DEF sid
<1>5. \A i \in DOMAIN sessions :
        /\ sessions'[i] \in Session
        /\ sessions'[i].id = sessions[i].id
        /\ sessions'[i].pid = sessions[i].pid
        /\ sessions'[i].start = sessions[i].start
        /\ sessions'[i].cmdline = sessions[i].cmdline
        /\ sessions'[i].begin = sessions[i].begin
        /\ sessions[i].status = "active" => sessions'[i].status = "active"
  BY <1>1, <1>3, ResumeOK
<1>6. sessions' \in [DOMAIN sessions -> Session]
  BY <1>1, <1>5
<1>7. /\ SessionsOK(sessions') /\ DOMAIN sessions' = DOMAIN sessions
      /\ Len(sessions') = Len(sessions)
  BY <1>2, <1>5, <1>6, InPlace
<1>8. sessions'[k].status = "active"
  BY <1>1, <1>3, <1>4, ResumeOK
<1>9. \A i \in DOMAIN sessions : Identity(sessions'[i]) = Identity(sessions[i])
  BY <1>5 DEF Identity
<1>10. TypeOK'
  <2>1. sid \in Seq(Nat)
    BY <1>3, <1>4 DEF Session
  <2> QED
    BY <1>1, <1>2, <1>7, <2>1 DEF TypeOK, SessionsOK
<1>11. IndexMatches'
  BY <1>1, <1>2, <1>5, <1>7, <1>9 DEF IndexMatches
<1>12. VisitedActive'
  <2>1. ASSUME NEW q \in DOMAIN plist \ (todo \ {pid})
        PROVE  \E i \in DOMAIN sessions' :
                  /\ Identity(sessions'[i]) = <<q, plist[q].start>>
                  /\ sessions'[i].status = "active"
                  /\ sessions'[i].id \in activeIds'
    <3>1. CASE q = pid
      BY <3>1, <1>1, <1>4, <1>5, <1>7, <1>8, <1>9
    <3>2. CASE q # pid
      <4>1. PICK i \in DOMAIN sessions :
               /\ Identity(sessions[i]) = <<q, plist[q].start>>
               /\ sessions[i].status = "active"
               /\ sessions[i].id \in activeIds
        BY <3>2, <1>1, <1>2 DEF VisitedActive
      <4> QED
        BY <4>1, <1>1, <1>5, <1>7, <1>9
    <3> QED
      BY <3>1, <3>2
  <2>2. ASSUME NEW i \in DOMAIN sessions', sessions'[i].id \in activeIds'
        PROVE  /\ sessions'[i].pid \in DOMAIN plist \ (todo \ {pid})
               /\ sessions'[i].start = plist[sessions'[i].pid].start
    <3>1. CASE sessions[i].id \in activeIds
      BY <3>1, <2>2, <1>1, <1>2, <1>5, <1>7 DEF VisitedActive
    <3>2. CASE sessions[i].id = sid
      <4>1. i = k
        BY <3>2, <1>2, <1>4, <1>7 DEF SessionsOK, DistinctIds
      <4>2. sessions[k].pid = pid /\ sessions[k].start = plist[pid].start
        BY <1>4 DEF Identity
      <4> QED
        BY <4>1, <4>2, <1>1, <1>2, <1>5, <1>7 DEF TypeOK
    <3> QED
      BY <3>1, <3>2, <2>2, <1>1, <1>5, <1>7
  <2> QED
    BY <1>1, <2>1, <2>2 DEF VisitedActive
<1>13. OneActivePerPid'
  BY <1>1 DEF OneActivePerPid
<1>15. SweptClosed'
  BY <1>1, <1>2, <1>10, NothingSwept DEF SweptClosed, Vanished, TypeOK
<1>14. RegistryInv'
  BY <1>1, <1>2, <1>7, <1>10, <1>11, <1>12, <1>13, <1>15
  DEF RegistryInv, SessionsOK
<1> QED
  BY <1>5, <1>7, <1>9, <1>14

(* Closing one vanished session. *)
LEMMA SweepOK ==
    ASSUME RegistryInv, RefreshSweep
    PROVE  /\ RegistryInv'
           /\ DOMAIN sessions' = DOMAIN sessions
           /\ Len(sessions') = Len(sessions)
           /\ \A i \in DOMAIN sessions :
                /\ sessions'[i].id = sessions[i].id
                /\ Identity(sessions'[i]) = Identity(sessions[i])
                /\ sessions'[i].cmdline = sessions[i].cmdline
                /\ sessions'[i].begin = sessions[i].begin
<1>1. PICK k \in Vanished :
        /\ sessions' = [sessions EXCEPT ![k] = Finish(sessions[k])]
        /\ swept' = k /\ \A j \in Vanished : j > swept => k <= j
  BY DEF RefreshSweep, Unswept
<1>2. /\ pc = "refresh" /\ todo = {} /\ Save(rules, sessions')
      /\ UNCHANGED <<rules, byIdentity, clock, boots, pc, plist, todo,
                     activeIds, snapshot>>
  BY DEF RefreshSweep
<1>3. /\ TypeOK /\ SessionsOK(sessions) /\ SessionsOK(file.sessions)
      /\ IndexMatches /\ VisitedActive /\ SweptClosed /\ OneActivePerPid
  BY DEF RegistryInv
<1>4. \A i \in DOMAIN sessions : sessions[i] \in Session
  BY <1>3 DEF SessionsOK
<1>5. k \in DOMAIN sessions /\ sessions[k].id \notin activeIds
  BY DEF Vanished
<1>6. \A i \in DOMAIN sessions :
        /\ sessions'[i] \in Session
        /\ sessions'[i].id = sessions[i].id
        /\ sessions'[i].pid = sessions[i].pid
        /\ sessions'[i].start = sessions[i].start
        /\ sessions'[i].cmdline = sessions[i].cmdline
        /\ sessions'[i].begin = sessions[i].begin
        /\ i # k => sessions'[i] = sessions[i]
  BY <1>1, <1>3, <1>4, <1>5, FinishOK
<1>7. sessions' \in [DOMAIN sessions -> Session]
  <2>1. sessions \in [DOMAIN sessions -> Session]
    BY <1>3, LenProperties DEF SessionsOK
  <2> QED
    BY <1>1, <1>3, <1>4, <1>5, <2>1, FinishOK
<1>8. /\ SessionsOK(sessions') /\ DOMAIN sessions' = DOMAIN sessions
      /\ Len(sessions') = Len(sessions)
  BY <1>3, <1>6, <1>7, InPlace
<1>9. /\ file' \in [rules: SUBSET Rule, sessions: Seq(Session)]
      /\ SessionsOK(file'.sessions)
  BY <1>2, <1>3, <1>8, SaveOK DEF TypeOK
<1>10. \A i \in DOMAIN sessions : Identity(sessions'[i]) = Identity(sessions[i])
  BY <1>6 DEF Identity
<1>11. TypeOK'
  <2>1. k \in Nat
    BY <1>3, <1>5, LenProperties DEF TypeOK
  <2> QED
    BY <1>1, <1>2, <1>3, <1>8, <1>9, <2>1 DEF TypeOK, SessionsOK
<1>12. IndexMatches'
  BY <1>2, <1>3, <1>6, <1>8, <1>10 DEF IndexMatches
<1>16. SweptClosed'
  <2>1. sessions'[k].status = "finished"
    BY <1>1, <1>3, <1>4, <1>5 DEF Finish, Session
  <2>2. \A i \in Vanished' : i \in Vanished /\ i # k
    BY <1>2, <1>6, <1>8, <2>1 DEF Vanished
  <2>3. \A i \in DOMAIN sessions : i \in Nat
    BY <1>3, LenProperties DEF TypeOK
  <2>4. \A i \in Vanished' : i > k
    BY <1>1, <1>3, <1>5, <2>2, <2>3 DEF SweptClosed, Vanished
  <2> QED
    BY <1>1, <1>2, <2>4 DEF SweptClosed
<1>13. VisitedActive'
  <2>1. ASSUME NEW q \in DOMAIN plist \ todo
        PROVE  \E i \in DOMAIN sessions' :
                  /\ Identity(sessions'[i]) = <<q, plist[q].start>>
                  /\ sessions'[i].status = "active"
                  /\ sessions'[i].id \in activeIds
    <3>1. PICK i \in DOMAIN sessions :
             /\ Identity(sessions[i]) = <<q, plist[q].start>>
             /\ sessions[i].status = "active"
             /\ sessions[i].id \in activeIds
      BY <1>2, <1>3 DEF VisitedActive
    <3>2. sessions'[i] = sessions[i]
      BY <3>1, <1>5, <1>6
    <3> QED
      BY <3>1, <3>2, <1>8
  <2>2. ASSUME NEW i \in DOMAIN sessions', sessions'[i].id \in activeIds
        PROVE  /\ sessions'[i].pid \in DOMAIN plist \ todo
               /\ sessions'[i].start = plist[sessions'[i].pid].start
    BY <2>2, <1>2, <1>3, <1>6, <1>8 DEF VisitedActive
  <2> QED
    BY <1>2, <2>1, <2>2 DEF VisitedActive
<1>14. OneActivePerPid'
  BY <1>2 DEF OneActivePerPid
<1>15. RegistryInv'
  BY <1>8, <1>9, <1>11, <1>12, <1>13, <1>14, <1>16 DEF RegistryInv
<1> QED
  BY <1>6, <1>8, <1>10, <1>15

(* The snapshot: the active sessions are those of the matched processes,   *)
(* hence one per pid once the worker is idle again.                        *)
LEMMA ReportOK ==
    ASSUME RegistryInv, NEW stats \in StatLists, RefreshReport(stats)
    PROVE  RegistryInv'
<1>1. /\ pc = "refresh" /\ todo = {} /\ Vanished = {}
      /\ pc' = "idle" /\ plist' = EmptyDict /\ activeIds' = {} /\ swept' = 0
      /\ UNCHANGED <<rules, sessions, byIdentity, file, clock, boots, todo>>
  BY DEF RefreshReport, registryVars, Unswept, RegistryInv, SweptClosed
<1>2. /\ TypeOK /\ SessionsOK(sessions) /\ SessionsOK(file.sessions)
      /\ IndexMatches /\ VisitedActive
  BY DEF RegistryInv
<1>3. EmptyDict \in ProcLists /\ DOMAIN EmptyDict = {}
  BY DEF EmptyDict, ProcLists
<1>4. TypeOK'
  BY <1>1, <1>2, <1>3 DEF TypeOK
<1>5. OneActivePerPid'
  <2> SUFFICES ASSUME NEW i \in DOMAIN sessions, NEW j \in DOMAIN sessions,
                      sessions[i].status = "active",
                      sessions[j].status = "active",
                      sessions[i].pid = sessions[j].pid
               PROVE  i = j
    BY <1>1 DEF OneActivePerPid
  <2>1. sessions[i].id \in activeIds /\ sessions[j].id \in activeIds
    BY <1>1 DEF Vanished
  <2>2. Identity(sessions[i]) = Identity(sessions[j])
    BY <1>1, <1>2, <2>1 DEF VisitedActive, Identity
  <2> QED
    BY <1>2, <2>2 DEF SessionsOK, DistinctProcesses
<1>6. IndexMatches' /\ VisitedActive' /\ SweptClosed'
  BY <1>1, <1>2, <1>4, NothingSwept
  DEF IndexMatches, VisitedActive, SweptClosed, Vanished, TypeOK
<1> QED
  BY <1>1, <1>2, <1>4, <1>5, <1>6 DEF RegistryInv, SessionsOK

(* The identity index that _load rebuilds is exact. *)
LEMMA LoadedIndexOK ==
    ASSUME NEW ss, SessionsOK(ss)
    PROVE  /\ DOMAIN LoadedIndex(ss) = {Identity(ss[i]) : i \in DOMAIN ss}
           /\ \A i \in DOMAIN ss : LoadedIndex(ss)[Identity(ss[i])] = ss[i].id
<1>1. DOMAIN ss \subseteq Nat
  BY LenProperties DEF SessionsOK
<1>2. ASSUME NEW i \in DOMAIN ss
      PROVE  LoadedIndex(ss)[Identity(ss[i])] = ss[i].id
  <2> DEFINE same == {j \in DOMAIN ss : Identity(ss[j]) = Identity(ss[i])}
  <2>1. same = {i}
    BY DEF SessionsOK, DistinctProcesses
  <2> HIDE DEF same
  <2>2. Max(same) = i
    BY <1>1, <2>1 DEF Max
  <2>3. LoadedIndex(ss)[Identity(ss[i])] = ss[Max(same)].id
    BY DEF LoadedIndex, same
  <2> QED
    BY <2>2, <2>3
<1>3. DOMAIN LoadedIndex(ss) = {Identity(ss[i]) : i \in DOMAIN ss}
  BY DEF LoadedIndex
<1> QED
  BY <1>2, <1>3

(* A restart: every session comes back finished, under its old identity. *)
LEMMA RestartOK ==
    ASSUME RegistryInv, Restart
    PROVE  RegistryInv'
<1> DEFINE ss == file.sessions
<1>1. /\ boots' = boots + 1
      /\ rules' = {r \in file.rules : r.kind \in VALID_KINDS}
      /\ sessions' = [i \in DOMAIN ss |-> Revived(ss[i])]
      /\ byIdentity' = LoadedIndex(ss)
      /\ pc' = "idle" /\ plist' = EmptyDict /\ todo' = {} /\ activeIds' = {}
      /\ swept' = 0 /\ UNCHANGED <<file, clock>>
  BY DEF Restart
<1>2. TypeOK /\ SessionsOK(ss)
  BY DEF RegistryInv
<1>3. \A i \in DOMAIN ss : ss[i] \in Session
  BY <1>2 DEF SessionsOK
<1> HIDE DEF ss
<1>4. \A i \in DOMAIN ss :
        /\ sessions'[i] \in Session
        /\ sessions'[i].id = ss[i].id
        /\ sessions'[i].pid = ss[i].pid
        /\ sessions'[i].start = ss[i].start
        /\ sessions'[i].status = "finished"
  BY <1>1, <1>3 DEF Revived, Session
<1>5. sessions' \in [DOMAIN ss -> Session]
  BY <1>1, <1>4
<1>6. SessionsOK(sessions') /\ DOMAIN sessions' = DOMAIN ss
  BY <1>2, <1>4, <1>5, InPlace
<1>7. \A i \in DOMAIN ss : Identity(sessions'[i]) = Identity(ss[i])
  BY <1>4 DEF Identity
<1>8. EmptyDict \in ProcLists /\ DOMAIN EmptyDict = {}
  BY DEF EmptyDict, ProcLists
<1>9. /\ DOMAIN byIdentity' = {Identity(ss[i]) : i \in DOMAIN ss}
      /\ \A i \in DOMAIN ss : byIdentity'[Identity(ss[i])] = ss[i].id
  BY <1>1, <1>2, LoadedIndexOK
<1>10. /\ DOMAIN byIdentity' \subseteq Pids \X Starts
       /\ byIdentity' \in [DOMAIN byIdentity' -> Seq(Nat)]
  <2>1. \A i \in DOMAIN ss :
          Identity(ss[i]) \in Pids \X Starts /\ ss[i].id \in Seq(Nat)
    BY <1>3 DEF Session, Identity
  <2>2. byIdentity' = [x \in DOMAIN byIdentity' |-> byIdentity'[x]]
    BY <1>1 DEF LoadedIndex
  <2> QED
    BY <1>9, <2>1, <2>2
<1>11. TypeOK'
  BY <1>1, <1>2, <1>6, <1>8, <1>10 DEF TypeOK, SessionsOK
<1>12. IndexMatches'
  BY <1>4, <1>6, <1>7, <1>9 DEF IndexMatches
<1>13. VisitedActive' /\ SweptClosed'
  BY <1>1, <1>11, NothingSwept DEF VisitedActive, SweptClosed, Vanished, TypeOK
<1>14. OneActivePerPid'
  BY <1>4, <1>6 DEF OneActivePerPid
<1> QED
  BY <1>1, <1>2, <1>6, <1>11, <1>12, <1>13, <1>14
  DEF RegistryInv, SessionsOK, ss

-----------------------------------------------------------------------------
(* Every step of refresh(), of the rule operations and of a restart keeps  *)
(* RegistryInv: the invariant is inductive.                                *)
LEMMA StepOK ==
    ASSUME RegistryInv, [Next]_vars
    PROVE  RegistryInv'
<1>1. ASSUME NEW rule \in RuleInputs, add_rule(rule)
      PROVE  RegistryInv'
  <2>1. rule \in Rule
    BY <1>1, ConstantsAssumption DEF add_rule, Rule
  <2>2. \A r \in Rule : [r EXCEPT !.adapter = rule.adapter] \in Rule
    BY <2>1 DEF Rule
  <2>3. rules' \subseteq Rule
    BY <1>1, <2>1, <2>2 DEF add_rule, RegistryInv, TypeOK
  <2> QED
    BY <1>1, <2>3, RulesOK DEF add_rule
<1>2. ASSUME NEW rule \in RuleInputs, remove_rule(rule.kind, rule.value)
      PROVE  RegistryInv'
  BY <1>2, RulesOK DEF remove_rule, RegistryInv, TypeOK
<1>3. CASE clear_rules
  BY <1>3, RulesOK DEF clear_rules
<1>4. ASSUME NEW procs \in ProcLists, RefreshBegin(procs)
      PROVE  RegistryInv'
  BY <1>4, BeginOK
<1>5. ASSUME NEW pid \in Pids, RefreshLoop(pid)
      PROVE  RegistryInv'
  BY <1>5, NewOK, KnownOK DEF RefreshLoop
<1>6. CASE RefreshSweep
  BY <1>6, SweepOK
<1>7. ASSUME NEW stats \in StatLists, RefreshReport(stats)
      PROVE  RegistryInv'
  BY <1>7, ReportOK
<1>8. CASE Restart
  BY <1>8, RestartOK
<1>9. CASE UNCHANGED vars
  BY <1>9 DEF vars, RegistryInv, TypeOK, SessionsOK, IndexMatches,
     VisitedActive, SweptClosed, Vanished, OneActivePerPid
<1> QED
  BY <1>1, <1>2, <1>3, <1>4, <1>5, <1>6, <1>7, <1>8, <1>9 DEF Next, Worker

(* RegistryInv holds in every reachable state: memory, identity index and  *)
(* state file agree at each step of refresh(), whatever processes, rules,  *)
(* disk failures and restarts come in between.                             *)
THEOREM RegistryInvariance == Spec => []RegistryInv
  BY InitOK, StepOK, PTL DEF Spec

(* The registry's state keeps its types (TargetRegistry, targets.py). *)
THEOREM TypeCorrectness == Spec => []TypeOK
<1>1. RegistryInv => TypeOK
  BY DEF RegistryInv
<1> QED
  BY <1>1, RegistryInvariance, PTL

(* No two sessions stand for one (pid, start_time_ns), across restarts. *)
THEOREM SessionUniqueness == Spec => []OneSessionPerProcess
<1>1. RegistryInv => OneSessionPerProcess
  BY DEF RegistryInv, SessionsOK, OneSessionPerProcess
<1> QED
  BY <1>1, RegistryInvariance, PTL

(* When refresh() builds its snapshot the active sessions are exactly the  *)
(* matched processes of its list: the data of two processes that shared a  *)
(* pid is never mixed by refresh() itself.                                 *)
THEOREM ObservationExactness == Spec => []ActiveIsObserved
<1>1. ASSUME RegistryInv PROVE ActiveIsObserved
  <2> SUFFICES ASSUME pc = "refresh", todo = {}, Unswept = {}
               PROVE  {Identity(sessions[i]) :
                         i \in {j \in DOMAIN sessions :
                                  sessions[j].status = "active"}}
                      = {<<pid, plist[pid].start>> : pid \in DOMAIN plist}
    BY DEF ActiveIsObserved
  <2>1. VisitedActive
    BY <1>1 DEF RegistryInv
  <2>2. ASSUME NEW i \in DOMAIN sessions, sessions[i].status = "active"
        PROVE  \E pid \in DOMAIN plist :
                  Identity(sessions[i]) = <<pid, plist[pid].start>>
    <3>1. sessions[i].id \in activeIds
      BY <1>1, <2>2 DEF Vanished, Unswept, RegistryInv, SweptClosed
    <3>2. /\ sessions[i].pid \in DOMAIN plist
          /\ sessions[i].start = plist[sessions[i].pid].start
      BY <2>1, <3>1 DEF VisitedActive
    <3> QED
      BY <3>2 DEF Identity
  <2>3. ASSUME NEW pid \in DOMAIN plist
        PROVE  \E i \in DOMAIN sessions :
                  /\ sessions[i].status = "active"
                  /\ Identity(sessions[i]) = <<pid, plist[pid].start>>
    BY <2>1 DEF VisitedActive
  <2> QED
    BY <2>2, <2>3
<1> QED
  BY <1>1, RegistryInvariance, PTL

(* Outside refresh() no pid has two active sessions. *)
THEOREM ActiveUniqueness == Spec => []OneActivePerPid
<1>1. RegistryInv => OneActivePerPid
  BY DEF RegistryInv
<1> QED
  BY <1>1, RegistryInvariance, PTL

(* Between two restarts no step of the registry removes a session or gives *)
(* it another id, process, cmdline or starting time.                       *)
THEOREM SessionPreservation == Spec => SessionsPreserved
<1> DEFINE Preserved ==
             boots' = boots =>
               /\ Len(sessions) <= Len(sessions')
               /\ \A i \in DOMAIN sessions :
                    /\ sessions'[i].id = sessions[i].id
                    /\ Identity(sessions'[i]) = Identity(sessions[i])
                    /\ sessions'[i].cmdline = sessions[i].cmdline
                    /\ sessions'[i].begin = sessions[i].begin
<1>1. ASSUME RegistryInv, [Next]_vars PROVE [Preserved]_vars
  <2>1. Len(sessions) \in Nat
    BY <1>1, LenProperties DEF RegistryInv, SessionsOK
  <2>2. CASE UNCHANGED sessions
    BY <2>1, <2>2
  <2>3. ASSUME NEW pid \in Pids, RefreshNew(pid) PROVE Preserved
    BY <1>1, <2>3, NewOK
  <2>4. ASSUME NEW pid \in Pids, RefreshKnown(pid) PROVE Preserved
    BY <1>1, <2>1, <2>4, KnownOK
  <2>5. CASE RefreshSweep
    BY <1>1, <2>1, <2>5, SweepOK
  <2>6. CASE Restart
    <3>1. boots' # boots
      BY <1>1, <2>6 DEF Restart, RegistryInv, TypeOK
    <3> QED
      BY <3>1
  <2> QED
    BY <1>1, <2>2, <2>3, <2>4, <2>5, <2>6
    DEF Next, Worker, RefreshLoop, vars, add_rule, remove_rule, clear_rules,
        RefreshBegin, RefreshReport, registryVars
<1> QED
  BY <1>1, RegistryInvariance, PTL DEF Spec, SessionsPreserved

-----------------------------------------------------------------------------
(* Sums over finite sets.                                                  *)

(* Of the subsets of a finite set, some one is smallest. *)
LEMMA Smallest ==
    ASSUME NEW T, IsFiniteSet(T), NEW B \in SUBSET (SUBSET T), B # {}
    PROVE  \E m \in B : \A s \in B : s \subseteq m => s = m
<1> DEFINE R == StrictSubsetOrdering(T)
           F == FiniteSubsetsOf(T)
<1>1. IsWellFoundedOn(R, F)
  BY FS_StrictSubsetOrderingWellFounded
<1>2. F = SUBSET T
  BY FS_FiniteSubsetsOfFinite
<1>3. \A u, v \in SUBSET T : u \subseteq v /\ u # v => <<u, v>> \in R
  BY DEF StrictSubsetOrdering
<1> HIDE DEF R, F
<1>4. PICK m \in B : \A s \in B : ~(<<s, m>> \in R)
  BY <1>1, <1>2, WFMin
<1> QED
  BY <1>3, <1>4

Pick(s) == CHOOSE x \in s : TRUE

(* g is the recursive function with which the sum over T is defined. *)
Sums(g, T) ==
    g = [s \in SUBSET T |-> IF s = {} THEN 0 ELSE Pick(s).iops + g[s \ {Pick(s)}]]

LEMMA SumsStep ==
    ASSUME NEW T, NEW g, Sums(g, T), NEW s \in SUBSET T
    PROVE  /\ s = {} => g[s] = 0
           /\ s # {} => /\ g[s] = Pick(s).iops + g[s \ {Pick(s)}]
                        /\ Pick(s) \in s /\ s \ {Pick(s)} \in SUBSET T
<1>1. s # {} => Pick(s) \in s
  BY DEF Pick
<1>2. g[s] = IF s = {} THEN 0 ELSE Pick(s).iops + g[s \ {Pick(s)}]
  BY DEF Sums
<1> QED
  BY <1>1, <1>2

(* Two such functions agree where both are defined. *)
LEMMA SumsAgree ==
    ASSUME NEW T, IsFiniteSet(T), NEW U, NEW g, NEW h, Sums(g, T), Sums(h, U)
    PROVE  \A s \in SUBSET T : s \in SUBSET U => g[s] = h[s]
<1> DEFINE B == {s \in SUBSET T : s \in SUBSET U /\ g[s] # h[s]}
<1> SUFFICES ASSUME B # {} PROVE FALSE
  OBVIOUS
<1>1. PICK m \in B : \A s \in B : s \subseteq m => s = m
  <2>1. B \in SUBSET (SUBSET T)
    OBVIOUS
  <2> HIDE DEF B
  <2> QED
    BY <2>1, Smallest
<1>2. m \in SUBSET T /\ m \in SUBSET U /\ g[m] # h[m]
  OBVIOUS
<1>3. m # {}
  BY <1>2, SumsStep
<1> DEFINE r == m \ {Pick(m)}
<1>4. /\ g[m] = Pick(m).iops + g[r] /\ h[m] = Pick(m).iops + h[r]
      /\ Pick(m) \in m /\ r \in SUBSET T /\ r \in SUBSET U
  <2>1. g[m] = Pick(m).iops + g[r] /\ Pick(m) \in m /\ r \in SUBSET T
    BY <1>2, <1>3, SumsStep
  <2>2. h[m] = Pick(m).iops + h[r] /\ r \in SUBSET U
    BY <1>2, <1>3, SumsStep
  <2> QED
    BY <2>1, <2>2
<1>5. g[r] # h[r]
  BY <1>2, <1>4
<1> QED
  BY <1>1, <1>4, <1>5

(* There is such a function: put together from those of the smaller sets. *)
LEMMA SumsExist ==
    ASSUME NEW T, IsFiniteSet(T)
    PROVE  \E g : Sums(g, T)
<1> DEFINE B == {s \in SUBSET T : ~ \E g : Sums(g, s)}
<1> SUFFICES ASSUME B # {} PROVE FALSE
  OBVIOUS
<1>1. PICK m \in B : \A s \in B : s \subseteq m => s = m
  <2>1. B \in SUBSET (SUBSET T)
    OBVIOUS
  <2> HIDE DEF B
  <2> QED
    BY <2>1, Smallest
<1> DEFINE G(s) == CHOOSE g : Sums(g, s)
           h == [s \in SUBSET m |->
                   IF s = {} THEN 0
                   ELSE Pick(s).iops + G(s \ {Pick(s)})[s \ {Pick(s)}]]
<1>2. \A s \in SUBSET m : s # m => Sums(G(s), s) /\ IsFiniteSet(s)
  <2> TAKE s \in SUBSET m
  <2> SUFFICES ASSUME s # m PROVE Sums(G(s), s) /\ IsFiniteSet(s)
    OBVIOUS
  <2>1. s \in SUBSET T /\ s \notin B
    BY <1>1
  <2>2. \E g : Sums(g, s)
    BY <2>1
  <2> QED
    BY <2>1, <2>2, FS_Subset
<1> HIDE DEF G
<1>3. \A u \in SUBSET m : u # m => h[u] = G(u)[u]
  <2> SUFFICES ASSUME NEW u \in SUBSET m, u # m PROVE h[u] = G(u)[u]
    OBVIOUS
  <2>1. Sums(G(u), u) /\ u \in SUBSET u
    BY <1>2
  <2>2. CASE u = {}
    <3>1. h[u] = 0
      BY <2>2
    <3>2. G(u)[u] = 0
      BY <2>1, <2>2, SumsStep
    <3> QED
      BY <3>1, <3>2
  <2>3. CASE u # {}
    <3> DEFINE v == u \ {Pick(u)}
    <3>1. G(u)[u] = Pick(u).iops + G(u)[v] /\ Pick(u) \in u /\ v \in SUBSET u
      BY <2>1, <2>3, SumsStep
    <3>2. h[u] = Pick(u).iops + G(v)[v]
      BY <2>3
    <3>3. Sums(G(v), v) /\ IsFiniteSet(v)
      BY <1>2, <3>1
    <3>4. G(v)[v] = G(u)[v]
      BY <2>1, <3>1, <3>3, SumsAgree
    <3> QED
      BY <3>1, <3>2, <3>4
  <2> QED
    BY <2>2, <2>3
<1>4. \A s \in SUBSET m :
        h[s] = IF s = {} THEN 0 ELSE Pick(s).iops + h[s \ {Pick(s)}]
  <2> TAKE s \in SUBSET m
  <2>1. CASE s = {}
    BY <2>1
  <2>2. CASE s # {}
    <3> DEFINE u == s \ {Pick(s)}
    <3>1. Pick(s) \in s
      BY <2>2 DEF Pick
    <3>2. u \in SUBSET m /\ u # m
      BY <3>1
    <3>3. h[u] = G(u)[u]
      BY <1>3, <3>2
    <3>4. h[s] = Pick(s).iops + G(u)[u]
      BY <2>2
    <3> QED
      BY <2>2, <3>3, <3>4
  <2> QED
    BY <2>1, <2>2
<1>5. Sums(h, m)
  <2>1. h = [s \in SUBSET m |-> h[s]]
    OBVIOUS
  <2> HIDE DEF h
  <2> QED
    BY <1>4, <2>1 DEF Sums
<1> QED
  BY <1>5

(* The sum of the I/O of statistics, one of them after the other. *)
LEMMA IopsStep ==
    ASSUME NEW T, IsFiniteSet(T)
    PROVE  /\ T = {} => Iops(T) = 0
           /\ T # {} => /\ Iops(T) = Pick(T).iops + Iops(T \ {Pick(T)})
                        /\ Pick(T) \in T
<1> DEFINE It(S) == CHOOSE g : Sums(g, S)
           r == T \ {Pick(T)}
<1>1. \A S : Iops(S) = It(S)[S]
  BY DEF Iops, MapThenSumSet, MapThenFoldSet, Sums, Pick
<1>2. Sums(It(T), T)
  BY SumsExist
<1>3. IsFiniteSet(r)
  BY FS_Subset
<1>4. Sums(It(r), r)
  BY <1>3, SumsExist
<1> HIDE DEF It
<1>5. T = {} => It(T)[T] = 0
  BY <1>2, SumsStep
<1>6. T # {} => It(T)[T] = Pick(T).iops + It(T)[r] /\ Pick(T) \in T
  BY <1>2, SumsStep
<1>7. It(T)[r] = It(r)[r]
  BY <1>2, <1>3, <1>4, SumsAgree
<1> QED
  BY <1>1, <1>5, <1>6, <1>7

Numbers(T) == IsFiniteSet(T) /\ \A st \in T : st.iops \in Nat

(* A sum of numbers is a number. *)
LEMMA IopsNat ==
    ASSUME NEW T, Numbers(T)
    PROVE  \A s \in SUBSET T : Iops(s) \in Nat /\ IsFiniteSet(s)
<1>1. \A s \in SUBSET T : IsFiniteSet(s)
  BY FS_Subset DEF Numbers
<1> DEFINE B == {s \in SUBSET T : Iops(s) \notin Nat}
<1> SUFFICES ASSUME B # {} PROVE FALSE
  BY <1>1
<1>2. PICK m \in B : \A s \in B : s \subseteq m => s = m
  <2>1. B \in SUBSET (SUBSET T)
    OBVIOUS
  <2> HIDE DEF B
  <2> QED
    BY <2>1, Smallest DEF Numbers
<1>3. IsFiniteSet(m)
  BY <1>1
<1>4. m # {} /\ Iops(m) = Pick(m).iops + Iops(m \ {Pick(m)}) /\ Pick(m) \in m
  <2>1. Iops(m) \notin Nat
    OBVIOUS
  <2> HIDE DEF B
  <2>2. m = {} => Iops(m) = 0
    BY <1>3, IopsStep
  <2>3. m # {}
    BY <2>1, <2>2
  <2> QED
    BY <1>3, <2>3, IopsStep
<1>5. Iops(m \ {Pick(m)}) \in Nat /\ Iops(m) \notin Nat
  BY <1>2, <1>4
<1>6. Pick(m).iops \in Nat
  BY <1>4 DEF Numbers
<1> QED
  BY <1>4, <1>5, <1>6

(* Any one of the statistics may be taken first. *)
LEMMA IopsRemove ==
    ASSUME NEW T, Numbers(T)
    PROVE  \A s \in SUBSET T : \A x \in s : Iops(s) = x.iops + Iops(s \ {x})
<1> DEFINE B == {s \in SUBSET T : \E x \in s : Iops(s) # x.iops + Iops(s \ {x})}
<1> SUFFICES ASSUME B # {} PROVE FALSE
  OBVIOUS
<1>1. PICK m \in B : \A s \in B : s \subseteq m => s = m
  <2>1. B \in SUBSET (SUBSET T)
    OBVIOUS
  <2> HIDE DEF B
  <2> QED
    BY <2>1, Smallest DEF Numbers
<1>2. PICK x \in m : Iops(m) # x.iops + Iops(m \ {x})
  OBVIOUS
<1> DEFINE y == Pick(m)
           both == (m \ {y}) \ {x}
<1>3. IsFiniteSet(m) /\ m \in SUBSET T
  BY IopsNat
<1>4. Iops(m) = y.iops + Iops(m \ {y}) /\ y \in m
  BY <1>3, IopsStep
<1>5. x # y
  BY <1>2, <1>4
<1> HIDE DEF y
<1>6. Iops(m \ {y}) = x.iops + Iops(both)
  <2>1. m \ {y} \in SUBSET T /\ m \ {y} # m /\ m \ {y} \subseteq m /\ x \in m \ {y}
    BY <1>3, <1>4, <1>5
  <2> QED
    BY <1>1, <2>1
<1>7. Iops(m \ {x}) = y.iops + Iops(both)
  <2>1. m \ {x} \in SUBSET T /\ m \ {x} # m /\ m \ {x} \subseteq m /\ y \in m \ {x}
    BY <1>3, <1>4, <1>5
  <2>2. (m \ {x}) \ {y} = both
    OBVIOUS
  <2>3. m \ {x} \notin B
    BY <1>1, <2>1
  <2> QED
    BY <2>1, <2>2, <2>3
<1>8. x.iops \in Nat /\ y.iops \in Nat /\ Iops(both) \in Nat
  <2>1. both \in SUBSET T
    BY <1>3
  <2> QED
    BY <1>3, <1>4, <2>1, IopsNat DEF Numbers
<1> QED
  BY <1>2, <1>4, <1>6, <1>7, <1>8

(* The sums of a part and of the rest add up. *)
LEMMA IopsSplit ==
    ASSUME NEW T, Numbers(T), NEW A
    PROVE  Iops(T) = Iops(T \cap A) + Iops(T \ A)
<1> DEFINE B == {s \in SUBSET T : Iops(s) # Iops(s \cap A) + Iops(s \ A)}
<1> SUFFICES ASSUME B # {} PROVE FALSE
  OBVIOUS
<1>1. PICK m \in B : \A s \in B : s \subseteq m => s = m
  <2>1. B \in SUBSET (SUBSET T)
    OBVIOUS
  <2> HIDE DEF B
  <2> QED
    BY <2>1, Smallest DEF Numbers
<1>2. m # {}
  <2>1. Iops({}) = 0
    BY FS_EmptySet, IopsStep
  <2>2. {} \cap A = {} /\ {} \ A = {}
    OBVIOUS
  <2> QED
    BY <2>1, <2>2
<1>3. PICK x : x \in m
  BY <1>2
<1> DEFINE r == m \ {x}
<1>4. /\ m \in SUBSET T /\ r \in SUBSET T /\ r \subseteq m /\ r # m
      /\ m \cap A \in SUBSET T /\ m \ A \in SUBSET T
      /\ r \cap A \in SUBSET T /\ r \ A \in SUBSET T
  BY <1>3
<1>5. Iops(r) = Iops(r \cap A) + Iops(r \ A)
  BY <1>1, <1>4
<1>6. Iops(m) = x.iops + Iops(r)
  BY <1>3, <1>4, IopsRemove
<1>7. /\ x.iops \in Nat /\ Iops(r \cap A) \in Nat /\ Iops(r \ A) \in Nat
  BY <1>3, <1>4, IopsNat DEF Numbers
<1> HIDE DEF r
<1>8. CASE x \in A
  <2>1. m \ A = r \ A /\ (m \cap A) \ {x} = r \cap A /\ x \in m \cap A
    BY <1>3, <1>8 DEF r
  <2>2. Iops(m \cap A) = x.iops + Iops(r \cap A)
    BY <1>4, <2>1, IopsRemove
  <2>3. Iops(m) = Iops(m \cap A) + Iops(m \ A)
    <3> DEFINE i == x.iops
               a == Iops(r \cap A)
               b == Iops(r \ A)
    <3>1. Iops(m) = i + (a + b)
      BY <1>5, <1>6
    <3>2. Iops(m \cap A) = i + a /\ Iops(m \ A) = b
      BY <2>1, <2>2
    <3>3. i \in Nat /\ a \in Nat /\ b \in Nat
      BY <1>7
    <3> HIDE DEF i, a, b
    <3> QED
      BY <3>1, <3>2, <3>3
  <2> QED
    BY <2>3
<1>9. CASE x \notin A
  <2>1. m \cap A = r \cap A /\ (m \ A) \ {x} = r \ A /\ x \in m \ A
    BY <1>3, <1>9 DEF r
  <2>2. Iops(m \ A) = x.iops + Iops(r \ A)
    BY <1>4, <2>1, IopsRemove
  <2>3. Iops(m) = Iops(m \cap A) + Iops(m \ A)
    <3> DEFINE i == x.iops
               a == Iops(r \cap A)
               b == Iops(r \ A)
    <3>1. Iops(m) = i + (a + b)
      BY <1>5, <1>6
    <3>2. Iops(m \cap A) = a /\ Iops(m \ A) = i + b
      BY <2>1, <2>2
    <3>3. i \in Nat /\ a \in Nat /\ b \in Nat
      BY <1>7
    <3> HIDE DEF i, a, b
    <3> QED
      BY <3>1, <3>2, <3>3
  <2> QED
    BY <2>3
<1> QED
  BY <1>8, <1>9

(* Statistics without I/O add nothing. *)
LEMMA IopsNothing ==
    ASSUME NEW T, Numbers(T), \A st \in T : st.iops = 0
    PROVE  Iops(T) = 0
<1> DEFINE B == {s \in SUBSET T : Iops(s) # 0}
<1> SUFFICES ASSUME B # {} PROVE FALSE
  OBVIOUS
<1>1. PICK m \in B : \A s \in B : s \subseteq m => s = m
  <2>1. B \in SUBSET (SUBSET T)
    OBVIOUS
  <2> HIDE DEF B
  <2> QED
    BY <2>1, Smallest DEF Numbers
<1>2. IsFiniteSet(m)
  BY IopsNat
<1>3. m # {} /\ Iops(m) = Pick(m).iops + Iops(m \ {Pick(m)}) /\ Pick(m) \in m
  BY <1>2, IopsStep
<1>4. Iops(m \ {Pick(m)}) = 0
  BY <1>1, <1>3
<1> QED
  BY <1>3, <1>4

-----------------------------------------------------------------------------
(* The snapshot.                                                           *)

(* A snapshot is of the sessions as they are: it is dropped when refresh() *)
(* starts, and nothing else changes the sessions while it is shown.        *)
SnapshotIsCurrent ==
    \/ snapshot = None
    \/ pc = "idle" /\ \E stats \in StatLists : snapshot = Attribution(stats)

LEMMA SnapshotStep ==
    ASSUME SnapshotIsCurrent, [Next]_vars
    PROVE  SnapshotIsCurrent'
<1>1. sessions' = sessions => \A stats \in StatLists : Attribution(stats)' = Attribution(stats)
  BY DEF Attribution, WatchedPids
<1>2. CASE UNCHANGED <<sessions, pc, snapshot>>
  BY <1>1, <1>2 DEF SnapshotIsCurrent
<1>3. ASSUME NEW procs \in ProcLists, RefreshBegin(procs)
      PROVE  SnapshotIsCurrent'
  BY <1>3 DEF RefreshBegin, SnapshotIsCurrent
<1>4. ASSUME NEW pid \in Pids, RefreshLoop(pid)
      PROVE  SnapshotIsCurrent'
  BY <1>4 DEF RefreshLoop, RefreshNew, RefreshKnown, SnapshotIsCurrent
<1>5. CASE RefreshSweep
  BY <1>5 DEF RefreshSweep, SnapshotIsCurrent
<1>6. ASSUME NEW stats \in StatLists, RefreshReport(stats)
      PROVE  SnapshotIsCurrent'
  BY <1>1, <1>6 DEF RefreshReport, registryVars, SnapshotIsCurrent
<1>7. CASE Restart
  BY <1>7 DEF Restart, SnapshotIsCurrent
<1> QED
  BY <1>2, <1>3, <1>4, <1>5, <1>6, <1>7
  DEF Next, Worker, vars, add_rule, remove_rule, clear_rules, refreshVars

(* Of one process: it has one active session, which is among those that    *)
(* contribute to its device, or none.                                      *)
LEMMA ProcessShown ==
    ASSUME RegistryInv, pc = "idle", NEW stats, NEW st \in stats
    PROVE  LET a == Attribution(stats)
               owners == {i \in DOMAIN sessions :
                            /\ sessions[i].id \in a.devices[st.device].contributing
                            /\ sessions[i].pid = st.pid}
           IN  \/ Cardinality(owners) = 1 /\ st \notin a.unmonitored
               \/ owners = {} /\ (st.iops > 0 => st \in a.unmonitored)
<1> DEFINE a == Attribution(stats)
           Active(i) == i \in DOMAIN sessions /\ sessions[i].status = "active"
           on == {x \in stats : x.device = st.device}
           uses == {j \in DOMAIN sessions :
                      sessions[j].status = "active" /\ \E x \in on : x.pid = sessions[j].pid}
           contributing == {sessions[i].id : i \in uses}
           owners == {i \in DOMAIN sessions :
                        sessions[i].id \in contributing /\ sessions[i].pid = st.pid}
<1>1. a.devices[st.device].contributing = contributing
  BY DEF Attribution
<1>2. a.unmonitored = {x \in stats : x.pid \notin WatchedPids /\ x.iops > 0}
  BY DEF Attribution
<1>3. \A i \in DOMAIN sessions : sessions[i].id \in contributing => Active(i)
  BY DEF RegistryInv, SessionsOK, DistinctIds
<1>4. \A i \in DOMAIN sessions :
        Active(i) /\ sessions[i].pid = st.pid => sessions[i].id \in contributing
  OBVIOUS
<1> HIDE DEF a, contributing
<1>5. \A i : i \in owners <=> Active(i) /\ sessions[i].pid = st.pid
  BY <1>3, <1>4
<1>6. st.pid \in WatchedPids <=> \E i : i \in owners
  BY <1>5 DEF WatchedPids
<1>7. \A i, j \in owners : i = j
  BY <1>5 DEF RegistryInv, OneActivePerPid
<1> HIDE DEF owners, Active
<1>8. CASE st.pid \in WatchedPids
  <2>1. PICK i : i \in owners
    BY <1>6, <1>8
  <2>2. owners = {i}
    BY <1>7, <2>1
  <2>3. Cardinality(owners) = 1
    BY <2>2, FS_Singleton
  <2>4. st \notin a.unmonitored
    BY <1>2, <1>8
  <2> QED
    BY <1>1, <2>3, <2>4 DEF owners, a
<1>9. CASE st.pid \notin WatchedPids
  <2>1. owners = {}
    BY <1>6, <1>9
  <2>2. st.iops > 0 => st \in a.unmonitored
    BY <1>2, <1>9
  <2> QED
    BY <1>1, <2>1, <2>2 DEF owners, a
<1> QED
  BY <1>8, <1>9

(* Of one device: what its processes did is shared out without remainder,  *)
(* and the part of no session is what is listed as unmonitored.            *)
LEMMA DeviceAddsUp ==
    ASSUME NEW stats \in StatLists, NEW dev \in DOMAIN Attribution(stats).devices
    PROVE  LET a == Attribution(stats)
               d == a.devices[dev]
           IN  /\ d.attributed + d.unattributed = d.total
               /\ d.unattributed = Iops({u \in a.unmonitored : u.device = dev})
<1> DEFINE a == Attribution(stats)
           d == a.devices[dev]
           on == {st \in stats : st.device = dev}
           A == {st \in stats : st.pid \in WatchedPids}
           P == {st \in stats : st.iops > 0}
           mine == on \cap A
           rest == on \ A
<1>1. /\ d.total = Iops(on)
      /\ d.attributed = Iops({st \in on : st.pid \in WatchedPids})
      /\ d.unattributed = Iops({st \in on : st.pid \notin WatchedPids})
      /\ a.unmonitored = {st \in stats : st.pid \notin WatchedPids /\ st.iops > 0}
  BY DEF Attribution
<1>2. /\ {st \in on : st.pid \in WatchedPids} = mine
      /\ {st \in on : st.pid \notin WatchedPids} = rest
  OBVIOUS
<1>3. {u \in a.unmonitored : u.device = dev} = rest \cap P
  BY <1>1
<1>4. Numbers(stats)
  BY ConstantsAssumption DEF Numbers
<1>5. on \in SUBSET stats /\ rest \in SUBSET stats /\ rest \ P \in SUBSET stats
  OBVIOUS
<1>6. Numbers(on) /\ Numbers(rest) /\ Numbers(rest \ P)
  BY <1>4, <1>5, IopsNat DEF Numbers
<1>7. \A st \in rest \ P : st.iops = 0
  BY <1>4 DEF Numbers
<1> HIDE DEF on, A, P, a, d
<1>8. Iops(on) = Iops(mine) + Iops(rest)
  BY <1>6, IopsSplit
<1>9. Iops(rest) = Iops(rest \cap P) + Iops(rest \ P) /\ Iops(rest \ P) = 0
  BY <1>6, <1>7, IopsSplit, IopsNothing
<1>10. Iops(rest \cap P) \in Nat
  BY <1>4, <1>5, IopsNat
<1>11. Iops(rest) = Iops(rest \cap P)
  <2> DEFINE n == Iops(rest \cap P)
  <2>1. Iops(rest) = n + 0 /\ n \in Nat
    BY <1>9, <1>10
  <2> HIDE DEF n
  <2>2. Iops(rest) = n
    BY <2>1
  <2> QED
    BY <2>2 DEF n
<1> HIDE DEF mine, rest
<1>12. d.attributed + d.unattributed = d.total
  BY <1>1, <1>2, <1>8
<1>13. d.unattributed = Iops({u \in a.unmonitored : u.device = dev})
  BY <1>1, <1>2, <1>3, <1>11
<1> QED
  BY <1>12, <1>13 DEF a, d

(* What a process did on a device is either listed as unmonitored or       *)
(* belongs to exactly one contributing session, and the shares of a device *)
(* add up to its total (refresh, the attribution of its snapshot).         *)
THEOREM NothingHidden == Spec => []NoIoHidden
<1>1. Init => SnapshotIsCurrent
  BY DEF Init, SnapshotIsCurrent
<1>2. SnapshotIsCurrent /\ [Next]_vars => SnapshotIsCurrent'
  BY SnapshotStep
<1>3. ASSUME RegistryInv, SnapshotIsCurrent PROVE NoIoHidden
  <2> SUFFICES ASSUME snapshot # None PROVE NoIoHidden
    BY DEF NoIoHidden
  <2>1. pc = "idle"
    BY <1>3 DEF SnapshotIsCurrent
  <2>2. PICK stats \in StatLists : snapshot = Attribution(stats)
    BY <1>3 DEF SnapshotIsCurrent
  <2>3. snapshot.stats = stats
    BY <2>2 DEF Attribution
  <2>4. \A st \in snapshot.stats :
          LET owners == {i \in DOMAIN sessions :
                           /\ sessions[i].id \in snapshot.devices[st.device].contributing
                           /\ sessions[i].pid = st.pid}
          IN  \/ Cardinality(owners) = 1 /\ st \notin snapshot.unmonitored
              \/ owners = {} /\ (st.iops > 0 => st \in snapshot.unmonitored)
    BY <1>3, <2>1, <2>2, <2>3, ProcessShown
  <2>5. \A dev \in DOMAIN snapshot.devices :
          LET d == snapshot.devices[dev]
          IN  /\ d.attributed + d.unattributed = d.total
              /\ d.unattributed = Iops({u \in snapshot.unmonitored : u.device = dev})
    BY <2>2, DeviceAddsUp
  <2> QED
    BY <2>4, <2>5 DEF NoIoHidden
<1> QED
  BY <1>1, <1>2, <1>3, RegistryInvariance, PTL DEF Spec
===============================================================================
