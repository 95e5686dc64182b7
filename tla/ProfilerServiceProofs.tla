------------------------- MODULE ProfilerServiceProofs -------------------------
(***************************************************************************)
(* Proofs about the profiler service, for any number of pids, processes    *)
(* and calls: it uses the cache only as the cache's own specification      *)
(* allows, and the join of the three views is right about every process    *)
(* that outlived the walk.                                                 *)
(***************************************************************************)
EXTENDS ProfilerService, TLAPS

-----------------------------------------------------------------------------
(* The cache by itself: the adaptive TTL bounds the share of the worker that a *)
(* cached query can take, for every factor and minimal lifetime.               *)

(* The only products the proof needs. *)
LEMMA Distribute ==
    ASSUME NEW f \in Nat, NEW a \in Nat, NEW b \in Nat
    PROVE  /\ f * a \in Nat
           /\ f * (a + b) = f * a + f * b
           /\ a * f = f * a
  OBVIOUS

(* Before the first call nothing is cached and no time has passed. *)
LEMMA CacheInitOK == CacheInit => CacheInv
  BY CacheAssumption DEF CacheInit, CacheInv, CacheTypeOK, Idle, Horizon

(* A computation begins: the entry, if any, has expired. *)
LEMMA StartOK ==
    ASSUME CacheInv, StartCompute
    PROVE  CacheInv'
<1>1. CacheTypeOK'
  BY DEF CacheInv, CacheTypeOK, StartCompute
<1>2. Horizon' = Horizon /\ Idle' = Idle
  BY DEF CacheInv, CacheTypeOK, StartCompute, Horizon, Idle
<1>3. Rest' = Rest
  BY <1>2 DEF StartCompute, Rest
<1>4. UNCHANGED <<now, entry, spent, failed>> /\ started = None
      /\ started' = now
  BY DEF StartCompute
<1>5. entry # None => entry.ttl <= now - entry.at
  BY DEF CacheInv, CacheTypeOK, StartCompute, Fresh
<1> QED
  BY <1>1, <1>2, <1>3, <1>4, <1>5 DEF CacheInv, CacheTypeOK

(* While a computation is under way, the idle time has paid for all the    *)
(* earlier ones.                                                           *)
LEMMA Paid ==
    ASSUME CacheInv, started # None
    PROVE  Factor * spent <= Idle
<1>1. /\ started \in Nat /\ now \in Nat /\ spent \in Nat /\ failed \in Nat
      /\ Factor \in Nat /\ Idle \in Int
  BY CacheAssumption DEF CacheInv, CacheTypeOK, Idle, Horizon
<1>2. CASE entry = None
  <2>1. spent = 0 /\ Factor * 0 = 0 /\ 0 <= Idle
    BY <1>1, <1>2 DEF CacheInv
  <2> QED
    BY <2>1
<1>3. CASE entry # None
  <2>1. /\ Factor * spent + Rest <= Idle + entry.ttl
        /\ entry.ttl <= started - entry.at
        /\ entry.at \in Nat /\ entry.ttl \in Nat
    BY <1>1, <1>3, CacheAssumption DEF CacheInv, CacheTypeOK
  <2>2. Rest = entry.ttl
    BY <1>1, <2>1 DEF Rest, Horizon
  <2>3. Factor * spent \in Nat
    BY <1>1, Distribute
  <2> QED
    BY <1>1, <2>1, <2>2, <2>3
<1> QED
  BY <1>2, <1>3

(* A computation returns: its own length is charged to the lifetime of the *)
(* entry it stores.                                                        *)
LEMMA EndOK ==
    ASSUME CacheInv, NEW value \in Values, EndCompute(value)
    PROVE  CacheInv'
<1> DEFINE d == now - started
<1>1. /\ started \in Nat /\ now \in Nat /\ spent \in Nat
      /\ failed \in Nat /\ Factor \in Nat /\ MinTtl \in Nat
      /\ started <= now /\ d \in Nat /\ started # None
  BY CacheAssumption DEF CacheInv, CacheTypeOK, EndCompute
<1>2. /\ entry' = [at |-> now, value |-> value, ttl |-> Larger(MinTtl, d * Factor)]
      /\ spent' = spent + d /\ started' = None
      /\ now' = now /\ failed' = failed
  BY DEF EndCompute
<1>3. d * Factor \in Nat /\ Factor * d = d * Factor
      /\ Factor * spent \in Nat
      /\ Factor * (spent + d) = Factor * spent + Factor * d
  BY <1>1, Distribute
<1>4. /\ Larger(MinTtl, d * Factor) \in Nat
      /\ Factor * d <= Larger(MinTtl, d * Factor)
  BY <1>1, <1>3 DEF Larger
<1>5. CacheTypeOK'
  BY <1>1, <1>2, <1>4 DEF CacheTypeOK
<1>6. Idle' = Idle /\ Idle \in Int
  BY <1>1, <1>2, CacheAssumption DEF Idle, Horizon
<1>7. Factor * spent <= Idle
  BY <1>1, Paid
<1>8. Horizon' = now /\ Rest' = 0 /\ entry'.ttl = Larger(MinTtl, d * Factor)
      /\ entry'.at = now
  BY <1>1, <1>2, <1>4 DEF Horizon, Rest
<1>9. Factor * spent' + Rest' <= Idle' + entry'.ttl
  <2> HIDE DEF d
  <2> QED
    BY <1>1, <1>2, <1>3, <1>4, <1>6, <1>7, <1>8
<1>10. 0 <= Idle'
  BY <1>6 DEF CacheInv
<1>11. entry' # None
  BY <1>1, <1>2, <1>4, CacheAssumption
<1> QED
  BY <1>1, <1>2, <1>5, <1>8, <1>9, <1>10, <1>11 DEF CacheInv

(* A computation raises: its time is not idle time, and nothing else       *)
(* changes.                                                                *)
LEMMA FailOK ==
    ASSUME CacheInv, FailCompute
    PROVE  CacheInv'
<1>1. /\ started \in Nat /\ now \in Nat /\ spent \in Nat
      /\ failed \in Nat /\ Factor \in Nat /\ started <= now
      /\ started # None /\ Factor * spent \in Nat
  BY CacheAssumption, Distribute DEF CacheInv, CacheTypeOK, FailCompute
<1>2. /\ failed' = failed + (now - started) /\ started' = None
      /\ UNCHANGED <<now, entry, spent>>
  BY DEF FailCompute
<1>3. CacheTypeOK'
  BY <1>1, <1>2 DEF CacheInv, CacheTypeOK
<1>4. Idle' = Idle /\ Horizon' = now /\ Horizon = started /\ Idle \in Int
  BY <1>1, <1>2, CacheAssumption DEF Idle, Horizon
<1>5. ASSUME entry # None
      PROVE  /\ entry'.at <= Horizon'
             /\ Factor * spent' + Rest' <= Idle' + entry'.ttl
  <2>1. /\ entry.at \in Nat /\ entry.ttl \in Nat /\ entry.at <= started
    BY <1>1, <1>4, <1>5, CacheAssumption DEF CacheInv, CacheTypeOK
  <2>2. Factor * spent <= Idle
    BY <1>1, Paid
  <2>3. Rest' \in Int /\ Rest' <= entry.ttl
    BY <1>1, <1>2, <1>4, <2>1 DEF Rest
  <2> QED
    BY <1>1, <1>2, <1>4, <2>1, <2>2, <2>3
<1>6. 0 <= Idle'
  BY <1>4 DEF CacheInv
<1> QED
  BY <1>1, <1>2, <1>3, <1>5, <1>6 DEF CacheInv

(* Time passes: either a computation gets longer and nothing is idle, or   *)
(* the idle time grows with the age of the entry.                          *)
LEMMA TickOK ==
    ASSUME CacheInv, Tick
    PROVE  CacheInv'
<1>1. /\ now \in Nat /\ spent \in Nat /\ failed \in Nat /\ Factor \in Nat
      /\ Factor * spent \in Nat /\ started \in Nat \cup {None}
  BY CacheAssumption, Distribute DEF CacheInv, CacheTypeOK
<1>2. now' = now + 1 /\ UNCHANGED <<entry, started, spent, failed>>
  BY DEF Tick
<1>3. CacheTypeOK'
  BY <1>1, <1>2 DEF CacheInv, CacheTypeOK
<1>4. \/ started # None /\ Horizon' = Horizon /\ Idle' = Idle
      \/ started = None /\ Horizon' = Horizon + 1 /\ Idle' = Idle + 1
  BY <1>1, <1>2, CacheAssumption DEF Idle, Horizon
<1>5. Horizon \in Nat /\ Idle \in Int /\ 0 <= Idle
  BY <1>1, CacheAssumption DEF CacheInv, Idle, Horizon
<1>6. ASSUME entry # None
      PROVE  /\ entry'.at <= Horizon'
             /\ Factor * spent' + Rest' <= Idle' + entry'.ttl
  <2>1. /\ entry.at \in Nat /\ entry.ttl \in Nat /\ entry.at <= Horizon
        /\ Factor * spent + Rest <= Idle + entry.ttl
    BY <1>6, CacheAssumption DEF CacheInv, CacheTypeOK
  <2>2. /\ Rest \in Int /\ Rest' \in Int
        /\ Horizon' = Horizon => Rest' = Rest
        /\ Horizon' = Horizon + 1 => Rest' <= Rest + 1
    BY <1>2, <1>4, <1>5, <2>1 DEF Rest
  <2> QED
    BY <1>1, <1>2, <1>4, <1>5, <2>1, <2>2
<1> QED
  BY <1>1, <1>2, <1>3, <1>4, <1>5, <1>6 DEF CacheInv, CacheTypeOK

(* One step of the cache or of the clock. *)
LEMMA CacheStepOK == CacheInv /\ [CacheNext]_cacheVars => CacheInv'
<1> SUFFICES ASSUME CacheInv, [CacheNext]_cacheVars
             PROVE  CacheInv'
  OBVIOUS
<1>1. CASE StartCompute
  BY <1>1, StartOK
<1>2. CASE \E value \in Values : EndCompute(value)
  BY <1>2, EndOK
<1>3. CASE FailCompute
  BY <1>3, FailOK
<1>4. CASE Tick
  BY <1>4, TickOK
<1>5. CASE UNCHANGED cacheVars
  BY <1>5 DEF cacheVars, CacheInv, CacheTypeOK, Horizon, Idle, Rest
<1> QED
  BY <1>1, <1>2, <1>3, <1>4, <1>5 DEF CacheNext

(* The inductive invariant of the cache holds in every reachable state. *)
THEOREM CacheInvariance == CacheSpec => []CacheInv
<1>1. CacheInit => CacheInv
  BY CacheInitOK
<1>2. CacheInv /\ [CacheNext]_cacheVars => CacheInv'
  BY CacheStepOK
<1> QED
  BY <1>1, <1>2, PTL DEF CacheSpec

(* get_or_compute keeps its promise for every factor, minimal lifetime and *)
(* history of computations: those that returned never take more than       *)
(* 1 / (1 + Factor) of the worker's time.                                  *)
THEOREM CacheDutyCycle == CacheSpec => []DutyCycle
<1>1. CacheInv => DutyCycle
  BY Paid DEF DutyCycle
<1> QED
  BY <1>1, CacheInvariance, PTL

-----------------------------------------------------------------------------
(* The service. *)

(* The empty list is a list. *)
LEMMA NoProcsIsList == NoProcs \in Lists
  BY DEF NoProcs, Lists

(* Lists are the functions from some pids to what is known of them. *)
LEMMA ListDef ==
    ASSUME NEW f
    PROVE  f \in Lists <=> \E S \in SUBSET Pids : f \in [S -> Infos]
  BY DEF Lists

(* A step of the service is a step of the cache or leaves it alone. *)
LEMMA CacheStep ==
    ASSUME ServiceInv, [Next]_vars
    PROVE  [CacheNext]_cacheVars
<1>1. CASE \E pid \in Pids : Spawn(pid) \/ Exit(pid)
  BY <1>1 DEF Spawn, Exit
<1>2. CASE \E active \in SUBSET Pids : CollectorTick(active)
  BY <1>2 DEF CollectorTick
<1>3. CASE Elapse
  BY <1>3 DEF Elapse, CacheNext
<1>4. CASE \E call \in {"profile", "list"} : Begin(call)
  BY <1>4 DEF Begin
<1>5. CASE LookupHit
  BY <1>5 DEF LookupHit
<1>6. CASE LookupMiss
  BY <1>6 DEF LookupMiss, CacheNext
<1>7. CASE \E pid \in Pids : \E info \in Readings(pid) : ReadTask(pid, info)
  BY <1>7 DEF ReadTask
<1>8. CASE EndWalk
  <2>1. walk \in Values
    BY ProfilerAssumption DEF ServiceInv
  <2> QED
    BY <1>8, <2>1 DEF EndWalk, CacheNext
<1>9. CASE FailWalk
  BY <1>9 DEF FailWalk, CacheNext
<1>10. CASE ReportProfile
  BY <1>10 DEF ReportProfile
<1>11. CASE \E onlyIo \in BOOLEAN : ReportListing(onlyIo)
  BY <1>11 DEF ReportListing
<1>12. CASE UNCHANGED vars
  BY <1>12 DEF vars
<1> QED
  BY <1>1, <1>2, <1>3, <1>4, <1>5, <1>6, <1>7, <1>8, <1>9, <1>10, <1>11, <1>12
     DEF Next

(* The initial state. *)
LEMMA ServiceInitOK == Init => ServiceInv
<1> SUFFICES ASSUME Init PROVE ServiceInv
  OBVIOUS
<1>1. CacheInv
  BY CacheInitOK DEF Init
<1>2. walk \in Lists
  BY NoProcsIsList DEF Init
<1>3. births \in Births /\ alive \in [Pids -> Births]
      /\ (\A pid \in Pids : alive[pid] <= births) /\ walkFrom \in 0 .. births
  BY ProfilerAssumption DEF Init, Births
<1>4. ~Fresh /\ started = None
  BY DEF Init, CacheInit, Fresh
<1>5. OwnSession
  BY DEF Init, OwnSession
<1>6. StaysVisible
  BY DEF Init, StaysVisible, NoProcs
<1> QED
  BY <1>1, <1>2, <1>3, <1>4, <1>5, <1>6 DEF Init, ServiceInv

(* Processes come and go: one that has just appeared is not settled. *)
LEMMA KernelOK ==
    ASSUME ServiceInv, CacheInv', NEW pid \in Pids, Spawn(pid) \/ Exit(pid)
    PROVE  ServiceInv'
<1>1. /\ births' \in Births /\ alive' \in [Pids -> Births]
      /\ \A p \in Pids : alive'[p] <= births'
      /\ walkFrom' \in 0 .. births'
  <2>1. CASE Spawn(pid)
    BY <2>1, ProfilerAssumption DEF Spawn, ServiceInv, Births, walkVars
  <2>2. CASE Exit(pid)
    BY <2>2, ProfilerAssumption DEF Exit, ServiceInv, Births, walkVars
  <2> QED
    BY <2>1, <2>2
<1>2. ASSUME NEW p \in Pids, Settled(p)'
      PROVE  Settled(p) /\ alive'[p] = alive[p]
  <2>1. CASE Spawn(pid)
    BY <1>2, <2>1, ProfilerAssumption
       DEF Spawn, ServiceInv, Births, Settled, walkVars
  <2>2. CASE Exit(pid)
    BY <1>2, <2>2, ProfilerAssumption
       DEF Exit, ServiceInv, Births, Settled, walkVars
  <2> QED
    BY <2>1, <2>2
<1>3. UNCHANGED <<cacheVars, tick, callVars, walkVars, resultVars>>
  BY DEF Spawn, Exit
<1>4. /\ UNCHANGED <<now, entry, started, walk, unread, missed, pc, profile, listing>>
      /\ Fresh' = Fresh
  BY <1>3 DEF cacheVars, callVars, walkVars, resultVars, Fresh
<1>5. Fresh' \/ pc' = "report" => RightAbout(entry.value)'
  BY <1>2, <1>4 DEF ServiceInv, RightAbout
<1>6. OwnSession' /\ StaysVisible'
  BY <1>2, <1>4 DEF ServiceInv, OwnSession, StaysVisible
<1>7. \A p \in Pids \ unread' : Settled(p)' =>
        (pc' = "walk" =>
           /\ p \in DOMAIN walk' \cup missed'
           /\ p \in DOMAIN walk' => walk'[p].start \in {0, alive'[p]})
  BY <1>2, <1>4 DEF ServiceInv
<1> QED
  BY <1>1, <1>4, <1>5, <1>6, <1>7 DEF ServiceInv

(* Steps that change neither the kernel, nor the walk, nor the answers. *)
LEMMA PassiveOK ==
    ASSUME ServiceInv, CacheInv',
           UNCHANGED <<cacheVars, kernelVars, callVars, walkVars, resultVars>>
    PROVE  ServiceInv'
  BY DEF ServiceInv, cacheVars, kernelVars, callVars, walkVars, resultVars,
         Fresh, Settled, RightAbout, OwnSession, StaysVisible

(* Time passes: an entry expires and never becomes fresh again. *)
LEMMA ElapseOK ==
    ASSUME ServiceInv, CacheInv', Elapse
    PROVE  ServiceInv'
<1>1. /\ UNCHANGED <<entry, started, kernelVars, callVars, walkVars, resultVars>>
      /\ now' = now + 1
  BY DEF Elapse, Tick
<1>2. Fresh' => Fresh
  BY <1>1 DEF Fresh, ServiceInv, CacheInv, CacheTypeOK
<1> QED
  BY <1>1, <1>2 DEF ServiceInv, kernelVars, callVars, walkVars, resultVars,
         Settled, RightAbout, OwnSession, StaysVisible

(* A call begins, and the answer of the one before it is delivered. *)
LEMMA BeginOK ==
    ASSUME ServiceInv, CacheInv', NEW call, Begin(call)
    PROVE  ServiceInv'
<1>1. /\ UNCHANGED <<now, entry, started, births, alive, walk, unread, missed, walkFrom>>
      /\ pc = "idle" /\ pc' = "lookup" /\ profile' = None /\ listing' = NoProcs
      /\ Fresh' = Fresh
  BY DEF Begin, cacheVars, kernelVars, walkVars, Fresh
<1>2. OwnSession' /\ StaysVisible'
  BY <1>1 DEF OwnSession, StaysVisible, NoProcs
<1> QED
  BY <1>1, <1>2 DEF ServiceInv, Settled, RightAbout

(* A hit: the cached list is fresh, so it is right. *)
LEMMA HitOK ==
    ASSUME ServiceInv, CacheInv', LookupHit
    PROVE  ServiceInv'
<1>1. /\ UNCHANGED <<now, entry, started, births, alive, walk, unread, missed, walkFrom,
                     profile, listing>>
      /\ pc = "lookup" /\ pc' = "report" /\ Fresh /\ Fresh'
  BY DEF LookupHit, cacheVars, kernelVars, walkVars, resultVars, Fresh
<1> QED
  BY <1>1 DEF ServiceInv, Settled, RightAbout, OwnSession, StaysVisible

(* A miss: from here on settled means older than this walk. *)
LEMMA MissOK ==
    ASSUME ServiceInv, CacheInv', LookupMiss
    PROVE  ServiceInv'
<1>1. /\ UNCHANGED <<now, entry, births, alive, profile, listing>>
      /\ pc = "lookup" /\ pc' = "walk" /\ ~Fresh /\ ~Fresh'
      /\ walk' = NoProcs /\ unread' = Pids /\ missed' = {} /\ walkFrom' = births
      /\ started' = now
  BY DEF LookupMiss, StartCompute, kernelVars, resultVars, Fresh
<1>2. started' # None
  BY <1>1, CacheAssumption DEF ServiceInv, CacheInv, CacheTypeOK
<1>3. OwnSession' /\ StaysVisible'
  BY <1>1 DEF ServiceInv, OwnSession, StaysVisible, NoProcs
<1>4. walkFrom' \in 0 .. births'
  BY <1>1, ProfilerAssumption DEF ServiceInv, Births
<1>5. DOMAIN walk' = {}
  BY <1>1 DEF NoProcs
<1> QED
  BY <1>1, <1>2, <1>3, <1>4, <1>5, NoProcsIsList DEF ServiceInv

(* The walk comes to a pid, which becomes right. *)
LEMMA ReadOK ==
    ASSUME ServiceInv, CacheInv', NEW pid \in Pids, NEW info \in Readings(pid),
           ReadTask(pid, info)
    PROVE  ServiceInv'
<1>1. /\ UNCHANGED <<now, entry, started, births, alive, walkFrom, pc, profile,
                     listing>>
      /\ pc = "walk" /\ Fresh' = Fresh /\ unread' = unread \ {pid}
      /\ missed \subseteq missed'
      /\ alive[pid] # 0 /\ info = None => pid \in missed'
  BY DEF ReadTask, cacheVars, kernelVars, callVars, resultVars, Fresh
<1>2. info # None => info \in Infos /\ info.start \in {0, alive[pid]}
  <2>1. alive[pid] \in Births /\ 0 \in Births
    BY ProfilerAssumption DEF ServiceInv, Births
  <2> QED
    BY <2>1 DEF Readings, Infos
<1>3. \/ info = None /\ walk' = walk
      \/ /\ info # None
         /\ walk' = [q \in DOMAIN walk \cup {pid} |->
                       IF q = pid THEN info ELSE walk[q]]
  BY DEF ReadTask
<1>4. walk' \in Lists
  <2>1. PICK S \in SUBSET Pids : walk \in [S -> Infos]
    BY ListDef DEF ServiceInv
  <2>2. walk' \in [S -> Infos] \/ walk' \in [S \cup {pid} -> Infos]
    BY <1>2, <1>3, <2>1
  <2> QED
    BY <2>2, ListDef
<1>5. ASSUME NEW p \in Pids \ unread', Settled(p)'
      PROVE  /\ p \in DOMAIN walk' \cup missed'
             /\ p \in DOMAIN walk' => walk'[p].start \in {0, alive'[p]}
  <2>1. Settled(p) /\ alive'[p] = alive[p]
    BY <1>1, <1>5 DEF Settled
  <2>2. CASE p # pid
    BY <1>1, <1>3, <2>1, <2>2 DEF ServiceInv
  <2>3. CASE p = pid /\ info # None
    BY <1>2, <1>3, <2>1, <2>3
  <2>4. CASE p = pid /\ info = None
    <3>1. p \in missed' /\ walk' = walk
      BY <1>1, <1>3, <2>1, <2>4 DEF Settled
    <3>2. p \notin DOMAIN walk
      BY <2>4 DEF ServiceInv, ReadTask
    <3> QED
      BY <3>1, <3>2
  <2> QED
    BY <2>2, <2>3, <2>4
<1>7. profile = None /\ listing = NoProcs
  BY <1>1 DEF ServiceInv
<1>6. OwnSession' /\ StaysVisible'
  BY <1>1, <1>7 DEF OwnSession, StaysVisible, NoProcs
<1>8. DOMAIN walk' \cap unread' = {}
  BY <1>1, <1>3 DEF ServiceInv
<1> QED
  BY <1>1, <1>4, <1>5, <1>6, <1>8 DEF ServiceInv, RightAbout

(* The walk ends, and the list that is cached is right. *)
LEMMA EndWalkOK ==
    ASSUME ServiceInv, CacheInv', EndWalk
    PROVE  ServiceInv'
<1>1. /\ UNCHANGED <<births, alive, walkFrom, unread, missed, profile, listing>>
      /\ pc = "walk" /\ pc' = "report" /\ unread = {} /\ walk' = NoProcs
      /\ started' = None /\ entry'.value = walk
  BY DEF EndWalk, EndCompute, kernelVars, resultVars
<1>2. RightAbout(entry'.value)
  BY <1>1 DEF ServiceInv, RightAbout
<1>3. RightAbout(entry.value)'
  BY <1>1, <1>2 DEF RightAbout, Settled
<1>4. OwnSession' /\ StaysVisible'
  BY <1>1 DEF ServiceInv, OwnSession, StaysVisible, Settled
<1> QED
  BY <1>1, <1>3, <1>4, NoProcsIsList DEF ServiceInv

(* The walk fails, and an expired list stays expired. *)
LEMMA FailWalkOK ==
    ASSUME ServiceInv, CacheInv', FailWalk
    PROVE  ServiceInv'
<1>1. /\ UNCHANGED <<now, entry, births, alive, missed, walkFrom, profile, listing>>
      /\ pc = "walk" /\ pc' = "idle" /\ walk' = NoProcs
      /\ started' = None /\ Fresh' = Fresh
  BY DEF FailWalk, FailCompute, kernelVars, resultVars, Fresh
<1>2. OwnSession' /\ StaysVisible'
  BY <1>1 DEF ServiceInv, OwnSession, StaysVisible, Settled
<1> QED
  BY <1>1, <1>2, NoProcsIsList DEF ServiceInv

(* get_profile returns. *)
LEMMA ProfileOK ==
    ASSUME ServiceInv, CacheInv', ReportProfile
    PROVE  ServiceInv'
<1>1. /\ UNCHANGED <<now, entry, started, births, alive, walk, unread, missed, walkFrom,
                     listing>>
      /\ pc = "report" /\ pc' = "idle" /\ Fresh' = Fresh
      /\ profile'.sessions = entry.value
      /\ profile'.charges \subseteq Charges
  BY DEF ReportProfile, cacheVars, kernelVars, walkVars, Fresh, procs
<1>2. RightAbout(entry.value)
  BY <1>1 DEF ServiceInv
<1>3. OwnSession'
  BY <1>1, <1>2 DEF OwnSession, Charges, procs, RightAbout, Settled
<1>4. StaysVisible'
  BY <1>1, <1>2 DEF ServiceInv, StaysVisible, RightAbout, Settled, NoProcs
<1> QED
  BY <1>1, <1>3, <1>4 DEF ServiceInv, Settled, RightAbout

(* list_processes returns. *)
LEMMA ListingOK ==
    ASSUME ServiceInv, CacheInv', NEW onlyIo \in BOOLEAN, ReportListing(onlyIo)
    PROVE  ServiceInv'
<1>1. /\ UNCHANGED <<now, entry, started, births, alive, walk, unread, missed, walkFrom,
                     profile>>
      /\ pc = "report" /\ pc' = "idle" /\ Fresh' = Fresh
      /\ \A pid \in DOMAIN listing' :
           pid \in DOMAIN entry.value => listing'[pid].unselectable_reason # "gone"
  BY ProfilerAssumption
  DEF ReportListing, cacheVars, kernelVars, walkVars, Fresh, procs, Entries
<1>2. RightAbout(entry.value) /\ profile = None
  BY <1>1 DEF ServiceInv
<1>3. StaysVisible'
  BY <1>1, <1>2 DEF StaysVisible, RightAbout, Settled
<1>4. OwnSession'
  BY <1>1, <1>2 DEF OwnSession
<1> QED
  BY <1>1, <1>3, <1>4 DEF ServiceInv, Settled, RightAbout

(* One step of the service. *)
LEMMA ServiceStepOK == ServiceInv /\ [Next]_vars => ServiceInv'
<1> SUFFICES ASSUME ServiceInv, [Next]_vars PROVE ServiceInv'
  OBVIOUS
<1>0. CacheInv'
  BY CacheStep, CacheStepOK DEF ServiceInv
<1>1. CASE \E pid \in Pids : Spawn(pid) \/ Exit(pid)
  BY <1>0, <1>1, KernelOK
<1>2. CASE \E active \in SUBSET Pids : CollectorTick(active)
  BY <1>0, <1>2, PassiveOK DEF CollectorTick
<1>3. CASE Elapse
  BY <1>0, <1>3, ElapseOK
<1>4. CASE \E call \in {"profile", "list"} : Begin(call)
  BY <1>0, <1>4, BeginOK
<1>5. CASE LookupHit
  BY <1>0, <1>5, HitOK
<1>6. CASE LookupMiss
  BY <1>0, <1>6, MissOK
<1>7. CASE \E pid \in Pids : \E info \in Readings(pid) : ReadTask(pid, info)
  BY <1>0, <1>7, ReadOK
<1>8. CASE EndWalk
  BY <1>0, <1>8, EndWalkOK
<1>9. CASE FailWalk
  BY <1>0, <1>9, FailWalkOK
<1>10. CASE ReportProfile
  BY <1>0, <1>10, ProfileOK
<1>11. CASE \E onlyIo \in BOOLEAN : ReportListing(onlyIo)
  BY <1>0, <1>11, ListingOK
<1>12. CASE UNCHANGED vars
  BY <1>0, <1>12, PassiveOK DEF vars
<1> QED
  BY <1>1, <1>2, <1>3, <1>4, <1>5, <1>6, <1>7, <1>8, <1>9, <1>10, <1>11, <1>12
     DEF Next

(* The inductive invariant of the profiler service holds in every          *)
(* reachable state.                                                        *)
THEOREM ServiceInvariance == Spec => []ServiceInv
<1>1. Init => ServiceInv
  BY ServiceInitOK
<1>2. ServiceInv /\ [Next]_vars => ServiceInv'
  BY ServiceStepOK
<1> QED
  BY <1>1, <1>2, PTL DEF Spec

(* The profiler service implements the cache's specification: its calls,   *)
(* two kinds of them, with kernel and collector running alongside, use the *)
(* cache only by get_or_compute.                                           *)
THEOREM ServiceUsesCache == Spec => CacheSpec
<1>1. Init => CacheInit
  BY DEF Init
<1>2. ServiceInv /\ [Next]_vars => [CacheNext]_cacheVars
  BY CacheStep
<1> QED
  BY <1>1, <1>2, ServiceInvariance, PTL DEF Spec, CacheSpec

(* So the walk over the tasks leaves the worker to the other callers for   *)
(* Factor / (1 + Factor) of the time, as long as it returns.               *)
THEOREM ServiceDutyCycle == Spec => []DutyCycle
  BY ServiceUsesCache, CacheDutyCycle, PTL

(* get_profile charges a process that outlived the walk with its own I/O.  *)
THEOREM OwnSessionCharged == Spec => []OwnSession
<1>1. ServiceInv => OwnSession
  BY DEF ServiceInv
<1> QED
  BY <1>1, ServiceInvariance, PTL

(* A process that outlived the walk, and of which the walk could read a    *)
(* task, has a session and is not called gone in the list of processes.    *)
THEOREM OldProcessVisible == Spec => []StaysVisible
<1>1. ServiceInv => StaysVisible
  BY DEF ServiceInv
<1> QED
  BY <1>1, ServiceInvariance, PTL
===============================================================================
