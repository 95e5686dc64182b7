--------------------------- MODULE AdaptiveTtlCache ---------------------------
(***************************************************************************)
(* The cache that protects the single worker from an expensive kernel      *)
(* query (platform/cache.py, reached through KernelSession.cached).  One   *)
(* key is enough: entries of different keys do not touch each other.       *)
(*                                                                         *)
(* get_or_compute runs on the worker only, so at most one computation is   *)
(* under way.  A hit changes nothing and is not an action.                 *)
(***************************************************************************)
EXTENDS Integers

CONSTANTS
    Values,     \* what a computation may return
    MinTtl,     \* min_ttl
    Factor,     \* duration_factor
    MaxTime,    \* bound: clock values
    None

ASSUME CacheAssumption ==
    /\ MinTtl \in Nat
    /\ Factor \in Nat
    /\ MaxTime \in Nat
    /\ None \notin Nat \cup [at: Nat, value: Values, ttl: Nat]

VARIABLES
    now,        \* the monotonic clock
    entry,      \* self._entries[key]: at, value, ttl; None when absent
    started,    \* when the computation under way began, or None
    spent,      \* time used by computations that returned
    failed      \* time used by computations that raised

cacheVars == <<now, entry, started, spent, failed>>

Larger(a, b) == IF a < b THEN b ELSE a

\* The entry has not expired.
Fresh == entry # None /\ now - entry.at < entry.ttl

\* get_or_compute on a miss: compute() is called.
StartCompute ==
    /\ started = None
    /\ ~Fresh
    /\ started' = now
    /\ UNCHANGED <<now, entry, spent, failed>>

\* Mutant: a fixed lifetime, however long the computation took.
EndFixedTtl(value) ==
    /\ started # None
    /\ entry' = [at |-> now, value |-> value, ttl |-> MinTtl]
    /\ spent' = spent + (now - started)
    /\ started' = None
    /\ UNCHANGED <<now, failed>>

\* Mutant: the entry is dated with the time the computation began.
EndDatedAtStart(value) ==
    /\ started # None
    /\ entry' = [at |-> started, value |-> value,
                 ttl |-> Larger(MinTtl, (now - started) * Factor)]
    /\ spent' = spent + (now - started)
    /\ started' = None
    /\ UNCHANGED <<now, failed>>

\* compute() returned: the entry is dated now and lives as long as the
\* computation took, times the factor.
EndCompute(value) ==
    /\ started # None
    /\ entry' = [at |-> now, value |-> value,
                 ttl |-> Larger(MinTtl, (now - started) * Factor)]
    /\ spent' = spent + (now - started)
    /\ started' = None
    /\ UNCHANGED <<now, failed>>

\* compute() raised: nothing is stored.
FailCompute ==
    /\ started # None
    /\ failed' = failed + (now - started)
    /\ started' = None
    /\ UNCHANGED <<now, entry, spent>>

Tick ==
    /\ now < MaxTime
    /\ now' = now + 1
    /\ UNCHANGED <<entry, started, spent, failed>>

CacheInit ==
    /\ now = 0
    /\ entry = None
    /\ started = None
    /\ spent = 0
    /\ failed = 0

CacheNext ==
    \/ StartCompute
    \/ \E value \in Values : EndCompute(value)
    \/ FailCompute
    \/ Tick

CacheSpec == CacheInit /\ [][CacheNext]_cacheVars

-----------------------------------------------------------------------------
(* The type invariant of the cache. *)
CacheTypeOK ==
    /\ now \in Nat
    /\ entry \in [at: Nat, value: Values, ttl: Nat] \cup {None}
    /\ started \in Nat \cup {None}
    /\ spent \in Nat
    /\ failed \in Nat

\* The last moment at which the worker was not inside the computation.
Horizon == IF started = None THEN now ELSE started

\* Time during which no computation was under way.
Idle == Horizon - spent - failed

(* The self-regulation the adaptive TTL is for: a computation begins only *)
(* when all the earlier ones that returned have been paid for with Factor  *)
(* times their length of idle time, so the query leaves the worker free    *)
(* for Factor / (1 + Factor) of the time, however slow it becomes.         *)
DutyCycle == started # None => Factor * spent <= Idle

\* Idle time since the entry was stored, up to its lifetime.
Rest == IF Horizon - entry.at < entry.ttl THEN Horizon - entry.at
                                          ELSE entry.ttl

(* Why DutyCycle holds: the idle time covers all the computations up to    *)
(* what the entry still has to live, and a computation only begins when    *)
(* the entry has aged to its end.                                          *)
CacheInv ==
    /\ CacheTypeOK
    /\ started # None => started <= now
    /\ 0 <= Idle
    /\ entry = None => spent = 0
    /\ entry # None =>
         /\ entry.at <= Horizon
         /\ Factor * spent + Rest <= Idle + entry.ttl
         /\ started # None => entry.ttl <= started - entry.at
===============================================================================
