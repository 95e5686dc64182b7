----------------------------- MODULE StateRegister -----------------------------
(***************************************************************************)
(* What the state file promises: a register that always holds one complete *)
(* state, is only ever overwritten by the state in memory, and is all that *)
(* a crash leaves.                                                         *)
(***************************************************************************)
CONSTANTS Payloads, None

VARIABLES
    memory,     \* the registry's state, None before it is loaded
    disk        \* the state a restart finds

vars == <<memory, disk>>

Init == memory = None /\ disk \in Payloads

Load == memory = None /\ memory' = disk /\ UNCHANGED disk

Change == memory # None /\ memory' \in Payloads /\ UNCHANGED disk

Persist == memory # None /\ disk' = memory /\ UNCHANGED memory

Crash == memory' = None /\ UNCHANGED disk

Next == Load \/ Change \/ Persist \/ Crash

Spec == Init /\ [][Next]_vars
===============================================================================
