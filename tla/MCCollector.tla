----------------------------- MODULE MCCollector -----------------------------
(* Four commands of two processes, one numbered as a queue is, on two queues.   *)
EXTENDS Collector

MCQueueOf == <<1, 2, 1, 1>>
MCProcOf == <<1, 1, 7, 7>>
MCBucketOf == <<8, 4, 4, 4>>
LastFails == <<0, 0, 0, 5>>
AllSucceed == <<0, 0, 0, 0>>
TwoFail == <<0, 5, 5, 0>>

(* No command has timed out, and those that would fail are not yet submitted.   *)
Eventless == \A n \in Cmds : /\ cmd[n].timeout = "no"
                             /\ StatusOf[n] # 0 => cmd[n].at = "new"

(* Timeouts and errors only until the second line of the log, on which no event *)
(* depends; longer logs without them.                                           *)
Focus == Len(log) <= 1 \/ Eventless
==============================================================================
