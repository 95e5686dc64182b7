--------------------------- MODULE MCTargetRegistry ---------------------------
(***************************************************************************)
(* Instances of TargetRegistry for TLC.                                    *)
(***************************************************************************)
EXTENDS TargetRegistry

CONSTANTS fio, auto

MCPrograms == {fio}

\* A rule on a name, and a kind the registry refuses.  No decision in the
\* model reads the adapter, so one is enough.
MCRuleInputs ==
    {[kind |-> "name", value |-> fio, adapter |-> auto],
     [kind |-> "hostname", value |-> fio, adapter |-> auto]}

MCRuleValues == {fio}

\* Both processes use one device; one of them is silent on a second device.
MCStatLists ==
    {{[pid |-> 1, device |-> "nvme0", iops |-> 2],
      [pid |-> 2, device |-> "nvme0", iops |-> 3],
      [pid |-> 2, device |-> "nvme1", iops |-> 0]}}
===============================================================================
