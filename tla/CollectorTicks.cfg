\* Two commands on one queue and two ticks.
SPECIFICATION Spec
CONSTANTS
  QueueOf <- MCQueueOf
  ProcOf <- MCProcOf
  BucketOf <- MCBucketOf
  StatusOf <- AllSucceed
  TailLines = 20
  Cmds = {1, 3}
  Slow = {}
  Tags = {1}
  ErrBudget = 1
  MaxLines = 7
  MaxKills = 0
INVARIANT OpsOfOneTick
CHECK_DEADLOCK FALSE
