\* One command fails; the collector is killed once, after a tick.
SPECIFICATION Spec
CONSTANTS
  QueueOf <- MCQueueOf
  ProcOf <- MCProcOf
  BucketOf <- MCBucketOf
  StatusOf <- TwoFail
  TailLines = 20
  Cmds = {2}
  Slow = {}
  Tags = {1}
  ErrBudget = 1
  MaxLines = 12
  MaxKills = 1
INVARIANT ErrorsOfThisRun
CHECK_DEADLOCK FALSE
