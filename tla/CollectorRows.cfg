\* One tick.
SPECIFICATION Spec
CONSTANTS
  QueueOf <- MCQueueOf
  ProcOf <- MCProcOf
  BucketOf <- MCBucketOf
  StatusOf <- AllSucceed
  TailLines = 20
  Cmds = {1, 2, 3}
  Slow = {}
  Tags = {1}
  ErrBudget = 1
  MaxLines = 6
  MaxKills = 0
INVARIANT RowsAreQueues
CHECK_DEADLOCK FALSE
