\* Two commands that fail with one status.
SPECIFICATION Spec
CONSTANTS
  QueueOf <- MCQueueOf
  ProcOf <- MCProcOf
  BucketOf <- MCBucketOf
  StatusOf <- TwoFail
  TailLines = 20
  Cmds = {2, 3}
  Slow = {}
  Tags = {1}
  ErrBudget = 1
  MaxLines = 1
  MaxKills = 0
INVARIANT ErrorsExact
CHECK_DEADLOCK FALSE
