\* Two queues with one tag each, so that tags are reused.  Three commands that may
\* time out and one that fails, while the log is short; or three commands, with a
\* tick and the first half of the next, or a killed one and a whole one.
SPECIFICATION Spec
CONSTANTS
  QueueOf <- MCQueueOf
  ProcOf <- MCProcOf
  BucketOf <- MCBucketOf
  StatusOf <- LastFails
  TailLines = 9
  Cmds = {1, 2, 3, 4}
  Slow = {1, 2, 3}
  Tags = {1}
  ErrBudget = 1
  MaxLines = 9
  MaxKills = 1
CONSTRAINT Focus
INVARIANTS CountedOnce ReportSound EventDescribesOwn
CHECK_DEADLOCK FALSE
