\* An I/O queue whose tags are reused until the genctr is 0 again.
SPECIFICATION Spec
CONSTANTS
  Depth = 3
  Tags = {1}
  Gens = 2
  MaxSeq = 4
  Online = 2
  DefaultLimit = 2
  Limits = {0, 5}
  OtherTags = {}
  Faulty = {1}
  Sgl = {}
  Estimable = {1, 3, 4}
INVARIANT PayloadOfCommand
CHECK_DEADLOCK FALSE
