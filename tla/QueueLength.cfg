\* Commands in flight on an I/O queue.
SPECIFICATION Spec
CONSTANTS
  Depth = 3
  Tags = {0, 1}
  Gens = 2
  MaxSeq = 4
  Online = 2
  DefaultLimit = 2
  Limits = {0, 5}
  OtherTags = {}
  Faulty = {1}
  Sgl = {}
  Estimable = {1, 3, 4}
INVARIANT InflightLength
CHECK_DEADLOCK FALSE
