\* The admin queue, while an I/O request has the tag that is asked for.
SPECIFICATION Spec
CONSTANTS
  Depth = 3
  Tags = {0, 1}
  Gens = 2
  MaxSeq = 4
  Online = 1
  DefaultLimit = 2
  Limits = {0, 5}
  OtherTags = {1}
  Faulty = {1}
  Sgl = {2}
  Estimable = {1, 3, 4}
INVARIANT PayloadOfCommand
CHECK_DEADLOCK FALSE
