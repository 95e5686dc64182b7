\* A ring of three slots, two tags: the ring wraps and tags are reused.
SPECIFICATION Spec
CONSTANTS
  Depth = 3
  Tags = {0, 1}
  Gens = 2
  MaxSeq = 4
  Online = 2
  DefaultLimit = 2
  Limits = {0, 5}
  OtherTags = {1}
  Faulty = {1}
  Sgl = {2}
  Estimable = {1, 3, 4}
INVARIANTS TypeOK ListedIsRecent QuietReadsExact
CHECK_DEADLOCK FALSE
