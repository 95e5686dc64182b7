\* Jobs whose threads have done nothing.
SPECIFICATION ViewsSpec
CONSTANTS
  PAGE_SIZE = 4
  MAX_PAGE_DUMP = 4
  PRPS_PER_PAGE = 4
  ListEntries = 2
  MAX_DEPTH = 3
  MAX_ARRAY_CHILDREN = 2
  NoName = NoName
  Star = Star
  Absent = Absent
  Unparsed = Unparsed
  None = None
  Blank = Blank
  EXACT = 16
  Counts = {0, 1}
  Texts = {"a"}
  MaxRows = 1
  Addresses <- MCAddresses
  Instants <- MCInstants
  SessionGroups <- MCSessionGroups
  MaxLen = 0
  MaxTokens = 3
  Names <- MCNames
  Heaps = {}
  Machines = {}
  TokenLists = {}
  Processes <- MCProcesses
  Definitions <- MCDefinitions
INVARIANT IdleJobsUndecided
CHECK_DEADLOCK FALSE
