\* Pages of four bytes, trees of depth three, three buses, up to five tokens.
SPECIFICATION ViewsSpec
CONSTANTS
  PAGE_SIZE = 4
  MAX_PAGE_DUMP = 4
  PRPS_PER_PAGE = 4
  ListEntries = 2
  MAX_DEPTH = 3
  MAX_ARRAY_CHILDREN = 2
  NoName = NoName
  Star = Star
  Absent = Absent
  Unparsed = Unparsed
  None = None
  Blank = Blank
  EXACT = 16
  Counts = {0, 1}
  Texts = {"a"}
  MaxRows = 1
  Addresses <- MCAddresses
  Instants <- MCInstants
  SessionGroups <- MCSessionGroups
  MaxLen = 14
  MaxTokens = 5
  Names <- MCNames
  Heaps <- MCHeaps
  Machines <- MCMachines
  TokenLists <- MCTokenLists
  Processes <- MCProcesses
  Definitions <- MCDefinitions
INVARIANTS PrpShowsPrefix TreeRowsOpen TopologySound JobOptions GroupsShare FrontEndsAgree
CHECK_DEADLOCK FALSE
