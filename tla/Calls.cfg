SPECIFICATION Spec
CONSTANTS
  Libraries <- MCLibraries
  Systems = {"linux", "darwin", "enabled"}
  Calls <- MCCalls
  Fallback = 2
  MaxLine = 3
  Chunk = 2
  Lists <- MCLists
  MaxCommands = 2
  MaxRequests = 1
INVARIANTS
  NativeCallsOrdered
  ModifiedTruly
  AnswerReachesCaller
  SitesTruthful
CHECK_DEADLOCK FALSE
