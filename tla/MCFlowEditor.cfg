CONSTANTS
  v0 = v0
  v1 = v1
  Values = {v0, v1}
  Default = v0
  Files <- OneFile
  MaxId = 3
  MaxNodes = 2
  MaxEdges = 2
  None = None
SPECIFICATION FlowSpec
CHECK_DEADLOCK FALSE
INVARIANTS FlowTypeOK NextIdFresh ApplyComplete
PROPERTIES DocumentKept EditKept
