CONSTANTS
  Senders = {s1, s2, s3}
  Scripts <- MCScripts
  Sizes <- MCSizes
  Inputs <- MCInputs
  Outputs <- MCOutputs
  None = none
  One = 6
  Widths = {1, 2, 4}
  Children = {1, 2, 3}
  MaxFds = 3
  Parts = 3
  MaxFaults = 2
  MAX_CALLS = 4
  Programs = {"zamien", "zamien2", "reverse", "reverse2"}
  search = 1
  replace = 2
  BLOCK_SIZE = 3
  Garbage = garbage
  Capacities = {1, 2}
  FileNames = {"file", "missing"}
  Missing = {"missing"}
  MaxBlocks = 3
SPECIFICATION ProgramsSpec
INVARIANTS
  ProgramsTypeOK
  ConfirmedFirst
  BlocksCountedOnce
  ResultsAddedOnce
  SurvivesSignal
  ReportsRaises
  DepthIsNesting
  CopiesMatch
  BlocksOnlyLeak
PROPERTIES
  EndsUnlessLost
  ClosesUnlessOvertaken
  EndsUnlessPipeFull
CHECK_DEADLOCK FALSE
