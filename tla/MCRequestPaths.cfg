SPECIFICATION PathsSpec
CONSTANTS
  Offsets <- MCOffsets
  Settings <- MCSettings
  Values <- MCValues
  LinesMax = 3
  MaxArg = 2
  NumAttrsMax = 3
  PeriodMod = 8
  OptionSets <- MCOptionSets
  Periods <- MCPeriods
  LineLists <- MCLineLists
  Variants <- MCVariants
  Ids <- MCIds
  NameAt <- MCNames
  Number <- MCNumber
  Integer <- MCInteger
  PyConfigs <- MCPyConfigs
  PyValues <- MCPyValues
INVARIANTS InfoTellsSettings ValuesReachLines RefusedWhenFull ShownAsAsked KeptApart
  ValuesAsAsked NamedLinesChange
CHECK_DEADLOCK FALSE
