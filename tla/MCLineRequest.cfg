SPECIFICATION Spec
CONSTANTS
  o1 = o1
  o2 = o2
  Offsets <- MCOffsets
  Settings <- MCSettings
  Values <- MCValues
  LinesMax = 3
  MaxArg = 2
  NumAttrsMax = 2
  PeriodMod = 8
INVARIANTS HeldWhileRequested GetReadsNamedLines
PROPERTIES ConfigReachesLines SetReachesNamedLines
SYMMETRY Symmetry
