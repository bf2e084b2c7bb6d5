SPECIFICATION Spec
CONSTANTS
  A = A
  B = B
  One = One
  X = X
  Names <- MCNames
  NoName = X
  AsOffset <- MCAsOffset
  NumPaths = 2
  Layouts <- MCLayouts
  Replacements <- MCReplacements
  IdLists <- MCIdLists
  MaxMoves = 1
  StartValues <- MCStartValues
  Schedules <- MCSchedules
  Holds <- MCHolds
INVARIANTS ResolvedRight ShownIsDriven SequencePlayedOnce
  HoldRespected
PROPERTY ToggleEnds
CHECK_DEADLOCK FALSE
