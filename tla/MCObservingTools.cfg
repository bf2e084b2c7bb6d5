SPECIFICATION Spec
CONSTANTS
  A = A
  B = B
  One = One
  X = X
  NoName = X
  Names <- MCNames
  AsOffset <- MCAsOffset
  NumPaths = 2
  Layouts <- MCLayouts
  Replacements <- MCReplacements
  IdLists <- MCIdLists
  MaxMoves = 1
  BatchSize = 2
  QueueSize = 2
  Wanted = {0, 2}
  Searches <- MCSearches
  MaxEvents = 3
INVARIANTS
  NothingSkipped
  StopsForCause
  ReadIsTold
  InfoListsNamed
PROPERTIES
  AllHeard
CHECK_DEADLOCK FALSE
