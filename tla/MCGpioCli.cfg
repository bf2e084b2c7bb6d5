SPECIFICATION Spec
CONSTANTS
  Chips = {0, 1}
  Offsets = {0, 1}
  NameOf <- MCNameOf
  AsOffset <- MCAsOffset
  Ids = {0, 1}
  NameLists <- MCNameLists
  MaxMoves = 4
INVARIANTS
  ReachesNamed
  FollowsAll
PROPERTY
  WaitSees
CHECK_DEADLOCK FALSE
