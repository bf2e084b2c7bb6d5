SPECIFICATION Spec
CONSTANTS
  Chips = {0, 1}
  Offsets = {0, 1}
  NameOf <- MCNameOf
  AsOffset <- MCAsOffset
  Ids = {0, 1}
  NameLists <- MCNameLists
  MaxMoves = 2
PROPERTY
  WaitNoticesVanish
CHECK_DEADLOCK FALSE
