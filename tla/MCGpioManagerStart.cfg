SPECIFICATION Spec
CONSTANTS
  c1 = c1
  Chips <- OneChip
  Lines <- TwoLines
  MaxPlugs = 2
  MaxReq = 1
  MaxUevents = 2
  InfoFifo = 2
  MaxDeaths = 1
INVARIANT NoAssert
