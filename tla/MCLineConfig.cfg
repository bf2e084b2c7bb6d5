SPECIFICATION Spec
CONSTANTS
  o1 = o1
  o2 = o2
  o3 = o3
  o4 = o4
  s1 = s1
  s2 = s2
  bad = bad
  Offsets <- MCOffsets
  Settings <- MCSettings
  Values <- MCValues
  BadValue = bad
  LinesMax = 3
  MaxNodes = 3
  MaxArg = 2
INVARIANTS RefcntExact NoLeak IInv
PROPERTY ImplementsPromise
SYMMETRY Symmetry
