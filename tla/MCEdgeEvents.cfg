SPECIFICATION Spec
CONSTANTS
  l1 = l1
  l2 = l2
  Lines <- MCLines
  QueueSize = 3
  DefaultCapacity = 1
  MaxCapacity = 2
  MaxAsked = 3
  MaxSeqno = 5
INVARIANTS InOrder NoneMissing
SYMMETRY Symmetry
