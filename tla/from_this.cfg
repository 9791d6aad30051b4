SPECIFICATION Spec
CONSTANTS
  Objects = {o1, o2}
  Blocks = {b1, b2}
  Ptrs = {p1, p2}
  WeakPtrs = {w1, w2}
  NoObject = NoObject
  NoBlock = NoBlock
  MaxUse = 3
  MaxWeak = 3
  MaxDepth = 3
INVARIANTS CountsExact OwnersSeeObject EndsOnce
PROPERTIES FirstOwnerStays NewOwnerShares
CHECK_DEADLOCK FALSE
