SPECIFICATION FairSpec
CONSTANTS
  Threads = {t1, t2}
  SharedPtrs = {p1, p2}
  WeakPtrs = {w1}
  Blocks = {b1, b2}
  NoBlock = NoBlock
  NoSlot = NoSlot
  Policy = "mutex"
  UniqueFastPath = FALSE
PROPERTIES ImplementsOwnership OrphansEnd
