SPECIFICATION Spec
CONSTANTS
  Threads = {t1, t2}
  Slots = {s1, s2}
  Keys = {1, 2}
  Blocks = {b1}
  Parts = {i1, i2}
  NoBlock = NoBlock
  NoPtr = NoPtr
  NoThread = NoThread
  NoSlot = NoSlot
INVARIANTS BodiesAreExclusive SomebodyRuns CountsAreHolders
PROPERTIES NoDeleterUnderLock ImplementsRegisters
