SPECIFICATION Spec
CONSTANTS
  Threads = {t1, t2}
  Blocks = {b1, b2}
  Parts = {i1, i2}
  NoBlock = NoBlock
  NoPtr = NoPtr
  Ops = {"load", "swap", "cas"}
  Cxx26 = TRUE
  Proxy = TRUE
SYMMETRY Symmetry
INVARIANTS TypeOK LockIsExclusive CountsAreHolders NoDeadValue
PROPERTIES ImplementsAtomicValue NoDeleterUnderLock
