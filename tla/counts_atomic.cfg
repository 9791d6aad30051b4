SPECIFICATION Spec
CONSTANTS
  Threads = {t1, t2, t3}
  SharedPtrs = {p1, p2, p3}
  WeakPtrs = {w1, w2}
  Blocks = {b1, b2}
  NoBlock = NoBlock
  NoSlot = NoSlot
  Policy = "atomic"
  UniqueFastPath = TRUE
SYMMETRY Symmetry
INVARIANTS TypeOK CountsAreReferences OwnersSeeLiveObject NoUseAfterFree LastUserIsAlone NoLeak FastPathIsUnique
PROPERTIES ExpiredIsForever ImplementsOwnership
