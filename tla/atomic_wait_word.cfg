SPECIFICATION FairSpec
CONSTANTS
  Threads = {t1, t2}
  Blocks = {b1}
  Parts = {i1, i2}
  NoBlock = NoBlock
  NoPtr = NoPtr
  Ops = {"swap", "wait"}
  Cxx26 = TRUE
  Proxy = TRUE
PROPERTIES WaitersWake
CHECK_DEADLOCK FALSE
