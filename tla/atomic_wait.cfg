SPECIFICATION FairSpec
CONSTANTS
  Threads = {t1, t2}
  Blocks = {b1}
  Parts = {i1, i2}
  NoBlock = NoBlock
  NoPtr = NoPtr
  Ops = {"swap", "load", "wait"}
  Cxx26 = FALSE
  Proxy = TRUE
PROPERTIES WaitReturnsOnChange WaitersWake
CHECK_DEADLOCK FALSE
