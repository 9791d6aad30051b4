SPECIFICATION OrdersSpec
CONSTANTS
  Threads = {t1, t2}
  Blocks = {b1}
  Parts = {i1}
  NoBlock = NoBlock
  NoPtr = NoPtr
  Ops = {"load", "swap", "cas", "wait"}
  Cxx26 = TRUE
  Proxy = FALSE
  Write = Write
INVARIANT ReadsComeBeforeWrite
CHECK_DEADLOCK FALSE
