SPECIFICATION OrdersSpec
CONSTANTS
  Threads = {t1, t2}
  Blocks = {b1}
  Parts = {i1}
  NoBlock = NoBlock
  NoPtr = NoPtr
  Ops = {"load", "swap", "cas", "wait"}
  Cxx26 = TRUE
  Proxy = FALSE
  Write = Write
INVARIANT LockShowsLastWrite
PROPERTIES LockIsReleased WaitersSeeNewBlock
CHECK_DEADLOCK FALSE
