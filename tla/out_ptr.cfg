SPECIFICATION Spec
CONSTANTS
  Objects = {o1, o2}
  Deleters = {d1, d2}
  NoObject = NoObject
  NoDeleter = NoDeleter
INVARIANTS OwnsWhatIsLeft DeletesItsOwn OnlyLateAllocationTerminates
CHECK_DEADLOCK FALSE
