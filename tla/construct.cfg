SPECIFICATION Spec
CONSTANTS
  MaxLength = 6
  Kinds = {"pointer", "deleter", "unique", "inplace", "array", "overwrite", "consteval"}
  MayNotAllocate = {"inplace", "array", "overwrite"}
INVARIANTS NothingLost DestroysWhatExists FreesWhatIsAllocated
PROPERTIES EndsInOrder LastDiesFirst
