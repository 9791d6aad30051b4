SPECIFICATION Spec
CONSTANTS
  MaxLength = 2
  Kinds = {"pointer", "deleter", "unique", "inplace", "array", "overwrite", "consteval"}
  MayNotAllocate = {"consteval"}
INVARIANTS FreesWhatIsAllocated
