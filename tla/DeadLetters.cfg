SPECIFICATION Spec
CONSTANTS
  Ids = {j1, j2, j3}
  MaxAdds = 4
INVARIANTS
  CrashSafe
  NoneMultiplied
PROPERTIES
  UnserialisableLeavesFile
