CONSTANTS
  Names = {"a", "x.log"}
  LogNames = {"x.log"}
  Fds = {1, 2}
  Capacity = 4
  CacheSize = 1
  MAX_INO = 7
  Risks = {}
  MaxFiles = 3
  MaxWrites = 2
  MaxMagic = 3
SPECIFICATION FsSpec
INVARIANTS
  CollectionRight
PROPERTIES
  ImplementsFiles
  EraseFirst
CHECK_DEADLOCK FALSE
