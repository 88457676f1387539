CONSTANTS
  Names = {"a", "x.log"}
  LogNames = {"x.log"}
  Fds = {1, 2}
  Capacity = 4
  CacheSize = 2
  MAX_INO = 7
  Risks = {"aux"}
  MaxFiles = 3
  MaxWrites = 2
  MaxMagic = 3
SPECIFICATION FsSpec
INVARIANT NameKept
CHECK_DEADLOCK FALSE
