SPECIFICATION ReadSpec
CONSTANTS
  FS_BLOCK_SIZE = 2
  DATABLOCKS_PER_INODE = 3
  n_datablocks = 3
  TWO_TO_32 = 8
  ReadSizes = {0, 1, 3}
INVARIANTS
  ReadsInOrder
  LoadsWholeFile
PROPERTIES
  ShortOnlyAtEnd
CHECK_DEADLOCK FALSE
