CONSTANTS
  Byte = 3
  WordBits = 8
  HexDigits = 2
  MAX_FNAME_LEN = 3
  MAX_DENTRIES = 2
  BUFFER_SIZE = 6
  MemSize = 11
  MaxString = 3
  MaxFormat = 2
  MaxCommand = 6
  MaxFile = 6
  MaxFrame = 4
  MAX_FD = 8
  BUFSIZE = 3
SPECIFICATION Spec
INVARIANTS
  LibRoutines
  NamesFound
  CommandSplit
  SyserrPasses
  GrepPrints
  FramesAdded
