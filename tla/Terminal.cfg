SPECIFICATION FairTerminalSpec
CONSTANTS
  BUFFER_SIZE = 3
  Chars = {a, b}
  Newline = Newline
  Nul = Nul
  Sizes = {0, 1, 3, 4}
INVARIANTS
  ReadExact
  ReadBounded
PROPERTIES
  ReadReturns
