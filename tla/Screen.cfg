CONSTANTS
  NUM_ROWS = 2
  NUM_COLS = 2
  NUM_TERMINALS = 2
  BUFFER_SIZE = 2
  MaxText = 3
  MaxOther = 2
SPECIFICATION Spec
INVARIANTS
  PageShowsText
CONSTRAINT Undisturbed
VIEW Relevant
