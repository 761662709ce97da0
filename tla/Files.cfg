SPECIFICATION Spec
CONSTANTS
  Slots = {1, 2}
  MAX_FD = 4
  n_dentries = 1
  MaxDirs = 2
INVARIANTS
  NextListingFromStart
  ListsInOrder
