SPECIFICATION Spec
CONSTANTS
  Slots = {1, 2}
  MAX_FD = 4
  n_dentries = 2
  MaxDirs = 3
INVARIANT ContinuesListing
