CONSTANTS
  MAX_BLINKS = 3
  SCREEN = 3
  Locations = {1, 2, 3}
  WIDTH = 2
  OnLengths = {2}
  OffLengths = {0, 3}
SPECIFICATION BlinkSpec
INVARIANTS
  ListHoldsAllocated
  ShowsStatus
PROPERTIES
  CountsTicks
