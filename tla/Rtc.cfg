SPECIFICATION FairSpec
CONSTANTS
  Slots = {1, 2}
  NUM_FREQS = 2
  COUNT_BITS = 3
  MAX_RTC_FDS = 2
INVARIANTS
  NoRateWithoutDescriptor
PROPERTIES
  NotifiedAtRate
  RtcReadReturns
