SPECIFICATION SegSpec
CONSTANTS
  Radix = 2
  Gdts <- MCGdts
  Ldt <- MCLdt
  Selectors <- MCSelectors
  Bases = {0, 5, 200}
INVARIANTS
  SegTypeOK
  EntryAcceptsSegments
PROPERTIES
  GuestSegmentsMatch
CHECK_DEADLOCK FALSE
