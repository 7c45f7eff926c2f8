CONSTANTS
  Writers = {w1, w2, w3}
  Readers = {r1, r2}
  TextLength = 2
SPECIFICATION SegmentsSpec
INVARIANTS SegmentsAreFreed ApartOnlyAfterRemoval
PROPERTIES PromptedTextIsWhole
CHECK_DEADLOCK FALSE
