SPECIFICATION Spec
CONSTANTS
  Fragments <- MCFragments
  MaxFragments = 3
INVARIANTS BufferIsRecent LengthsAreKept CleanIsReported
PROPERTIES ReportsAreRecent LengthsAreReported BitsAreHeard
