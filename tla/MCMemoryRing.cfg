SPECIFICATION Spec
CONSTANTS
    CapBytes = 4
    MaxPreMs = 1
    MaxPostMs = 2
    SegmentMs = 2
    Rounding = 0
    Sizes = {1, 5}
    Windows <- BothWindows
    MaxBatch = 2
    MaxMs = 7
INVARIANTS
  HoldsTheNewest
  WithinCaps
  ClipIsAsAsked
