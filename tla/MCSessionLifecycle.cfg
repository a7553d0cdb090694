SPECIFICATION MCSpec
CONSTANTS
    Recorders = {r1, r2}
    User = user
    NoOne = nobody
    Kinds <- AllKinds
    MaxSessions = 2
    MaxFaults = 2
INVARIANTS
  RowsTellTheTruth
PROPERTIES
  FootageOutlivesItsRow
  EverySessionIsClosed
