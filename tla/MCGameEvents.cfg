SPECIFICATION MCSpec
CONSTANTS
    MaxTurns = 5
    LolTurns = 3
    GsiTurns = 5
    BothTurns = 3
    MaxFaults = 1
    MaxGames = 2
    MaxClock = 2
    Games = {"cs2", "dota2"}
    Players = {"me", "other"}
    Workers = 2
    MaxQueued = 1
    Quiet = 3
    MaxBurst = 4
    LolPre = 6
    GsiPre = 3
    PostRoll = 1
    Splice = 1
    Muted = {}
    MaxRecordings = 2
INVARIANTS
  ReportsAreTrue
  MomentIsInItsClip
PROPERTIES
  LinesAreReportedOnce
CHECK_DEADLOCK FALSE
