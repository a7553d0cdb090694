SPECIFICATION MCSpec
CONSTANTS
    MaxTurns = 5
    LolTurns = 2
    GsiTurns = 3
    BothTurns = 2
    MaxFaults = 1
    MaxGames = 2
    MaxClock = 2
    Games = {"cs2", "dota2"}
    Players = {"me", "other"}
    Workers = 2
    MaxQueued = 1
    Quiet = 3
    MaxBurst = 4
    LolPre = 6
    GsiPre = 6
    PostRoll = 1
    Splice = 1
    Muted = {}
    MaxRecordings = 2
PROPERTIES
  PostsAreAnswered
  DropReturns
CHECK_DEADLOCK FALSE
