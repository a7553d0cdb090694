SPECIFICATION LiveSpec
CONSTANTS
    cs = cs
    lol = lol
    NoGame = NoGame
    WatchList <- MCWatchList
    LiveGames <- MCLiveGames
    NameOf <- MCNameOf
    Confirmations = 2
    MaxTurns = 3
    MaxFaults = 2
INVARIANTS
  RecordingIsItsGames
PROPERTIES
  NothingEndsByMistake
  NothingIsHeldForEver
CHECK_DEADLOCK FALSE
