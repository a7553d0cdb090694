SPECIFICATION MCSpec
CONSTANTS
  MaxSaves = 1
  MaxWrites = 3
  MaxNow = 1
  Cap = 2
  MaxAge = 0
  MaxFaults = 1
  Openers = {desktop, cli}
  SCHEMA_VERSION = 5
  Pieces <- PiecesAdded
  MaxDeaths = 2
  MaxMarkers = 4
  MaxOffset = 3
  Calls = {c1, c2}
  InitialFiles <- Files
  SettingsEdits <- PanelEdits
  EncoderEdits <- EncoderPanelEdits
  HandEdits <- Typed
  MaxApplies = 3
  MaxHand = 2
  Index = index
  Config = config
  Entries = {index, config, clips}
  MaxLaunches = 3
  Launches = {l1, l2}
  MaxMishaps = 2
  MaxEdits = 1
  Drivers = {1, 2, 3}
  Threads = {t1, t2}
  MaxTurns = 4
  MaxFileFaults = 2
  MaxInstalls = 1
  Targets = {"windows", "linux"}
  Host = "linux"
  Binaries <- FfmpegAndFfprobe
  Versions = {"old", "new", "bad", "bare", "big"}
  Contents <- ArchiveContents
  MaxCommands = 2
  MaxReleases = 1
  MaxFailures = 2
  Options <- CommandLines
  Probes <- ProbesFound
  MaxOdd = 1
INVARIANT RecordingHasItsListener
CHECK_DEADLOCK FALSE
