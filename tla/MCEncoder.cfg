SPECIFICATION MCSpec
CONSTANTS
  nvenc = nvenc
  qsv = qsv
  Codecs = {"h264"}
  Vendors = {nvenc, qsv}
  AUTO_ORDER <- AutoOrder
  Options <- StartOptions
  MaxStarts = 2
  MaxFaults = 1
  PROBE_BUDGET = 1
  PROBE_DRAIN_TIMEOUT = 1
  MaxFed = 3
  Chords <- TwoChords
  Refreshers = {poll, loop}
  PressLoop = loop
  MaxPresses = 2
  MaxNews = 2
  Frames = 3
  QUEUE_DEPTH = 2
  VideoDepth = 2
  Slots = 2
  RENEGOTIATION_ATTEMPTS = 3
  TransformFaults = 1
  Blocks = 3
  AudioDepth = 2
  Askers = {start, panel}
  Machines <- DriverSets
  CANDIDATE_INPUTS <- InputFormats
  BGRA = "bgra"
  WARM_UP = 1
  PROBE_SLACK = 1
  ProbeWindow = 1
  MaxMeasured = 2
  MaxCalls = 1
  SetupFaults = 1
INVARIANTS
  AFailedStartLeavesNothing
  RecordingsStartAsPromised
  MediaIsOnItsTimeline
  FinishTellsTheTruth
  HotkeysAreAsTold
PROPERTIES
  ClosingReturns
  TrayCatchesUp
CHECK_DEADLOCK FALSE
