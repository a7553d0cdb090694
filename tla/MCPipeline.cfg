SPECIFICATION MCSpec
CONSTANTS
  Interval = 2
  BUFFER_COUNT = 2
  DEPTH = 3
  QUEUE_DEPTH = 2
  Frames = 4
  EndTime = 6
  Intervals = {0, 1, 2, 5}
  ClockEnd = 6
  SEG = 2
  MARGIN = 1
  Earlier <- EarlierSets
  ClipWindows <- AskedWindows
  MaxMedia = 6
  MaxClips = 2
  FilesFaults = 1
  SINK_QUEUE_CHUNKS = 2
  MaxChunks = 6
  SinkFaults = 2
INVARIANTS
  CaptureKeepsTime
  FootageIsAccountedFor
PROPERTIES
  NothingIsWrittenTwice
CHECK_DEADLOCK FALSE
