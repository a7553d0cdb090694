SPECIFICATION MCSpec
CONSTANTS
  BLOCK = 2
  LIVE_LAG = 1
  MAX_FILL = 3
  MAX_PACKETS = 2
  RETRY_INTERVAL = 1
  SWITCH_CHECK_INTERVAL = 2
  DEVICE_STALL = 2
  Devices = {d1}
  Games = {g1}
  Suspend = 5
  Horizon = 4
  Changes = 2
  Tracks <- MCTracks
  Threads = {"audio", "other"}
  Periods = {0, 3, 6}
  MAX_BUFFER = 5
  ORDINARY = 2
  THRESHOLD = 2
  MaxFailures = 1
  MaxStarts = 2
  MaxStrays = 1
INVARIANTS
  SoundSitsOnTheClock
  BackendsAreKept
PROPERTIES
  ChangesAreNoticed
  EveryDeviceIsGivenBack
CHECK_DEADLOCK FALSE
