SPECIFICATION MCSpec
CONSTANTS
  c1 = c1
  c2 = c2
  Conns = {c1, c2}
  InputBuffer = 2
  EventBuffer = 2
  MaxOutput = 2
  Window = 2
  CaptureCap = 2
  Cap10m = 3
  Cap2h = 2
  Cap24h = 1
  Every2h = 2
  Every24h = 2
  Readings = {0, 3}
  PerDay = 2
  Retain = 2
  MemoryMB = 3
  TTL = 3
  Debounce = 2
  MaxNow = 5
  MaxPerTick = 2
INVARIANTS
    TrackerSound
    
    MeasuredExactly
PROPERTIES
    BusyNotExpired
    StreamsEnd
CHECK_DEADLOCK FALSE
