SPECIFICATION MCSpec
CONSTANTS
  None = None
  Second = 2
  AuditMaxLimit = 2
  Chans = {1, 2, 3}
  ReadCount = 2
  MaxRetrying = 2
  b1 = b1
  Boxes = {b1}
  s1 = s1
  s2 = s2
  Subs = {s1, s2}
  Calls = {1, 2, 3, 4, 5, 6, 7}
  SseBuffer = 1
  MaxCrashes = 1
INVARIANTS
    NoticesExact
    
    
PROPERTIES
    Delivered
CHECK_DEADLOCK FALSE
