SPECIFICATION Spec
CONSTANTS
  MaxPingFailures = 3
  MaxBackoffLevel = 5
  MaxAttempts = 1
INVARIANTS
  ExecutorsAgree
  TwinsAgree
CHECK_DEADLOCK FALSE
