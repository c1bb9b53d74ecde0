SPECIFICATION FairSpec
CONSTANTS
  MaxPingFailures = 3
  MaxBackoffLevel = 2
  Pipes <- MCPipes
  MaxQueued = 2
  MaxFaults = 1
INVARIANTS
  
  ClientNeverAlone
PROPERTIES
  HalfOpenResolves
  PathSettles
