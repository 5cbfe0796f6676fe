SPECIFICATION CaptureSpec
CONSTANTS
  MaxStarts = 2
  MaxFaults = 1
  Conns = {"a", "b"}
  MAX_TCP_CONNS = 1
  CHANNEL_CAP = 1
  BufCap = 1
  GuestUnits <- MCGuestUnits
  TaskUnits <- MCTaskUnits
  UdpKeys = {1, 2, 3}
  MAX_UDP_SESSIONS = 2
  Sockets = {"s", "t", "u"}
  Proto <- MCProto
  Dsts = {1, 2, 4}
  Ports = {1}
  Cidrs = {1, 2, 3, 4}
  Covers <- MCCovers
  Explicit = {4}
  Automatic = {1}
  Files <- MCFiles
  MAX_BYPASS = 2
  MAX_ENTRIES = 2
  MaxRewrites = 2
  MaxWriteFaults = 1
  FwdPorts = {1}
  MaxListens = 3
  MaxTableFaults = 1
CHECK_DEADLOCK FALSE
INVARIANT Steered
INVARIANT TunServes
 
 
 
