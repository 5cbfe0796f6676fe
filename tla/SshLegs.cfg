SPECIFICATION Spec
CONSTANTS
  Tasks = {"t1", "t2", "t3"}
  Retries = 2
  MaxCrashes = 1
  Jobs <- MCJobs
  Interrupted = {"ca", "host"}
  Names = {"git"}
  Users = {"a", "b"}
  HostKeys = {"k1", "k2"}
  GuestScript <- MCGuestScript
  ServerScript <- MCServerScript
  MaxRekeys = 1
  MaxDials = 1
  MaxOpen = 1
CHECK_DEADLOCK FALSE
INVARIANT KeyFilesKept
 
INVARIANT GuestTold
PROPERTY EndsTogether
