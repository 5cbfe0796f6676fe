SPECIFICATION Spec
CONSTANTS
  Grants <- MCGrants
  Opens <- MCOpens
  MaxHead = 2
  MaxHello = 2
  Validity = 1
  MaxConns = 2
  MaxTime = 1
CHECK_DEADLOCK FALSE
INVARIANT StreamKept
INVARIANT RightParty
INVARIANT CopiedUncovered
 
