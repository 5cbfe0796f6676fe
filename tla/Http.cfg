SPECIFICATION Spec
CONSTANTS
  Connections <- AllConnections
  MaxMessages = 2
  MintCap = 4
  Fresh <- FreshToken
  Decoy <- DecoyToken
INVARIANT PeerReads
INVARIANT Prompt
 
INVARIANT HookCovers
INVARIANT Unchanged
