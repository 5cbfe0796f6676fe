CONSTANTS
  Scripts <- MCScripts
  Pairs <- MCPairs
  MaxGreeting = 7
SPECIFICATION FairSpec
INVARIANT ServerReads
INVARIANT RequestsAnswered
INVARIANT NoDowngrade
PROPERTY OpeningSettles
