CONSTANTS
  Scripts <- MCScripts
  Pairs <- MCPairs
  MaxGreeting = 7
SPECIFICATION Spec
INVARIANT PipelinedRelayed
