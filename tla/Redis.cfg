CONSTANTS
  Commands <- MCCommands
  MaxCommands = 2
  RulePairs <- MCPairs
  Fake <- FakeWord
  Real <- RealWord
  UpUser <- Upstream
  MaxCommand = 20
  MaxRead = 40
SPECIFICATION RedisSpec
INVARIANT CommandsRead
INVARIANT BufferBounded
