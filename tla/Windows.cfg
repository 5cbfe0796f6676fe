CONSTANTS
  Bytes = {1, 2, 3}
  Pairs <- MCPairs
  MaxArrival = 4
  MaxStream = 7
SPECIFICATION Spec
INVARIANT Faithful
INVARIANT ScanExact
