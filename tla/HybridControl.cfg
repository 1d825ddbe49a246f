SPECIFICATION FairSpec
CONSTANTS
  Banks = {b0, b1}
  FirstBank = b0
  Ports = {p0, p1}
  FirstPort = p0
  Data = {0, 1}
  MaxCount = 4
  Latency = 1
  StartLatency = 2
INVARIANTS BusInStep LoadsReturnTheWord CountedRunExact GoesOnAfterEnd
PROPERTY EveryRunEnds
