SPECIFICATION Spec
CONSTANTS
  f1 = f1  f2 = f2  f3 = f3  f4 = f4
  s1 = s1  s2 = s2  x = x  r = r  q3 = q3  q4 = q4  q5 = q5
  va = va  vb = vb
  opA = opA  opB = opB  opC = opC  opD = opD
  Nodes = {s1, s2, x, r, q3, q4, q5}
  FUs = {f1, f2, f3, f4, r}
  Ops = {opA, opB, opC, opD}
  UNTAGGED = "any"
  first_fanout <- CrossFirst
  fanout <- CrossFanout
  latency <- NoLatency
  bitwidth <- CrossBits
  supported_operand_tags <- CrossPins
  valNodes <- TwoValues
  input <- Producers
  output <- CrossSinks
  Placements <- CrossPlacements
  MaxIterations = 3
INVARIANTS
  OccupancyIsMapping
  SuccessIsExclusive
  RecordedIsConnected
  FailureLeavesClean
