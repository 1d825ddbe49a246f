SPECIFICATION Spec
CONSTANTS
  f1 = f1  f2 = f2  f3 = f3  f4 = f4
  s1 = s1  s2 = s2  x = x  r = r  q3 = q3  q4 = q4  q5 = q5
  va = va  vb = vb
  opA = opA  opB = opB  opC = opC  opD = opD
  Nodes = {s1, s2, x, r, q3, q4, q5}
  FUs = {f1, f2, f3, f4, r}
  Ops = {opA, opB, opC, opD}
  UNTAGGED = "any"
  first_fanout <- CrossFirst
  fanout <- BypassFanout
  latency <- BypassLatency
  bitwidth <- AllWide
  supported_operand_tags <- BypassPins
  valNodes <- OneValue
  input <- OneProducer
  output <- BypassSinks
  Placements <- BypassPlacements
  MaxIterations = 2
INVARIANT SinglyDriven
