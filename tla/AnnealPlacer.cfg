SPECIFICATION Spec
CONSTANTS
  x = x  y = y  u = u  v = v  w = w
  mP = mP  nP = nP  aQ = aQ  bQ = bQ  mQ = mQ  aR = aR  bR = bR
  P = P  Q = Q  R = R
  NoFU = NoFU
  Location <- PELocation
  Ops = {x, y, u, v, w}
  FUs = {mP, nP, aQ, bQ, mQ, aR, bR}
  Architectures <- AllArchitectures
  l_clusters <- FixedAlone
  l_op_cluster_index <- FixedAloneIndex
  l_fix_ports <- FixedU
INVARIANTS
  OccupancyIsMapping
  PlacedIsLegal
  RejectRestores
  UniformSupportsOp
  ClustersStayTogether
PROPERTY LoneFixedOpsStay
