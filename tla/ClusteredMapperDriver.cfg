SPECIFICATION DriverFairSpec
CONSTANTS
  load = load
  mul = mul
  add = add
  store = store
  big = big
  small = small
  n1 = n1
  n2 = n2
  n3 = n3
  n4 = n4
  Names <- MCNames
  Flows <- MCFlows
  Modules = {big, small}
  Nodes <- MCNodes
  Fabrics <- MCFabrics
  MaxClones = 1
  MaxIterations = 2
INVARIANTS IndexNamesCluster WholeGraphPlaced NoOpMissed CloneKeepsDataflow
PROPERTIES RetryExcludesMore MappingEnds
CHECK_DEADLOCK FALSE
