SPECIFICATION FairSpec
CONSTANTS
  DEPTH = 3
  Data = {d1, d2}
  NoData = NoData
INVARIANT PointersAgree
PROPERTIES FifoSpec EveryWordLeaves
