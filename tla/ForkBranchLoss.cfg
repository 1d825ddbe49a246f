SPECIFICATION Spec
CONSTANTS
  Outputs = {o0, o1, o2}
  First = o0
  Capacity = 2
  MaxTokens = 3
INVARIANT TakenBranchServed
