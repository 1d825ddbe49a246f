SPECIFICATION TreeSpec
CONSTANTS
  Fanout = 5
  UnitFanout = 2
  Layers = 3
  Enabled = {1, 2, 4}
  Capacity = 2
  MaxTokens = 3
PROPERTY FlatForkSpec
