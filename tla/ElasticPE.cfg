SPECIFICATION PEFairSpec
CONSTANTS
  Out = Out
  ToA = ToA
  Outputs = {Out, ToA}
  First = Out
  Enabled = {Out, ToA}
  Capacity = 2
  MaxTokens = 10
  fadd = fadd
  fmul = fmul
  Opcodes = {fadd, fmul}
  Opcode0 = fmul
  Latency <- MCLatency
  max_latency = 2
  Depth = 2
  MaxOperands = 4
INVARIANTS StageInStep PairsMatch ExactUnlessSlipped ServedOncePerToken
PROPERTY EveryOperandJoined
