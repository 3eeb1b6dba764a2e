SPECIFICATION Spec
CONSTANTS
  A = 3
  Addresses = {a1, a2, a3, a4, a5}
  NoBlock = NoBlock
  Configs <- AllConfigs
  EafSize = 2
  L1Blocks = 2
  L2Blocks = 3
  MaxUses = 4
INVARIANTS
  VictimIsInSet
CHECK_DEADLOCK FALSE
