SPECIFICATION LiveSpec
CONSTANTS
  Blocks <- MCBlocks
  BlockWords = 2
  MshrSize = 4
  NumBanks = 2
  BlocksPerRow = 2
  Step = 5
  CmdLen = 1
  DataLen = 2
  LastRequest = 30
  LastCycle = 90
PROPERTIES
  EveryBlockAnswered
  ImplementsBlockService
CHECK_DEADLOCK FALSE
