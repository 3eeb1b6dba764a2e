SPECIFICATION WSpec
CONSTANTS
  Blocks <- MCBlocks
  BlockWords = 2
  MshrSize = 4
  NumBanks = 2
  BlocksPerRow = 2
  Step = 5
  CmdLen = 1
  DataLen = 2
INVARIANTS
  NoAbort
  NoMissedFinish
  WordsDontShareBus
  LastWordLast
  RowStaysOpen
  CommandsDontOverlap
  WaitInv
  WaitIsBounded
PROPERTIES
  AlwaysServing
VIEW RelativeView
CHECK_DEADLOCK FALSE
