SPECIFICATION Spec
CONSTANTS
  Blocks <- MCBlocks
  Mapped <- MCMapped
  NumSets <- MCSets
  NumWays <- MCWays
  Words = {w1, w2}
  Values = {0, 1}
  Zero = 0
  NoData = NoData
VIEW View
SYMMETRY WordsAlike
INVARIANTS
  IndInv
  OnlyDataIsWrittenBack
  L2MatchesMemory
  CleanMatchesMemory
PROPERTIES
  MemoryFollowsProgram
  StaleByWriteBack
  ServesAsFlatMemory
