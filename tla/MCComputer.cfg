SPECIFICATION MCSpec
CONSTANTS
  WordSize = 32
  WordBytes = 1
  Regs <- MCRegs
  Fns <- MCFns
  Result <- MCResult
  Product <- MCProduct
  Taken <- MCTaken
  Part <- MCPart
  Patched <- MCPatched
  ExitCode = 2
  Programs <- MCPrograms
  InitialRegs <- MCInitialRegs
  InitialHiLo <- MCInitialHiLo
  InitialMemory <- MCInitialMemory
  NoOp = NoOp
  NoBlock = NoBlock
  Latency <- MCLatency
  L2Stall = 16
  MemoryStall = 11
  BlockWords = 8
  MshrSize = 16
  NumBanks = 8
  BlocksPerRow = 2048
  Step = 12
  CmdLen = 2
  DataLen = 6
  BlockNumber <- MCBlockNumber
  RunLengths <- MCRunLengths
  Inputs <- MCInputs
  HiLoInputs <- MCHiLoInputs
INVARIANTS
  SessionInv
PROPERTIES
  ImplementsShell
  ImplementsMemCtrl
  ImplementsIsa
  ProgramEnds
