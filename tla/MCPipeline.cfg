SPECIFICATION Spec
CONSTANTS
  Bits = 4
  WordSize = 16
  WordBytes = 4
  Regs <- MCRegs
  Fns <- MCFns
  Result <- MCResult
  Product <- MCProduct
  Taken <- MCTaken
  Part <- MCPart
  Patched <- MCPatched
  ExitCode = 2
  Programs <- MCPrograms
  InitialRegs <- MCInitialRegs
  InitialHiLo <- MCInitialHiLo
  InitialMemory <- MCInitialMemory
  NoOp = NoOp
  NoBlock = NoBlock
  Latency <- MCLatency
  L2Stall = 2
  MemoryStall = 1
  BlockWords = 2
  MshrSize = 4
INVARIANTS
  IndInv
PROPERTIES
  ImplementsIsa
CHECK_DEADLOCK FALSE
