SPECIFICATION Spec
CONSTANTS
  c1 = c1
  Contracts = {c1}
  NoContract = NoContract
  NoBlock = NoBlock
  Blocks <- mcBlocks
  DumpTrigger = 0
  CrashPoints = {"idle", "open", "write"}
  MaxHeight = 3
  MaxCrashes = 2
INVARIANTS
  StateIsOfChain
  SnapshotIsOfItsHeight
  
CHECK_DEADLOCK FALSE
