SPECIFICATION Spec
CONSTANTS
  Threads = {io0, io1}
  Base = io0
  Null = Null
  PerBlock = 2
  MaxBlocks = 2
  PoolUses = {"shrink"}
INVARIANT ShrinkSupported
