SPECIFICATION FairSpec
CONSTANTS
  Blocks = {b1, b2, b3, b4}
  NoBlock = NoBlock
  Readers = {r1, r2}
  RxCount = 2
  Uses <- AllUses
CHECK_DEADLOCK FALSE
INVARIANTS BlockHasPermit AtRest BlocksOwned RunningFed
PROPERTY StopEnds
