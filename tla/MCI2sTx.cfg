SPECIFICATION FairSpec
CONSTANTS
  Blocks = {b1, b2, b3, b4}
  NoBlock = NoBlock
  TxCount = 2
  Uses <- AllUses
CHECK_DEADLOCK FALSE
INVARIANTS TypeOK PlacesExact BlocksOwned RunningFed
PROPERTIES DrainSendsAll DrainEnds
