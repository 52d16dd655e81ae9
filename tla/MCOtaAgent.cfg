SPECIFICATION FairSpec
CONSTANTS
  Sectors = 3
  Lengths = {4, 5}
  MaxFaults = 2
  Uses <- AllUses
INVARIANTS  ExpireInstalls 
PROPERTY Recovers
