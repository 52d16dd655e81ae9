SPECIFICATION FairSpec
CONSTANTS
  Clients = {c1, c2, c3}
  Forever = {c1}
  NumBlocks = 2
INVARIANTS TypeOK Conservation UsageExact DeinitSafe NoStrandedBlock
PROPERTIES IsPool HandedBlockTaken
