SPECIFICATION FairSpec
CONSTANTS
  Tasks = {t1, t2, t3}
  Handles = {1, 2}
  NULL = NULL
  QueueLen = 2
  Uses <- AllUses
INVARIANTS NoStaleHandle AllOrNothing
PROPERTY Delivered
