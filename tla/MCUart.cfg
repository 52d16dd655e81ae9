SPECIFICATION FairSpec
CONSTANTS
  Tasks = {t1, t2}
  App = App
  Nobody = Nobody
  Uses <- AllUses
INVARIANTS OkMeansDone LockMeansIdle
PROPERTY LockReturns
CHECK_DEADLOCK FALSE
