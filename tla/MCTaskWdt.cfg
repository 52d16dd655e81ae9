SPECIFICATION WdtSpec
CONSTANTS
  t1 = t1
  t2 = t2
  Watched <- MCWatched
  Ticks = 16
  Timeout = 5
  Slack = 1
  Poll = 3
INVARIANT HungTaskFound
PROPERTY AlarmJustified
