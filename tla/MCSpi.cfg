SPECIFICATION FairSpec
CONSTANTS
  Tasks = {t1, t2}
  Chans = {c1, c2, c3}
  NoChan = NoChan
  NoTask = NoTask
  App = App
  Uses <- AllUses
INVARIANTS OkMeansDone BusyExact ChannelsHeld
PROPERTY Notified
