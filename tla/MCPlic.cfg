SPECIFICATION FairPlicSpec
CONSTANTS
  l1 = l1
  l2 = l2
  l3 = l3
  uart = uart
  i2c = i2c
  timer0 = timer0
  timer1 = timer1
  Irqs <- MCIrqs
  Drivers <- MCDrivers
  Line <- MCLine
  Leavers <- AloneLeave
INVARIANT StillHandled
PROPERTY Served
