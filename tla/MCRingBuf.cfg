SPECIFICATION RingSpec
CONSTANTS
  Items = {b1, b2}
  RingLen = 4
PROPERTY IsFifo
