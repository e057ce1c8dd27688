CONSTANTS
  Channels <- MCChannels
  Events <- MCEvents
  Lengths <- MCLengthsOne
  MaxLine = 2
  NBlocks = 2
  PvOffset = 0
  HardlockOk = TRUE
  CarefulClient = FALSE
SPECIFICATION Spec
PROPERTY ConfigDrains
PROPERTY SaddrStableWhileBusy
\* Reconfiguring leaks chains until rt_pages_alloc fails and pdma_llt_cal
\* stores through NULL: the kernel faults there and nothing runs on.
CHECK_DEADLOCK FALSE
