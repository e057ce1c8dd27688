CONSTANTS
  Channels <- MCChannels
  Events <- MCEvents
  Lengths <- MCLengths
  MaxLine = 2
  NBlocks = 2
  PvOffset = 0
  HardlockOk = TRUE
  CarefulClient = TRUE
SPECIFICATION Spec
INVARIANT TypeOK
INVARIANT LltChainCovers
INVARIANT ChannelStaysEnabled
INVARIANT NoLeak
