CONSTANTS
  s1 = s1
  s2 = s2
  v1 = v1
  NULL = NULL
  Signos <- MCSignos
  Sigvals <- MCSigvals
  Modes <- MCOneShot
  MaxFires = 3
  Freqs <- MCFreqs
SPECIFICATION Spec
INVARIANT TypeOK
INVARIANT WorkListWellFormed
PROPERTY EveryFireSignalled
