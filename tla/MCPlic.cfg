CONSTANTS
  NrIrqs = 3
  IrqMaxNr = 4
  NrContext <- MCNrContextTwo
  Handlers <- MCHandlers
  MaxThreshold = 7
  MaxRaises = 2
SPECIFICATION Spec
INVARIANT TypeOK
INVARIANT OneOutstanding
PROPERTY EventuallyClaimed
