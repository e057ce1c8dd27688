CONSTANTS
  NrIrqs = 2
  IrqMaxNr = 4
  NrContext <- MCNrContextThree
  Handlers <- MCHandlers
  MaxThreshold = 7
  MaxRaises = 1
SPECIFICATION Spec
PROPERTY EventuallyClaimed
