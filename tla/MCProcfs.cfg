CONSTANTS
  t1 = t1
  t2 = t2
  e1 = e1
  e2 = e2
  n1 = n1
  n2 = n2
  Threads <- MCThreads
  Entries <- MCEntries
  Names <- MCNames
  Count = 1
  None = None
SYMMETRY MCSymmetry
SPECIFICATION Spec
INVARIANT TypeOK
INVARIANT ListingExact
