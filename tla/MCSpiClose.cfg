CONSTANTS
  t1 = t1
  t2 = t2
  d1 = d1
  d2 = d2
  NULL = NULL
  NoOne = NoOne
  Threads <- MCThreads
  Devs <- MCDevs
  AllocCanFail = FALSE
SPECIFICATION Spec
INVARIANT NoBadOwnerUse
\* A failed RT_ASSERT or a dereference of freed memory stops the kernel:
\* Running is false there and no step follows.
CHECK_DEADLOCK FALSE
SYMMETRY MCSymmetry
