CONSTANTS
  t1 = t1
  t2 = t2
  d1 = d1
  d2 = d2
  NULL = NULL
  NoOne = NoOne
  Threads <- MCThreads
  Devs <- MCDevs
  AllocCanFail = TRUE
SPECIFICATION Spec
INVARIANT TypeOK
INVARIANT NoFreedRegistered
INVARIANT NoLeak
PROPERTY OpenReturns
\* A failed RT_ASSERT or a dereference of freed memory stops the kernel:
\* Running is false there and no step follows.
CHECK_DEADLOCK FALSE
