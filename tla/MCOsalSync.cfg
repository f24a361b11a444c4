\* Main and two workers created in turn on one struct, two event bits.
\* Every behaviour ends once the call budget is spent and the workers are
\* joined, so a final state is not a deadlock.
CONSTANTS
  Main = Main
  NoThread = NoThread
  w1 = w1
  w2 = w2
  b1 = b1
  b2 = b2
  m1 = m1
  m2 = m2
  Msgs <- MCMsgs
  SemLimit = 1
  QueueCap = 1
  Workers <- MCWorkers
  Bits <- MCBits
  MaxDepth = 2
  MaxOps = 3
  RecreateAfterTimeout = FALSE
SPECIFICATION Spec
INVARIANT TypeOK
INVARIANT LockHeldAsReported
INVARIANT JoinAfterExit
INVARIANT DestroyBalanced
INVARIANT QueueFifo
CHECK_DEADLOCK FALSE
