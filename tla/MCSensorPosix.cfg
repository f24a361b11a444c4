\* Two sessions on the two default devices, a ring of 2 readings (so it
\* fills and wraps), reads of 1 or 2 readings, callers that close only the
\* sessions they hold.
CONSTANTS
  e1 = e1
  e2 = e2
  Sessions <- MCSessions
  TestDataMax = 2
  ReadCounts = {1, 2}
  MaxInjected = 3
  Misuse <- MCMisuseNone
SPECIFICATION Spec
INVARIANT TypeOK
INVARIANT OneSessionPerDevice
INVARIANT RingIsFifo
INVARIANT ReceivedOwnInOrder
