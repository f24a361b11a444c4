\* Zephyr backend (run zephyr_race): the caller deregisters while the
\* service has a bound callback queued for the endpoint, then sends on it.
CONSTANTS
  h1 = h1
  h2 = h2
  h3 = h3
  stemA = stemA
  stemB = stemB
  z1 = z1
  NoExt = NoExt
  None = None
  MaxEndpoints = 3
  Handles <- MCHandles
  Names <- MCNamesShort
  CallbackOps <- MCOpsPlain
  MaxDepth = 1
  ReRegister = FALSE
SPECIFICATION BothSpec
INVARIANT ZephyrSendPassesOnlyWhenBound
