\* The loopback runtime under its documented use: each handle registered at
\* most once, names that fit, bound callbacks that may send or deregister;
\* beside it, the Zephyr backend with one endpoint and five calls.
CONSTANTS
  h1 = h1
  h2 = h2
  h3 = h3
  stemA = stemA
  stemB = stemB
  z1 = z1
  NoExt = NoExt
  None = None
  MaxEndpoints = 3
  Handles <- MCHandles
  Names <- MCNamesShort
  CallbackOps <- MCOpsPlain
  MaxDepth = 1
  ReRegister = FALSE
SPECIFICATION BothSpec
INVARIANT IpcTypeOK
INVARIANT MutualPeers
PROPERTY ZephyrBindsEventually
