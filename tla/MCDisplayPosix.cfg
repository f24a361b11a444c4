\* Three layer structs over two slots (so open meets -ENOMEM), sprite,
\* full-screen, MONO1 and off-screen configs, exact, short and oversized
\* writes, callers that keep to open handles.
CONSTANTS
  l1 = l1
  l2 = l2
  l3 = l3
  None = None
  Handles <- MCHandles
  Configs <- MCConfigs
  Sizes = {200, 400000}
  Percents = {50, 255}
  MaxLayers = 2
  MaxCommits = 2
  Misuse <- MCMisuseNone
SPECIFICATION Spec
VIEW LiveView
INVARIANT TypeOK
INVARIANT LayerIsolation
INVARIANT NoLeakedSlot
INVARIANT BufferFitsLayer
PROPERTY CommitShowsOpenLayer
