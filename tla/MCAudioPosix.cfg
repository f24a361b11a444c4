\* Two handles on the two default ports, the speaker's S16 mono and stereo
\* configs, a 4-frame test buffer, callers that keep to open handles.
CONSTANTS
  a1 = a1
  a2 = a2
  None = None
  Handles <- MCHandles
  Configs <- MCConfigsProfile
  Frames = {1, 3}
  Gains <- MCGains
  BufFrames = 4
  MaxRoutes = 1
  Misuse <- MCMisuseNone
SPECIFICATION Spec
INVARIANT TypeOK
INVARIANT OneStreamPerPort
INVARIANT CopyInBounds
