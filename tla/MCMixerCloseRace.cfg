\* A stream slot closed (and reopened by another stream) while the first
\* stream is between the unlocked active check and the locked ring write.
CONSTANTS
  s1 = s1
  s2 = s2
  s3 = s3
  NoSlot = NoSlot
  MaxSlots = 2
  MaxPeriodFrames = 2
  MaxChannels = 1
  PeriodFrames = 2
  Channels = 1
  Streams <- MCStreams2
  Samples <- MCSamplesOne
  WriteFrames = {1, 5}
  Volumes <- MCVolumesHalf
  MaxAccepted = 2
  UnderrunCap = 1
  CloseRacesWrite = TRUE
  JoinMayTimeOut = FALSE
SPECIFICATION Spec
INVARIANT AcceptedIsPlayedThenQueued
