\* The mixer under its intended use: streams close their own slots, deinit
\* runs with no open stream, the join completes; the mixer thread weakly fair.
CONSTANTS
  s1 = s1
  s2 = s2
  s3 = s3
  NoSlot = NoSlot
  MaxSlots = 2
  MaxPeriodFrames = 2
  MaxChannels = 1
  PeriodFrames = 2
  Channels = 1
  Streams <- MCStreams2
  Samples <- MCSamplesOne
  WriteFrames = {1, 5}
  Volumes <- MCVolumesHalf
  MaxAccepted = 2
  UnderrunCap = 1
  CloseRacesWrite = FALSE
  JoinMayTimeOut = FALSE
SPECIFICATION Spec
INVARIANT TypeOK
INVARIANT RingBounded
INVARIANT AcceptedIsPlayedThenQueued
PROPERTY AcceptedEventuallyPlayed
