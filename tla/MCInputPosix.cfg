\* Input: two distinguishable events through a three-cell ring
\* (EVENT_QUEUE_MAX is 64): enough to fill it, wrap eq_head and eq_tail,
\* and drop at the full boundary, with and without a callback.  Crash log:
\* the instance MCInputPosix's CL fixes (MCCrashLog.cfg's bounds).
CONSTANTS
  ev1 = ev1
  ev2 = ev2
  Events <- MCEvents
  QueueMax = 3
SPECIFICATION BothSpec
INVARIANT DeviceTypeOK
INVARIANT CrashEmitOutputSound
PROPERTY QueueRefinement
