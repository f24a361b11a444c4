\* ESP-IDF's default 100 Hz tick; starts of 20 or 30 ms, one-shot or with a
\* 40 ms period (not equal to initial_ms, unlike the unit tests), at most
\* two starts within 10 ticks.
CONSTANTS
  Initials = {20, 30}
  Periods = {0, 40}
  TickHz = 100
  QueueLen = 2
  MaxTime = 10
  MaxStarts = 2
SPECIFICATION Spec
INVARIANT TypeOK
 
PROPERTY StopSilences
