-------------------------- MODULE MCDisplayPosix ---------------------------
EXTENDS DisplayPosix

CONSTANTS l1, l2, l3

MCHandles == {l1, l2, l3}

\* a 10x10 RGB565 sprite (200 bytes), a full-screen ARGB8888 layer
\* (307200 bytes, more than FAKE_FB_SIZE), a 9x1 MONO1 strip (2 bytes) and
\* a layer that runs off the right edge
MCConfigs ==
  {[x |-> 0, y |-> 0, w |-> 10, h |-> 10, fmt |-> "RGB565"],
   [x |-> 0, y |-> 0, w |-> 320, h |-> 240, fmt |-> "ARGB8888"],
   [x |-> 4, y |-> 8, w |-> 9, h |-> 1, fmt |-> "MONO1"],
   [x |-> 300, y |-> 0, w |-> 40, h |-> 10, fmt |-> "RGB565"]}

MCMisuseNone == {}
MCMisuseStale == {"stale"}
MCMisuseReopen == {"reopen"}

\* States that differ only in dead data are merged: the fields of a struct
\* whose opened field is clear (open overwrites them, nothing else reads
\* them) and the pixels of a staging buffer whose size is 0 (commit skips
\* it, write and open overwrite it).
LiveView ==
  <<initialized, deviceCount, slotUsed, slotDisplay, bufSize,
    [i \in Slots |-> IF bufSize[i] > 0 THEN bufFrom[i] ELSE None],
    fbSize, fbFrom, commitCount, brightness, vsyncEnabled, vsyncCb,
    [h \in Handles |-> IF layer[h].opened THEN layer[h] ELSE ZeroLayer], opened>>
=============================================================================
