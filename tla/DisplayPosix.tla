--------------------------- MODULE DisplayPosix ----------------------------
(***************************************************************************)
(* The POSIX simulation backend of eai_display                             *)
(* (src/lib/eai_display/src/posix/display.c).                              *)
(*                                                                         *)
(* Module tables: layer_slots[], layer_display[], layer_buf_size[], the    *)
(* framebuffer, commit_count, brightness and the vsync registration.      *)
(* Pixel data is abstracted to the handle whose write put it there: a     *)
(* staging buffer holds bufFrom[i]'s pixels, the framebuffer fbFrom's.     *)
(* Layer handles are caller-allocated structs; the model holds the fields *)
(* the backend reads (opened, slot_index, display_id, config), zeroed     *)
(* before the first open.  Single-threaded (test harness): one step per   *)
(* call.  Calls that only return an error change nothing and are not      *)
(* steps.                                                                 *)
(*                                                                         *)
(* The caller's view, opened[h], is history: open returned 0 and no close,*)
(* init, deinit or test_reset has happened since.                         *)
(***************************************************************************)
EXTENDS Integers, FiniteSets

CONSTANTS
  Handles,      \* caller-allocated layer structs (model values)
  None,         \* no handle
  Configs,      \* layer configs offered to open: [x, y, w, h, fmt]
  Sizes,        \* byte counts passed to layer_write
  Percents,     \* values passed to set_brightness (uint8_t)
  MaxLayers,    \* CONFIG_EAI_DISPLAY_MAX_LAYERS
  MaxCommits,   \* bound on commit_count
  Misuse        \* caller errors allowed: subset of {"stale", "reopen"}

ASSUME /\ None \notin Handles
       /\ Sizes \subseteq Nat \ {0}
       /\ Percents \subseteq 0..255
       /\ MaxLayers \in Nat \ {0}
       /\ Misuse \subseteq {"stale", "reopen"}

FakeWidth == 320
FakeHeight == 240
FakeFbSize == FakeWidth * FakeHeight * 2     \* FAKE_FB_SIZE
Slots == 0..(MaxLayers - 1)

\* bpp
Bpp(fmt) == CASE fmt = "RGB565" -> 2 [] fmt = "RGB888" -> 3
              [] fmt = "ARGB8888" -> 4 [] OTHER -> 0

\* the bytes a layer's pixel area takes (layer_write's "expected")
Expected(cfg) ==
  IF cfg.fmt = "MONO1" THEN (cfg.w * cfg.h + 7) \div 8
                       ELSE cfg.w * cfg.h * Bpp(cfg.fmt)

\* layer_open's bounds check against devices[0] (320 x 240)
InBounds(cfg) == cfg.x + cfg.w <= FakeWidth /\ cfg.y + cfg.h <= FakeHeight

ZeroLayer == [opened |-> FALSE, slot |-> 0, display |-> 0,
              cfg |-> [x |-> 0, y |-> 0, w |-> 0, h |-> 0, fmt |-> "MONO1"]]

VARIABLES
  initialized,     \* initialized
  deviceCount,     \* device_count (devices[0] itself is fixed)
  slotUsed,        \* layer_slots[]
  slotDisplay,     \* layer_display[]
  bufSize,         \* layer_buf_size[]
  bufFrom,         \* whose pixels layer_buf[i] holds
  fbSize,          \* fb_written_size
  fbFrom,          \* whose pixels the framebuffer holds
  commitCount,     \* commit_count
  brightness,      \* brightness
  vsyncEnabled,    \* vsync_enabled
  vsyncCb,         \* vsync_cb != NULL
  layer,           \* the backend's fields of each caller's struct
  \* history, not program state:
  opened           \* the caller's view of which handles are open

vars == <<initialized, deviceCount, slotUsed, slotDisplay, bufSize, bufFrom,
          fbSize, fbFrom, commitCount, brightness, vsyncEnabled, vsyncCb,
          layer, opened>>

DisplayIds == 0..(deviceCount - 1)
NoHandles == [h \in Handles |-> FALSE]

-----------------------------------------------------------------------------
Init ==
  /\ initialized = FALSE
  /\ deviceCount = 0
  /\ slotUsed = [i \in Slots |-> FALSE]
  /\ slotDisplay = [i \in Slots |-> 0]
  /\ bufSize = [i \in Slots |-> 0]
  /\ bufFrom = [i \in Slots |-> None]
  /\ fbSize = 0
  /\ fbFrom = None
  /\ commitCount = 0
  /\ brightness = 0
  /\ vsyncEnabled = FALSE
  /\ vsyncCb = FALSE
  /\ layer = [h \in Handles |-> ZeroLayer]
  /\ opened = NoHandles

(* eai_display_init: clear slots, framebuffer, counters and vsync; set up  *)
(* the one default device.  Callers' structs are not touched.             *)
DisplayInit ==
  /\ initialized' = TRUE
  /\ deviceCount' = 1
  /\ slotUsed' = [i \in Slots |-> FALSE]
  /\ bufSize' = [i \in Slots |-> 0]
  /\ fbSize' = 0
  /\ fbFrom' = None
  /\ commitCount' = 0
  /\ brightness' = 100
  /\ vsyncEnabled' = FALSE
  /\ vsyncCb' = FALSE
  /\ opened' = NoHandles
  /\ UNCHANGED <<slotDisplay, bufFrom, layer>>

(* eai_display_deinit: clear layer_slots only. *)
DisplayDeinit ==
  /\ initialized
  /\ initialized' = FALSE
  /\ slotUsed' = [i \in Slots |-> FALSE]
  /\ opened' = NoHandles
  /\ UNCHANGED <<deviceCount, slotDisplay, bufSize, bufFrom, fbSize, fbFrom,
                 commitCount, brightness, vsyncEnabled, vsyncCb, layer>>

(* eai_display_test_reset: forget the device, clear everything init does. *)
TestReset ==
  /\ initialized' = FALSE
  /\ deviceCount' = 0
  /\ slotUsed' = [i \in Slots |-> FALSE]
  /\ bufSize' = [i \in Slots |-> 0]
  /\ fbSize' = 0
  /\ fbFrom' = None
  /\ commitCount' = 0
  /\ brightness' = 100
  /\ vsyncEnabled' = FALSE
  /\ vsyncCb' = FALSE
  /\ opened' = NoHandles
  /\ UNCHANGED <<slotDisplay, bufFrom, layer>>

\* the open loop without the layer_slots[i] test: always slot 0
FirstFreeSlotNoCheck == CHOOSE i \in Slots : \A j \in Slots : i <= j

\* layer_open's search: the lowest slot with layer_slots[i] false
FirstFreeSlot == CHOOSE i \in Slots : ~slotUsed[i] /\ \A j \in Slots : j < i => slotUsed[j]

(* eai_display_layer_open on an existing display with a free slot and an  *)
(* in-bounds config: zero and fill in the caller's struct, take the slot, *)
(* empty its staging buffer.  Nothing checks that the struct is already   *)
(* open.                                                                  *)
LayerOpen(h, d, cfg) ==
  /\ initialized
  /\ ~opened[h] \/ "reopen" \in Misuse
  /\ d \in DisplayIds
  /\ \E i \in Slots : ~slotUsed[i]
  /\ InBounds(cfg)
  /\ LET s == FirstFreeSlot
     IN /\ layer' = [layer EXCEPT ![h] = [opened |-> TRUE, slot |-> s,
                                          display |-> d, cfg |-> cfg]]
        /\ slotUsed' = [slotUsed EXCEPT ![s] = TRUE]
        /\ slotDisplay' = [slotDisplay EXCEPT ![s] = d]
        /\ bufSize' = [bufSize EXCEPT ![s] = 0]
  /\ opened' = [opened EXCEPT ![h] = TRUE]
  /\ UNCHANGED <<initialized, deviceCount, bufFrom, fbSize, fbFrom,
                 commitCount, brightness, vsyncEnabled, vsyncCb>>

\* layer_write's clamp without the FAKE_FB_SIZE cap
ToWriteNoFbCap(cfg, size) == IF size < Expected(cfg) THEN size ELSE Expected(cfg)

\* to_write: min(size, expected), capped at FAKE_FB_SIZE
ToWrite(cfg, size) ==
  LET n == IF size < Expected(cfg) THEN size ELSE Expected(cfg)
  IN IF n > FakeFbSize THEN FakeFbSize ELSE n

(* eai_display_layer_write on a struct whose opened field is set: copy the *)
(* clamped bytes into the staging buffer of the slot the struct names.     *)
(* The slot's owner is not checked, so a struct opened before a deinit    *)
(* still writes ("stale").                                                *)
LayerWrite(h, size) ==
  /\ initialized
  /\ opened[h] \/ ("stale" \in Misuse /\ layer[h].opened)
  /\ LET s == layer[h].slot
     IN /\ bufSize' = [bufSize EXCEPT ![s] = ToWrite(layer[h].cfg, size)]
        /\ bufFrom' = [bufFrom EXCEPT ![s] = h]
  /\ UNCHANGED <<initialized, deviceCount, slotUsed, slotDisplay, fbSize,
                 fbFrom, commitCount, brightness, vsyncEnabled, vsyncCb,
                 layer, opened>>

\* a close that clears the struct's opened field but keeps the slot
LayerCloseKeepSlot(h) ==
  /\ initialized
  /\ opened[h] \/ ("stale" \in Misuse /\ layer[h].opened)
  /\ layer' = [layer EXCEPT ![h].opened = FALSE]
  /\ opened' = [opened EXCEPT ![h] = FALSE]
  /\ UNCHANGED <<initialized, deviceCount, slotUsed, slotDisplay, bufSize, bufFrom,
                 fbSize, fbFrom, commitCount, brightness, vsyncEnabled, vsyncCb>>

(* eai_display_layer_close: free the slot the struct names if its opened  *)
(* field is set, then clear the field.  A close of a struct that is not   *)
(* open changes nothing.                                                  *)
LayerClose(h) ==
  /\ initialized
  /\ opened[h] \/ ("stale" \in Misuse /\ layer[h].opened)
  /\ LET s == layer[h].slot
     IN /\ slotUsed' = [slotUsed EXCEPT ![s] = FALSE]
        /\ bufSize' = [bufSize EXCEPT ![s] = 0]
  /\ layer' = [layer EXCEPT ![h].opened = FALSE]
  /\ opened' = [opened EXCEPT ![h] = FALSE]
  /\ UNCHANGED <<initialized, deviceCount, slotDisplay, bufFrom, fbSize,
                 fbFrom, commitCount, brightness, vsyncEnabled, vsyncCb>>

\* the slots commit may take for display d: in use, on d, with data
Composable(d) == {i \in Slots : slotUsed[i] /\ slotDisplay[i] = d /\ bufSize[i] > 0}

\* a commit that does not clear the framebuffer first
CommitNoClear(d) ==
  /\ initialized
  /\ d \in DisplayIds
  /\ commitCount < MaxCommits
  /\ IF Composable(d) = {}
       THEN UNCHANGED <<fbSize, fbFrom>>
       ELSE LET i == CHOOSE j \in Composable(d) : \A k \in Composable(d) : j <= k
            IN /\ fbSize' = IF bufSize[i] > FakeFbSize THEN FakeFbSize ELSE bufSize[i]
               /\ fbFrom' = bufFrom[i]
  /\ commitCount' = commitCount + 1
  /\ UNCHANGED <<initialized, deviceCount, slotUsed, slotDisplay, bufSize,
                 bufFrom, brightness, vsyncEnabled, vsyncCb, layer, opened>>

(* eai_display_commit: clear the framebuffer, copy the first composable   *)
(* slot's staging buffer into it, count the commit, and run the vsync     *)
(* callback if one is enabled (it only observes).                         *)
Commit(d) ==
  /\ initialized
  /\ d \in DisplayIds
  /\ commitCount < MaxCommits
  /\ IF Composable(d) = {}
       THEN fbSize' = 0 /\ fbFrom' = None
       ELSE LET i == CHOOSE j \in Composable(d) : \A k \in Composable(d) : j <= k
            IN /\ fbSize' = IF bufSize[i] > FakeFbSize THEN FakeFbSize ELSE bufSize[i]
               /\ fbFrom' = bufFrom[i]
  /\ commitCount' = commitCount + 1
  /\ UNCHANGED <<initialized, deviceCount, slotUsed, slotDisplay, bufSize,
                 bufFrom, brightness, vsyncEnabled, vsyncCb, layer, opened>>

\* a set_brightness that stores the percentage unclamped
SetBrightnessNoClamp(d, p) ==
  /\ initialized
  /\ d \in DisplayIds
  /\ brightness' = p
  /\ UNCHANGED <<initialized, deviceCount, slotUsed, slotDisplay, bufSize,
                 bufFrom, fbSize, fbFrom, commitCount, vsyncEnabled, vsyncCb,
                 layer, opened>>

(* eai_display_set_brightness: store the percentage, clamped to 100. *)
SetBrightness(d, p) ==
  /\ initialized
  /\ d \in DisplayIds
  /\ brightness' = IF p > 100 THEN 100 ELSE p
  /\ UNCHANGED <<initialized, deviceCount, slotUsed, slotDisplay, bufSize,
                 bufFrom, fbSize, fbFrom, commitCount, vsyncEnabled, vsyncCb,
                 layer, opened>>

(* eai_display_set_vsync: store the enable flag and the callback. *)
SetVsync(d, en, cb) ==
  /\ initialized
  /\ d \in DisplayIds
  /\ vsyncEnabled' = en
  /\ vsyncCb' = cb
  /\ UNCHANGED <<initialized, deviceCount, slotUsed, slotDisplay, bufSize,
                 bufFrom, fbSize, fbFrom, commitCount, brightness, layer, opened>>

Next ==
  \/ DisplayInit
  \/ DisplayDeinit
  \/ TestReset
  \/ \E h \in Handles, d \in 0..1, cfg \in Configs : LayerOpen(h, d, cfg)
  \/ \E h \in Handles, n \in Sizes : LayerWrite(h, n)
  \/ \E h \in Handles : LayerClose(h)
  \/ \E d \in 0..1 : Commit(d)
  \/ \E d \in 0..1, p \in Percents : SetBrightness(d, p)
  \/ \E d \in 0..1, en, cb \in BOOLEAN : SetVsync(d, en, cb)

Spec == Init /\ [][Next]_vars

-----------------------------------------------------------------------------
TypeOK ==
  /\ initialized \in BOOLEAN
  /\ deviceCount \in 0..1
  /\ slotUsed \in [Slots -> BOOLEAN]
  /\ slotDisplay \in [Slots -> 0..1]
  /\ bufSize \in [Slots -> 0..FakeFbSize]
  /\ bufFrom \in [Slots -> Handles \cup {None}]
  /\ fbSize \in 0..FakeFbSize
  /\ fbFrom \in Handles \cup {None}
  /\ commitCount \in 0..MaxCommits
  /\ brightness \in 0..100
  /\ vsyncEnabled \in BOOLEAN /\ vsyncCb \in BOOLEAN
  /\ \A h \in Handles : layer[h].opened \in BOOLEAN /\ layer[h].slot \in Slots
  /\ opened \in [Handles -> BOOLEAN]

\* the slot an open handle holds
SlotOf(h) == layer[h].slot

(* Layers are isolated: every layer the caller holds open has a slot of    *)
(* its own, in use, on its display, and the pixels staged there are the   *)
(* ones this layer wrote.  Breaking it takes an open, a close or deinit  *)
(* and another open that lands on a slot a live struct still names.      *)
LayerIsolation ==
  \A h \in Handles : opened[h] =>
     /\ slotUsed[SlotOf(h)]
     /\ slotDisplay[SlotOf(h)] = layer[h].display
     /\ bufSize[SlotOf(h)] > 0 => bufFrom[SlotOf(h)] = h
     /\ \A g \in Handles \ {h} : opened[g] => SlotOf(g) # SlotOf(h)

(* No slot leaks: every slot in use is held by a layer the caller holds   *)
(* open, so layer_open fails with -ENOMEM only when MaxLayers layers are  *)
(* open.  Re-opening an open struct (layer_open does not check opened)    *)
(* leaks its old slot.                                                    *)
NoLeakedSlot ==
  \A i \in Slots : slotUsed[i] => \E h \in Handles : opened[h] /\ SlotOf(h) = i

(* Staged and shown bytes fit: an open layer lies on the display, its     *)
(* staged bytes fit its pixel area and the framebuffer, and the          *)
(* framebuffer never holds more than FAKE_FB_SIZE bytes.                  *)
BufferFitsLayer ==
  /\ \A h \in Handles : opened[h] =>
        /\ InBounds(layer[h].cfg)
        /\ bufSize[SlotOf(h)] <= Expected(layer[h].cfg)
        /\ bufSize[SlotOf(h)] <= FakeFbSize
  /\ fbSize <= FakeFbSize

(* A commit shows only what an open layer wrote: the framebuffer after a *)
(* commit holds the pixels of a layer the caller holds open, or nothing.  *)
CommitShowsOpenLayer ==
  [][\A d \in 0..1 : Commit(d) => fbFrom' = None \/ opened[fbFrom']]_vars

=============================================================================
