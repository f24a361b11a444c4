---------------------------- MODULE AudioPosix -----------------------------
(***************************************************************************)
(* The POSIX simulation backend of eai_audio                               *)
(* (src/lib/eai_audio/src/posix/audio.c).                                  *)
(*                                                                         *)
(* Module tables: the two default ports (0 speaker, output; 1 mic, input), *)
(* port_has_stream[], the route table, the speaker gain, and the test I/O  *)
(* buffers of TEST_BUF_MAX_FRAMES frames (int16_t[2 * that]).  Stream      *)
(* handles are caller-allocated structs; the model holds their fields     *)
(* (port, direction, config, active) as the code leaves them, zeroed      *)
(* before the first open; frame_position is left out (only get_position  *)
(* reads it).  Single-threaded (test harness), so every call is one step. *)
(*                                                                         *)
(* The caller's view, opened[h], is history: open returned 0 and no close,*)
(* init, deinit or test_reset has happened since.                         *)
(***************************************************************************)
EXTENDS Integers, FiniteSets, Sequences

CONSTANTS
  Handles,      \* caller-allocated stream structs (model values)
  None,         \* no handle
  Configs,      \* stream configs offered to open: [fmt, mask]
  Frames,       \* frame counts passed to write, read and test_set_input
  Gains,        \* gain values passed to set_gain (centibels)
  BufFrames,    \* TEST_BUF_MAX_FRAMES
  MaxRoutes,    \* CONFIG_EAI_AUDIO_MAX_ROUTES
  Misuse        \* caller errors allowed: subset of
                \*   {"close_unopened", "off_profile"}

ASSUME /\ None \notin Handles
       /\ Frames \subseteq Nat \ {0}
       /\ BufFrames \in Nat \ {0}
       /\ MaxRoutes \in Nat
       /\ Misuse \subseteq {"close_unopened", "off_profile"}

MaxPorts == 4                   \* CONFIG_EAI_AUDIO_MAX_PORTS
PortIds == 0..1                 \* setup_default_ports
PortDir == [p \in PortIds |-> IF p = 0 THEN "out" ELSE "in"]
\* the configs of each port's single profile (formats x channel masks)
Profile == [p \in PortIds |->
              IF p = 0 THEN {[fmt |-> "S16", mask |-> m] : m \in {"mono", "stereo"}}
                       ELSE {[fmt |-> "S16", mask |-> "mono"]}]
GainMin == -6000               \* ports[0].gain
GainMax == 0

\* bytes_per_sample and channels_from_mask
BytesPerSample(fmt) ==
  CASE fmt = "S16" -> 2 [] fmt = "S24" -> 3 [] OTHER -> 4
ChannelsFromMask(mask) == IF mask = "stereo" THEN 2 ELSE IF mask = "mono" THEN 1 ELSE 0
FrameSize(cfg) == BytesPerSample(cfg.fmt) * ChannelsFromMask(cfg.mask)

\* a zero-initialised stream struct: port 0, OUTPUT, S16, channel mask 0
ZeroStream == [port |-> 0, dir |-> "out", cfg |-> [fmt |-> "S16", mask |-> "none"],
               active |-> FALSE]

VARIABLES
  initialized,     \* initialized
  portCount,       \* port_count (the ports themselves are fixed)
  portHasStream,   \* port_has_stream[]
  routes,          \* routes[0..route_count-1] as <<source, sink>> pairs
  gain,            \* ports[0].gain.current_cb
  outputFrames,    \* output_frames
  inputFrames,     \* input_frames
  inputReadPos,    \* input_read_pos
  stream,          \* the fields of each caller's struct
  \* history, not program state:
  opened,          \* the caller's view of which handles are open
  lastCopy         \* the last memcpy into or out of a test buffer:
                   \*   [first, len] in bytes from the buffer start

vars == <<initialized, portCount, portHasStream, routes, gain, outputFrames,
          inputFrames, inputReadPos, stream, opened, lastCopy>>

\* size of output_buf and input_buf in bytes
BufBytes == 2 * (BufFrames * 2)

NoCopy == [first |-> 0, len |-> 0]

\* find_port_by_id
PortExists(id) == id \in 0..(portCount - 1)

-----------------------------------------------------------------------------
Init ==
  /\ initialized = FALSE
  /\ portCount = 0
  /\ portHasStream = [p \in 0..(MaxPorts - 1) |-> FALSE]
  /\ routes = <<>>
  /\ gain = 0
  /\ outputFrames = 0
  /\ inputFrames = 0
  /\ inputReadPos = 0
  /\ stream = [h \in Handles |-> ZeroStream]
  /\ opened = [h \in Handles |-> FALSE]
  /\ lastCopy = NoCopy

(* eai_audio_init: clear the tables and buffers, set up the default ports. *)
AudioInit ==
  /\ initialized' = TRUE
  /\ portCount' = 2
  /\ portHasStream' = [p \in 0..(MaxPorts - 1) |-> FALSE]
  /\ routes' = <<>>
  /\ gain' = 0
  /\ outputFrames' = 0
  /\ inputFrames' = 0
  /\ inputReadPos' = 0
  /\ opened' = [h \in Handles |-> FALSE]
  /\ lastCopy' = NoCopy
  /\ UNCHANGED stream

(* eai_audio_deinit: clear port_has_stream only. *)
AudioDeinit ==
  /\ initialized
  /\ initialized' = FALSE
  /\ portHasStream' = [p \in 0..(MaxPorts - 1) |-> FALSE]
  /\ opened' = [h \in Handles |-> FALSE]
  /\ lastCopy' = NoCopy
  /\ UNCHANGED <<portCount, routes, gain, outputFrames, inputFrames,
                 inputReadPos, stream>>

(* eai_audio_test_reset: forget ports and routes, clear the buffers. *)
TestReset ==
  /\ initialized' = FALSE
  /\ portCount' = 0
  /\ routes' = <<>>
  /\ portHasStream' = [p \in 0..(MaxPorts - 1) |-> FALSE]
  /\ outputFrames' = 0
  /\ inputFrames' = 0
  /\ inputReadPos' = 0
  /\ opened' = [h \in Handles |-> FALSE]
  /\ lastCopy' = NoCopy
  /\ UNCHANGED <<gain, stream>>

\* an open that does not look at port_has_stream
StreamOpenNoBusyCheck(h, port, cfg) ==
  /\ initialized
  /\ PortExists(port)
  /\ cfg \in Profile[port] \/ "off_profile" \in Misuse
  /\ stream' = [stream EXCEPT ![h] = [port |-> port, dir |-> PortDir[port],
                                      cfg |-> cfg, active |-> FALSE]]
  /\ portHasStream' = [portHasStream EXCEPT ![port] = TRUE]
  /\ opened' = [opened EXCEPT ![h] = TRUE]
  /\ UNCHANGED <<initialized, portCount, routes, gain, outputFrames,
                 inputFrames, inputReadPos, lastCopy>>

(* eai_audio_stream_open on an existing port with no stream: fill in the   *)
(* caller's struct and mark the port.  The config is not checked against  *)
(* the port's profiles.                                                   *)
StreamOpen(h, port, cfg) ==
  /\ initialized
  /\ PortExists(port)
  /\ ~portHasStream[port]
  /\ cfg \in Profile[port] \/ "off_profile" \in Misuse
  /\ stream' = [stream EXCEPT ![h] = [port |-> port, dir |-> PortDir[port],
                                      cfg |-> cfg, active |-> FALSE]]
  /\ portHasStream' = [portHasStream EXCEPT ![port] = TRUE]
  /\ opened' = [opened EXCEPT ![h] = TRUE]
  /\ UNCHANGED <<initialized, portCount, routes, gain, outputFrames,
                 inputFrames, inputReadPos, lastCopy>>

(* eai_audio_stream_close: free the port the struct names, clear active.   *)
(* Nothing checks that the struct is open.                                *)
StreamClose(h) ==
  /\ initialized
  /\ opened[h] \/ "close_unopened" \in Misuse
  /\ portHasStream' = IF stream[h].port < MaxPorts
                        THEN [portHasStream EXCEPT ![stream[h].port] = FALSE]
                        ELSE portHasStream
  /\ stream' = [stream EXCEPT ![h].active = FALSE]
  /\ opened' = [opened EXCEPT ![h] = FALSE]
  /\ UNCHANGED <<initialized, portCount, routes, gain, outputFrames,
                 inputFrames, inputReadPos, lastCopy>>

(* eai_audio_stream_start and eai_audio_stream_pause: set or clear active. *)
StreamSetActive(h, on) ==
  /\ initialized
  /\ opened[h]
  /\ stream' = [stream EXCEPT ![h].active = on]
  /\ UNCHANGED <<initialized, portCount, portHasStream, routes, gain,
                 outputFrames, inputFrames, inputReadPos, opened, lastCopy>>

\* a write that does not cap the frames at the room left
ToWriteUncapped(frames) == frames

\* the frames a write appends: min(frames, TEST_BUF_MAX_FRAMES - output_frames)
ToWrite(frames) ==
  IF frames < BufFrames - outputFrames THEN frames ELSE BufFrames - outputFrames

(* eai_audio_stream_write on a started output stream: append to the test   *)
(* output buffer at output_frames * channels samples.                     *)
StreamWrite(h, frames) ==
  /\ initialized
  /\ opened[h]
  /\ stream[h].dir = "out"
  /\ stream[h].active
  /\ LET n == ToWrite(frames)
         c == stream[h].cfg
     IN /\ outputFrames' = outputFrames + n
        /\ lastCopy' = IF n > 0
                         THEN [first |-> 2 * outputFrames * ChannelsFromMask(c.mask),
                               len |-> n * FrameSize(c)]
                         ELSE NoCopy
  /\ UNCHANGED <<initialized, portCount, portHasStream, routes, gain,
                 inputFrames, inputReadPos, stream, opened>>

(* eai_audio_stream_read on a started input stream: copy from the test     *)
(* input buffer at input_read_pos * channels samples.                     *)
StreamRead(h, frames) ==
  /\ initialized
  /\ opened[h]
  /\ stream[h].dir = "in"
  /\ stream[h].active
  /\ LET avail == inputFrames - inputReadPos
         n     == IF frames < avail THEN frames ELSE avail
         c     == stream[h].cfg
     IN /\ inputReadPos' = inputReadPos + n
        /\ lastCopy' = IF n > 0
                         THEN [first |-> 2 * inputReadPos * ChannelsFromMask(c.mask),
                               len |-> n * FrameSize(c)]
                         ELSE NoCopy
  /\ UNCHANGED <<initialized, portCount, portHasStream, routes, gain,
                 outputFrames, inputFrames, stream, opened>>

(* eai_audio_test_set_input: copy min(frames, TEST_BUF_MAX_FRAMES) frames  *)
(* (as frames * sizeof(int16_t) bytes) and rewind the read position.      *)
TestSetInput(frames) ==
  LET n == IF frames < BufFrames THEN frames ELSE BufFrames
  IN /\ inputFrames' = n
     /\ inputReadPos' = 0
     /\ lastCopy' = [first |-> 0, len |-> 2 * n]
     /\ UNCHANGED <<initialized, portCount, portHasStream, routes, gain,
                    outputFrames, stream, opened>>

\* a gain clamp that forgets the upper limit
SetGainNoUpperClamp(g) ==
  /\ initialized
  /\ PortExists(0)
  /\ gain' = IF g < GainMin THEN GainMin ELSE g
  /\ UNCHANGED <<initialized, portCount, portHasStream, routes, outputFrames,
                 inputFrames, inputReadPos, stream, opened, lastCopy>>

(* eai_audio_set_gain on the speaker: clamp into [min_cb, max_cb].         *)
SetGain(g) ==
  /\ initialized
  /\ PortExists(0)
  /\ gain' = IF g < GainMin THEN GainMin ELSE IF g > GainMax THEN GainMax ELSE g
  /\ UNCHANGED <<initialized, portCount, portHasStream, routes, outputFrames,
                 inputFrames, inputReadPos, stream, opened, lastCopy>>

(* eai_audio_set_route from an input port to an output port: reactivate an *)
(* existing route, else append one if the table has room.                 *)
SetRoute(src, sink) ==
  /\ initialized
  /\ PortExists(src) /\ PortExists(sink)
  /\ PortDir[src] = "in" /\ PortDir[sink] = "out"
  /\ \/ \E k \in 1..Len(routes) : routes[k] = <<src, sink>>
     \/ Len(routes) < MaxRoutes
  /\ routes' = IF \E k \in 1..Len(routes) : routes[k] = <<src, sink>>
                 THEN routes
                 ELSE Append(routes, <<src, sink>>)
  /\ UNCHANGED <<initialized, portCount, portHasStream, gain, outputFrames,
                 inputFrames, inputReadPos, stream, opened, lastCopy>>

Next ==
  \/ AudioInit \/ AudioDeinit \/ TestReset
  \/ \E f \in Frames : TestSetInput(f)
  \/ \E g \in Gains : SetGain(g)
  \/ \E src, sink \in PortIds : SetRoute(src, sink)
  \/ \E h \in Handles :
       \/ \E p \in PortIds, c \in Configs : StreamOpen(h, p, c)
       \/ StreamClose(h)
       \/ \E on \in BOOLEAN : StreamSetActive(h, on)
       \/ \E f \in Frames : StreamWrite(h, f) \/ StreamRead(h, f)

Spec == Init /\ [][Next]_vars

-----------------------------------------------------------------------------
TypeOK ==
  /\ initialized \in BOOLEAN
  /\ portCount \in {0, 2}
  /\ portHasStream \in [0..(MaxPorts - 1) -> BOOLEAN]
  /\ routes \in Seq(PortIds \X PortIds) /\ Len(routes) <= MaxRoutes
  /\ gain \in GainMin..GainMax
  /\ outputFrames \in 0..BufFrames
  /\ inputReadPos \in 0..inputFrames /\ inputFrames \in 0..BufFrames
  /\ stream \in [Handles -> [port : PortIds, dir : {"out", "in"},
                              cfg : Configs \cup {ZeroStream.cfg},
                              active : BOOLEAN]]
  /\ opened \in [Handles -> BOOLEAN]

(* stream.h: open returns -EBUSY if the port already has an active stream, *)
(* so no two streams the caller holds open share a port.  open checks     *)
(* port_has_stream; close clears it for whatever port its struct names.   *)
OneStreamPerPort ==
  \A h1, h2 \in Handles :
    h1 # h2 /\ opened[h1] /\ opened[h2] => stream[h1].port # stream[h2].port

(* Every memcpy of write, read and test_set_input stays inside the test    *)
(* buffer of TEST_BUF_MAX_SAMPLES int16_t.  write indexes the buffer by   *)
(* output_frames * channels samples and copies frames * frame_size bytes, *)
(* capping frames by TEST_BUF_MAX_FRAMES - output_frames, a count of     *)
(* frames that streams of different widths share.                         *)
CopyInBounds == lastCopy.first + lastCopy.len <= BufBytes

=============================================================================
