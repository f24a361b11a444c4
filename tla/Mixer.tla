------------------------------- MODULE Mixer -------------------------------
(***************************************************************************)
(* The eai_audio mini-mixer (src/lib/eai_audio/src/mixer.c).               *)
(*                                                                         *)
(* Actors: the producer streams, each writing into the slot it opened; a   *)
(* control thread that initialises and deinitialises the mixer; and the    *)
(* mixer thread, which wakes on its semaphore (or on the one-period        *)
(* timeout), mixes one period of every active slot under the mixer mutex   *)
(* and hands the mix to the hw_write callback outside the mutex.           *)
(*                                                                         *)
(* Every section the code runs under mixer.mutex is one atomic step.  The  *)
(* two places where the code reads shared state outside the mutex are      *)
(* steps of their own: the producer's slot-active check in                 *)
(* eai_audio_mixer_write, and the mixer thread's hw_write call.            *)
(*                                                                         *)
(* A ring is the sequence of samples between its read and write counters   *)
(* (count = wr - rd); the counters themselves, and the modular indexing    *)
(* into ring[], are abstracted because RING_CAP_SAMPLES divides 2^32.      *)
(***************************************************************************)
EXTENDS Integers, Sequences, SequencesExt

CONSTANTS
  MaxSlots,          \* EAI_AUDIO_MIXER_MAX_SLOTS
  MaxPeriodFrames,   \* EAI_AUDIO_MIXER_MAX_PERIOD_FRAMES
  MaxChannels,       \* EAI_AUDIO_MIXER_MAX_CHANNELS
  PeriodFrames,      \* config.period_frames
  Channels,          \* config.channels
  Streams,           \* the producer streams (model values)
  NoSlot,            \* a stream that holds no slot
  Samples,           \* sample values a producer writes (int16)
  WriteFrames,       \* frame counts a producer asks eai_audio_mixer_write for
  Volumes,           \* Q16 volumes passed to eai_audio_mixer_set_volume
  MaxAccepted,       \* bound: samples a stream may have accepted per opening
  UnderrunCap,       \* bound: the underrun counter saturates here
  CloseRacesWrite,   \* may a stream's slot be closed by another thread
                     \*   while that stream is inside eai_audio_mixer_write?
  JoinMayTimeOut     \* may the 1000 ms join in deinit expire?

ASSUME /\ MaxSlots \in Nat \ {0}
       /\ PeriodFrames \in 1..MaxPeriodFrames
       /\ Channels \in 1..MaxChannels
       /\ NoSlot \notin 0..(MaxSlots - 1)
       /\ Samples \subseteq -32768..32767
       /\ WriteFrames \subseteq Nat \ {0}
       /\ Volumes \subseteq 0..2147418111   \* volume * 32768 stays in TLC's range
       /\ {CloseRacesWrite, JoinMayTimeOut} \subseteq BOOLEAN

Slots == 0..(MaxSlots - 1)

\* RING_CAP_SAMPLES and the samples one period spans
RingCap == 2 * MaxPeriodFrames * MaxChannels
PeriodSamples == PeriodFrames * Channels

Unity == 65536   \* EAI_AUDIO_MIXER_VOLUME_UNITY

VARIABLES
  slots,        \* mixer.slots: [Slots -> [active, ring, volume, underruns]]
  initialized,  \* mixer.initialized
  running,      \* mixer.running
  sem,          \* mixer.sem value, created (0, limit 1)
  mixBuf,       \* mixer.mix_buf, one period (only hw_write reads it; the
                \*   model clears it once read, as the next mix zeroes it)
  mixPc,        \* where the mixer thread is
  ctlPc,        \* where the control thread is in deinit
  strSlot,      \* the slot each stream holds (its mixer_slot)
  wrPc,         \* where each stream is in eai_audio_mixer_write
  wrArg,        \* the arguments of the write in progress (NoArg if none)
  \* history, not program state:
  accepted,     \* per stream: the samples its writes reported as written
  played,       \* per stream: the samples the mixer drained for it
  mixIn         \* the staged inputs and volumes of the last mix

vars == <<slots, initialized, running, sem, mixBuf, mixPc, ctlPc,
          strSlot, wrPc, wrArg, accepted, played, mixIn>>

-----------------------------------------------------------------------------
(* Arithmetic of the mix loop, with the width of the C types.              *)

\* The exact value of sample * volume / 65536, rounded down.  Split as
\* volume = vh * 65536 + vl so that no intermediate leaves the range TLC
\* computes in.
ExactScale(sample, volume) ==
  sample * (volume \div 65536) + (sample * (volume % 65536)) \div 65536

\* ((int32_t)sample * (int32_t)volume) >> 16 as the build computes it: the
\* signed overflow of the product (undefined behaviour) wraps modulo 2^32,
\* and the arithmetic shift rounds down, so the result is the exact
\* quotient wrapped into [-2^15, 2^15).
Q16Scale(sample, volume) == ((ExactScale(sample, volume) + 32768) % 65536) - 32768

\* the hard clip to the int16 range
Clip16(a) == IF a > 32767 THEN 32767 ELSE IF a < -32768 THEN -32768 ELSE a

Silence(n) == [k \in 1..n |-> 0]

\* the active slots in the order the mix loop visits them
ActiveOrder(sl) == SelectSeq([k \in 1..MaxSlots |-> k - 1],
                             LAMBDA i : sl[i].active)

\* The staging buffer the mix loop fills for an active slot: one period
\* from the ring, or on underrun what there is followed by silence.
Staged(ring) ==
  IF Len(ring) < PeriodSamples
    THEN ring \o Silence(PeriodSamples - Len(ring))
    ELSE SubSeq(ring, 1, PeriodSamples)

\* an underrun path that leaves the partial period in the ring
DrainedWholePeriods(ring) ==
  IF Len(ring) < PeriodSamples THEN <<>> ELSE SubSeq(ring, 1, PeriodSamples)

Drained(ring) ==
  IF Len(ring) < PeriodSamples THEN ring ELSE SubSeq(ring, 1, PeriodSamples)

\* mix_buf[j] after the loop over slots: per slot, scale, add, clip
MixSample(stage, vol, order, j) ==
  FoldLeft(LAMBDA acc, i : Clip16(acc + Q16Scale(stage[i][j], vol[i])),
           0, order)

-----------------------------------------------------------------------------
(* Ring helpers                                                            *)

RingSpace(s) == RingCap - Len(s.ring)

\* the samples eai_audio_mixer_write takes: min(requested, space),
\* rounded down to whole frames
\* a write that does not cap the request by the free space
ToWriteUncapped(s, frames) == frames * Channels

ToWrite(s, frames) ==
  LET samples == frames * Channels
      capped  == IF samples < RingSpace(s) THEN samples ELSE RingSpace(s)
  IN (capped \div Channels) * Channels

Block(v, n) == [k \in 1..n |-> v]

(* The callers' contract with deinit: it is called only when no stream   *)
(* holds a slot, and no stream opens or writes until it has returned.     *)
(* (A slot index held across deinit/init would alias a fresh opening.)    *)
NoStreamOpen == \A st \in Streams : strSlot[st] = NoSlot
StreamsMayAct == ctlPc = "idle"

(* eai_osal_sem_give on the semaphore created with limit 1: a give at the *)
(* limit fails inside FreeRTOS and is still reported as success.          *)
SemLimit == 1
SemGiveUnbounded == sem' = sem + 1
SemGive == sem' = IF sem < SemLimit THEN sem + 1 ELSE sem

NoArg == [slot |-> NoSlot, frames |-> 0, v |-> 0]
NoMix == [stage |-> <<>>, vol |-> <<>>, order |-> <<>>]

FreshSlot == [active |-> FALSE, ring |-> <<>>, volume |-> Unity,
              underruns |-> 0]

-----------------------------------------------------------------------------
Init ==
  /\ slots = [i \in Slots |-> FreshSlot]
  /\ initialized = FALSE
  /\ running = FALSE
  /\ sem = 0
  /\ mixBuf = Silence(PeriodSamples)
  /\ mixPc = "none"
  /\ ctlPc = "idle"
  /\ strSlot = [st \in Streams |-> NoSlot]
  /\ wrPc = [st \in Streams |-> "idle"]
  /\ wrArg = [st \in Streams |-> NoArg]
  /\ accepted = [st \in Streams |-> <<>>]
  /\ played = [st \in Streams |-> <<>>]
  /\ mixIn = NoMix

(* eai_audio_mixer_init: reset the module state, slots at unity volume,    *)
(* create mutex and semaphore (0, 1), set running and start the thread.   *)
(* The model holds one mixer thread, so init waits for the previous one   *)
(* to be gone.                                                            *)
MixerInit ==
  /\ ~initialized
  /\ ctlPc = "idle"
  /\ mixPc \in {"none", "exited"}
  /\ slots' = [i \in Slots |-> FreshSlot]
  /\ sem' = 0
  /\ mixBuf' = Silence(PeriodSamples)
  /\ running' = TRUE
  /\ initialized' = TRUE
  /\ mixPc' = "wait"
  /\ UNCHANGED <<ctlPc, strSlot, wrPc, wrArg, accepted, played, mixIn>>

(* eai_audio_mixer_deinit, first half: clear running, give the semaphore   *)
(* to wake the thread, and start the join.                                *)
DeinitBegin ==
  /\ initialized
  /\ ctlPc = "idle"
  /\ NoStreamOpen
  /\ running' = FALSE
  /\ SemGive
  /\ ctlPc' = "joining"
  /\ UNCHANGED <<slots, initialized, mixBuf, mixPc, strSlot, wrPc, wrArg,
                 accepted, played, mixIn>>

(* eai_audio_mixer_deinit, second half: the join returns (the thread has   *)
(* exited, or the timeout expired and the result is ignored), then the    *)
(* semaphore and mutex are destroyed and initialized is cleared.          *)
DeinitEnd ==
  /\ ctlPc = "joining"
  /\ \/ mixPc = "exited"
     \/ JoinMayTimeOut /\ mixPc = "hw"   \* hw_write blocks past the timeout
  /\ initialized' = FALSE
  /\ ctlPc' = "idle"
  /\ UNCHANGED <<slots, running, sem, mixBuf, mixPc, strSlot, wrPc, wrArg,
                 accepted, played, mixIn>>

\* slot_open without the test that the slot is free
SlotOpenAnySlot(st) ==
  /\ StreamsMayAct
  /\ initialized
  /\ strSlot[st] = NoSlot
  /\ \E i \in Slots :
       /\ slots' = [slots EXCEPT ![i] = [active |-> TRUE, ring |-> <<>>,
                                        volume |-> Unity, underruns |-> 0]]
       /\ strSlot' = [strSlot EXCEPT ![st] = i]
  /\ accepted' = [accepted EXCEPT ![st] = <<>>]
  /\ played' = [played EXCEPT ![st] = <<>>]
  /\ UNCHANGED <<initialized, running, sem, mixBuf, mixPc, ctlPc, wrPc, wrArg,
                 mixIn>>

(* eai_audio_mixer_slot_open: under the mutex take the first inactive slot *)
(* and reset its counters, underruns and volume.                          *)
SlotOpen(st) ==
  /\ StreamsMayAct
  /\ initialized
  /\ strSlot[st] = NoSlot
  /\ \E i \in Slots :
       /\ ~slots[i].active
       /\ \A k \in 0..(i - 1) : slots[k].active
       /\ slots' = [slots EXCEPT ![i] = [active |-> TRUE, ring |-> <<>>,
                                        volume |-> Unity, underruns |-> 0]]
       /\ strSlot' = [strSlot EXCEPT ![st] = i]
  /\ accepted' = [accepted EXCEPT ![st] = <<>>]
  /\ played' = [played EXCEPT ![st] = <<>>]
  /\ UNCHANGED <<initialized, running, sem, mixBuf, mixPc, ctlPc, wrPc, wrArg,
                 mixIn>>

(* eai_audio_mixer_slot_close: under the mutex mark the slot inactive and  *)
(* reset its counters.  Unless CloseRacesWrite, the stream is not inside  *)
(* a write of its own when its slot is closed.                            *)
SlotClose(st) ==
  /\ initialized
  /\ strSlot[st] # NoSlot
  /\ CloseRacesWrite \/ wrPc[st] = "idle"
  /\ slots' = [slots EXCEPT ![strSlot[st]].active = FALSE,
                            ![strSlot[st]].ring = <<>>]
  /\ strSlot' = [strSlot EXCEPT ![st] = NoSlot]
  /\ accepted' = [accepted EXCEPT ![st] = <<>>]
  /\ played' = [played EXCEPT ![st] = <<>>]
  /\ UNCHANGED <<initialized, running, sem, mixBuf, mixPc, ctlPc, wrPc, wrArg,
                 mixIn>>

(* eai_audio_mixer_write, before the mutex: the argument checks, among     *)
(* them slots[slot].active, read without the mutex.                       *)
WriteCheck(st) ==
  /\ wrPc[st] = "idle"
  /\ strSlot[st] # NoSlot
  /\ Len(accepted[st]) < MaxAccepted
  /\ StreamsMayAct
  /\ initialized
  /\ slots[strSlot[st]].active
  /\ \E f \in WriteFrames, v \in Samples :
       wrArg' = [wrArg EXCEPT ![st] = [slot |-> strSlot[st], frames |-> f, v |-> v]]
  /\ wrPc' = [wrPc EXCEPT ![st] = "locked"]
  /\ UNCHANGED <<slots, initialized, running, sem, mixBuf, mixPc, ctlPc,
                 strSlot, accepted, played, mixIn>>

(* eai_audio_mixer_write, the rest: under the mutex copy min(requested,    *)
(* space) whole frames into the ring of the slot checked before; after    *)
(* the unlock give the semaphore; return the frames written.              *)
WriteCommit(st) ==
  /\ wrPc[st] = "locked"
  /\ LET a == wrArg[st]
         n == ToWrite(slots[a.slot], a.frames)
     IN /\ slots' = [slots EXCEPT ![a.slot].ring = @ \o Block(a.v, n)]
        /\ accepted' = [accepted EXCEPT ![st] = @ \o Block(a.v, n)]
  /\ SemGive
  /\ wrPc' = [wrPc EXCEPT ![st] = "idle"]
  /\ wrArg' = [wrArg EXCEPT ![st] = NoArg]
  /\ UNCHANGED <<initialized, running, mixBuf, mixPc, ctlPc, strSlot,
                 played, mixIn>>

(* eai_audio_mixer_kick *)
Kick ==
  /\ initialized
  /\ SemGive
  /\ UNCHANGED <<slots, initialized, running, mixBuf, mixPc, ctlPc, strSlot,
                 wrPc, wrArg, accepted, played, mixIn>>

(* eai_audio_mixer_set_volume: any slot index below MAX_SLOTS, active or   *)
(* not.                                                                   *)
SetVolume ==
  /\ initialized
  /\ \E i \in Slots, vol \in Volumes :
       /\ slots[i].volume # vol
       /\ slots' = [slots EXCEPT ![i].volume = vol]
  /\ UNCHANGED <<initialized, running, sem, mixBuf, mixPc, ctlPc, strSlot,
                 wrPc, wrArg, accepted, played, mixIn>>

(* Mixer thread: sem_take with a one-period timeout (taken or timed out),  *)
(* then the running check.                                                *)
MixerWake ==
  /\ mixPc = "wait"
  /\ \/ sem = 1 /\ sem' = 0
     \/ sem = 0 /\ UNCHANGED sem       \* the period timeout expires
  /\ mixPc' = IF running THEN "mix" ELSE "exited"
  /\ UNCHANGED <<slots, initialized, running, mixBuf, ctlPc, strSlot, wrPc,
                 wrArg, accepted, played, mixIn>>

(* Mixer thread, under the mutex: zero mix_buf; for every active slot      *)
(* drain one period (or, on underrun, what there is, counting the         *)
(* underrun), scale it by the slot volume and add it into mix_buf with    *)
(* the hard clip.  Then hw_write if any slot was active, else loop.       *)
MixerMix ==
  /\ mixPc = "mix"
  /\ LET order == ActiveOrder(slots)
         stage == [i \in Slots |-> Staged(slots[i].ring)]
         vol   == [i \in Slots |-> slots[i].volume]
         under(i) == Len(slots[i].ring) < PeriodSamples
     IN /\ slots' = [i \in Slots |->
                       IF slots[i].active
                         THEN [slots[i] EXCEPT
                                 !.ring = SubSeq(@, Len(Drained(@)) + 1, Len(@)),
                                 !.underruns = IF under(i)
                                                 THEN (@ + 1) % (UnderrunCap + 1)
                                                 ELSE @]
                         ELSE slots[i]]
        /\ mixBuf' = [j \in 1..PeriodSamples |-> MixSample(stage, vol, order, j)]
        /\ played' = [st \in Streams |->
                        IF strSlot[st] # NoSlot /\ slots[strSlot[st]].active
                          THEN played[st] \o Drained(slots[strSlot[st]].ring)
                          ELSE played[st]]
        /\ mixIn' = [stage |-> stage, vol |-> vol, order |-> order]
        /\ mixPc' = IF order # <<>> THEN "hw"
                    ELSE IF running THEN "wait" ELSE "exited"
  /\ UNCHANGED <<initialized, running, sem, ctlPc, strSlot, wrPc, wrArg,
                 accepted>>

(* Mixer thread, outside the mutex: hw_write(mix_buf), then the loop       *)
(* condition.                                                             *)
MixerHwWrite ==
  /\ mixPc = "hw"
  /\ mixPc' = IF running THEN "wait" ELSE "exited"
  /\ mixBuf' = Silence(PeriodSamples)
  /\ mixIn' = NoMix
  /\ UNCHANGED <<slots, initialized, running, sem, ctlPc, strSlot,
                 wrPc, wrArg, accepted, played>>

MixerThread == MixerWake \/ MixerMix \/ MixerHwWrite

Next ==
  \/ MixerInit \/ DeinitBegin \/ DeinitEnd
  \/ Kick \/ SetVolume
  \/ \E st \in Streams : SlotOpen(st) \/ SlotClose(st)
                         \/ WriteCheck(st) \/ WriteCommit(st)
  \/ MixerThread

(* The mixer thread runs at priority 20 and never blocks without a        *)
(* timeout, so it keeps taking steps while it exists.                     *)
Fairness == WF_vars(MixerThread)

Spec == Init /\ [][Next]_vars /\ Fairness

-----------------------------------------------------------------------------
TypeOK ==
  /\ slots \in [Slots -> [active : BOOLEAN, ring : Seq(Samples), volume : Nat,
                          underruns : 0..UnderrunCap]]
  /\ initialized \in BOOLEAN /\ running \in BOOLEAN
  /\ sem \in 0..SemLimit
  /\ mixBuf \in [1..PeriodSamples -> -32768..32767]
  /\ mixPc \in {"none", "wait", "mix", "hw", "exited"}
  /\ ctlPc \in {"idle", "joining"}
  /\ strSlot \in [Streams -> Slots \cup {NoSlot}]
  /\ wrPc \in [Streams -> {"idle", "locked"}]

(* Ring bound: no slot holds more samples than RING_CAP_SAMPLES, and every *)
(* ring holds whole frames (write rounds down, the mixer drains periods). *)
RingBounded ==
  \A i \in Slots : /\ Len(slots[i].ring) <= RingCap
                   /\ Len(slots[i].ring) % Channels = 0

(* What a write reports is what gets played: for every stream holding an   *)
(* active slot, the samples its writes returned as written are, in order, *)
(* the samples the mixer has drained for it followed by those still in    *)
(* its ring.  Breaks if a write's return value, its space computation or  *)
(* the mixer's drain disagree, or if samples land in another stream's slot.*)
AcceptedIsPlayedThenQueued ==
  \A st \in Streams :
    strSlot[st] # NoSlot /\ slots[strSlot[st]].active =>
      accepted[st] = played[st] \o slots[strSlot[st]].ring

(* Every sample a write accepted is eventually drained by the mixer while  *)
(* the stream keeps its slot and the mixer runs: a partial period left in *)
(* the ring is not stranded there (the underrun path drains it).          *)
AcceptedEventuallyPlayed ==
  \A st \in Streams :
    (strSlot[st] # NoSlot /\ Len(played[st]) < Len(accepted[st]))
      ~> (played[st] = accepted[st] \/ strSlot[st] = NoSlot \/ ~running)

(* Spec sections 4.3/6: a Q16 volume scales a sample by volume/65536,      *)
(* above unity amplifying it and leaving the rest to the clip.  A single  *)
(* active slot's output is the clipped exact product.                     *)
ScaleWithoutWrap ==
  (mixPc = "hw" /\ Len(mixIn.order) = 1) =>
    LET i == mixIn.order[1] IN
    \A j \in 1..PeriodSamples :
      mixBuf[j] = Clip16(ExactScale(mixIn.stage[i][j], mixIn.vol[i]))

(* Spec section 4.3 tear-down: after deinit returns no callback fires: the *)
(* mixer thread is gone once deinit has returned.                         *)
NoThreadAfterDeinit ==
  (~initialized /\ ctlPc = "idle") => mixPc \in {"none", "exited"}

=============================================================================
