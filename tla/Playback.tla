------------------------------- MODULE Playback -------------------------------
(***************************************************************************)
(* The playback pipeline of src/media.cpp: the decoder on the transport     *)
(* loop pushes frames into a ring, the playback task pops them at the pace    *)
(* of the I2S DMA, and POST /playback/selftest pushes a clip from httpd.  The *)
(* ring has no lock: its two free-running counters are read and written by    *)
(* three tasks, so every read-modify-write of one of them is two steps here.  *)
(*                                                                          *)
(* Lengths are in units, FrameUnits to a 20 ms frame, and the DMA plays one   *)
(* unit per unit of time.  What a sample sounds like is only loud or silent.  *)
(* The prebuffer controller is the dark one of the production build.          *)
(***************************************************************************)
EXTENDS Integers

CONSTANTS
  RingUnits,     \* PLAY_RING_SAMPLES
  WordMod,       \* modulus of the free-running counters, a multiple of it
  FrameUnits,    \* PCM_SAMPLES_PER_FRAME
  SilentFrames,  \* PLAYBACK_SILENCE_FRAMES
  Prebuffers,    \* settings of g_play_prebuffer_samples
  BootPrebuffer, \* PIPECAT_PLAY_PREBUFFER_MS
  DmaLead,       \* PIPECAT_PLAY_DMA_LEAD_MS
  GapFrames,     \* bound: lost frames signalled ahead of one packet
  ClipUnits      \* length of the embedded clip

ASSUME PlaybackBounds ==
  /\ RingUnits \in Nat /\ FrameUnits \in 1..RingUnits
  /\ WordMod \in Nat /\ WordMod % RingUnits = 0 /\ WordMod >= 2 * RingUnits
  /\ SilentFrames \in Nat \ {0}
  /\ Prebuffers \subseteq FrameUnits..(RingUnits - FrameUnits)
  /\ BootPrebuffer \in Prebuffers
  /\ DmaLead \in Nat /\ GapFrames \in Nat /\ ClipUnits \in Nat \ {0}

Word == 0..(WordMod - 1)

VARIABLES
  ringHead, ringTail,  \* play_ring_head, play_ring_tail
  gap,          \* s_pending_gap
  silence,      \* silence_count, as far as it matters
  playing,      \* is_playing
  decoder,      \* where pipecat_audio_decode stands: [at, left, word]
  clip,         \* where pipecat_play_selftest_clip stands, the same way
  popped,       \* the tail the playback task has read to advance it, or -1
  prebuffering,
  lead,         \* pbc_dma_lead_ms
  prebuffer,    \* g_play_prebuffer_samples
  clipped       \* ghost: the clip was started

ringVars == <<ringHead, ringTail>>
decoderVars == <<gap, silence, playing, decoder>>
paceVars == <<prebuffering, lead, prebuffer>>
playbackVars == <<ringVars, decoderVars, clip, popped, paceVars, clipped>>

DecoderIdle == [at |-> "idle", left |-> 0, word |-> 0]
ClipOff == [at |-> "off", left |-> 0, units |-> 0, word |-> 0]

PlaybackTypeOK ==
  /\ ringHead \in Word /\ ringTail \in Word
  /\ gap \in 0..GapFrames /\ silence \in 0..SilentFrames /\ playing \in BOOLEAN
  /\ decoder \in [at : {"idle", "decode", "drop", "dropping", "fill", "head"},
                  left : 0..(GapFrames + 1), word : Word]
  /\ clip \in [at : {"off", "room", "fill", "head"},
               left : 0..ClipUnits, units : 0..ClipUnits, word : Word]
  /\ popped \in Word \cup {-1}
  /\ prebuffering \in BOOLEAN /\ lead \in 0..(DmaLead + FrameUnits)
  /\ prebuffer \in Prebuffers /\ clipped \in BOOLEAN

PlaybackInit ==
  /\ ringHead = 0 /\ ringTail = 0
  /\ gap = 0 /\ silence = 0 /\ playing = FALSE /\ decoder = DecoderIdle
  /\ clip = ClipOff /\ clipped = FALSE
  /\ popped = -1 /\ prebuffering = TRUE /\ lead = 0 /\ prebuffer = BootPrebuffer

\* Mutant: a counter that does not wrap.
PlusUnwrapped(w, n) == w + n

Plus(w, n) == (w + n) % WordMod

\* play_ring_count: unsigned subtraction of the counters.
Count == (ringHead - ringTail) % WordMod

\* PLAY_RING_SAMPLES - play_ring_count(), unsigned as well.
Free == (RingUnits - Count) % WordMod

-----------------------------------------------------------------------------
(* The decoder: pipecat_audio_decode and push_decoded_to_ring.              *)

\* NULL data: one frame was lost, the next packet decides how to fill it.
GapSignalled ==
  /\ decoder.at = "idle" /\ gap < GapFrames
  /\ gap' = gap + 1
  /\ UNCHANGED <<ringVars, silence, playing, decoder, clip, popped, paceVars,
                 clipped>>

\* A packet: the frames that are missing are synthesised, then its own decoded.
PacketDecoded ==
  /\ decoder.at = "idle"
  /\ decoder' = [decoder EXCEPT !.at = "decode", !.left = gap + 1]
  /\ gap' = 0
  /\ UNCHANGED <<ringVars, silence, playing, clip, popped, paceVars, clipped>>

NextFrame == IF decoder.left = 1 THEN DecoderIdle
             ELSE [at |-> "decode", left |-> decoder.left - 1, word |-> 0]

\* opus_decode fails: nothing to push for this frame.
FrameFails ==
  /\ decoder.at = "decode"
  /\ decoder' = NextFrame
  /\ UNCHANGED <<ringVars, gap, silence, playing, clip, popped, paceVars,
                 clipped>>

\* update_is_playing: SilentFrames silent frames in a row close the gate.
Gate(loud) == loud \/ (playing /\ silence + 1 < SilentFrames)

\* A decoded frame: gated, then the room for it is looked up.
FrameDecoded(loud) ==
  /\ decoder.at = "decode"
  /\ silence' = CASE loud -> 0
                  [] ~loud /\ silence < SilentFrames -> silence + 1
                  [] OTHER -> silence
  /\ playing' = Gate(loud)
  /\ decoder' = CASE ~Gate(loud) -> NextFrame
                  [] Gate(loud) /\ Free < FrameUnits ->
                       [decoder EXCEPT !.at = "drop", !.word = FrameUnits - Free]
                  [] OTHER -> [decoder EXCEPT !.at = "fill"]
  /\ UNCHANGED <<ringVars, gap, clip, popped, paceVars, clipped>>

\* play_ring_tail += excess, on a counter the playback task advances as well.
DropLoads ==
  /\ decoder.at = "drop"
  /\ decoder' = [decoder EXCEPT !.at = "dropping",
                                !.word = Plus(ringTail, decoder.word)]
  /\ UNCHANGED <<ringVars, gap, silence, playing, clip, popped, paceVars,
                 clipped>>

DropStores ==
  /\ decoder.at = "dropping"
  /\ ringTail' = decoder.word
  /\ decoder' = [decoder EXCEPT !.at = "fill", !.word = 0]
  /\ UNCHANGED <<ringHead, gap, silence, playing, clip, popped, paceVars,
                 clipped>>

\* The samples, then the barrier, then play_ring_head += nsamples.
FrameFilled ==
  /\ decoder.at = "fill"
  /\ decoder' = [decoder EXCEPT !.at = "head", !.word = ringHead]
  /\ UNCHANGED <<ringVars, gap, silence, playing, clip, popped, paceVars,
                 clipped>>

FramePublished ==
  /\ decoder.at = "head"
  /\ ringHead' = Plus(decoder.word, FrameUnits)
  /\ decoder' = NextFrame
  /\ UNCHANGED <<ringTail, gap, silence, playing, clip, popped, paceVars,
                 clipped>>

-----------------------------------------------------------------------------
(* POST /playback/selftest: pipecat_play_selftest_clip, on httpd.           *)

ClipStarts ==
  /\ clip.at = "off" /\ ~clipped
  /\ clip' = [at |-> "room", left |-> ClipUnits, units |-> 0, word |-> 0]
  /\ clipped' = TRUE
  /\ UNCHANGED <<ringVars, decoderVars, popped, paceVars>>

ClipFindsRoom ==
  /\ clip.at = "room" /\ Free # 0
  /\ clip' = [clip EXCEPT !.at = "fill",
                          !.units = IF clip.left < Free THEN clip.left ELSE Free]
  /\ UNCHANGED <<ringVars, decoderVars, popped, paceVars, clipped>>

ClipFilled ==
  /\ clip.at = "fill"
  /\ clip' = [clip EXCEPT !.at = "head", !.word = ringHead]
  /\ UNCHANGED <<ringVars, decoderVars, popped, paceVars, clipped>>

ClipPublished ==
  /\ clip.at = "head"
  /\ ringHead' = Plus(clip.word, clip.units)
  /\ clip' = IF clip.left = clip.units THEN ClipOff
             ELSE [clip EXCEPT !.at = "room", !.left = @ - clip.units,
                               !.units = 0, !.word = 0]
  /\ UNCHANGED <<ringTail, decoderVars, popped, paceVars, clipped>>

-----------------------------------------------------------------------------
(* The playback task.  Its passes that only wait are no steps.              *)

\* Mutant: the prebuffer has to be exceeded.
RefilledPast == Count > prebuffer

Refilled == Count >= prebuffer

PlayingStarts ==
  /\ popped = -1 /\ prebuffering /\ Refilled
  /\ prebuffering' = FALSE
  /\ UNCHANGED <<ringVars, decoderVars, clip, popped, lead, prebuffer, clipped>>

\* Less than a frame, and the DMA has run dry: an underrun or a full drain.
RingDrained ==
  /\ popped = -1 /\ ~prebuffering /\ Count < FrameUnits /\ lead = 0
  /\ prebuffering' = TRUE
  /\ UNCHANGED <<ringVars, decoderVars, clip, popped, lead, prebuffer, clipped>>

\* A frame is copied out and play_ring_tail is read to advance it.
FramePopped ==
  /\ popped = -1 /\ ~prebuffering /\ Count >= FrameUnits /\ lead <= DmaLead
  /\ popped' = ringTail
  /\ UNCHANGED <<ringVars, decoderVars, clip, paceVars, clipped>>

\* The tail is stored, then i2s_channel_write takes the frame or fails.
FrameWritten ==
  /\ popped # -1
  /\ ringTail' = Plus(popped, FrameUnits)
  /\ lead' \in {lead, lead + FrameUnits}
  /\ popped' = -1
  /\ UNCHANGED <<ringHead, decoderVars, clip, prebuffering, prebuffer, clipped>>

\* GET /playback/stats?prebuffer_ms=N.
PrebufferSet ==
  /\ prebuffer' \in Prebuffers \ {prebuffer}
  /\ UNCHANGED <<ringVars, decoderVars, clip, popped, prebuffering, lead,
                 clipped>>

DmaPlays ==
  /\ lead > 0 /\ lead' = lead - 1
  /\ UNCHANGED <<ringVars, decoderVars, clip, popped, prebuffering, prebuffer,
                 clipped>>

PlaybackTask == PlayingStarts \/ RingDrained \/ FramePopped \/ FrameWritten
DecoderSteps == DropLoads \/ DropStores \/ FrameFilled \/ FramePublished

PlaybackNext ==
  \/ GapSignalled \/ PacketDecoded \/ FrameFails
  \/ \E loud \in BOOLEAN : FrameDecoded(loud)
  \/ DecoderSteps
  \/ ClipStarts \/ ClipFindsRoom \/ ClipFilled \/ ClipPublished
  \/ PlaybackTask \/ PrebufferSet \/ DmaPlays

-----------------------------------------------------------------------------
\* Silent frames at the end of the ring, at most.
Trailing == IF silence < SilentFrames THEN silence ELSE SilentFrames - 1

\* Speech waits in the ring for a prebuffer that its trailing silence can fill.
SpeechWaits ==
  /\ prebuffering /\ ~clipped
  /\ Count > FrameUnits * Trailing
  /\ prebuffer <= FrameUnits * SilentFrames

\* The end of an utterance does not stay in the ring until the next one: the
\* silence the gate lets through fills the prebuffer (media.cpp:1966-1986,
\* 2506, 2370), for every setting it can fill.
SpeechIsPlayed == SpeechWaits ~> ~SpeechWaits
=============================================================================
