---------------------------- MODULE Playback_proofs ----------------------------
(*****************************************************************************)
(* Proofs about Playback.tla, for every ring, counter width, prebuffer and clip,*)
(* and with the invariants of the other parts that the whole device stays in *)
(* its types.                                                                *)
(*                                                                           *)
(* The argument.  A counter of the ring is stored only as the result of an   *)
(* addition that wraps, so it stays a word whatever the three tasks that use it*)
(* overwrite of one another; how much of a frame, a clip or the DMA is left  *)
(* depends on where the task stands that counts it down (PlayInv).           *)
(*****************************************************************************)
EXTENDS Device_proofs, Tuning_proofs

\* Every step of the device is a step of the playback, or leaves it alone.
LEMMA PlaybackSteps == [DeviceNext]_deviceVars => [PlaybackNext]_playbackVars
  BY DEF DeviceNext, deviceVars

\* The inductive invariant: what is left where something is counted down.
PlayInv ==
  /\ PlaybackTypeOK
  /\ popped # -1 => lead <= DmaLead
  /\ decoder.at # "idle" => decoder.left > 0
  /\ clip.units <= clip.left
  /\ clip.at # "off" => clip.left > 0

\* A remainder is a word.
LEMMA Remainders ==
  ASSUME NEW m \in Nat \ {0}, NEW a \in Int PROVE a % m \in 0..(m - 1)
  BY SMT

\* The sizes of the ring and of a word.
LEMMA RingBounds ==
  /\ RingUnits \in Nat /\ FrameUnits \in Nat \ {0} /\ FrameUnits <= RingUnits
  /\ WordMod \in Nat \ {0} /\ 2 * RingUnits <= WordMod
  /\ SilentFrames \in Nat \ {0} /\ DmaLead \in Nat /\ GapFrames \in Nat
  /\ ClipUnits \in Nat \ {0}
  BY PlaybackBounds

\* Counters that were advanced, and the room between them, are words.
LEMMA Words ==
  ASSUME ringHead \in Word, ringTail \in Word
  PROVE  /\ \A w \in Word, n \in Nat : Plus(w, n) \in Word
         /\ Count \in Word /\ Free \in Word
         /\ Free < FrameUnits => FrameUnits - Free \in Word
         /\ 0 \in Word
<1>1. ASSUME NEW a \in Int PROVE a % WordMod \in Word
  BY RingBounds, Remainders DEF Word
<1>2. ASSUME NEW w \in Word, NEW n \in Nat PROVE Plus(w, n) \in Word
  <2>1. w + n \in Int
    BY RingBounds DEF Word
  <2> QED
    BY <1>1, <2>1 DEF Plus
<1>3. Count \in Word
  <2>1. ringHead - ringTail \in Int
    BY RingBounds DEF Word
  <2> QED
    BY <1>1, <2>1 DEF Count
<1>4. Free \in Word
  <2>1. RingUnits - Count \in Int
    BY <1>3, RingBounds DEF Word
  <2> QED
    BY <1>1, <2>1 DEF Free
<1> HIDE DEF Free, Count
<1>5. Free < FrameUnits => FrameUnits - Free \in Word
  BY <1>4, RingBounds DEF Word
<1>6. 0 \in Word
  BY RingBounds DEF Word
<1> QED
  BY <1>2, <1>3, <1>4, <1>5, <1>6

\* What a step may do to the decoder and to the clip.
DecoderTyped(d) ==
  /\ d \in [at : {"idle", "decode", "drop", "dropping", "fill", "head"},
            left : 0..(GapFrames + 1), word : Word]
  /\ d.at # "idle" => d.left > 0
ClipTyped(c) ==
  /\ c \in [at : {"off", "room", "fill", "head"},
            left : 0..ClipUnits, units : 0..ClipUnits, word : Word]
  /\ c.units <= c.left /\ (c.at # "off" => c.left > 0)

\* What the decoder, the clip and the playback task do not decide.
RingTyped ==
  /\ ringHead \in Word /\ ringTail \in Word
  /\ gap \in 0..GapFrames /\ silence \in 0..SilentFrames
  /\ popped \in Word \cup {-1}
  /\ lead \in 0..(DmaLead + FrameUnits) /\ prebuffer \in Prebuffers
  /\ popped # -1 => lead <= DmaLead
GatesTyped == playing \in BOOLEAN /\ prebuffering \in BOOLEAN /\ clipped \in BOOLEAN

\* The parts of PlayInv.
LEMMA PlayParts ==
  PlayInv <=> RingTyped /\ GatesTyped /\ DecoderTyped(decoder) /\ ClipTyped(clip)
  BY DEF PlayInv, PlaybackTypeOK, RingTyped, GatesTyped, DecoderTyped, ClipTyped

\* The decoder goes on with its next frame, or is done.
LEMMA NextFrameTyped ==
  ASSUME DecoderTyped(decoder), decoder.at # "idle", 0 \in Word
  PROVE  DecoderTyped(NextFrame)
<1>1. decoder.left \in 1..(GapFrames + 1) /\ GapFrames \in Nat
  BY RingBounds DEF DecoderTyped
<1>2. CASE decoder.left = 1
  BY <1>1, <1>2 DEF NextFrame, DecoderIdle, DecoderTyped
<1>3. CASE decoder.left # 1
  <2>1. decoder.left - 1 \in 0..(GapFrames + 1) /\ decoder.left - 1 > 0
    BY <1>1, <1>3
  <2> QED
    BY <1>3, <2>1 DEF NextFrame, DecoderTyped
<1> QED
  BY <1>2, <1>3

\* The decoder stays in its types.
LEMMA DecoderStep ==
  ASSUME PlayInv, [PlaybackNext]_playbackVars PROVE DecoderTyped(decoder')
<1>1. /\ DecoderTyped(decoder) /\ ringHead \in Word /\ ringTail \in Word
      /\ gap \in 0..GapFrames
  BY PlayParts DEF RingTyped
<1>2. /\ \A w \in Word, n \in Nat : Plus(w, n) \in Word
      /\ Free < FrameUnits => FrameUnits - Free \in Word
      /\ 0 \in Word
  BY <1>1, Words
<1>3. GapFrames \in Nat /\ \A w \in Word : w \in Nat
  BY RingBounds DEF Word
<1>4. decoder.at # "idle" => DecoderTyped(NextFrame)
  BY <1>1, <1>2, NextFrameTyped
<1> HIDE DEF PlayInv
<1>5. CASE PacketDecoded
  <2>1. gap + 1 \in 0..(GapFrames + 1) /\ gap + 1 > 0
    BY <1>1, <1>3
  <2> QED
    BY <1>1, <1>5, <2>1 DEF PacketDecoded, DecoderTyped
<1>6. CASE FrameFails
  BY <1>4, <1>6 DEF FrameFails
<1>7. ASSUME NEW loud \in BOOLEAN, FrameDecoded(loud)
      PROVE  DecoderTyped(decoder')
  <2>1. decoder.at = "decode"
        /\ decoder' = CASE ~Gate(loud) -> NextFrame
                        [] Gate(loud) /\ Free < FrameUnits ->
                             [decoder EXCEPT !.at = "drop", !.word = FrameUnits - Free]
                        [] OTHER -> [decoder EXCEPT !.at = "fill"]
    BY <1>7 DEF FrameDecoded
  <2>2. DecoderTyped([decoder EXCEPT !.at = "fill"])
    BY <1>1, <2>1 DEF DecoderTyped
  <2>3. Free < FrameUnits =>
          DecoderTyped([decoder EXCEPT !.at = "drop", !.word = FrameUnits - Free])
    BY <1>1, <1>2, <2>1 DEF DecoderTyped
  <2> HIDE DEF DecoderTyped
  <2> QED
    BY <1>4, <2>1, <2>2, <2>3
<1>8. CASE DropLoads
  <2>1. Plus(ringTail, decoder.word) \in Word
    BY <1>1, <1>2, <1>3 DEF DecoderTyped
  <2> QED
    BY <1>1, <1>8, <2>1 DEF DropLoads, DecoderTyped
<1>9. CASE DropStores
  BY <1>1, <1>2, <1>9 DEF DropStores, DecoderTyped
<1>10. CASE FrameFilled
  BY <1>1, <1>10 DEF FrameFilled, DecoderTyped
<1>11. CASE FramePublished
  BY <1>4, <1>11 DEF FramePublished
<1>12. CASE UNCHANGED decoder
  BY <1>1, <1>12
<1>13. GapSignalled \/ ClipStarts \/ ClipFindsRoom \/ ClipFilled \/ ClipPublished
       \/ PlaybackTask \/ PrebufferSet \/ DmaPlays \/ UNCHANGED playbackVars =>
         UNCHANGED decoder
  BY DEF GapSignalled, ClipStarts, ClipFindsRoom, ClipFilled, ClipPublished,
         PlaybackTask, PlayingStarts, RingDrained, FramePopped, FrameWritten,
         PrebufferSet, DmaPlays, playbackVars, decoderVars
<1> QED
  BY <1>5, <1>6, <1>7, <1>8, <1>9, <1>10, <1>11, <1>12, <1>13
     DEF PlaybackNext, DecoderSteps

\* The clip of the selftest stays in its types.
LEMMA ClipStep ==
  ASSUME PlayInv, [PlaybackNext]_playbackVars PROVE ClipTyped(clip')
<1>1. ClipTyped(clip) /\ ringHead \in Word /\ ringTail \in Word
  BY PlayParts DEF RingTyped
<1>2. 0 \in Word /\ Free \in Word
  BY <1>1, Words
<1>3. ClipUnits \in Nat \ {0} /\ Free \in Nat
  BY <1>2, RingBounds DEF Word
<1>4. clip.left \in 0..ClipUnits /\ clip.units \in 0..ClipUnits
      /\ clip.units <= clip.left /\ clip.word \in Word
  BY <1>1 DEF ClipTyped
<1>5. CASE ClipStarts
  BY <1>2, <1>3, <1>5 DEF ClipStarts, ClipTyped
<1>6. CASE ClipFindsRoom
  <2> DEFINE n == IF clip.left < Free THEN clip.left ELSE Free
  <2>1. n \in 0..ClipUnits /\ n <= clip.left /\ clip.left \in Nat
    BY <1>3, <1>4
  <2>2. clip' = [clip EXCEPT !.at = "fill", !.units = n] /\ clip.at = "room"
    BY <1>6 DEF ClipFindsRoom
  <2> HIDE DEF n
  <2>3. clip'.at = "fill" /\ clip'.left = clip.left /\ clip'.units = n
        /\ clip' \in [at : {"off", "room", "fill", "head"},
                      left : 0..ClipUnits, units : 0..ClipUnits, word : Word]
    BY <1>1, <2>1, <2>2 DEF ClipTyped
  <2> QED
    BY <1>1, <2>1, <2>2, <2>3 DEF ClipTyped
<1>7. CASE ClipFilled
  BY <1>1, <1>7 DEF ClipFilled, ClipTyped
<1>8. CASE ClipPublished
  <2>1. CASE clip.left = clip.units
    BY <1>2, <1>3, <1>8, <2>1 DEF ClipPublished, ClipOff, ClipTyped
  <2>2. CASE clip.left # clip.units
    <3> DEFINE rest == clip.left - clip.units
    <3>1. rest \in 0..ClipUnits /\ rest > 0 /\ 0 \in 0..ClipUnits
      BY <1>3, <1>4, <2>2
    <3>2. clip' = [clip EXCEPT !.at = "room", !.left = rest, !.units = 0,
                               !.word = 0]
      BY <1>8, <2>2 DEF ClipPublished
    <3> HIDE DEF rest
    <3>3. /\ clip' \in [at : {"off", "room", "fill", "head"},
                        left : 0..ClipUnits, units : 0..ClipUnits, word : Word]
          /\ clip'.left = rest /\ clip'.units = 0
      BY <1>1, <1>2, <3>1, <3>2 DEF ClipTyped
    <3> QED
      BY <1>3, <3>1, <3>3 DEF ClipTyped
  <2> QED
    BY <2>1, <2>2
<1>9. CASE UNCHANGED clip
  BY <1>1, <1>9
<1>10. GapSignalled \/ PacketDecoded \/ FrameFails
       \/ (\E loud \in BOOLEAN : FrameDecoded(loud)) \/ DecoderSteps
       \/ PlaybackTask \/ PrebufferSet \/ DmaPlays \/ UNCHANGED playbackVars =>
         UNCHANGED clip
  BY DEF GapSignalled, PacketDecoded, FrameFails, FrameDecoded, DecoderSteps,
         DropLoads, DropStores, FrameFilled, FramePublished, PlaybackTask,
         PlayingStarts, RingDrained, FramePopped, FrameWritten, PrebufferSet,
         DmaPlays, playbackVars
<1> QED
  BY <1>5, <1>6, <1>7, <1>8, <1>9, <1>10 DEF PlaybackNext

\* The counters, the gate's run of silence and the pace stay in their types.
LEMMA RingStep ==
  ASSUME PlayInv, [PlaybackNext]_playbackVars PROVE RingTyped'
<1>1. RingTyped /\ DecoderTyped(decoder) /\ ClipTyped(clip)
  BY PlayParts
<1>2. \A w \in Word, n \in Nat : Plus(w, n) \in Word
  BY <1>1, Words DEF RingTyped
<1>3. ringHead' \in Word /\ ringTail' \in Word
  <2>1. CASE FramePublished
    <3>1. Plus(decoder.word, FrameUnits) \in Word
      BY <1>1, <1>2, RingBounds DEF DecoderTyped
    <3> QED
      BY <1>1, <2>1, <3>1 DEF FramePublished, RingTyped
  <2>2. CASE ClipPublished
    <3>1. clip.word \in Word /\ clip.units \in Nat
      BY <1>1, RingBounds DEF ClipTyped
    <3> QED
      BY <1>1, <1>2, <2>2, <3>1 DEF ClipPublished, RingTyped
  <2>3. CASE DropStores
    BY <1>1, <2>3 DEF DropStores, RingTyped, DecoderTyped
  <2>4. CASE FrameWritten
    <3>1. Plus(popped, FrameUnits) \in Word
      BY <1>1, <1>2, <2>4, RingBounds DEF FrameWritten, RingTyped
    <3> QED
      BY <1>1, <2>4, <3>1 DEF FrameWritten, RingTyped
  <2>5. FramePublished \/ ClipPublished \/ DropStores \/ FrameWritten
        \/ UNCHANGED ringVars
    BY DEF PlaybackNext, GapSignalled, PacketDecoded, FrameFails, FrameDecoded,
           DecoderSteps, DropLoads, FrameFilled, ClipStarts, ClipFindsRoom,
           ClipFilled, PlaybackTask, PlayingStarts, RingDrained, FramePopped,
           PrebufferSet, DmaPlays, playbackVars
  <2> QED
    BY <1>1, <2>1, <2>2, <2>3, <2>4, <2>5 DEF RingTyped, ringVars
<1>4. gap' \in 0..GapFrames /\ silence' \in 0..SilentFrames
  <2>1. gap \in 0..GapFrames /\ silence \in 0..SilentFrames
        /\ GapFrames \in Nat /\ SilentFrames \in Nat
    BY <1>1, RingBounds DEF RingTyped
  <2>2. gap' \in {0, gap} \/ (gap < GapFrames /\ gap' = gap + 1)
    BY DEF PlaybackNext, GapSignalled, PacketDecoded, FrameFails, FrameDecoded,
           DecoderSteps, DropLoads, DropStores, FrameFilled, FramePublished,
           ClipStarts, ClipFindsRoom, ClipFilled, ClipPublished, PlaybackTask,
           PlayingStarts, RingDrained, FramePopped, FrameWritten, PrebufferSet,
           DmaPlays, playbackVars, decoderVars
  <2>3. silence' \in {0, silence} \/ (silence < SilentFrames /\ silence' = silence + 1)
    BY DEF PlaybackNext, GapSignalled, PacketDecoded, FrameFails, FrameDecoded,
           DecoderSteps, DropLoads, DropStores, FrameFilled, FramePublished,
           ClipStarts, ClipFindsRoom, ClipFilled, ClipPublished, PlaybackTask,
           PlayingStarts, RingDrained, FramePopped, FrameWritten, PrebufferSet,
           DmaPlays, playbackVars, decoderVars
  <2> QED
    BY <2>1, <2>2, <2>3
<1>5. /\ popped' \in Word \cup {-1} /\ prebuffer' \in Prebuffers
      /\ lead' \in 0..(DmaLead + FrameUnits)
      /\ popped' # -1 => lead' <= DmaLead
  <2>1. /\ popped \in Word \cup {-1} /\ ringTail \in Word /\ prebuffer \in Prebuffers
        /\ lead \in 0..(DmaLead + FrameUnits) /\ (popped # -1 => lead <= DmaLead)
        /\ DmaLead \in Nat /\ FrameUnits \in Nat
    BY <1>1, RingBounds DEF RingTyped
  <2>2. CASE FramePopped
    BY <2>1, <2>2 DEF FramePopped, paceVars
  <2>3. CASE FrameWritten
    BY <2>1, <2>3 DEF FrameWritten
  <2>4. CASE PrebufferSet
    BY <2>1, <2>4 DEF PrebufferSet
  <2>5. CASE DmaPlays
    BY <2>1, <2>5 DEF DmaPlays
  <2>6. CASE UNCHANGED <<popped, lead, prebuffer>>
    BY <2>1, <2>6
  <2>7. FramePopped \/ FrameWritten \/ PrebufferSet \/ DmaPlays
        \/ UNCHANGED <<popped, lead, prebuffer>>
    BY DEF PlaybackNext, GapSignalled, PacketDecoded, FrameFails, FrameDecoded,
           DecoderSteps, DropLoads, DropStores, FrameFilled, FramePublished,
           ClipStarts, ClipFindsRoom, ClipFilled, ClipPublished, PlaybackTask,
           PlayingStarts, RingDrained, playbackVars, paceVars
  <2> QED
    BY <2>2, <2>3, <2>4, <2>5, <2>6, <2>7
<1> QED
  BY <1>3, <1>4, <1>5 DEF RingTyped

\* The gates stay open or closed.
LEMMA GatesStep ==
  ASSUME GatesTyped, [PlaybackNext]_playbackVars PROVE GatesTyped'
<1>1. ASSUME NEW loud \in BOOLEAN, FrameDecoded(loud) PROVE playing' \in BOOLEAN
  <2>1. (silence + 1 < SilentFrames) \in BOOLEAN
    OBVIOUS
  <2>2. playing' = (loud \/ (playing /\ silence + 1 < SilentFrames))
    BY <1>1, Zenon DEF FrameDecoded, Gate
  <2> QED
    BY <2>1, <2>2, Zenon DEF GatesTyped
<1>2. playing' = playing \/ \E loud \in BOOLEAN : FrameDecoded(loud)
  BY DEF PlaybackNext, GapSignalled, PacketDecoded, FrameFails,
         DecoderSteps, DropLoads, DropStores, FrameFilled, FramePublished,
         ClipStarts, ClipFindsRoom, ClipFilled, ClipPublished, PlaybackTask,
         PlayingStarts, RingDrained, FramePopped, FrameWritten, PrebufferSet,
         DmaPlays, playbackVars, decoderVars
<1>3. prebuffering' \in BOOLEAN /\ clipped' \in BOOLEAN
  BY Zenon DEF GatesTyped, PlaybackNext, GapSignalled, PacketDecoded, FrameFails,
         FrameDecoded, DecoderSteps, DropLoads, DropStores, FrameFilled,
         FramePublished, ClipStarts, ClipFindsRoom, ClipFilled, ClipPublished,
         PlaybackTask, PlayingStarts, RingDrained, FramePopped, FrameWritten,
         PrebufferSet, DmaPlays, playbackVars, paceVars
<1> QED
  BY <1>1, <1>2, <1>3, Zenon DEF GatesTyped

\* Every step of the playback keeps PlayInv.
LEMMA PlayStep == PlayInv /\ [PlaybackNext]_playbackVars => PlayInv'
<1> SUFFICES ASSUME PlayInv, [PlaybackNext]_playbackVars PROVE PlayInv'
  OBVIOUS
<1>1. RingTyped' /\ GatesTyped' /\ DecoderTyped(decoder') /\ ClipTyped(clip')
  BY PlayParts, RingStep, GatesStep, DecoderStep, ClipStep
<1> QED
  BY <1>1, Zenon
     DEF PlayInv, PlaybackTypeOK, RingTyped, GatesTyped, DecoderTyped, ClipTyped

\* PlayInv holds at the start.
LEMMA PlayInitially == DeviceInit => PlayInv
<1> SUFFICES ASSUME PlaybackInit PROVE PlayInv
  BY DEF DeviceInit
<1>1. 0 \in Word
  BY RingBounds DEF Word
<1>2. RingTyped
  BY <1>1, PlaybackBounds DEF PlaybackInit, RingTyped
<1>3. GatesTyped
  BY Zenon DEF PlaybackInit, GatesTyped
<1>4. DecoderTyped(decoder) /\ ClipTyped(clip)
  BY <1>1, RingBounds
     DEF PlaybackInit, DecoderTyped, ClipTyped, DecoderIdle, ClipOff
<1> QED
  BY <1>2, <1>3, <1>4, PlayParts

-----------------------------------------------------------------------------
(* The whole device.                                                        *)

\* The part that runs stays the one the behaviour began with.
LEMMA PartStays == DeviceSpec => [](part \in Parts)
<1>1. DeviceInit => part \in Parts
  BY DEF DeviceInit
<1>2. part \in Parts /\ [DeviceNext]_deviceVars => (part \in Parts)'
  BY DEF DeviceNext, deviceVars
<1> QED
  BY <1>1, <1>2, PTL DEF DeviceSpec

\* Every part of the device stays in its types: the counters of the ring are words
\* and the clip ends (media.cpp:1966-2560), the queues and rings keep to their
\* sizes, and no replay, query, marker or deadline counts past its bound.
THEOREM DeviceTypes == DeviceSpec => []DeviceTypeOK
<1>1. /\ PlayInv /\ [DeviceNext]_deviceVars => PlayInv'
      /\ LedInv /\ [DeviceNext]_deviceVars => LedInv'
      /\ DnsInv /\ [DeviceNext]_deviceVars => DnsInv'
      /\ RedInv /\ [DeviceNext]_deviceVars => RedInv'
  BY PlaybackSteps, PlayStep, LedSteps, LedStep, DnsSteps, DnsStep, UplinkSteps,
     RedStep
<1>2. DeviceSpec => [](PlayInv /\ LedInv /\ DnsInv /\ RedInv)
  BY <1>1, PlayInitially, LedInitially, DnsInitially, RedInitially, PTL
     DEF DeviceSpec
<1>3. RedInv => UplinkTypeOK
  BY DEF RedInv, RedTyped, UplinkTypeOK
<1>4. PlayInv /\ LedInv /\ DnsInv /\ RedInv /\ ChimeInv /\ WifiInv /\ TuneTypeOK
      /\ part \in Parts => DeviceTypeOK
  BY <1>3 DEF PlayInv, LedInv, DnsInv, ChimeInv, WifiInv, DeviceTypeOK
<1> QED
  BY <1>2, <1>4, PartStays, ChimeAlways, WifiAlways, TuneTypes, PTL
=============================================================================
