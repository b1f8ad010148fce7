-------------------------------- MODULE Uplink --------------------------------
(***************************************************************************)
(* The uplink of a PIPECAT_UPLINK_RED build: every Opus frame the publisher    *)
(* sends is wrapped with the frames before it (components/peer/red_wrap.c,     *)
(* rtp_encoder_encode_generic in rtp.c, pipecat_send_audio in media.cpp).      *)
(*                                                                          *)
(* A frame is its length, and its RTP timestamp the number of frames sent      *)
(* since; a frame that is not sent does not advance the timestamp.            *)
(***************************************************************************)
EXTENDS Naturals, Sequences

CONSTANTS
  RedDistance,  \* PIPECAT_UPLINK_RED_DISTANCE
  RedReach,     \* RED_TIMESTAMP_OFFSET_MAX in frames
  BlockMax,     \* RED_WRAP_MAX_BLOCK_SIZE
  RedCapacity,  \* RTP_PAYLOAD_SIZE
  BlockHeader,  \* 4 bytes
  FrameLengths  \* lengths opus_encode returns

ASSUME UplinkBounds ==
  /\ RedDistance \in Nat \ {0} /\ RedReach \in Nat /\ BlockMax \in Nat
  /\ RedCapacity \in Nat /\ BlockHeader \in Nat /\ FrameLengths \subseteq Nat \ {0}

Slots == 0..(RedDistance - 1)

VARIABLES
  redRing,   \* history: slot -> frame; a slot not yet used has length 0
  redNext, redCount,
  carried,   \* the packet sent last: the redundant blocks, oldest first
  sentLog    \* ghost: the frames of this stream to be carried next

redVars == <<redRing, redNext, redCount>>
uplinkVars == <<redVars, carried, sentLog>>

OpusFrame == [age : 0..(RedReach + 1), size : {0} \cup FrameLengths]
NoOpusFrame == [age |-> 0, size |-> 0]

UplinkTypeOK ==
  /\ redRing \in [Slots -> OpusFrame]
  /\ redNext \in Slots /\ redCount \in 0..RedDistance
  /\ carried \in Seq(OpusFrame) /\ sentLog \in Seq(OpusFrame)

\* red_wrap_init.
UplinkInit ==
  /\ redRing = [slot \in Slots |-> NoOpusFrame] /\ redNext = 0 /\ redCount = 0
  /\ carried = <<>> /\ sentLog = <<>>

\* rtp_encoder_init, by a re-dial.
StreamStarts == /\ redRing' = [slot \in Slots |-> NoOpusFrame]
                /\ redNext' = 0 /\ redCount' = 0
                /\ carried' = <<>> /\ sentLog' = <<>>

\* Beyond RedReach the distance of two timestamps does not matter.
Older(frame) ==
  [frame EXCEPT !.age = IF frame.age > RedReach THEN frame.age ELSE frame.age + 1]

\* Mutant: the history is read from its first slot.
OldestFirstSlot == 0

\* The slot of the oldest frame remembered.
OldestSlot == IF redCount = RedDistance THEN redNext ELSE 0

Remembered == [i \in 1..redCount |-> redRing[(OldestSlot + i - 1) % RedDistance]]

\* red_wrap_packet: oldest first, what is in reach and still fits; `used` is
\* output_size.  A frame that is not sent leaves its place empty.
Chosen(frames, size) ==
  LET fits(i, used) == /\ frames[i].size > 0 /\ frames[i].age \in 1..RedReach
                       /\ used + BlockHeader + frames[i].size <= RedCapacity
      used[i \in 0..Len(frames)] ==
        CASE i = 0 -> size + 1
          [] i > 0 /\ fits(i, used[i - 1]) -> used[i - 1] + BlockHeader + frames[i].size
          [] OTHER -> used[i - 1]
  IN  [i \in 1..Len(frames) |-> IF fits(i, used[i - 1]) THEN frames[i] ELSE NoOpusFrame]

\* remember_primary, and one frame later for what is remembered already.
Remember(size) ==
  /\ redRing' = [slot \in Slots |->
                   IF slot = redNext /\ size <= BlockMax THEN [age |-> 1, size |-> size]
                   ELSE Older(redRing[slot])]
  /\ IF size <= BlockMax
     THEN /\ redNext' = (redNext + 1) % RedDistance
          /\ redCount' = IF redCount < RedDistance THEN redCount + 1 ELSE redCount
     ELSE UNCHANGED <<redNext, redCount>>

\* red_wrap_packet puts out the chosen blocks and remembers the frame.  One
\* that leaves no room for the header goes out as plain Opus and is not.
Wrapped(size) ==
  /\ carried' = IF size < RedCapacity THEN Chosen(Remembered, size) ELSE <<>>
  /\ IF size < RedCapacity THEN Remember(size)
     ELSE /\ redRing' = [slot \in Slots |-> Older(redRing[slot])]
          /\ UNCHANGED <<redNext, redCount>>

\* A 20 ms frame is encoded, and there is a peer to send it to; one that does
\* not encode, or comes between two peers, leaves no trace.
FrameSent(size) ==
  /\ Wrapped(size)
  /\ LET log == [i \in 1..Len(sentLog) |-> Older(sentLog[i])]
         all == IF size < RedCapacity /\ size <= BlockMax
                THEN Append(log, [age |-> 1, size |-> size]) ELSE log
     IN  sentLog' = IF Len(all) > RedDistance THEN Tail(all) ELSE all

UplinkNext == StreamStarts \/ \E size \in FrameLengths : FrameSent(size)

-----------------------------------------------------------------------------
\* A packet carries the last frames of its own stream that are in reach and
\* fit, oldest first: never one of the stream before a re-dial, never a slot
\* the ring has not filled, and none twice (red_wrap.c:39-56; rtp.c:262-264).
RedCarriesLatest ==
  [][\A size \in FrameLengths : FrameSent(size) =>
       carried' = IF size < RedCapacity THEN Chosen(sentLog, size) ELSE <<>>]_uplinkVars
=============================================================================
