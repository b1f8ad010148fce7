------------------------------- MODULE Downlink -------------------------------
(***************************************************************************)
(* The audio downlink: RTP packets that may be lost, reordered or repeated, *)
(* RED redundancy, the NACK client with its retransmission channel, and the  *)
(* deferred concealment that ties them together.  The question is what the   *)
(* Opus decoder is fed for each frame of the stream, across re-dials.        *)
(*                                                                          *)
(* Sources: components/peer/rtp.c, nack_client.c, red_unwrap.c and the NACK   *)
(* part of src/webrtc.cpp (built with PIPECAT_NACK and PIPECAT_REDIAL).      *)
(*                                                                          *)
(* Frames are numbered from the start of a stream; on the wire a frame has   *)
(* its 16-bit sequence number, here modulo SeqMod.  A slot that has expired  *)
(* differs from a free one only in the round-trip sample it still yields, so *)
(* both are "not armed".  Ages count 20 ms units.  The transport loop runs   *)
(* every handler here, so an arrival is two steps nothing comes between.     *)
(***************************************************************************)
EXTENDS Integers, Sequences, FiniteSets

CONSTANTS
  LastFrame,    \* bound: the last frame of a stream
  Dials,        \* bound: the number of streams, one per PeerConnection
  SeqMod,       \* NACK_SEQ_MOD, the modulus of a sequence number
  Bases,        \* sequence numbers a stream may start at
  MinGap,       \* NACK_MIN_GAP
  MaxSeqs,      \* NACK_MAX_SEQS
  MaxGap,       \* RED_MAX_GAP, beyond which the decoder resynchronises
  Slots,        \* NACK_PENDING_SLOTS
  Wait,         \* NACK_WAIT_MS
  RedReach,     \* frames a RED packet carries besides its own
  BreakerMinSent, BreakerPercent  \* NACK_BREAKER_MIN_SENT, .._RECOVERY_PERCENT

ASSUME DownlinkBounds ==
  /\ LastFrame \in Nat /\ Dials \in Nat \ {0}
  /\ SeqMod \in Nat /\ 2 * LastFrame + 2 < SeqMod
  /\ Bases \subseteq 0..(SeqMod - 1)
  /\ MinGap \in Nat \ {0} /\ MaxSeqs \in Nat \ {0} /\ MaxGap \in Nat
  /\ Slots \in Nat \ {0} /\ Wait \in Nat /\ RedReach \in Nat
  /\ BreakerMinSent \in Nat \ {0} /\ BreakerPercent \in 1..100

Frame  == 0..LastFrame
SeqNr  == 0..(SeqMod - 1)
NoSeq  == -1
NoFrame == -1

VARIABLES
  dial,      \* which PeerConnection, and so which stream, this is
  base,      \* sequence number of the stream's frame 0
  last,      \* s_rtp_seq_state[..].last_seq of the decoder, or NoSeq
  pkt,       \* the packet being decoded: [n, red], n = NoFrame between packets
  pending,   \* the ARMED slots of g_nack.pending: sequence number to its age
             \* in 20 ms units and, a ghost, the stream it was armed for
  staged,    \* s_rtx_q: retransmissions waiting for the next packet
  sender,    \* s_nack_send is registered
  dark,      \* g_nack_auto_dark: "no", "dark", "due" (60 s have passed)
  sent, recovered, outage,  \* the effect buckets of the last ten minutes
  silent,    \* no packet for NACK_OUTAGE_GAP_MS
  setup,     \* pipecat-rtx: "none", "open" (within 5 s of onopen), "late"
  channel,   \* what the hub opened: "none", "good", "bad" (type, reliability)
  rtxArmed,  \* s_nack_rtx_armed
  asked,     \* frames the hub was asked for and may still resend
  fate,      \* ghost: what the decoder was fed for each frame
  twice      \* ghost: a frame was fed twice since the channel was armed

netVars    == <<setup, channel, rtxArmed, sender>>
effectVars == <<dark, sent, recovered, outage>>
ghostVars  == <<fate, twice>>
vars == <<dial, base, last, pkt, pending, staged, netVars, effectVars, silent,
          asked, ghostVars>>

Fed == {"played", "red", "plc", "rtx"}
Fates == Fed \cup {"none", "deferred", "skipped", "moot", "lost"}

TypeOK ==
  /\ dial \in 1..Dials /\ base \in SeqNr /\ last \in SeqNr \cup {NoSeq}
  /\ pkt \in [n : Frame \cup {NoFrame}, red : SUBSET Frame]
  /\ DOMAIN pending \subseteq SeqNr
  /\ pending \in [DOMAIN pending -> [age : 0..(Wait + 1), stream : 1..Dials]]
  /\ staged \in Seq([stream : 1..Dials, n : Frame])
  /\ sender \in BOOLEAN /\ rtxArmed \in BOOLEAN /\ silent \in BOOLEAN
  /\ dark \in {"no", "dark", "due"}
  /\ sent \in Nat /\ recovered \in Nat /\ outage \in BOOLEAN
  /\ setup \in {"none", "open", "late"} /\ channel \in {"none", "good", "bad"}
  /\ asked \in SUBSET Frame
  /\ fate \in [Frame -> Fates] /\ twice \in BOOLEAN

Init ==
  /\ dial = 1 /\ base \in Bases /\ last = NoSeq
  /\ pkt = [n |-> NoFrame, red |-> {}]
  /\ pending = <<>>
  /\ staged = <<>>
  /\ sender = FALSE /\ rtxArmed = FALSE /\ setup = "none" /\ channel = "none"
  /\ dark = "no" /\ sent = 0 /\ recovered = 0 /\ outage = FALSE
  /\ silent = FALSE
  /\ asked = {} /\ fate = [n \in Frame |-> "none"] /\ twice = FALSE

-----------------------------------------------------------------------------
(* Sequence numbers.                                                        *)

\* Mutant: the sequence number does not wrap.
WireUnwrapped(n) == base + n

Wire(n) == (base + n) % SeqMod

\* (uint16_t)(last_seq + 1), and (int16_t)(seq - expected).
Expected == (last + 1) % SeqMod
Delta(n) == LET d == (Wire(n) - Expected) % SeqMod
            IN  IF 2 * d < SeqMod THEN d ELSE d - SeqMod

\* The frame of this stream that has sequence number s.
FrameOf(s) == (s - base) % SeqMod

Idle == pkt.n = NoFrame

Armed == DOMAIN pending
Keep(seqs) == [s \in seqs |-> pending[s]]

\* One call of the decoder's on_packet for every frame of fs.
FeedNow(f, fs, how) == [n \in Frame |-> IF n \in fs THEN how ELSE f[n]]
FedAlready(f, fs) == \E n \in fs : f[n] \in Fed

-----------------------------------------------------------------------------
(* The breaker: nack_client_should_dark, applied after every resolution.    *)

\* Mutant: the breaker does not wait for the requests that are still open.
EvidenceAnyTime(open, s, r, out) ==
  ~out /\ s >= BreakerMinSent /\ 100 * r < BreakerPercent * s

\* Enough resolved requests, too few of them answered, and no outage to blame.
Evidence(open, s, r, out) ==
  /\ open = {} /\ ~out
  /\ s >= BreakerMinSent /\ 100 * r < BreakerPercent * s

\* Dark for 60 s, then a clean re-probe.
Breaker(open, s, r, out) ==
  CASE dark = "dark" ->
         dark' = "dark" /\ sent' = s /\ recovered' = r /\ outage' = out
    [] dark = "due" ->
         dark' = "no" /\ sent' = 0 /\ recovered' = 0 /\ outage' = FALSE
    [] dark = "no" ->
         /\ dark' = IF Evidence(open, s, r, out) THEN "dark" ELSE "no"
         /\ sent' = s /\ recovered' = r /\ outage' = out

-----------------------------------------------------------------------------
(* Arrival of an audio packet, first half: nack_sweep_and_drain.            *)

\* Slots whose window has passed (nack_client_sweep).
Expired == {s \in Armed : pending[s].age > Wait}

\* The staged retransmissions of this stream.
Spliced == {staged[i].n : i \in {j \in DOMAIN staged : staged[j].stream = dial}}

\* Mutant: expired slots are freed without calling the concealment back.
SweptSilently == {}

\* Deferred frames of this stream whose slot the sweep finds expired.
SweptFrames == {FrameOf(s) : s \in {t \in Expired : pending[t].stream = dial}}
               \cap Frame

\* red_unwrap: the earlier frames whose blocks frame n's packet may hold; one
\* that is malformed is bare Opus, and holds none.
RedBlocks(n) == SUBSET ((n - RedReach)..(n - 1) \cap Frame)

\* Frame n reaches the device; the FIFO is drained, then expired slots are
\* concealed.
PacketArrives ==
  /\ Idle
  /\ \E n \in Frame : \E red \in RedBlocks(n) : pkt' = [n |-> n, red |-> red]
  /\ fate' = FeedNow(FeedNow(fate, Spliced, "rtx"), SweptFrames, "plc")
  /\ twice' = (twice \/ FedAlready(fate, Spliced)
                     \/ FedAlready(FeedNow(fate, Spliced, "rtx"), SweptFrames))
  /\ staged' = <<>>
  /\ pending' = Keep(Armed \ Expired)
  /\ silent' = FALSE
  /\ Breaker(Armed \ Expired, sent, recovered, outage \/ silent)
  /\ UNCHANGED <<dial, base, last, netVars, asked>>

-----------------------------------------------------------------------------
(* Second half: rtp_decode_generic on the packet itself.                    *)

\* Deliver the primary and remember its number.
Deliver(f, t) ==
  /\ fate' = FeedNow(f, {pkt.n}, "played")
  /\ twice' = (t \/ f[pkt.n] \in Fed)
  /\ last' = Wire(pkt.n)
  /\ pkt' = [n |-> NoFrame, red |-> {}]

Decoding == pkt.n # NoFrame

\* The decoder's first packet, or the first after the table was forgotten.
DecodeFirst ==
  /\ Decoding /\ last = NoSeq
  /\ Deliver([n \in Frame |-> IF n < pkt.n THEN "skipped" ELSE fate[n]], twice)
  /\ UNCHANGED <<dial, base, pending, staged, netVars, effectVars, silent, asked>>

\* Behind playback: dropped, and its redundancy with it.
DecodeLate ==
  /\ Decoding /\ last # NoSeq /\ Delta(pkt.n) < 0
  /\ pkt' = [n |-> NoFrame, red |-> {}]
  /\ UNCHANGED <<dial, base, last, pending, staged, netVars, effectVars,
                 silent, asked, ghostVars>>

DecodeNext ==
  /\ Decoding /\ last # NoSeq /\ Delta(pkt.n) = 0
  /\ Deliver(fate, twice)
  /\ UNCHANGED <<dial, base, pending, staged, netVars, effectVars, silent, asked>>

\* Too long a hole to interpolate: resynchronise.
DecodeResync ==
  /\ Decoding /\ last # NoSeq /\ Delta(pkt.n) > MaxGap
  /\ Deliver([n \in Frame |-> IF n < pkt.n /\ fate[n] = "none"
                              THEN "skipped" ELSE fate[n]], twice)
  /\ UNCHANGED <<dial, base, pending, staged, netVars, effectVars, silent, asked>>

\* Mutant: off by one at the old end of the gap.
MissingButOldest == {n \in Frame : n < pkt.n /\ n > pkt.n - Delta(pkt.n)}

\* The frames between the last one and this packet.
Missing == {n \in Frame : n < pkt.n /\ n >= pkt.n - Delta(pkt.n)}

\* nack_client_plan_gap: the oldest MaxSeqs of a gap RED cannot reach.
PlanGap == IF Delta(pkt.n) < MinGap THEN {}
           ELSE {n \in Missing : n < pkt.n - Delta(pkt.n) + MaxSeqs}

\* nack_client_arm on each planned frame, oldest first: it re-arms its own
\* slot or takes one that is not armed.
Armable(plan) ==
  {n \in plan : \/ Wire(n) \in Armed
                \/ Cardinality(Armed) + Cardinality(
                     {m \in plan : m < n /\ Wire(m) \notin Armed}) < Slots}

\* nack_request: nothing without a sender or while dark, else arm, then send.
Requested == IF sender /\ dark = "no" THEN Armable(PlanGap) ELSE {}

\* red_recover_plan: the missing frames the packet has a block of.
Recoverable(missing) == missing \cap pkt.red

\* The concealment loop skips the k oldest of the missing frames.
Deferred(k) == {n \in Missing : n < pkt.n - Delta(pkt.n) + k}

DecodeGap ==
  /\ Decoding /\ last # NoSeq /\ Delta(pkt.n) \in 1..MaxGap
  /\ LET req   == Requested
         later == Deferred(Cardinality(req))
         now   == Missing \ later
         filled == FeedNow(FeedNow(FeedNow(fate, later, "deferred"),
                                   Recoverable(now), "red"),
                           now \ Recoverable(now), "plc")
         slots == {Wire(n) : n \in req}
     IN  /\ pending' = [s \in Armed \cup slots |->
                          IF s \in slots THEN [age |-> 0, stream |-> dial]
                          ELSE pending[s]]
         /\ sent' = sent + Cardinality(req)
         /\ asked' = asked \cup req
         /\ Deliver(filled, twice \/ FedAlready(fate, Missing))
  /\ UNCHANGED <<dial, base, staged, netVars, dark, recovered, outage, silent>>

Decode == \/ DecodeFirst \/ DecodeLate \/ DecodeNext \/ DecodeResync
          \/ DecodeGap

-----------------------------------------------------------------------------
(* The retransmission channel.                                              *)

\* rtp_nack_register_sender: a fresh peer, every pending request is moot.
RegisterSender ==
  /\ sender' = TRUE
  /\ pending' = <<>> /\ staged' = <<>>
  /\ dark' = "no" /\ sent' = 0 /\ recovered' = 0 /\ outage' = FALSE
  /\ fate' = [n \in Frame |-> IF fate[n] = "deferred" THEN "moot" ELSE fate[n]]
  /\ twice' = FALSE

OnOpen ==
  /\ Idle /\ setup = "none" /\ setup' = "open"
  /\ UNCHANGED <<dial, base, last, pkt, pending, staged, channel, rtxArmed,
                 sender, effectVars, silent, asked, ghostVars>>

OpenTimesOut ==
  /\ setup = "open" /\ setup' = "late"
  /\ UNCHANGED <<dial, base, last, pkt, pending, staged, channel, rtxArmed,
                 sender, effectVars, silent, asked, ghostVars>>

\* The hub's DCEP OPEN for pipecat-rtx, unordered with at most 2 rexmits or not.
HubOpensChannel ==
  /\ Idle /\ setup # "none" /\ channel = "none"
  /\ channel' \in {"good", "bad"}
  /\ UNCHANGED <<dial, base, last, pkt, pending, staged, setup, rtxArmed,
                 sender, effectVars, silent, asked, ghostVars>>

CanArm == ~rtxArmed /\ setup = "open" /\ channel = "good"

\* pipecat_nack_try_arm_channel, polled by every pass of the loop.
TryArmChannel ==
  /\ Idle /\ CanArm
  /\ rtxArmed' = TRUE
  /\ RegisterSender
  /\ UNCHANGED <<dial, base, last, pkt, setup, channel, silent,
                 asked>>

\* nack_client_take finds the slot armed and its deadline not passed.
InWindow(s) == pending[s].age <= Wait

\* Mutant: an in-window retransmission leaves its slot armed.
TakeKeepsSlot(s) == Armed

\* nack_client_take frees the slot either way.
Take(s) == Armed \ {s}

\* rtp_nack_feed_rtx: in its window the frame is staged; late it still takes
\* the slot away.
FeedRtx(n) ==
  LET s == Wire(n)
      hit == s \in Armed /\ InWindow(s)
  IN  /\ pending' = Keep(Take(s))
      /\ staged' = IF hit /\ Len(staged) < Slots
                   THEN Append(staged, [stream |-> dial, n |-> n]) ELSE staged
      /\ fate' = IF s \in Armed /\ ~hit THEN [fate EXCEPT ![n] = "lost"] ELSE fate
      /\ Breaker(Take(s), sent, recovered + (IF hit THEN 1 ELSE 0), outage)

\* nack_parse_rtx_frame rejects it, and it is only counted.
RtxMalformed == UNCHANGED <<pending, staged, fate, effectVars>>

\* The hub's copy of frame n arrives on the armed channel.
RtxArrives(n) ==
  /\ Idle /\ n \in asked /\ rtxArmed
  /\ asked' = asked \ {n}
  /\ FeedRtx(n) \/ RtxMalformed
  /\ UNCHANGED <<dial, base, last, pkt, netVars, silent, twice>>

-----------------------------------------------------------------------------
(* Time and the re-dial.                                                    *)

OneUnit ==
  /\ Idle
  /\ \E s \in Armed : pending[s].age <= Wait
  /\ pending' = [s \in Armed |->
                   IF pending[s].age <= Wait
                   THEN [pending[s] EXCEPT !.age = @ + 1] ELSE pending[s]]
  /\ UNCHANGED <<dial, base, last, pkt, staged, netVars,
                 effectVars, silent, asked, ghostVars>>

\* 500 ms without a packet: every window has passed by then.
FallsSilent ==
  /\ Idle /\ ~silent /\ last # NoSeq
  /\ \A s \in Armed : pending[s].age > Wait
  /\ silent' = TRUE
  /\ UNCHANGED <<dial, base, last, pkt, pending, staged, netVars, effectVars,
                 asked, ghostVars>>

DarkElapses ==
  /\ Idle /\ dark = "dark" /\ dark' = "due"
  /\ UNCHANGED <<dial, base, last, pkt, pending, staged, netVars, sent,
                 recovered, outage, silent, asked, ghostVars>>

\* The ten-minute window leaves the old buckets behind.
WindowRolls ==
  /\ Idle /\ sent > 0 /\ \A s \in Armed : pending[s].age > Wait
  /\ sent' = 0 /\ recovered' = 0 /\ outage' = FALSE
  /\ UNCHANGED <<dial, base, last, pkt, pending, staged, netVars, dark,
                 silent, asked, ghostVars>>

\* Mutant: the table outlives the decoder it was keyed by.
SeqTableKept == last

\* rtp_seq_state_reset.
SeqTableForgotten == NoSeq

\* pipecat_webrtc_teardown and the next dial, as far as the downlink sees it:
\* the channel flags and the sequence table go, g_nack and its FIFO stay.
Redial ==
  /\ Idle /\ dial < Dials
  /\ dial' = dial + 1 /\ base' \in Bases
  /\ last' = SeqTableForgotten
  /\ setup' = "none" /\ channel' = "none" /\ rtxArmed' = FALSE
  /\ asked' = {}
  /\ fate' = [n \in Frame |-> "none"] /\ twice' = FALSE
  /\ UNCHANGED <<pkt, pending, staged, sender, effectVars, silent>>

Next == \/ PacketArrives \/ Decode
        \/ OnOpen \/ OpenTimesOut \/ HubOpensChannel \/ TryArmChannel
        \/ \E n \in Frame : RtxArrives(n)
        \/ OneUnit \/ FallsSilent \/ DarkElapses \/ WindowRolls
        \/ Redial

Spec == Init /\ [][Next]_vars

-----------------------------------------------------------------------------
(* Safety.                                                                  *)

\* The decoder is fed at most once for a frame, whichever of the packet, its
\* RED copy, its retransmission and its concealment come, and in whatever
\* order: a second feed is an audible stretch (rtp.c:341-359).  It is said of a
\* peer whose channel is armed: the teardown leaves requests of the stream before
\* in the table, and only the next channel's arming declares them moot.
OneFeedPerFrame == rtxArmed => ~twice

\* A frame whose concealment was put off is still on its way: its slot is
\* armed for this stream, or its retransmission is staged (rtp.c:345-355,
\* nack_client.h: eviction "would suppress that sequence's deferred PLC").
DeferredIsOnItsWay ==
  rtxArmed => \A n \in Frame : fate[n] = "deferred" =>
    \/ Wire(n) \in Armed /\ pending[Wire(n)].stream = dial
    \/ n \in Spliced

\* Nothing between the first frame and the last is passed over in silence:
\* each was fed, put off, or skipped by a resynchronisation (rtp.c:771-855).
NoHoles ==
  Idle /\ last # NoSeq => \A n \in Frame : n <= FrameOf(last) => fate[n] # "none"

\* The lane goes dark on answers, never on requests that are still open, and
\* asks for nothing while it is: the re-probe starts from a clean sheet
\* (nack_client.c:212-225).
DarkLaneIsQuiet == dark # "no" => Armed = {}

\* A stream is heard from its first packet on, whatever numbers the stream
\* before it used (rtp.c:698-709, the kitchen re-dial of 2026-10-04).
NewStreamIsHeard ==
  [][Decoding /\ ~Decoding' /\ (\A n \in Frame : fate[n] # "played") =>
       fate'[pkt.n] = "played"]_vars

\* "Exactly one of {rtx splice, deferred PLC} ever fires per NACKed seq"
\* (rtp.c:359).  A retransmission that comes after its window and before the next
\* packet takes the slot away from the sweep and is not spliced either: that
\* frame has none of the two.
OneOfThemFires == \A n \in Frame : fate[n] # "lost"
=============================================================================
