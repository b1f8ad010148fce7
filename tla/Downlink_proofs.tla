--------------------------- MODULE Downlink_proofs ---------------------------
(*****************************************************************************)
(* Proofs about Downlink.tla, for every modulus, gap limit, table size, window*)
(* and number of streams.                                                    *)
(*                                                                           *)
(* The argument.  Frames are less than half the sequence numbers apart, so the*)
(* signed 16-bit difference is the distance between frames (DeltaIs), and what*)
(* is known of a stream is a prefix of it (Prefix).  While the retransmission*)
(* channel is armed every request and every staged copy is for a deferred frame*)
(* of this stream, each frame in one of the two places, and table and queue  *)
(* together never hold more than the table has slots (Lane): so no copy is   *)
(* turned away, none is fed to the decoder twice, and a gap's requests are the*)
(* oldest of its frames, those whose concealment is put off (GapPlan).  A re-dial*)
(* leaves only what bears the number of an earlier stream.                   *)
(*****************************************************************************)
EXTENDS Downlink, TLAPS, FiniteSetTheorems, SequenceTheorems

-----------------------------------------------------------------------------
(* Sequence numbers.                                                        *)

\* A number below the modulus is its own remainder.
LEMMA ModSmall == ASSUME NEW m \in Nat \ {0}, NEW a \in 0..(m - 1) PROVE a % m = a
  BY SMT

\* A number one turn past the modulus.
LEMMA ModOver ==
  ASSUME NEW m \in Nat \ {0}, NEW a \in m..(2 * m - 1) PROVE a % m = a - m
  BY SMT

\* A number less than one turn below zero.
LEMMA ModUnder ==
  ASSUME NEW m \in Nat \ {0}, NEW a \in (-m)..(-1) PROVE a % m = a + m
  BY SMT

\* What the steps below use of the assumption on the constants.
LEMMA Bounds ==
  /\ LastFrame \in Nat /\ SeqMod \in Nat \ {0} /\ 2 * LastFrame + 2 < SeqMod
  /\ MinGap \in Nat \ {0} /\ MaxSeqs \in Nat \ {0} /\ MaxGap \in Nat
  /\ Slots \in Nat \ {0} /\ Wait \in Nat
  BY DownlinkBounds

\* The sequence number of a frame, without the remainder.
LEMMA WireIs ==
  ASSUME base \in SeqNr, NEW n \in Frame
  PROVE  /\ Wire(n) \in SeqNr
         /\ Wire(n) = IF base + n < SeqMod THEN base + n ELSE base + n - SeqMod
<1>1. base \in 0..(SeqMod - 1) /\ n \in 0..LastFrame
  BY DEF SeqNr, Frame
<1>2. CASE base + n < SeqMod
  <2>1. base + n \in 0..(SeqMod - 1)
    BY <1>1, <1>2, Bounds
  <2> QED
    BY <1>2, <2>1, Bounds, ModSmall DEF Wire, SeqNr
<1>3. CASE base + n >= SeqMod
  <2> DEFINE sum == base + n
  <2>1. sum \in SeqMod..(2 * SeqMod - 1)
    BY <1>1, <1>3, Bounds
  <2>2. sum % SeqMod = sum - SeqMod
    <3> HIDE DEF sum
    <3> QED
      BY <2>1, Bounds, ModOver
  <2> QED
    BY <1>1, <1>3, <2>2, Bounds DEF SeqNr, Wire
<1> QED
  BY <1>1, <1>2, <1>3, Bounds

\* Two frames of a stream never share a sequence number.
LEMMA WireInjective ==
  ASSUME base \in SeqNr, NEW m \in Frame, NEW n \in Frame, Wire(m) = Wire(n)
  PROVE  m = n
<1>1. /\ base \in Int /\ m \in 0..LastFrame /\ n \in 0..LastFrame
      /\ LastFrame < SeqMod /\ LastFrame \in Int /\ SeqMod \in Int
  BY Bounds DEF SeqNr, Frame
<1>2. /\ Wire(m) = IF base + m < SeqMod THEN base + m ELSE base + m - SeqMod
      /\ Wire(n) = IF base + n < SeqMod THEN base + n ELSE base + n - SeqMod
  BY WireIs
<1>3. CASE base + m < SeqMod /\ base + n < SeqMod
  <2>1. base + m = base + n
    BY <1>2, <1>3
  <2> QED
    BY <1>1, <2>1
<1>4. CASE base + m < SeqMod /\ ~(base + n < SeqMod)
  <2>1. base + m = base + n - SeqMod
    BY <1>2, <1>4
  <2> QED
    BY <1>1, <2>1
<1>5. CASE ~(base + m < SeqMod) /\ base + n < SeqMod
  <2>1. base + m - SeqMod = base + n
    BY <1>2, <1>5
  <2> QED
    BY <1>1, <2>1
<1>6. CASE ~(base + m < SeqMod) /\ ~(base + n < SeqMod)
  <2>1. base + m - SeqMod = base + n - SeqMod
    BY <1>2, <1>6
  <2> QED
    BY <1>1, <2>1
<1> QED
  BY <1>1, <1>3, <1>4, <1>5, <1>6

\* The frame is found again from its sequence number.
LEMMA FrameOfWire ==
  ASSUME base \in SeqNr, NEW n \in Frame
  PROVE  FrameOf(Wire(n)) = n
<1>1. /\ base \in 0..(SeqMod - 1) /\ n \in 0..LastFrame
      /\ LastFrame < SeqMod /\ LastFrame \in Nat /\ SeqMod \in Nat \ {0}
  BY Bounds DEF SeqNr, Frame
<1>2. CASE base + n < SeqMod
  <2>1. Wire(n) - base = n /\ n \in 0..(SeqMod - 1)
    BY <1>1, <1>2, WireIs
  <2> QED
    BY <1>1, <2>1, ModSmall DEF FrameOf
<1>3. CASE base + n >= SeqMod
  <2>1. Wire(n) - base = n - SeqMod /\ n - SeqMod \in (-SeqMod)..(-1)
    BY <1>1, <1>3, WireIs
  <2>2. (n - SeqMod) % SeqMod = n - SeqMod + SeqMod
    BY <1>1, <2>1, ModUnder
  <2> QED
    BY <1>1, <2>1, <2>2 DEF FrameOf
<1> QED
  BY <1>1, <1>2, <1>3

\* As long as two frames are less than half the numbers apart, their distance
\* is what the 16-bit difference says.
LEMMA DeltaIs ==
  ASSUME base \in SeqNr, NEW l \in Frame, NEW n \in Frame, last = Wire(l)
  PROVE  Delta(n) = n - l - 1
<1> DEFINE e == (last + 1) % SeqMod
           x == Wire(n) - e
<1>1. /\ base \in 0..(SeqMod - 1) /\ l \in 0..LastFrame /\ n \in 0..LastFrame
      /\ 2 * LastFrame + 2 < SeqMod /\ LastFrame \in Nat /\ SeqMod \in Nat \ {0}
  BY Bounds DEF SeqNr, Frame
<1>2. last \in 0..(SeqMod - 1) /\ Wire(n) \in 0..(SeqMod - 1)
  BY WireIs DEF SeqNr
<1>3. e = IF last + 1 < SeqMod THEN last + 1 ELSE 0
  <2>1. CASE last + 1 < SeqMod
    <3>1. last + 1 \in 0..(SeqMod - 1)
      BY <1>1, <1>2, <2>1
    <3> QED
      BY <1>1, <2>1, <3>1, ModSmall
  <2>2. CASE last + 1 = SeqMod
    <3>1. last + 1 \in SeqMod..(2 * SeqMod - 1)
      BY <1>1, <2>2
    <3> QED
      BY <1>1, <2>2, <3>1, ModOver
  <2> QED
    BY <1>1, <1>2, <2>1, <2>2
<1>4. /\ Wire(n) = IF base + n < SeqMod THEN base + n ELSE base + n - SeqMod
      /\ last = IF base + l < SeqMod THEN base + l ELSE base + l - SeqMod
  BY WireIs
<1> HIDE DEF e
<1>5. x \in {n - l - 1, n - l - 1 + SeqMod, n - l - 1 - SeqMod}
  BY <1>1, <1>3, <1>4
<1>6. x \in (-SeqMod)..(SeqMod - 1)
  BY <1>1, <1>2, <1>3
<1>7. x % SeqMod = IF x < 0 THEN x + SeqMod ELSE x
  <2>1. CASE x < 0
    <3>1. x \in (-SeqMod)..(-1)
      BY <1>1, <1>6, <2>1
    <3> HIDE DEF x
    <3> QED
      BY <1>1, <2>1, <3>1, ModUnder
  <2>2. CASE ~(x < 0)
    <3>1. x \in 0..(SeqMod - 1)
      BY <1>1, <1>6, <2>2
    <3> HIDE DEF x
    <3> QED
      BY <1>1, <2>2, <3>1, ModSmall
  <2> QED
    BY <2>1, <2>2
<1>8. Delta(n) = IF 2 * (x % SeqMod) < SeqMod THEN x % SeqMod
                 ELSE (x % SeqMod) - SeqMod
  BY DEF Delta, Expected, e
<1> HIDE DEF x
<1>9. x % SeqMod = IF n - l - 1 < 0 THEN n - l - 1 + SeqMod ELSE n - l - 1
  BY <1>1, <1>5, <1>6, <1>7
<1> QED
  BY <1>1, <1>8, <1>9

-----------------------------------------------------------------------------
(* The inductive invariant.                                                 *)

\* Whose requests and retransmissions the table and the queue hold.
LaneTyped ==
  /\ dial \in 1..Dials /\ base \in SeqNr
  /\ pkt \in [n : Frame \cup {NoFrame}, red : SUBSET Frame]
  /\ Armed \subseteq SeqNr
  /\ pending \in [Armed -> [age : 0..(Wait + 1), stream : 1..dial]]
  /\ staged \in Seq([stream : 1..dial, n : Frame])
  /\ fate \in [Frame -> Fates]
  /\ dark \in {"no", "dark", "due"}

\* Frame l was played last: nothing after it is known, nothing before it was
\* passed over.
PlayedLast(l) ==
  /\ last = Wire(l) /\ fate[l] = "played"
  /\ \A n \in Frame : fate[n] = "none" <=> n > l

\* Nothing was played yet, or frame l was played last.
Prefix == \/ last = NoSeq /\ \A n \in Frame : fate[n] = "none"
          \/ \E l \in Frame : PlayedLast(l)

\* A request of this stream is for a frame that the concealment has passed.
RequestsPassed ==
  \A s \in Armed : pending[s].stream = dial =>
    \E n \in Frame : s = Wire(n) /\ fate[n] \notin {"none", "played"}

\* Without a channel nothing of this stream is staged.
StagedByChannel == \A i \in DOMAIN staged : staged[i].stream = dial => rtxArmed

\* With a channel, the table and the queue hold this stream's deferred frames,
\* each in one place, and there is room for every one in the queue.
Lane ==
  /\ \A s \in Armed : /\ pending[s].stream = dial
                      /\ \E n \in Frame : s = Wire(n) /\ fate[n] = "deferred"
  /\ \A i \in DOMAIN staged : /\ staged[i].stream = dial
                              /\ fate[staged[i].n] = "deferred"
                              /\ Wire(staged[i].n) \notin Armed
  /\ \A n \in Frame : fate[n] = "deferred" => Wire(n) \in Armed \/ n \in Spliced
  /\ IsFiniteSet(Armed) /\ Cardinality(Armed) + Len(staged) <= Slots
  /\ ~twice

\* Lane is said of a peer whose channel is armed.
LaneHolds == rtxArmed => Lane

\* The arrival of a packet drains the queue before the packet is decoded.
DrainedFirst == Decoding => staged = <<>>

\* The inductive invariant.
DownInv == /\ LaneTyped /\ Prefix /\ RequestsPassed /\ StagedByChannel
           /\ LaneHolds /\ DrainedFirst /\ DarkLaneIsQuiet

\* What the invariant does not speak of may change.
LEMMA Unmoved ==
  ASSUME DownInv, dark' \in {"no", "dark", "due"}, dark' # "no" => dark # "no",
         pkt' \in [n : Frame \cup {NoFrame}, red : SUBSET Frame],
         Decoding' => Decoding,
         UNCHANGED <<dial, base, last, pending, staged, rtxArmed, fate, twice>>
  PROVE  DownInv'
<1>1. LaneTyped' /\ RequestsPassed'
  BY DEF DownInv, LaneTyped, RequestsPassed, Armed, Wire
<1>2. Prefix'
  BY DEF DownInv, Prefix, PlayedLast, Wire
<1>3. StagedByChannel' /\ DrainedFirst' /\ DarkLaneIsQuiet'
  BY DEF DownInv, StagedByChannel, DrainedFirst, DarkLaneIsQuiet, Armed
<1>4. LaneHolds'
  BY DEF DownInv, LaneHolds, Lane, Armed, Wire, Spliced
<1> QED
  BY <1>1, <1>2, <1>3, <1>4 DEF DownInv

\* A frame is fed by a channel or a sweep only after the concealment passed it.
LEMMA SplicedPassed ==
  ASSUME DownInv
  PROVE  /\ \A n \in Frame : n \in Spliced => rtxArmed /\ fate[n] = "deferred"
         /\ \A n \in SweptFrames : /\ n \in Frame
                                   /\ fate[n] \notin {"none", "played"}
                                   /\ Wire(n) \in Expired
                                   /\ pending[Wire(n)].stream = dial
         /\ rtxArmed => \A n \in SweptFrames : fate[n] = "deferred" /\ n \notin Spliced
         /\ \A n \in Frame : Wire(n) \in Expired /\ pending[Wire(n)].stream = dial
                             => n \in SweptFrames
<1>1. ASSUME NEW n \in Frame, n \in Spliced PROVE rtxArmed /\ fate[n] = "deferred"
  <2>1. PICK i \in DOMAIN staged : staged[i].stream = dial /\ staged[i].n = n
    BY <1>1 DEF Spliced
  <2>2. rtxArmed
    BY <2>1 DEF DownInv, StagedByChannel
  <2> QED
    BY <2>1, <2>2 DEF DownInv, LaneHolds, Lane
<1>2. ASSUME NEW n \in SweptFrames
      PROVE  /\ n \in Frame /\ fate[n] \notin {"none", "played"}
             /\ Wire(n) \in Expired /\ pending[Wire(n)].stream = dial
             /\ rtxArmed => fate[n] = "deferred"
  <2>1. PICK s \in Expired : pending[s].stream = dial /\ n = FrameOf(s)
    BY <1>2 DEF SweptFrames
  <2>2. s \in Armed /\ n \in Frame
    BY <1>2, <2>1 DEF Expired, SweptFrames
  <2>3. PICK m \in Frame : s = Wire(m) /\ fate[m] \notin {"none", "played"}
    BY <2>1, <2>2 DEF DownInv, RequestsPassed
  <2>4. m = n
    BY <2>1, <2>3, FrameOfWire DEF DownInv, LaneTyped
  <2>5. rtxArmed => fate[n] = "deferred"
    <3> SUFFICES ASSUME rtxArmed PROVE fate[n] = "deferred"
      OBVIOUS
    <3>1. PICK k \in Frame : s = Wire(k) /\ fate[k] = "deferred"
      BY <2>2 DEF DownInv, LaneHolds, Lane
    <3>2. k = n
      BY <2>1, <3>1, FrameOfWire DEF DownInv, LaneTyped
    <3> QED
      BY <3>1, <3>2
  <2> QED
    BY <2>1, <2>2, <2>3, <2>4, <2>5
<1>3. ASSUME rtxArmed, NEW n \in SweptFrames PROVE n \notin Spliced
  <2> SUFFICES ASSUME n \in Spliced PROVE FALSE
    OBVIOUS
  <2>1. PICK i \in DOMAIN staged : staged[i].n = n
    BY DEF Spliced
  <2>2. Wire(n) \notin Armed
    BY <1>3, <2>1 DEF DownInv, LaneHolds, Lane
  <2> QED
    BY <1>2, <2>2 DEF Expired
<1>4. ASSUME NEW n \in Frame, Wire(n) \in Expired, pending[Wire(n)].stream = dial
      PROVE  n \in SweptFrames
  <2>1. FrameOf(Wire(n)) = n
    BY FrameOfWire DEF DownInv, LaneTyped
  <2> QED
    BY <1>4, <2>1 DEF SweptFrames
<1> QED
  BY <1>1, <1>2, <1>3, <1>4

\* The breaker opens only when nothing is asked for.
LEMMA BreakerStep ==
  ASSUME dark \in {"no", "dark", "due"}, NEW open, NEW s, NEW r, NEW out,
         Breaker(open, s, r, out)
  PROVE  /\ dark' \in {"no", "dark", "due"}
         /\ dark' # "no" => dark # "no" \/ open = {}
<1>1. CASE dark = "dark"
  BY <1>1 DEF Breaker
<1>2. CASE dark = "due"
  BY <1>2 DEF Breaker
<1>3. CASE dark = "no"
  <2>1. dark' = IF Evidence(open, s, r, out) THEN "dark" ELSE "no"
    BY <1>3 DEF Breaker
  <2>2. Evidence(open, s, r, out) => open = {}
    BY Zenon DEF Evidence
  <2> QED
    BY <1>3, <2>1, <2>2
<1> QED
  BY <1>1, <1>2, <1>3

\* Draining the queue and sweeping the table keep the invariant.
LEMMA PacketArrivesStep == ASSUME DownInv, PacketArrives PROVE DownInv'
<1> DEFINE spliced == FeedNow(fate, Spliced, "rtx")
<1>1. /\ UNCHANGED <<dial, base, last, rtxArmed>> /\ staged' = <<>>
      /\ pending' = Keep(Armed \ Expired)
      /\ fate' = FeedNow(spliced, SweptFrames, "plc")
      /\ \E n \in Frame : \E red \in RedBlocks(n) : pkt' = [n |-> n, red |-> red]
  BY DEF PacketArrives, netVars
<1>2. /\ Armed' = Armed \ Expired
      /\ \A s \in Armed' : pending'[s] = pending[s]
  BY <1>1 DEF Armed, Keep
<1>3. \A n \in Frame : fate'[n] = IF n \in SweptFrames THEN "plc"
                                  ELSE IF n \in Spliced THEN "rtx" ELSE fate[n]
  BY <1>1 DEF FeedNow
<1>4. LaneTyped'
  <2>1. pkt' \in [n : Frame \cup {NoFrame}, red : SUBSET Frame]
    BY <1>1 DEF RedBlocks
  <2>2. fate' \in [Frame -> Fates]
    BY <1>1, <1>3 DEF FeedNow, DownInv, LaneTyped, Fates, Fed
  <2>3. pending' \in [Armed' -> [age : 0..(Wait + 1), stream : 1..dial']]
    BY <1>1, <1>2 DEF Keep, DownInv, LaneTyped
  <2>4. dark' \in {"no", "dark", "due"}
    BY BreakerStep DEF PacketArrives, DownInv, LaneTyped
  <2>5. dial' \in 1..Dials /\ base' \in SeqNr /\ Armed' \subseteq SeqNr
        /\ staged' \in Seq([stream : 1..dial', n : Frame])
    BY <1>1, <1>2 DEF DownInv, LaneTyped
  <2> QED
    BY <2>1, <2>2, <2>3, <2>4, <2>5 DEF LaneTyped
<1>5. Prefix'
  <2>1. \A n \in Frame : /\ fate'[n] = "none" <=> fate[n] = "none"
                         /\ fate[n] = "played" => fate'[n] = "played"
    BY <1>3, SplicedPassed
  <2> QED
    BY <1>1, <2>1 DEF DownInv, Prefix, PlayedLast, Wire
<1>6. RequestsPassed'
  <2> SUFFICES ASSUME NEW s \in Armed', pending'[s].stream = dial'
               PROVE  \E n \in Frame : s = Wire(n)' /\ fate'[n] \notin {"none", "played"}
    BY DEF RequestsPassed
  <2>1. s \in Armed /\ pending[s].stream = dial
    BY <1>1, <1>2
  <2>2. PICK n \in Frame : s = Wire(n) /\ fate[n] \notin {"none", "played"}
    BY <2>1 DEF DownInv, RequestsPassed
  <2> QED
    BY <1>1, <1>3, <2>2 DEF Wire
<1>7. StagedByChannel' /\ DrainedFirst'
  BY <1>1 DEF StagedByChannel, DrainedFirst
<1>8. DarkLaneIsQuiet'
  BY <1>2, BreakerStep DEF PacketArrives, DownInv, LaneTyped, DarkLaneIsQuiet
<1>9. ASSUME rtxArmed PROVE Lane'
  <2>1. Lane
    BY <1>9 DEF DownInv, LaneHolds
  <2>2. ASSUME NEW s \in Armed'
        PROVE  /\ pending'[s].stream = dial'
               /\ \E n \in Frame : s = Wire(n)' /\ fate'[n] = "deferred"
    <3>1. s \in Armed /\ s \notin Expired /\ pending'[s] = pending[s]
      BY <1>2
    <3>2. PICK n \in Frame : s = Wire(n) /\ fate[n] = "deferred"
      BY <2>1, <3>1 DEF Lane
    <3>3. n \notin SweptFrames
      BY <3>1, <3>2, SplicedPassed
    <3>4. n \notin Spliced
      BY <2>1, <3>1, <3>2 DEF Lane, Spliced
    <3> QED
      BY <1>1, <1>3, <2>1, <3>1, <3>2, <3>3, <3>4 DEF Lane, Wire
  <2>3. ASSUME NEW n \in Frame, fate'[n] = "deferred"
        PROVE  Wire(n)' \in Armed'
    <3>1. fate[n] = "deferred" /\ n \notin SweptFrames /\ n \notin Spliced
      BY <1>3, <2>3
    <3>2. Wire(n) \in Armed
      BY <2>1, <3>1 DEF Lane
    <3>3. Wire(n) \notin Expired
      BY <2>1, <3>1, <3>2, SplicedPassed DEF Lane
    <3> QED
      BY <1>1, <1>2, <3>2, <3>3 DEF Wire
  <2>4. IsFiniteSet(Armed') /\ Cardinality(Armed') + Len(staged') <= Slots
    <3>1. IsFiniteSet(Armed) /\ Cardinality(Armed) + Len(staged) <= Slots
      BY <2>1 DEF Lane
    <3>2. IsFiniteSet(Armed') /\ Cardinality(Armed') <= Cardinality(Armed)
          /\ Cardinality(Armed) \in Nat /\ Cardinality(Armed') \in Nat
      BY <1>2, <3>1, FS_Subset, FS_CardinalityType
    <3>3. Len(staged) \in Nat /\ Len(staged') = 0
      BY <1>1 DEF DownInv, LaneTyped
    <3> QED
      BY <3>1, <3>2, <3>3, Bounds
  <2>5. ~twice'
    <3>1. ~FedAlready(fate, Spliced)
      <4>1. \A n \in Spliced : fate[n] = "deferred"
        BY <2>1 DEF Lane, Spliced
      <4> QED
        BY <4>1 DEF FedAlready, Fed
    <3>2. ~FedAlready(FeedNow(fate, Spliced, "rtx"), SweptFrames)
      <4>1. \A n \in SweptFrames : n \in Frame /\ n \notin Spliced /\ fate[n] = "deferred"
        BY <1>9, SplicedPassed
      <4>2. \A n \in SweptFrames : FeedNow(fate, Spliced, "rtx")[n] = "deferred"
        BY <4>1 DEF FeedNow
      <4> QED
        BY <4>2 DEF FedAlready, Fed
    <3>3. ~twice
      BY <2>1 DEF Lane
    <3> QED
      BY <3>1, <3>2, <3>3, Zenon DEF PacketArrives
  <2>6. DOMAIN staged' = {}
    BY <1>1
  <2> QED
    BY <2>2, <2>3, <2>4, <2>5, <2>6 DEF Lane
<1>10. LaneHolds'
  BY <1>1, <1>9 DEF LaneHolds
<1> QED
  BY <1>4, <1>5, <1>6, <1>7, <1>8, <1>10 DEF DownInv

-----------------------------------------------------------------------------
(* Decoding.                                                                *)

\* What Deliver does to the packet, apart from the ghost.
Delivered(f) == /\ fate' = FeedNow(f, {pkt.n}, "played")
                /\ last' = Wire(pkt.n)
                /\ pkt' = [n |-> NoFrame, red |-> {}]

\* A packet that is played, whose gap is dealt with as f says, and for which req
\* is asked.
LEMMA DeliverStep ==
  ASSUME DownInv, Decoding, NEW f \in [Frame -> Fates],
         Delivered(f),
         rtxArmed /\ ~twice => ~twice',
         UNCHANGED <<dial, base, staged, rtxArmed, dark>>,
         NEW req \in SUBSET Frame,
         Armed' = Armed \cup {Wire(n) : n \in req},
         \A n \in req : pending'[Wire(n)] = [age |-> 0, stream |-> dial],
         \A s \in Armed : s \notin {Wire(n) : n \in req} => pending'[s] = pending[s],
         pending' = [s \in Armed' |-> pending'[s]],
         dark # "no" => req = {},
         fate[pkt.n] = "none", f[pkt.n] = "none",
         \A n \in Frame : /\ fate[n] # "none" => f[n] = fate[n]
                          /\ n < pkt.n => f[n] # "none"
                          /\ n > pkt.n => f[n] = "none",
         \A n \in req : n < pkt.n /\ fate[n] = "none" /\ f[n] # "played",
         rtxArmed => /\ \A n \in Frame : f[n] = "deferred" /\ fate[n] = "none" => n \in req
                     /\ \A n \in req : f[n] = "deferred"
                     /\ IsFiniteSet(req) /\ Cardinality(Armed) + Cardinality(req) <= Slots
  PROVE  DownInv'
<1> DEFINE slots == {Wire(n) : n \in req}
<1>1. /\ fate' = FeedNow(f, {pkt.n}, "played") /\ last' = Wire(pkt.n)
      /\ pkt' = [n |-> NoFrame, red |-> {}]
  BY DEF Delivered
<1>2. pkt.n \in Frame /\ base \in SeqNr
  BY DEF Decoding, DownInv, LaneTyped
<1>3. \A n \in Frame : fate'[n] = IF n = pkt.n THEN "played" ELSE f[n]
  BY <1>1 DEF FeedNow
<1>4. \A n \in Frame : fate[n] # "none" => n # pkt.n /\ fate'[n] = fate[n]
  BY <1>3
<1>5. \A n \in Frame : Wire(n)' = Wire(n)
  BY DEF Wire
<1>6. LaneTyped'
  <2>1. pkt' \in [n : Frame \cup {NoFrame}, red : SUBSET Frame]
    BY <1>1
  <2>2. fate' \in [Frame -> Fates]
    BY <1>1 DEF FeedNow, Fates, Fed
  <2>3. Armed' \subseteq SeqNr
    BY <1>2, WireIs DEF DownInv, LaneTyped
  <2>4. ASSUME NEW s \in Armed'
        PROVE  pending'[s] \in [age : 0..(Wait + 1), stream : 1..dial']
    <3>1. CASE s \in slots
      <4>1. pending'[s] = [age |-> 0, stream |-> dial]
        BY <3>1
      <4>2. 0 \in 0..(Wait + 1) /\ dial \in 1..dial
        BY Bounds DEF DownInv, LaneTyped
      <4> QED
        BY <4>1, <4>2
    <3>2. CASE s \notin slots
      <4>1. s \in Armed /\ pending'[s] = pending[s]
        BY <3>2
      <4> QED
        BY <4>1 DEF DownInv, LaneTyped
    <3> QED
      BY <3>1, <3>2
  <2> QED
    BY <2>1, <2>2, <2>3, <2>4 DEF DownInv, LaneTyped
<1>7. Prefix'
  <2>1. fate'[pkt.n] = "played"
    BY <1>2, <1>3
  <2>2. \A n \in Frame : fate'[n] = "none" <=> n > pkt.n
    BY <1>2, <1>3 DEF Frame
  <2> QED
    BY <1>1, <1>2, <1>5, <2>1, <2>2 DEF Prefix, PlayedLast
<1>8. RequestsPassed'
  <2> SUFFICES ASSUME NEW s \in Armed', pending'[s].stream = dial'
               PROVE  \E n \in Frame : s = Wire(n)' /\ fate'[n] \notin {"none", "played"}
    BY DEF RequestsPassed
  <2>1. CASE s \in slots
    <3>1. PICK n \in req : s = Wire(n)
      BY <2>1
    <3>2. n # pkt.n /\ f[n] # "none" /\ f[n] # "played"
      BY <1>2 DEF Frame
    <3> QED
      BY <1>3, <1>5, <3>1, <3>2
  <2>2. CASE s \notin slots
    <3>1. s \in Armed /\ pending[s].stream = dial
      BY <2>2
    <3>2. PICK n \in Frame : s = Wire(n) /\ fate[n] \notin {"none", "played"}
      BY <3>1 DEF DownInv, RequestsPassed
    <3> QED
      BY <1>4, <1>5, <3>2
  <2> QED
    BY <2>1, <2>2
<1>9. StagedByChannel' /\ DrainedFirst' /\ staged = <<>>
  BY <1>1 DEF DownInv, StagedByChannel, DrainedFirst, Decoding
<1>10. DarkLaneIsQuiet'
  BY DEF DownInv, DarkLaneIsQuiet
<1>11. ASSUME rtxArmed PROVE Lane'
  <2>1. Lane
    BY <1>11 DEF DownInv, LaneHolds
  <2>2. ASSUME NEW s \in Armed'
        PROVE  /\ pending'[s].stream = dial'
               /\ \E n \in Frame : s = Wire(n)' /\ fate'[n] = "deferred"
    <3>1. CASE s \in slots
      <4>1. PICK n \in req : s = Wire(n)
        BY <3>1
      <4>2. n # pkt.n /\ f[n] = "deferred"
        BY <1>2, <1>11 DEF Frame
      <4> QED
        BY <1>3, <1>5, <4>1, <4>2
    <3>2. CASE s \notin slots
      <4>1. s \in Armed /\ pending'[s] = pending[s]
        BY <3>2
      <4>2. PICK n \in Frame : s = Wire(n) /\ fate[n] = "deferred"
        BY <2>1, <4>1 DEF Lane
      <4> QED
        BY <1>4, <1>5, <2>1, <4>1, <4>2 DEF Lane
    <3> QED
      BY <3>1, <3>2
  <2>3. ASSUME NEW n \in Frame, fate'[n] = "deferred" PROVE Wire(n)' \in Armed'
    <3>1. CASE fate[n] = "none"
      <4>1. n \in req
        BY <1>3, <1>11, <2>3, <3>1
      <4> QED
        BY <1>5, <4>1
    <3>2. CASE fate[n] # "none"
      <4>1. fate[n] = "deferred"
        BY <1>4, <2>3, <3>2
      <4>2. n \notin Spliced
        BY <1>9 DEF Spliced
      <4>3. Wire(n) \in Armed
        BY <2>1, <4>1, <4>2 DEF Lane
      <4> QED
        BY <1>5, <4>3
    <3> QED
      BY <3>1, <3>2
  <2>4. IsFiniteSet(Armed') /\ Cardinality(Armed') + Len(staged') <= Slots
    <3> DEFINE w == [n \in req |-> Wire(n)]
    <3>1. w \in Surjection(req, slots)
      BY DEF Surjection, Range
    <3>2. IsFiniteSet(slots) /\ Cardinality(slots) <= Cardinality(req)
      BY <1>11, <3>1, FS_Surjection
    <3>3. IsFiniteSet(Armed)
      BY <2>1 DEF Lane
    <3> HIDE DEF slots
    <3>4. /\ IsFiniteSet(Armed \cup slots)
          /\ Cardinality(Armed \cup slots) <= Cardinality(Armed) + Cardinality(slots)
      <4>1. /\ IsFiniteSet(Armed \cup slots) /\ IsFiniteSet(Armed \cap slots)
            /\ Cardinality(Armed \cup slots) =
                 Cardinality(Armed) + Cardinality(slots) - Cardinality(Armed \cap slots)
        <5>1. IsFiniteSet(Armed \cap slots)
          BY <3>3, FS_Intersection
        <5>2. /\ IsFiniteSet(Armed \cup slots)
              /\ Cardinality(Armed \cup slots) =
                   Cardinality(Armed) + Cardinality(slots)
                     - Cardinality(Armed \cap slots)
          BY <3>2, <3>3, FS_Union
        <5> QED
          BY <5>1, <5>2
      <4> QED
        BY <3>2, <3>3, <4>1, FS_CardinalityType
    <3>5. /\ Cardinality(Armed) \in Nat /\ Cardinality(slots) \in Nat
          /\ Cardinality(req) \in Nat /\ Cardinality(Armed \cup slots) \in Nat
      BY <1>11, <3>2, <3>3, <3>4, FS_CardinalityType
    <3>6. Armed' = Armed \cup slots /\ Len(staged') = 0
      BY <1>9 DEF slots
    <3>7. Cardinality(Armed) + Cardinality(req) <= Slots
      BY <1>11
    <3>8. Cardinality(Armed \cup slots) <= Slots
      BY <3>2, <3>4, <3>5, <3>7, Bounds
    <3>9. IsFiniteSet(Armed') /\ Cardinality(Armed') <= Slots
          /\ Cardinality(Armed') \in Nat
      BY <3>4, <3>5, <3>6, <3>8
    <3> QED
      BY <3>6, <3>9
  <2>5. ~twice'
    <3>1. ~twice
      BY <2>1, Zenon DEF Lane
    <3> QED
      BY <1>11, <3>1, Zenon
  <2>6. DOMAIN staged' = {}
    BY <1>9
  <2> QED
    BY <2>2, <2>3, <2>4, <2>5, <2>6 DEF Lane
<1>12. LaneHolds'
  BY <1>11 DEF LaneHolds
<1> QED
  BY <1>6, <1>7, <1>8, <1>9, <1>10, <1>12 DEF DownInv

\* With a channel, what is asked for is the oldest of the gap, and so what is
\* not concealed yet.
LEMMA GapPlan ==
  ASSUME DownInv, Decoding, NEW l \in Frame, PlayedLast(l),
         Delta(pkt.n) \in 1..MaxGap
  PROVE  /\ \A n \in Frame : n \in Missing <=> l < n /\ n < pkt.n
         /\ Requested \in SUBSET Missing /\ IsFiniteSet(Requested)
         /\ dark # "no" => Requested = {}
         /\ rtxArmed => /\ Deferred(Cardinality(Requested)) = Requested
                        /\ Cardinality(Armed) + Cardinality(Requested) <= Slots
<1>1. /\ pkt.n \in 0..LastFrame /\ l \in 0..LastFrame /\ base \in SeqNr
      /\ pkt.n \in Frame /\ LastFrame \in Nat
  BY Bounds DEF DownInv, LaneTyped, Decoding, Frame
<1>2. Delta(pkt.n) = pkt.n - l - 1
  BY <1>1, DeltaIs DEF PlayedLast
<1>3. l < pkt.n
  BY <1>1, <1>2
<1>4. ASSUME NEW n \in Frame PROVE n \in Missing <=> l < n /\ n < pkt.n
  <2>1. pkt.n - Delta(pkt.n) = l + 1 /\ n \in Nat
    BY <1>1, <1>2 DEF Frame
  <2> QED
    BY <1>1, <2>1 DEF Missing
<1>5. ASSUME NEW n \in Frame, NEW k \in Int
      PROVE  n < pkt.n - Delta(pkt.n) + k <=> n < l + 1 + k
  <2>1. pkt.n - Delta(pkt.n) + k = l + 1 + k
    BY <1>1, <1>2
  <2> QED
    BY <2>1
<1>6. Requested \in SUBSET Missing /\ Missing \subseteq 0..LastFrame
  BY DEF Requested, Armable, PlanGap, Missing, Frame
<1>7. IsFiniteSet(Requested)
  <2>1. IsFiniteSet(0..LastFrame)
    BY <1>1, FS_Interval
  <2> QED
    BY <1>6, <2>1, FS_Subset
<1>8. dark # "no" => Requested = {}
  BY DEF Requested
<1>9. ASSUME rtxArmed
      PROVE  /\ Deferred(Cardinality(Requested)) = Requested
             /\ Cardinality(Armed) + Cardinality(Requested) <= Slots
  <2> DEFINE c == Cardinality(Armed)
  <2>1. Lane
    BY <1>9 DEF DownInv, LaneHolds
  <2>2. c \in Nat /\ c <= Slots
    <3>1. Len(staged) \in Nat /\ Cardinality(Armed) + Len(staged) <= Slots
          /\ IsFiniteSet(Armed)
      BY <2>1 DEF Lane, DownInv, LaneTyped
    <3>2. Cardinality(Armed) \in Nat
      BY <3>1, FS_CardinalityType
    <3> QED
      BY <3>1, <3>2, Bounds
  <2>3. ASSUME NEW n \in Frame, n > l PROVE Wire(n) \notin Armed
    <3> SUFFICES ASSUME Wire(n) \in Armed PROVE FALSE
      OBVIOUS
    <3>1. PICK m \in Frame : Wire(n) = Wire(m) /\ fate[m] = "deferred"
      BY <2>1 DEF Lane
    <3>2. m = n
      BY <1>1, <3>1, WireInjective
    <3> QED
      BY <2>3, <3>1, <3>2 DEF PlayedLast
  <2>4. CASE Requested = {}
    <3>1. Cardinality(Requested) = 0
      BY <2>4, FS_EmptySet
    <3>2. Deferred(0) = {}
      <4> SUFFICES ASSUME NEW n \in Frame, n \in Missing,
                          n < pkt.n - Delta(pkt.n) + 0
                   PROVE  FALSE
        BY DEF Deferred, Missing
      <4>1. l < n /\ n < l + 1 + 0 /\ n \in Nat
        BY <1>4, <1>5 DEF Frame
      <4> QED
        BY <1>1, <4>1
    <3> QED
      BY <2>2, <2>4, <3>1, <3>2
  <2>5. CASE Requested # {}
    <3>1. Requested = Armable(PlanGap) /\ Delta(pkt.n) >= MinGap
      <4>1. Requested = Armable(PlanGap)
        BY <2>5 DEF Requested
      <4>2. PlanGap # {}
        BY <2>5, <4>1 DEF Armable
      <4>3. ~(Delta(pkt.n) < MinGap)
        BY <4>2 DEF PlanGap
      <4> QED
        BY <1>1, <1>2, <4>1, <4>3, Bounds
    <3>2. ~(Delta(pkt.n) < MinGap)
      BY <1>1, <1>2, <3>1, Bounds
    <3>3. \A n \in Frame : n \in PlanGap <=> l < n /\ n < pkt.n /\ n < l + 1 + MaxSeqs
      <4>1. PlanGap = {n \in Missing : n < pkt.n - Delta(pkt.n) + MaxSeqs}
        BY <3>2 DEF PlanGap
      <4>2. MaxSeqs \in Int
        BY Bounds
      <4> QED
        BY <1>4, <1>5, <4>1, <4>2
    <3>4. PlanGap \subseteq Frame
      BY DEF PlanGap, Missing
    <3>5. ASSUME NEW n \in PlanGap
          PROVE  Cardinality({m \in PlanGap : m < n /\ Wire(m) \notin Armed}) = n - 1 - l
      <4>1. n \in Frame /\ l < n /\ n < pkt.n /\ n < l + 1 + MaxSeqs
            /\ n \in 0..LastFrame
        BY <3>3, <3>4 DEF Frame
      <4>2. {m \in PlanGap : m < n /\ Wire(m) \notin Armed} = (l + 1)..(n - 1)
        <5>1. ASSUME NEW m \in PlanGap, m < n PROVE m \in (l + 1)..(n - 1)
          <6>1. m \in 0..LastFrame /\ l < m
            BY <3>3, <3>4 DEF Frame
          <6> QED
            BY <1>1, <4>1, <5>1, <6>1
        <5>2. ASSUME NEW m \in (l + 1)..(n - 1)
              PROVE  m \in PlanGap /\ m < n /\ Wire(m) \notin Armed
          <6>1. m \in Frame /\ l < m /\ m < pkt.n /\ m < l + 1 + MaxSeqs /\ m < n
            BY <1>1, <4>1, Bounds DEF Frame
          <6> QED
            BY <1>1, <2>3, <3>3, <6>1 DEF Frame
        <5> QED
          BY <5>1, <5>2
      <4>3. l + 1 \in Int /\ n - 1 \in Int /\ l + 1 <= n
        BY <1>1, <4>1
      <4>4. Cardinality((l + 1)..(n - 1)) = n - 1 - l
        <5>1. Cardinality((l + 1)..(n - 1)) =
                IF l + 1 > n - 1 THEN 0 ELSE (n - 1) - (l + 1) + 1
          BY <4>3, FS_Interval
        <5> QED
          BY <1>1, <4>1, <5>1
      <4> QED
        BY <4>2, <4>4
    <3>6. \A n \in Frame : n \in Requested <=>
            l < n /\ n < pkt.n /\ n < l + 1 + MaxSeqs /\ c + (n - 1 - l) < Slots
      <4>1. ASSUME NEW n \in PlanGap
            PROVE  n \in Requested <=> c + (n - 1 - l) < Slots
        <5>1. Wire(n) \notin Armed
          BY <1>1, <2>3, <3>3, <3>4 DEF Frame
        <5> QED
          BY <3>1, <3>5, <5>1 DEF Armable
      <4>2. Requested \subseteq PlanGap
        BY <3>1 DEF Armable
      <4> QED
        BY <3>3, <4>1, <4>2
    <3>7. PICK top \in Int :
            /\ top <= pkt.n - 1 /\ top <= l + MaxSeqs /\ top <= l + Slots - c
            /\ top \in {pkt.n - 1, l + MaxSeqs, l + Slots - c}
      <4>1. pkt.n - 1 \in Int /\ l + MaxSeqs \in Int /\ l + Slots - c \in Int
        BY <1>1, <2>2, Bounds
      <4>2. \A x, y, z \in Int : \E top \in Int :
              top <= x /\ top <= y /\ top <= z /\ top \in {x, y, z}
        OBVIOUS
      <4> QED
        BY <4>1, <4>2
    <3> HIDE DEF c
    <3>8. Requested = (l + 1)..top
      <4>1. ASSUME NEW n \in Requested PROVE n \in (l + 1)..top
        <5>1. n \in Frame /\ n \in 0..LastFrame
          BY <1>6 DEF Missing, Frame
        <5>2. l < n /\ n < pkt.n /\ n < l + 1 + MaxSeqs /\ c + (n - 1 - l) < Slots
          BY <3>6, <5>1
        <5> QED
          BY <1>1, <2>2, <3>7, <5>1, <5>2, Bounds
      <4>2. ASSUME NEW n \in (l + 1)..top PROVE n \in Requested
        <5>1. n \in Frame
          BY <1>1, <3>7 DEF Frame
        <5>2. l < n /\ n < pkt.n /\ n < l + 1 + MaxSeqs /\ c + (n - 1 - l) < Slots
          BY <1>1, <2>2, <3>7, Bounds
        <5> QED
          BY <3>6, <5>1, <5>2
      <4> QED
        BY <4>1, <4>2
    <3>9. Cardinality(Requested) = top - l /\ l + 1 <= top
      <4>1. Cardinality((l + 1)..top) = IF l + 1 > top THEN 0 ELSE top - (l + 1) + 1
        <5>1. l + 1 \in Int
          BY <1>1
        <5> QED
          BY <3>7, <5>1, FS_Interval
      <4>2. l + 1 <= top
        BY <1>1, <2>5, <3>7, <3>8
      <4> QED
        BY <1>1, <3>7, <3>8, <4>1, <4>2
    <3>10. ASSUME NEW n \in Frame
           PROVE  n \in Deferred(top - l) <=> n \in Requested
      <4>1. top - l \in Int /\ n \in Nat
        BY <1>1, <3>7 DEF Frame
      <4>2. n \in Deferred(top - l) <=> n \in Missing /\ n < l + 1 + (top - l)
        BY <1>5, <4>1 DEF Deferred
      <4> QED
        BY <1>1, <1>4, <3>7, <3>8, <4>1, <4>2
    <3>11. Deferred(top - l) \subseteq Frame /\ Requested \subseteq Frame
      BY <1>6 DEF Deferred, Missing
    <3>12. Deferred(Cardinality(Requested)) = Requested
      BY <3>9, <3>10, <3>11
    <3> QED
      BY <1>1, <2>2, <3>7, <3>9, <3>12, Bounds DEF c
  <2> QED
    BY <2>4, <2>5
<1> QED
  BY <1>4, <1>6, <1>7, <1>8, <1>9

\* A packet that asks for nothing.
LEMMA PlainDeliver ==
  ASSUME DownInv, Decoding, NEW f \in [Frame -> Fates], Deliver(f, twice),
         UNCHANGED <<dial, base, pending, staged, rtxArmed, dark>>,
         fate[pkt.n] = "none", f[pkt.n] = "none",
         \A n \in Frame : /\ fate[n] # "none" => f[n] = fate[n]
                          /\ n < pkt.n => f[n] # "none"
                          /\ n > pkt.n => f[n] = "none"
                          /\ f[n] = "deferred" => fate[n] # "none"
  PROVE  DownInv'
<1> DEFINE req == {}
<1>1. /\ req \in SUBSET Frame /\ IsFiniteSet(req) /\ Cardinality(req) = 0
      /\ {Wire(n) : n \in req} = {}
  BY FS_EmptySet
<1>2. Armed' = Armed /\ pending' = [s \in Armed' |-> pending'[s]]
  BY DEF Armed, DownInv, LaneTyped
<1>3. rtxArmed => Cardinality(Armed) + Cardinality(req) <= Slots
  <2> SUFFICES ASSUME rtxArmed PROVE Cardinality(Armed) + 0 <= Slots
    BY <1>1
  <2>1. /\ IsFiniteSet(Armed) /\ Cardinality(Armed) + Len(staged) <= Slots
        /\ Len(staged) \in Nat
    BY DEF DownInv, LaneHolds, Lane, LaneTyped
  <2> QED
    BY <2>1, FS_CardinalityType, Bounds
<1>4. /\ Armed' = Armed \cup {Wire(n) : n \in req}
      /\ \A n \in req : pending'[Wire(n)] = [age |-> 0, stream |-> dial]
      /\ \A s \in Armed : s \notin {Wire(n) : n \in req} => pending'[s] = pending[s]
      /\ dark # "no" => req = {}
      /\ \A n \in req : n < pkt.n /\ fate[n] = "none" /\ f[n] # "played"
      /\ \A n \in Frame : f[n] = "deferred" /\ fate[n] = "none" => n \in req
      /\ \A n \in req : f[n] = "deferred"
  BY <1>1, <1>2
<1>5. Delivered(f)
  BY Zenon DEF Deliver, Delivered
<1>6. ~twice => ~twice'
  <2>1. f[pkt.n] \notin Fed
    BY DEF Fed
  <2> QED
    BY <2>1, Zenon DEF Deliver
<1> HIDE DEF req
<1> QED
  BY <1>1, <1>2, <1>3, <1>4, <1>5, <1>6, DeliverStep

\* The last packet's frame, and where this one stands to it.
LEMMA StandsAfter ==
  ASSUME DownInv, Decoding, last # NoSeq
  PROVE  \E l \in Frame : PlayedLast(l) /\ Delta(pkt.n) = pkt.n - l - 1
<1>1. PICK l \in Frame : PlayedLast(l)
  BY DEF DownInv, Prefix
<1>2. pkt.n \in Frame
  BY DEF DownInv, LaneTyped, Decoding
<1>3. Delta(pkt.n) = pkt.n - l - 1
  BY <1>1, <1>2, DeltaIs DEF PlayedLast, DownInv, LaneTyped
<1> QED
  BY <1>1, <1>3

\* The first packet of a stream keeps the invariant.
LEMMA DecodeFirstStep == ASSUME DownInv, DecodeFirst PROVE DownInv'
<1> DEFINE f == [n \in Frame |-> IF n < pkt.n THEN "skipped" ELSE fate[n]]
<1>1. \A n \in Frame : fate[n] = "none"
  <2>1. \A l \in Frame : Wire(l) # NoSeq
    BY WireIs DEF DownInv, LaneTyped, SeqNr, NoSeq
  <2> QED
    BY <2>1 DEF DownInv, Prefix, PlayedLast, DecodeFirst
<1>2. pkt.n \in Frame /\ Decoding /\ pkt.n \in Nat
  BY DEF DownInv, LaneTyped, DecodeFirst, Decoding, Frame
<1>3. f \in [Frame -> Fates]
  BY <1>1 DEF Fates
<1>4. f[pkt.n] = "none" /\ fate[pkt.n] = "none"
  BY <1>1, <1>2
<1>5. \A n \in Frame : /\ fate[n] # "none" => f[n] = fate[n]
                       /\ n < pkt.n => f[n] # "none"
                       /\ n > pkt.n => f[n] = "none"
                       /\ f[n] = "deferred" => fate[n] # "none"
  BY <1>1, <1>2 DEF Frame
<1>6. Deliver(f, twice)
  BY Zenon DEF DecodeFirst
<1>7. UNCHANGED <<dial, base, pending, staged, rtxArmed, dark>>
  BY DEF DecodeFirst, netVars, effectVars
<1> HIDE DEF f
<1> QED
  BY <1>2, <1>3, <1>4, <1>5, <1>6, <1>7, PlainDeliver

\* The packet that was expected keeps the invariant.
LEMMA DecodeNextStep == ASSUME DownInv, DecodeNext PROVE DownInv'
<1>1. PICK l \in Frame : PlayedLast(l) /\ Delta(pkt.n) = pkt.n - l - 1
  BY StandsAfter DEF DecodeNext
<1>2. pkt.n \in Frame /\ Decoding /\ pkt.n \in Nat /\ l \in Nat
  BY DEF DownInv, LaneTyped, DecodeNext, Decoding, Frame
<1>3. pkt.n = l + 1
  BY <1>1, <1>2 DEF DecodeNext
<1>4. fate \in [Frame -> Fates]
  BY DEF DownInv, LaneTyped
<1>5. \A n \in Frame : n \in Nat /\ (fate[n] = "none" <=> n > l)
  BY <1>1 DEF PlayedLast, Frame
<1>6. fate[pkt.n] = "none"
  BY <1>2, <1>3, <1>5
<1>7. \A n \in Frame : /\ n < pkt.n => fate[n] # "none"
                       /\ n > pkt.n => fate[n] = "none"
                       /\ fate[n] = "deferred" => fate[n] # "none"
  BY <1>2, <1>3, <1>5
<1>8. Deliver(fate, twice)
  BY Zenon DEF DecodeNext
<1>9. UNCHANGED <<dial, base, pending, staged, rtxArmed, dark>>
  BY DEF DecodeNext, netVars, effectVars
<1> QED
  BY <1>2, <1>4, <1>6, <1>7, <1>8, <1>9, PlainDeliver

\* Resynchronising past a long hole keeps the invariant.
LEMMA DecodeResyncStep == ASSUME DownInv, DecodeResync PROVE DownInv'
<1> DEFINE f == [n \in Frame |-> IF n < pkt.n /\ fate[n] = "none"
                                THEN "skipped" ELSE fate[n]]
<1>1. PICK l \in Frame : PlayedLast(l) /\ Delta(pkt.n) = pkt.n - l - 1
  BY StandsAfter DEF DecodeResync
<1>2. pkt.n \in Frame /\ Decoding /\ pkt.n \in Nat /\ l \in Nat
  BY DEF DownInv, LaneTyped, DecodeResync, Decoding, Frame
<1>3. pkt.n > l
  BY <1>1, <1>2, Bounds DEF DecodeResync
<1>4. \A n \in Frame : n \in Nat /\ (fate[n] = "none" <=> n > l)
  BY <1>1 DEF PlayedLast, Frame
<1>5. f \in [Frame -> Fates]
  BY DEF Fates, DownInv, LaneTyped
<1>6. f[pkt.n] = "none" /\ fate[pkt.n] = "none"
  BY <1>2, <1>3, <1>4
<1>7. \A n \in Frame : /\ fate[n] # "none" => f[n] = fate[n]
                       /\ n < pkt.n => f[n] # "none"
                       /\ n > pkt.n => f[n] = "none"
                       /\ f[n] = "deferred" => fate[n] # "none"
  BY <1>2, <1>3, <1>4
<1>8. Deliver(f, twice)
  BY Zenon DEF DecodeResync
<1>9. UNCHANGED <<dial, base, pending, staged, rtxArmed, dark>>
  BY DEF DecodeResync, netVars, effectVars
<1> HIDE DEF f
<1> QED
  BY <1>2, <1>5, <1>6, <1>7, <1>8, <1>9, PlainDeliver

\* Dropping a late packet keeps the invariant.
LEMMA DecodeLateStep == ASSUME DownInv, DecodeLate PROVE DownInv'
<1>1. UNCHANGED <<dial, base, last, pending, staged, rtxArmed, fate, twice, dark>>
  BY DEF DecodeLate, netVars, effectVars, ghostVars
<1>2. pkt' \in [n : Frame \cup {NoFrame}, red : SUBSET Frame] /\ Decoding
  BY DEF DecodeLate
<1>3. dark \in {"no", "dark", "due"}
  BY DEF DownInv, LaneTyped
<1> QED
  BY <1>1, <1>2, <1>3, Unmoved

\* Requesting, recovering and concealing a gap keep the invariant.
LEMMA DecodeGapStep == ASSUME DownInv, DecodeGap PROVE DownInv'
<1> DEFINE req    == Requested
           later  == Deferred(Cardinality(req))
           now    == Missing \ later
           f == FeedNow(FeedNow(FeedNow(fate, later, "deferred"),
                                Recoverable(now), "red"),
                        now \ Recoverable(now), "plc")
           slots  == {Wire(n) : n \in req}
           t == twice \/ FedAlready(fate, Missing)
<1>1. PICK l \in Frame : PlayedLast(l) /\ Delta(pkt.n) = pkt.n - l - 1
  BY StandsAfter DEF DecodeGap
<1>2. /\ pkt.n \in Frame /\ Decoding /\ pkt.n \in Nat /\ l \in Nat
      /\ Delta(pkt.n) \in 1..MaxGap
  BY DEF DownInv, LaneTyped, DecodeGap, Decoding, Frame
<1>3. pkt.n > l
  BY <1>1, <1>2, Bounds
<1>4. /\ \A n \in Frame : n \in Missing <=> l < n /\ n < pkt.n
      /\ req \in SUBSET Missing /\ IsFiniteSet(req)
      /\ dark # "no" => req = {}
      /\ rtxArmed => /\ later = req
                     /\ Cardinality(Armed) + Cardinality(req) <= Slots
  BY <1>1, <1>2, GapPlan
<1>5. \A n \in Frame : n \in Nat /\ (fate[n] = "none" <=> n > l)
  BY <1>1 DEF PlayedLast, Frame
<1>6. Missing \subseteq Frame /\ later \subseteq Missing
  BY DEF Missing, Deferred
<1>7. \A n \in Frame : f[n] = IF n \in later THEN "deferred"
                              ELSE IF n \in Recoverable(now) THEN "red"
                              ELSE IF n \in Missing THEN "plc" ELSE fate[n]
  <2>1. \A n \in Frame :
          f[n] = IF n \in now \ Recoverable(now) THEN "plc"
                 ELSE IF n \in Recoverable(now) THEN "red"
                 ELSE IF n \in later THEN "deferred" ELSE fate[n]
    BY DEF FeedNow
  <2>2. Recoverable(now) \subseteq now
    BY DEF Recoverable
  <2> QED
    BY <1>6, <2>1, <2>2
<1>8. Recoverable(now) \subseteq Missing
  BY DEF Recoverable
<1>9. f \in [Frame -> Fates]
  <2>1. f = [n \in Frame |-> f[n]]
    BY DEF FeedNow
  <2>2. \A n \in Frame : f[n] \in Fates
    BY <1>7 DEF Fates, Fed, DownInv, LaneTyped
  <2> HIDE DEF f
  <2> QED
    BY <2>1, <2>2
<1>10. /\ pending' = [s \in Armed \cup slots |->
                        IF s \in slots THEN [age |-> 0, stream |-> dial] ELSE pending[s]]
       /\ UNCHANGED <<dial, base, staged, rtxArmed, dark>>
  BY DEF DecodeGap, netVars
<1>11. Deliver(f, t)
  BY Zenon DEF DecodeGap
<1>12. /\ Armed' = Armed \cup slots
       /\ \A n \in req : pending'[Wire(n)] = [age |-> 0, stream |-> dial]
       /\ \A s \in Armed : s \notin slots => pending'[s] = pending[s]
       /\ pending' = [s \in Armed' |-> pending'[s]]
  BY <1>10 DEF Armed
<1> HIDE DEF req, later, now, f, slots, t
<1>13. f[pkt.n] = "none" /\ fate[pkt.n] = "none"
  <2>1. pkt.n \notin Missing
    BY <1>2, <1>4
  <2>2. f[pkt.n] = fate[pkt.n]
    BY <1>2, <1>6, <1>7, <1>8, <2>1
  <2> QED
    BY <1>2, <1>3, <1>5, <2>2
<1>14. \A n \in Frame : /\ fate[n] # "none" => f[n] = fate[n]
                        /\ n < pkt.n => f[n] # "none"
                        /\ n > pkt.n => f[n] = "none"
  <2> SUFFICES ASSUME NEW n \in Frame
               PROVE  /\ fate[n] # "none" => f[n] = fate[n]
                      /\ n < pkt.n => f[n] # "none"
                      /\ n > pkt.n => f[n] = "none"
    OBVIOUS
  <2>1. CASE n \in Missing
    <3>1. l < n /\ n < pkt.n /\ fate[n] = "none" /\ n \in Nat
      BY <1>4, <1>5, <2>1
    <3> QED
      BY <1>2, <1>7, <2>1, <3>1
  <2>2. CASE n \notin Missing
    <3>1. f[n] = fate[n]
      BY <1>6, <1>7, <1>8, <2>2
    <3> QED
      BY <1>2, <1>3, <1>4, <1>5, <2>2, <3>1
  <2> QED
    BY <2>1, <2>2
<1>15. \A n \in req : n < pkt.n /\ fate[n] = "none" /\ f[n] # "played"
  <2> SUFFICES ASSUME NEW n \in req
               PROVE  n < pkt.n /\ fate[n] = "none" /\ f[n] # "played"
    OBVIOUS
  <2>1. n \in Frame /\ n \in Missing
    BY <1>4, <1>6
  <2>2. l < n /\ n < pkt.n /\ fate[n] = "none"
    BY <1>4, <1>5, <2>1
  <2> QED
    BY <1>7, <2>1, <2>2
<1>16. ASSUME rtxArmed
       PROVE  /\ \A n \in Frame : f[n] = "deferred" /\ fate[n] = "none" => n \in req
              /\ \A n \in req : f[n] = "deferred"
              /\ Cardinality(Armed) + Cardinality(req) <= Slots
  BY <1>4, <1>6, <1>7, <1>16
<1>17. ~twice => ~twice'
  <2>1. ~FedAlready(fate, Missing)
    BY <1>4, <1>5, <1>6 DEF FedAlready, Fed
  <2>2. ~twice => ~t
    BY <2>1, Zenon DEF t
  <2>3. f[pkt.n] \notin Fed
    BY <1>13 DEF Fed
  <2> QED
    BY <1>11, <2>2, <2>3, Zenon DEF Deliver
<1>20. Delivered(f)
  BY <1>11, Zenon DEF Deliver, Delivered
<1>18. Armed' = Armed \cup {Wire(n) : n \in req}
       /\ \A s \in Armed : s \notin {Wire(n) : n \in req} => pending'[s] = pending[s]
  BY <1>12 DEF slots
<1>19. req \in SUBSET Frame
  BY <1>4, <1>6
<1> QED
  BY <1>2, <1>4, <1>9, <1>10, <1>12, <1>13, <1>14, <1>15, <1>16, <1>17,
     <1>18, <1>19, <1>20, DeliverStep

-----------------------------------------------------------------------------
(* The channel, time and the re-dial.                                       *)

\* Arming the channel empties table and queue, and so keeps the invariant.
LEMMA TryArmChannelStep == ASSUME DownInv, TryArmChannel PROVE DownInv'
<1>1. /\ UNCHANGED <<dial, base, last, pkt>> /\ dark' = "no"
      /\ pending' = <<>> /\ staged' = <<>> /\ twice' = FALSE
      /\ fate' = [n \in Frame |-> IF fate[n] = "deferred" THEN "moot" ELSE fate[n]]
  BY DEF TryArmChannel, RegisterSender
<1>2. Armed' = {} /\ DOMAIN staged' = {} /\ Len(staged') = 0
  BY <1>1 DEF Armed
<1>3. LaneTyped'
  <2>1. pending' \in [Armed' -> [age : 0..(Wait + 1), stream : 1..dial']]
    BY <1>1 DEF Armed
  <2>2. staged' \in Seq([stream : 1..dial', n : Frame])
    BY <1>1
  <2>3. fate' \in [Frame -> Fates]
    BY <1>1 DEF DownInv, LaneTyped, Fates
  <2> QED
    BY <1>1, <1>2, <2>1, <2>2, <2>3 DEF DownInv, LaneTyped
<1>4. Prefix'
  <2>1. \A n \in Frame : /\ fate'[n] = "none" <=> fate[n] = "none"
                         /\ fate[n] = "played" => fate'[n] = "played"
    BY <1>1
  <2> QED
    BY <1>1, <2>1 DEF DownInv, Prefix, PlayedLast, Wire
<1>5. RequestsPassed' /\ StagedByChannel' /\ DrainedFirst' /\ DarkLaneIsQuiet'
  BY <1>1, <1>2 DEF RequestsPassed, StagedByChannel, DrainedFirst, DarkLaneIsQuiet
<1>6. Lane'
  <2>1. \A n \in Frame : fate'[n] # "deferred"
    BY <1>1
  <2>2. IsFiniteSet(Armed') /\ Cardinality(Armed') + Len(staged') <= Slots
    BY <1>2, FS_EmptySet, Bounds
  <2> QED
    BY <1>1, <1>2, <2>1, <2>2 DEF Lane
<1> QED
  BY <1>3, <1>4, <1>5, <1>6 DEF DownInv, LaneHolds

\* The passing of time only makes requests older.
LEMMA OneUnitStep == ASSUME DownInv, OneUnit PROVE DownInv'
<1>1. /\ UNCHANGED <<dial, base, last, pkt, staged, rtxArmed, dark, fate, twice>>
      /\ pending' = [s \in Armed |->
                       IF pending[s].age <= Wait
                       THEN [pending[s] EXCEPT !.age = @ + 1] ELSE pending[s]]
  BY DEF OneUnit, netVars, effectVars, ghostVars
<1>2. Armed' = Armed
  BY <1>1 DEF Armed
<1>3. ASSUME NEW s \in Armed
      PROVE  /\ pending'[s] \in [age : 0..(Wait + 1), stream : 1..dial]
             /\ pending'[s].stream = pending[s].stream
  <2>1. pending[s] \in [age : 0..(Wait + 1), stream : 1..dial] /\ Wait \in Nat
    BY <1>3, Bounds DEF DownInv, LaneTyped
  <2> QED
    BY <1>1, <2>1
<1>4. LaneTyped'
  <2>1. pending' \in [Armed' -> [age : 0..(Wait + 1), stream : 1..dial']]
    BY <1>1, <1>2, <1>3
  <2> QED
    BY <1>1, <1>2, <2>1 DEF DownInv, LaneTyped
<1>5. Prefix' /\ RequestsPassed'
  BY <1>1, <1>2, <1>3 DEF DownInv, Prefix, PlayedLast, RequestsPassed, Wire
<1>6. StagedByChannel' /\ DrainedFirst' /\ DarkLaneIsQuiet'
  BY <1>1, <1>2 DEF DownInv, StagedByChannel, DrainedFirst, DarkLaneIsQuiet, Decoding
<1>7. Lane => Lane'
  BY <1>1, <1>2, <1>3 DEF Lane, Wire, Spliced
<1> QED
  BY <1>1, <1>4, <1>5, <1>6, <1>7 DEF DownInv, LaneHolds

\* Requests and retransmissions of the stream before are of no stream that counts.
LEMMA RedialStep == ASSUME DownInv, Redial PROVE DownInv'
<1>1. /\ UNCHANGED <<pkt, pending, staged, dark>> /\ dial < Dials
      /\ dial' = dial + 1 /\ base' \in Bases /\ last' = NoSeq
      /\ rtxArmed' = FALSE /\ fate' = [n \in Frame |-> "none"]
  BY DEF Redial, SeqTableForgotten, effectVars
<1>2. Armed' = Armed /\ Dials \in Nat /\ Bases \subseteq SeqNr
  BY <1>1, DownlinkBounds DEF Armed, SeqNr
<1>3. dial' \in 1..Dials /\ 1..dial \subseteq 1..dial' /\ dial' \notin 1..dial
  BY <1>1, <1>2 DEF DownInv, LaneTyped
<1>4. /\ \A s \in Armed : pending[s].stream # dial'
      /\ \A i \in DOMAIN staged : staged[i].stream # dial'
  <2>1. \A i \in DOMAIN staged : staged[i] \in [stream : 1..dial, n : Frame]
    <3> DEFINE S == [stream : 1..dial, n : Frame]
    <3>1. staged \in Seq(S)
      BY DEF DownInv, LaneTyped
    <3> HIDE DEF S
    <3>2. DOMAIN staged = 1..Len(staged)
      BY <3>1
    <3>3. \A i \in DOMAIN staged : staged[i] \in S
      BY <3>1, <3>2, ElementOfSeq
    <3> QED
      BY <3>3 DEF S
  <2> QED
    BY <1>3, <2>1 DEF DownInv, LaneTyped
<1>5. LaneTyped'
  <2>1. pending' \in [Armed' -> [age : 0..(Wait + 1), stream : 1..dial']]
    <3>1. \A s \in Armed : pending[s] \in [age : 0..(Wait + 1), stream : 1..dial']
      BY <1>3 DEF DownInv, LaneTyped
    <3> QED
      BY <1>1, <1>2, <3>1 DEF DownInv, LaneTyped
  <2>2. staged' \in Seq([stream : 1..dial', n : Frame])
    <3> DEFINE old == [stream : 1..dial, n : Frame]
               new == [stream : 1..dial', n : Frame]
    <3>1. old \subseteq new
      BY <1>3
    <3>2. staged \in Seq(old)
      BY DEF DownInv, LaneTyped
    <3> HIDE DEF old, new
    <3>3. staged \in Seq(new)
      BY <3>1, <3>2
    <3> QED
      BY <1>1, <3>3 DEF new
  <2>3. fate' \in [Frame -> Fates]
    BY <1>1 DEF Fates
  <2> QED
    BY <1>1, <1>2, <1>3, <2>1, <2>2, <2>3 DEF DownInv, LaneTyped
<1>6. Prefix'
  BY <1>1 DEF Prefix
<1>7. RequestsPassed' /\ StagedByChannel' /\ LaneHolds'
  BY <1>1, <1>2, <1>4 DEF RequestsPassed, StagedByChannel, LaneHolds
<1>8. DrainedFirst' /\ DarkLaneIsQuiet'
  BY <1>1, <1>2 DEF DownInv, DrainedFirst, DarkLaneIsQuiet, Decoding
<1> QED
  BY <1>5, <1>6, <1>7, <1>8 DEF DownInv

\* A retransmission finds its frame put off and still in the table, and leaves
\* the table: for the queue in its window, for good after it.
LEMMA RtxArrivesStep ==
  ASSUME DownInv, NEW n \in Frame, RtxArrives(n), FeedRtx(n) PROVE DownInv'
<1> DEFINE s     == Wire(n)
           hit   == s \in Armed /\ InWindow(s)
           entry == [stream |-> dial, n |-> n]
<1>1. /\ UNCHANGED <<dial, base, last, pkt, rtxArmed, twice>> /\ rtxArmed /\ Idle
      /\ pending' = Keep(Armed \ {s})
      /\ staged' = IF hit /\ Len(staged) < Slots THEN Append(staged, entry) ELSE staged
      /\ fate' = IF s \in Armed /\ ~hit THEN [fate EXCEPT ![n] = "lost"] ELSE fate
  BY DEF RtxArrives, FeedRtx, Take, netVars
<1>2. Lane /\ LaneTyped
  BY <1>1 DEF DownInv, LaneHolds
<1>3. Armed' = Armed \ {s} /\ \A q \in Armed' : pending'[q] = pending[q]
  BY <1>1 DEF Armed, Keep
<1>4. s \in Armed => fate[n] = "deferred"
  <2> SUFFICES ASSUME s \in Armed PROVE fate[n] = "deferred"
    OBVIOUS
  <2>1. PICK m \in Frame : s = Wire(m) /\ fate[m] = "deferred"
    BY <1>2 DEF Lane
  <2>2. m = n
    BY <1>2, <2>1, WireInjective DEF LaneTyped
  <2> QED
    BY <2>1, <2>2
<1>5. \A m \in Frame : /\ m # n => fate'[m] = fate[m]
                       /\ \/ fate'[m] = fate[m]
                          \/ fate[m] = "deferred" /\ fate'[m] = "lost"
  BY <1>1, <1>2, <1>4 DEF LaneTyped
<1>6. \A m \in Frame : Wire(m)' = Wire(m)
  BY <1>1 DEF Wire
<1>7. dark' \in {"no", "dark", "due"} /\ (dark' # "no" => dark # "no" \/ Armed' = {})
  <2>1. \E r : Breaker(Armed \ {s}, sent, r, outage)
    BY DEF FeedRtx, Take
  <2> QED
    BY <1>2, <1>3, <2>1, BreakerStep DEF LaneTyped
<1>9. /\ staged \in Seq([stream : 1..dial, n : Frame])
      /\ entry \in [stream : 1..dial, n : Frame]
  BY <1>2 DEF LaneTyped
<1>10. /\ IsFiniteSet(Armed) /\ Cardinality(Armed) \in Nat /\ Len(staged) \in Nat
       /\ Cardinality(Armed) + Len(staged) <= Slots
       /\ s \in Armed => Cardinality(Armed \ {s}) = Cardinality(Armed) - 1
       /\ IsFiniteSet(Armed \ {s})
       /\ s \in Armed => Cardinality(Armed) # 0
  <2>1. /\ IsFiniteSet(Armed) /\ Cardinality(Armed) + Len(staged) <= Slots
        /\ Len(staged) \in Nat
    BY <1>2, <1>9 DEF Lane
  <2>2. Cardinality(Armed) \in Nat
    BY <2>1, FS_CardinalityType
  <2>3. IsFiniteSet(Armed \ {s})
        /\ Cardinality(Armed \ {s}) =
             IF s \in Armed THEN Cardinality(Armed) - 1 ELSE Cardinality(Armed)
    BY <2>1, FS_RemoveElement
  <2>4. s \in Armed => Cardinality(Armed) # 0
    BY <2>1, FS_EmptySet
  <2> QED
    BY <2>1, <2>2, <2>3, <2>4
<1> HIDE DEF entry
<1>11. hit => staged' = Append(staged, entry)
  BY <1>1, <1>10, Bounds
<1>12. CASE hit
  <2>1. s \in Armed /\ staged' = Append(staged, entry) /\ fate' = fate
    BY <1>1, <1>11, <1>12
  <2> HIDE DEF hit
  <2>2. /\ staged' \in Seq([stream : 1..dial, n : Frame])
        /\ Len(staged') = Len(staged) + 1
        /\ DOMAIN staged' = 1..(Len(staged) + 1) /\ DOMAIN staged = 1..Len(staged)
        /\ \A i \in DOMAIN staged : i \in DOMAIN staged' /\ staged'[i] = staged[i]
        /\ staged'[Len(staged) + 1] = entry /\ Len(staged) + 1 \in DOMAIN staged'
        /\ \A i \in DOMAIN staged' : i \in DOMAIN staged \/ staged'[i] = entry
    <3> DEFINE S == [stream : 1..dial, n : Frame]
    <3>1. staged \in Seq(S) /\ entry \in S
      BY <1>9
    <3> HIDE DEF S
    <3>2. /\ Append(staged, entry) \in Seq(S) /\ Len(staged') = Len(staged) + 1
          /\ DOMAIN staged' = 1..(Len(staged) + 1) /\ DOMAIN staged = 1..Len(staged)
          /\ \A i \in 1..Len(staged) : staged'[i] = staged[i]
          /\ staged'[Len(staged) + 1] = entry /\ Len(staged) \in Nat
      BY <2>1, <3>1
    <3> QED
      BY <2>1, <3>2 DEF S
  <2>3. Spliced \subseteq Spliced' /\ n \in Spliced'
    BY <1>1, <2>2 DEF Spliced, entry
  <2>4. LaneTyped'
    BY <1>1, <1>2, <1>3, <1>7, <2>1, <2>2 DEF LaneTyped, Keep
  <2>5. Lane'
    <3>1. \A i \in DOMAIN staged' : /\ staged'[i].stream = dial'
                                    /\ fate'[staged'[i].n] = "deferred"
                                    /\ Wire(staged[i].n)' \notin Armed'
      <4> SUFFICES ASSUME NEW i \in DOMAIN staged'
                   PROVE  /\ staged'[i].stream = dial
                          /\ fate[staged'[i].n] = "deferred"
                          /\ Wire(staged'[i].n) \notin Armed'
        BY <1>1, <1>2, <2>1 DEF Wire
      <4>1. CASE i \in DOMAIN staged
        BY <1>2, <1>3, <2>2, <4>1 DEF Lane
      <4>2. CASE staged'[i] = entry
        BY <1>3, <1>4, <2>1, <4>2 DEF entry
      <4> QED
        BY <2>2, <4>1, <4>2
    <3>2. ASSUME NEW q \in Armed'
          PROVE  /\ pending'[q].stream = dial'
                 /\ \E m \in Frame : q = Wire(m)' /\ fate'[m] = "deferred"
      <4>1. q \in Armed /\ pending'[q] = pending[q]
        BY <1>3
      <4>2. PICK m \in Frame : q = Wire(m) /\ fate[m] = "deferred"
        BY <1>2, <4>1 DEF Lane
      <4> QED
        BY <1>1, <1>2, <1>6, <2>1, <4>1, <4>2 DEF Lane
    <3>3. \A m \in Frame : fate'[m] = "deferred" => Wire(m)' \in Armed' \/ m \in Spliced'
      <4> SUFFICES ASSUME NEW m \in Frame, fate'[m] = "deferred", m \notin Spliced'
                   PROVE  Wire(m) \in Armed'
        BY <1>6
      <4>1. m # n /\ Wire(m) \in Armed
        BY <1>2, <2>1, <2>3 DEF Lane
      <4>2. Wire(m) # s
        BY <1>2, <4>1, WireInjective DEF LaneTyped
      <4> QED
        BY <1>3, <4>1, <4>2
    <3>4. IsFiniteSet(Armed') /\ Cardinality(Armed') + Len(staged') <= Slots
      BY <1>3, <1>10, <2>1, <2>2, Bounds
    <3>5. ~twice'
      BY <1>1, <1>2 DEF Lane
    <3> QED
      BY <3>1, <3>2, <3>3, <3>4, <3>5 DEF Lane
  <2>6. StagedByChannel' /\ DrainedFirst'
    BY <1>1 DEF StagedByChannel, DrainedFirst, Decoding, Idle
  <2> QED
    BY <1>1, <1>3, <1>6, <1>7, <2>1, <2>4, <2>5, <2>6
       DEF DownInv, LaneHolds, Prefix, PlayedLast, RequestsPassed, DarkLaneIsQuiet, Wire
<1>13. CASE ~hit
  <2>1. staged' = staged
    BY <1>1, <1>13
  <2>2. \A m \in Frame : fate'[m] = "deferred" /\ s = Wire(m) => s \notin Armed
    <3> SUFFICES ASSUME NEW m \in Frame, fate'[m] = "deferred", s = Wire(m), s \in Armed
                 PROVE  FALSE
      OBVIOUS
    <3>1. m = n
      BY <1>2, WireInjective DEF LaneTyped
    <3>2. fate'[n] = "lost"
      BY <1>1, <1>2, <1>13 DEF LaneTyped
    <3> QED
      BY <3>1, <3>2
  <2>3. \A i \in DOMAIN staged : fate'[staged[i].n] = fate[staged[i].n]
    <3> SUFFICES ASSUME NEW i \in DOMAIN staged
                 PROVE  fate'[staged[i].n] = fate[staged[i].n]
      OBVIOUS
    <3>1. s \in Armed => staged[i].n # n
      BY <1>2 DEF Lane
    <3>2. staged[i].n \in Frame \/ fate' = fate
      <4> DEFINE S == [stream : 1..dial, n : Frame]
      <4>1. staged \in Seq(S)
        BY <1>9
      <4> HIDE DEF S
      <4>2. staged[i] \in S
        BY <4>1, ElementOfSeq
      <4> QED
        BY <4>2 DEF S
    <3> QED
      BY <1>1, <1>5, <3>1, <3>2
  <2> HIDE DEF hit
  <2>4. LaneTyped'
    <3>1. fate' \in [Frame -> Fates]
      BY <1>1, <1>2 DEF LaneTyped, Fates
    <3> QED
      BY <1>1, <1>2, <1>3, <1>7, <2>1, <3>1 DEF LaneTyped, Keep
  <2>5. Lane'
    <3>1. \A i \in DOMAIN staged' : /\ staged'[i].stream = dial'
                                    /\ fate'[staged'[i].n] = "deferred"
                                    /\ Wire(staged[i].n)' \notin Armed'
      BY <1>1, <1>2, <1>3, <2>1, <2>3 DEF Lane, Wire
    <3>2. ASSUME NEW q \in Armed'
          PROVE  /\ pending'[q].stream = dial'
                 /\ \E m \in Frame : q = Wire(m)' /\ fate'[m] = "deferred"
      <4>1. q \in Armed /\ q # s /\ pending'[q] = pending[q]
        BY <1>3
      <4>2. PICK m \in Frame : q = Wire(m) /\ fate[m] = "deferred"
        BY <1>2, <4>1 DEF Lane
      <4>3. fate'[m] = "deferred"
        BY <1>5, <4>1, <4>2
      <4> QED
        BY <1>1, <1>2, <1>6, <4>1, <4>2, <4>3 DEF Lane
    <3>3. \A m \in Frame : fate'[m] = "deferred" => Wire(m)' \in Armed' \/ m \in Spliced'
      <4> SUFFICES ASSUME NEW m \in Frame, fate'[m] = "deferred", m \notin Spliced'
                   PROVE  Wire(m) \in Armed'
        BY <1>6
      <4>1. fate[m] = "deferred" /\ m \notin Spliced
        BY <1>1, <1>5, <2>1 DEF Spliced
      <4>2. Wire(m) \in Armed
        BY <1>2, <4>1 DEF Lane
      <4> QED
        BY <1>3, <2>2, <4>2
    <3>4. IsFiniteSet(Armed') /\ Cardinality(Armed') + Len(staged') <= Slots
      <4>1. Cardinality(Armed') <= Cardinality(Armed) /\ Cardinality(Armed') \in Nat
        BY <1>3, <1>10, FS_Subset, FS_CardinalityType
      <4> QED
        BY <1>3, <1>10, <2>1, <4>1, Bounds
    <3>5. ~twice'
      BY <1>1, <1>2 DEF Lane
    <3> QED
      BY <3>1, <3>2, <3>3, <3>4, <3>5 DEF Lane
  <2>6. StagedByChannel' /\ DrainedFirst'
    BY <1>1 DEF StagedByChannel, DrainedFirst, Decoding, Idle
  <2>7. Prefix'
    <3>1. \A m \in Frame : /\ fate'[m] = "none" <=> fate[m] = "none"
                           /\ fate[m] = "played" => fate'[m] = "played"
      BY <1>5
    <3> QED
      BY <1>1, <3>1 DEF DownInv, Prefix, PlayedLast, Wire
  <2>8. RequestsPassed'
    <3>1. \A m \in Frame : fate[m] \notin {"none", "played"} => fate'[m] \notin {"none", "played"}
      BY <1>5
    <3> QED
      BY <1>1, <1>3, <1>6, <3>1 DEF DownInv, RequestsPassed
  <2>9. DarkLaneIsQuiet'
    BY <1>3, <1>7 DEF DownInv, DarkLaneIsQuiet
  <2> QED
    BY <2>4, <2>5, <2>6, <2>7, <2>8, <2>9 DEF DownInv, LaneHolds
<1> QED
  BY <1>12, <1>13

-----------------------------------------------------------------------------
(* The theorems.                                                            *)

\* The invariant holds at power-on.
LEMMA InitHolds == ASSUME Init PROVE DownInv
<1>1. /\ dial = 1 /\ base \in Bases /\ last = NoSeq /\ pending = <<>> /\ staged = <<>>
      /\ pkt = [n |-> NoFrame, red |-> {}] /\ rtxArmed = FALSE /\ dark = "no"
      /\ fate = [n \in Frame |-> "none"]
  BY DEF Init
<1>2. Dials \in Nat \ {0} /\ Bases \subseteq SeqNr
  BY DownlinkBounds DEF SeqNr
<1>3. LaneTyped
  <2>1. pending \in [Armed -> [age : 0..(Wait + 1), stream : 1..dial]] /\ Armed = {}
    BY <1>1 DEF Armed
  <2>2. fate \in [Frame -> Fates]
    BY <1>1 DEF Fates
  <2>3. dial \in 1..Dials /\ staged \in Seq([stream : 1..dial, n : Frame])
    BY <1>1, <1>2
  <2> QED
    BY <1>1, <1>2, <2>1, <2>2, <2>3 DEF LaneTyped
<1>4. Prefix /\ RequestsPassed /\ StagedByChannel /\ LaneHolds
  BY <1>1 DEF Prefix, RequestsPassed, StagedByChannel, LaneHolds, Armed
<1>5. DrainedFirst /\ DarkLaneIsQuiet
  BY <1>1 DEF DrainedFirst, DarkLaneIsQuiet
<1> QED
  BY <1>3, <1>4, <1>5 DEF DownInv

\* Every step keeps the invariant.
LEMMA NextHolds == ASSUME DownInv, [Next]_vars PROVE DownInv'
<1>1. /\ dark \in {"no", "dark", "due"}
      /\ pkt \in [n : Frame \cup {NoFrame}, red : SUBSET Frame]
  BY DEF DownInv, LaneTyped
<1>2. CASE PacketArrives
  BY <1>2, PacketArrivesStep
<1>3. CASE Decode
  BY <1>3, DecodeFirstStep, DecodeLateStep, DecodeNextStep, DecodeResyncStep,
     DecodeGapStep DEF Decode
<1>4. CASE TryArmChannel
  BY <1>4, TryArmChannelStep
<1>5. ASSUME NEW n \in Frame, RtxArrives(n) PROVE DownInv'
  <2>1. CASE FeedRtx(n)
    BY <1>5, <2>1, RtxArrivesStep
  <2>2. CASE RtxMalformed
    BY <1>1, <1>5, <2>2, Unmoved
       DEF RtxArrives, RtxMalformed, netVars, effectVars, Decoding
  <2> QED
    BY <1>5, <2>1, <2>2 DEF RtxArrives
<1>6. CASE OneUnit
  BY <1>6, OneUnitStep
<1>7. CASE Redial
  BY <1>7, RedialStep
<1>8. CASE OnOpen \/ OpenTimesOut \/ HubOpensChannel \/ FallsSilent \/ WindowRolls
           \/ DarkElapses \/ UNCHANGED vars
  <2>1. UNCHANGED <<dial, base, last, pkt, pending, staged, rtxArmed, fate, twice>>
    BY <1>8 DEF OnOpen, OpenTimesOut, HubOpensChannel, FallsSilent, WindowRolls,
                DarkElapses, vars, netVars, effectVars, ghostVars
  <2>2. dark' \in {"no", "dark", "due"} /\ (dark' # "no" => dark # "no")
    BY <1>1, <1>8 DEF OnOpen, OpenTimesOut, HubOpensChannel, FallsSilent,
                      WindowRolls, DarkElapses, vars, effectVars
  <2> QED
    BY <1>1, <2>1, <2>2, Unmoved DEF Decoding
<1> QED
  BY <1>2, <1>3, <1>4, <1>5, <1>6, <1>7, <1>8 DEF Next

\* The invariant holds of the lane, whatever its parameters (rtp.c:341-873).
THEOREM DownInvHolds == Spec => []DownInv
<1>1. Init => DownInv
  BY InitHolds
<1>2. DownInv /\ [Next]_vars => DownInv'
  BY NextHolds
<1> QED
  BY <1>1, <1>2, PTL DEF Spec

\* With its channel armed, the lane feeds the decoder at most once for a frame
\* (rtp.c:341-359), whatever the gaps, the copies and the order they come in.
THEOREM FedOnce == Spec => []OneFeedPerFrame
<1>1. DownInv => OneFeedPerFrame
  BY Zenon DEF DownInv, LaneHolds, Lane, OneFeedPerFrame
<1> QED
  BY <1>1, DownInvHolds, PTL

\* A frame whose concealment was put off is in the table or in the queue: no
\* eviction and no re-dial loses it while the channel is armed.
THEOREM DeferredStays == Spec => []DeferredIsOnItsWay
<1>1. DownInv => DeferredIsOnItsWay
  <2> SUFFICES ASSUME DownInv, rtxArmed, NEW n \in Frame, fate[n] = "deferred"
               PROVE  \/ Wire(n) \in Armed /\ pending[Wire(n)].stream = dial
                      \/ n \in Spliced
    BY DEF DeferredIsOnItsWay
  <2> QED
    BY DEF DownInv, LaneHolds, Lane
<1> QED
  BY <1>1, DownInvHolds, PTL

\* Nothing up to the last packet is passed over in silence (rtp.c:771-855).
THEOREM NothingPassedOver == Spec => []NoHoles
<1>1. DownInv => NoHoles
  <2> SUFFICES ASSUME DownInv, last # NoSeq, NEW n \in Frame, n <= FrameOf(last)
               PROVE  fate[n] # "none"
    BY DEF NoHoles
  <2>1. PICK l \in Frame : PlayedLast(l)
    BY DEF DownInv, Prefix
  <2>2. FrameOf(last) = l
    BY <2>1, FrameOfWire DEF PlayedLast, DownInv, LaneTyped
  <2> QED
    BY <2>1, <2>2 DEF PlayedLast, Frame
<1> QED
  BY <1>1, DownInvHolds, PTL

\* The lane is dark only while nothing is asked for (nack_client.c:212-225).
THEOREM DarkIsQuiet == Spec => []DarkLaneIsQuiet
<1>1. DownInv => DarkLaneIsQuiet
  BY DEF DownInv
<1> QED
  BY <1>1, DownInvHolds, PTL

\* The first packet of every stream is played, whatever its number (rtp.c:698-709).
THEOREM StreamIsHeard == Spec => NewStreamIsHeard
<1> DEFINE Heard == Decoding /\ ~Decoding' /\ (\A n \in Frame : fate[n] # "played")
                      => fate'[pkt.n] = "played"
<1>1. DownInv /\ [Next]_vars => [Heard]_vars
  <2> SUFFICES ASSUME DownInv, Next, Decoding, ~Decoding',
                      \A n \in Frame : fate[n] # "played"
               PROVE  fate'[pkt.n] = "played"
    OBVIOUS
  <2>1. last = NoSeq /\ pkt.n \in Frame
    BY DEF DownInv, Prefix, PlayedLast, LaneTyped, Decoding
  <2>2. pkt' # pkt
    BY DEF Decoding
  <2>3. Decode
    BY <2>2 DEF Next, PacketArrives, OnOpen, OpenTimesOut, HubOpensChannel,
                TryArmChannel, RtxArrives, OneUnit, FallsSilent, DarkElapses,
                WindowRolls, Redial, Idle, Decoding
  <2>4. DecodeFirst
    BY <2>1, <2>3 DEF Decode, DecodeLate, DecodeNext, DecodeResync, DecodeGap
  <2>5. fate' = FeedNow([n \in Frame |-> IF n < pkt.n THEN "skipped" ELSE fate[n]],
                        {pkt.n}, "played")
    BY <2>4 DEF DecodeFirst, Deliver
  <2> QED
    BY <2>1, <2>5 DEF FeedNow
<1> QED
  BY <1>1, DownInvHolds, PTL DEF Spec, NewStreamIsHeard

-----------------------------------------------------------------------------
(* The type invariant: what LaneTyped leaves out.                           *)

\* The variables LaneTyped does not speak of.
Scalars == /\ last \in SeqNr \cup {NoSeq}
           /\ sender \in BOOLEAN /\ rtxArmed \in BOOLEAN /\ silent \in BOOLEAN
           /\ sent \in Nat /\ recovered \in Nat /\ outage \in BOOLEAN
           /\ setup \in {"none", "open", "late"}
           /\ channel \in {"none", "good", "bad"}
           /\ asked \in SUBSET Frame /\ twice \in BOOLEAN

\* The breaker's counters stay counters.
LEMMA BreakerTyped ==
  ASSUME dark \in {"no", "dark", "due"}, NEW open, NEW s \in Nat, NEW r \in Nat,
         NEW out \in BOOLEAN, Breaker(open, s, r, out)
  PROVE  sent' \in Nat /\ recovered' \in Nat /\ outage' \in BOOLEAN
<1>1. CASE dark = "dark"
  BY <1>1 DEF Breaker
<1>2. CASE dark = "due"
  <2>1. sent' = 0 /\ recovered' = 0
    BY <1>2 DEF Breaker
  <2>2. outage' = FALSE
    BY <1>2 DEF Breaker
  <2> QED
    BY <2>1, <2>2
<1>3. CASE dark = "no"
  BY <1>3 DEF Breaker
<1> QED
  BY <1>1, <1>2, <1>3

\* Every step keeps these types.
LEMMA ScalarsStep == ASSUME DownInv, Scalars, [Next]_vars PROVE Scalars'
<1>1. dark \in {"no", "dark", "due"} /\ base \in SeqNr
  BY DEF DownInv, LaneTyped
<1>2. CASE PacketArrives
  <2>1. UNCHANGED <<last, sender, rtxArmed, setup, channel, asked>> /\ silent' = FALSE
    BY <1>2 DEF PacketArrives, netVars
  <2>2. sent' \in Nat /\ recovered' \in Nat /\ outage' \in BOOLEAN
    <3>1. Breaker(Armed \ Expired, sent, recovered, outage \/ silent)
      BY <1>2, Zenon DEF PacketArrives
    <3>2. (outage \/ silent) \in BOOLEAN
      OBVIOUS
    <3>3. sent \in Nat /\ recovered \in Nat
      BY DEF Scalars
    <3> QED
      BY <1>1, <3>1, <3>2, <3>3, BreakerTyped, Zenon
  <2>3. twice' \in BOOLEAN
    BY <1>2, Zenon DEF PacketArrives
  <2> QED
    BY <2>1, <2>2, <2>3 DEF Scalars
<1>3. CASE Decode
  <2>1. UNCHANGED <<sender, rtxArmed, silent, recovered, outage, setup, channel>>
    BY <1>3 DEF Decode, DecodeFirst, DecodeLate, DecodeNext, DecodeResync, DecodeGap,
                netVars, effectVars
  <2>2. last' = last \/ \E n \in Frame : last' = Wire(n)
    BY <1>3 DEF Decode, DecodeFirst, DecodeLate, DecodeNext, DecodeResync, DecodeGap,
                Deliver, Decoding, DownInv, LaneTyped
  <2>3. last' \in SeqNr \cup {NoSeq}
    BY <1>1, <2>2, WireIs DEF Scalars
  <2>4. sent' \in Nat /\ asked' \in SUBSET Frame
    <3>1. CASE DecodeGap
      <4>1. /\ sent' = sent + Cardinality(Requested)
            /\ asked' = asked \cup Requested
        BY <3>1 DEF DecodeGap
      <4>2. Requested \in SUBSET Missing /\ IsFiniteSet(Requested)
        <5>1. PICK l \in Frame : PlayedLast(l)
          BY <3>1, StandsAfter DEF DecodeGap
        <5> QED
          BY <3>1, <5>1, GapPlan DEF DecodeGap
      <4>3. Cardinality(Requested) \in Nat
        BY <4>2, FS_CardinalityType
      <4> QED
        BY <4>1, <4>2, <4>3 DEF Scalars, Missing
    <3>2. CASE ~DecodeGap
      BY <1>3, <3>2 DEF Decode, DecodeFirst, DecodeLate, DecodeNext, DecodeResync,
                        effectVars, Scalars
    <3> QED
      BY <3>1, <3>2
  <2>5. twice' = twice \/ \E f, t : Deliver(f, t)
    BY <1>3 DEF Decode, DecodeFirst, DecodeLate, DecodeNext, DecodeResync, DecodeGap,
                ghostVars
  <2>6. twice' \in BOOLEAN
    BY <2>5, Zenon DEF Deliver, Scalars
  <2> QED
    BY <2>1, <2>3, <2>4, <2>6 DEF Scalars
<1>4. CASE TryArmChannel
  BY <1>4 DEF TryArmChannel, RegisterSender, Scalars
<1>5. ASSUME NEW n \in Frame, RtxArrives(n) PROVE Scalars'
  <2>1. /\ UNCHANGED <<last, sender, rtxArmed, silent, setup, channel, twice>>
        /\ asked' = asked \ {n}
    BY <1>5 DEF RtxArrives, netVars
  <2>2. sent' \in Nat /\ recovered' \in Nat /\ outage' \in BOOLEAN
    <3>1. CASE FeedRtx(n)
      <4>1. PICK k \in {0, 1} : Breaker(Take(Wire(n)), sent, recovered + k, outage)
        BY <3>1 DEF FeedRtx
      <4>2. sent \in Nat /\ recovered + k \in Nat /\ outage \in BOOLEAN
        BY DEF Scalars
      <4> QED
        BY <1>1, <4>1, <4>2, BreakerTyped
    <3>2. CASE RtxMalformed
      BY <3>2 DEF RtxMalformed, effectVars, Scalars
    <3> QED
      BY <1>5, <3>1, <3>2 DEF RtxArrives
  <2> QED
    BY <2>1, <2>2 DEF Scalars
<1>6. CASE OneUnit \/ OpenTimesOut \/ DarkElapses \/ UNCHANGED vars
  BY <1>6 DEF OneUnit, OpenTimesOut, DarkElapses, Scalars, vars, netVars,
              effectVars, ghostVars
<1>7. CASE OnOpen \/ HubOpensChannel
  BY <1>7 DEF OnOpen, HubOpensChannel, Scalars, effectVars, ghostVars
<1>8. CASE FallsSilent
  BY <1>8 DEF FallsSilent, Scalars, netVars, effectVars, ghostVars
<1>10. CASE WindowRolls
  <2>1. /\ sent' = 0 /\ recovered' = 0 /\ outage' = FALSE
        /\ UNCHANGED <<last, netVars, silent, asked, twice>>
    BY <1>10 DEF WindowRolls, ghostVars
  <2> QED
    BY <2>1 DEF Scalars, netVars
<1>9. CASE Redial
  BY <1>9 DEF Redial, SeqTableForgotten, Scalars, effectVars
<1> QED
  BY <1>2, <1>3, <1>4, <1>5, <1>6, <1>7, <1>8, <1>9, <1>10
     DEF Next

\* Every variable of the lane has its type, on every stream.
THEOREM TypeCorrect == Spec => []TypeOK
<1>1. Init => DownInv /\ Scalars
  <2> SUFFICES ASSUME Init PROVE DownInv /\ Scalars
    OBVIOUS
  <2> QED
    BY InitHolds DEF Init, Scalars
<1>2. DownInv /\ Scalars /\ [Next]_vars => DownInv' /\ Scalars'
  BY NextHolds, ScalarsStep
<1>3. DownInv /\ Scalars => TypeOK
  <2> SUFFICES ASSUME DownInv, Scalars PROVE TypeOK
    OBVIOUS
  <2>1. 1..dial \subseteq 1..Dials
    BY DownlinkBounds DEF DownInv, LaneTyped
  <2>2. pending \in [DOMAIN pending -> [age : 0..(Wait + 1), stream : 1..Dials]]
    BY <2>1 DEF DownInv, LaneTyped, Armed
  <2>3. staged \in Seq([stream : 1..Dials, n : Frame])
    <3> DEFINE old == [stream : 1..dial, n : Frame]
               new == [stream : 1..Dials, n : Frame]
    <3>1. old \subseteq new
      BY <2>1
    <3>2. staged \in Seq(old)
      BY DEF DownInv, LaneTyped
    <3> HIDE DEF old, new
    <3>3. staged \in Seq(new)
      BY <3>1, <3>2
    <3> QED
      BY <3>3 DEF new
  <2> QED
    BY <2>2, <2>3 DEF TypeOK, DownInv, LaneTyped, Scalars, Armed
<1> QED
  BY <1>1, <1>2, <1>3, PTL DEF Spec

=============================================================================
