----------------------------- MODULE Device_proofs -----------------------------
(*****************************************************************************)
(* Proofs about the parts of Device.tla whose invariant is small: the LED ring,*)
(* the designated resolver, the RED uplink, the chime and the Wi-Fi station.  *)
(* For every bound, ring size, time to live, alphabet and set of access points.*)
(*                                                                           *)
(* The argument.  A step of the device is a step of one part or leaves that part*)
(* alone, so an invariant of the part's own next-state relation is one of the*)
(* device.  Each section strengthens the property with what makes it inductive:*)
(* the age of the phase stamp (LedInv), what the resolver has said about the *)
(* query (DnsInv), that the ring holds the last frames of this stream in their*)
(* order (RedInv), that what is fresh was never counted and that a marker has *)
(* looked at all of it (ChimeInv), that the events under way tell how the link*)
(* came to be what it is (WifiInv).                                          *)
(*****************************************************************************)
EXTENDS Device, TLAPS, SequenceTheorems

\* Every step of the device is a step of the LED ring, or leaves it alone.
LEMMA LedSteps == [DeviceNext]_deviceVars => [LedNext]_ledVars
  BY DEF DeviceNext, deviceVars

\* A number below the modulus is its own remainder.
LEMMA ModOfSmall == ASSUME NEW m \in Nat, NEW a \in 0..(m - 1) PROVE a % m = a
  BY SMT

\* A phase the server set is shown no longer than its time to live, but for the
\* frame that is being drawn; once the clock has wrapped it may come back.
LedInv ==
  /\ LedTypeOK
  /\ byServer => \/ stampAge <= LedTtl + (IF overdue THEN 1 ELSE 0)
                 \/ stampAge >= LedMsMod

\* Every step of the LED ring keeps LedInv.
LEMMA LedStep == LedInv /\ [LedNext]_ledVars => LedInv'
<1> SUFFICES ASSUME LedInv, [LedNext]_ledVars PROVE LedInv'
  OBVIOUS
<1> USE LedBounds DEF LedInv, LedTypeOK, NoFrame, rtviVars, shownVars, HandledNow
<1>1. ASSUME NEW m \in RtviMessages, MessageQueued(m) \/ MessageShed(m)
      PROVE  LedInv'
  <2>1. CASE MessageQueued(m)
    <3>1. /\ rtviQueue' \in Seq(RtviMessages) /\ Len(rtviQueue') <= RtviDepth
      BY <2>1 DEF MessageQueued
    <3>2. UNCHANGED <<serverPhase, stampAge, frame, overdue, ledState>>
      BY <2>1 DEF MessageQueued
    <3>3. UNCHANGED <<stamping, byServer>>
      BY <2>1 DEF MessageQueued
    <3> QED
      BY <3>1, <3>2, <3>3
  <2>2. CASE MessageShed(m)
    BY <2>2 DEF MessageShed, ledVars
  <2> QED
    BY <1>1, <2>1, <2>2
<1>2. CASE PhaseStored
  <2>1. rtviQueue # <<>> /\ rtviQueue' = Tail(rtviQueue)
    BY <1>2 DEF PhaseStored
  <2>2. rtviQueue' \in Seq(RtviMessages) /\ Len(rtviQueue') <= RtviDepth
    BY <2>1
  <2>3. serverPhase' \in Phases /\ stamping' = TRUE
        /\ UNCHANGED <<stampAge, frame, overdue, shownVars>>
    BY <1>2 DEF PhaseStored
  <2> QED
    BY <2>2, <2>3
<1>3. CASE OtherHandled
  <2>1. rtviQueue # <<>> /\ rtviQueue' = Tail(rtviQueue)
    BY <1>3 DEF OtherHandled
  <2>2. rtviQueue' \in Seq(RtviMessages) /\ Len(rtviQueue') <= RtviDepth
    BY <2>1
  <2>3. UNCHANGED <<serverPhase, stamping, stampAge, frame, overdue, shownVars>>
    BY <1>3 DEF OtherHandled
  <2> QED
    BY <2>2, <2>3
<1>4. CASE PhaseStamped
  <2>1. stampAge' \in 0..1 /\ stamping' = FALSE
    BY <1>4 DEF PhaseStamped
  <2>2. UNCHANGED <<rtviQueue, serverPhase, frame, overdue, ledState, byServer>>
    BY <1>4 DEF PhaseStamped
  <2>3. /\ stampAge' \in 0..(2 * LedMsMod - 1)
        /\ stampAge' <= LedTtl + (IF overdue' THEN 1 ELSE 0)
    BY <2>1, <2>2
  <2>4. stamping' \in BOOLEAN
    BY <2>1, Zenon
  <2> QED
    BY <2>2, <2>3, <2>4
<1>5. CASE LoadPhase \/ LoadClock
  BY <1>5 DEF LoadPhase, LoadClock
<1>6. ASSUME NEW up \in BOOLEAN, NEW plays \in BOOLEAN, FrameDrawn(up, plays)
      PROVE  LedInv'
  <2>1. byServer' = (up /\ FreshPhase)
    BY <1>6 DEF FrameDrawn
  <2>2. UNCHANGED <<rtviQueue, serverPhase, stamping, stampAge>>
        /\ frame' = NoFrame /\ overdue' = FALSE
    BY <1>6 DEF FrameDrawn
  <2>3. FreshPhase => stampAge <= LedTtl \/ stampAge >= LedMsMod
    <3>1. SUFFICES ASSUME FreshPhase, stampAge < LedMsMod, frame.lag <= stampAge
                   PROVE  stampAge <= LedTtl
      OBVIOUS
    <3>2. stampAge - frame.lag \in 0..(LedMsMod - 1) /\ frame.lag \in 0..1
      BY <3>1
    <3>3. (stampAge - frame.lag) % LedMsMod = stampAge - frame.lag
      BY <3>2, ModOfSmall
    <3> QED
      BY <3>1, <3>2, <3>3 DEF FreshPhase
  <2>4. byServer' => stampAge' <= LedTtl + (IF overdue' THEN 1 ELSE 0)
                     \/ stampAge' >= LedMsMod
    <3>1. byServer' => FreshPhase
      BY <2>1, Zenon
    <3> QED
      BY <2>2, <2>3, <3>1
  <2>5. frame' \in [at : {"rest", "phase", "clock"},
                    phase : Phases \cup {"none"}, lag : 0..1]
    BY <2>2
  <2>6. ledState' \in Phases \cup {"off"}
    BY <1>6 DEF FrameDrawn, FreshPhase, Phases
  <2>7. byServer' \in BOOLEAN
    BY <2>1, Zenon
  <2> QED
    BY <2>2, <2>4, <2>5, <2>6, <2>7
<1>7. CASE TimePasses
  BY <1>7 DEF TimePasses
<1>8. CASE UNCHANGED ledVars
  BY <1>8 DEF ledVars
<1> QED
  BY <1>1, <1>2, <1>3, <1>4, <1>5, <1>6, <1>7, <1>8 DEF LedNext

\* LedInv holds at the start.
LEMMA LedInitially == DeviceInit => LedInv
<1> SUFFICES ASSUME LedInit PROVE LedInv
  BY DEF DeviceInit
<1>1. /\ rtviQueue = <<>> /\ serverPhase = "none" /\ stampAge = 0 /\ frame = NoFrame
      /\ ledState = "off"
  BY DEF LedInit
<1>2. stamping = FALSE /\ overdue = FALSE /\ byServer = FALSE
  BY DEF LedInit
<1>3. rtviQueue \in Seq(RtviMessages) /\ Len(rtviQueue) <= RtviDepth
  BY <1>1, LedBounds
<1>4. stampAge \in 0..(2 * LedMsMod - 1)
  BY <1>1, LedBounds
<1>5. stamping \in BOOLEAN /\ overdue \in BOOLEAN /\ byServer \in BOOLEAN /\ ~byServer
  BY <1>2, Zenon
<1> QED
  BY <1>1, <1>3, <1>4, <1>5 DEF LedInv, LedTypeOK, NoFrame

\* A phase of a hub that has fallen silent leaves the ring within its time to live
\* and one frame, until the 32-bit clock has wrapped (media.cpp:1443-1445).
THEOREM PhasesExpire == DeviceSpec => []PhaseExpires
<1>1. LedInv /\ [DeviceNext]_deviceVars => LedInv'
  BY LedSteps, LedStep
<1>2. LedInv => PhaseExpires
  BY LedBounds DEF LedInv, LedTypeOK, PhaseExpires
<1> QED
  BY LedInitially, <1>1, <1>2, PTL DEF DeviceSpec

-----------------------------------------------------------------------------
(* The resolver.                                                            *)

\* Every step of the device is a step of the resolver, or leaves it alone.
LEMMA DnsSteps == [DeviceNext]_deviceVars => [HubDnsNext]_hubDnsVars
  BY DEF DeviceNext, deviceVars

\* What is on the way from the resolver about this query is what it said.
DnsInv ==
  /\ HubDnsTypeOK
  /\ dnsAt = "waiting" => budget > 0
  /\ \A d \in inbox : d.from = "resolver" /\ d.re = "query" => d.says \in said
  /\ dnsAt = "idle" => tries = 0
  /\ VerdictIsEarned

\* Every step of the resolver keeps DnsInv.
LEMMA DnsStep == DnsInv /\ [HubDnsNext]_hubDnsVars => DnsInv'
<1> SUFFICES ASSUME DnsInv, [HubDnsNext]_hubDnsVars PROVE DnsInv'
  OBVIOUS
<1> USE HubDnsBounds DEF DnsInv, HubDnsTypeOK, VerdictIsEarned, queryVars, Returns,
    Verdicts, Datagram
<1>1. CASE NoResolver \/ NotSendable \/ QueryStarts \/ TriesExhausted
  BY <1>1 DEF NoResolver, NotSendable, QueryStarts, TriesExhausted
<1>2. CASE TrySends
  <2>1. /\ dnsAt = "sending" /\ tries' \in 1..DnsTries
        /\ UNCHANGED <<verdict, zone, inbox, said>>
    BY <1>2 DEF TrySends
  <2>2. \/ dnsAt' = "waiting" /\ budget' = DnsBudget
        \/ dnsAt' = "sending" /\ budget' = budget
    BY <1>2 DEF TrySends
  <2>3. reached' = reached \/ reached' = TRUE
    BY <1>2 DEF TrySends
  <2>4. reached' \in BOOLEAN
    BY <2>3, Zenon
  <2> QED
    BY <2>1, <2>2, <2>4
<1>3. CASE BudgetShrinks \/ ReceiveFails
  BY <1>3 DEF BudgetShrinks, ReceiveFails
<1>4. ASSUME NEW d \in inbox, DatagramTaken(d)
      PROVE  DnsInv'
  <2>1. CASE Accepted(d)
    <3>1. d.says \in said /\ verdict' = RcodeVerdict(d.says) /\ d.re = "query"
      BY <1>4, <2>1 DEF DatagramTaken, Accepted, Parsed
    <3>2. verdict' = "nxdomain" => d.says.rcode = "nxdomain"
      BY <3>1 DEF RcodeVerdict
    <3>3. verdict' # "timeout" /\ verdict' \in Verdicts
      BY <3>1 DEF RcodeVerdict
    <3>4. /\ dnsAt' = "done" /\ inbox' = inbox \ {d}
          /\ UNCHANGED <<tries, budget, zone, reached, said>>
      BY <1>4, <2>1 DEF DatagramTaken
    <3> QED
      BY <3>1, <3>2, <3>3, <3>4
  <2>2. CASE ~Accepted(d)
    BY <1>4, <2>2 DEF DatagramTaken
  <2> QED
    BY <2>1, <2>2
<1>5. CASE QueryReturns \/ ZoneChanges
  <2>1. CASE QueryReturns
    <3>1. /\ dnsAt' = "idle" /\ tries' = 0 /\ budget' = 0 /\ verdict' = "none"
          /\ inbox' = {} /\ said' = {} /\ zone' = zone
      BY <2>1 DEF QueryReturns
    <3>2. reached' = FALSE
      BY <2>1 DEF QueryReturns
    <3>3. reached' \in BOOLEAN
      BY <3>2, Zenon
    <3> QED
      BY <3>1, <3>3
  <2>2. CASE ZoneChanges
    BY <2>2 DEF ZoneChanges
  <2> QED
    BY <1>5, <2>1, <2>2
<1>6. CASE ResolverAnswers
  BY <1>6 DEF ResolverAnswers
<1>7. CASE StrayArrives
  BY <1>7 DEF StrayArrives
<1>8. CASE UNCHANGED hubDnsVars
  BY <1>8 DEF hubDnsVars
<1> QED
  BY <1>1, <1>2, <1>3, <1>4, <1>5, <1>6, <1>7, <1>8 DEF HubDnsNext

\* DnsInv holds at the start.
LEMMA DnsInitially == DeviceInit => DnsInv
<1> SUFFICES ASSUME HubDnsInit PROVE DnsInv
  BY DEF DeviceInit
<1>1. /\ dnsAt = "idle" /\ tries = 0 /\ budget = 0 /\ verdict = "none" /\ zone \in Zones
      /\ inbox = {} /\ said = {}
  BY DEF HubDnsInit
<1>2. reached \in BOOLEAN
  BY Zenon DEF HubDnsInit
<1> QED
  BY <1>1, <1>2, HubDnsBounds DEF DnsInv, HubDnsTypeOK, VerdictIsEarned

\* An answer counts only if the designated resolver gave it to this very query, and
\* silence only after every try (hub_dns.cpp:284-299).
THEOREM VerdictsAreEarned == DeviceSpec => []VerdictIsEarned
<1>1. DnsInv /\ [DeviceNext]_deviceVars => DnsInv'
  BY DnsSteps, DnsStep
<1>2. DnsInv => VerdictIsEarned
  BY DEF DnsInv
<1> QED
  BY DnsInitially, <1>1, <1>2, PTL DEF DeviceSpec

-----------------------------------------------------------------------------
(* The RED uplink.                                                          *)

\* Every step of the device is a step of the uplink, or leaves it alone.
LEMMA UplinkSteps == [DeviceNext]_deviceVars => [UplinkNext]_uplinkVars
  BY DEF DeviceNext, deviceVars

\* A number one turn past the modulus.
LEMMA ModOfNext ==
  ASSUME NEW m \in Nat \ {0}, NEW a \in m..(2 * m - 1)
  PROVE  a % m = a - m
  BY SMT

\* The slot after another.
LEMMA NextSlot ==
  ASSUME NEW d \in Nat \ {0}, NEW i \in 0..(d - 1)
  PROVE  (i + 1) % d = IF i + 1 = d THEN 0 ELSE i + 1
<1>1. CASE i + 1 = d
  <2>1. i + 1 \in d..(2 * d - 1)
    BY <1>1
  <2> QED
    BY <1>1, <2>1, ModOfNext
<1>2. CASE i + 1 # d
  <2>1. i + 1 \in 0..(d - 1)
    BY <1>2
  <2> QED
    BY <1>2, <2>1, ModOfSmall
<1> QED
  BY <1>1, <1>2

\* A sequence without its first element.
LEMMA Shortened ==
  ASSUME NEW S, NEW s \in Seq(S), NEW n \in Nat, Len(s) = n + 1
  PROVE  /\ Tail(s) \in Seq(S) /\ Len(Tail(s)) = n
         /\ \A i \in 1..n : Tail(s)[i] = s[i + 1]
<1>1. s # <<>>
  OBVIOUS
<1> QED
  BY <1>1, HeadTailProperties

\* The types of the ring, which is filled from its first slot.
RedTyped ==
  /\ redRing \in [Slots -> OpusFrame]
  /\ redNext \in Slots /\ redCount \in 0..RedDistance
  /\ redCount < RedDistance => redNext = redCount
  /\ sentLog \in Seq(OpusFrame) /\ carried \in Seq(OpusFrame)

\* Where the frame i of those remembered is.
RingSlot(d, next, count, i) == ((IF count = d THEN next ELSE 0) + i - 1) % d

\* The slot of frame i now.
SlotOf(i) == RingSlot(RedDistance, redNext, redCount, i)

\* The ring holds the frames of this stream, in their order.
RingIsLog ==
  /\ Len(sentLog) = redCount
  /\ \A i \in 1..redCount : sentLog[i] = redRing[SlotOf(i)]

\* The inductive invariant of the uplink.
RedInv == RedTyped /\ RingIsLog

\* Round the ring: the slot of the frame i, without the remainder.
LEMMA Slotting ==
  ASSUME NEW d \in Nat \ {0}, NEW next \in 0..(d - 1), NEW count \in 0..d,
         NEW i \in 1..count
  PROVE  RingSlot(d, next, count, i) =
           IF count < d THEN i - 1
           ELSE IF next + i - 1 < d THEN next + i - 1 ELSE next + i - 1 - d
<1>1. CASE count < d
  <2>1. i - 1 \in 0..(d - 1)
    BY <1>1
  <2> QED
    BY <1>1, <2>1, ModOfSmall DEF RingSlot
<1>2. CASE count = d /\ next + i - 1 < d
  <2>1. next + i - 1 \in 0..(d - 1)
    BY <1>2
  <2> QED
    BY <1>2, <2>1, ModOfSmall DEF RingSlot
<1>3. CASE count = d /\ next + i - 1 >= d
  <2>1. next + i - 1 \in d..(2 * d - 1)
    BY <1>3
  <2> QED
    BY <1>3, <2>1, ModOfNext DEF RingSlot
<1> QED
  BY <1>1, <1>2, <1>3

\* An empty slot is a frame of no length.
LEMMA NoFrameType == NoOpusFrame \in OpusFrame
  BY UplinkBounds DEF NoOpusFrame, OpusFrame

\* A packet carries frames, and empty places.
LEMMA ChosenType ==
  ASSUME NEW frames \in Seq(OpusFrame), NEW size
  PROVE  Chosen(frames, size) \in Seq(OpusFrame)
<1>1. Len(frames) \in Nat /\ \A i \in 1..Len(frames) : frames[i] \in OpusFrame
  BY ElementOfSeq
<1> QED
  BY <1>1, NoFrameType DEF Chosen

\* A frame that grows older is still a frame.
LEMMA OlderType ==
  ASSUME NEW opus \in OpusFrame
  PROVE  Older(opus) \in OpusFrame
  BY UplinkBounds DEF Older, OpusFrame

\* A frame that is not remembered makes those that are older.
LEMMA RingAges ==
  ASSUME RedInv, UNCHANGED <<redNext, redCount>>, carried' \in Seq(OpusFrame),
         redRing' = [slot \in Slots |-> Older(redRing[slot])],
         sentLog' = [i \in 1..Len(sentLog) |-> Older(sentLog[i])]
  PROVE  RedInv'
<1>1. RedTyped'
  <2>1. redRing' \in [Slots -> OpusFrame]
    BY OlderType DEF RedInv, RedTyped
  <2>2. sentLog' \in Seq(OpusFrame)
    <3>1. \A i \in 1..Len(sentLog) : sentLog[i] \in OpusFrame
      BY ElementOfSeq DEF RedInv, RedTyped
    <3>2. \A i \in 1..Len(sentLog) :
            Older(sentLog[i]) \in OpusFrame
      BY <3>1, OlderType
    <3> QED
      BY <3>2 DEF RedInv, RedTyped
  <2> QED
    BY <2>1, <2>2 DEF RedInv, RedTyped
<1>2. Len(sentLog') = redCount'
  BY DEF RedInv, RedTyped, RingIsLog
<1>3. ASSUME NEW i \in 1..redCount' PROVE sentLog'[i] = redRing'[SlotOf(i)']
  <2>1. SlotOf(i)' = SlotOf(i)
    BY DEF SlotOf
  <2>2. SlotOf(i) \in Slots
    <3>1. redCount \in 0..RedDistance /\ redNext \in 0..(RedDistance - 1)
          /\ i \in 1..redCount /\ RedDistance \in Nat \ {0}
      BY UplinkBounds DEF RedInv, RedTyped, Slots
    <3>2. SlotOf(i) = IF redCount < RedDistance THEN i - 1
                      ELSE IF redNext + i - 1 < RedDistance THEN redNext + i - 1
                      ELSE redNext + i - 1 - RedDistance
      BY <3>1, Slotting DEF SlotOf
    <3> QED
      BY <3>1, <3>2 DEF Slots
  <2> QED
    BY <2>1, <2>2 DEF RedInv, RedTyped, RingIsLog
<1> QED
  BY <1>1, <1>2, <1>3 DEF RedInv, RingIsLog

\* A frame that is remembered takes the place of the oldest, if there is none free.
LEMMA RingRemembers ==
  ASSUME RedInv, NEW size \in FrameLengths, size <= BlockMax, Remember(size),
         carried' \in Seq(OpusFrame),
         NEW log, log = [i \in 1..Len(sentLog) |-> Older(sentLog[i])],
         NEW all, all = Append(log, [age |-> 1, size |-> size]),
         sentLog' = IF Len(all) > RedDistance THEN Tail(all) ELSE all
  PROVE  RedInv'
<1> DEFINE new == [age |-> 1, size |-> size]
<1>1. /\ RedDistance \in Nat \ {0} /\ redNext \in 0..(RedDistance - 1)
      /\ redCount \in 0..RedDistance /\ Len(sentLog) = redCount
      /\ redCount < RedDistance => redNext = redCount
  BY UplinkBounds DEF RedInv, RedTyped, RingIsLog, Slots
<1>2. /\ redRing' = [slot \in Slots |->
                       IF slot = redNext THEN new ELSE Older(redRing[slot])]
      /\ redNext' = (redNext + 1) % RedDistance
      /\ redCount' = IF redCount < RedDistance THEN redCount + 1 ELSE redCount
  BY DEF Remember
<1>3. redNext' = IF redNext + 1 = RedDistance THEN 0 ELSE redNext + 1
  BY <1>1, <1>2, NextSlot
<1>4. new \in OpusFrame
  BY UplinkBounds DEF OpusFrame
<1>5. /\ log \in Seq(OpusFrame) /\ Len(log) = redCount
      /\ \A i \in 1..redCount : log[i] = Older(redRing[SlotOf(i)])
  <2>1. \A i \in 1..Len(sentLog) : Older(sentLog[i]) \in OpusFrame
    BY OlderType, ElementOfSeq DEF RedInv, RedTyped
  <2>2. log \in Seq(OpusFrame) /\ Len(log) = redCount
    BY <1>1, <2>1
  <2> QED
    BY <1>1, <2>2 DEF RedInv, RingIsLog
<1> HIDE DEF new
<1>6. /\ all \in Seq(OpusFrame) /\ Len(all) = redCount + 1
      /\ \A i \in 1..redCount : all[i] = log[i]
      /\ all[redCount + 1] = new
  BY <1>1, <1>4, <1>5 DEF new
<1>7. redRing' \in [Slots -> OpusFrame]
  BY <1>2, <1>4, OlderType DEF RedInv, RedTyped
<1>8. CASE redCount < RedDistance
  <2>1. sentLog' = all /\ redCount' = redCount + 1
    BY <1>1, <1>2, <1>6, <1>8
  <2>2. RedTyped'
    BY <1>1, <1>2, <1>3, <1>6, <1>7, <1>8, <2>1 DEF RedTyped, Slots
  <2>3. ASSUME NEW i \in 1..redCount' PROVE sentLog'[i] = redRing'[SlotOf(i)']
    <3>1. SlotOf(i)' = i - 1
      <4>1. redNext' \in 0..(RedDistance - 1) /\ redCount' \in 1..RedDistance
            /\ (redCount' = RedDistance => redNext' = 0)
        BY <1>1, <1>3, <1>8, <2>1
      <4> QED
        BY <1>1, <4>1, Slotting DEF SlotOf
    <3>2. CASE i <= redCount
      <4>1. SlotOf(i) = i - 1 /\ i \in 1..redCount
        BY <1>1, <1>8, <3>2, Slotting DEF SlotOf
      <4> QED
        BY <1>1, <1>2, <1>5, <1>6, <1>8, <2>1, <3>1, <4>1 DEF Slots
    <3>3. CASE i = redCount + 1
      BY <1>1, <1>2, <1>6, <1>8, <2>1, <3>1, <3>3 DEF Slots
    <3> QED
      BY <1>1, <2>1, <3>2, <3>3
  <2> QED
    BY <1>6, <2>1, <2>2, <2>3 DEF RedInv, RingIsLog
<1>9. CASE redCount = RedDistance
  <2>1. sentLog' = Tail(all) /\ redCount' = redCount
    BY <1>1, <1>2, <1>6, <1>9
  <2>2. /\ sentLog' \in Seq(OpusFrame) /\ Len(sentLog') = redCount
        /\ \A i \in 1..redCount : sentLog'[i] = all[i + 1]
    <3>1. /\ Tail(all) \in Seq(OpusFrame) /\ Len(Tail(all)) = redCount
          /\ \A i \in 1..redCount : Tail(all)[i] = all[i + 1]
      <4>1. redCount \in Nat
        BY <1>1
      <4>2. all \in Seq(OpusFrame) /\ Len(all) = redCount + 1
        BY <1>6
      <4> QED
        BY <4>1, <4>2, Shortened, Zenon
    <3> QED
      BY <2>1, <3>1
  <2>3. RedTyped'
    <3>1. redNext' \in Slots /\ redCount' \in 0..RedDistance
          /\ (redCount' < RedDistance => redNext' = redCount')
      BY <1>1, <1>3, <1>9, <2>1 DEF Slots
    <3> QED
      BY <1>7, <2>2, <3>1 DEF RedTyped
  <2>4. ASSUME NEW i \in 1..redCount' PROVE sentLog'[i] = redRing'[SlotOf(i)']
    <3>1. SlotOf(i)' = IF redNext' + i - 1 < RedDistance THEN redNext' + i - 1
                       ELSE redNext' + i - 1 - RedDistance
      <4>1. redNext' \in 0..(RedDistance - 1) /\ redCount' = RedDistance
        BY <1>1, <1>3, <1>9, <2>1
      <4>2. SlotOf(i)' = RingSlot(RedDistance, redNext', redCount', i)
        BY DEF SlotOf
      <4>3. i \in 1..redCount' /\ redCount' \in 0..RedDistance
        BY <1>1, <4>1
      <4>4. RingSlot(RedDistance, redNext', redCount', i) =
              IF redCount' < RedDistance THEN i - 1
              ELSE IF redNext' + i - 1 < RedDistance THEN redNext' + i - 1
              ELSE redNext' + i - 1 - RedDistance
        BY <1>1, <4>1, <4>3, Slotting
      <4>5. ~(redCount' < RedDistance)
        BY <1>1, <4>1
      <4> QED
        BY <4>2, <4>4, <4>5
    <3>2. CASE i < redCount
      <4>1. SlotOf(i + 1) = IF redNext + i < RedDistance THEN redNext + i
                            ELSE redNext + i - RedDistance
        <5> DEFINE j == i + 1
        <5>1. j \in 1..redCount
          BY <1>1, <2>1, <3>2
        <5>2. SlotOf(j) = IF redCount < RedDistance THEN j - 1
                          ELSE IF redNext + j - 1 < RedDistance
                          THEN redNext + j - 1
                          ELSE redNext + j - 1 - RedDistance
          <6> HIDE DEF j
          <6> QED
            BY <1>1, <5>1, Slotting DEF SlotOf
        <5>3. i \in Int
          BY <1>1, <2>1
        <5> QED
          BY <1>1, <1>9, <5>2, <5>3
      <4>2. SlotOf(i)' = SlotOf(i + 1) /\ SlotOf(i)' \in Slots
            /\ SlotOf(i)' # redNext
        <5>1. i \in 1..(RedDistance - 1)
          BY <1>1, <1>9, <2>1, <3>2
        <5>2. CASE redNext + 1 = RedDistance
          BY <1>1, <1>3, <3>1, <4>1, <5>1, <5>2 DEF Slots
        <5>3. CASE redNext + 1 # RedDistance
          BY <1>1, <1>3, <3>1, <4>1, <5>1, <5>3 DEF Slots
        <5> QED
          BY <5>2, <5>3
      <4>3. sentLog'[i] = Older(redRing[SlotOf(i + 1)])
        BY <1>1, <1>5, <1>6, <2>1, <2>2, <3>2
      <4> QED
        BY <1>2, <4>2, <4>3
    <3>3. CASE i = redCount
      <4>1. SlotOf(i)' = redNext
        BY <1>1, <1>3, <1>9, <2>1, <3>1, <3>3
      <4>2. sentLog'[i] = new
        BY <1>1, <1>6, <1>9, <2>2, <3>3
      <4> QED
        BY <1>1, <1>2, <4>1, <4>2 DEF Slots
    <3> QED
      BY <1>1, <2>1, <3>2, <3>3
  <2> QED
    BY <2>1, <2>2, <2>3, <2>4 DEF RedInv, RingIsLog
<1> QED
  BY <1>1, <1>8, <1>9

\* What the packet is built from is the log of this stream.
LEMMA RememberedIsLog == RedInv => Remembered = sentLog
<1> SUFFICES ASSUME RedInv PROVE Remembered = sentLog
  OBVIOUS
<1>1. sentLog \in Seq(OpusFrame) /\ Len(sentLog) = redCount /\ redCount \in Nat
  BY UplinkBounds DEF RedInv, RedTyped, RingIsLog
<1>2. sentLog = [i \in 1..redCount |-> sentLog[i]]
  BY <1>1
<1>3. \A i \in 1..redCount :
        sentLog[i] = redRing[(OldestSlot + i - 1) % RedDistance]
  BY DEF RedInv, RingIsLog, SlotOf, RingSlot, OldestSlot
<1> QED
  BY <1>2, <1>3 DEF Remembered

\* Every step of the uplink keeps RedInv.
LEMMA RedStep == RedInv /\ [UplinkNext]_uplinkVars => RedInv'
<1> SUFFICES ASSUME RedInv, [UplinkNext]_uplinkVars PROVE RedInv'
  OBVIOUS
<1>1. CASE StreamStarts
  <2>1. carried' = <<>> /\ NoOpusFrame \in OpusFrame
    BY <1>1, NoFrameType DEF StreamStarts
  <2>2. redRing' = [slot \in Slots |-> NoOpusFrame] /\ redNext' = 0
        /\ redCount' = 0 /\ sentLog' = <<>>
    BY <1>1 DEF StreamStarts
  <2>3. RedTyped'
    BY <2>1, <2>2, UplinkBounds DEF RedTyped, Slots
  <2> QED
    BY <2>2, <2>3 DEF RedInv, RingIsLog
<1>2. ASSUME NEW size \in FrameLengths, FrameSent(size) PROVE RedInv'
  <2>1. size \in Nat /\ BlockMax \in Nat /\ RedCapacity \in Nat
    BY UplinkBounds
  <2>4. carried' \in Seq(OpusFrame)
    <3>1. carried' = IF size < RedCapacity THEN Chosen(Remembered, size) ELSE <<>>
      BY <1>2 DEF FrameSent, Wrapped
    <3>2. Remembered = sentLog /\ sentLog \in Seq(OpusFrame)
      BY RememberedIsLog DEF RedInv, RedTyped
    <3>3. Chosen(Remembered, size) \in Seq(OpusFrame)
      BY <3>2, ChosenType
    <3> QED
      BY <3>1, <3>3
  <2> DEFINE log == [i \in 1..Len(sentLog) |-> Older(sentLog[i])]
             added == Append(log, [age |-> 1, size |-> size])
  <2>2. CASE size < RedCapacity /\ size <= BlockMax
    <3>1. Remember(size)
      BY <1>2, <2>2 DEF FrameSent, Wrapped
    <3>2. sentLog' = IF Len(added) > RedDistance THEN Tail(added) ELSE added
      BY <1>2, <2>2 DEF FrameSent
    <3> HIDE DEF log, added
    <3>3. log = [i \in 1..Len(sentLog) |-> Older(sentLog[i])]
          /\ added = Append(log, [age |-> 1, size |-> size])
      BY DEF log, added
    <3> QED
      BY <2>1, <2>2, <2>4, <3>1, <3>2, <3>3, RingRemembers
  <2>3. CASE ~(size < RedCapacity /\ size <= BlockMax)
    <3>1. /\ redRing' = [slot \in Slots |-> Older(redRing[slot])]
          /\ UNCHANGED <<redNext, redCount>>
      BY <1>2, <2>1, <2>3 DEF FrameSent, Wrapped, Remember
    <3>2. sentLog' = IF Len(log) > RedDistance THEN Tail(log) ELSE log
      BY <1>2, <2>3 DEF FrameSent
    <3>3. Len(log) = redCount /\ redCount \in 0..RedDistance
          /\ RedDistance \in Nat
      BY UplinkBounds DEF RedInv, RedTyped, RingIsLog
    <3>4. sentLog' = log
      BY <3>2, <3>3
    <3> QED
      BY <2>4, <3>1, <3>4, RingAges
  <2> QED
    BY <2>2, <2>3
<1>3. CASE UNCHANGED uplinkVars
  BY <1>3 DEF uplinkVars, redVars, RedInv, RedTyped, RingIsLog, SlotOf
<1> QED
  BY <1>1, <1>2, <1>3 DEF UplinkNext

\* RedInv holds at the start.
LEMMA RedInitially == DeviceInit => RedInv
  BY NoFrameType, UplinkBounds
     DEF DeviceInit, UplinkInit, RedInv, RedTyped, RingIsLog, Slots

\* Every RED packet carries the last frames of its own stream that are in reach and
\* fit, in their order, and none of an earlier stream (red_wrap.c:39-56).
THEOREM LatestCarried == DeviceSpec => RedCarriesLatest
<1>1. RedInv /\ [DeviceNext]_deviceVars => RedInv'
  BY UplinkSteps, RedStep
<1>2. RedInv /\ [DeviceNext]_deviceVars =>
        [\A size \in FrameLengths : FrameSent(size) =>
           carried' = IF size < RedCapacity THEN Chosen(sentLog, size)
                      ELSE <<>>]_uplinkVars
  <2> SUFFICES ASSUME RedInv, NEW size \in FrameLengths, FrameSent(size)
               PROVE  carried' = IF size < RedCapacity THEN Chosen(sentLog, size)
                                 ELSE <<>>
    OBVIOUS
  <2>1. carried' = IF size < RedCapacity THEN Chosen(Remembered, size) ELSE <<>>
    BY DEF FrameSent, Wrapped
  <2> QED
    BY <2>1, RememberedIsLog
<1> QED
  BY RedInitially, <1>1, <1>2, PTL DEF DeviceSpec, RedCarriesLatest

-----------------------------------------------------------------------------
(* The chime.                                                               *)

\* Every step of the device is a step of the chime's proof, or leaves it alone.
LEMMA ChimeSteps == [DeviceNext]_deviceVars => [AckBeepNext]_ackBeepVars
  BY DEF DeviceNext, deviceVars

\* A block of sound that was played, and whether a marker has counted it.
PlayedBlock == [sound : Sound, spent : BOOLEAN]

\* The last n blocks have not been counted.
Unspent(h, n) == \A i \in 1..Len(h) : i > Len(h) - n => ~h[i].spent

\* h is g with n blocks more, less its oldest.
Shifted(g, h, n) ==
  \A i \in 1..Len(h) : i <= Len(h) - n => h[i] = g[i + (Len(g) + n - Len(h))]

\* The inductive invariant of the chime's proof: what is fresh was not counted,
\* and a marker has looked at all of it that a window can still begin in.
ChimeInv ==
  /\ AckBeepTypeOK
  /\ fresh <= Len(history)
  /\ Unspent(history, fresh)
  /\ marker => scored = Atmost(fresh, Envelope)
  /\ ~countedTwice
  /\ NoChimeMissed

\* The envelope fits the ring.
LEMMA ChimeBounds ==
  /\ HistoryBlocks \in Nat /\ Envelope \in 1..HistoryBlocks
  /\ IdleCap \in Nat /\ Envelope <= IdleCap
  BY AckBeepBounds DEF Envelope, IdleCap

\* Blocks that are new leave the last ones unspent when they are appended, also
\* when the ring forgets its oldest.
LEMMA AppendedBlocks ==
  ASSUME NEW h \in Seq(PlayedBlock), NEW blocks \in Seq(PlayedBlock),
         Len(h) <= HistoryBlocks, NEW f \in Nat, Unspent(h, f),
         \A i \in 1..Len(blocks) : ~blocks[i].spent
  PROVE  /\ Appended(h, blocks) \in Seq(PlayedBlock)
         /\ Len(Appended(h, blocks)) = Atmost(Len(h) + Len(blocks), HistoryBlocks)
         /\ Unspent(Appended(h, blocks), Atmost(f + Len(blocks), HistoryBlocks))
         /\ Shifted(h, Appended(h, blocks), Len(blocks))
<1> DEFINE all == h \o blocks
           m == IF Len(all) > HistoryBlocks THEN Len(all) - HistoryBlocks + 1 ELSE 1
           r == Appended(h, blocks)
<1>1. /\ all \in Seq(PlayedBlock) /\ Len(all) = Len(h) + Len(blocks)
      /\ Len(h) \in Nat /\ Len(blocks) \in Nat
      /\ \A i \in 1..Len(all) : all[i] = IF i <= Len(h) THEN h[i]
                                         ELSE blocks[i - Len(h)]
  BY ConcatProperties
<1>2. r = SubSeq(all, m, Len(all))
  BY DEF Appended
<1> HIDE DEF all, r
<1>3. m \in Nat /\ m >= 1 /\ Len(all) \in Nat
      /\ \A i \in m..Len(all) : all[i] \in PlayedBlock
  <2>1. m \in Nat /\ m >= 1 /\ Len(all) \in Nat
    BY <1>1, ChimeBounds
  <2> QED
    BY <1>1, <2>1, ElementOfSeq
<1> HIDE DEF m
<1>4. /\ r \in Seq(PlayedBlock)
      /\ Len(r) = IF m <= Len(all) THEN Len(all) - m + 1 ELSE 0
      /\ \A i \in 1..(Len(all) - m + 1) : r[i] = all[m + i - 1]
  BY <1>2, <1>3, SubSeqProperties
<1>5. /\ Len(r) = Atmost(Len(h) + Len(blocks), HistoryBlocks)
      /\ Len(r) = Len(all) - m + 1 /\ Len(r) \in Nat
      /\ m - 1 = Len(h) + Len(blocks) - Len(r)
  <2>1. Len(all) \in Nat /\ Len(all) = Len(h) + Len(blocks)
        /\ HistoryBlocks \in Nat /\ HistoryBlocks > 0
    BY <1>1, ChimeBounds
  <2>2. CASE Len(all) > HistoryBlocks
    <3>1. m = Len(all) - HistoryBlocks + 1
      BY <2>2 DEF m
    <3>2. Len(r) = HistoryBlocks
      BY <1>4, <2>1, <2>2, <3>1
    <3>3. Atmost(Len(h) + Len(blocks), HistoryBlocks) = HistoryBlocks
      BY <2>1, <2>2 DEF Atmost
    <3> QED
      BY <2>1, <3>1, <3>2, <3>3
  <2>3. CASE ~(Len(all) > HistoryBlocks)
    <3>1. m = 1
      BY <2>3 DEF m
    <3>2. Len(r) = Len(all)
      BY <1>4, <2>1, <3>1
    <3>3. Atmost(Len(h) + Len(blocks), HistoryBlocks) = Len(all)
      BY <2>1, <2>3 DEF Atmost
    <3> QED
      BY <2>1, <3>1, <3>2, <3>3
  <2> QED
    BY <2>2, <2>3
<1>6. ASSUME NEW i \in 1..Len(r),
             i > Len(r) - Atmost(f + Len(blocks), HistoryBlocks)
      PROVE  ~r[i].spent
  <2>1. r[i] = all[m + i - 1] /\ m + i - 1 \in 1..Len(all)
    BY <1>1, <1>3, <1>4, <1>5
  <2>2. Atmost(f + Len(blocks), HistoryBlocks) <= f + Len(blocks)
        /\ Atmost(f + Len(blocks), HistoryBlocks) \in Nat
    BY <1>1, ChimeBounds DEF Atmost
  <2>3. m + i - 1 > Len(all) - f - Len(blocks)
    BY <1>1, <1>3, <1>5, <1>6, <2>2
  <2>4. CASE m + i - 1 <= Len(h)
    <3>1. m + i - 1 \in 1..Len(h) /\ m + i - 1 > Len(h) - f
      BY <1>1, <2>1, <2>3, <2>4
    <3>2. r[i] = h[m + i - 1]
      BY <1>1, <2>1, <2>4
    <3> QED
      BY <3>1, <3>2 DEF Unspent
  <2>5. CASE m + i - 1 > Len(h)
    <3>1. m + i - 1 - Len(h) \in 1..Len(blocks)
      BY <1>1, <1>3, <2>1, <2>5
    <3>2. r[i] = blocks[m + i - 1 - Len(h)]
      BY <1>1, <1>3, <2>1, <2>5
    <3> QED
      BY <3>1, <3>2
  <2> QED
    BY <1>1, <1>3, <2>4, <2>5
<1>7. Shifted(h, r, Len(blocks))
  <2>1. ASSUME NEW i \in 1..Len(r), i <= Len(r) - Len(blocks)
        PROVE  r[i] = h[i + (Len(h) + Len(blocks) - Len(r))]
    <3>1. r[i] = all[m + i - 1] /\ m + i - 1 \in 1..Len(h)
      BY <1>1, <1>3, <1>4, <1>5, <2>1
    <3>2. m + i - 1 = i + (Len(h) + Len(blocks) - Len(r))
      <4>1. i \in Nat /\ m \in Nat /\ Len(h) + Len(blocks) - Len(r) \in Int
        BY <1>1, <1>3, <1>5
      <4> QED
        BY <1>5, <4>1
    <3>3. all[m + i - 1] = h[m + i - 1]
      BY <1>1, <3>1
    <3> QED
      BY <3>1, <3>2, <3>3
  <2> QED
    BY <2>1 DEF Shifted
<1> QED
  BY <1>4, <1>5, <1>6, <1>7 DEF Unspent, r

\* The end of a window in the new blocks, counted in the old ones.
LEMMA OldEnd ==
  ASSUME NEW glen \in Nat, NEW hlen \in Nat, NEW n \in Nat, NEW f \in Nat,
         NEW new \in Nat, new <= f + n, NEW size \in Nat, NEW e \in Nat,
         e >= hlen - new + size, e < hlen - n
  PROVE  e + (glen + n - hlen) \in (glen - f + size)..glen
  BY SMT

\* What was not found in the old blocks, and not where the scan goes on, is not
\* there: the windows the scan leaves out lie in the old blocks.
LEMMA NothingLeftOut ==
  ASSUME NEW g \in Seq(PlayedBlock), NEW h \in Seq(PlayedBlock), NEW n \in Nat,
         Len(h) = Atmost(Len(g) + n, HistoryBlocks), Shifted(g, h, n),
         NEW f \in 0..Len(g), NEW k \in Nat, k = Atmost(f, Envelope),
         Matches(g, Len(g) - f) = {}, Matches(h, Len(h) - Atmost(k + n, Len(h))) = {}
  PROVE  Matches(h, Len(h) - Atmost(f + n, HistoryBlocks)) = {}
<1>1. /\ Envelope \in Nat \ {0} /\ HistoryBlocks \in Nat
      /\ Len(g) \in Nat /\ Len(h) \in Nat
  BY ChimeBounds
<1> DEFINE new == Atmost(f + n, HistoryBlocks)
           scanned == Atmost(k + n, Len(h))
<1>2. new \in Nat /\ new <= Len(h) /\ new <= f + n /\ scanned \in 0..Len(h)
  BY <1>1 DEF Atmost
<1> SUFFICES ASSUME NEW e \in Matches(h, Len(h) - new) PROVE FALSE
  OBVIOUS
<1>3. /\ e \in (Len(h) - new + Envelope)..Len(h)
      /\ \A i \in 1..Envelope : h[e - Envelope + i].sound = Chime[i]
  BY DEF Matches
<1>4. ~(e \in (Len(h) - scanned + Envelope)..Len(h))
  BY <1>3 DEF Matches
<1>5. e \in Nat /\ e >= Envelope /\ e < Len(h) - scanned + Envelope
  BY <1>1, <1>2, <1>3, <1>4
<1>6. k = Envelope /\ scanned = k + n
  <2>1. scanned < new /\ scanned < Len(h) /\ new <= f + n
    BY <1>1, <1>2, <1>3, <1>5
  <2>2. scanned = k + n
    BY <1>1, <2>1 DEF Atmost
  <2>3. k < f
    BY <1>1, <1>2, <2>1, <2>2
  <2> QED
    BY <1>1, <2>2, <2>3 DEF Atmost
<1>7. Len(g) + n - Len(h) \in Nat
  BY <1>1 DEF Atmost
<1> HIDE DEF new, scanned
<1> DEFINE d == Len(g) + n - Len(h)
<1>8. d \in Nat /\ e < Len(h) - n
  BY <1>1, <1>2, <1>5, <1>6, <1>7
<1>9. e + d \in (Len(g) - f + Envelope)..Len(g)
  <2>1. e >= Len(h) - new + Envelope /\ f \in Nat /\ e \in Nat
    BY <1>1, <1>2, <1>3, <1>5
  <2> QED
    BY <1>1, <1>2, <1>8, <2>1, OldEnd
<1> DEFINE old == e + d
<1>10. old \in (Len(g) - f + Envelope)..Len(g) /\ old = e + d
  BY <1>9
<1> HIDE DEF d, old
<1>11. \A i \in 1..Envelope : g[old - Envelope + i].sound = Chime[i]
  <2> SUFFICES ASSUME NEW i \in 1..Envelope
               PROVE  g[old - Envelope + i].sound = Chime[i]
    OBVIOUS
  <2>1. e - Envelope + i \in 1..Len(h) /\ e - Envelope + i <= Len(h) - n
    BY <1>1, <1>5, <1>8
  <2>2. h[e - Envelope + i] = g[e - Envelope + i + d]
    BY <2>1 DEF Shifted, d
  <2>3. e - Envelope + i + d = (e + d) - Envelope + i
    BY <1>1, <1>5, <1>8
  <2>4. (e + d) - Envelope + i = old - Envelope + i
    BY <1>10, Zenon
  <2> QED
    BY <1>3, <2>2, <2>3, <2>4
<1> QED
  BY <1>10, <1>11 DEF Matches

\* A window that is found among what is not counted counts once.
LEMMA PlayedOnce ==
  ASSUME NEW h \in Seq(PlayedBlock), NEW f \in Nat, Unspent(h, f),
         NEW from \in Nat, from >= Len(h) - f, FirstPlayed(h, from),
         Len(h) <= HistoryBlocks, countedTwice \in BOOLEAN, ~countedTwice,
         idle' \in 0..IdleCap, padded' \in 0..IdleCap
  PROVE  ChimeInv'
<1>1. Envelope \in Nat \ {0} /\ HistoryBlocks \in Nat /\ Len(h) \in Nat
  BY ChimeBounds
<1>2. PICK e \in Matches(h, from) : Played(h, e)
  BY DEF FirstPlayed
<1>3. e \in (from + Envelope)..Len(h)
  BY DEF Matches
<1> DEFINE window == (e - Envelope + 1)..e
<1>4. \A i \in window : i \in 1..Len(h) /\ ~h[i].spent
  <2>1. \A i \in window : i \in 1..Len(h) /\ i > Len(h) - f
    BY <1>1, <1>3
  <2> QED
    BY <2>1 DEF Unspent
<1>5. ~countedTwice' /\ countedTwice' \in BOOLEAN
  BY <1>2, <1>4, Zenon DEF Played
<1>6. /\ history' = [i \in 1..Len(h) |->
                       IF i \in window THEN [h[i] EXCEPT !.spent = TRUE] ELSE h[i]]
      /\ fresh' = Len(h) - e /\ scored' = 0 /\ markAge' = 0
  BY <1>2 DEF Played
<1>7. ~marker' /\ marker' \in BOOLEAN
  BY <1>2, Zenon DEF Played
<1>8. history' \in Seq(PlayedBlock) /\ Len(history') = Len(h)
  <2>1. \A i \in 1..Len(h) : h[i] \in PlayedBlock
    BY ElementOfSeq
  <2>2. \A i \in 1..Len(h) : [h[i] EXCEPT !.spent = TRUE] \in PlayedBlock
    BY <2>1 DEF PlayedBlock
  <2> HIDE DEF window
  <2> QED
    BY <1>1, <1>6, <2>1, <2>2
<1>9. fresh' \in 0..HistoryBlocks /\ fresh' <= Len(history')
  BY <1>1, <1>3, <1>6, <1>8
<1>10. Unspent(history', fresh')
  <2>1. ASSUME NEW i \in 1..Len(h), i > e PROVE ~history'[i].spent
    <3>1. i \notin window /\ i > Len(h) - f
      BY <1>1, <1>3, <2>1
    <3> QED
      BY <1>6, <3>1 DEF Unspent
  <2> QED
    BY <1>1, <1>3, <1>6, <1>8, <2>1 DEF Unspent
<1>11. AckBeepTypeOK'
  BY <1>1, <1>5, <1>6, <1>7, <1>8, <1>9, AckBeepBounds
     DEF AckBeepTypeOK, PlayedBlock
<1> QED
  BY <1>5, <1>7, <1>9, <1>10, <1>11 DEF ChimeInv, NoChimeMissed

\* New blocks are searched together with those that were scored before.
LEMMA ScoredOnce ==
  ASSUME ChimeInv, marker, NEW n \in Nat, NEW h \in Seq(PlayedBlock),
         Len(h) = Atmost(Len(history) + n, HistoryBlocks), Shifted(history, h, n),
         Unspent(h, Atmost(fresh + n, HistoryBlocks)),
         ScoreAndTimeOut(h, n), idle' \in 0..IdleCap, padded' \in 0..IdleCap
  PROVE  ChimeInv'
<1> DEFINE f == Atmost(fresh + n, HistoryBlocks)
           from == ScannedAfter(h, n)
<1>1. /\ history \in Seq(PlayedBlock) /\ Len(history) \in Nat /\ Len(h) \in Nat
      /\ fresh \in 0..Len(history) /\ scored = Atmost(fresh, Envelope)
      /\ scored \in Nat /\ markAge \in 0..MarkTimeout /\ MarkTimeout \in Nat
      /\ HistoryBlocks \in Nat /\ Envelope \in Nat
  BY ChimeBounds, AckBeepBounds DEF ChimeInv, AckBeepTypeOK, PlayedBlock
<1>2. countedTwice \in BOOLEAN /\ ~countedTwice
  BY Zenon DEF ChimeInv, AckBeepTypeOK
<1>3. /\ f \in 0..Len(h) /\ Len(h) <= HistoryBlocks
      /\ from \in Nat /\ from >= Len(h) - f
  BY <1>1 DEF Atmost, ScannedAfter
<1>4. CASE Matches(h, from) # {}
  <2>1. FirstPlayed(h, from)
    BY <1>4 DEF ScoreAndTimeOut
  <2> HIDE DEF f, from
  <2>2. Unspent(h, f) /\ f \in Nat
    BY <1>3 DEF f
  <2> QED
    BY <1>2, <1>3, <2>1, <2>2, PlayedOnce
<1>5. CASE Matches(h, from) = {}
  <2>1. /\ history' = h /\ fresh' = f
        /\ markAge' = IF markAge < MarkTimeout THEN markAge ELSE 0
        /\ scored' = IF markAge < MarkTimeout THEN Atmost(scored + n, Envelope)
                     ELSE 0
    BY <1>5 DEF ScoreAndTimeOut
  <2>2. marker' = (markAge < MarkTimeout)
    BY <1>5 DEF ScoreAndTimeOut
  <2>3. marker' \in BOOLEAN /\ (marker' => markAge < MarkTimeout)
    <3>1. (markAge < MarkTimeout) \in BOOLEAN
      OBVIOUS
    <3> QED
      BY <2>2, <3>1, Zenon
  <2>4. countedTwice' \in BOOLEAN /\ ~countedTwice'
    BY <1>2, <1>5, Zenon DEF ScoreAndTimeOut
  <2>5. scored' \in 0..Envelope /\ markAge' \in 0..MarkTimeout
        /\ (marker' => scored' = Atmost(fresh', Envelope))
    BY <1>1, <1>3, <2>1, <2>3, ChimeBounds DEF Atmost
  <2>6. NoChimeMissed'
    <3>1. Matches(history, Len(history) - fresh) = {}
      <4>1. Unsearched = fresh
        BY <1>1 DEF Unsearched, Atmost
      <4> QED
        BY <4>1 DEF ChimeInv, NoChimeMissed
    <3>2. Matches(h, Len(h) - Atmost(scored + n, Len(h))) = {}
      BY <1>5 DEF ScannedAfter
    <3>3. Matches(h, Len(h) - f) = {}
      BY <1>1, <3>1, <3>2, NothingLeftOut
    <3>4. Unsearched' = f
      BY <1>1, <1>3, <2>1 DEF Unsearched, Atmost
    <3> HIDE DEF f
    <3> QED
      BY <2>1, <3>3, <3>4 DEF NoChimeMissed, Matches
  <2> HIDE DEF f, from
  <2>7. Unspent(history', fresh')
    BY <2>1 DEF f
  <2>8. AckBeepTypeOK'
    <3>1. fresh' \in 0..HistoryBlocks /\ Len(history') <= HistoryBlocks
      BY <1>1, <1>3, <2>1
    <3> QED
      BY <2>1, <2>3, <2>4, <2>5, <3>1 DEF AckBeepTypeOK, PlayedBlock
  <2> QED
    BY <1>3, <2>1, <2>4, <2>5, <2>6, <2>7, <2>8 DEF ChimeInv
<1> QED
  BY <1>4, <1>5

\* Every step of the chime keeps ChimeInv.
LEMMA ChimeStep == ChimeInv /\ [AckBeepNext]_ackBeepVars => ChimeInv'
<1> SUFFICES ASSUME ChimeInv, [AckBeepNext]_ackBeepVars PROVE ChimeInv'
  OBVIOUS
<1>1. /\ history \in Seq(PlayedBlock) /\ Len(history) \in 0..HistoryBlocks
      /\ fresh \in 0..Len(history) /\ scored \in 0..Envelope
      /\ idle \in 0..IdleCap /\ padded \in 0..IdleCap /\ markAge \in 0..MarkTimeout
      /\ Unspent(history, fresh) /\ MarkTimeout \in Nat
  BY ChimeBounds, AckBeepBounds DEF ChimeInv, AckBeepTypeOK, PlayedBlock
<1>2. \A sound \in Sound : Block(sound) \in PlayedBlock /\ ~Block(sound).spent
  BY DEF Block, PlayedBlock
<1>3. countedTwice \in BOOLEAN /\ ~countedTwice /\ marker \in BOOLEAN
  BY Zenon DEF ChimeInv, AckBeepTypeOK
<1>4. CASE MarkerArrives
  <2> DEFINE from == Len(history) - Unsearched
  <2>1. Unsearched = fresh /\ from \in Nat /\ from >= Len(history) - fresh
    BY <1>1, ChimeBounds DEF Unsearched, Atmost
  <2>2. CASE Matches(history, from) # {}
    <3>1. FirstPlayed(history, from) /\ UNCHANGED <<idle, padded>>
      BY <1>4, <2>2 DEF MarkerArrives
    <3>2. /\ history \in Seq(PlayedBlock) /\ Len(history) <= HistoryBlocks
          /\ fresh \in Nat /\ Unspent(history, fresh)
          /\ idle' \in 0..IdleCap /\ padded' \in 0..IdleCap
      BY <1>1, <3>1, ChimeBounds
    <3> HIDE DEF from
    <3> QED
      BY <1>3, <2>1, <3>1, <3>2, PlayedOnce
  <2>3. CASE Matches(history, from) = {}
    <3>1. /\ scored' = Atmost(Unsearched, Envelope) /\ markAge' = 0
          /\ UNCHANGED <<history, fresh, idle, padded>>
      BY <1>4, <2>3 DEF MarkerArrives
    <3>2. marker' \in BOOLEAN /\ countedTwice' \in BOOLEAN /\ ~countedTwice'
      BY <1>3, <1>4, <2>3, Zenon DEF MarkerArrives
    <3>3. scored' \in 0..Envelope /\ scored' = Atmost(fresh', Envelope)
      BY <1>1, <2>1, <3>1, ChimeBounds DEF Atmost
    <3>4. AckBeepTypeOK'
      BY <1>1, <3>1, <3>2, <3>3, ChimeBounds DEF AckBeepTypeOK, ChimeInv
    <3>5. NoChimeMissed'
      BY <2>3, <3>1 DEF NoChimeMissed, Matches, Unsearched
    <3> QED
      BY <1>1, <3>1, <3>2, <3>3, <3>4, <3>5 DEF ChimeInv, Unspent
  <2> QED
    BY <2>2, <2>3
<1>5. CASE FrameFed
  <2>1. idle' \in 0..IdleCap /\ padded' \in 0..IdleCap
    BY <1>5, ChimeBounds DEF FrameFed
  <2>2. PICK sound \in Sound :
          LET h == Appended(history, <<Block(sound)>>)
          IN  IF marker THEN ScoreAndTimeOut(h, 1)
              ELSE /\ history' = h /\ fresh' = Atmost(fresh + 1, HistoryBlocks)
                   /\ UNCHANGED <<marker, markAge, scored, countedTwice>>
    BY <1>5 DEF FrameFed
  <2> DEFINE blocks == <<Block(sound)>>
             h == Appended(history, blocks)
  <2>3. /\ blocks \in Seq(PlayedBlock) /\ Len(blocks) = 1
        /\ \A i \in 1..Len(blocks) : ~blocks[i].spent
    BY <1>2
  <2> HIDE DEF blocks
  <2>4. Len(history) <= HistoryBlocks /\ fresh \in Nat
    BY <1>1, ChimeBounds
  <2>5. /\ h \in Seq(PlayedBlock) /\ Len(h) = Atmost(Len(history) + 1, HistoryBlocks)
        /\ Unspent(h, Atmost(fresh + 1, HistoryBlocks)) /\ Shifted(history, h, 1)
    BY <1>1, <2>3, <2>4, AppendedBlocks
  <2>6. CASE marker
    <3>1. ScoreAndTimeOut(h, 1)
      BY <2>2, <2>6 DEF blocks
    <3> HIDE DEF h
    <3> QED
      BY <2>1, <2>5, <2>6, <3>1, ScoredOnce
  <2>7. CASE ~marker
    <3>1. history' = h /\ fresh' = Atmost(fresh + 1, HistoryBlocks)
          /\ scored' = scored /\ markAge' = markAge
      BY <2>2, <2>7 DEF blocks
    <3>2. /\ ~marker' /\ marker' \in BOOLEAN
          /\ countedTwice' \in BOOLEAN /\ ~countedTwice'
      BY <1>3, <2>2, <2>7, Zenon
    <3> HIDE DEF h
    <3>3. /\ fresh' \in 0..HistoryBlocks /\ fresh' <= Len(history')
          /\ Len(history') <= HistoryBlocks
      BY <1>1, <2>5, <3>1, ChimeBounds DEF Atmost
    <3>4. AckBeepTypeOK'
      BY <1>1, <2>1, <2>5, <3>1, <3>2, <3>3 DEF AckBeepTypeOK, PlayedBlock
    <3> QED
      BY <2>5, <3>1, <3>2, <3>3, <3>4 DEF ChimeInv, NoChimeMissed
  <2> QED
    BY <2>6, <2>7
<1>6. CASE Ticked
  <2> DEFINE want == IF idle >= IdlePad /\ Atmost(idle, Envelope) > padded
                     THEN Atmost(idle, Envelope) - padded ELSE 0
             blocks == [i \in 1..want |-> Block(0)]
             h == Appended(history, blocks)
  <2>1. want \in Nat /\ padded + want \in 0..IdleCap
    BY <1>1, ChimeBounds, AckBeepBounds DEF Atmost
  <2>2. marker /\ ScoreAndTimeOut(h, want) /\ padded' = padded + want
        /\ idle' = idle
    BY <1>6 DEF Ticked
  <2> HIDE DEF want
  <2>3. /\ blocks \in Seq(PlayedBlock) /\ Len(blocks) = want
        /\ \A i \in 1..Len(blocks) : ~blocks[i].spent
    <3>1. Block(0) \in PlayedBlock /\ ~Block(0).spent
      BY <1>2, AckBeepBounds
    <3> QED
      BY <2>1, <3>1
  <2> HIDE DEF blocks
  <2>4. Len(history) <= HistoryBlocks /\ fresh \in Nat
    BY <1>1, ChimeBounds
  <2>5. /\ h \in Seq(PlayedBlock) /\ Len(h) = Atmost(Len(history) + want, HistoryBlocks)
        /\ Unspent(h, Atmost(fresh + want, HistoryBlocks)) /\ Shifted(history, h, want)
    BY <1>1, <2>3, <2>4, AppendedBlocks
  <2> HIDE DEF h
  <2> QED
    BY <1>1, <2>1, <2>2, <2>5, ScoredOnce
<1>7. CASE BlockElapses
  <2>1. /\ idle' = Atmost(idle + 1, IdleCap)
        /\ UNCHANGED <<history, fresh, scored, padded>>
        /\ markAge' = IF marker THEN markAge + 1 ELSE 0
        /\ marker => markAge < MarkTimeout
    BY <1>7 DEF BlockElapses
  <2>2. /\ (marker' => marker) /\ marker' \in BOOLEAN
        /\ countedTwice' \in BOOLEAN /\ ~countedTwice'
    BY <1>3, <1>7, Zenon DEF BlockElapses
  <2>3. idle' \in 0..IdleCap /\ markAge' \in 0..MarkTimeout
    BY <1>1, <2>1, ChimeBounds DEF Atmost
  <2>4. AckBeepTypeOK'
    BY <1>1, <2>1, <2>2, <2>3 DEF AckBeepTypeOK, ChimeInv
  <2> QED
    BY <1>1, <2>1, <2>2, <2>4
       DEF ChimeInv, Unspent, NoChimeMissed, Unsearched, Matches
<1>8. CASE UNCHANGED ackBeepVars
  BY <1>8 DEF ackBeepVars, ChimeInv, AckBeepTypeOK, Unspent, NoChimeMissed,
              Unsearched, Matches
<1> QED
  BY <1>4, <1>5, <1>6, <1>7, <1>8 DEF AckBeepNext

\* ChimeInv holds at the start.
LEMMA ChimeInitially == DeviceInit => ChimeInv
<1> SUFFICES ASSUME AckBeepInit PROVE ChimeInv
  BY DEF DeviceInit
<1>1. /\ history = <<>> /\ fresh = 0 /\ scored = 0 /\ idle = 0 /\ padded = 0
      /\ markAge = 0
  BY DEF AckBeepInit
<1>2. /\ ~countedTwice /\ countedTwice \in BOOLEAN
      /\ ~marker /\ marker \in BOOLEAN
  BY Zenon DEF AckBeepInit
<1> QED
  BY <1>1, <1>2, ChimeBounds, AckBeepBounds
     DEF ChimeInv, AckBeepTypeOK, Unspent, NoChimeMissed

\* ChimeInv holds throughout.
LEMMA ChimeAlways == DeviceSpec => []ChimeInv
<1>1. ChimeInv /\ [DeviceNext]_deviceVars => ChimeInv'
  BY ChimeSteps, ChimeStep
<1> QED
  BY ChimeInitially, <1>1, PTL DEF DeviceSpec

\* A block of sound is evidence for one acknowledgement only, whatever the order
\* of markers, timeouts and audio (ack_beep.c:75-135).
THEOREM ChimesCountOnce == DeviceSpec => []ChimeCountsOnce
<1>1. ChimeInv => ChimeCountsOnce
  BY DEF ChimeInv, ChimeCountsOnce
<1> QED
  BY ChimeAlways, <1>1, PTL

\* No chime that was played is missed while its marker waits, although every block
\* is looked at once, whichever of marker and audio is first (ack_beep.c:92-135).
THEOREM NoChimesMissed == DeviceSpec => []NoChimeMissed
<1>1. ChimeInv => NoChimeMissed
  BY DEF ChimeInv
<1> QED
  BY ChimeAlways, <1>1, PTL

-----------------------------------------------------------------------------
(* The Wi-Fi station.                                                       *)

\* Every step of the device is a step of the station, or leaves it alone.
LEMMA WifiSteps == [DeviceNext]_deviceVars => [WifiNext]_wifiVars
  BY DEF DeviceNext, deviceVars

\* The events of the driver, and those that may follow one in the queue.
WifiEvent == {"joined", "lost", "leased"}
EventsAfter == [joined |-> {"leased", "lost"}, leased |-> {"lost"},
                lost |-> {"joined", "lost"}]
Chained(q) == \A i \in 1..Len(q) - 1 : q[i + 1] \in EventsAfter[q[i]]

\* What has become of the link since the last event of the queue.
LinkAfter == [joined |-> {"joined"}, leased |-> {"leased"},
              lost |-> {"off", "joining"}]

\* The inductive invariant of the station: the queue tells the history of the
\* link, whose end is what the link is now, and what the handler last believed
\* is what the first event of it ends.
WifiInv ==
  /\ WifiTypeOK
  /\ Chained(wifiEvents)
  /\ wifiEvents # <<>> => link \in LinkAfter[wifiEvents[Len(wifiEvents)]]
  /\ wifiEvents # <<>> /\ wifiUp => wifiEvents[1] = "lost"
  /\ NextAttemptOwned

\* An event is posted behind those it may follow.
LEMMA EventPosted ==
  ASSUME NEW q \in Seq(WifiEvent), Chained(q), NEW event \in WifiEvent,
         q # <<>> => event \in EventsAfter[q[Len(q)]]
  PROVE  /\ Append(q, event) \in Seq(WifiEvent) /\ Append(q, event) # <<>>
         /\ Chained(Append(q, event))
         /\ Append(q, event)[Len(Append(q, event))] = event
         /\ Append(q, event)[1] = IF q = <<>> THEN event ELSE q[1]
<1> DEFINE r == Append(q, event)
<1>1. /\ r \in Seq(WifiEvent) /\ Len(r) = Len(q) + 1 /\ Len(q) \in Nat
      /\ \A i \in 1..Len(q) : r[i] = q[i]
      /\ r[Len(q) + 1] = event
  BY AppendProperties
<1>2. q # <<>> <=> Len(q) > 0
  BY EmptySeq
<1> HIDE DEF r
<1>3. ASSUME NEW i \in 1..Len(r) - 1
      PROVE  r[i + 1] \in EventsAfter[r[i]]
  <2>1. i \in 1..Len(q) /\ r[i] = q[i]
    BY <1>1
  <2>2. CASE i = Len(q)
    BY <1>1, <1>2, <2>1, <2>2
  <2>3. CASE i # Len(q)
    <3>1. i \in 1..Len(q) - 1 /\ i + 1 \in 1..Len(q)
      BY <1>1, <2>1, <2>3
    <3> QED
      BY <1>1, <2>1, <3>1 DEF Chained
  <2> QED
    BY <2>2, <2>3
<1>4. r # <<>> /\ r[Len(r)] = event /\ r[1] = IF q = <<>> THEN event ELSE q[1]
  BY <1>1, <1>2, EmptySeq
<1> QED
  BY <1>1, <1>3, <1>4 DEF Chained, r

\* The first event is taken from the queue.
LEMMA EventTaken ==
  ASSUME NEW q \in Seq(WifiEvent), Chained(q), q # <<>>
  PROVE  /\ Tail(q) \in Seq(WifiEvent) /\ Chained(Tail(q))
         /\ Head(q) = q[1] /\ q[1] \in WifiEvent
         /\ Tail(q) # <<>> => /\ Tail(q)[1] \in EventsAfter[q[1]]
                              /\ Tail(q)[Len(Tail(q))] = q[Len(q)]
         /\ Tail(q) = <<>> => q[Len(q)] = q[1]
<1> DEFINE r == Tail(q)
<1>1. /\ r \in Seq(WifiEvent) /\ Len(r) = Len(q) - 1 /\ Len(q) \in Nat \ {0}
      /\ \A i \in 1..Len(r) : r[i] = q[i + 1]
      /\ Head(q) = q[1] /\ q[1] \in WifiEvent
  BY Shortened, EmptySeq, ElementOfSeq
<1>2. r # <<>> <=> Len(r) > 0
  BY <1>1, EmptySeq
<1> HIDE DEF r
<1>3. ASSUME NEW i \in 1..Len(r) - 1
      PROVE  r[i + 1] \in EventsAfter[r[i]]
  <2>1. i + 1 \in 1..Len(q) - 1 /\ r[i] = q[i + 1] /\ r[i + 1] = q[(i + 1) + 1]
    BY <1>1
  <2> QED
    BY <2>1 DEF Chained
<1>4. ASSUME r # <<>>
      PROVE  r[1] \in EventsAfter[q[1]] /\ r[Len(r)] = q[Len(q)]
  <2>1. 1 \in 1..Len(q) - 1 /\ r[1] = q[1 + 1]
    BY <1>1, <1>2, <1>4
  <2>2. Len(r) \in 1..Len(r) /\ Len(r) + 1 = Len(q)
    BY <1>1, <1>2, <1>4
  <2> QED
    BY <1>1, <2>1, <2>2 DEF Chained
<1>5. r = <<>> => q[Len(q)] = q[1]
  BY <1>1, <1>2
<1> QED
  BY <1>1, <1>3, <1>4, <1>5 DEF Chained, r

\* The station stays in its types.
LEMMA WifiTypeStep == WifiTypeOK /\ [WifiNext]_wifiVars => WifiTypeOK'
<1> SUFFICES ASSUME WifiTypeOK, [WifiNext]_wifiVars PROVE WifiTypeOK'
  OBVIOUS
<1>1. wifiEvents' \in Seq(WifiEvent)
  <2>1. wifiEvents \in Seq(WifiEvent)
    BY DEF WifiTypeOK, WifiEvent
  <2>2. \A event \in WifiEvent : Append(wifiEvents, event) \in Seq(WifiEvent)
    BY <2>1
  <2>3. wifiEvents # <<>> => Tail(wifiEvents) \in Seq(WifiEvent)
    BY <2>1
  <2>4. CASE Joins \/ JoinFails \/ LeaseArrives \/ LinkLost \/ Dropped
    BY <2>1, <2>2, <2>4
       DEF Joins, JoinFails, LeaseArrives, LinkLost, Dropped, WifiEvent
  <2>5. CASE WifiHandler
    BY <2>3, <2>5 DEF WifiHandler, JoinedHandled, LostHandled, LeasedHandled
  <2>6. CASE ApChanges \/ LeaseMissing \/ DeadlinePasses \/ Rejoins
    BY <2>1, <2>6 DEF ApChanges, LeaseMissing, DeadlinePasses, Rejoins
  <2>7. CASE UNCHANGED wifiVars
    BY <2>1, <2>7 DEF wifiVars
  <2> QED
    BY <2>4, <2>5, <2>6, <2>7 DEF WifiNext, WifiTimers
<1>2. wifiFaults' \in 0..WifiFaults
  <2>1. wifiFaults \in 0..WifiFaults /\ WifiFaults \in Nat
    BY WifiBounds DEF WifiTypeOK
  <2>2. UNCHANGED wifiFaults \/ Fault
    BY DEF WifiNext, WifiHandler, WifiTimers, ApChanges, Joins, JoinFails,
           LeaseArrives, LeaseMissing, LinkLost, JoinedHandled, LostHandled,
           LeasedHandled, DeadlinePasses, Dropped, Rejoins, wifiVars
  <2> QED
    BY <2>1, <2>2 DEF Fault
<1>3. /\ link' \in {"off", "joining", "joined", "leased"}
      /\ ipTimer' \in {"off", "armed", "fired"} /\ inRange' \in Ap
      /\ pin' \in Ap \cup {NoAp} /\ cache' \in Ap \cup {NoAp}
  BY DEF WifiTypeOK, WifiNext, WifiHandler, WifiTimers, ApChanges, Joins,
         JoinFails, LeaseArrives, LeaseMissing, LinkLost, JoinedHandled,
         LostHandled, LeasedHandled, DeadlinePasses, Dropped, Rejoins, wifiVars,
         joinVars, Deadline, Pinned
<1>4. /\ fastRejoin' \in BOOLEAN /\ leaseless' \in BOOLEAN /\ wifiUp' \in BOOLEAN
      /\ joinTimer' \in BOOLEAN /\ fastTry' \in BOOLEAN
  BY Zenon DEF WifiTypeOK, WifiNext, WifiHandler, WifiTimers, ApChanges, Joins,
         JoinFails, LeaseArrives, LeaseMissing, LinkLost, JoinedHandled,
         LostHandled, LeasedHandled, DeadlinePasses, Dropped, Rejoins, wifiVars,
         joinVars, RetryArmed
<1> QED
  BY <1>1, <1>2, <1>3, <1>4 DEF WifiTypeOK, WifiEvent

\* What the driver reports of a link that changes keeps WifiInv.
LEMMA WifiPosted ==
  ASSUME WifiInv, WifiTypeOK', NEW event \in WifiEvent,
         wifiEvents' = Append(wifiEvents, event), wifiUp' = wifiUp,
         link' \in LinkAfter[event],
         \/ link = "joining" /\ event \in {"joined", "lost"}
         \/ link = "joined" /\ event \in {"leased", "lost"}
         \/ link = "leased" /\ event = "lost"
  PROVE  WifiInv'
<1>1. wifiEvents \in Seq(WifiEvent) /\ Chained(wifiEvents)
  BY DEF WifiInv, WifiTypeOK, WifiEvent
<1>2. wifiEvents # <<>> => event \in EventsAfter[wifiEvents[Len(wifiEvents)]]
  <2> SUFFICES ASSUME wifiEvents # <<>>
               PROVE  event \in EventsAfter[wifiEvents[Len(wifiEvents)]]
    OBVIOUS
  <2>1. wifiEvents[Len(wifiEvents)] \in WifiEvent
    BY <1>1, EmptySeq, ElementOfSeq
  <2>2. link \in LinkAfter[wifiEvents[Len(wifiEvents)]]
    BY DEF WifiInv
  <2> HIDE DEF WifiInv
  <2>3. \A last \in WifiEvent : link \in LinkAfter[last] => event \in EventsAfter[last]
    BY DEF LinkAfter, EventsAfter, WifiEvent
  <2> QED
    BY <2>1, <2>2, <2>3
<1>3. /\ wifiEvents' # <<>> /\ Chained(wifiEvents')
      /\ wifiEvents'[Len(wifiEvents')] = event
      /\ wifiEvents'[1] = IF wifiEvents = <<>> THEN event ELSE wifiEvents[1]
  BY <1>1, <1>2, EventPosted
<1>4. wifiUp => wifiEvents'[1] = "lost"
  <2>1. CASE wifiEvents = <<>>
    BY <1>3, <2>1 DEF WifiInv, NextAttemptOwned
  <2>2. CASE wifiEvents # <<>>
    BY <1>3, <2>2 DEF WifiInv
  <2> QED
    BY <2>1, <2>2
<1> QED
  BY <1>3, <1>4 DEF WifiInv, NextAttemptOwned, Chained

\* What the handler does with the first event keeps WifiInv.
LEMMA WifiHandled ==
  ASSUME WifiInv, WifiTypeOK', wifiEvents # <<>>,
         wifiEvents' = Tail(wifiEvents), link' = link,
         \/ Head(wifiEvents) = "joined" /\ ipTimer' # "off" /\ wifiUp' = wifiUp
         \/ Head(wifiEvents) = "lost" /\ joinTimer' /\ ~wifiUp'
         \/ Head(wifiEvents) = "leased" /\ wifiUp'
  PROVE  WifiInv'
<1>1. wifiEvents \in Seq(WifiEvent) /\ Chained(wifiEvents)
  BY DEF WifiInv, WifiTypeOK, WifiEvent
<1> DEFINE first == wifiEvents[1]
           last == wifiEvents[Len(wifiEvents)]
<1>2. /\ Chained(wifiEvents') /\ Head(wifiEvents) = first /\ first \in WifiEvent
      /\ wifiEvents' # <<>> => /\ wifiEvents'[1] \in EventsAfter[first]
                               /\ wifiEvents'[Len(wifiEvents')] = last
      /\ wifiEvents' = <<>> => last = first
  BY <1>1, EventTaken
<1>3. link \in LinkAfter[last] /\ (wifiUp => first = "lost")
  BY DEF WifiInv
<1> HIDE DEF last, first
<1>4. wifiEvents' # <<>> /\ wifiUp' => wifiEvents'[1] = "lost"
  <2>1. first = "leased" => EventsAfter[first] = {"lost"}
    BY DEF EventsAfter
  <2>2. wifiUp' => first = "leased"
    BY <1>2, <1>3
  <2> QED
    BY <1>2, <2>1, <2>2
<1>5. NextAttemptOwned'
  <2> SUFFICES ASSUME wifiEvents' = <<>>
               PROVE  /\ link' = "off" => joinTimer'
                      /\ link' = "joined" => ipTimer' # "off"
                      /\ wifiUp' <=> link' = "leased"
    BY DEF NextAttemptOwned
  <2>1. link' \in LinkAfter[first]
    BY <1>2, <1>3
  <2>2. CASE first = "joined"
    BY <1>2, <1>3, <2>1, <2>2 DEF LinkAfter
  <2>3. CASE first = "lost"
    BY <1>2, <2>1, <2>3 DEF LinkAfter
  <2>4. CASE first = "leased"
    BY <1>2, <2>1, <2>4 DEF LinkAfter
  <2> QED
    BY <1>2, <2>2, <2>3, <2>4 DEF WifiEvent
<1> QED
  BY <1>2, <1>3, <1>4, <1>5 DEF WifiInv, Chained

\* Every step of the station keeps WifiInv.
LEMMA WifiStep == WifiInv /\ [WifiNext]_wifiVars => WifiInv'
<1> SUFFICES ASSUME WifiInv, [WifiNext]_wifiVars PROVE WifiInv'
  OBVIOUS
<1>1. WifiTypeOK'
  BY WifiTypeStep DEF WifiInv
<1>2. CASE Joins
  <2>1. /\ wifiEvents' = Append(wifiEvents, "joined") /\ wifiUp' = wifiUp
        /\ link = "joining" /\ link' = "joined"
    BY <1>2 DEF Joins
  <2>2. "joined" \in WifiEvent /\ link' \in LinkAfter["joined"]
    BY <2>1 DEF WifiEvent, LinkAfter
  <2> QED
    BY <1>1, <2>1, <2>2, WifiPosted
<1>3. CASE JoinFails \/ LinkLost
  <2>1. /\ wifiEvents' = Append(wifiEvents, "lost") /\ wifiUp' = wifiUp
        /\ link \in {"joining", "joined", "leased"} /\ link' = "off"
    BY <1>3 DEF JoinFails, LinkLost
  <2>2. "lost" \in WifiEvent /\ link' \in LinkAfter["lost"]
    BY <2>1 DEF WifiEvent, LinkAfter
  <2> QED
    BY <1>1, <2>1, <2>2, WifiPosted
<1>4. CASE LeaseArrives
  <2>1. /\ wifiEvents' = Append(wifiEvents, "leased") /\ wifiUp' = wifiUp
        /\ link = "joined" /\ link' = "leased"
    BY <1>4 DEF LeaseArrives
  <2>2. "leased" \in WifiEvent /\ link' \in LinkAfter["leased"]
    BY <2>1 DEF WifiEvent, LinkAfter
  <2> QED
    BY <1>1, <2>1, <2>2, WifiPosted
<1>5. CASE ApChanges \/ LeaseMissing \/ UNCHANGED wifiVars
  <2>1. UNCHANGED <<link, wifiEvents, wifiUp, ipTimer, joinTimer>>
    BY <1>5 DEF ApChanges, LeaseMissing, wifiVars
  <2> QED
    BY <1>1, <2>1 DEF WifiInv, NextAttemptOwned, Chained
<1>6. CASE WifiHandler
  <2>1. wifiEvents # <<>> /\ wifiEvents' = Tail(wifiEvents) /\ link' = link
    BY <1>6 DEF WifiHandler, JoinedHandled, LostHandled, LeasedHandled
  <2>2. CASE JoinedHandled
    <3>1. Head(wifiEvents) = "joined" /\ ipTimer' # "off" /\ wifiUp' = wifiUp
      BY <2>2 DEF JoinedHandled, Deadline
    <3> QED
      BY <1>1, <2>1, <3>1, WifiHandled
  <2>3. CASE LostHandled
    <3>1. Head(wifiEvents) = "lost" /\ joinTimer' /\ ~wifiUp'
      BY <2>3, Zenon DEF LostHandled
    <3> QED
      BY <1>1, <2>1, <3>1, WifiHandled
  <2>4. CASE LeasedHandled
    <3>1. Head(wifiEvents) = "leased" /\ wifiUp'
      BY <2>4, Zenon DEF LeasedHandled
    <3> QED
      BY <1>1, <2>1, <3>1, WifiHandled
  <2> QED
    BY <1>6, <2>2, <2>3, <2>4 DEF WifiHandler
<1>7. CASE DeadlinePasses
  <2>1. ipTimer' = "fired" /\ UNCHANGED <<link, wifiEvents, wifiUp, joinTimer>>
    BY <1>7 DEF DeadlinePasses
  <2> QED
    BY <1>1, <2>1 DEF WifiInv, NextAttemptOwned, Chained
<1>8. CASE Dropped
  <2>1. wifiUp' = wifiUp
    BY <1>8 DEF Dropped
  <2>2. CASE link = "off"
    <3>1. /\ link' = "off" /\ wifiEvents' = wifiEvents
          /\ joinTimer' = joinTimer \/ joinTimer'
      BY <1>8, <2>2, Zenon DEF Dropped
    <3> QED
      BY <1>1, <2>1, <2>2, <3>1 DEF WifiInv, NextAttemptOwned, Chained
  <2>3. CASE link # "off"
    <3>1. /\ link' = "off" /\ wifiEvents' = Append(wifiEvents, "lost")
          /\ link \in {"joining", "joined", "leased"}
      BY <1>8, <2>3 DEF Dropped, WifiInv, WifiTypeOK
    <3>2. "lost" \in WifiEvent /\ link' \in LinkAfter["lost"]
      BY <3>1 DEF WifiEvent, LinkAfter
    <3> QED
      BY <1>1, <2>1, <3>1, <3>2, WifiPosted
  <2> QED
    BY <2>2, <2>3
<1>9. CASE Rejoins
  <2>1. UNCHANGED <<wifiEvents, wifiUp, ipTimer>>
    BY <1>9 DEF Rejoins
  <2>2. CASE link' = link
    <3>1. link # "off" \/ joinTimer'
      BY <1>9, <2>2, Zenon DEF Rejoins, RetryArmed
    <3> QED
      BY <1>1, <2>1, <2>2, <3>1 DEF WifiInv, NextAttemptOwned, Chained
  <2>3. CASE link' # link
    <3>1. link = "off" /\ link' = "joining"
      BY <1>9, <2>3 DEF Rejoins
    <3>2. wifiEvents # <<>> => link' \in LinkAfter[wifiEvents[Len(wifiEvents)]]
      <4>1. wifiEvents \in Seq(WifiEvent)
        BY DEF WifiInv, WifiTypeOK, WifiEvent
      <4>2. wifiEvents # <<>> => wifiEvents[Len(wifiEvents)] \in WifiEvent
        BY <4>1, EmptySeq, ElementOfSeq
      <4>3. \A last \in WifiEvent : "off" \in LinkAfter[last] =>
                                      "joining" \in LinkAfter[last]
        BY DEF LinkAfter, WifiEvent
      <4> QED
        BY <3>1, <4>2, <4>3 DEF WifiInv
    <3>3. wifiEvents = <<>> => ~wifiUp
      BY <3>1 DEF WifiInv, NextAttemptOwned
    <3> QED
      BY <1>1, <2>1, <3>1, <3>2, <3>3 DEF WifiInv, NextAttemptOwned, Chained
  <2> QED
    BY <2>2, <2>3
<1> QED
  BY <1>2, <1>3, <1>4, <1>5, <1>6, <1>7, <1>8, <1>9 DEF WifiNext, WifiTimers

\* WifiInv holds at the start.
LEMMA WifiInitially == DeviceInit => WifiInv
<1> SUFFICES ASSUME WifiInit PROVE WifiInv
  BY DEF DeviceInit
<1>1. /\ inRange \in Ap /\ link = "joining" /\ wifiEvents = <<>>
      /\ ipTimer = "off" /\ pin = NoAp /\ cache = NoAp /\ wifiFaults = 0
  BY DEF WifiInit
<1>2. /\ fastRejoin \in BOOLEAN /\ leaseless \in BOOLEAN /\ joinTimer \in BOOLEAN
      /\ fastTry \in BOOLEAN /\ wifiUp \in BOOLEAN /\ ~wifiUp
  BY Zenon DEF WifiInit
<1> QED
  BY <1>1, <1>2, WifiBounds DEF WifiInv, WifiTypeOK, NextAttemptOwned, Chained

\* WifiInv holds throughout.
LEMMA WifiAlways == DeviceSpec => []WifiInv
<1>1. WifiInv /\ [DeviceNext]_deviceVars => WifiInv'
  BY WifiSteps, WifiStep
<1> QED
  BY WifiInitially, <1>1, PTL DEF DeviceSpec

\* Between two events the next attempt to join, the deadline of the address, or an
\* address itself is always there, and g_wifi_connected is right, in any order of
\* events, timers and failing calls (wifi.cpp:86-275).
THEOREM AttemptsNeverEnd == DeviceSpec => []NextAttemptOwned
<1>1. WifiInv => NextAttemptOwned
  BY DEF WifiInv
<1> QED
  BY WifiAlways, <1>1, PTL

\* What an ordinary build never sets.
NeverPinned == ~fastRejoin => pin = NoAp /\ cache = NoAp /\ ~fastTry

\* StationRecovers' exception is one of the fast re-join build only: an ordinary
\* build is never left pinned to an access point (wifi.cpp:120-175).
THEOREM OnlyFastPins == DeviceSpec => [](LeftPinned => fastRejoin)
<1>1. DeviceInit => NeverPinned
  BY Zenon DEF DeviceInit, WifiInit, NeverPinned
<1>2. NeverPinned /\ [WifiNext]_wifiVars => NeverPinned'
  <2> SUFFICES ASSUME NeverPinned, [WifiNext]_wifiVars, ~fastRejoin'
               PROVE  pin' = NoAp /\ cache' = NoAp /\ ~fastTry'
    BY DEF NeverPinned
  <2>1. fastRejoin' = fastRejoin
    BY DEF WifiNext, WifiHandler, WifiTimers, ApChanges, Joins, JoinFails,
           LeaseArrives, LeaseMissing, LinkLost, JoinedHandled, LostHandled,
           LeasedHandled, DeadlinePasses, Dropped, Rejoins, wifiVars
  <2>2. ~fastRejoin /\ pin = NoAp /\ cache = NoAp /\ ~fastTry
    BY <2>1, Zenon DEF NeverPinned
  <2>3. CASE LostHandled
    BY <2>2, <2>3, Zenon DEF LostHandled
  <2>4. CASE LeasedHandled
    BY <2>2, <2>4, Zenon DEF LeasedHandled
  <2>5. LostHandled \/ LeasedHandled \/ UNCHANGED joinVars
    BY DEF WifiNext, WifiHandler, WifiTimers, ApChanges, Joins, JoinFails,
           LeaseArrives, LeaseMissing, LinkLost, JoinedHandled, DeadlinePasses,
           Dropped, Rejoins, wifiVars
  <2>6. CASE UNCHANGED joinVars
    <3>1. pin' = pin /\ cache' = cache /\ fastTry' = fastTry
      BY <2>6 DEF joinVars
    <3> QED
      BY <2>2, <3>1, Zenon
  <2> QED
    BY <2>3, <2>4, <2>5, <2>6
<1>3. NeverPinned /\ [DeviceNext]_deviceVars => NeverPinned'
  BY <1>2, WifiSteps
<1>4. NeverPinned => (LeftPinned => fastRejoin)
  BY DEF NeverPinned, LeftPinned
<1> QED
  BY <1>1, <1>3, <1>4, PTL DEF DeviceSpec
=============================================================================
