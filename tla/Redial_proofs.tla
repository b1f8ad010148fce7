----------------------------- MODULE Redial_proofs -----------------------------
(***************************************************************************)
(* Proofs about Redial.tla, for every set of peers and every bound.         *)
(*                                                                          *)
(* The argument.  Between the moment the teardown takes the target away and *)
(* the moment it frees the peer, a frame that still holds the pointer ages  *)
(* at least as fast as the teardown polls; a frame is over before the polls *)
(* run out; so whoever leaves the poll, by either exit, leaves it with no   *)
(* pointer outstanding.  HandOff says that; Phases says which parts of the  *)
(* state go together at each place of the loop.  The six properties follow. *)
(***************************************************************************)
EXTENDS Redial, TLAPS

USE PeerAssumption, BoundAssumption, FrameAssumption

\* A failure count at the cap is a restart under way.
CountsBelowCap == loop # "restart" => failures < MaxFailures

\* One PeerConnection at most, and the publisher knows of no other.
OnePeer ==
  /\ heap = {peer} \ {NoPeer}
  /\ target \in {NoPeer, peer}
  /\ handle \in {NoPeer, peer}
  /\ handle # NoPeer => pub = "sending"
  /\ loop \in {"poll", "free", "offer"} => peer # NoPeer
  /\ loop = "dial" => peer = NoPeer

\* The lease runs out before the teardown stops waiting for it.
HandOff ==
  /\ loop \in {"poll", "free", "dial", "offer"} => target = NoPeer
  /\ loop \in {"free", "dial"} => handle = NoPeer
  /\ loop = "poll" /\ handle # NoPeer => waited <= frameAge

\* What callbacks and clocks agree on, wherever the loop stands.
Phases ==
  /\ connected <=> sess # "none"
  /\ connected => target = peer /\ peer # NoPeer
  /\ connected => pcState \in {"connected", "completed"} /\ offer = "none"
  /\ loop \in {"poll", "free", "dial", "offer"} => sess = "none"
  /\ loop \in {"poll", "free", "dial"} => offer = "none"
  /\ loop = "offer" => offer # "none"
  /\ peer = NoPeer => offer = "none"

\* A peer that cannot speak any more has a re-dial pending.
Pending ==
  /\ loop = "peer" /\ peer # NoPeer =>
       /\ pcState \in {"checking", "connected", "completed"} /\ ~aborted
       /\ (sess = "none") # (offer = "none")
       /\ target = (IF connected THEN peer ELSE NoPeer)
  /\ loop = "tick" /\ peer # NoPeer /\ (pcState \in {"closed", "failed"} \/ aborted)
       => request # "none"
  /\ loop = "tick" /\ peer # NoPeer /\ request = "none" =>
       /\ (sess = "none") # (offer = "none")
       /\ target = (IF connected THEN peer ELSE NoPeer)
  /\ loop \in {"peer", "tick"} /\ pcState = "checking" => offer # "none"
  /\ loop \in {"peer", "tick"} /\ pcState \in {"connected", "completed"} => connected
  /\ loop = "offer" => ~aborted
  /\ peer = NoPeer => pcState = "closed"

IInv == TypeOK /\ CountsBelowCap /\ OnePeer /\ HandOff /\ Phases /\ Pending

\* The Boolean part of TypeOK, apart because it is first-order logic only.
FlagsOK == /\ aborted \in BOOLEAN /\ connected \in BOOLEAN /\ seen \in BOOLEAN
           /\ heard \in BOOLEAN /\ calm \in BOOLEAN

USE DEF vars, peerVars, phaseVars, retryVars, liveVars, watchVars, pubVars

-----------------------------------------------------------------------------
\* Every action keeps the Boolean variables Boolean.
LEMMA FlagsStep == FlagsOK /\ [Next]_vars => FlagsOK'
<1> SUFFICES ASSUME FlagsOK, [Next]_vars PROVE FlagsOK'
  OBVIOUS
<1> USE DEF FlagsOK
<1>1. CASE PassWithoutPeer
  BY <1>1, Zenon DEF PassWithoutPeer
<1>2. CASE PassIdle
  BY <1>2, Zenon DEF PassIdle
<1>3. CASE PassIceFails
  BY <1>3, Zenon DEF PassIceFails, InPass, PeerLost, Asked
<1>4. CASE PassIceConnects
  BY <1>4, Zenon DEF PassIceConnects, InPass
<1>5. CASE PassDtlsCompletes
  BY <1>5, Zenon DEF PassDtlsCompletes, InPass
<1>6. CASE PassReceives
  BY <1>6, Zenon DEF PassReceives, InPass, Receive
<1>7. CASE PassSctpAborted
  BY <1>7, Zenon DEF PassSctpAborted, InPass, Asked
<1>8. CASE PassPeerCloses
  BY <1>8, Zenon DEF PassPeerCloses, InPass, PeerLost, Asked, Receive
<1>9. CASE TickBetweenAttempts
  BY <1>9, Zenon DEF TickBetweenAttempts, Watch, Deadline
<1>10. CASE TickRedial
  BY <1>10, Zenon DEF TickRedial, TeardownBegins, Watch
<1>11. CASE TickInSession
  BY <1>11, Zenon DEF TickInSession, Why, Forgiven, Watch, Deadline
<1>12. CASE TickConnectTimeout
  BY <1>12, Zenon DEF TickConnectTimeout, Why, AttemptFailed, GiveUp,
    TeardownBegins, Watch
<1>13. CASE TickWaiting
  BY <1>13, Zenon DEF TickWaiting, Why, Watch, Deadline
<1>14. CASE PollSucceeds
  BY <1>14, Zenon DEF PollSucceeds, InSend
<1>15. CASE PollWaits
  BY <1>15, Zenon DEF PollWaits, InSend
<1>16. CASE PollGivesUp
  BY <1>16, Zenon DEF PollGivesUp
<1>17. CASE Free
  BY <1>17, Zenon DEF Free
<1>18. CASE Dial
  BY <1>18, Zenon DEF Dial
<1>19. CASE DialOutOfMemory
  BY <1>19, Zenon DEF DialOutOfMemory
<1>20. CASE OfferAnswered
  BY <1>20, Zenon DEF OfferAnswered
<1>21. CASE OfferUnanswered
  BY <1>21, Zenon DEF OfferUnanswered, AttemptFailed, GiveUp, TeardownBegins
<1>22. CASE Restart
  BY <1>22, Zenon DEF Restart
<1>23. CASE FrameStarts
  BY <1>23, Zenon DEF FrameStarts
<1>24. CASE FrameLoadsTarget
  BY <1>24, Zenon DEF FrameLoadsTarget
<1>25. CASE FrameEnds
  BY <1>25, Zenon DEF FrameEnds
<1>26. CASE SessionTurnsStable
  BY <1>26, Zenon DEF SessionTurnsStable, TimeVars
<1>27. CASE OfferTurnsLate
  BY <1>27, Zenon DEF OfferTurnsLate, TimeVars
<1>28. CASE BackoffElapses
  BY <1>28, Zenon DEF BackoffElapses, TimeVars
<1>29. CASE PingTurnsStale
  BY <1>29, Zenon DEF PingTurnsStale, TimeVars
<1>30. CASE MediaTurnsStale
  BY <1>30, Zenon DEF MediaTurnsStale, TimeVars
<1>31. CASE HttpRedial
  BY <1>31, Zenon DEF HttpRedial, Asked
<1>32. CASE WorldCalmsDown
  BY <1>32, Zenon DEF WorldCalmsDown
<1>33. CASE UNCHANGED vars
  BY <1>33, Zenon
<1> QED
  BY <1>1, <1>2, <1>3, <1>4, <1>5, <1>6, <1>7, <1>8, <1>9, <1>10, <1>11,
     <1>12, <1>13, <1>14, <1>15, <1>16, <1>17, <1>18, <1>19, <1>20, <1>21,
     <1>22, <1>23, <1>24, <1>25, <1>26, <1>27, <1>28, <1>29, <1>30, <1>31,
     <1>32, <1>33
     DEF Next, TransportLoop, Pass, Tick, Publisher, Time

\* Every action keeps the types and the cap on the failure count.
LEMMA TypingStep == TypeOK /\ CountsBelowCap /\ FlagsOK' /\ [Next]_vars => TypeOK' /\ CountsBelowCap'
<1> SUFFICES ASSUME TypeOK /\ CountsBelowCap /\ FlagsOK', [Next]_vars PROVE TypeOK' /\ CountsBelowCap'
  OBVIOUS
<1> USE DEF TypeOK, CountsBelowCap, FlagsOK
<1>1. CASE PassWithoutPeer
  BY <1>1 DEF PassWithoutPeer
<1>2. CASE PassIdle
  BY <1>2 DEF PassIdle
<1>3. CASE PassIceFails
  BY <1>3 DEF PassIceFails, InPass, PeerLost, Asked
<1>4. CASE PassIceConnects
  BY <1>4 DEF PassIceConnects, InPass
<1>5. CASE PassDtlsCompletes
  BY <1>5 DEF PassDtlsCompletes, InPass
<1>6. CASE PassReceives
  BY <1>6 DEF PassReceives, InPass, Receive
<1>7. CASE PassSctpAborted
  BY <1>7 DEF PassSctpAborted, InPass, Asked
<1>8. CASE PassPeerCloses
  BY <1>8 DEF PassPeerCloses, InPass, PeerLost, Asked, Receive
<1>9. CASE TickBetweenAttempts
  BY <1>9 DEF TickBetweenAttempts, Watch, Deadline
<1>10. CASE TickRedial
  BY <1>10 DEF TickRedial, TeardownBegins, Watch
<1>11. CASE TickInSession
  BY <1>11 DEF TickInSession, Why, Forgiven, Watch, Deadline
<1>12. CASE TickConnectTimeout
  BY <1>12 DEF TickConnectTimeout, Why, AttemptFailed, GiveUp,
    TeardownBegins, Watch
<1>13. CASE TickWaiting
  BY <1>13 DEF TickWaiting, Why, Watch, Deadline
<1>14. CASE PollSucceeds
  BY <1>14 DEF PollSucceeds, InSend
<1>15. CASE PollWaits
  BY <1>15 DEF PollWaits, InSend
<1>16. CASE PollGivesUp
  BY <1>16 DEF PollGivesUp
<1>17. CASE Free
  BY <1>17 DEF Free
<1>18. CASE Dial
  BY <1>18 DEF Dial
<1>19. CASE DialOutOfMemory
  BY <1>19 DEF DialOutOfMemory
<1>20. CASE OfferAnswered
  BY <1>20 DEF OfferAnswered
<1>21. CASE OfferUnanswered
  BY <1>21 DEF OfferUnanswered, AttemptFailed, GiveUp, TeardownBegins
<1>22. CASE Restart
  BY <1>22 DEF Restart
<1>23. CASE FrameStarts
  BY <1>23 DEF FrameStarts
<1>24. CASE FrameLoadsTarget
  BY <1>24 DEF FrameLoadsTarget
<1>25. CASE FrameEnds
  BY <1>25 DEF FrameEnds
<1>26. CASE SessionTurnsStable
  BY <1>26 DEF SessionTurnsStable, TimeVars
<1>27. CASE OfferTurnsLate
  BY <1>27 DEF OfferTurnsLate, TimeVars
<1>28. CASE BackoffElapses
  BY <1>28 DEF BackoffElapses, TimeVars
<1>29. CASE PingTurnsStale
  BY <1>29 DEF PingTurnsStale, TimeVars
<1>30. CASE MediaTurnsStale
  BY <1>30 DEF MediaTurnsStale, TimeVars
<1>31. CASE HttpRedial
  BY <1>31 DEF HttpRedial, Asked
<1>32. CASE WorldCalmsDown
  BY <1>32 DEF WorldCalmsDown
<1>33. CASE UNCHANGED vars
  BY <1>33
<1> QED
  BY <1>1, <1>2, <1>3, <1>4, <1>5, <1>6, <1>7, <1>8, <1>9, <1>10, <1>11,
     <1>12, <1>13, <1>14, <1>15, <1>16, <1>17, <1>18, <1>19, <1>20, <1>21,
     <1>22, <1>23, <1>24, <1>25, <1>26, <1>27, <1>28, <1>29, <1>30, <1>31,
     <1>32, <1>33
     DEF Next, TransportLoop, Pass, Tick, Publisher, Time

\* Every action keeps the hand-off: the polls catch up with the frame in time.
LEMMA HandOffStep == IInv /\ [Next]_vars => OnePeer' /\ HandOff'
<1> SUFFICES ASSUME IInv, [Next]_vars PROVE OnePeer' /\ HandOff'
  OBVIOUS
<1> USE DEF IInv, TypeOK, OnePeer, HandOff, Phases
<1>1. CASE PassWithoutPeer
  BY <1>1 DEF PassWithoutPeer
<1>2. CASE PassIdle
  BY <1>2 DEF PassIdle
<1>3. CASE PassIceFails
  BY <1>3 DEF PassIceFails, InPass, PeerLost, Asked
<1>4. CASE PassIceConnects
  BY <1>4 DEF PassIceConnects, InPass
<1>5. CASE PassDtlsCompletes
  BY <1>5 DEF PassDtlsCompletes, InPass
<1>6. CASE PassReceives
  BY <1>6 DEF PassReceives, InPass, Receive
<1>7. CASE PassSctpAborted
  BY <1>7 DEF PassSctpAborted, InPass, Asked
<1>8. CASE PassPeerCloses
  BY <1>8 DEF PassPeerCloses, InPass, PeerLost, Asked, Receive
<1>9. CASE TickBetweenAttempts
  BY <1>9 DEF TickBetweenAttempts, Watch, Deadline
<1>10. CASE TickRedial
  BY <1>10 DEF TickRedial, TeardownBegins, Watch
<1>11. CASE TickInSession
  BY <1>11 DEF TickInSession, Why, Forgiven, Watch, Deadline
<1>12. CASE TickConnectTimeout
  BY <1>12 DEF TickConnectTimeout, Why, AttemptFailed, GiveUp,
    TeardownBegins, Watch
<1>13. CASE TickWaiting
  BY <1>13 DEF TickWaiting, Why, Watch, Deadline
<1>14. CASE PollSucceeds
  BY <1>14 DEF PollSucceeds, InSend
<1>15. CASE PollWaits
  BY <1>15 DEF PollWaits, InSend
<1>16. CASE PollGivesUp
  BY <1>16 DEF PollGivesUp
<1>17. CASE Free
  BY <1>17 DEF Free
<1>18. CASE Dial
  BY <1>18 DEF Dial
<1>19. CASE DialOutOfMemory
  BY <1>19 DEF DialOutOfMemory
<1>20. CASE OfferAnswered
  BY <1>20 DEF OfferAnswered
<1>21. CASE OfferUnanswered
  BY <1>21 DEF OfferUnanswered, AttemptFailed, GiveUp, TeardownBegins
<1>22. CASE Restart
  BY <1>22 DEF Restart
<1>23. CASE FrameStarts
  BY <1>23 DEF FrameStarts
<1>24. CASE FrameLoadsTarget
  BY <1>24 DEF FrameLoadsTarget
<1>25. CASE FrameEnds
  BY <1>25 DEF FrameEnds
<1>26. CASE SessionTurnsStable
  BY <1>26 DEF SessionTurnsStable, TimeVars
<1>27. CASE OfferTurnsLate
  BY <1>27 DEF OfferTurnsLate, TimeVars
<1>28. CASE BackoffElapses
  BY <1>28 DEF BackoffElapses, TimeVars
<1>29. CASE PingTurnsStale
  BY <1>29 DEF PingTurnsStale, TimeVars
<1>30. CASE MediaTurnsStale
  BY <1>30 DEF MediaTurnsStale, TimeVars
<1>31. CASE HttpRedial
  BY <1>31 DEF HttpRedial, Asked
<1>32. CASE WorldCalmsDown
  BY <1>32 DEF WorldCalmsDown
<1>33. CASE UNCHANGED vars
  BY <1>33
<1> QED
  BY <1>1, <1>2, <1>3, <1>4, <1>5, <1>6, <1>7, <1>8, <1>9, <1>10, <1>11,
     <1>12, <1>13, <1>14, <1>15, <1>16, <1>17, <1>18, <1>19, <1>20, <1>21,
     <1>22, <1>23, <1>24, <1>25, <1>26, <1>27, <1>28, <1>29, <1>30, <1>31,
     <1>32, <1>33
     DEF Next, TransportLoop, Pass, Tick, Publisher, Time

\* Every action keeps the clocks, the flags and the pending request in step.
LEMMA PhasesStep == IInv /\ [Next]_vars => Phases' /\ Pending'
<1> SUFFICES ASSUME IInv, [Next]_vars PROVE Phases' /\ Pending'
  OBVIOUS
<1> USE DEF IInv, TypeOK, OnePeer, HandOff, Phases, Pending
<1>1. CASE PassWithoutPeer
  BY <1>1 DEF PassWithoutPeer
<1>2. CASE PassIdle
  BY <1>2 DEF PassIdle
<1>3. CASE PassIceFails
  BY <1>3 DEF PassIceFails, InPass, PeerLost, Asked
<1>4. CASE PassIceConnects
  BY <1>4 DEF PassIceConnects, InPass
<1>5. CASE PassDtlsCompletes
  BY <1>5 DEF PassDtlsCompletes, InPass
<1>6. CASE PassReceives
  BY <1>6 DEF PassReceives, InPass, Receive
<1>7. CASE PassSctpAborted
  BY <1>7 DEF PassSctpAborted, InPass, Asked
<1>8. CASE PassPeerCloses
  BY <1>8 DEF PassPeerCloses, InPass, PeerLost, Asked, Receive
<1>9. CASE TickBetweenAttempts
  BY <1>9 DEF TickBetweenAttempts, Watch, Deadline
<1>10. CASE TickRedial
  BY <1>10 DEF TickRedial, TeardownBegins, Watch
<1>11. CASE TickInSession
  BY <1>11 DEF TickInSession, Why, Forgiven, Watch, Deadline
<1>12. CASE TickConnectTimeout
  BY <1>12 DEF TickConnectTimeout, Why, AttemptFailed, GiveUp,
    TeardownBegins, Watch
<1>13. CASE TickWaiting
  BY <1>13 DEF TickWaiting, Why, Watch, Deadline
<1>14. CASE PollSucceeds
  BY <1>14 DEF PollSucceeds, InSend
<1>15. CASE PollWaits
  BY <1>15 DEF PollWaits, InSend
<1>16. CASE PollGivesUp
  BY <1>16 DEF PollGivesUp
<1>17. CASE Free
  BY <1>17 DEF Free
<1>18. CASE Dial
  BY <1>18 DEF Dial
<1>19. CASE DialOutOfMemory
  BY <1>19 DEF DialOutOfMemory
<1>20. CASE OfferAnswered
  <2>1. ~connected' /\ ~connected
    BY <1>20, Zenon DEF OfferAnswered
  <2>2. /\ loop = "offer" /\ loop' = "peer" /\ pcState' = "checking"
        /\ UNCHANGED <<peer, aborted, sess, offer, target, request>>
    BY <1>20 DEF OfferAnswered
  <2> QED
    BY <2>1, <2>2
<1>21. CASE OfferUnanswered
  BY <1>21 DEF OfferUnanswered, AttemptFailed, GiveUp, TeardownBegins
<1>22. CASE Restart
  BY <1>22 DEF Restart
<1>23. CASE FrameStarts
  BY <1>23 DEF FrameStarts
<1>24. CASE FrameLoadsTarget
  BY <1>24 DEF FrameLoadsTarget
<1>25. CASE FrameEnds
  BY <1>25 DEF FrameEnds
<1>26. CASE SessionTurnsStable
  BY <1>26 DEF SessionTurnsStable, TimeVars
<1>27. CASE OfferTurnsLate
  BY <1>27 DEF OfferTurnsLate, TimeVars
<1>28. CASE BackoffElapses
  BY <1>28 DEF BackoffElapses, TimeVars
<1>29. CASE PingTurnsStale
  BY <1>29 DEF PingTurnsStale, TimeVars
<1>30. CASE MediaTurnsStale
  BY <1>30 DEF MediaTurnsStale, TimeVars
<1>31. CASE HttpRedial
  BY <1>31 DEF HttpRedial, Asked
<1>32. CASE WorldCalmsDown
  BY <1>32 DEF WorldCalmsDown
<1>33. CASE UNCHANGED vars
  BY <1>33
<1> QED
  BY <1>1, <1>2, <1>3, <1>4, <1>5, <1>6, <1>7, <1>8, <1>9, <1>10, <1>11,
     <1>12, <1>13, <1>14, <1>15, <1>16, <1>17, <1>18, <1>19, <1>20, <1>21,
     <1>22, <1>23, <1>24, <1>25, <1>26, <1>27, <1>28, <1>29, <1>30, <1>31,
     <1>32, <1>33
     DEF Next, TransportLoop, Pass, Tick, Publisher, Time

-----------------------------------------------------------------------------

\* The strengthening holds from boot on: it starts and every step keeps it.
THEOREM Inductive == Spec => []IInv
<1>1. Init => IInv
  <2> SUFFICES ASSUME Init PROVE IInv
    OBVIOUS
  <2>1. FlagsOK /\ ~aborted /\ ~connected
    BY Zenon DEF Init, FlagsOK
  <2>2. TypeOK
    BY <2>1 DEF Init, TypeOK, FlagsOK
  <2> QED
    BY <2>1, <2>2
    DEF Init, IInv, CountsBelowCap, OnePeer, HandOff, Phases, Pending
<1>2. IInv /\ [Next]_vars => IInv'
  <2> SUFFICES ASSUME IInv, [Next]_vars PROVE IInv'
    OBVIOUS
  <2>1. FlagsOK
    BY DEF IInv, TypeOK, FlagsOK
  <2>2. FlagsOK'
    BY <2>1, FlagsStep
  <2>3. TypeOK' /\ CountsBelowCap'
    BY <2>2, TypingStep DEF IInv
  <2> QED
    BY <2>3, HandOffStep, PhasesStep DEF IInv
<1> QED
  BY <1>1, <1>2, PTL DEF Spec

\* The types hold in every reachable state, the counters within their bounds.
THEOREM TypeCorrect == Spec => []TypeOK
<1>1. IInv => TypeOK
  BY DEF IInv
<1> QED
  BY <1>1, Inductive, PTL

\* The teardown never frees the PeerConnection a publisher frame still holds,
\* for every frame time and poll count with FramePolls < DetachPolls.
THEOREM PublisherSafe == Spec => []PublisherHoldsLivePeer
<1>1. IInv => PublisherHoldsLivePeer
  BY DEF IInv, OnePeer, PublisherHoldsLivePeer
<1> QED
  BY <1>1, Inductive, PTL

\* The loop never starts a pass on a peer that cannot speak any more.
THEOREM DeadPeerDropped == Spec => []NoDeadPeerServiced
<1>1. IInv => NoDeadPeerServiced
  BY DEF IInv, Pending, NoDeadPeerServiced
<1> QED
  BY <1>1, Inductive, PTL

\* Between iterations every peer is under exactly one clock.
THEOREM OneClock == Spec => []EveryPeerHasOneClock
<1>1. IInv => EveryPeerHasOneClock
  <2> SUFFICES ASSUME IInv, loop = "peer" PROVE EveryPeerHasOneClock
    BY DEF EveryPeerHasOneClock
  <2>1. CASE peer = NoPeer
    BY <2>1 DEF IInv, OnePeer, Phases, EveryPeerHasOneClock
  <2>2. CASE peer # NoPeer
    BY <2>2 DEF IInv, Phases, Pending, EveryPeerHasOneClock
  <2> QED
    BY <2>1, <2>2
<1> QED
  BY <1>1, Inductive, PTL

\* Redial implements PeerLease: each step of the firmware is a step of the
\* lease of its PeerConnection or leaves the lease alone.
THEOREM LeaseKept == Spec => KeepsLease
<1> USE DEF Lease!leaseVars
<1>1. Init => Lease!LeaseInit
  BY DEF Init, Lease!LeaseInit
<1>2. IInv /\ [Next]_vars => [Lease!LeaseNext]_(Lease!leaseVars)
  <2> SUFFICES ASSUME IInv, [Next]_vars
               PROVE  [Lease!LeaseNext]_(Lease!leaseVars)
    OBVIOUS
  <2> USE DEF IInv, TypeOK, OnePeer, HandOff
  <2>1. CASE Dial
    <3>1. PICK p \in Peer \ (heap \cup {handle}) : heap' = heap \cup {p}
      BY <2>1 DEF Dial
    <3>2. Lease!Create(p)
      BY <2>1, <3>1 DEF Dial, Lease!Create
    <3> QED
      BY <3>2 DEF Lease!LeaseNext
  <2>2. CASE Free
    <3>1. peer \in Peer /\ Lease!Destroy(peer)
      BY <2>2 DEF Free, Lease!Destroy
    <3> QED
      BY <3>1 DEF Lease!LeaseNext
  <2>3. CASE Restart
    BY <2>3 DEF Restart, Lease!Reset, Lease!LeaseNext
  <2>4. CASE FrameLoadsTarget
    <3>1. CASE target = NoPeer
      BY <2>4, <3>1 DEF FrameLoadsTarget
    <3>2. CASE target # NoPeer
      <4>1. target \in Peer /\ Lease!Lend(target)
        BY <2>4, <3>2 DEF FrameLoadsTarget, Lease!Lend
      <4> QED
        BY <4>1 DEF Lease!LeaseNext
    <3> QED
      BY <3>1, <3>2
  <2>5. CASE FrameEnds
    BY <2>5 DEF FrameEnds, Lease!Return, Lease!LeaseNext
  <2>6. CASE UNCHANGED <<heap, handle>>
    BY <2>6
  <2>7. Dial \/ Free \/ Restart \/ FrameLoadsTarget \/ FrameEnds
          \/ UNCHANGED <<heap, handle>>
    BY DEF Next, TransportLoop, Pass, Tick, Publisher, Time,
      PassWithoutPeer, PassIdle, PassIceFails, PassIceConnects,
      PassDtlsCompletes, PassReceives, PassSctpAborted, PassPeerCloses,
      TickBetweenAttempts, TickRedial, TickInSession, TickConnectTimeout,
      TickWaiting, PollSucceeds, PollWaits, PollGivesUp, DialOutOfMemory,
      OfferAnswered, OfferUnanswered, FrameStarts, TimeVars,
      SessionTurnsStable, OfferTurnsLate, BackoffElapses, PingTurnsStale,
      MediaTurnsStale, HttpRedial, WorldCalmsDown
  <2> QED
    BY <2>1, <2>2, <2>3, <2>4, <2>5, <2>6, <2>7
<1> QED
  BY <1>1, <1>2, Inductive, PTL DEF Spec, KeepsLease, Lease!LeaseSpec

\* A late ping alone never costs a connected peer its session while the
\* server's media arrives.
THEOREM PlaybackHolds == Spec => MediaHoldsConnection
<1>1. IInv /\ [Next]_vars =>
        (WatchdogDrops => ~(ping # "never" /\ media = "recent"))
  <2> SUFFICES ASSUME IInv, Next, WatchdogDrops
               PROVE  ~(ping # "never" /\ media = "recent")
    BY DEF WatchdogDrops
  <2> USE DEF WatchdogDrops
  <2>1. Deadline
    <3>1. CASE TickRedial
      BY <3>1 DEF TickRedial, Why
    <3>2. CASE TickConnectTimeout
      BY <3>2 DEF TickConnectTimeout, IInv, Phases
    <3>3. TickRedial \/ TickConnectTimeout
      BY DEF Next, TransportLoop, Pass, Tick, Publisher, Time,
        PassWithoutPeer, PassIdle, PassIceFails, PassIceConnects,
        PassDtlsCompletes, PassReceives, PassSctpAborted, PassPeerCloses,
        TickBetweenAttempts, TickInSession, TickWaiting, PollSucceeds,
        PollWaits, PollGivesUp, Free, Dial, DialOutOfMemory, OfferAnswered,
        OfferUnanswered, Restart, FrameStarts, FrameLoadsTarget, FrameEnds,
        TimeVars, SessionTurnsStable, OfferTurnsLate, BackoffElapses,
        PingTurnsStale, MediaTurnsStale, HttpRedial, WorldCalmsDown
    <3> QED
      BY <3>1, <3>2, <3>3
  <2> QED
    BY <2>1 DEF Deadline, Healthy, Fresh
<1> QED
  BY <1>1, Inductive, PTL DEF Spec, MediaHoldsConnection

\* Only 30 s of session, or the restart itself, lowers the failure count.
THEOREM FlapsAreRemembered == Spec => OnlyStableSessionForgives
<1>1. IInv /\ [Next]_vars =>
        (failures' < failures => sess = "stable" \/ loop = "restart")
  <2> SUFFICES ASSUME IInv, [Next]_vars, failures' < failures
               PROVE  sess = "stable" \/ loop = "restart"
    OBVIOUS
  <2>1. failures \in Nat
    BY DEF IInv, TypeOK
  <2>2. CASE TickInSession
    BY <2>1, <2>2 DEF TickInSession, Forgiven
  <2>3. CASE TickConnectTimeout \/ OfferUnanswered
    <3>1. failures' = failures + 1
      BY <2>3, Zenon DEF TickConnectTimeout, OfferUnanswered, AttemptFailed
    <3> QED
      BY <2>1, <3>1
  <2>4. CASE Restart
    BY <2>4 DEF Restart
  <2>5. TickInSession \/ TickConnectTimeout \/ OfferUnanswered \/ Restart
          \/ UNCHANGED failures
    BY DEF Next, TransportLoop, Pass, Tick, Publisher, Time,
      PassWithoutPeer, PassIdle, PassIceFails, PassIceConnects,
      PassDtlsCompletes, PassReceives, PassSctpAborted, PassPeerCloses,
      TickBetweenAttempts, TickRedial, TickWaiting, PollSucceeds, PollWaits,
      PollGivesUp, Free, Dial, DialOutOfMemory, OfferAnswered, FrameStarts,
      FrameLoadsTarget, FrameEnds, TimeVars, SessionTurnsStable,
      OfferTurnsLate, BackoffElapses, PingTurnsStale, MediaTurnsStale,
      HttpRedial, WorldCalmsDown
  <2> QED
    BY <2>1, <2>2, <2>3, <2>4, <2>5
<1> QED
  BY <1>1, Inductive, PTL DEF Spec, OnlyStableSessionForgives
=============================================================================
