-------------------------------- MODULE Redial --------------------------------
(***************************************************************************)
(* The satellite's connection to the hub: the transport loop of app_main,    *)
(* the PeerConnection it services, the in-place re-dial with its retry       *)
(* ladder and restart fallback, the reconnect watchdog with the server       *)
(* liveness it reads, and the hand-off of the PeerConnection to the audio     *)
(* publisher task on the other side of the teardown.                        *)
(*                                                                          *)
(* Sources: xiao-esp32-s3/src/webrtc.cpp, webrtc_redial.h, main.cpp,        *)
(* reconnect_watchdog.h, server_liveness.h, components/peer/                *)
(* peer_connection.c (built with PIPECAT_REDIAL).                           *)
(*                                                                          *)
(* Time.  The loop counts its own ticks (`unhealthy`) and its 5 ms polls     *)
(* (`waited`).  Every other deadline is a flag that falls due by a step of   *)
(* its own, at any moment: 30 s of session, 20 s since the offer, the        *)
(* backoff, 35 s since the last ping or media packet.                       *)
(***************************************************************************)
EXTENDS Naturals

CONSTANTS
  Peer,         \* identities of PeerConnection objects, see Dial
  NoPeer,       \* NULL
  MaxFailures,  \* kMaxConsecutiveFailures
  GraceTicks,   \* kReconnectAfterMs / TICK_INTERVAL
  DetachPolls,  \* 5 ms polls before the teardown stops waiting: 500 / 5
  FramePolls,   \* longest publisher frame, in the same 5 ms units
  Signals       \* signs of life the hub sends: pings, downlink media

ASSUME PeerAssumption == NoPeer \notin Peer
ASSUME BoundAssumption == /\ MaxFailures \in Nat \ {0}
                          /\ GraceTicks \in Nat \ {0}
                          /\ DetachPolls \in Nat
                          /\ Signals \subseteq {"ping", "media"}
\* "one frame is an i2s read (<=200 ms timeout) + encode + send", well inside
\* the 500 ms the teardown waits.
ASSUME FrameAssumption == FramePolls \in 1..(DetachPolls - 1)

VARIABLES
  loop,         \* where the transport loop stands
  after,        \* what follows the teardown under way: "dial" or "backoff"
  peer,         \* peer_connection
  heap,         \* the PeerConnections that are allocated
  pcState,      \* pc->state of peer ("closed" is libpeer's zeroed state)
  aborted,      \* the hub aborted the SCTP association of peer
  connected,    \* pipecat_webrtc_connected
  sess,         \* s_connected_at_ms: "none" (0), "young", "stable" (>= 30 s)
  offer,        \* s_offer_sent_ms: "none" (0), "waiting", "late" (> 20 s)
  retry,        \* s_next_attempt_at_ms: "wait" or "due"
  request,      \* s_redial_requested
  failures,     \* s_redial_policy.consecutive_failures_
  ping, media,  \* age of last_ping_ms, last_media_ms: never, recent, stale
  seen,         \* reconnect watchdog: healthy_connection_seen_
  unhealthy,    \* reconnect watchdog: unhealthy_ms_, in ticks
  heard,        \* ghost: peer itself has delivered a ping or media
  pub,          \* audio publisher: absent, idle, entered (in_send), sending
  target,       \* s_publisher_pc
  handle,       \* the pointer the publisher's current frame loaded
  frameAge,     \* 5 ms units since that load
  waited,       \* 5 ms polls the teardown has made
  calm          \* the world: TRUE once the hub serves and nobody interferes

peerVars  == <<peer, heap, pcState, aborted>>
phaseVars == <<connected, sess, offer>>
retryVars == <<retry, failures, after>>
liveVars  == <<ping, media, heard>>
watchVars == <<seen, unhealthy>>
pubVars   == <<pub, target, handle, frameAge>>
vars == <<loop, peerVars, phaseVars, retryVars, request, liveVars, watchVars,
          pubVars, waited, calm>>

TypeOK ==
  /\ loop \in {"peer", "tick", "poll", "free", "dial", "offer", "restart"}
  /\ after \in {"dial", "backoff"}
  /\ peer \in Peer \cup {NoPeer}
  /\ heap \in SUBSET Peer
  /\ pcState \in {"closed", "checking", "connected", "completed", "failed"}
  /\ aborted \in BOOLEAN /\ connected \in BOOLEAN
  /\ sess \in {"none", "young", "stable"}
  /\ offer \in {"none", "waiting", "late"}
  /\ retry \in {"wait", "due"}
  /\ request \in {"none", "peer_closed", "sctp_closed", "http"}
  /\ failures \in 0..MaxFailures
  /\ ping \in {"never", "recent", "stale"}
  /\ media \in {"never", "recent", "stale"}
  /\ seen \in BOOLEAN /\ unhealthy \in 0..GraceTicks /\ heard \in BOOLEAN
  /\ pub \in {"absent", "idle", "entered", "sending"}
  /\ target \in Peer \cup {NoPeer}
  /\ handle \in Peer \cup {NoPeer}
  /\ frameAge \in 0..FramePolls
  /\ waited \in 0..DetachPolls
  /\ calm \in BOOLEAN

\* app_main reaches pipecat_init_webrtc with RAM zeroed and no peer.
Init ==
  /\ loop = "dial" /\ after = "dial"
  /\ peer = NoPeer /\ heap = {} /\ pcState = "closed" /\ aborted = FALSE
  /\ connected = FALSE /\ sess = "none" /\ offer = "none"
  /\ retry = "wait" /\ request = "none"
  /\ failures = 0
  /\ ping = "never" /\ media = "never" /\ heard = FALSE
  /\ seen = FALSE /\ unhealthy = 0
  /\ pub = "absent" /\ target = NoPeer /\ handle = NoPeer /\ frameAge = 0
  /\ waited = 0
  /\ calm = FALSE

-----------------------------------------------------------------------------
(* Shared pieces of the handlers.                                           *)

\* pipecat_redial_request: compare-and-swap from kNone, the first request wins.
Asked(why) == IF request = "none" THEN why ELSE request

\* Mutant: media is not a sign of life.
FreshPingOnly == ping = "recent"

\* PipecatServerLiveness.fresh.
Fresh == ping = "recent" \/ (ping # "never" /\ media = "recent")

\* Mutant: the session clock survives the teardown.
TeardownKeepsSession(next) ==
  /\ loop' = "poll" /\ after' = next
  /\ connected' = FALSE /\ sess' = sess /\ offer' = "none"
  /\ target' = NoPeer /\ waited' = 0

\* pipecat_webrtc_teardown up to the detach poll.
TeardownBegins(next) ==
  /\ loop' = "poll" /\ after' = next
  /\ connected' = FALSE /\ sess' = "none" /\ offer' = "none"
  /\ target' = NoPeer /\ waited' = 0

\* Mutant: one failure too many before the restart.
GiveUpLate == failures + 1 > MaxFailures

\* PipecatRedialPolicy.note_failure.
GiveUp == failures + 1 >= MaxFailures

\* PipecatRedialPolicy.note_connected_for, and a mutant that forgives at once.
ForgivenAtOnce == 0
Forgiven == IF sess = "stable" THEN 0 ELSE failures

\* Mutant: every failed attempt starts the count afresh.
AttemptFailedForgets == failures' = 0 /\ TeardownBegins("backoff")

\* pipecat_webrtc_note_attempt_failed: give up at the cap, else tear down and
\* let the ladder own the clock.
AttemptFailed ==
  /\ failures' = failures + 1
  /\ IF GiveUp
     THEN /\ loop' = "restart"
          /\ UNCHANGED <<after, phaseVars, target, waited>>
     ELSE TeardownBegins("backoff")

-----------------------------------------------------------------------------
(* pipecat_webrtc_loop: one pass over the PeerConnection.                   *)

InPass(state) == loop = "peer" /\ peer # NoPeer /\ pcState = state

PassWithoutPeer ==
  /\ loop = "peer" /\ peer = NoPeer
  /\ loop' = "tick"
  /\ UNCHANGED <<peerVars, phaseVars, retryVars, request, liveVars, watchVars,
                 pubVars, waited, calm>>

\* Nothing came of this pass; libpeer never leaves "closed" or "failed".
PassIdle ==
  /\ loop = "peer" /\ peer # NoPeer
  /\ pcState \in {"closed", "failed"} \/ ~calm
  /\ loop' = "tick"
  /\ UNCHANGED <<peerVars, phaseVars, retryVars, request, liveVars, watchVars,
                 pubVars, waited, calm>>

\* Mutant: only a connected peer asks for a re-dial when it is lost.
PeerLostQuietly(state, why) ==
  /\ pcState' = state
  /\ connected' = FALSE /\ sess' = "none"
  /\ request' = IF connected THEN Asked(why) ELSE request

\* The state callback for CLOSED and FAILED.  `why` is the request that won.
PeerLost(state, why) ==
  /\ pcState' = state
  /\ connected' = FALSE /\ sess' = "none"
  /\ request' = Asked(why)

PassIceFails ==
  /\ InPass("checking") /\ ~calm
  /\ PeerLost("failed", "peer_closed")
  /\ loop' = "tick"
  /\ UNCHANGED <<peer, heap, aborted, offer, retryVars, liveVars, watchVars,
                 pubVars, waited, calm>>

\* CONNECTED: the attempt landed, the publisher gets its target.
PassIceConnects ==
  /\ InPass("checking")
  /\ pcState' = "connected"
  /\ connected' = TRUE /\ sess' = "young" /\ offer' = "none"
  /\ target' = peer
  /\ pub' = IF pub = "absent" THEN "idle" ELSE pub
  /\ loop' = "tick"
  /\ UNCHANGED <<peer, heap, aborted, retryVars, request, liveVars, watchVars,
                 handle, frameAge, waited, calm>>

PassDtlsCompletes ==
  /\ InPass("connected")
  /\ pcState' = "completed" /\ connected' = TRUE
  /\ loop' = "tick"
  /\ UNCHANGED <<peer, heap, aborted, sess, offer, retryVars, request,
                 liveVars, watchVars, pubVars, waited, calm>>

\* Datagrams of a COMPLETED pass: pings over SCTP, downlink media.
Receive(got) ==
  /\ ping' = IF "ping" \in got THEN "recent" ELSE ping
  /\ media' = IF "media" \in got THEN "recent" ELSE media
  /\ heard' = (heard \/ got # {})

PassReceives ==
  /\ InPass("completed")
  /\ \E got \in SUBSET Signals :
       /\ got # {} /\ (calm => "ping" \in got)
       /\ Receive(got)
  /\ loop' = "tick"
  /\ UNCHANGED <<peerVars, phaseVars, retryVars, request, watchVars, pubVars,
                 waited, calm>>

\* The hub aborts the association; the DTLS transport may outlive it.
PassSctpAborted ==
  /\ InPass("completed") /\ ~calm
  /\ aborted' = TRUE /\ request' = Asked("sctp_closed")
  /\ loop' = "tick"
  /\ UNCHANGED <<peer, heap, pcState, phaseVars, retryVars, liveVars,
                 watchVars, pubVars, waited, calm>>

\* close_notify or the keepalive timeout, maybe behind an abort and after
\* other datagrams of the same drain.
PassPeerCloses ==
  /\ InPass("completed") /\ ~calm
  /\ \E got \in SUBSET Signals : Receive(got)
  /\ \E why \in {"peer_closed", "sctp_closed"} :
       /\ PeerLost("closed", why)
       /\ aborted' = (why = "sctp_closed")
  /\ loop' = "tick"
  /\ UNCHANGED <<peer, heap, offer, retryVars, watchVars, pubVars, waited,
                 calm>>

Pass == \/ PassWithoutPeer \/ PassIdle
        \/ PassIceFails \/ PassIceConnects \/ PassDtlsCompletes
        \/ PassReceives \/ PassSctpAborted \/ PassPeerCloses
-----------------------------------------------------------------------------
(* The rest of an iteration: PipecatReconnectWatchdog.update followed by     *)
(* pipecat_webrtc_redial_tick, which consumes the pending request.          *)

Healthy == connected /\ Fresh

Deadline == ~Healthy /\ ((seen /\ ~Fresh) \/ unhealthy + 1 >= GraceTicks)

\* Mutant: an expired watchdog stays pinned at its deadline.
WatchPinned(ran) ==
  IF Healthy
  THEN seen' = TRUE /\ unhealthy' = 0
  ELSE seen' = seen /\ unhealthy' = IF Deadline THEN unhealthy ELSE unhealthy + 1

\* `ran` is redial_tick's result: a new attempt gets a new watchdog.
Watch(ran) ==
  IF ran \/ Deadline
  THEN seen' = FALSE /\ unhealthy' = 0
  ELSE IF Healthy
       THEN seen' = TRUE /\ unhealthy' = 0
       ELSE seen' = seen /\ unhealthy' = unhealthy + 1

\* Mutant: the tick looks at the watchdog only.
WhyWatchdogOnly == IF Deadline THEN "watchdog" ELSE "none"

Why == IF request # "none" THEN request
       ELSE IF Deadline THEN "watchdog" ELSE "none"

\* Between attempts triggers are moot, the ladder owns the clock.
TickBetweenAttempts ==
  /\ loop = "tick" /\ peer = NoPeer
  /\ request' = "none"
  /\ loop' = IF retry = "due" THEN "dial" ELSE "peer"
  /\ Watch(retry = "due")
  /\ UNCHANGED <<peerVars, phaseVars, retryVars, liveVars, pubVars, waited,
                 calm>>

TickRedial ==
  /\ loop = "tick" /\ peer # NoPeer /\ Why # "none"
  /\ request' = "none"
  /\ TeardownBegins("dial")
  /\ Watch(TRUE)
  /\ UNCHANGED <<peerVars, retry, failures, liveVars, pub, handle, frameAge,
                 calm>>

TickInSession ==
  /\ loop = "tick" /\ peer # NoPeer /\ Why = "none" /\ sess # "none"
  /\ failures' = Forgiven
  /\ loop' = "peer"
  /\ Watch(FALSE)
  /\ UNCHANGED <<peerVars, phaseVars, retry, after, request,
                 liveVars, pubVars, waited, calm>>

TickConnectTimeout ==
  /\ loop = "tick" /\ peer # NoPeer /\ Why = "none"
  /\ sess = "none" /\ offer = "late"
  /\ AttemptFailed
  /\ Watch(TRUE)
  /\ UNCHANGED <<peerVars, retry, request, liveVars, pub, handle,
                 frameAge, calm>>

TickWaiting ==
  /\ loop = "tick" /\ peer # NoPeer /\ Why = "none"
  /\ sess = "none" /\ offer # "late"
  /\ loop' = "peer"
  /\ Watch(FALSE)
  /\ UNCHANGED <<peerVars, phaseVars, retryVars, request, liveVars, pubVars,
                 waited, calm>>

Tick == \/ TickBetweenAttempts \/ TickRedial \/ TickInSession
        \/ TickConnectTimeout \/ TickWaiting
-----------------------------------------------------------------------------
(* pipecat_audio_publisher_detach and the rest of the teardown.             *)

\* Mutant: the flag is cleared before the send it brackets.
InSendClearedEarly == pub = "entered"

\* in_send is set from the top of a frame to its end.
InSend == pub \in {"entered", "sending"}

PollSucceeds ==
  /\ loop = "poll" /\ waited < DetachPolls /\ ~InSend
  /\ loop' = "free"
  /\ UNCHANGED <<peerVars, phaseVars, retryVars, request, liveVars, watchVars,
                 pubVars, waited, calm>>

\* 5 ms pass.  A frame that holds the pointer ends within FramePolls of them.
PollWaits ==
  /\ loop = "poll" /\ waited < DetachPolls /\ InSend
  /\ pub = "sending" => frameAge < FramePolls
  /\ waited' = waited + 1
  /\ frameAge' = IF pub = "sending" THEN frameAge + 1 ELSE frameAge
  /\ UNCHANGED <<loop, peerVars, phaseVars, retryVars, request, liveVars,
                 watchVars, pub, target, handle, calm>>

\* Mutant: the teardown waits less than a frame may take.
PollGivesUpEarly ==
  /\ loop = "poll" /\ waited + 1 >= FramePolls
  /\ loop' = "free"
  /\ UNCHANGED <<peerVars, phaseVars, retryVars, request, liveVars, watchVars,
                 pubVars, waited, calm>>

\* "audio publisher still in send after 500 ms": warn and go on.
PollGivesUp ==
  /\ loop = "poll" /\ waited = DetachPolls
  /\ loop' = "free"
  /\ UNCHANGED <<peerVars, phaseVars, retryVars, request, liveVars, watchVars,
                 pubVars, waited, calm>>

Free ==
  /\ loop = "free"
  /\ heap' = heap \ {peer} /\ peer' = NoPeer
  /\ pcState' = "closed" /\ aborted' = FALSE /\ heard' = FALSE
  /\ retry' = IF after = "backoff" THEN "wait" ELSE retry
  /\ loop' = IF after = "backoff" THEN "peer" ELSE "dial"
  /\ UNCHANGED <<phaseVars, failures, after, request, ping,
                 media, watchVars, pubVars, waited, calm>>

-----------------------------------------------------------------------------
(* pipecat_webrtc_dial: create, offer, and what the caller makes of it.     *)

\* Identities, not addresses: a recycled block is a new identity unless the
\* publisher still holds a pointer into it.
Dial ==
  /\ loop = "dial"
  /\ \E p \in Peer \ (heap \cup {handle}) :
       peer' = p /\ heap' = heap \cup {p}
  /\ pcState' = "closed" /\ aborted' = FALSE /\ heard' = FALSE
  /\ offer' = "waiting"
  /\ loop' = "offer"
  /\ UNCHANGED <<connected, sess, retryVars, request, ping, media, watchVars,
                 pubVars, waited, calm>>

\* No memory for a PeerConnection: the case the restart exists for.
DialOutOfMemory ==
  /\ loop = "dial" /\ ~calm
  /\ loop' = "restart"
  /\ UNCHANGED <<peerVars, phaseVars, retryVars, request, liveVars, watchVars,
                 pubVars, waited, calm>>

OfferAnswered ==
  /\ loop = "offer"
  /\ pcState' = "checking" /\ connected' = FALSE
  /\ loop' = "peer"
  /\ UNCHANGED <<peer, heap, aborted, sess, offer, retryVars, request,
                 liveVars, watchVars, pubVars, waited, calm>>

OfferUnanswered ==
  /\ loop = "offer" /\ ~calm
  /\ AttemptFailed
  /\ UNCHANGED <<peerVars, retry, request, liveVars, watchVars,
                 pub, handle, frameAge, calm>>

\* esp_restart: every task's RAM is gone, the boot dials again.
Restart ==
  /\ loop = "restart"
  /\ loop' = "dial" /\ after' = "dial"
  /\ peer' = NoPeer /\ heap' = {} /\ pcState' = "closed" /\ aborted' = FALSE
  /\ connected' = FALSE /\ sess' = "none" /\ offer' = "none"
  /\ retry' = "wait" /\ request' = "none"
  /\ failures' = 0
  /\ ping' = "never" /\ media' = "never" /\ heard' = FALSE
  /\ seen' = FALSE /\ unhealthy' = 0
  /\ pub' = "absent" /\ target' = NoPeer /\ handle' = NoPeer /\ frameAge' = 0
  /\ waited' = 0
  /\ UNCHANGED calm

TransportLoop == \/ Pass \/ Tick
                 \/ PollSucceeds \/ PollWaits \/ PollGivesUp \/ Free
                 \/ Dial \/ DialOutOfMemory
                 \/ OfferAnswered \/ OfferUnanswered
                 \/ Restart
-----------------------------------------------------------------------------
(* The audio publisher task: one frame every 20 ms, bracketed by in_send.   *)

FrameStarts ==
  /\ pub = "idle" /\ loop # "restart"
  /\ pub' = "entered"
  /\ UNCHANGED <<loop, peerVars, phaseVars, retryVars, request, liveVars,
                 watchVars, target, handle, frameAge, waited, calm>>

FrameLoadsTarget ==
  /\ pub = "entered" /\ loop # "restart"
  /\ pub' = "sending" /\ handle' = target /\ frameAge' = 0
  /\ UNCHANGED <<loop, peerVars, phaseVars, retryVars, request, liveVars,
                 watchVars, target, waited, calm>>

FrameEnds ==
  /\ pub = "sending" /\ loop # "restart"
  /\ pub' = "idle" /\ handle' = NoPeer /\ frameAge' = 0
  /\ UNCHANGED <<loop, peerVars, phaseVars, retryVars, request, liveVars,
                 watchVars, target, waited, calm>>

Publisher == FrameStarts \/ FrameLoadsTarget \/ FrameEnds

-----------------------------------------------------------------------------
(* Time, the operator and the world.                                        *)

TimeVars == <<loop, peerVars, connected, failures, after,
              request, heard, watchVars, pubVars, waited, calm>>

SessionTurnsStable ==
  /\ sess = "young" /\ sess' = "stable"
  /\ UNCHANGED <<offer, retry, ping, media, TimeVars>>

OfferTurnsLate ==
  /\ offer = "waiting" /\ ~calm /\ offer' = "late"
  /\ UNCHANGED <<sess, retry, ping, media, TimeVars>>

BackoffElapses ==
  /\ peer = NoPeer /\ retry = "wait" /\ retry' = "due"
  /\ UNCHANGED <<sess, offer, ping, media, TimeVars>>

\* 35 s without a ping.  A calm hub pings a peer it has reached before that.
PingTurnsStale ==
  /\ ping = "recent" /\ ~(calm /\ heard) /\ ping' = "stale"
  /\ UNCHANGED <<sess, offer, retry, media, TimeVars>>

MediaTurnsStale ==
  /\ media = "recent" /\ media' = "stale"
  /\ UNCHANGED <<sess, offer, retry, ping, TimeVars>>

Time == \/ SessionTurnsStable \/ OfferTurnsLate \/ BackoffElapses
        \/ PingTurnsStale \/ MediaTurnsStale

\* POST /webrtc/redial, or the hub URL policy asking for its cutover dial.
HttpRedial ==
  /\ ~calm /\ loop # "restart"
  /\ request' = Asked("http")
  /\ UNCHANGED <<loop, peerVars, phaseVars, retryVars, liveVars, watchVars,
                 pubVars, waited, calm>>

\* While it is not calm anything may happen, service as usual included.
WorldCalmsDown ==
  /\ ~calm /\ calm' = TRUE
  /\ UNCHANGED <<loop, peerVars, phaseVars, retryVars, request, liveVars,
                 watchVars, pubVars, waited>>

Next == TransportLoop \/ Publisher \/ Time \/ HttpRedial \/ WorldCalmsDown

Spec == Init /\ [][Next]_vars

\* The loop and the publisher are tasks the scheduler runs; a backoff is a
\* clock.  Nothing is assumed of the hub, the operator or the other clocks.
Fairness == /\ WF_vars(TransportLoop)
            /\ WF_vars(Publisher)
            /\ WF_vars(BackoffElapses)

FairSpec == Spec /\ Fairness

-----------------------------------------------------------------------------
(* Safety.                                                                  *)

\* The publisher's frame never holds a pointer to a destroyed PeerConnection,
\* although the teardown may stop waiting for it (webrtc.cpp:218-228).
PublisherHoldsLivePeer == handle # NoPeer => handle \in heap

\* The whole hand-off keeps the lease of PeerLease: create, lend and destroy
\* happen in an order that never frees a lent object or leaks one.
Lease == INSTANCE PeerLease WITH live <- heap, lent <- {handle} \ {NoPeer}
KeepsLease == Lease!LeaseSpec

\* libpeer never leaves CLOSED or FAILED and an aborted association is silent:
\* whichever callback saw it, the loop does not start another pass on one.
NoDeadPeerServiced ==
  loop = "peer" /\ peer # NoPeer => pcState \notin {"closed", "failed"} /\ ~aborted

\* Between iterations a peer is covered by exactly one clock: the connect
\* timeout until CONNECTED, the session clock from then on; and nothing is
\* left armed, published or reported connected when there is no peer.
EveryPeerHasOneClock ==
  loop = "peer" =>
    IF peer = NoPeer
    THEN sess = "none" /\ offer = "none" /\ target = NoPeer /\ ~connected
    ELSE /\ (sess = "none") # (offer = "none")
         /\ connected <=> (sess # "none")
         /\ target = (IF connected THEN peer ELSE NoPeer)

\* The step of the loop that drops a peer on the watchdog's word.
WatchdogDrops == /\ loop = "tick" /\ loop' = "poll"
                 /\ request = "none" /\ connected

\* Playback holds the connection: once the server has pinged, a late ping
\* never drops a connected peer while media arrives (server_liveness.h:16-23).
MediaHoldsConnection ==
  [][WatchdogDrops => ~(ping # "never" /\ media = "recent")]_vars

\* A flap cannot buy back its failures: the count that leads to the restart
\* shrinks only after 30 s of session, or by the restart itself.
OnlyStableSessionForgives ==
  [][failures' < failures => sess = "stable" \/ loop = "restart"]_vars

-----------------------------------------------------------------------------
(* Liveness, under FairSpec.                                                *)

\* A request made while a peer exists is not lost, whoever else asks: that
\* peer is torn down.
RequestServed ==
  \A p \in Peer : (request # "none" /\ peer = p) ~> (peer # p)

\* Once the world is calm the satellite is connected and stays connected,
\* from whatever state the outage left it in.
Recovers == <>calm => <>[](connected /\ Fresh)

\* A hub that never answers again is answered by restarts, again and again.
DeadHubLeadsToRestart ==
  <>[](pcState \in {"closed", "failed"}) => []<>(loop = "restart")

-----------------------------------------------------------------------------
(* What the comments say and the code does not do.                          *)

\* webrtc_redial.h:69-71: "so a connect/drop flap still walks toward the
\* reboot fallback instead of spinning forever".  A hub that accepts every
\* offer and closes every session young is such a flap.
FlapLeadsToRestart ==
  /\ [](sess # "stable" /\ request # "http")
  /\ []<>connected /\ []<>(request = "peer_closed")
  => <>(loop = "restart")

\* reconnect_watchdog.h:17-19 and main.cpp:314-315: a new attempt gets the
\* full grace; only a connection that has itself proved healthy loses it.
GraceUnlessPeerWasHeard ==
  [][WatchdogDrops => heard \/ unhealthy + 1 >= GraceTicks]_vars
=============================================================================
