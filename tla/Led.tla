---------------------------------- MODULE Led ----------------------------------
(***************************************************************************)
(* The LED ring: the hub's phase messages from the data channel through the   *)
(* RTVI queue (src/rtvi.cpp) to the phase the ring task draws (src/media.cpp). *)
(* The transport loop sheds a message when the queue is full, the RTVI task     *)
(* stores a phase and then its time, and the ring task reads both and the clock  *)
(* between the two stores as well.  Whether a session is up, and whether         *)
(* something plays, are other parts': any value here.  What a state looks like    *)
(* on the ring, and where the beam points, is left out.                       *)
(*                                                                          *)
(* Time is in ticks; the clock and the stamp are unsigned words of LedMsMod.     *)
(***************************************************************************)
EXTENDS Integers, Sequences

CONSTANTS
  RtviDepth,     \* length of the RTVI queue
  RtviMessages,  \* what the hub sends
  LedTtl,        \* LED_PHASE_TTL_MS
  LedMsMod       \* modulus of the millisecond clock

ASSUME LedBounds ==
  /\ RtviDepth \in Nat \ {0}
  /\ RtviMessages \subseteq {"bot-started", "bot-stopped", "idle", "waiting",
                             "thinking", "speaking", "other"}
  /\ LedTtl \in Nat \ {0} /\ LedMsMod \in Nat /\ LedMsMod > LedTtl + 2

Phases == {"idle", "waiting", "thinking", "speaking"}

VARIABLES
  rtviQueue,
  serverPhase,  \* g_server_phase
  stamping,     \* the phase is stored and its time is not
  stampAge,     \* ticks since the stored time: bounded, see TimePasses
  frame,        \* where pipecat_led_step stands: [at, phase, lag]
  overdue,      \* a tick has passed since the last frame
  ledState,     \* g_led_state
  byServer      \* ghost: the last frame shows the hub's phase

rtviVars == <<rtviQueue, serverPhase, stamping>>
shownVars == <<ledState, byServer>>
ledVars == <<rtviVars, stampAge, frame, overdue, shownVars>>

NoFrame == [at |-> "rest", phase |-> "none", lag |-> 0]

LedTypeOK ==
  /\ rtviQueue \in Seq(RtviMessages) /\ Len(rtviQueue) <= RtviDepth
  /\ serverPhase \in Phases \cup {"none"} /\ stamping \in BOOLEAN
  /\ stampAge \in 0..(2 * LedMsMod - 1)
  /\ frame \in [at : {"rest", "phase", "clock"}, phase : Phases \cup {"none"},
                lag : 0..1]
  /\ overdue \in BOOLEAN
  /\ ledState \in Phases \cup {"off"} /\ byServer \in BOOLEAN

\* The stamp is 0, and so is the clock.
LedInit ==
  /\ rtviQueue = <<>> /\ serverPhase = "none" /\ stamping = FALSE /\ stampAge = 0
  /\ frame = NoFrame /\ overdue = FALSE /\ ledState = "off" /\ byServer = FALSE

-----------------------------------------------------------------------------
(* From the data channel to the phase.                                      *)

\* On the transport loop, which never waits for the RTVI task.
MessageQueued(m) ==
  /\ Len(rtviQueue) < RtviDepth
  /\ rtviQueue' = Append(rtviQueue, m)
  /\ UNCHANGED <<serverPhase, stamping, stampAge, frame, overdue, shownVars>>

MessageShed(m) ==
  /\ Len(rtviQueue) = RtviDepth
  /\ UNCHANGED ledVars

\* The callbacks of the hub's own speaking events.
EventPhase == [m \in {"bot-started", "bot-stopped"} |->
                 IF m = "bot-started" THEN "speaking" ELSE "idle"]

\* The phase a message announces, if it is one.
Announced(m) == IF m \in DOMAIN EventPhase THEN EventPhase[m] ELSE m

\* rtvi_task handles one message at a time.
HandledNow == rtviQueue # <<>> /\ ~stamping

\* A phase is stored first.
PhaseStored ==
  /\ HandledNow /\ Announced(Head(rtviQueue)) \in Phases
  /\ serverPhase' = Announced(Head(rtviQueue))
  /\ stamping' = TRUE
  /\ rtviQueue' = Tail(rtviQueue)
  /\ UNCHANGED <<stampAge, frame, overdue, shownVars>>

\* The time may be a tick old when it is stored.
PhaseStamped ==
  /\ stamping /\ stamping' = FALSE
  /\ stampAge' \in 0..1
  /\ UNCHANGED <<rtviQueue, serverPhase, frame, overdue, shownVars>>

OtherHandled ==
  /\ HandledNow /\ Announced(Head(rtviQueue)) \notin Phases
  /\ rtviQueue' = Tail(rtviQueue)
  /\ UNCHANGED <<serverPhase, stamping, stampAge, frame, overdue, shownVars>>

-----------------------------------------------------------------------------
(* pipecat_led_step: the phase, the clock, then the stamp.                  *)

LoadPhase ==
  /\ frame.at = "rest"
  /\ frame' = [at |-> "phase", phase |-> serverPhase, lag |-> 0]
  /\ UNCHANGED <<rtviVars, stampAge, overdue, shownVars>>

LoadClock ==
  /\ frame.at = "phase"
  /\ frame' = [frame EXCEPT !.at = "clock"]
  /\ UNCHANGED <<rtviVars, stampAge, overdue, shownVars>>

\* Mutant: a phase holds until the next one.
FreshForever == frame.phase # "none"

\* now_ms - g_server_phase_ms, unsigned: a stamp newer than the clock that
\* was read is as old as can be.
FreshPhase ==
  frame.phase # "none" /\ (stampAge - frame.lag) % LedMsMod < LedTtl

FrameDrawn(up, plays) ==
  /\ frame.at = "clock"
  /\ byServer' = (up /\ FreshPhase)
  /\ ledState' = CASE ~up -> "off"
                   [] up /\ FreshPhase -> frame.phase
                   [] OTHER -> IF plays THEN "speaking" ELSE "idle"
  /\ frame' = NoFrame /\ overdue' = FALSE
  /\ UNCHANGED <<rtviVars, stampAge>>

\* The ring task draws 20 frames a second: a tick passes at most once between
\* two frames.  stampAge counts on past the wrap of the clock and then stays
\* in the second round.
TimePasses ==
  /\ ~overdue /\ overdue' = TRUE
  /\ stampAge' = IF stampAge = 2 * LedMsMod - 1 THEN LedMsMod ELSE stampAge + 1
  /\ frame' = IF frame.at = "clock" THEN [frame EXCEPT !.lag = 1] ELSE frame
  /\ UNCHANGED <<rtviVars, shownVars>>

LedNext ==
  \/ \E m \in RtviMessages : MessageQueued(m) \/ MessageShed(m)
  \/ PhaseStored \/ PhaseStamped \/ OtherHandled
  \/ LoadPhase \/ LoadClock
  \/ \E up, plays \in BOOLEAN : FrameDrawn(up, plays)
  \/ TimePasses

-----------------------------------------------------------------------------
\* "A dropped idle message can't stick forever" (media.cpp:1443-1445): once no
\* phase has been heard for its time to live, and one frame, the ring shows
\* what the device itself sees, however messages were shed and whichever of the
\* two stores a frame fell between.  The wrap of the clock after 49.7 days is the
\* exception: the last phase is then taken for a new one.
PhaseExpires == byServer => stampAge <= LedTtl + 1 \/ stampAge >= LedMsMod
=============================================================================
