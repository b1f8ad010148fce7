------------------------------- MODULE AckBeep -------------------------------
(***************************************************************************)
(* Proof that the hub's wake chime was played (src/ack_beep.c): the hub sends *)
(* a marker with the chime's fingerprint over the data channel, and the       *)
(* chime itself over RTP, in either order; the playback task feeds what the   *)
(* I2S DMA accepted.  The glue's mutex makes every operation one step.        *)
(*                                                                          *)
(* Time and audio are in 20 ms blocks.  The correlation and tone thresholds   *)
(* are abstracted to equality with the fingerprint.  Sample indices are kept  *)
(* as distances from the newest sample, which is exact below 2^32 samples.    *)
(***************************************************************************)
EXTENDS Naturals, Sequences, FiniteSets

CONSTANTS
  Chime,         \* the fingerprint: a sequence of blocks, the last one silent
  Sound,         \* the blocks that may be played, 0 is silence
  HistoryBlocks, \* ACK_BEEP_HIST_SAMPLES
  IdlePad,       \* ACK_BEEP_IDLE_PAD_MS
  MarkTimeout    \* ACK_BEEP_TIMEOUT_MS

ASSUME AckBeepBounds ==
  /\ Chime \in Seq(Sound) /\ HistoryBlocks \in Nat
  /\ Len(Chime) \in 1..HistoryBlocks /\ 0 \in Sound
  /\ IdlePad \in Nat /\ MarkTimeout \in Nat \ {0}

VARIABLES
  history,   \* the blocks played last; [sound, spent], spent is a ghost:
             \* the block is in a window that was counted as played
  fresh,     \* blocks after consumed, at most HistoryBlocks
  marker,    \* armed
  markAge,   \* now - armed_ms
  scored,    \* fcount
  idle,      \* now - last_feed_ms, as far as it matters
  padded,    \* pad_ms
  countedTwice  \* ghost: a window holding a spent block was counted

ackBeepVars == <<history, fresh, marker, markAge, scored, idle, padded,
                 countedTwice>>

Envelope == Len(Chime)
IdleCap == IF IdlePad > Envelope THEN IdlePad ELSE Envelope
Block(sound) == [sound |-> sound, spent |-> FALSE]

AckBeepTypeOK ==
  /\ history \in Seq([sound : Sound, spent : BOOLEAN])
  /\ Len(history) <= HistoryBlocks /\ fresh \in 0..HistoryBlocks
  /\ marker \in BOOLEAN /\ markAge \in 0..MarkTimeout
  /\ scored \in 0..Envelope /\ idle \in 0..IdleCap /\ padded \in 0..IdleCap
  /\ countedTwice \in BOOLEAN

AckBeepInit ==
  /\ history = <<>> /\ fresh = 0 /\ marker = FALSE /\ markAge = 0
  /\ scored = 0 /\ idle = 0 /\ padded = 0 /\ countedTwice = FALSE

\* append: the ring forgets the oldest block.
Appended(h, blocks) ==
  LET all == h \o blocks
  IN  SubSeq(all, IF Len(all) > HistoryBlocks THEN Len(all) - HistoryBlocks + 1
                  ELSE 1, Len(all))

Atmost(n, bound) == IF n < bound THEN n ELSE bound

\* The blocks at which a window of blocks after `from` that matches ends.
Matches(h, from) ==
  {e \in (from + Envelope)..Len(h) :
     \A i \in 1..Envelope : h[e - Envelope + i].sound = Chime[i]}

\* resolve_played: the window is spent, what follows it is fresh.
Played(h, end) ==
  LET window == (end - Envelope + 1)..end
  IN  /\ history' = [i \in 1..Len(h) |->
                       IF i \in window THEN [h[i] EXCEPT !.spent = TRUE] ELSE h[i]]
      /\ countedTwice' = (countedTwice \/ \E i \in window : h[i].spent)
      /\ fresh' = Len(h) - end
      /\ marker' = FALSE /\ markAge' = 0 /\ scored' = 0

\* The scan stops at the first window that matches.
FirstPlayed(h, from) ==
  \E e \in Matches(h, from) :
    Played(h, e) /\ \A other \in Matches(h, from) : e <= other

\* Mutant: the features of the blocks scored before are not kept.
ScannedAfterNew(h, n) == Len(h) - Atmost(n, Len(h))

\* scan_from less the fcount blocks whose features are kept: where the windows
\* begin that n new blocks may complete.
ScannedAfter(h, n) == Len(h) - Atmost(scored + n, Len(h))

\* score_available after n new blocks, then check_timeout.
ScoreAndTimeOut(h, n) ==
  IF Matches(h, ScannedAfter(h, n)) # {} THEN FirstPlayed(h, ScannedAfter(h, n))
  ELSE /\ history' = h
       /\ fresh' = Atmost(fresh + n, HistoryBlocks)
       /\ marker' = (markAge < MarkTimeout)
       /\ markAge' = IF markAge < MarkTimeout THEN markAge ELSE 0
       /\ scored' = IF markAge < MarkTimeout THEN Atmost(scored + n, Envelope)
                    ELSE 0
       /\ UNCHANGED countedTwice

\* Mutant: the history is searched from its beginning.
UnsearchedAll == Len(history)

\* max(oldest, consumed): the blocks a new marker may match.
Unsearched == Atmost(fresh, Len(history))

\* ack_beep_arm.  A pending marker is superseded; a malformed one is rejected
\* and changes only the counters.
MarkerArrives ==
  IF Matches(history, Len(history) - Unsearched) # {}
  THEN /\ FirstPlayed(history, Len(history) - Unsearched)
       /\ UNCHANGED <<idle, padded>>
  ELSE /\ marker' = TRUE /\ markAge' = 0
       /\ scored' = Atmost(Unsearched, Envelope)
       /\ UNCHANGED <<history, fresh, idle, padded, countedTwice>>

\* ack_beep_feed: i2s_channel_write took a frame.
FrameFed ==
  /\ \E sound \in Sound :
       LET h == Appended(history, <<Block(sound)>>)
       IN  IF marker THEN ScoreAndTimeOut(h, 1)
           ELSE /\ history' = h /\ fresh' = Atmost(fresh + 1, HistoryBlocks)
                /\ UNCHANGED <<marker, markAge, scored, countedTwice>>
  /\ idle' = 0 /\ padded' = 0

\* ack_beep_tick: a device that is idle with a marker pending is silent.
Ticked ==
  /\ marker
  /\ LET want == IF idle >= IdlePad /\ Atmost(idle, Envelope) > padded
                 THEN Atmost(idle, Envelope) - padded ELSE 0
     IN  /\ ScoreAndTimeOut(Appended(history, [i \in 1..want |-> Block(0)]), want)
         /\ padded' = padded + want
  /\ UNCHANGED idle

\* 20 ms pass.  The playback task runs at least that often, so time stops at
\* the timeout until it has.
BlockElapses ==
  /\ marker => markAge < MarkTimeout
  /\ idle' = Atmost(idle + 1, IdleCap)
  /\ markAge' = IF marker THEN markAge + 1 ELSE 0
  /\ UNCHANGED <<history, fresh, marker, scored, padded, countedTwice>>

AckBeepNext == MarkerArrives \/ FrameFed \/ Ticked \/ BlockElapses

-----------------------------------------------------------------------------
\* One playing of the chime is counted for one marker at most, however the
\* markers, the audio and the idle padding are interleaved (ack_beep.c:83,
\* 215-219; ack_beep.h:72 "samples at or before this matched an earlier beep").
ChimeCountsOnce == ~countedTwice

\* ... and none is missed: what score_available did not find block by block, with
\* the features it kept, is not to be found in all of the audio a marker may
\* match, whether that came before the marker or after it, and however silence
\* was padded (ack_beep.c:92-135, 214 "audio may have beaten the marker").
NoChimeMissed == marker => Matches(history, Len(history) - Unsearched) = {}
=============================================================================
