-------------------------------- MODULE Tuning --------------------------------
(***************************************************************************)
(* The named DSP parameters: POST /xvf/tune writes one to the XVF3800 (or the *)
(* codec, or the LED level), reads it back and stores it in NVS; a boot writes *)
(* the baked profile and then replays what is stored (src/media.cpp 645-888,   *)
(* 1613-1705; src/ota.cpp 174-323, 728-938).                                 *)
(*                                                                          *)
(* Replay runs before httpd starts and httpd is one task, so nothing else       *)
(* touches a parameter while it is tuned: a tune is one step with every outcome  *)
(* of its I2C transactions, and a crash inside it is a failed tune and then a    *)
(* restart.  Values are in half units, so an odd one is not a whole number.     *)
(***************************************************************************)
EXTENDS Integers, Sequences, Functions

CONSTANTS
  Tunes,          \* kTuneEntries: parameter -> [target, low, high, bake]
  TuneOrder,      \* the persistent ones, in the order of the table
  TuneRequests,   \* values that are asked for
  HoleLow, HoleHigh,  \* the range dtsensitive must avoid
  ReplayAttempts  \* kReplayAttempts

TuneParam == DOMAIN Tunes
Persistent(p) == p \in Range(TuneOrder)

\* Targets: a float or whole register of the XVF3800, dtsensitive, which is
\* whole with a hole in its range, the codec's attenuation, and the LED level.
TuneTarget == {"float", "whole", "hole", "codec", "led"}

TuneValue == Nat  \* no persistent parameter has a negative range
Absent == -1      \* no key in NVS
Damaged == -2     \* a blob of the wrong size, or not finite
Mixed == -3       \* the left and right codec registers differ
Unpromised == -4
Unread == -5      \* a register read that gave up

ASSUME TuneBounds ==
  /\ \A p \in TuneParam : /\ Tunes[p].target \in TuneTarget
                          /\ {Tunes[p].low, Tunes[p].high} \subseteq TuneValue
                          /\ Tunes[p].bake \in Tunes[p].low..Tunes[p].high
  /\ TuneOrder \in Seq({p \in TuneParam : Tunes[p].target # "led"})
  /\ IsInjective(TuneOrder)
  /\ TuneRequests \subseteq TuneValue /\ ReplayAttempts \in Nat \ {0}
  /\ {HoleLow, HoleHigh} \subseteq {v \in TuneValue : v % 2 = 0}

VARIABLES
  stage,     \* "boot", "profile", "replay", "serving"
  replayed,  \* parameters replayed so far
  attempts,  \* failed attempts at the one being replayed
  live,      \* what the register, or s_led_brightness, holds
  stored,    \* NVS: the xvf_dsp namespace and the LED level's own
  promised,  \* ghost: the value the last answer said is persisted
  confirmed  \* ghost: the last write was verified, and was to last

replayVars == <<stage, replayed, attempts>>
tuneVars == <<replayVars, live, stored, promised, confirmed>>

TuneTypeOK ==
  /\ stage \in {"boot", "profile", "replay", "serving"}
  /\ replayed \in 0..Len(TuneOrder) /\ attempts \in 0..(ReplayAttempts - 1)
  /\ live \in [TuneParam -> TuneValue \cup {Mixed}]
  /\ stored \in [TuneParam -> TuneValue \cup {Absent, Damaged}]
  /\ promised \in [TuneParam -> TuneValue \cup {Unpromised}]
  /\ confirmed \in [TuneParam -> BOOLEAN]

-----------------------------------------------------------------------------
(* pipecat_xvf_tune.                                                        *)

Clamped(p, v) == CASE v < Tunes[p].low -> Tunes[p].low
                   [] v > Tunes[p].high -> Tunes[p].high
                   [] OTHER -> v

\* clamp_dtsensitive.
Snapped(p, v) ==
  IF Tunes[p].target = "hole" /\ HoleLow < v /\ v < HoleHigh
  THEN IF 2 * v < HoleLow + HoleHigh THEN HoleLow ELSE HoleHigh
  ELSE v

\* normalize_tune_value: clamped, snapped, and cast to int32_t.
Normalized(p, v) ==
  LET s == Snapped(p, Clamped(p, v))
  IN  IF Tunes[p].target = "float" THEN s ELSE s - (s % 2)

\* Two registers of the codec, written one after the other.
CodecWritten(old, new) ==
  {[reg |-> new, acked |-> TRUE]} \cup [reg : {old, Mixed, new}, acked : {FALSE}]

\* One write transaction of the XVF3800: one that failed may have landed, and
\* one that was acknowledged need not have.
XvfWritten(old, new) == [reg : {old, new}, acked : BOOLEAN]

\* A read polls until the XVF3800 has the answer, and may give up before.
XvfRead(reg) == {reg, Unread}

\* Mutant: an acknowledged write is taken for an applied one.
VerifiedByAck(acked, read, value) == acked

\* The write was acknowledged, and what is read back is what was written.
Verified(acked, read, value) == acked /\ read = value

\* A typed write and the typed read after it.
XvfTuned(old, new) ==
  UNION {{[reg |-> w.reg, applied |-> Verified(w.acked, read, new)] :
            read \in XvfRead(w.reg)} : w \in XvfWritten(old, new)}

\* What one tune can do to the register, and what it says of it.  The codec is
\* taken at its word.
TuneOutcomes(p, v) ==
  LET new == Normalized(p, v)
  IN  CASE Tunes[p].target = "led" -> {[reg |-> new, applied |-> TRUE]}
        [] Tunes[p].target = "codec" ->
             {[reg |-> w.reg, applied |-> w.acked] : w \in CodecWritten(live[p], new)}
        [] OTHER -> XvfTuned(live[p], new)

\* The LED level persists itself, outside the namespace of the others.
SelfPersists(p) == Tunes[p].target = "led"

\* save_dsp_param, led_brightness_save: set and commit; a failure may have
\* stored the value all the same.
SaveOutcomes(p, value) ==
  {[nvs |-> value, ok |-> TRUE]} \cup [nvs : {stored[p], value}, ok : {FALSE}]

\* load_dsp_param finds a blob of the right size, and it is finite.
Loaded(p) == stored[p] \in TuneValue

\* An earlier image may have stored what this one does not accept.
TuneInit ==
  /\ stage = "boot" /\ replayed = 0 /\ attempts = 0
  /\ live = [p \in TuneParam |-> Tunes[p].bake]
  /\ stored \in [TuneParam -> TuneRequests \cup {Absent, Damaged}]
  /\ \A p \in TuneParam : Tunes[p].target = "led" =>
       stored[p] \in {Absent, Normalized(p, stored[p])}
  /\ promised = [p \in TuneParam |-> Unpromised]
  /\ confirmed = [p \in TuneParam |-> FALSE]

-----------------------------------------------------------------------------
(* httpd.                                                                   *)

\* POST /xvf/tune.
TuneHandled(p, v, persist) ==
  /\ stage = "serving"
  /\ \E tuned \in TuneOutcomes(p, v) :
       /\ live' = [live EXCEPT ![p] = tuned.reg]
       /\ IF tuned.applied /\ persist /\ (Persistent(p) \/ SelfPersists(p))
          THEN \E save \in SaveOutcomes(p, Normalized(p, v)) :
                 /\ stored' = [stored EXCEPT ![p] = save.nvs]
                 /\ promised' = [promised EXCEPT ![p] =
                      IF save.ok THEN Normalized(p, v) ELSE Unpromised]
                 /\ confirmed' = [confirmed EXCEPT ![p] = save.ok]
          ELSE /\ confirmed' = [confirmed EXCEPT ![p] = FALSE]
               /\ UNCHANGED <<stored, promised>>
  /\ UNCHANGED replayVars

\* clear_dsp_params, which may fail half way.  The LED level is not in it.
Cleared ==
  {[p \in TuneParam |-> IF Persistent(p) /\ p \notin kept THEN Absent ELSE stored[p]] :
     kept \in SUBSET Range(TuneOrder)}

\* GET /xvf/params?reset=1.
ParamsReset ==
  /\ stage = "serving"
  /\ stored' \in Cleared
  /\ promised' = [p \in TuneParam |->
                    IF Persistent(p) THEN Unpromised ELSE promised[p]]
  /\ UNCHANGED <<replayVars, live, confirmed>>

-----------------------------------------------------------------------------
(* Restart and boot.                                                        *)

\* The ESP32 restarts, at any point; the XVF3800 and the codec keep their
\* registers unless the power was lost as well.
TunerRestarts ==
  /\ stage' = "boot" /\ replayed' = 0 /\ attempts' = 0
  /\ \E power \in BOOLEAN :
       live' = [p \in TuneParam |-> IF power \/ Tunes[p].target = "led"
                                    THEN Tunes[p].bake ELSE live[p]]
  /\ confirmed' = [p \in TuneParam |-> FALSE]
  /\ UNCHANGED <<stored, promised>>

\* led_brightness_load: a level that is absent or cannot be read stays baked.
LevelLoaded(p) == IF stored[p] = Absent THEN {live[p]} ELSE {live[p], stored[p]}

\* What the boot does to a parameter before the profile: the codec's attenuation
\* is written, acknowledged or not.
Initialised(p) ==
  CASE SelfPersists(p) -> LevelLoaded(p)
    [] Tunes[p].target = "codec" ->
         {w.reg : w \in CodecWritten(live[p], Tunes[p].bake)}
    [] OTHER -> {live[p]}

\* An XVF3800 that does not answer its probe in time gets no profile.
CodecInitialised ==
  /\ stage = "boot"
  /\ live' \in [TuneParam -> UNION {Initialised(p) : p \in TuneParam}]
  /\ \A p \in TuneParam : live'[p] \in Initialised(p)
  /\ confirmed' = [p \in TuneParam |-> SelfPersists(p) /\ live'[p] = stored[p]]
  /\ stage' \in {"profile", "replay"}
  /\ UNCHANGED <<replayed, attempts, stored, promised>>

\* The baked DSP profile: a write that is not acknowledged is only counted.
ProfileBaked ==
  /\ stage = "profile"
  /\ \E lost \in SUBSET TuneParam :
       live' = [p \in TuneParam |->
                  IF p \in lost \/ Tunes[p].target \in {"led", "codec"} THEN live[p]
                  ELSE Tunes[p].bake]
  /\ stage' = "replay"
  /\ UNCHANGED <<replayed, attempts, stored, promised, confirmed>>

\* nvs_open of xvf_dsp fails, or every parameter was visited.
ReplayEnds ==
  /\ stage = "replay" /\ replayed \in {0, Len(TuneOrder)}
  /\ stage' = "serving" /\ replayed' = 0
  /\ attempts = 0
  /\ UNCHANGED <<attempts, live, stored, promised, confirmed>>

NextReplayed == TuneOrder[replayed + 1]
Replaying == stage = "replay" /\ replayed < Len(TuneOrder)
Replayed == replayed' = replayed + 1 /\ attempts' = 0

ReplaySkips ==
  /\ Replaying /\ stored[NextReplayed] = Absent
  /\ Replayed
  /\ UNCHANGED <<stage, live, stored, promised, confirmed>>

\* restore_dsp_default.
ReplayRestoresBake ==
  /\ Replaying /\ stored[NextReplayed] = Damaged
  /\ \E tuned \in TuneOutcomes(NextReplayed, Tunes[NextReplayed].bake) :
       live' = [live EXCEPT ![NextReplayed] = tuned.reg]
  /\ Replayed
  /\ UNCHANGED <<stage, stored, promised, confirmed>>

\* Mutant: the baked default replaces a value that could not be replayed.
GaveUpToBake(reg) == Tunes[NextReplayed].bake

\* After the last attempt the register stays as it is.
GaveUp(reg) == reg

\* What was clamped is stored as it was applied.
ReplaySucceeds(p, tuned) ==
  /\ tuned.applied
  /\ live' = [live EXCEPT ![p] = tuned.reg]
  /\ confirmed' = [confirmed EXCEPT ![p] = TRUE]
  /\ \E save \in SaveOutcomes(p, Normalized(p, stored[p])) :
       stored' = IF Normalized(p, stored[p]) = stored[p] THEN stored
                 ELSE [stored EXCEPT ![p] = save.nvs]
  /\ Replayed

\* Up to ReplayAttempts tunes with the stored value.
ReplayRetries(p, tuned) ==
  /\ ~tuned.applied
  /\ IF attempts + 1 = ReplayAttempts
     THEN live' = [live EXCEPT ![p] = GaveUp(tuned.reg)] /\ Replayed
     ELSE /\ live' = [live EXCEPT ![p] = tuned.reg]
          /\ attempts' = attempts + 1 /\ UNCHANGED replayed
  /\ UNCHANGED <<stored, confirmed>>

ReplayApplies ==
  /\ Replaying /\ Loaded(NextReplayed)
  /\ \E tuned \in TuneOutcomes(NextReplayed, stored[NextReplayed]) :
       \/ ReplaySucceeds(NextReplayed, tuned)
       \/ ReplayRetries(NextReplayed, tuned)
  /\ UNCHANGED <<stage, promised>>

TuneNext ==
  \/ \E p \in TuneParam, v \in TuneRequests, persist \in BOOLEAN :
       TuneHandled(p, v, persist)
  \/ ParamsReset \/ TunerRestarts \/ CodecInitialised \/ ProfileBaked
  \/ ReplayEnds \/ ReplaySkips \/ ReplayRestoresBake \/ ReplayApplies

-----------------------------------------------------------------------------
\* A value the device said it persisted stays stored through any crashes,
\* boots and replays until it is tuned or cleared again, and is what runs
\* wherever the last write of it was reported as applied (ota.cpp:725-727,
\* 297-299): normalising it once more, as every replay does, must not move it.
PromiseKept ==
  \A p \in TuneParam : promised[p] # Unpromised =>
    /\ stored[p] = promised[p]
    /\ confirmed[p] => live[p] = promised[p]

\* "Never overwrite a valid stored value with the bake" (ota.cpp:297): during
\* the replay a parameter that has one moves to that value only, whatever
\* transactions of however many attempts fail.
StoredBeatsBake ==
  [][stage = "replay" /\ stage' # "boot" =>
       \A p \in TuneParam :
         Loaded(p) /\ live'[p] # live[p] =>
           live'[p] \in {Normalized(p, stored[p]), Mixed}]_tuneVars
=============================================================================
