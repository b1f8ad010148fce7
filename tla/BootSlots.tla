------------------------------ MODULE BootSlots ------------------------------
(***************************************************************************)
(* What survives a reset: the two OTA slots, the boot guard in RTC memory,   *)
(* and who may change them.                                                 *)
(*                                                                          *)
(*   - app_main counts the fault boots, hands over to the other slot after   *)
(*     FlipAt crashes in a row, holds after a fault, and then runs;         *)
(*   - the network watchdog (esp_timer) restarts an unhealthy satellite;     *)
(*   - httpd takes an upload into the other slot, or a rollback request;    *)
(*   - the main loop confirms an image that has done its job, the            *)
(*     validation watchdog rejects one that has not;                        *)
(*   - the bootloader picks the slot.                                       *)
(*                                                                          *)
(* Sources: xiao-esp32-s3/src/boot_guard.h, main.cpp, ota.cpp.  The         *)
(* bootloader and the esp_ota_* calls are ESP-IDF's (rollback enabled, no    *)
(* factory partition, see partitions.csv) and marked external.              *)
(*                                                                          *)
(* Left out: how long a hold or a watchdog deadline is, and the counters    *)
(* that only lengthen them or are reported.                                 *)
(***************************************************************************)
EXTENDS Naturals

CONSTANTS
  Image,        \* firmware images
  Factory,      \* the one flashed over the wire
  Torn,         \* a slot without a whole image
  NoSlot,       \* no slot
  FlipAt,       \* kPipecatSlotFlipCrashBoots
  CountCap      \* kPipecatBootGuardCountCap

ASSUME ImageAssumption == Factory \in Image /\ Torn \notin Image
ASSUME SlotAssumption == NoSlot \notin {0, 1}
ASSUME CountAssumption == FlipAt \in Nat \ {0} /\ CountCap \in Nat /\ FlipAt <= CountCap

Slot == {0, 1}          \* ota_0, ota_1
Other(s) == 1 - s

VARIABLES
  image,        \* flash: what each slot holds
  entry,        \* otadata: state of each slot's entry, "blank" if it has none
  latest,       \* otadata: the slot whose entry has the highest sequence number
  magic,        \* RTC: boot guard state is not garbage
  faultBoots,   \* RTC: fault_boots
  crashBoots,   \* RTC: crash_boots
  netwdt,       \* RTC: netwdt_pending
  flipped,      \* RTC: slot_flipped
  why,          \* esp_reset_reason, classified; "past" once the guard is done
  phase,        \* where app_main stands, "boot" while the bootloader runs
  running,      \* the slot the running image came from
  afterFault,   \* what on_boot said of this boot, until the guard is done
  served,       \* RAM: this boot has published its uplink frames
  upload,       \* httpd: idle, writing, ended (whole, not yet selected)
  rebootDue,    \* reboot_task is waiting
  watch,        \* validation watchdog: none, armed, expired
  works,        \* the world: the images that can reach health as things are
  calm,         \* the world: TRUE once nothing but the images themselves acts
  proven,       \* ghost: images that have done their job here
  stale,        \* ghost: slots rewritten since their entry was
  flips,        \* ghost: flips since power-on, but for those cut short
  crashes       \* ghost: fault resets since power-on or the last healthy tick

flashVars == <<image, entry, latest>>
rtcVars   == <<magic, faultBoots, crashBoots, netwdt, flipped>>
ramVars   == <<served, upload, rebootDue, watch>>
worldVars == <<works, calm>>
ghostVars == <<proven, stale, flips, crashes>>
vars == <<flashVars, rtcVars, why, phase, running, afterFault, ramVars,
          worldVars, ghostVars>>

TypeOK ==
  /\ image \in [Slot -> Image \cup {Torn}]
  /\ entry \in [Slot -> {"blank", "new", "pending", "valid", "invalid"}]
  /\ latest \in Slot
  /\ magic \in BOOLEAN /\ netwdt \in BOOLEAN /\ flipped \in BOOLEAN
  /\ faultBoots \in 0..CountCap /\ crashBoots \in 0..CountCap
  /\ why \in {"poweron", "fault", "software", "other", "past"}
  /\ phase \in {"boot", "entry", "decide", "flipping", "hold", "init", "run"}
  /\ running \in Slot /\ afterFault \in BOOLEAN
  /\ served \in BOOLEAN /\ rebootDue \in BOOLEAN
  /\ upload \in {"idle", "writing", "ended"}
  /\ watch \in {"none", "armed", "expired"}
  /\ works \in SUBSET Image /\ calm \in BOOLEAN
  /\ proven \in SUBSET Image /\ stale \in SUBSET Slot
  /\ flips \in 0..2 /\ crashes \in 0..FlipAt

\* A satellite at its first power-on.  RTC memory then holds garbage that is not
\* read, see Fresh: one value of it stands for all, here and in PowerCycle.
Init ==
  /\ image = [s \in Slot |-> IF s = 0 THEN Factory ELSE Torn]
  /\ entry = [s \in Slot |-> "blank"] /\ latest = 0
  /\ magic = FALSE /\ netwdt = TRUE /\ flipped = TRUE
  /\ faultBoots = CountCap /\ crashBoots = CountCap
  /\ why = "poweron" /\ phase = "boot" /\ running = 0 /\ afterFault = FALSE
  /\ served = FALSE /\ upload = "idle" /\ rebootDue = FALSE /\ watch = "none"
  /\ works = Image /\ calm = FALSE
  /\ proven = {} /\ stale = {} /\ flips = 0 /\ crashes = 0

Least(m, n) == IF m < n THEN m ELSE n

\* pipecat_boot_guard_sat_inc.
Saturated(n) == Least(n + 1, CountCap)

Healthy == phase = "run" /\ image[running] \in works

-----------------------------------------------------------------------------
(* ESP-IDF: otadata, the bootloader, esp_ota_*.                             *)

Usable(state) == state \notin {"blank", "invalid"}

\* The entry that counts: the latest one that is not invalid.
ActiveIn(entries) == IF Usable(entries[latest]) THEN latest
                     ELSE IF Usable(entries[Other(latest)]) THEN Other(latest)
                     ELSE NoSlot
Active == ActiveIn(entry)

\* An image that was booted once and never confirmed is given up.
GivenUp == [s \in Slot |-> IF entry[s] = "pending" THEN "invalid" ELSE entry[s]]

\* The slot tried first; without an entry to go by, ota_0.
Tried == IF ActiveIn(GivenUp) = NoSlot THEN 0 ELSE ActiveIn(GivenUp)

Boot ==
  /\ phase = "boot"
  /\ entry' = [s \in Slot |-> IF s = ActiveIn(GivenUp) /\ entry[s] = "new"
                              THEN "pending" ELSE GivenUp[s]]
  /\ running' = IF image[Tried] # Torn THEN Tried ELSE Other(Tried)
  /\ image[running'] # Torn
  /\ phase' = "entry"
  /\ UNCHANGED <<image, latest, rtcVars, why, afterFault, ramVars, worldVars,
                 ghostVars>>

\* esp_ota_set_boot_partition, which verifies the image first.
SetsBootPartition(s) ==
  /\ image[s] # Torn
  /\ latest' = s /\ entry' = [entry EXCEPT ![s] = "new"]
  /\ stale' = stale \ {s}

\* Every reset: RAM is gone.
Resets(kind) ==
  /\ why' = kind /\ phase' = "boot" /\ afterFault' = FALSE
  /\ served' = FALSE /\ upload' = "idle" /\ rebootDue' = FALSE /\ watch' = "none"
  /\ UNCHANGED running

\* esp_ota_check_rollback_is_possible.
CanRollBack == /\ Active # NoSlot
               /\ Usable(entry[Other(Active)])
               /\ image[Other(Active)] # Torn

\* esp_ota_mark_app_invalid_rollback_and_reboot, when it is possible.
RollsBack ==
  /\ CanRollBack
  /\ entry' = [entry EXCEPT ![Active] = "invalid"]
  /\ Resets("software")
  /\ UNCHANGED <<image, latest, rtcVars, worldVars, ghostVars>>

-----------------------------------------------------------------------------
(* app_main: boot guard, slot flip, hold, init.                             *)

\* RTC memory is garbage after a power-on.
Fresh == ~magic \/ why = "poweron"

NetwdtRestart == ~Fresh /\ why = "software" /\ netwdt

\* Mutant: a network watchdog restart counts as a crash.
CrashesAfterAnyRestart(n) ==
  IF why = "fault" \/ NetwdtRestart THEN Saturated(n) ELSE 0

CrashesAfter(n) == IF why = "fault" THEN Saturated(n)
                   ELSE IF NetwdtRestart THEN n
                   ELSE 0

\* Mutant: only crashes climb the hold ladder.
FaultsAfterCrashOnly(n) == IF why = "fault" THEN Saturated(n) ELSE n

FaultsAfter(n) == IF why = "fault" \/ NetwdtRestart THEN Saturated(n) ELSE n

\* pipecat_boot_guard_on_boot.
OnBoot ==
  /\ phase = "entry"
  /\ faultBoots' = FaultsAfter(IF Fresh THEN 0 ELSE faultBoots)
  /\ crashBoots' = CrashesAfter(IF Fresh THEN 0 ELSE crashBoots)
  /\ flipped' = (flipped /\ ~Fresh)
  /\ magic' = TRUE /\ netwdt' = FALSE
  /\ afterFault' = (why = "fault" \/ NetwdtRestart)
  /\ phase' = "decide"
  /\ UNCHANGED <<flashVars, why, running, ramVars, worldVars, ghostVars>>

\* From here on nothing asks what kind of boot this is.
GuardIsDone == phase' = "init" /\ why' = "past" /\ afterFault' = FALSE

\* Mutant: a slot that otadata does not name is not trusted.
ShouldFlipToValid(s) ==
  /\ crashBoots >= FlipAt /\ ~flipped
  /\ image[s] \notin {Torn, image[running]}
  /\ entry[s] = "valid"

\* pipecat_boot_guard_should_flip_slot, with what the glue reads of slot s.
ShouldFlipTo(s) ==
  /\ crashBoots >= FlipAt /\ ~flipped
  /\ image[s] \notin {Torn, image[running]}
  /\ entry[s] \in {"valid", "blank"}

Flip ==
  /\ phase = "decide" /\ ShouldFlipTo(Other(running))
  /\ SetsBootPartition(Other(running))
  /\ phase' = "flipping" /\ flips' = Least(flips + 1, 2)
  /\ UNCHANGED <<image, rtcVars, why, running, afterFault, ramVars, worldVars,
                 proven, crashes>>

\* Mutant: the latch is forgotten.
FlipUnlatched ==
  /\ phase = "flipping"
  /\ crashBoots' = 0 /\ faultBoots' = 0
  /\ Resets("software")
  /\ UNCHANGED <<flashVars, magic, netwdt, flipped, worldVars, ghostVars>>

\* pipecat_boot_guard_note_slot_flip and the restart.
FlipLatches ==
  /\ phase = "flipping"
  /\ flipped' = TRUE /\ crashBoots' = 0 /\ faultBoots' = 0
  /\ Resets("software")
  /\ UNCHANGED <<flashVars, magic, netwdt, worldVars, ghostVars>>

\* No flip wanted, nothing to flip to, or otadata could not be written.
StaysOnSlot ==
  /\ phase = "decide" /\ (ShouldFlipTo(Other(running)) => ~calm)
  /\ \/ /\ faultBoots > 0 /\ phase' = "hold" /\ UNCHANGED <<why, afterFault>>
     \/ /\ faultBoots = 0 /\ GuardIsDone
  /\ UNCHANGED <<flashVars, rtcVars, running, ramVars, worldVars, ghostVars>>

HoldEnds ==
  /\ phase = "hold" /\ GuardIsDone
  /\ UNCHANGED <<flashVars, rtcVars, running, ramVars, worldVars, ghostVars>>

\* Wi-Fi, the OTA server, pipecat_start_ota_validation_watchdog (whose task may
\* not start), the first dial.
InitEnds ==
  /\ phase = "init" /\ phase' = "run"
  /\ watch' \in IF entry[running] = "pending" THEN {"armed", "none"} ELSE {"none"}
  /\ UNCHANGED <<flashVars, rtcVars, why, running, afterFault, served, upload,
                 rebootDue, worldVars, ghostVars>>

\* The uplink flows, peer and heartbeat are there.
Serves ==
  /\ Healthy
  /\ served' = TRUE /\ proven' = proven \cup {image[running]}
  /\ UNCHANGED <<flashVars, rtcVars, why, phase, running, afterFault, upload,
                 rebootDue, watch, worldVars, stale, flips, crashes>>

\* Mutant: an image is confirmed before it has published anything.
ConfirmsAtOnce ==
  /\ phase = "run" /\ entry[running] = "pending"
  /\ entry' = [entry EXCEPT ![Active] = "valid"]
  /\ UNCHANGED <<image, latest, rtcVars, why, phase, running, afterFault,
                 ramVars, worldVars, ghostVars>>

\* pipecat_validate_ota_if_healthy.
Confirms ==
  /\ Healthy /\ served /\ entry[running] = "pending"
  /\ entry' = [entry EXCEPT ![Active] = "valid"]
  /\ UNCHANGED <<image, latest, rtcVars, why, phase, running, afterFault,
                 ramVars, worldVars, ghostVars>>

\* The re-dial ladder is exhausted, see Redial.tla: a plain esp_restart.
RestartFallback ==
  /\ phase \in {"init", "run"} /\ ~calm
  /\ Resets("software")
  /\ UNCHANGED <<flashVars, rtcVars, worldVars, ghostVars>>

AppMain == \/ Boot \/ OnBoot \/ Flip \/ FlipLatches \/ StaysOnSlot
           \/ HoldEnds \/ InitEnds \/ Serves \/ Confirms

-----------------------------------------------------------------------------
(* The network watchdog, the validation watchdog, httpd.                    *)

\* pipecat_net_watchdog_cb, healthy: the ladder resets.
HealthyTick ==
  /\ Healthy
  /\ faultBoots' = 0 /\ crashBoots' = 0 /\ crashes' = 0
  /\ UNCHANGED <<flashVars, magic, netwdt, flipped, why, phase, running,
                 afterFault, ramVars, worldVars, proven, stale, flips>>

\* Unhealthy for the whole deadline.
NetWatchdogFires ==
  /\ phase \in {"init", "run"} /\ ~calm
  /\ netwdt' = TRUE
  /\ Resets("software")
  /\ UNCHANGED <<flashVars, magic, faultBoots, crashBoots, flipped, worldVars,
                 ghostVars>>

\* ota_validation_watchdog_task after its 120 s: it looks, then it acts.  In a
\* calm world an image that works has been confirmed by then.
ValidationExpires ==
  /\ phase = "run" /\ watch = "armed" /\ ~(calm /\ Healthy)
  /\ watch' = IF entry[running] = "pending" THEN "expired" ELSE "none"
  /\ UNCHANGED <<flashVars, rtcVars, why, phase, running, afterFault, served,
                 upload, rebootDue, worldVars, ghostVars>>

ValidationRollsBack == watch = "expired" /\ RollsBack

\* There is nothing to roll back to: the image stays, on probation.
ValidationGivesUp ==
  /\ watch = "expired" /\ ~CanRollBack
  /\ watch' = "none"
  /\ UNCHANGED <<flashVars, rtcVars, why, phase, running, afterFault, served,
                 upload, rebootDue, worldVars, ghostVars>>

OperatorRollsBack ==
  /\ phase = "run" /\ upload = "idle" /\ ~calm
  /\ RollsBack

\* Mutant: the target is the slot that is not selected for the next boot.
UploadTargetByEntry == Other(latest)

\* esp_ota_get_next_update_partition.
UploadTarget == Other(running)

\* esp_ota_begin erases the slot; it refuses while the running image is pending.
UploadBegins ==
  /\ phase = "run" /\ upload = "idle" /\ ~calm
  /\ entry[running] # "pending"
  /\ image' = [image EXCEPT ![UploadTarget] = Torn]
  /\ stale' = stale \cup {UploadTarget}
  /\ upload' = "writing"
  /\ UNCHANGED <<entry, latest, rtcVars, why, phase, running, afterFault,
                 served, rebootDue, watch, worldVars, proven, flips, crashes>>

\* esp_ota_end has verified the image.
UploadEnds ==
  /\ upload = "writing"
  /\ \E i \in Image : image' = [image EXCEPT ![UploadTarget] = i]
  /\ upload' = "ended"
  /\ UNCHANGED <<entry, latest, rtcVars, why, phase, running, afterFault,
                 served, rebootDue, watch, worldVars, ghostVars>>

\* The reboot task may not start either.
UploadSwitches ==
  /\ upload = "ended"
  /\ SetsBootPartition(UploadTarget)
  /\ upload' = "idle" /\ rebootDue' \in {rebootDue, TRUE}
  /\ UNCHANGED <<image, rtcVars, why, phase, running, afterFault, served, watch,
                 worldVars, proven, flips, crashes>>

\* The peer goes away, flash fails, the image is not one, otadata fails.
UploadFails ==
  /\ upload # "idle" /\ upload' = "idle"
  /\ UNCHANGED <<flashVars, rtcVars, why, phase, running, afterFault, served,
                 rebootDue, watch, worldVars, ghostVars>>

RebootTask ==
  /\ rebootDue
  /\ Resets("software")
  /\ UNCHANGED <<flashVars, rtcVars, worldVars, ghostVars>>

OtherTasks == \/ HealthyTick \/ NetWatchdogFires
              \/ ValidationExpires \/ ValidationRollsBack \/ ValidationGivesUp
              \/ OperatorRollsBack
              \/ UploadBegins \/ UploadEnds \/ UploadSwitches \/ UploadFails
              \/ RebootTask

-----------------------------------------------------------------------------
(* Resets from outside, and the world.                                      *)

\* A reset in the middle of a flip costs the latch, and its flip is not counted.
FlipsLeft == IF phase = "flipping" THEN flips - 1 ELSE flips

\* Brownout, watchdog or panic.  In a calm world only an image that does not
\* work crashes, once it gets to do something.
Crash ==
  /\ calm => phase \in {"init", "run"} /\ image[running] \notin works
  /\ Resets("fault")
  /\ crashes' = Least(crashes + 1, FlipAt) /\ flips' = FlipsLeft
  /\ UNCHANGED <<flashVars, rtcVars, worldVars, proven, stale>>

\* The reset pin, USB.
OtherReset ==
  /\ ~calm
  /\ Resets("other")
  /\ flips' = FlipsLeft
  /\ UNCHANGED <<flashVars, rtcVars, worldVars, proven, stale, crashes>>

PowerCycle ==
  /\ ~calm
  /\ Resets("poweron")
  /\ magic' = FALSE /\ netwdt' = TRUE /\ flipped' = TRUE
  /\ faultBoots' = CountCap /\ crashBoots' = CountCap
  /\ flips' = 0 /\ crashes' = 0
  /\ UNCHANGED <<flashVars, worldVars, proven, stale>>

\* Until then a hub, a configuration or a heap may break any image and mend it.
WorldCalmsDown ==
  /\ ~calm /\ calm' = TRUE
  /\ works' \in SUBSET Image
  /\ UNCHANGED <<flashVars, rtcVars, why, phase, running, afterFault, ramVars,
                 ghostVars>>

Next == AppMain \/ OtherTasks \/ RestartFallback
          \/ Crash \/ OtherReset \/ PowerCycle \/ WorldCalmsDown

Spec == Init /\ [][Next]_vars

\* Tasks run, and what crashes crashes.
Fairness == WF_vars(AppMain) /\ WF_vars(Crash) /\ WF_vars(RebootTask)

FairSpec == Spec /\ Fairness

-----------------------------------------------------------------------------
(* Safety.                                                                  *)

\* However uploads, rollbacks, flips and resets interleave, the image that
\* runs is never written to, so that there is always one to boot.
RunningSlotIsWhole ==
  /\ \E s \in Slot : image[s] # Torn
  /\ phase # "boot" => image[running] # Torn

\* Two bad images cannot ping-pong: one flip per power cycle, not counting one
\* that a reset cut off from its latch (main.cpp:186-192).
OneFlipPerPowerCycle == flips <= 1

\* "An unreachable hub is not an image defect": only crashes that no healthy
\* tick has followed lead to a flip, never restarts by a watchdog or ladder.
FlipIsEarned == [][phase' = "flipping" => crashes >= FlipAt]_vars

\* A slot is confirmed only for an image that has done its job here, whichever
\* of upload, flip, rollback and reset came between.
ProvenBeforeConfirmed ==
  \A s \in Slot : entry[s] = "valid" /\ s \notin stale => image[s] \in proven

\* A boot that follows a fault or a network watchdog restart holds before init.
FaultBootHolds == [][phase' = "init" /\ afterFault => phase = "hold"]_vars

-----------------------------------------------------------------------------
(* Liveness, under FairSpec.                                                *)

\* With the world calm and no upload or rejection under way, a satellite that
\* crashes on an image hands over to a working one in the other slot, which
\* stays and gets off probation.
CrashLoopHandsOver ==
  (/\ calm /\ phase = "run" /\ ~flipped
   /\ upload = "idle" /\ watch # "expired"
   /\ image[running] \notin works
   /\ image[Other(running)] \in works /\ entry[Other(running)] \in {"valid", "blank"})
  ~> [](Healthy /\ entry[running] # "pending")

-----------------------------------------------------------------------------
(* What the comments say and the code does not do.                          *)

\* boot_guard.h:19-20: "Plain esp_restart() re-offers ... are not faults and
\* keep their existing cadence".
PlainRestartNeverHolds ==
  [][phase' = "hold" /\ why = "software" => afterFault]_vars
=============================================================================
