--------------------------- MODULE BootSlots_proofs ---------------------------
(***************************************************************************)
(* Proofs about BootSlots.tla, for every set of images, flip threshold and   *)
(* counter cap.                                                             *)
(*                                                                          *)
(* OneFlipPerPowerCycle rests on the latch being there from a flip's         *)
(* restart to the next power-on; FlipIsEarned on the streak lagging the      *)
(* crashes by the one crash that on_boot has not counted yet;               *)
(* ProvenBeforeConfirmed on there being one entry on probation, which is     *)
(* the running image's or nobody's.                                         *)
(***************************************************************************)
EXTENDS BootSlots, TLAPS

USE ImageAssumption, SlotAssumption, CountAssumption
USE DEF vars, flashVars, rtcVars, ramVars, worldVars, ghostVars, Slot, Other

\* What is known of where app_main and the tasks stand.
Stands ==
  /\ upload # "idle" \/ watch # "none" \/ served \/ rebootDue => phase = "run"
  /\ phase \notin {"boot", "entry"} => magic
  /\ afterFault => \/ phase = "flipping"
                   \/ phase \in {"decide", "hold"} /\ faultBoots > 0

\* Flips are latched, from the flip's restart to the next power-on.
FlipsLatched ==
  /\ flips <= 1
  /\ flips = 1 => flipped \/ phase = "flipping"
  /\ phase = "flipping" => flips = 1
  /\ ~magic => flips = 0
  /\ phase \in {"boot", "entry"} /\ why = "poweron" => ~magic

\* The crash streak counts crashes, one of them perhaps not yet.
StreakEarned ==
  /\ magic => crashes >= FlipAt \/ crashBoots <= crashes
  /\ phase \in {"boot", "entry"} /\ why = "fault" =>
       \/ crashes >= FlipAt
       \/ crashes >= 1 /\ (magic => crashBoots + 1 <= crashes)
  /\ phase = "flipping" => crashes >= FlipAt

\* Only the entry that counts is on probation, and an upload never meets one
\* that is: nor does it touch a slot whose entry still speaks of its image.
OneOnProbation ==
  /\ phase \notin {"boot", "flipping"} =>
       \A s \in Slot : entry[s] = "pending" => Active = s
  /\ upload # "idle" => /\ entry[running] # "pending"
                        /\ Other(running) \in stale
  /\ served => image[running] \in proven

IInv == /\ TypeOK /\ Stands /\ RunningSlotIsWhole /\ FlipsLatched
        /\ StreakEarned /\ OneOnProbation /\ ProvenBeforeConfirmed

\* The Boolean part of TypeOK, apart because it is first-order logic only.
FlagsOK == /\ magic \in BOOLEAN /\ netwdt \in BOOLEAN /\ flipped \in BOOLEAN
           /\ afterFault \in BOOLEAN /\ served \in BOOLEAN
           /\ rebootDue \in BOOLEAN /\ calm \in BOOLEAN

-----------------------------------------------------------------------------

\* Every action keeps the Boolean variables Boolean.
LEMMA FlagsStep == FlagsOK /\ [Next]_vars => FlagsOK'
<1> SUFFICES ASSUME FlagsOK, [Next]_vars PROVE FlagsOK'
  OBVIOUS
<1> USE DEF FlagsOK
<1>1. CASE Boot
  BY <1>1, Zenon DEF Boot
<1>2. CASE OnBoot
  BY <1>2, Zenon DEF OnBoot
<1>3. CASE Flip
  BY <1>3, Zenon DEF Flip, SetsBootPartition
<1>4. CASE FlipLatches
  BY <1>4, Zenon DEF FlipLatches, Resets
<1>5. CASE StaysOnSlot
  BY <1>5, Zenon DEF StaysOnSlot, GuardIsDone
<1>6. CASE HoldEnds
  BY <1>6, Zenon DEF HoldEnds, GuardIsDone
<1>7. CASE InitEnds
  BY <1>7, Zenon DEF InitEnds
<1>8. CASE Serves
  BY <1>8, Zenon DEF Serves, Healthy
<1>9. CASE Confirms
  BY <1>9, Zenon DEF Confirms, Healthy
<1>10. CASE HealthyTick
  BY <1>10, Zenon DEF HealthyTick, Healthy
<1>11. CASE NetWatchdogFires
  BY <1>11, Zenon DEF NetWatchdogFires, Resets
<1>12. CASE ValidationExpires
  BY <1>12, Zenon DEF ValidationExpires, Healthy
<1>13. CASE ValidationRollsBack
  BY <1>13, Zenon DEF ValidationRollsBack, RollsBack, CanRollBack, Resets
<1>14. CASE ValidationGivesUp
  BY <1>14, Zenon DEF ValidationGivesUp
<1>15. CASE OperatorRollsBack
  BY <1>15, Zenon DEF OperatorRollsBack, RollsBack, CanRollBack, Resets
<1>16. CASE UploadBegins
  BY <1>16, Zenon DEF UploadBegins, UploadTarget
<1>17. CASE UploadEnds
  BY <1>17, Zenon DEF UploadEnds, UploadTarget
<1>18. CASE UploadSwitches
  BY <1>18, Zenon DEF UploadSwitches, UploadTarget, SetsBootPartition
<1>19. CASE UploadFails
  BY <1>19, Zenon DEF UploadFails
<1>20. CASE RebootTask
  BY <1>20, Zenon DEF RebootTask, Resets
<1>21. CASE RestartFallback
  BY <1>21, Zenon DEF RestartFallback, Resets
<1>22. CASE Crash
  BY <1>22, Zenon DEF Crash, Resets, FlipsLeft
<1>23. CASE OtherReset
  BY <1>23, Zenon DEF OtherReset, Resets, FlipsLeft
<1>24. CASE PowerCycle
  BY <1>24, Zenon DEF PowerCycle, Resets
<1>25. CASE WorldCalmsDown
  BY <1>25, Zenon DEF WorldCalmsDown
<1>26. CASE UNCHANGED vars
  BY <1>26
<1> QED
  BY <1>1, <1>2, <1>3, <1>4, <1>5, <1>6, <1>7, <1>8, <1>9, <1>10, <1>11,
    <1>12, <1>13, <1>14, <1>15, <1>16, <1>17, <1>18, <1>19, <1>20, <1>21,
    <1>22, <1>23, <1>24, <1>25, <1>26
    DEF Next, AppMain, OtherTasks

\* Every action keeps the types.
LEMMA TypingStep == (TypeOK /\ FlipsLatched /\ FlagsOK') /\ [Next]_vars => TypeOK'
<1> SUFFICES ASSUME (TypeOK /\ FlipsLatched /\ FlagsOK'), [Next]_vars PROVE TypeOK'
  OBVIOUS
<1> USE DEF TypeOK, FlagsOK, FlipsLatched
<1>1. CASE Boot
  BY <1>1 DEF Boot, Tried, ActiveIn, GivenUp
<1>2. CASE OnBoot
  BY <1>2 DEF OnBoot, FaultsAfter, CrashesAfter, Saturated, Least
<1>3. CASE Flip
  BY <1>3 DEF Flip, SetsBootPartition, Least
<1>4. CASE FlipLatches
  BY <1>4 DEF FlipLatches, Resets
<1>5. CASE StaysOnSlot
  BY <1>5 DEF StaysOnSlot, GuardIsDone
<1>6. CASE HoldEnds
  BY <1>6 DEF HoldEnds, GuardIsDone
<1>7. CASE InitEnds
  BY <1>7 DEF InitEnds
<1>8. CASE Serves
  BY <1>8 DEF Serves, Healthy
<1>9. CASE Confirms
  BY <1>9 DEF Confirms, Healthy, Active, ActiveIn
<1>10. CASE HealthyTick
  BY <1>10 DEF HealthyTick, Healthy
<1>11. CASE NetWatchdogFires
  BY <1>11 DEF NetWatchdogFires, Resets
<1>12. CASE ValidationExpires
  BY <1>12 DEF ValidationExpires, Healthy
<1>13. CASE ValidationRollsBack
  BY <1>13 DEF ValidationRollsBack, RollsBack, CanRollBack, Resets, Active, ActiveIn
<1>14. CASE ValidationGivesUp
  BY <1>14 DEF ValidationGivesUp
<1>15. CASE OperatorRollsBack
  BY <1>15 DEF OperatorRollsBack, RollsBack, CanRollBack, Resets, Active, ActiveIn
<1>16. CASE UploadBegins
  BY <1>16 DEF UploadBegins, UploadTarget
<1>17. CASE UploadEnds
  BY <1>17 DEF UploadEnds, UploadTarget
<1>18. CASE UploadSwitches
  BY <1>18 DEF UploadSwitches, UploadTarget, SetsBootPartition
<1>19. CASE UploadFails
  BY <1>19 DEF UploadFails
<1>20. CASE RebootTask
  BY <1>20 DEF RebootTask, Resets
<1>21. CASE RestartFallback
  BY <1>21 DEF RestartFallback, Resets
<1>22. CASE Crash
  BY <1>22 DEF Crash, Resets, FlipsLeft, Least
<1>23. CASE OtherReset
  BY <1>23 DEF OtherReset, Resets, FlipsLeft
<1>24. CASE PowerCycle
  BY <1>24 DEF PowerCycle, Resets
<1>25. CASE WorldCalmsDown
  BY <1>25 DEF WorldCalmsDown
<1>26. CASE UNCHANGED vars
  BY <1>26
<1> QED
  BY <1>1, <1>2, <1>3, <1>4, <1>5, <1>6, <1>7, <1>8, <1>9, <1>10, <1>11,
    <1>12, <1>13, <1>14, <1>15, <1>16, <1>17, <1>18, <1>19, <1>20, <1>21,
    <1>22, <1>23, <1>24, <1>25, <1>26
    DEF Next, AppMain, OtherTasks

\* Every action leaves app_main and the tasks where they can be.
LEMMA StandsStep == IInv /\ [Next]_vars => Stands'
<1> SUFFICES ASSUME IInv, [Next]_vars PROVE Stands'
  OBVIOUS
<1> USE DEF IInv, TypeOK, Stands
<1>1. CASE Boot
  BY <1>1 DEF Boot
<1>2. CASE OnBoot
  BY <1>2 DEF OnBoot, FaultsAfter, CrashesAfter, Saturated, Least
<1>3. CASE Flip
  BY <1>3 DEF Flip, SetsBootPartition
<1>4. CASE FlipLatches
  BY <1>4 DEF FlipLatches, Resets
<1>5. CASE StaysOnSlot
  BY <1>5 DEF StaysOnSlot, GuardIsDone
<1>6. CASE HoldEnds
  BY <1>6 DEF HoldEnds, GuardIsDone
<1>7. CASE InitEnds
  BY <1>7 DEF InitEnds
<1>8. CASE Serves
  BY <1>8 DEF Serves, Healthy
<1>9. CASE Confirms
  BY <1>9 DEF Confirms, Healthy
<1>10. CASE HealthyTick
  BY <1>10 DEF HealthyTick, Healthy
<1>11. CASE NetWatchdogFires
  BY <1>11 DEF NetWatchdogFires, Resets
<1>12. CASE ValidationExpires
  BY <1>12 DEF ValidationExpires, Healthy
<1>13. CASE ValidationRollsBack
  BY <1>13 DEF ValidationRollsBack, RollsBack, CanRollBack, Resets
<1>14. CASE ValidationGivesUp
  BY <1>14 DEF ValidationGivesUp
<1>15. CASE OperatorRollsBack
  BY <1>15 DEF OperatorRollsBack, RollsBack, CanRollBack, Resets
<1>16. CASE UploadBegins
  BY <1>16 DEF UploadBegins, UploadTarget
<1>17. CASE UploadEnds
  BY <1>17 DEF UploadEnds, UploadTarget
<1>18. CASE UploadSwitches
  BY <1>18 DEF UploadSwitches, UploadTarget, SetsBootPartition
<1>19. CASE UploadFails
  BY <1>19 DEF UploadFails
<1>20. CASE RebootTask
  BY <1>20 DEF RebootTask, Resets
<1>21. CASE RestartFallback
  BY <1>21 DEF RestartFallback, Resets
<1>22. CASE Crash
  BY <1>22 DEF Crash, Resets, FlipsLeft
<1>23. CASE OtherReset
  BY <1>23 DEF OtherReset, Resets, FlipsLeft
<1>24. CASE PowerCycle
  BY <1>24 DEF PowerCycle, Resets
<1>25. CASE WorldCalmsDown
  BY <1>25 DEF WorldCalmsDown
<1>26. CASE UNCHANGED vars
  BY <1>26
<1> QED
  BY <1>1, <1>2, <1>3, <1>4, <1>5, <1>6, <1>7, <1>8, <1>9, <1>10, <1>11,
    <1>12, <1>13, <1>14, <1>15, <1>16, <1>17, <1>18, <1>19, <1>20, <1>21,
    <1>22, <1>23, <1>24, <1>25, <1>26
    DEF Next, AppMain, OtherTasks

\* Every action leaves the running slot whole.
LEMMA WholeStep == IInv /\ [Next]_vars => RunningSlotIsWhole'
<1> SUFFICES ASSUME IInv, [Next]_vars PROVE RunningSlotIsWhole'
  OBVIOUS
<1> USE DEF IInv, TypeOK, Stands, RunningSlotIsWhole
<1>1. CASE Boot
  BY <1>1 DEF Boot, Tried
<1>2. CASE OnBoot
  BY <1>2 DEF OnBoot
<1>3. CASE Flip
  BY <1>3 DEF Flip, SetsBootPartition
<1>4. CASE FlipLatches
  BY <1>4 DEF FlipLatches, Resets
<1>5. CASE StaysOnSlot
  BY <1>5 DEF StaysOnSlot, GuardIsDone
<1>6. CASE HoldEnds
  BY <1>6 DEF HoldEnds, GuardIsDone
<1>7. CASE InitEnds
  BY <1>7 DEF InitEnds
<1>8. CASE Serves
  BY <1>8 DEF Serves, Healthy
<1>9. CASE Confirms
  BY <1>9 DEF Confirms, Healthy
<1>10. CASE HealthyTick
  BY <1>10 DEF HealthyTick, Healthy
<1>11. CASE NetWatchdogFires
  BY <1>11 DEF NetWatchdogFires, Resets
<1>12. CASE ValidationExpires
  BY <1>12 DEF ValidationExpires, Healthy
<1>13. CASE ValidationRollsBack
  BY <1>13 DEF ValidationRollsBack, RollsBack, CanRollBack, Resets
<1>14. CASE ValidationGivesUp
  BY <1>14 DEF ValidationGivesUp
<1>15. CASE OperatorRollsBack
  BY <1>15 DEF OperatorRollsBack, RollsBack, CanRollBack, Resets
<1>16. CASE UploadBegins
  BY <1>16 DEF UploadBegins, UploadTarget
<1>17. CASE UploadEnds
  BY <1>17 DEF UploadEnds, UploadTarget
<1>18. CASE UploadSwitches
  BY <1>18 DEF UploadSwitches, UploadTarget, SetsBootPartition
<1>19. CASE UploadFails
  BY <1>19 DEF UploadFails
<1>20. CASE RebootTask
  BY <1>20 DEF RebootTask, Resets
<1>21. CASE RestartFallback
  BY <1>21 DEF RestartFallback, Resets
<1>22. CASE Crash
  BY <1>22 DEF Crash, Resets, FlipsLeft
<1>23. CASE OtherReset
  BY <1>23 DEF OtherReset, Resets, FlipsLeft
<1>24. CASE PowerCycle
  BY <1>24 DEF PowerCycle, Resets
<1>25. CASE WorldCalmsDown
  BY <1>25 DEF WorldCalmsDown
<1>26. CASE UNCHANGED vars
  BY <1>26
<1> QED
  BY <1>1, <1>2, <1>3, <1>4, <1>5, <1>6, <1>7, <1>8, <1>9, <1>10, <1>11,
    <1>12, <1>13, <1>14, <1>15, <1>16, <1>17, <1>18, <1>19, <1>20, <1>21,
    <1>22, <1>23, <1>24, <1>25, <1>26
    DEF Next, AppMain, OtherTasks

\* Every action keeps flips latched.
LEMMA FlipsStep == IInv /\ [Next]_vars => FlipsLatched'
<1> SUFFICES ASSUME IInv, [Next]_vars PROVE FlipsLatched'
  OBVIOUS
<1> USE DEF IInv, TypeOK, Stands, FlipsLatched
<1>1. CASE Boot
  BY <1>1 DEF Boot
<1>2. CASE OnBoot
  BY <1>2 DEF OnBoot, Fresh
<1>3. CASE Flip
  BY <1>3 DEF Flip, SetsBootPartition, ShouldFlipTo, Least
<1>4. CASE FlipLatches
  BY <1>4 DEF FlipLatches, Resets
<1>5. CASE StaysOnSlot
  BY <1>5 DEF StaysOnSlot, GuardIsDone
<1>6. CASE HoldEnds
  BY <1>6 DEF HoldEnds, GuardIsDone
<1>7. CASE InitEnds
  BY <1>7 DEF InitEnds
<1>8. CASE Serves
  BY <1>8 DEF Serves, Healthy
<1>9. CASE Confirms
  BY <1>9 DEF Confirms, Healthy
<1>10. CASE HealthyTick
  BY <1>10 DEF HealthyTick, Healthy
<1>11. CASE NetWatchdogFires
  BY <1>11 DEF NetWatchdogFires, Resets
<1>12. CASE ValidationExpires
  BY <1>12 DEF ValidationExpires, Healthy
<1>13. CASE ValidationRollsBack
  BY <1>13 DEF ValidationRollsBack, RollsBack, CanRollBack, Resets
<1>14. CASE ValidationGivesUp
  BY <1>14 DEF ValidationGivesUp
<1>15. CASE OperatorRollsBack
  BY <1>15 DEF OperatorRollsBack, RollsBack, CanRollBack, Resets
<1>16. CASE UploadBegins
  BY <1>16 DEF UploadBegins, UploadTarget
<1>17. CASE UploadEnds
  BY <1>17 DEF UploadEnds, UploadTarget
<1>18. CASE UploadSwitches
  BY <1>18 DEF UploadSwitches, UploadTarget, SetsBootPartition
<1>19. CASE UploadFails
  BY <1>19 DEF UploadFails
<1>20. CASE RebootTask
  BY <1>20 DEF RebootTask, Resets
<1>21. CASE RestartFallback
  BY <1>21 DEF RestartFallback, Resets
<1>22. CASE Crash
  BY <1>22 DEF Crash, Resets, FlipsLeft
<1>23. CASE OtherReset
  BY <1>23 DEF OtherReset, Resets, FlipsLeft
<1>24. CASE PowerCycle
  BY <1>24 DEF PowerCycle, Resets
<1>25. CASE WorldCalmsDown
  BY <1>25 DEF WorldCalmsDown
<1>26. CASE UNCHANGED vars
  BY <1>26
<1> QED
  BY <1>1, <1>2, <1>3, <1>4, <1>5, <1>6, <1>7, <1>8, <1>9, <1>10, <1>11,
    <1>12, <1>13, <1>14, <1>15, <1>16, <1>17, <1>18, <1>19, <1>20, <1>21,
    <1>22, <1>23, <1>24, <1>25, <1>26
    DEF Next, AppMain, OtherTasks

\* Every action keeps the streak within the crashes.
LEMMA StreakStep == IInv /\ [Next]_vars => StreakEarned'
<1> SUFFICES ASSUME IInv, [Next]_vars PROVE StreakEarned'
  OBVIOUS
<1> USE DEF IInv, TypeOK, Stands, StreakEarned
<1>1. CASE Boot
  BY <1>1 DEF Boot
<1>2. CASE OnBoot
  BY <1>2 DEF OnBoot, CrashesAfter, Saturated, Fresh, Least
<1>3. CASE Flip
  BY <1>3 DEF Flip, SetsBootPartition, ShouldFlipTo
<1>4. CASE FlipLatches
  BY <1>4 DEF FlipLatches, Resets
<1>5. CASE StaysOnSlot
  BY <1>5 DEF StaysOnSlot, GuardIsDone
<1>6. CASE HoldEnds
  BY <1>6 DEF HoldEnds, GuardIsDone
<1>7. CASE InitEnds
  BY <1>7 DEF InitEnds
<1>8. CASE Serves
  BY <1>8 DEF Serves, Healthy
<1>9. CASE Confirms
  BY <1>9 DEF Confirms, Healthy
<1>10. CASE HealthyTick
  BY <1>10 DEF HealthyTick, Healthy
<1>11. CASE NetWatchdogFires
  BY <1>11 DEF NetWatchdogFires, Resets
<1>12. CASE ValidationExpires
  BY <1>12 DEF ValidationExpires, Healthy
<1>13. CASE ValidationRollsBack
  BY <1>13 DEF ValidationRollsBack, RollsBack, CanRollBack, Resets
<1>14. CASE ValidationGivesUp
  BY <1>14 DEF ValidationGivesUp
<1>15. CASE OperatorRollsBack
  BY <1>15 DEF OperatorRollsBack, RollsBack, CanRollBack, Resets
<1>16. CASE UploadBegins
  BY <1>16 DEF UploadBegins, UploadTarget
<1>17. CASE UploadEnds
  BY <1>17 DEF UploadEnds, UploadTarget
<1>18. CASE UploadSwitches
  BY <1>18 DEF UploadSwitches, UploadTarget, SetsBootPartition
<1>19. CASE UploadFails
  BY <1>19 DEF UploadFails
<1>20. CASE RebootTask
  BY <1>20 DEF RebootTask, Resets
<1>21. CASE RestartFallback
  BY <1>21 DEF RestartFallback, Resets
<1>22. CASE Crash
  BY <1>22 DEF Crash, Resets, FlipsLeft, Least
<1>23. CASE OtherReset
  BY <1>23 DEF OtherReset, Resets, FlipsLeft
<1>24. CASE PowerCycle
  BY <1>24 DEF PowerCycle, Resets
<1>25. CASE WorldCalmsDown
  BY <1>25 DEF WorldCalmsDown
<1>26. CASE UNCHANGED vars
  BY <1>26
<1> QED
  BY <1>1, <1>2, <1>3, <1>4, <1>5, <1>6, <1>7, <1>8, <1>9, <1>10, <1>11,
    <1>12, <1>13, <1>14, <1>15, <1>16, <1>17, <1>18, <1>19, <1>20, <1>21,
    <1>22, <1>23, <1>24, <1>25, <1>26
    DEF Next, AppMain, OtherTasks

\* Every action keeps one entry at most on probation.
LEMMA ProbationStep == IInv /\ [Next]_vars => OneOnProbation'
<1> SUFFICES ASSUME IInv, [Next]_vars PROVE OneOnProbation'
  OBVIOUS
<1> USE DEF IInv, TypeOK, Stands, OneOnProbation, Active, ActiveIn, Usable
<1>1. CASE Boot
  BY <1>1 DEF Boot, GivenUp
<1>2. CASE OnBoot
  BY <1>2 DEF OnBoot
<1>3. CASE Flip
  BY <1>3 DEF Flip, SetsBootPartition
<1>4. CASE FlipLatches
  BY <1>4 DEF FlipLatches, Resets
<1>5. CASE StaysOnSlot
  BY <1>5 DEF StaysOnSlot, GuardIsDone
<1>6. CASE HoldEnds
  BY <1>6 DEF HoldEnds, GuardIsDone
<1>7. CASE InitEnds
  BY <1>7 DEF InitEnds
<1>8. CASE Serves
  BY <1>8 DEF Serves, Healthy
<1>9. CASE Confirms
  BY <1>9 DEF Confirms, Healthy
<1>10. CASE HealthyTick
  BY <1>10 DEF HealthyTick, Healthy
<1>11. CASE NetWatchdogFires
  BY <1>11 DEF NetWatchdogFires, Resets
<1>12. CASE ValidationExpires
  BY <1>12 DEF ValidationExpires, Healthy
<1>13. CASE ValidationRollsBack
  BY <1>13 DEF ValidationRollsBack, RollsBack, CanRollBack, Resets
<1>14. CASE ValidationGivesUp
  BY <1>14 DEF ValidationGivesUp
<1>15. CASE OperatorRollsBack
  BY <1>15 DEF OperatorRollsBack, RollsBack, CanRollBack, Resets
<1>16. CASE UploadBegins
  BY <1>16 DEF UploadBegins, UploadTarget
<1>17. CASE UploadEnds
  BY <1>17 DEF UploadEnds, UploadTarget
<1>18. CASE UploadSwitches
  BY <1>18 DEF UploadSwitches, UploadTarget, SetsBootPartition
<1>19. CASE UploadFails
  BY <1>19 DEF UploadFails
<1>20. CASE RebootTask
  BY <1>20 DEF RebootTask, Resets
<1>21. CASE RestartFallback
  BY <1>21 DEF RestartFallback, Resets
<1>22. CASE Crash
  BY <1>22 DEF Crash, Resets, FlipsLeft
<1>23. CASE OtherReset
  BY <1>23 DEF OtherReset, Resets, FlipsLeft
<1>24. CASE PowerCycle
  BY <1>24 DEF PowerCycle, Resets
<1>25. CASE WorldCalmsDown
  BY <1>25 DEF WorldCalmsDown
<1>26. CASE UNCHANGED vars
  BY <1>26
<1> QED
  BY <1>1, <1>2, <1>3, <1>4, <1>5, <1>6, <1>7, <1>8, <1>9, <1>10, <1>11,
    <1>12, <1>13, <1>14, <1>15, <1>16, <1>17, <1>18, <1>19, <1>20, <1>21,
    <1>22, <1>23, <1>24, <1>25, <1>26
    DEF Next, AppMain, OtherTasks

\* Every action confirms only what is proven.
LEMMA ProvenStep == IInv /\ [Next]_vars => ProvenBeforeConfirmed'
<1> SUFFICES ASSUME IInv, [Next]_vars PROVE ProvenBeforeConfirmed'
  OBVIOUS
<1> USE DEF IInv, TypeOK, Stands, OneOnProbation, ProvenBeforeConfirmed
<1>1. CASE Boot
  BY <1>1 DEF Boot, GivenUp
<1>2. CASE OnBoot
  BY <1>2 DEF OnBoot
<1>3. CASE Flip
  BY <1>3 DEF Flip, SetsBootPartition
<1>4. CASE FlipLatches
  BY <1>4 DEF FlipLatches, Resets
<1>5. CASE StaysOnSlot
  BY <1>5 DEF StaysOnSlot, GuardIsDone
<1>6. CASE HoldEnds
  BY <1>6 DEF HoldEnds, GuardIsDone
<1>7. CASE InitEnds
  BY <1>7 DEF InitEnds
<1>8. CASE Serves
  BY <1>8 DEF Serves, Healthy
<1>9. CASE Confirms
  BY <1>9 DEF Confirms, Healthy, Active, ActiveIn
<1>10. CASE HealthyTick
  BY <1>10 DEF HealthyTick, Healthy
<1>11. CASE NetWatchdogFires
  BY <1>11 DEF NetWatchdogFires, Resets
<1>12. CASE ValidationExpires
  BY <1>12 DEF ValidationExpires, Healthy
<1>13. CASE ValidationRollsBack
  BY <1>13 DEF ValidationRollsBack, RollsBack, CanRollBack, Resets, Active, ActiveIn
<1>14. CASE ValidationGivesUp
  BY <1>14 DEF ValidationGivesUp
<1>15. CASE OperatorRollsBack
  BY <1>15 DEF OperatorRollsBack, RollsBack, CanRollBack, Resets, Active, ActiveIn
<1>16. CASE UploadBegins
  BY <1>16 DEF UploadBegins, UploadTarget
<1>17. CASE UploadEnds
  BY <1>17 DEF UploadEnds, UploadTarget
<1>18. CASE UploadSwitches
  BY <1>18 DEF UploadSwitches, UploadTarget, SetsBootPartition
<1>19. CASE UploadFails
  BY <1>19 DEF UploadFails
<1>20. CASE RebootTask
  BY <1>20 DEF RebootTask, Resets
<1>21. CASE RestartFallback
  BY <1>21 DEF RestartFallback, Resets
<1>22. CASE Crash
  BY <1>22 DEF Crash, Resets, FlipsLeft
<1>23. CASE OtherReset
  BY <1>23 DEF OtherReset, Resets, FlipsLeft
<1>24. CASE PowerCycle
  BY <1>24 DEF PowerCycle, Resets
<1>25. CASE WorldCalmsDown
  BY <1>25 DEF WorldCalmsDown
<1>26. CASE UNCHANGED vars
  BY <1>26
<1> QED
  BY <1>1, <1>2, <1>3, <1>4, <1>5, <1>6, <1>7, <1>8, <1>9, <1>10, <1>11,
    <1>12, <1>13, <1>14, <1>15, <1>16, <1>17, <1>18, <1>19, <1>20, <1>21,
    <1>22, <1>23, <1>24, <1>25, <1>26
    DEF Next, AppMain, OtherTasks

\* app_main comes to flip by Flip alone.
LEMMA GoesToFlip ==
  [Next]_vars /\ phase # "flipping" /\ phase' = "flipping" => Flip
<1> SUFFICES ASSUME [Next]_vars, phase # "flipping" /\ phase' = "flipping" PROVE Flip
  OBVIOUS
<1>1. CASE Boot
  BY <1>1 DEF Boot
<1>2. CASE OnBoot
  BY <1>2 DEF OnBoot
<1>3. CASE Flip
  BY <1>3
<1>4. CASE FlipLatches
  BY <1>4 DEF FlipLatches, Resets
<1>5. CASE StaysOnSlot
  BY <1>5 DEF StaysOnSlot, GuardIsDone
<1>6. CASE HoldEnds
  BY <1>6 DEF HoldEnds, GuardIsDone
<1>7. CASE InitEnds
  BY <1>7 DEF InitEnds
<1>8. CASE Serves
  BY <1>8 DEF Serves
<1>9. CASE Confirms
  BY <1>9 DEF Confirms
<1>10. CASE HealthyTick
  BY <1>10 DEF HealthyTick
<1>11. CASE NetWatchdogFires
  BY <1>11 DEF NetWatchdogFires, Resets
<1>12. CASE ValidationExpires
  BY <1>12 DEF ValidationExpires
<1>13. CASE ValidationRollsBack
  BY <1>13 DEF ValidationRollsBack, RollsBack, Resets
<1>14. CASE ValidationGivesUp
  BY <1>14 DEF ValidationGivesUp
<1>15. CASE OperatorRollsBack
  BY <1>15 DEF OperatorRollsBack, RollsBack, Resets
<1>16. CASE UploadBegins
  BY <1>16 DEF UploadBegins
<1>17. CASE UploadEnds
  BY <1>17 DEF UploadEnds
<1>18. CASE UploadSwitches
  BY <1>18 DEF UploadSwitches
<1>19. CASE UploadFails
  BY <1>19 DEF UploadFails
<1>20. CASE RebootTask
  BY <1>20 DEF RebootTask, Resets
<1>21. CASE RestartFallback
  BY <1>21 DEF RestartFallback, Resets
<1>22. CASE Crash
  BY <1>22 DEF Crash, Resets
<1>23. CASE OtherReset
  BY <1>23 DEF OtherReset, Resets
<1>24. CASE PowerCycle
  BY <1>24 DEF PowerCycle, Resets
<1>25. CASE WorldCalmsDown
  BY <1>25 DEF WorldCalmsDown
<1>26. CASE UNCHANGED vars
  BY <1>26
<1> QED
  BY <1>1, <1>2, <1>3, <1>4, <1>5, <1>6, <1>7, <1>8, <1>9, <1>10, <1>11,
    <1>12, <1>13, <1>14, <1>15, <1>16, <1>17, <1>18, <1>19, <1>20, <1>21,
    <1>22, <1>23, <1>24, <1>25, <1>26
    DEF Next, AppMain, OtherTasks

\* app_main comes to init past the guard alone.
LEMMA GoesToInit ==
  [Next]_vars /\ phase # "init" /\ phase' = "init" => StaysOnSlot \/ HoldEnds
<1> SUFFICES ASSUME [Next]_vars, phase # "init" /\ phase' = "init" PROVE StaysOnSlot \/ HoldEnds
  OBVIOUS
<1>1. CASE Boot
  BY <1>1 DEF Boot
<1>2. CASE OnBoot
  BY <1>2 DEF OnBoot
<1>3. CASE Flip
  BY <1>3 DEF Flip
<1>4. CASE FlipLatches
  BY <1>4 DEF FlipLatches, Resets
<1>5. CASE StaysOnSlot
  BY <1>5
<1>6. CASE HoldEnds
  BY <1>6
<1>7. CASE InitEnds
  BY <1>7 DEF InitEnds
<1>8. CASE Serves
  BY <1>8 DEF Serves
<1>9. CASE Confirms
  BY <1>9 DEF Confirms
<1>10. CASE HealthyTick
  BY <1>10 DEF HealthyTick
<1>11. CASE NetWatchdogFires
  BY <1>11 DEF NetWatchdogFires, Resets
<1>12. CASE ValidationExpires
  BY <1>12 DEF ValidationExpires
<1>13. CASE ValidationRollsBack
  BY <1>13 DEF ValidationRollsBack, RollsBack, Resets
<1>14. CASE ValidationGivesUp
  BY <1>14 DEF ValidationGivesUp
<1>15. CASE OperatorRollsBack
  BY <1>15 DEF OperatorRollsBack, RollsBack, Resets
<1>16. CASE UploadBegins
  BY <1>16 DEF UploadBegins
<1>17. CASE UploadEnds
  BY <1>17 DEF UploadEnds
<1>18. CASE UploadSwitches
  BY <1>18 DEF UploadSwitches
<1>19. CASE UploadFails
  BY <1>19 DEF UploadFails
<1>20. CASE RebootTask
  BY <1>20 DEF RebootTask, Resets
<1>21. CASE RestartFallback
  BY <1>21 DEF RestartFallback, Resets
<1>22. CASE Crash
  BY <1>22 DEF Crash, Resets
<1>23. CASE OtherReset
  BY <1>23 DEF OtherReset, Resets
<1>24. CASE PowerCycle
  BY <1>24 DEF PowerCycle, Resets
<1>25. CASE WorldCalmsDown
  BY <1>25 DEF WorldCalmsDown
<1>26. CASE UNCHANGED vars
  BY <1>26
<1> QED
  BY <1>1, <1>2, <1>3, <1>4, <1>5, <1>6, <1>7, <1>8, <1>9, <1>10, <1>11,
    <1>12, <1>13, <1>14, <1>15, <1>16, <1>17, <1>18, <1>19, <1>20, <1>21,
    <1>22, <1>23, <1>24, <1>25, <1>26
    DEF Next, AppMain, OtherTasks

-----------------------------------------------------------------------------

\* The strengthening holds from the first power-on and every step keeps it.
THEOREM Inductive == Spec => []IInv
<1>1. Init => IInv
  <2> SUFFICES ASSUME Init PROVE IInv
    OBVIOUS
  <2>1. FlagsOK
    BY Zenon DEF Init, FlagsOK
  <2>2. TypeOK
    BY <2>1 DEF Init, TypeOK, FlagsOK
  <2>3. RunningSlotIsWhole
    BY DEF Init, RunningSlotIsWhole
  <2> QED
    BY <2>2, <2>3 DEF Init, IInv, Stands, FlipsLatched, StreakEarned,
      OneOnProbation, ProvenBeforeConfirmed
<1>2. IInv /\ [Next]_vars => IInv'
  <2> SUFFICES ASSUME IInv, [Next]_vars PROVE IInv'
    OBVIOUS
  <2>1. FlagsOK'
    BY FlagsStep DEF IInv, TypeOK, FlagsOK
  <2>2. TypeOK'
    BY <2>1, TypingStep DEF IInv
  <2> QED
    BY <2>2, StandsStep, WholeStep, FlipsStep, StreakStep, ProbationStep,
      ProvenStep DEF IInv
<1> QED
  BY <1>1, <1>2, PTL DEF Spec

\* The types hold in every reachable state and no counter overruns its cap.
THEOREM TypeCorrect == Spec => []TypeOK
<1>1. IInv => TypeOK
  BY DEF IInv
<1> QED
  BY <1>1, Inductive, PTL

\* The running image is never written to: there is always one to boot.
THEOREM AlwaysBootable == Spec => []RunningSlotIsWhole
<1>1. IInv => RunningSlotIsWhole
  BY DEF IInv
<1> QED
  BY <1>1, Inductive, PTL

\* At most one flip between two power-ons, but for those a reset cut short.
THEOREM NoPingPong == Spec => []OneFlipPerPowerCycle
<1>1. IInv => OneFlipPerPowerCycle
  BY DEF IInv, FlipsLatched, OneFlipPerPowerCycle
<1> QED
  BY <1>1, Inductive, PTL

\* No image is off probation that has not done its job on this satellite.
THEOREM ConfirmationEarned == Spec => []ProvenBeforeConfirmed
<1>1. IInv => ProvenBeforeConfirmed
  BY DEF IInv
<1> QED
  BY <1>1, Inductive, PTL

\* A flip is only taken after as many crashes as it needs.
THEOREM OutageNeverFlips == Spec => FlipIsEarned
<1>1. IInv /\ [Next]_vars => [phase' = "flipping" => crashes >= FlipAt]_vars
  <2> SUFFICES ASSUME IInv, [Next]_vars, phase' = "flipping"
               PROVE crashes >= FlipAt
    BY DEF vars
  <2>1. CASE phase = "flipping"
    BY <2>1 DEF IInv, StreakEarned
  <2>2. CASE phase # "flipping"
    <3>1. Flip
      BY <2>2, GoesToFlip
    <3> QED
      BY <3>1 DEF IInv, TypeOK, Stands, StreakEarned, Flip, ShouldFlipTo
  <2> QED
    BY <2>1, <2>2
<1> QED
  BY <1>1, Inductive, PTL DEF Spec, FlipIsEarned

\* A boot that follows a fault goes through the hold.
THEOREM FaultsHold == Spec => FaultBootHolds
<1>1. IInv /\ [Next]_vars => [phase' = "init" /\ afterFault => phase = "hold"]_vars
  <2> SUFFICES ASSUME IInv, [Next]_vars, phase' = "init", afterFault
               PROVE phase = "hold"
    BY DEF vars
  <2>1. phase # "init"
    BY DEF IInv, Stands
  <2>2. StaysOnSlot \/ HoldEnds
    BY <2>1, GoesToInit
  <2> QED
    BY <2>2 DEF IInv, TypeOK, Stands, StaysOnSlot, GuardIsDone, HoldEnds
<1> QED
  BY <1>1, Inductive, PTL DEF Spec, FaultBootHolds
=============================================================================
