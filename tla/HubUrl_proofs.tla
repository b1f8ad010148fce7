----------------------------- MODULE HubUrl_proofs -----------------------------
(***************************************************************************)
(* Proofs about HubUrl.tla, for every set of URLs and every threshold.      *)
(*                                                                          *)
(* The argument for DemotionEarned.  A rejection that is not the override's *)
(* own can count only if the policy moved to the override while its dial    *)
(* was under way; storing an override also resets the count; and there is   *)
(* one dial at a time.  So the count is ahead of the override's own         *)
(* rejections by at most one, and by none while such a dial is under way.   *)
(***************************************************************************)
EXTENDS HubUrl, TLAPS

USE UrlAssumption, ThresholdAssumption
USE DEF vars, policyVars, pfVars, loopVars, opVars

\* The counter is below the threshold until it demotes, and stays there.
CountFits ==
  /\ state = "nvs" => urlFailures < Threshold
  /\ state = "baked" => urlFailures = 0
  /\ state \in {"baked_fallback", "re-probing"} => urlFailures = Threshold

\* How far the httpd task has carried a new override.
Carried ==
  /\ op \in {"stored", "copied", "noted"} => flash = asked
  /\ op \in {"copied", "noted"} => override = asked
  /\ op \in {"idle", "noted"} => override = Loaded(flash)
  /\ op # "copied" => ((state = "baked") <=> (override = NoUrl))

\* The count is the override's own, but for one dial that was under way.
CountEarned ==
  op # "copied" =>
    /\ urlFailures <= rejections + 1
    /\ conn = "dialing" /\ dialed # override /\ state = "nvs"
         => urlFailures <= rejections

\* The Boolean part of TypeOK, apart because it is first-order logic only.
FlagsOK == pfDue \in BOOLEAN /\ request \in BOOLEAN /\ retry \in BOOLEAN
             /\ calm \in BOOLEAN

IInv == TypeOK /\ CountFits /\ Carried /\ CountEarned /\ WrongPeerIsLeaving

-----------------------------------------------------------------------------

\* Every action keeps the Boolean variables Boolean.
LEMMA FlagsStep == FlagsOK /\ [Next]_vars => FlagsOK'
<1> SUFFICES ASSUME FlagsOK, [Next]_vars PROVE FlagsOK'
  OBVIOUS
<1> USE DEF FlagsOK, Parked
<1>1. CASE PassConnects
  BY <1>1, Zenon DEF PassConnects, NoteConnected
<1>2. CASE PassLoses
  BY <1>2, Zenon DEF PassLoses
<1>3. CASE PassQuietly
  BY <1>3, Zenon DEF PassQuietly
<1>4. CASE TickTakesVerdict
  BY <1>4, Zenon DEF TickTakesVerdict
<1>5. CASE TickWithoutVerdict
  BY <1>5, Zenon DEF TickWithoutVerdict, TickStarts
<1>6. CASE RedialTick
  BY <1>6, Zenon DEF RedialTick
<1>7. CASE RedialTickTimesOut
  BY <1>7, Zenon DEF RedialTickTimesOut, NoteTransport
<1>8. CASE PickUrl
  BY <1>8, Zenon DEF PickUrl
<1>9. CASE DialAnswered
  BY <1>9, Zenon DEF DialAnswered
<1>10. CASE DialRejected
  BY <1>10, Zenon DEF DialRejected, DialFails, NoteUrlClass
<1>11. CASE DialBreaksDown
  BY <1>11, Zenon DEF DialBreaksDown, DialFails, NoteTransport
<1>12. CASE DialEndsUnnoted
  BY <1>12, Zenon DEF DialEndsUnnoted, DialFails
<1>13. CASE PreflightCopies
  BY <1>13, Zenon DEF PreflightCopies
<1>14. CASE PreflightAsks
  BY <1>14, Zenon DEF PreflightAsks
<1>15. CASE OpStores
  BY <1>15, Zenon DEF OpStores
<1>16. CASE OpCopies
  BY <1>16, Zenon DEF OpCopies
<1>17. CASE OpNotes
  BY <1>17, Zenon DEF OpNotes, NoteOperator
<1>18. CASE OpRedials
  BY <1>18, Zenon DEF OpRedials
<1>19. CASE PreflightFallsDue
  BY <1>19, Zenon DEF PreflightFallsDue
<1>20. CASE BackoffElapses
  BY <1>20, Zenon DEF BackoffElapses
<1>21. CASE Reboot
  BY <1>21, Zenon DEF Reboot
<1>22. CASE WorldCalmsDown
  BY <1>22, Zenon DEF WorldCalmsDown
<1>23. CASE UNCHANGED vars
  BY <1>23
<1> QED
  BY <1>1, <1>2, <1>3, <1>4, <1>5, <1>6, <1>7, <1>8, <1>9, <1>10, <1>11,
    <1>12, <1>13, <1>14, <1>15, <1>16, <1>17, <1>18, <1>19, <1>20, <1>21,
    <1>22, <1>23 DEF Next, TransportLoop, Preflight, Operator

\* Every action keeps the types and the counter within the threshold.
LEMMA TypingStep == TypeOK /\ CountFits /\ FlagsOK' /\ [Next]_vars => TypeOK' /\ CountFits'
<1> SUFFICES ASSUME TypeOK /\ CountFits /\ FlagsOK', [Next]_vars PROVE TypeOK' /\ CountFits'
  OBVIOUS
<1> USE DEF TypeOK, FlagsOK, CountFits, Loaded, InitialState, Least, DialsOverride, Chosen
<1>1. CASE PassConnects
  BY <1>1 DEF PassConnects, NoteConnected
<1>2. CASE PassLoses
  BY <1>2 DEF PassLoses
<1>3. CASE PassQuietly
  BY <1>3 DEF PassQuietly
<1>4. CASE TickTakesVerdict
  BY <1>4 DEF TickTakesVerdict
<1>5. CASE TickWithoutVerdict
  BY <1>5 DEF TickWithoutVerdict, TickStarts
<1>6. CASE RedialTick
  BY <1>6 DEF RedialTick
<1>7. CASE RedialTickTimesOut
  BY <1>7 DEF RedialTickTimesOut, NoteTransport
<1>8. CASE PickUrl
  BY <1>8 DEF PickUrl
<1>9. CASE DialAnswered
  BY <1>9 DEF DialAnswered
<1>10. CASE DialRejected
  BY <1>10 DEF DialRejected, DialFails, NoteUrlClass
<1>11. CASE DialBreaksDown
  BY <1>11 DEF DialBreaksDown, DialFails, NoteTransport
<1>12. CASE DialEndsUnnoted
  BY <1>12 DEF DialEndsUnnoted, DialFails
<1>13. CASE PreflightCopies
  BY <1>13 DEF PreflightCopies
<1>14. CASE PreflightAsks
  BY <1>14 DEF PreflightAsks
<1>15. CASE OpStores
  BY <1>15 DEF OpStores
<1>16. CASE OpCopies
  BY <1>16 DEF OpCopies
<1>17. CASE OpNotes
  BY <1>17 DEF OpNotes, NoteOperator
<1>18. CASE OpRedials
  BY <1>18 DEF OpRedials
<1>19. CASE PreflightFallsDue
  BY <1>19 DEF PreflightFallsDue
<1>20. CASE BackoffElapses
  BY <1>20 DEF BackoffElapses
<1>21. CASE Reboot
  BY <1>21 DEF Reboot
<1>22. CASE WorldCalmsDown
  BY <1>22 DEF WorldCalmsDown
<1>23. CASE UNCHANGED vars
  BY <1>23
<1> QED
  BY <1>1, <1>2, <1>3, <1>4, <1>5, <1>6, <1>7, <1>8, <1>9, <1>10, <1>11,
    <1>12, <1>13, <1>14, <1>15, <1>16, <1>17, <1>18, <1>19, <1>20, <1>21,
    <1>22, <1>23 DEF Next, TransportLoop, Preflight, Operator

\* Every action keeps flash, RAM copy and policy where the httpd task has them.
LEMMA CarriedStep == IInv /\ [Next]_vars => Carried'
<1> SUFFICES ASSUME IInv, [Next]_vars PROVE Carried'
  OBVIOUS
<1> USE DEF IInv, TypeOK, Carried, Loaded, InitialState, Parked
<1>1. CASE PassConnects
  BY <1>1 DEF PassConnects, NoteConnected
<1>2. CASE PassLoses
  BY <1>2 DEF PassLoses
<1>3. CASE PassQuietly
  BY <1>3 DEF PassQuietly
<1>4. CASE TickTakesVerdict
  BY <1>4 DEF TickTakesVerdict
<1>5. CASE TickWithoutVerdict
  BY <1>5 DEF TickWithoutVerdict, TickStarts
<1>6. CASE RedialTick
  BY <1>6 DEF RedialTick
<1>7. CASE RedialTickTimesOut
  BY <1>7 DEF RedialTickTimesOut, NoteTransport
<1>8. CASE PickUrl
  BY <1>8 DEF PickUrl
<1>9. CASE DialAnswered
  BY <1>9 DEF DialAnswered
<1>10. CASE DialRejected
  BY <1>10 DEF DialRejected, DialFails, NoteUrlClass
<1>11. CASE DialBreaksDown
  BY <1>11 DEF DialBreaksDown, DialFails, NoteTransport
<1>12. CASE DialEndsUnnoted
  BY <1>12 DEF DialEndsUnnoted, DialFails
<1>13. CASE PreflightCopies
  BY <1>13 DEF PreflightCopies
<1>14. CASE PreflightAsks
  BY <1>14 DEF PreflightAsks
<1>15. CASE OpStores
  BY <1>15 DEF OpStores
<1>16. CASE OpCopies
  BY <1>16 DEF OpCopies
<1>17. CASE OpNotes
  BY <1>17 DEF OpNotes, NoteOperator
<1>18. CASE OpRedials
  BY <1>18 DEF OpRedials
<1>19. CASE PreflightFallsDue
  BY <1>19 DEF PreflightFallsDue
<1>20. CASE BackoffElapses
  BY <1>20 DEF BackoffElapses
<1>21. CASE Reboot
  BY <1>21 DEF Reboot
<1>22. CASE WorldCalmsDown
  BY <1>22 DEF WorldCalmsDown
<1>23. CASE UNCHANGED vars
  BY <1>23
<1> QED
  BY <1>1, <1>2, <1>3, <1>4, <1>5, <1>6, <1>7, <1>8, <1>9, <1>10, <1>11,
    <1>12, <1>13, <1>14, <1>15, <1>16, <1>17, <1>18, <1>19, <1>20, <1>21,
    <1>22, <1>23 DEF Next, TransportLoop, Preflight, Operator

\* Every action keeps the count at most one ahead of the override's own.
LEMMA CountStep == IInv /\ [Next]_vars => CountEarned'
<1> SUFFICES ASSUME IInv, [Next]_vars PROVE CountEarned'
  OBVIOUS
<1> USE DEF IInv, TypeOK, CountFits, Carried, CountEarned, InitialState, Least, DialsOverride, Chosen
<1>1. CASE PassConnects
  BY <1>1 DEF PassConnects, NoteConnected
<1>2. CASE PassLoses
  BY <1>2 DEF PassLoses
<1>3. CASE PassQuietly
  BY <1>3 DEF PassQuietly
<1>4. CASE TickTakesVerdict
  BY <1>4 DEF TickTakesVerdict
<1>5. CASE TickWithoutVerdict
  BY <1>5 DEF TickWithoutVerdict, TickStarts
<1>6. CASE RedialTick
  BY <1>6 DEF RedialTick
<1>7. CASE RedialTickTimesOut
  BY <1>7 DEF RedialTickTimesOut, NoteTransport
<1>8. CASE PickUrl
  BY <1>8 DEF PickUrl
<1>9. CASE DialAnswered
  BY <1>9 DEF DialAnswered
<1>10. CASE DialRejected
  BY <1>10 DEF DialRejected, DialFails, NoteUrlClass
<1>11. CASE DialBreaksDown
  BY <1>11 DEF DialBreaksDown, DialFails, NoteTransport
<1>12. CASE DialEndsUnnoted
  BY <1>12 DEF DialEndsUnnoted, DialFails
<1>13. CASE PreflightCopies
  BY <1>13 DEF PreflightCopies
<1>14. CASE PreflightAsks
  BY <1>14 DEF PreflightAsks
<1>15. CASE OpStores
  BY <1>15 DEF OpStores
<1>16. CASE OpCopies
  BY <1>16 DEF OpCopies
<1>17. CASE OpNotes
  BY <1>17 DEF OpNotes, NoteOperator
<1>18. CASE OpRedials
  BY <1>18 DEF OpRedials
<1>19. CASE PreflightFallsDue
  BY <1>19 DEF PreflightFallsDue
<1>20. CASE BackoffElapses
  BY <1>20 DEF BackoffElapses
<1>21. CASE Reboot
  BY <1>21 DEF Reboot
<1>22. CASE WorldCalmsDown
  BY <1>22 DEF WorldCalmsDown
<1>23. CASE UNCHANGED vars
  BY <1>23
<1> QED
  BY <1>1, <1>2, <1>3, <1>4, <1>5, <1>6, <1>7, <1>8, <1>9, <1>10, <1>11,
    <1>12, <1>13, <1>14, <1>15, <1>16, <1>17, <1>18, <1>19, <1>20, <1>21,
    <1>22, <1>23 DEF Next, TransportLoop, Preflight, Operator

\* Every action that moves the policy under a peer leaves a re-dial request.
LEMMA LeavingStep == IInv /\ [Next]_vars => WrongPeerIsLeaving'
<1> SUFFICES ASSUME IInv, [Next]_vars PROVE WrongPeerIsLeaving'
  OBVIOUS
<1> USE DEF IInv, TypeOK, WrongPeerIsLeaving, InitialState, DialsOverride, Chosen
<1>1. CASE PassConnects
  BY <1>1 DEF PassConnects, NoteConnected
<1>2. CASE PassLoses
  BY <1>2 DEF PassLoses
<1>3. CASE PassQuietly
  BY <1>3 DEF PassQuietly
<1>4. CASE TickTakesVerdict
  BY <1>4 DEF TickTakesVerdict
<1>5. CASE TickWithoutVerdict
  BY <1>5 DEF TickWithoutVerdict, TickStarts
<1>6. CASE RedialTick
  BY <1>6 DEF RedialTick
<1>7. CASE RedialTickTimesOut
  BY <1>7 DEF RedialTickTimesOut, NoteTransport
<1>8. CASE PickUrl
  BY <1>8 DEF PickUrl
<1>9. CASE DialAnswered
  BY <1>9 DEF DialAnswered
<1>10. CASE DialRejected
  BY <1>10 DEF DialRejected, DialFails, NoteUrlClass
<1>11. CASE DialBreaksDown
  BY <1>11 DEF DialBreaksDown, DialFails, NoteTransport
<1>12. CASE DialEndsUnnoted
  BY <1>12 DEF DialEndsUnnoted, DialFails
<1>13. CASE PreflightCopies
  BY <1>13 DEF PreflightCopies
<1>14. CASE PreflightAsks
  BY <1>14 DEF PreflightAsks
<1>15. CASE OpStores
  BY <1>15 DEF OpStores
<1>16. CASE OpCopies
  BY <1>16 DEF OpCopies
<1>17. CASE OpNotes
  BY <1>17 DEF OpNotes, NoteOperator
<1>18. CASE OpRedials
  BY <1>18 DEF OpRedials
<1>19. CASE PreflightFallsDue
  BY <1>19 DEF PreflightFallsDue
<1>20. CASE BackoffElapses
  BY <1>20 DEF BackoffElapses
<1>21. CASE Reboot
  BY <1>21 DEF Reboot
<1>22. CASE WorldCalmsDown
  BY <1>22 DEF WorldCalmsDown
<1>23. CASE UNCHANGED vars
  BY <1>23
<1> QED
  BY <1>1, <1>2, <1>3, <1>4, <1>5, <1>6, <1>7, <1>8, <1>9, <1>10, <1>11,
    <1>12, <1>13, <1>14, <1>15, <1>16, <1>17, <1>18, <1>19, <1>20, <1>21,
    <1>22, <1>23 DEF Next, TransportLoop, Preflight, Operator

-----------------------------------------------------------------------------

\* The strengthening holds from boot on: it starts and every step keeps it.
THEOREM Inductive == Spec => []IInv
<1>1. Init => IInv
  <2> SUFFICES ASSUME Init PROVE IInv
    OBVIOUS
  <2>1. FlagsOK
    BY Zenon DEF Init, FlagsOK
  <2>2. TypeOK
    BY <2>1 DEF Init, TypeOK, FlagsOK, Loaded, InitialState
  <2> QED
    BY <2>2 DEF Init, IInv, CountFits, Carried, CountEarned,
      WrongPeerIsLeaving, Loaded, InitialState
<1>2. IInv /\ [Next]_vars => IInv'
  <2> SUFFICES ASSUME IInv, [Next]_vars PROVE IInv'
    OBVIOUS
  <2>1. FlagsOK'
    BY FlagsStep DEF IInv, TypeOK, FlagsOK
  <2>2. TypeOK' /\ CountFits'
    BY <2>1, TypingStep DEF IInv
  <2> QED
    BY <2>2, CarriedStep, CountStep, LeavingStep DEF IInv
<1> QED
  BY <1>1, <1>2, PTL DEF Spec

\* The types hold in every reachable state and the counter never overruns.
THEOREM TypeCorrect == Spec => []TypeOK
<1>1. IInv => TypeOK
  BY DEF IInv
<1> QED
  BY <1>1, Inductive, PTL

\* Flash, the RAM copy and the policy agree whenever the httpd task is idle,
\* resets between its steps included.
THEOREM StoreConsistent == Spec => []StoreAndPolicyAgree
<1>1. IInv => StoreAndPolicyAgree
  BY DEF IInv, Carried, StoreAndPolicyAgree
<1> QED
  BY <1>1, Inductive, PTL

\* An override is demoted only for rejections of its own, but for one: no
\* outage, however long, crosses an override unit over to the baked hub.
THEOREM OutageNeverDemotes == Spec => []DemotionEarned
<1>1. IInv => DemotionEarned
  BY DEF IInv, TypeOK, CountFits, CountEarned, DemotionEarned
<1> QED
  BY <1>1, Inductive, PTL

\* No peer offered to a URL the policy has left survives the next tick.
THEOREM NoPeerOnOldUrl == Spec => []WrongPeerIsLeaving
<1>1. IInv => WrongPeerIsLeaving
  BY DEF IInv
<1> QED
  BY <1>1, Inductive, PTL
=============================================================================
