---------------------------- MODULE Tuning_proofs ----------------------------
(*****************************************************************************)
(* Proofs about Tuning.tla, for every set of parameters, ranges, grid and order*)
(* of the replay.                                                            *)
(*                                                                           *)
(* The argument.  A value that was promised to be stored is stored and is one*)
(* normalising leaves alone (PromisesSettled), so that neither the replay nor a*)
(* second request rewrites it; and nothing is reported as applied that the boot*)
(* profile or the rest of the replay may yet overwrite (ConfirmedLater).  The*)
(* replay visits a parameter once, so what it has applied stays (ReplayedParam).*)
(*****************************************************************************)
EXTENDS Device, TLAPS

\* Every step of the device is a step of the tuning, or leaves it alone.
LEMMA TuneSteps == [DeviceNext]_deviceVars => [TuneNext]_tuneVars
  BY DEF DeviceNext, deviceVars

\* What the bounds say of one parameter.
LEMMA ParamBounds ==
  ASSUME NEW p \in TuneParam
  PROVE  /\ Tunes[p].target \in TuneTarget
         /\ Tunes[p].low \in Nat /\ Tunes[p].high \in Nat /\ Tunes[p].bake \in Nat
         /\ Tunes[p].low <= Tunes[p].bake /\ Tunes[p].bake <= Tunes[p].high
<1>1. /\ Tunes[p].target \in TuneTarget
      /\ Tunes[p].low \in Nat /\ Tunes[p].high \in Nat
      /\ Tunes[p].bake \in Tunes[p].low..Tunes[p].high
  BY TuneBounds DEF TuneValue
<1> QED
  BY <1>1

\* The ends of the hole are whole numbers.
LEMMA HoleBounds ==
  /\ HoleLow \in Nat /\ HoleHigh \in Nat
  /\ HoleLow % 2 = 0 /\ HoleHigh % 2 = 0
  BY TuneBounds DEF TuneValue

\* Each step of the normalisation yields a natural number.
LEMMA NormalizedType ==
  ASSUME NEW p \in TuneParam, NEW v \in TuneValue
  PROVE  /\ Clamped(p, v) \in Nat
         /\ Snapped(p, Clamped(p, v)) \in Nat
         /\ Normalized(p, v) \in TuneValue
<1>1. Clamped(p, v) \in Nat
  BY ParamBounds DEF Clamped, TuneValue
<1>2. Snapped(p, Clamped(p, v)) \in Nat
  BY <1>1, HoleBounds DEF Snapped
<1>3. \A s \in Nat : s - (s % 2) \in Nat
  OBVIOUS
<1> QED
  BY <1>1, <1>2, <1>3 DEF Normalized, TuneValue

\* What remains of an odd number is even.
LEMMA EvenBelow == ASSUME NEW k \in Nat, k % 2 = 1 PROVE (k - 1) % 2 = 0
  BY SMT

\* A second normalisation moves nothing.
LEMMA NormalizedTwice ==
  ASSUME NEW p \in TuneParam, NEW v \in TuneValue
  PROVE  Normalized(p, Normalized(p, v)) = Normalized(p, v)
<1> DEFINE low == Tunes[p].low
           high == Tunes[p].high
           c == Clamped(p, v)
           s == Snapped(p, c)
           n == Normalized(p, v)
<1>1. low \in Nat /\ high \in Nat /\ low <= high
  BY ParamBounds
<1>2. /\ HoleLow \in Nat /\ HoleHigh \in Nat
      /\ HoleLow % 2 = 0 /\ HoleHigh % 2 = 0
  BY HoleBounds
<1>3. v \in Nat /\ c \in low..high /\ c \in Nat
  BY <1>1 DEF Clamped, TuneValue
<1>4. Clamped(p, c) = c
  BY <1>1, <1>3 DEF Clamped
<1>5. s \in Nat /\ n \in Nat
  BY NormalizedType DEF TuneValue
<1> HIDE DEF low, high
<1>6. CASE Tunes[p].target = "float"
  <2>1. s = c /\ n = s
    BY <1>6 DEF Snapped, Normalized
  <2> QED
    BY <1>4, <1>6, <2>1 DEF Snapped, Normalized
<1>7. CASE Tunes[p].target # "float"
  <2>1. n = s - (s % 2)
    BY <1>7 DEF Normalized
  <2>2. Normalized(p, n) = Snapped(p, Clamped(p, n)) - (Snapped(p, Clamped(p, n)) % 2)
    BY <1>7 DEF Normalized
  <2>3. CASE Tunes[p].target = "hole" /\ HoleLow < c /\ c < HoleHigh
    <3>1. s = IF 2 * c < HoleLow + HoleHigh THEN HoleLow ELSE HoleHigh
      BY <2>3 DEF Snapped
    <3>2. n = s
      BY <1>2, <2>1, <3>1
    <3>3. Snapped(p, Clamped(p, s)) = s
      BY <1>1, <1>2, <1>3, <2>3, <3>1 DEF Clamped, Snapped, low, high
    <3> QED
      BY <2>1, <2>2, <3>2, <3>3
  <2>4. CASE ~(Tunes[p].target = "hole" /\ HoleLow < c /\ c < HoleHigh)
    <3>1. s = c
      BY <2>4 DEF Snapped
    <3>2. n = c \/ (c % 2 = 1 /\ n = c - 1)
      BY <1>3, <2>1, <3>1
    <3>3. Clamped(p, n) = c \/ Clamped(p, n) = n
      BY <1>1, <1>3, <1>4, <3>2 DEF Clamped, low, high
    <3>4. CASE Clamped(p, n) = c
      BY <2>1, <2>2, <3>1, <3>4
    <3>5. CASE Clamped(p, n) = n /\ n # c
      <4>1. Snapped(p, n) = n
        BY <1>2, <1>3, <2>4, <3>2, <3>5 DEF Snapped
      <4>2. n % 2 = 0
        <5>1. c % 2 = 1 /\ n = c - 1
          BY <3>2, <3>5
        <5>2. (c - 1) % 2 = 0
          BY <1>3, <5>1, EvenBelow
        <5> QED
          BY <5>1, <5>2
      <4> QED
        BY <1>5, <2>2, <3>5, <4>1, <4>2
    <3> QED
      BY <3>3, <3>4, <3>5
  <2> QED
    BY <2>3, <2>4
<1> QED
  BY <1>6, <1>7

-----------------------------------------------------------------------------

\* A write of the codec that is acknowledged has landed.
LEMMA CodecOutcome ==
  ASSUME NEW old, NEW new, NEW w \in CodecWritten(old, new)
  PROVE  /\ w.reg \in {old, new, Mixed}
         /\ w.acked => w.reg = new
<1>1. CASE w = [reg |-> new, acked |-> TRUE]
  BY <1>1
<1>2. CASE w \in [reg : {old, Mixed, new}, acked : {FALSE}]
  <2>1. w.reg \in {old, Mixed, new} /\ w.acked = FALSE
    BY <1>2
  <2> QED
    BY <2>1
<1> QED
  BY <1>1, <1>2 DEF CodecWritten

\* A tune of the XVF3800 that is verified has landed.
LEMMA XvfOutcome ==
  ASSUME NEW old, NEW new \in TuneValue, NEW tuned \in XvfTuned(old, new)
  PROVE  /\ tuned.reg \in {old, new}
         /\ tuned.applied => tuned.reg = new
<1>1. PICK w \in XvfWritten(old, new) :
        \E read \in XvfRead(w.reg) :
          tuned = [reg |-> w.reg, applied |-> Verified(w.acked, read, new)]
  BY Zenon DEF XvfTuned
<1>2. PICK read \in XvfRead(w.reg) :
        tuned = [reg |-> w.reg, applied |-> Verified(w.acked, read, new)]
  BY <1>1
<1>3. w.reg \in {old, new}
  BY DEF XvfWritten
<1>4. read = w.reg \/ read = Unread
  BY DEF XvfRead
<1>5. Verified(w.acked, read, new) => read = new
  BY Zenon DEF Verified
<1>6. Unread # new
  BY DEF Unread, TuneValue
<1>7. tuned.reg = w.reg /\ tuned.applied = Verified(w.acked, read, new)
  BY <1>2
<1>8. tuned.applied => Verified(w.acked, read, new)
  BY <1>7, Zenon
<1> QED
  BY <1>3, <1>4, <1>5, <1>6, <1>7, <1>8

\* What a tune leaves in the register, and that it tells no lies about it.
LEMMA TuneOutcome ==
  ASSUME NEW p \in TuneParam, NEW v \in TuneValue,
         NEW tuned \in TuneOutcomes(p, v)
  PROVE  /\ tuned.reg \in {live[p], Normalized(p, v), Mixed}
         /\ tuned.applied => tuned.reg = Normalized(p, v)
<1>1. CASE Tunes[p].target = "led"
  <2>1. tuned = [reg |-> Normalized(p, v), applied |-> TRUE]
    BY <1>1 DEF TuneOutcomes
  <2> QED
    BY <2>1
<1>2. CASE Tunes[p].target = "codec"
  <2>1. PICK w \in CodecWritten(live[p], Normalized(p, v)) :
          tuned = [reg |-> w.reg, applied |-> w.acked]
    BY <1>2 DEF TuneOutcomes
  <2>2. w.reg \in {live[p], Normalized(p, v), Mixed}
        /\ (w.acked => w.reg = Normalized(p, v))
    BY CodecOutcome
  <2>3. tuned.reg = w.reg /\ tuned.applied = w.acked
    BY <2>1
  <2>4. tuned.applied => w.acked
    BY <2>3, Zenon
  <2> QED
    BY <2>2, <2>3, <2>4
<1>3. CASE Tunes[p].target \notin {"led", "codec"}
  <2>1. tuned \in XvfTuned(live[p], Normalized(p, v))
    BY <1>3 DEF TuneOutcomes
  <2>2. Normalized(p, v) \in TuneValue
    BY NormalizedType
  <2> QED
    BY <2>1, <2>2, XvfOutcome
<1> QED
  BY <1>1, <1>2, <1>3

\* A save that is reported as done has stored the value.
LEMMA SaveOutcome ==
  ASSUME NEW p, NEW value, NEW save \in SaveOutcomes(p, value)
  PROVE  /\ save.nvs \in {stored[p], value} /\ save.ok \in BOOLEAN
         /\ save.ok => save.nvs = value
<1>1. CASE save = [nvs |-> value, ok |-> TRUE]
  BY <1>1
<1>2. CASE save \in [nvs : {stored[p], value}, ok : {FALSE}]
  <2>1. save.nvs \in {stored[p], value} /\ save.ok = FALSE
    BY <1>2
  <2> QED
    BY <2>1
<1> QED
  BY <1>1, <1>2 DEF SaveOutcomes

-----------------------------------------------------------------------------

\* The types of the tuning; a parameter the chip stores itself is never damaged.
TuneTyped ==
  /\ stage \in {"boot", "profile", "replay", "serving"}
  /\ replayed \in 0..Len(TuneOrder)
  /\ live \in [TuneParam -> TuneValue \cup {Mixed}]
  /\ stored \in [TuneParam -> TuneValue \cup {Absent, Damaged}]
  /\ promised \in [TuneParam -> TuneValue \cup {Unpromised}]
  /\ confirmed \in [TuneParam -> BOOLEAN]
  /\ \A p \in TuneParam : SelfPersists(p) => stored[p] # Damaged

\* A promised value is one that normalising leaves alone, so that no replay
\* rewrites it.
PromisesSettled ==
  \A p \in TuneParam : promised[p] # Unpromised =>
    /\ stored[p] = promised[p]
    /\ Normalized(p, promised[p]) = promised[p]

\* What the profile may overwrite, and the replay has yet to write, is not
\* reported as applied.
ConfirmedLater ==
  /\ stage = "profile" => \A p \in TuneParam : confirmed[p] => SelfPersists(p)
  /\ stage = "replay" => \A i \in 1..Len(TuneOrder) :
                           i > replayed => ~confirmed[TuneOrder[i]]

\* A value that was both promised and reported as applied is the one that runs.
ConfirmedRuns ==
  \A p \in TuneParam : promised[p] # Unpromised /\ confirmed[p] =>
    live[p] = promised[p]

\* The inductive invariant.
TuneInv == TuneTyped /\ PromisesSettled /\ ConfirmedLater /\ ConfirmedRuns

\* The parameter being replayed, and that it is visited once.
LEMMA ReplayedParam ==
  ASSUME TuneTyped, Replaying
  PROVE  /\ NextReplayed \in TuneParam /\ ~SelfPersists(NextReplayed)
         /\ replayed + 1 \in 1..Len(TuneOrder)
         /\ \A i \in 1..Len(TuneOrder) :
              i > replayed + 1 => TuneOrder[i] # NextReplayed
<1>1. TuneOrder \in Seq({p \in TuneParam : Tunes[p].target # "led"})
  BY TuneBounds
<1>2. replayed + 1 \in 1..Len(TuneOrder)
  BY <1>1 DEF TuneTyped, Replaying
<1>3. \A i, j \in 1..Len(TuneOrder) : TuneOrder[i] = TuneOrder[j] => i = j
  BY <1>1, TuneBounds DEF IsInjective
<1>4. NextReplayed \in {p \in TuneParam : Tunes[p].target # "led"}
  BY <1>1, <1>2 DEF NextReplayed
<1>5. \A i \in 1..Len(TuneOrder) : i > replayed + 1 => TuneOrder[i] # NextReplayed
  BY <1>2, <1>3 DEF NextReplayed, TuneTyped
<1> QED
  BY <1>2, <1>4, <1>5 DEF SelfPersists

\* A request of the HTTP server keeps the invariant.
LEMMA TuneHandledStep ==
  ASSUME TuneInv, NEW p \in TuneParam, NEW v \in TuneRequests,
         NEW persist \in BOOLEAN, TuneHandled(p, v, persist)
  PROVE  TuneInv'
<1>1. PICK tuned \in TuneOutcomes(p, v) :
        /\ live' = [live EXCEPT ![p] = tuned.reg]
        /\ IF tuned.applied /\ persist /\ (Persistent(p) \/ SelfPersists(p))
           THEN \E save \in SaveOutcomes(p, Normalized(p, v)) :
                  /\ stored' = [stored EXCEPT ![p] = save.nvs]
                  /\ promised' = [promised EXCEPT ![p] =
                       IF save.ok THEN Normalized(p, v) ELSE Unpromised]
                  /\ confirmed' = [confirmed EXCEPT ![p] = save.ok]
           ELSE /\ confirmed' = [confirmed EXCEPT ![p] = FALSE]
                /\ UNCHANGED <<stored, promised>>
  BY DEF TuneHandled
<1>2. v \in TuneValue
  BY TuneBounds
<1>3. /\ Normalized(p, v) \in TuneValue
      /\ Normalized(p, Normalized(p, v)) = Normalized(p, v)
  BY <1>2, NormalizedType, NormalizedTwice
<1>4. /\ tuned.reg \in {live[p], Normalized(p, v), Mixed}
      /\ tuned.applied => tuned.reg = Normalized(p, v)
  BY <1>2, TuneOutcome
<1>5. stage' = stage /\ replayed' = replayed /\ stage = "serving"
  BY DEF TuneHandled, replayVars
<1>6. live' \in [TuneParam -> TuneValue \cup {Mixed}]
  BY <1>1, <1>3, <1>4 DEF TuneInv, TuneTyped
<1>7. CASE tuned.applied /\ persist /\ (Persistent(p) \/ SelfPersists(p))
  <2>1. PICK save \in SaveOutcomes(p, Normalized(p, v)) :
          /\ stored' = [stored EXCEPT ![p] = save.nvs]
          /\ promised' = [promised EXCEPT ![p] =
               IF save.ok THEN Normalized(p, v) ELSE Unpromised]
          /\ confirmed' = [confirmed EXCEPT ![p] = save.ok]
    BY <1>1, <1>7
  <2>2. /\ save.nvs \in {stored[p], Normalized(p, v)} /\ save.ok \in BOOLEAN
        /\ save.ok => save.nvs = Normalized(p, v)
    BY SaveOutcome
  <2>3. stored' \in [TuneParam -> TuneValue \cup {Absent, Damaged}]
        /\ promised' \in [TuneParam -> TuneValue \cup {Unpromised}]
    BY <1>3, <2>1, <2>2 DEF TuneInv, TuneTyped
  <2>4. confirmed' \in [TuneParam -> BOOLEAN]
    BY <2>1, <2>2 DEF TuneInv, TuneTyped
  <2>5. TuneTyped'
    <3>1. \A q \in TuneParam : SelfPersists(q) => stored'[q] # Damaged
      BY <1>3, <2>1, <2>2 DEF TuneInv, TuneTyped, Damaged, TuneValue
    <3> QED
      BY <1>5, <1>6, <2>3, <2>4, <3>1 DEF TuneInv, TuneTyped, SelfPersists
  <2>6. PromisesSettled'
    BY <1>3, <2>1, <2>2 DEF TuneInv, TuneTyped, PromisesSettled
  <2>7. ConfirmedRuns'
    BY <1>1, <1>3, <1>4, <1>7, <2>1, <2>2
       DEF TuneInv, TuneTyped, ConfirmedRuns, Unpromised, TuneValue
  <2> QED
    BY <1>5, <2>5, <2>6, <2>7 DEF TuneInv, ConfirmedLater
<1>8. CASE ~(tuned.applied /\ persist /\ (Persistent(p) \/ SelfPersists(p)))
  <2>1. confirmed' = [confirmed EXCEPT ![p] = FALSE]
        /\ UNCHANGED <<stored, promised>>
    BY <1>1, <1>8
  <2>2. TuneTyped'
    BY <1>5, <1>6, <2>1 DEF TuneInv, TuneTyped, SelfPersists
  <2>3. PromisesSettled'
    BY <2>1 DEF TuneInv, PromisesSettled, Normalized, Snapped, Clamped
  <2>4. ConfirmedRuns'
    BY <1>1, <2>1 DEF TuneInv, TuneTyped, ConfirmedRuns
  <2> QED
    BY <1>5, <2>2, <2>3, <2>4 DEF TuneInv, ConfirmedLater
<1> QED
  BY <1>7, <1>8

\* Forgetting the stored parameters keeps the invariant.
LEMMA ParamsResetStep == ASSUME TuneInv, ParamsReset PROVE TuneInv'
<1>1. PICK kept \in SUBSET Range(TuneOrder) :
        stored' = [p \in TuneParam |->
          IF Persistent(p) /\ p \notin kept THEN Absent ELSE stored[p]]
  BY DEF ParamsReset, Cleared
<1>2. /\ UNCHANGED <<stage, replayed, attempts, live, confirmed>>
      /\ promised' = [p \in TuneParam |->
                        IF Persistent(p) THEN Unpromised ELSE promised[p]]
  BY DEF ParamsReset, replayVars
<1>3. TuneTyped'
  BY <1>1, <1>2 DEF TuneInv, TuneTyped, SelfPersists, Absent, Damaged
<1>4. PromisesSettled'
  BY <1>1, <1>2 DEF TuneInv, PromisesSettled, Normalized, Snapped, Clamped
<1>5. ConfirmedRuns' /\ ConfirmedLater'
  BY <1>2, Zenon DEF TuneInv, ConfirmedRuns, ConfirmedLater, SelfPersists
<1> QED
  BY <1>3, <1>4, <1>5 DEF TuneInv

\* A restart keeps the invariant.
LEMMA TunerRestartsStep == ASSUME TuneInv, TunerRestarts PROVE TuneInv'
<1>1. PICK power \in BOOLEAN :
        live' = [p \in TuneParam |-> IF power \/ Tunes[p].target = "led"
                                     THEN Tunes[p].bake ELSE live[p]]
  BY DEF TunerRestarts
<1>2. /\ stage' = "boot" /\ replayed' = 0 /\ UNCHANGED <<stored, promised>>
      /\ confirmed' = [p \in TuneParam |-> FALSE]
  BY DEF TunerRestarts
<1>3. \A p \in TuneParam : Tunes[p].bake \in TuneValue
  BY ParamBounds DEF TuneValue
<1>4. TuneTyped'
  BY <1>1, <1>2, <1>3, TuneBounds DEF TuneInv, TuneTyped, SelfPersists
<1>5. PromisesSettled'
  BY <1>2 DEF TuneInv, PromisesSettled, Normalized, Snapped, Clamped
<1>6. ConfirmedRuns' /\ ConfirmedLater'
  BY <1>2 DEF ConfirmedRuns, ConfirmedLater
<1> QED
  BY <1>4, <1>5, <1>6 DEF TuneInv

\* The first writes of the boot keep the invariant.
LEMMA CodecInitialisedStep == ASSUME TuneInv, CodecInitialised PROVE TuneInv'
<1>1. /\ live' \in [TuneParam -> UNION {Initialised(p) : p \in TuneParam}]
      /\ \A p \in TuneParam : live'[p] \in Initialised(p)
      /\ confirmed' = [p \in TuneParam |-> SelfPersists(p) /\ live'[p] = stored[p]]
      /\ stage' \in {"profile", "replay"}
      /\ UNCHANGED <<replayed, attempts, stored, promised>>
  BY DEF CodecInitialised
<1>2. \A p \in TuneParam : live'[p] \in TuneValue \cup {Mixed}
  <2> TAKE p \in TuneParam
  <2>1. CASE SelfPersists(p)
    <3>1. live'[p] \in LevelLoaded(p)
      BY <1>1, <2>1 DEF Initialised, SelfPersists
    <3>2. live'[p] = live[p] \/ (live'[p] = stored[p] /\ stored[p] # Absent)
      BY <3>1 DEF LevelLoaded
    <3> QED
      BY <2>1, <3>2 DEF TuneInv, TuneTyped
  <2>2. CASE ~SelfPersists(p) /\ Tunes[p].target = "codec"
    <3>1. PICK w \in CodecWritten(live[p], Tunes[p].bake) : live'[p] = w.reg
      BY <1>1, <2>2 DEF Initialised
    <3>2. w.reg \in {live[p], Tunes[p].bake, Mixed}
      BY CodecOutcome
    <3> QED
      BY <3>1, <3>2, ParamBounds DEF TuneInv, TuneTyped, TuneValue
  <2>3. CASE ~SelfPersists(p) /\ Tunes[p].target # "codec"
    <3>1. live'[p] \in {live[p]}
      BY <1>1, <2>3 DEF Initialised
    <3> QED
      BY <3>1 DEF TuneInv, TuneTyped
  <2> QED
    BY <2>1, <2>2, <2>3
<1>3. live' \in [TuneParam -> TuneValue \cup {Mixed}]
  BY <1>1, <1>2
<1>4. TuneTyped'
  BY <1>1, <1>3 DEF TuneInv, TuneTyped, SelfPersists
<1>5. PromisesSettled'
  BY <1>1 DEF TuneInv, PromisesSettled, Normalized, Snapped, Clamped
<1>6. \A p \in TuneParam : confirmed'[p] => SelfPersists(p) /\ live'[p] = stored[p]
  BY <1>1
<1>7. ConfirmedRuns'
  BY <1>1, <1>6 DEF TuneInv, ConfirmedRuns, PromisesSettled
<1>8. \A i \in 1..Len(TuneOrder) : TuneOrder[i] \in TuneParam
                                   /\ ~SelfPersists(TuneOrder[i])
  <2>1. TuneOrder \in Seq({p \in TuneParam : Tunes[p].target # "led"})
    BY TuneBounds
  <2> QED
    BY <2>1 DEF SelfPersists
<1>9. ConfirmedLater'
  BY <1>6, <1>8 DEF ConfirmedLater, SelfPersists
<1> QED
  BY <1>4, <1>5, <1>7, <1>9 DEF TuneInv

\* The boot profile keeps the invariant.
LEMMA ProfileBakedStep == ASSUME TuneInv, ProfileBaked PROVE TuneInv'
<1>1. PICK lost \in SUBSET TuneParam :
        live' = [p \in TuneParam |->
                   IF p \in lost \/ Tunes[p].target \in {"led", "codec"}
                   THEN live[p] ELSE Tunes[p].bake]
  BY DEF ProfileBaked
<1>2. /\ stage = "profile" /\ stage' = "replay"
      /\ UNCHANGED <<replayed, attempts, stored, promised, confirmed>>
  BY DEF ProfileBaked
<1>3. \A p \in TuneParam : Tunes[p].bake \in TuneValue
  BY ParamBounds DEF TuneValue
<1>4. TuneTyped'
  BY <1>1, <1>2, <1>3 DEF TuneInv, TuneTyped, SelfPersists
<1>5. PromisesSettled'
  BY <1>2 DEF TuneInv, PromisesSettled, Normalized, Snapped, Clamped
<1>6. \A p \in TuneParam : confirmed[p] => Tunes[p].target = "led"
  BY <1>2 DEF TuneInv, ConfirmedLater, SelfPersists
<1>7. ConfirmedRuns'
  BY <1>1, <1>2, <1>6 DEF TuneInv, ConfirmedRuns
<1>8. ConfirmedLater'
  <2>1. TuneOrder \in Seq({p \in TuneParam : Tunes[p].target # "led"})
    BY TuneBounds
  <2> QED
    BY <1>2, <1>6, <2>1 DEF ConfirmedLater
<1> QED
  BY <1>4, <1>5, <1>7, <1>8 DEF TuneInv

\* A parameter the replay passes over keeps the invariant.
LEMMA ReplayPassesStep ==
  ASSUME TuneInv, ReplayEnds \/ ReplaySkips
  PROVE  TuneInv'
<1>1. /\ UNCHANGED <<live, stored, promised, confirmed>>
      /\ replayed' \in 0..Len(TuneOrder)
      /\ \/ stage' = "serving"
         \/ stage' = stage /\ stage = "replay" /\ replayed' = replayed + 1
  <2>1. CASE ReplayEnds
    BY <2>1, TuneBounds DEF ReplayEnds, TuneInv, TuneTyped
  <2>2. CASE ReplaySkips
    BY <2>2, ReplayedParam DEF ReplaySkips, Replaying, Replayed, TuneInv
  <2> QED
    BY <2>1, <2>2
<1>2. TuneTyped'
  BY <1>1 DEF TuneInv, TuneTyped, SelfPersists
<1>3. PromisesSettled'
  BY <1>1 DEF TuneInv, PromisesSettled, Normalized, Snapped, Clamped
<1>4. ConfirmedRuns'
  BY <1>1 DEF TuneInv, ConfirmedRuns
<1>5. ConfirmedLater'
  BY <1>1 DEF TuneInv, TuneTyped, ConfirmedLater
<1> QED
  BY <1>2, <1>3, <1>4, <1>5 DEF TuneInv

\* The parameter that is replayed may be given another value of the register,
\* and be reported as applied if that is what is stored.
LEMMA ReplayStep ==
  ASSUME TuneInv, Replaying, Replayed \/ (UNCHANGED replayed),
         NEW p, p = NextReplayed, NEW reg \in TuneValue \cup {Mixed},
         live' = [live EXCEPT ![p] = reg],
         \/ confirmed' = confirmed
         \/ confirmed' = [confirmed EXCEPT ![p] = TRUE] /\ Replayed
            /\ (promised[p] # Unpromised => reg = promised[p]),
         UNCHANGED <<stage, promised>>,
         \/ stored' = stored
         \/ \E v \in TuneValue : stored' = [stored EXCEPT ![p] = v]
                                 /\ promised[p] = Unpromised
  PROVE  TuneInv'
<1>1. /\ p \in TuneParam /\ ~SelfPersists(p) /\ replayed + 1 \in 1..Len(TuneOrder)
      /\ \A i \in 1..Len(TuneOrder) : i > replayed + 1 => TuneOrder[i] # p
      /\ p = TuneOrder[replayed + 1]
  BY ReplayedParam DEF TuneInv, NextReplayed
<1>2. replayed' \in {replayed, replayed + 1}
      /\ (confirmed' # confirmed => replayed' = replayed + 1)
  BY DEF Replayed
<1>3. stage = "replay" /\ ~confirmed[p]
  BY <1>1 DEF Replaying, TuneInv, TuneTyped, ConfirmedLater
<1>4. stored' \in [TuneParam -> TuneValue \cup {Absent, Damaged}]
      /\ \A q \in TuneParam : SelfPersists(q) => stored'[q] # Damaged
  BY <1>1 DEF TuneInv, TuneTyped
<1>5. live' \in [TuneParam -> TuneValue \cup {Mixed}]
  BY <1>1 DEF TuneInv, TuneTyped
<1>6. confirmed' \in [TuneParam -> BOOLEAN]
  BY DEF TuneInv, TuneTyped
<1>7. TuneTyped'
  BY <1>1, <1>2, <1>4, <1>5, <1>6 DEF TuneInv, TuneTyped, SelfPersists
<1>8. PromisesSettled'
  BY <1>1 DEF TuneInv, TuneTyped, PromisesSettled, Normalized, Snapped, Clamped
<1>9. ConfirmedRuns'
  BY <1>1, <1>3 DEF TuneInv, TuneTyped, ConfirmedRuns
<1>10. ConfirmedLater'
  <2>1. \A i \in 1..Len(TuneOrder) : i > replayed' =>
          ~confirmed[TuneOrder[i]] /\ (Replayed => TuneOrder[i] # p)
    BY <1>1, <1>2, <1>3 DEF TuneInv, TuneTyped, ConfirmedLater, Replayed
  <2>2. \A i \in 1..Len(TuneOrder) : TuneOrder[i] \in TuneParam
    <3>1. TuneOrder \in Seq({q \in TuneParam : Tunes[q].target # "led"})
      BY TuneBounds
    <3> QED
      BY <3>1
  <2>3. \A i \in 1..Len(TuneOrder) : i > replayed' => ~confirmed'[TuneOrder[i]]
    BY <2>1, <2>2 DEF TuneInv, TuneTyped
  <2> QED
    BY <1>3, <2>3 DEF ConfirmedLater
<1> QED
  BY <1>7, <1>8, <1>9, <1>10 DEF TuneInv

\* A damaged entry that is replaced by the bake keeps the invariant.
LEMMA ReplayRestoresBakeStep ==
  ASSUME TuneInv, ReplayRestoresBake PROVE TuneInv'
<1>1. PICK tuned \in TuneOutcomes(NextReplayed, Tunes[NextReplayed].bake) :
        live' = [live EXCEPT ![NextReplayed] = tuned.reg]
  BY DEF ReplayRestoresBake
<1>2. NextReplayed \in TuneParam
  BY ReplayedParam DEF ReplayRestoresBake, TuneInv
<1>3. Tunes[NextReplayed].bake \in TuneValue
  BY <1>2, ParamBounds DEF TuneValue
<1>4. tuned.reg \in TuneValue \cup {Mixed}
  BY <1>2, <1>3, TuneOutcome, NormalizedType DEF TuneInv, TuneTyped
<1> QED
  BY <1>1, <1>4, ReplayStep DEF ReplayRestoresBake

\* A parameter the replay applies, or gives up on, keeps the invariant.
LEMMA ReplayAppliesStep == ASSUME TuneInv, ReplayApplies PROVE TuneInv'
<1> DEFINE p == NextReplayed
<1>1. PICK tuned \in TuneOutcomes(p, stored[p]) :
        ReplaySucceeds(p, tuned) \/ ReplayRetries(p, tuned)
  BY DEF ReplayApplies
<1>2. /\ p \in TuneParam /\ stored[p] \in TuneValue /\ Replaying
      /\ UNCHANGED <<stage, promised>>
  BY ReplayedParam DEF ReplayApplies, Loaded, TuneInv
<1>3. /\ tuned.reg \in {live[p], Normalized(p, stored[p]), Mixed}
      /\ tuned.applied => tuned.reg = Normalized(p, stored[p])
      /\ Normalized(p, stored[p]) \in TuneValue
  BY <1>2, TuneOutcome, NormalizedType
<1>4. tuned.reg \in TuneValue \cup {Mixed}
  BY <1>2, <1>3 DEF TuneInv, TuneTyped
<1>5. promised[p] # Unpromised => Normalized(p, stored[p]) = stored[p]
                                  /\ stored[p] = promised[p]
  BY <1>2 DEF TuneInv, PromisesSettled
<1>6. CASE ReplaySucceeds(p, tuned)
  <2>1. /\ live' = [live EXCEPT ![p] = tuned.reg]
        /\ confirmed' = [confirmed EXCEPT ![p] = TRUE] /\ Replayed
        /\ tuned.applied
    BY <1>6 DEF ReplaySucceeds
  <2>2. \/ stored' = stored
        \/ \E v \in TuneValue : stored' = [stored EXCEPT ![p] = v]
                                /\ promised[p] = Unpromised
    <3>1. PICK save \in SaveOutcomes(p, Normalized(p, stored[p])) :
            stored' = IF Normalized(p, stored[p]) = stored[p] THEN stored
                      ELSE [stored EXCEPT ![p] = save.nvs]
      BY <1>6 DEF ReplaySucceeds
    <3>2. save.nvs \in {stored[p], Normalized(p, stored[p])}
      BY SaveOutcome
    <3> QED
      BY <1>2, <1>3, <1>5, <3>1, <3>2
  <2> QED
    BY <1>2, <1>3, <1>4, <1>5, <2>1, <2>2, ReplayStep
<1>7. CASE ReplayRetries(p, tuned)
  <2>1. /\ live' = [live EXCEPT ![p] = tuned.reg]
        /\ Replayed \/ (UNCHANGED replayed)
        /\ UNCHANGED <<stored, confirmed>>
    BY <1>7 DEF ReplayRetries, GaveUp
  <2> QED
    BY <1>2, <1>4, <2>1, ReplayStep
<1> QED
  BY <1>1, <1>6, <1>7

\* Every step of the tuning keeps the invariant.
LEMMA TuneStep == TuneInv /\ [TuneNext]_tuneVars => TuneInv'
<1> SUFFICES ASSUME TuneInv, [TuneNext]_tuneVars PROVE TuneInv'
  OBVIOUS
<1>1. ASSUME NEW p \in TuneParam, NEW v \in TuneRequests,
             NEW persist \in BOOLEAN, TuneHandled(p, v, persist)
      PROVE  TuneInv'
  BY <1>1, TuneHandledStep
<1>2. CASE UNCHANGED tuneVars
  BY <1>2 DEF tuneVars, replayVars, TuneInv, TuneTyped, PromisesSettled,
              ConfirmedLater, ConfirmedRuns, SelfPersists, Normalized, Snapped,
              Clamped
<1> QED
  BY <1>1, <1>2, ParamsResetStep, TunerRestartsStep, CodecInitialisedStep,
     ProfileBakedStep, ReplayPassesStep, ReplayRestoresBakeStep,
     ReplayAppliesStep DEF TuneNext

\* The invariant holds at power-on.
LEMMA TuneInitially == DeviceInit => TuneInv
<1> SUFFICES ASSUME TuneInit PROVE TuneInv
  BY DEF DeviceInit
<1>1. \A p \in TuneParam : Tunes[p].bake \in TuneValue
  BY ParamBounds DEF TuneValue
<1>2. live \in [TuneParam -> TuneValue \cup {Mixed}]
      /\ stored \in [TuneParam -> TuneValue \cup {Absent, Damaged}]
  BY <1>1, TuneBounds DEF TuneInit
<1>3. ASSUME NEW p \in TuneParam, SelfPersists(p)
      PROVE  stored[p] # Damaged
  <2>1. stored[p] \in {Absent, Normalized(p, stored[p])}
    BY <1>3 DEF TuneInit, SelfPersists
  <2>2. Normalized(p, Damaged) # Damaged
    <3>1. Clamped(p, Damaged) = Tunes[p].low
      BY ParamBounds DEF Clamped, Damaged
    <3>2. Normalized(p, Damaged) = Tunes[p].low - (Tunes[p].low % 2)
      BY <1>3, <3>1 DEF Normalized, Snapped, SelfPersists
    <3> QED
      BY <3>2, ParamBounds DEF Damaged
  <2> QED
    BY <2>1, <2>2 DEF Absent, Damaged
<1>4. /\ stage = "boot" /\ replayed = 0
      /\ promised = [p \in TuneParam |-> Unpromised]
      /\ confirmed = [p \in TuneParam |-> FALSE]
  BY DEF TuneInit
<1>5. TuneTyped
  BY <1>2, <1>3, <1>4, TuneBounds DEF TuneTyped
<1> QED
  BY <1>4, <1>5 DEF TuneInv, PromisesSettled, ConfirmedLater, ConfirmedRuns

\* The replay counts as many failed attempts at a parameter as it may make, less
\* the one it goes on with.
AttemptsBounded == attempts \in 0..(ReplayAttempts - 1)

LEMMA AttemptsStep == AttemptsBounded /\ [TuneNext]_tuneVars => AttemptsBounded'
<1> SUFFICES ASSUME AttemptsBounded, [TuneNext]_tuneVars PROVE AttemptsBounded'
  OBVIOUS
<1>1. ReplayAttempts \in Nat \ {0}
  BY TuneBounds
<1>2. \/ UNCHANGED attempts \/ attempts' = 0
      \/ attempts' = attempts + 1 /\ attempts + 1 # ReplayAttempts
  <2>1. CASE ReplayApplies
    BY <2>1 DEF ReplayApplies, ReplaySucceeds, ReplayRetries, Replayed
  <2>2. CASE ReplaySkips \/ ReplayRestoresBake
    BY <2>2 DEF ReplaySkips, ReplayRestoresBake, Replayed
  <2>3. CASE TunerRestarts \/ CodecInitialised \/ ProfileBaked \/ ReplayEnds
    BY <2>3 DEF TunerRestarts, CodecInitialised, ProfileBaked, ReplayEnds
  <2>4. CASE ParamsReset \/ UNCHANGED tuneVars
    BY <2>4 DEF ParamsReset, replayVars, tuneVars
  <2>5. ASSUME NEW p \in TuneParam, NEW v \in TuneRequests,
               NEW persist \in BOOLEAN, TuneHandled(p, v, persist)
        PROVE  UNCHANGED attempts
    BY <2>5 DEF TuneHandled, replayVars
  <2> QED
    BY <2>1, <2>2, <2>3, <2>4, <2>5 DEF TuneNext
<1> QED
  BY <1>1, <1>2 DEF AttemptsBounded

\* The tuning stays in its types.
LEMMA TuneTypes == DeviceSpec => []TuneTypeOK
<1>1. DeviceInit => AttemptsBounded
  BY TuneBounds DEF DeviceInit, TuneInit, AttemptsBounded
<1>2. /\ TuneInv /\ [DeviceNext]_deviceVars => TuneInv'
      /\ AttemptsBounded /\ [DeviceNext]_deviceVars => AttemptsBounded'
  BY TuneSteps, TuneStep, AttemptsStep
<1>3. TuneInv /\ AttemptsBounded => TuneTypeOK
  BY DEF TuneInv, TuneTyped, AttemptsBounded, TuneTypeOK
<1> QED
  BY <1>1, <1>2, <1>3, TuneInitially, PTL DEF DeviceSpec

\* A value the server said it stored is in NVS, and once it was reported as applied
\* it is the one that runs, across restarts and replays (ota.cpp:211-320, 728-834).
THEOREM PromisesKept == DeviceSpec => []PromiseKept
<1>1. TuneInv /\ [DeviceNext]_deviceVars => TuneInv'
  BY TuneSteps, TuneStep
<1>2. TuneInv => PromiseKept
  BY DEF TuneInv, PromisesSettled, ConfirmedRuns, PromiseKept
<1> QED
  BY <1>1, <1>2, TuneInitially, PTL DEF DeviceSpec

\* During the replay, what moves moves to what is stored.
LEMMA ReplayKeepsStored ==
  ASSUME TuneInv, TuneNext, stage = "replay", stage' # "boot",
         NEW p \in TuneParam, Loaded(p), live'[p] # live[p]
  PROVE  live'[p] \in {Normalized(p, stored[p]), Mixed}
<1>1. ReplayRestoresBake \/ ReplayApplies
  BY DEF TuneNext, TuneHandled, ParamsReset, TunerRestarts, CodecInitialised,
         ProfileBaked, ReplayEnds, ReplaySkips
<1>2. Replaying
  BY <1>1 DEF ReplayRestoresBake, ReplayApplies
<1>3. NextReplayed \in TuneParam
  BY <1>2, ReplayedParam DEF TuneInv
<1>4. CASE ReplayRestoresBake
  <2>1. stored[NextReplayed] = Damaged
        /\ \E reg : live' = [live EXCEPT ![NextReplayed] = reg]
    BY <1>4 DEF ReplayRestoresBake
  <2>2. p # NextReplayed
    BY <2>1 DEF Loaded, TuneValue, Damaged
  <2> QED
    BY <1>3, <2>1, <2>2 DEF TuneInv, TuneTyped
<1>5. CASE ReplayApplies
  <2>1. PICK tuned \in TuneOutcomes(NextReplayed, stored[NextReplayed]) :
          live' = [live EXCEPT ![NextReplayed] = tuned.reg]
    BY <1>5 DEF ReplayApplies, ReplaySucceeds, ReplayRetries, GaveUp
  <2>2. p = NextReplayed /\ live'[p] = tuned.reg
    BY <1>3, <2>1 DEF TuneInv, TuneTyped
  <2>3. tuned.reg \in {live[p], Normalized(p, stored[p]), Mixed}
    BY <2>1, <2>2, TuneOutcome DEF Loaded
  <2> QED
    BY <2>2, <2>3
<1> QED
  BY <1>1, <1>4, <1>5

\* During the replay a parameter with a stored value moves to that value only,
\* never to the bake (ota.cpp:237-320).
THEOREM StoredWins == DeviceSpec => StoredBeatsBake
<1>1. TuneInv /\ [DeviceNext]_deviceVars => TuneInv'
  BY TuneSteps, TuneStep
<1>2. TuneInv /\ [DeviceNext]_deviceVars =>
        [stage = "replay" /\ stage' # "boot" =>
           \A p \in TuneParam :
             Loaded(p) /\ live'[p] # live[p] =>
               live'[p] \in {Normalized(p, stored[p]), Mixed}]_tuneVars
  BY TuneSteps, ReplayKeepsStored
<1> QED
  BY <1>1, <1>2, TuneInitially, PTL DEF DeviceSpec, StoredBeatsBake
=============================================================================
