--------------------------- MODULE RunPacingProofs ---------------------------
(***************************************************************************)
(* How far the cycles of a run may get from the time that passed, for any  *)
(* speeds on offer and any display.                                        *)
(***************************************************************************)
EXTENDS RunPacing, TLAPS

TypeOK ==
  /\ running \in BOOLEAN
  /\ cyclesPerSecond \in SPEEDS
  /\ since \in 0..Quarter
  /\ frames \in Nat
  /\ short \in Nat
  /\ drift \in Int

\* While the loop runs, no time is left over from before its last frame.
NothingLeftOver == running => since = 0

PaceInvariant == TypeOK /\ NothingLeftOver /\ PaceIsBounded

\* Math.round is within half a cycle of what it rounds.
LEMMA RoundNearest ==
  ASSUME NEW u \in Nat
  PROVE  /\ Round(u) \in Nat
         /\ 2 * (Round(u) * Second) <= 2 * u + Second
         /\ 2 * u <= 2 * (Round(u) * Second) + Second
  BY DEF Round, Second

\* A frame is given the rounded number of cycles, or one if it is too short for one.
LEMMA BudgetOf ==
  ASSUME NEW u \in Nat, u <= MAX_CYCLES_PER_TICK * Second
  PROVE  Larger(1, Smaller(MAX_CYCLES_PER_TICK, Round(u)))
           = IF 2 * u < Second THEN 1 ELSE Round(u)
<1>1. MAX_CYCLES_PER_TICK \in Nat \ {0}
  BY PacingAssumption
<1>2. Round(u) \in Nat /\ Round(u) <= MAX_CYCLES_PER_TICK
  BY <1>1 DEF Round, Second
<1>3. IF 2 * u < Second THEN Round(u) = 0 ELSE Round(u) >= 1
  BY DEF Round, Second
<1> QED
  BY <1>1, <1>2, <1>3 DEF Larger, Smaller

\* The product of naturals is a natural.
LEMMA NatTimes ==
  ASSUME NEW a \in Nat, NEW b \in Nat
  PROVE  a * b \in Nat
  OBVIOUS

\* tick looks at no more than a quarter of a second.
LEMMA ElapsedType ==
  ASSUME NEW t \in Nat
  PROVE  Elapsed(t) \in Nat /\ Elapsed(t) \in 0..Quarter
  BY DEF Elapsed, Smaller, Quarter, Second

\* What a frame is worth is within the limit of a tick.
LEMMA WorthWithinLimit ==
  ASSUME NEW t \in Nat, NEW cps \in SPEEDS
  PROVE  Elapsed(t) * cps \in Nat /\ Elapsed(t) * cps <= MAX_CYCLES_PER_TICK * Second
<1>1. cps \in Nat /\ Quarter * cps <= MAX_CYCLES_PER_TICK * Second
  BY PacingAssumption
<1>2. Elapsed(t) \in Nat /\ Elapsed(t) <= Quarter /\ Quarter \in Nat
  BY DEF Elapsed, Smaller, Quarter, Second
<1>3. Elapsed(t) * cps <= Quarter * cps
  <2>1. \A a, b, c \in Nat : a <= b => a * c <= b * c
    OBVIOUS
  <2> QED
    BY <1>1, <1>2, <2>1
<1>4. Elapsed(t) * cps \in Nat /\ Quarter * cps \in Nat /\ MAX_CYCLES_PER_TICK * Second \in Nat
  <2>1. MAX_CYCLES_PER_TICK \in Nat /\ Second \in Nat
    BY PacingAssumption DEF Second
  <2> QED
    BY <1>1, <1>2, <2>1, NatTimes
<1> QED
  BY <1>1, <1>3, <1>4

\* Over a run of any length, at any speeds and on any display, the loop is never more
\* than half a cycle a frame behind, nor more than that ahead but for half a cycle for
\* each frame too short for one (tick).
THEOREM PaceKept == Spec => []PaceIsBounded
<1> USE PacingAssumption
<1>1. Init => PaceInvariant
  <2> SUFFICES ASSUME Init PROVE PaceInvariant
    OBVIOUS
  <2>1. TypeOK
    <3>1. since \in 0..Quarter
      BY DEF Init, Quarter, Second
    <3>2. running \in BOOLEAN
      BY DEF Init
    <3> QED
      BY <3>1, <3>2 DEF Init, TypeOK
  <2>2. NothingLeftOver
    BY DEF Init, NothingLeftOver
  <2>3. PaceIsBounded
    BY DEF Init, PaceIsBounded, Second
  <2> QED
    BY <2>1, <2>2, <2>3 DEF PaceInvariant
<1>2. PaceInvariant /\ [Next]_vars => PaceInvariant'
  <2> SUFFICES ASSUME PaceInvariant, [Next]_vars PROVE PaceInvariant'
    OBVIOUS
  <2> USE DEF PaceInvariant, TypeOK, NothingLeftOver
  <2>1. CASE Speed
    BY <2>1 DEF Speed, PaceIsBounded
  <2>2. CASE Wait
    <3>1. PICK t \in FrameTimes : since' = Elapsed(since + t)
      BY <2>2 DEF Wait
    <3>2. since' \in 0..Quarter
      <4>1. since + t \in Nat
        BY DEF Quarter, Second
      <4> QED
        BY <3>1, <4>1, ElapsedType
    <3> QED
      BY <2>2, <3>2 DEF Wait, PaceIsBounded
  <2>3. CASE Run
    BY <2>3 DEF Run, PaceIsBounded, Quarter, Second
  <2>4. CASE Pause
    BY <2>4 DEF Pause, PaceIsBounded
  <2>5. ASSUME NEW t \in FrameTimes, Frame(t) PROVE PaceInvariant'
    <3> DEFINE u == Elapsed(t) * cyclesPerSecond
               n == IF 2 * u < Second THEN 1 ELSE Round(u)
    <3>1. t \in Nat /\ u \in Nat /\ u <= MAX_CYCLES_PER_TICK * Second
      BY WorthWithinLimit
    <3>2. since + t = t
      BY <2>5, <3>1 DEF Frame
    <3>3. Budget(Elapsed(since + t)) = n
      <4> HIDE DEF u
      <4>1. Larger(1, Smaller(MAX_CYCLES_PER_TICK, Round(u))) = n
        BY <3>1, BudgetOf
      <4> HIDE DEF n
      <4> QED
        BY <3>2, <4>1 DEF Budget, u
    <3>4. /\ drift' = drift + n * Second - u
          /\ short' = short + (IF 2 * u < Second THEN 1 ELSE 0)
          /\ frames' = frames + 1
      <4> HIDE DEF n
      <4> QED
        BY <2>5, <3>3 DEF Frame, TooShort
    <3> HIDE DEF u
    <3>5. CASE 2 * u < Second
      <4>1. n = 1
        BY <3>5
      <4> HIDE DEF n
      <4> QED
        BY <2>5, <3>1, <3>4, <3>5, <4>1 DEF Frame, PaceIsBounded, Second, Quarter
    <3>6. CASE ~(2 * u < Second)
      <4>1. n = Round(u) /\ n \in Nat
            /\ 2 * (n * Second) <= 2 * u + Second
            /\ 2 * u <= 2 * (n * Second) + Second
        BY <3>1, <3>6, RoundNearest
      <4> HIDE DEF n
      <4> QED
        BY <2>5, <3>1, <3>4, <3>6, <4>1 DEF Frame, PaceIsBounded, Second, Quarter
    <3> QED
      BY <3>5, <3>6
  <2>6. CASE UNCHANGED vars
    BY <2>6 DEF vars, PaceIsBounded
  <2> QED
    BY <2>1, <2>2, <2>3, <2>4, <2>5, <2>6 DEF Next
<1>3. PaceInvariant => PaceIsBounded
  BY DEF PaceInvariant
<1> QED
  BY <1>1, <1>2, <1>3, PTL DEF Spec
=============================================================================
