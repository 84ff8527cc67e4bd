------------------------------ MODULE RunPacing ------------------------------
(***************************************************************************)
(* How many cycles a frame of the run loop clocks (tick in                 *)
(* src/viz/app.ts), against the speed chosen in src/viz/panels/transport.ts. *)
(* Time is counted in tenths of a millisecond.                             *)
(***************************************************************************)
EXTENDS Integers

CONSTANTS
  SPEEDS,               \* cycles per second on offer
  MAX_CYCLES_PER_TICK,
  FrameTimes,           \* the times between two frames of the browser
  MaxFrames             \* bound of the model: frames of a run

Second == 10000
Quarter == Second \div 4

\* A quarter of a second at the highest speed on offer is within the limit of a tick.
ASSUME PacingAssumption ==
  /\ SPEEDS \subseteq Nat \ {0}
  /\ MAX_CYCLES_PER_TICK \in Nat \ {0}
  /\ FrameTimes \subseteq Nat
  /\ \A cps \in SPEEDS : Quarter * cps <= MAX_CYCLES_PER_TICK * Second

VARIABLES
  running, cyclesPerSecond,
  since,      \* now - lastTick, as of the last event; no more than a quarter
              \* of a second, beyond which tick does not look
  frames,     \* frames of this run so far
  short,      \* history: those of them that were worth less than half a cycle
  drift       \* history: cycles clocked ahead of the speed, in 1/Second

vars == <<running, cyclesPerSecond, since, frames, short, drift>>

Smaller(a, b) == IF a < b THEN a ELSE b
Larger(a, b) == IF a > b THEN a ELSE b

Elapsed(t) == Smaller(Quarter, t)

\* Math.round: the nearest whole number of cycles, halves upwards.
Round(units) == (2 * units + Second) \div (2 * Second)

Budget(elapsed) ==
  Larger(1, Smaller(MAX_CYCLES_PER_TICK, Round(elapsed * cyclesPerSecond)))

Init ==
  /\ running = FALSE
  /\ cyclesPerSecond \in SPEEDS
  /\ since = 0
  /\ frames = 0 /\ short = 0 /\ drift = 0

\* onAction("speed"): takes effect in the next frame.
Speed ==
  /\ \E cps \in SPEEDS \ {cyclesPerSecond} : cyclesPerSecond' = cps
  /\ UNCHANGED <<running, since, frames, short, drift>>

\* Time goes by between runs.
Wait ==
  /\ ~running
  /\ \E t \in FrameTimes : since' = Elapsed(since + t)
  /\ UNCHANGED <<running, cyclesPerSecond, frames, short, drift>>

\* Mutant: a run goes on from the last frame of the one before.
RunFromLastTick ==
  /\ ~running
  /\ running' = TRUE
  /\ frames' = 0 /\ short' = 0 /\ drift' = 0
  /\ UNCHANGED <<cyclesPerSecond, since>>

\* setRunning(true): the time of the run starts now.
Run ==
  /\ ~running
  /\ running' = TRUE
  /\ since' = 0
  /\ frames' = 0 /\ short' = 0 /\ drift' = 0
  /\ UNCHANGED cyclesPerSecond

Pause ==
  /\ running
  /\ running' = FALSE
  /\ UNCHANGED <<cyclesPerSecond, since, frames, short, drift>>

TooShort(t) == 2 * (Elapsed(t) * cyclesPerSecond) < Second

\* A frame t later clocks its budget.
Frame(t) ==
  /\ running /\ frames < MaxFrames
  /\ since' = 0
  /\ frames' = frames + 1
  /\ short' = short + (IF TooShort(t) THEN 1 ELSE 0)
  /\ drift' = drift + Budget(Elapsed(since + t)) * Second - Elapsed(t) * cyclesPerSecond
  /\ UNCHANGED <<running, cyclesPerSecond>>

Next ==
  \/ Speed
  \/ Wait
  \/ Run
  \/ Pause
  \/ \E t \in FrameTimes : Frame(t)

Spec == Init /\ [][Next]_vars

-----------------------------------------------------------------------------

\* Over a run of any speeds, pauses and frames the loop never falls behind the time
\* that passed by more than half a cycle a frame, and never gets ahead of it by more
\* than that and half a cycle for every frame too short for one: rounding, the minimum
\* of one cycle and time spent paused add up to no more (tick, setRunning).  Time
\* beyond a quarter of a second in one frame is not counted (Elapsed).
PaceIsBounded ==
  /\ -frames * Second <= 2 * drift
  /\ 2 * drift <= (frames + short) * Second

\* "Cycles are budgeted against wall time so the chosen speed means what it
\* says" (app.ts, above tick): over a run the cycles clocked stay within half
\* a cycle a frame of the time that passed, at every speed on offer.
SpeedMeansWhatItSays ==
  -frames * Second <= 2 * drift /\ 2 * drift <= frames * Second
=============================================================================
