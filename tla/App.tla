--------------------------------- MODULE App ---------------------------------
(***************************************************************************)
(* The page (src/viz/app.ts): its handlers, the run loop driven by         *)
(* animation frames, and program loads, some of which wait for a fetch.    *)
(* The menu and the buttons are those of panels/transport.ts.  JavaScript  *)
(* runs one handler at a time, to its end or its first await; the          *)
(* callbacks of one frame run back to back.  The machine behind            *)
(* core/sim.ts is reduced to what the page reads of it.                    *)
(***************************************************************************)
EXTENDS Integers, FiniteSets, FiniteSetsExt

CONSTANTS
  Examples, Fetched,  \* program ids: assembled in the page, fetched
  First,              \* examples[0].id
  StepLimit,          \* passes of stepInstructionRecording (512)
  MaxBudget,          \* cycles one frame may clock (MAX_CYCLES_PER_TICK)
  CycleRange,         \* bound of the model: cycles are counted modulo this
  MaxPrinted,         \* bound of the model: characters printed since a load
  MaxFetches,         \* bound of the model: fetches of one program at once
  Callbacks           \* bound of the model: animation frame handles

Programs == Examples \cup Fetched

ASSUME AppAssumption ==
  /\ First \in Examples /\ Examples \cap Fetched = {}
  /\ StepLimit \in Nat \ {0} /\ MaxBudget \in Nat \ {0}
  /\ CycleRange \in Nat /\ CycleRange > MaxBudget
  /\ Callbacks \subseteq Nat \ {0}

VARIABLES
  sim,        \* App.sim: "loading", "ready", or "failed"
  choice,     \* what the program menu shows
  currentId,  \* the program that Reset loads
  fetches,    \* fetches in flight, by program
  loop,       \* the run loop: running, the button's label, rafId, callbacks
  machine,    \* what the page can see of the simulator
  screen      \* what is shown: the cycle, the console's length, the watch note

programVars == <<choice, currentId>>
vars == <<sim, programVars, fetches, loop, machine, screen>>

-----------------------------------------------------------------------------
(* The run loop.  "scheduled" holds the callbacks asked for since the last
   frame, "due" those the current frame has yet to call. *)

NoHandle == 0

\* requestAnimationFrame hands out a new handle (while the bound has one left).
Schedule(l) ==
  LET free == Callbacks \ (l.scheduled \cup l.due \cup {l.rafId})
  IN  IF free = {} THEN l
      ELSE [l EXCEPT !.rafId = Min(free), !.scheduled = @ \cup {Min(free)}]

\* Mutant: the handle is forgotten, the callback is not.
Forget(l) == [l EXCEPT !.rafId = NoHandle]

Cancel(l) ==
  [l EXCEPT !.scheduled = @ \ {l.rafId}, !.due = @ \ {l.rafId}, !.rafId = NoHandle]

\* The flag, and the label of the button with it.
Flag(l, on) == [l EXCEPT !.running = on, !.label = on]

\* Mutant: a handle that is still set is taken for a loop that still runs.
StartUnlessHandled(l, on) ==
  LET flagged == Flag(l, on)
  IN  CASE l.running = on                               -> l
        [] on /\ ~l.running /\ l.rafId = NoHandle       -> Schedule(flagged)
        [] on /\ ~l.running /\ l.rafId # NoHandle       -> flagged
        [] ~on /\ l.running                             -> Cancel(flagged)

SetRunning(l, on) ==
  LET flagged == Flag(l, on)
  IN  CASE l.running = on       -> l
        [] on /\ ~l.running     -> Schedule(flagged)
        [] ~on /\ l.running     -> Cancel(flagged)

-----------------------------------------------------------------------------
(* The machine.  "printed" counts the characters since the reset. *)

\* What one cycle can do: print, ask to exit, or neither.
Writes(m) == {"none", "exit"} \cup (IF m.printed < MaxPrinted THEN {"print"} ELSE {})

Cycled(m, write, fault) ==
  LET printed == IF write = "print" THEN 1 ELSE 0
  IN  [m EXCEPT !.cycle   = (@ + 1) % CycleRange,
                !.out     = @ + printed,
                !.printed = @ + printed,
                !.exited  = @ \/ write = "exit",
                !.fault   = @ \/ fault]

Cycles(m) == {Cycled(m, write, fault) : write \in Writes(m), fault \in BOOLEAN}

\* More passes of a loop that ends when the program exits.
Clocked(first, more) ==
  LET after[k \in 0..more] ==
        IF k = 0 THEN first
        ELSE UNION {IF c.exited THEN {c} ELSE Cycles(c) : c \in after[k - 1]}
  IN  after[more]

\* sim.reset(); sim.loadProgram(bytes); sim.reset(): the model may raise a fault
\* while it is in reset.
Image(id, fault) ==
  [program |-> id, cycle |-> 0, out |-> 0, printed |-> 0, exited |-> FALSE, fault |-> fault]

Loaded(id) == {Image(id, fault) : fault \in BOOLEAN}

NoProgram == "none"

-----------------------------------------------------------------------------
(* The watch note is a program's own, or says that its fetch failed. *)
Watch(id)   == [about |-> id, failed |-> FALSE]
Failure(id) == [about |-> id, failed |-> TRUE]

\* paint: show the snapshot, move the output to the console, stop at a fault.
Show(m, console, note) ==
  /\ screen' = [cycle |-> m.cycle, console |-> console + m.out, note |-> note]
  /\ machine' = [m EXCEPT !.out = 0]

StopAtFault(m, l) == IF m.fault THEN SetRunning(l, FALSE) ELSE l

Paint(m, l) == Show(m, screen.console, screen.note) /\ loop' = StopAtFault(m, l)

Init ==
  /\ sim = "loading"
  /\ choice = First /\ currentId = First
  /\ fetches = [id \in Fetched |-> 0]
  /\ loop = [running |-> FALSE, label |-> FALSE, rafId |-> NoHandle,
             scheduled |-> {}, due |-> {}]
  /\ machine = Image(NoProgram, FALSE)
  /\ screen = [cycle |-> 0, console |-> 0, note |-> Watch(NoProgram)]

\* Mutant: the console keeps the output of the previous run.
FinishKeepingConsole(id, l) ==
  \E m \in Loaded(id) : Show(m, screen.console, Watch(id)) /\ loop' = StopAtFault(m, l)

\* The rest of load, once the bytes are there.
FinishLoad(id, l) ==
  \E m \in Loaded(id) : Show(m, 0, Watch(id)) /\ loop' = StopAtFault(m, l)

\* Mutant: the note changes before the wait for the bytes.
LoadNotedEarly(id) ==
  LET stopped == SetRunning(loop, FALSE)
  IN  /\ currentId' = id
      /\ \/ id \in Examples
            /\ FinishLoad(id, stopped)
            /\ UNCHANGED fetches
         \/ id \in Fetched
            /\ fetches[id] < MaxFetches
            /\ fetches' = [fetches EXCEPT ![id] = @ + 1]
            /\ loop' = stopped
            /\ screen' = [screen EXCEPT !.note = Watch(id)]
            /\ UNCHANGED machine

Load(id) ==
  LET stopped == SetRunning(loop, FALSE)
  IN  /\ currentId' = id
      /\ \/ id \in Examples
            /\ FinishLoad(id, stopped)
            /\ UNCHANGED fetches
         \/ id \in Fetched
            /\ fetches[id] < MaxFetches
            /\ fetches' = [fetches EXCEPT ![id] = @ + 1]
            /\ loop' = stopped
            /\ UNCHANGED <<machine, screen>>

\* start: createSim() resolves or rejects.
SimArrives ==
  /\ sim = "loading"
  /\ \/ sim' = "ready" /\ Load(currentId)
     \/ sim' = "failed" /\ UNCHANGED <<currentId, fetches, loop, machine, screen>>
  /\ UNCHANGED choice

\* A user's action or a fetch is handled between frames.
Idle == sim = "ready" /\ loop.due = {}

\* The menu changes at once; the app hears of it only when there is a simulator.
Choose(id) ==
  /\ loop.due = {} /\ id # choice
  /\ choice' = id
  /\ \/ Idle /\ Load(id)
     \/ ~Idle /\ UNCHANGED <<currentId, fetches, loop, machine, screen>>
  /\ UNCHANGED sim

Reset ==
  /\ Idle
  /\ Load(currentId)
  /\ UNCHANGED <<sim, choice>>

\* Mutant: what arrives becomes the current program.
FetchArrivesAsCurrent(id) ==
  /\ Idle /\ fetches[id] > 0
  /\ fetches' = [fetches EXCEPT ![id] = @ - 1]
  /\ currentId' = id
  /\ FinishLoad(id, loop)
  /\ UNCHANGED <<sim, choice>>

\* load goes on after its await, whatever has happened since.
FetchArrives(id) ==
  /\ Idle /\ fetches[id] > 0
  /\ fetches' = [fetches EXCEPT ![id] = @ - 1]
  /\ FinishLoad(id, loop)
  /\ UNCHANGED <<sim, programVars>>

FetchFails(id) ==
  /\ Idle /\ fetches[id] > 0
  /\ fetches' = [fetches EXCEPT ![id] = @ - 1]
  /\ screen' = [screen EXCEPT !.note = Failure(id)]
  /\ UNCHANGED <<sim, programVars, loop, machine>>

StepCycle ==
  /\ Idle
  /\ \E m \in Cycles(machine) :
        Paint(m, SetRunning(loop, FALSE))
  /\ UNCHANGED <<sim, programVars, fetches>>

\* stepInstructionRecording: one cycle, then more until an instruction retires.
StepInstruction ==
  /\ Idle
  /\ \E more \in 0..StepLimit - 1 :
       \E m \in Clocked(Cycles(machine), more) :
          Paint(m, SetRunning(loop, FALSE))
  /\ UNCHANGED <<sim, programVars, fetches>>

\* The button goes by its own label, the space bar by the app's flag.
Button == Idle /\ loop' = SetRunning(loop, ~loop.label)
Space  == Idle /\ loop' = SetRunning(loop, ~loop.running)

Toggle ==
  /\ Button \/ Space
  /\ UNCHANGED <<sim, programVars, fetches, machine, screen>>

\* The browser starts a frame.
Frame ==
  /\ loop.due = {} /\ loop.scheduled # {}
  /\ loop' = [loop EXCEPT !.due = loop.scheduled, !.scheduled = {}]
  /\ UNCHANGED <<sim, programVars, fetches, machine, screen>>

\* while (budget-- > 0 && !exited) stepCycle()
Run(budget) ==
  IF machine.exited THEN {machine}
  ELSE Clocked(Cycles(machine), budget - 1)

\* Mutant: a machine that has exited is left to the next frame.
TickUntilNextFrame(handle) ==
  LET called == [loop EXCEPT !.due = @ \ {handle}]
  IN  /\ handle \in loop.due
      /\ \/ /\ ~loop.running
            /\ loop' = called
            /\ UNCHANGED <<machine, screen>>
         \/ /\ loop.running
            /\ \E budget \in 1..MaxBudget : \E m \in Run(budget) :
                  Paint(m, Schedule(called))
      /\ UNCHANGED <<sim, programVars, fetches>>

\* Mutant: a callback does not ask whether the loop still runs.
TickUnasked(handle) ==
  LET called == [loop EXCEPT !.due = @ \ {handle}]
  IN  /\ handle \in loop.due
      /\ \E budget \in 1..MaxBudget : \E m \in Run(budget) :
           /\ Show(m, screen.console, screen.note)
           /\ loop' = LET painted == StopAtFault(m, called)
                      IN  IF m.exited THEN SetRunning(painted, FALSE) ELSE Schedule(painted)
      /\ UNCHANGED <<sim, programVars, fetches>>

\* One callback: clock the frame's cycles, paint (which stops at a fault), and
\* ask for the next frame unless the program has exited.
Tick(handle) ==
  LET called == [loop EXCEPT !.due = @ \ {handle}]
  IN  /\ handle \in loop.due
      /\ \/ /\ ~loop.running
            /\ loop' = called
            /\ UNCHANGED <<machine, screen>>
         \/ /\ loop.running
            /\ \E budget \in 1..MaxBudget : \E m \in Run(budget) :
                 /\ Show(m, screen.console, screen.note)
                 /\ loop' = LET painted == StopAtFault(m, called)
                            IN  IF m.exited THEN SetRunning(painted, FALSE)
                                            ELSE Schedule(painted)
      /\ UNCHANGED <<sim, programVars, fetches>>

Ticks == \E handle \in Callbacks : Tick(handle)

Next ==
  \/ SimArrives
  \/ \E id \in Programs : Choose(id)
  \/ Reset
  \/ \E id \in Fetched : FetchArrives(id)
  \/ \E id \in Fetched : FetchFails(id)
  \/ StepCycle
  \/ StepInstruction
  \/ Toggle
  \/ Frame
  \/ Ticks

\* A visible page is given frames, and a frame calls its callbacks; users and
\* the network are not fair.
Spec == Init /\ [][Next]_vars /\ WF_vars(Frame) /\ WF_vars(Ticks)

-----------------------------------------------------------------------------
\* Between handlers the page shows the machine as it is: the cycle it is in,
\* and a console with all it has printed since the last load and no more,
\* whichever handlers, loads and late fetches came before (paint, load).
ScreenFaithful ==
  sim = "ready" =>
    /\ screen.cycle = machine.cycle
    /\ screen.console = machine.printed

\* The note beside the machine is about the program in it, or says that a fetch
\* has failed: however late a fetch is, its bytes, its note and the paint that
\* forgets the last run arrive together (load, after its await).
NoteFaithful ==
  sim = "ready" /\ ~screen.note.failed /\ machine.program # NoProgram
    => screen.note.about = machine.program

\* Reset reloads what the menu shows: once they agree, no late or failed fetch
\* parts them.  (They differ after a choice made while the simulator loads.)
MenuAgrees ==
  [][sim = "ready" /\ choice = currentId => choice' = currentId']_vars

\* The machine only moves by itself while the button reads "Pause": callbacks
\* that outlive their loop (cancelled late, or asked for after a fault) do
\* nothing (setRunning, and the first line of tick).
MovesOnlyWhenLabelled ==
  [][Ticks /\ ~loop.label => UNCHANGED <<machine, screen>>]_vars

\* A run nobody stops goes on: as long as the page is running and the program
\* has not exited, the machine is clocked again, whatever pauses, restarts and
\* faults went before.
RunAdvances ==
  \A c \in 0..CycleRange - 1 :
    loop.running /\ machine.cycle = c
      ~> ~loop.running \/ machine.cycle # c \/ machine.exited

\* A run does not outlast its program: once the program has exited or the
\* model has faulted, the page stops running (or loads another program).
RunEnds ==
  loop.running /\ (machine.exited \/ machine.fault)
    ~> ~loop.running \/ ~(machine.exited \/ machine.fault)

\* Unless a fault has stopped a run from inside its callback, there is one run
\* loop: however pauses, steps, loads and restarts fall between the callbacks, no
\* frame is painted by two of them, each reading the other's lastTick (setRunning).
OneLoop ==
  []~machine.fault => [](Cardinality(loop.scheduled \cup loop.due) <= 1)
=============================================================================
