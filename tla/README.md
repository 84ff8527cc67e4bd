# Verification of the Hazard3 visualizer

The repository runs a real Hazard3 RISC-V core (Verilated, compiled to
WebAssembly) in a page and shows, cycle by cycle, what its pipeline does. Its
whole point is that the picture is true: every highlight, row and number on the
screen must be what the core did. The modules here model the path from the core
to the screen, check it with TLC on small instances, and prove the properties
that matter most with TLAPS for every size.

Source paths below are relative to the repository's root; its TypeScript is
under `src/`.

## 1. The system

| Component | State | Operations | Talks to |
|---|---|---|---|
| Hazard3 core (`third_party/hazard3`, a submodule that is not here) | pipeline, registers, bus lines | a clock edge, a reset | read by the probe, clocked by the SoC |
| Probe (`rtl/hz3_probe.vh`, `hz3_top.v`) | the X\|M shadow | combinational taps, one register | core → SoC |
| SoC wrapper (`sim/soc.h`) | RAM, captured address phase, counters, exit, output | `step`, `run`, `step_instruction`, `hard_reset`, `load_bin`, `write_mem`, `drain_output` | clocks the core, feeds the tracker |
| Register tracker (`sim/tracker.h`) | per register: writes, cycles of the last write and read | `noteWrite`, `noteRead`, `reset` | called by `step` |
| Fault record (`sim/vl_hooks.cpp`) | the first `$finish`/`$stop`/`$fatal` of the process | record, clear | the model → SoC loops, page |
| Bridge, host wrapper (`sim/bridge.cpp`, `src/core/sim.ts`) | the runtime's promise | thin calls | page → SoC |
| Timeline (`src/core/timeline.ts`) | none: a function of snapshots | `buildTimeline` | reservation table |
| Blink tracker (`src/core/blink.ts`) | write counts of the last frame | `update`, `reset`, `regBlink` | register panel |
| Panels (`src/viz/panels/*`) | history, cells, console, button | `push`, `clear`, `render`, `update` | driven by the page |
| Page (`src/viz/app.ts`) | running, frame handle, current program, speed | `start`, `load`, every transport action, `tick`, `paint` | all of the above, fetches, animation frames |
| Command line (`sim/main.cpp`, `src/cli/hz3.ts`) | none | loops over the SoC | bridge |
| Traces (`src/core/trace.ts`) | none | parse, validate, events | command line |
| Development server (`src/server/dev.ts`, `web/index.html`) | clients, one timer | watch, debounce, notify; connect, close | builds, browser |
| Assembler, decoder (`src/core/rv32.ts`, `decode.ts`, `viz/programs.ts`) | a program's items and labels | `label`, `add`, `branch`, `jal`, `park`, `assemble`; `disasm` | programs, texts |
| Datapath model, layout (`src/viz/model/datapath.ts`, `layout/*`) | none: tables | validate, resolve, `route` | scene |
| Bindings, rendering (`src/viz/model/bindings.ts`, `render/*`) | attributes and texts of the SVG | `computeDisplay`, `buildScene`, `applyDisplay` | page |

What is hard here is rarely parallelism - the simulator and the page are both
single-threaded - but *when* things are sampled and *what happens in between*:

- The SoC samples some signals before the clock edge and some after it. A
  signal taken on the wrong side is wrong by one cycle, and only for some
  instruction sequences.
- Two parts keep second copies of the core's state (the shadow in the probe,
  the rows of the timeline) and have to follow it through stalls, bubbles, traps
  and resets.
- A host may clock one cycle or twenty thousand between two frames, and the
  panels have to account for what they did not see.
- Handlers of the page interleave with animation frames and with fetches that
  come back late; a stopped loop leaves callbacks behind.
- A machine that has exited or faulted can still be clocked.
- A trace is read back from a file that may have lost lines, and what it says of
  writes is inferred from counts.
- The development server, its watcher, its timer and the pages are concurrent:
  messages cross, and streams close late.
- The diagram is held together by names and numbers in several hand-written
  tables (ports, nets, waypoints, codes), and its elements keep what was written
  on them until something else is.

## 2. Modules

| Module | Models | Extends |
|---|---|---|
| `Hazard3Core` | the core, as an environment | - |
| `Probe` | `rtl/hz3_probe.vh` | `Hazard3Core` |
| `RegTracker` | `sim/tracker.h` | - |
| `Soc` | `sim/soc.h`, `sim/vl_hooks.cpp`, the calls of `sim/bridge.cpp` | `Probe`, `RegTracker` |
| `RegisterView` | the abstract promise: a register's value, write count and write cycle are one observation | - |
| `SocProperties` | what the SoC owes its hosts, and the mapping to `RegisterView` | `Soc` |
| `SimHost` | a process with several simulators: `createSim`, `loadRuntime`, `dispose`, one fault record | - |
| `Timeline` | `buildTimeline` | - |
| `Reconstruction` | an unbroken record, with the truth beside it | `Probe`, `Timeline` |
| `Traces` | `validateTrace`, `writeEvents`, the marks of `cmdBlink` | - |
| `Recording` | the recording loops of the command line; a file of lines, with the truth beside it | `Reconstruction`, `RegTracker`, `Traces` |
| `TimelinePanel` | the reservation table and the handlers that feed it | `Probe`, `Timeline` |
| `RegisterBlink` | `core/blink.ts` and the attributes of `panels/registers.ts` | `RegTracker` |
| `App` | the page: handlers, keys, the program menu, run loop, loads, fetches, faults | - |
| `Datapath` | the parts, ports and nets of `model/datapath.ts`, and `validateDatapath` | - |
| `Layout` | `layout/*`: boxes, anchors, waypoints, `route`, `validateLayout` | `Datapath` |
| `Display` | `computeDisplay`, the encodings it decodes, and the rows of `panels/status.ts` | - |
| `Diagram` | the mounted scene, repainted from snapshots of a core that forwards, together with `RegisterBlink` | `Display`, `Layout` |
| `RunPacing` | cycles per frame against the chosen speed | - |
| `Rv32` | the encoders of `core/rv32.ts` | - |
| `Decode` | `disasm` | - |
| `Assembler` | `class Program`, the built-in programs, and their words read back | `Rv32`, `Decode` |
| `DevServer` | live reload: watcher, timer, streams, pages | - |
| `*Proofs` | the theorems | |
| `MC*` | values for TLC | |

**The core is external.** `Hazard3Core` presents arbitrary signals every cycle,
held only to rules the code here relies on: an instruction is used only if there
is one and M can take it; only a used instruction retires; the write enable is
low for x0 and for a bubble; accesses are aligned; after a reset the pipeline is
empty and the first address phase is a fetch or nothing. Real programs are a
small part of what it may do, so what holds here holds for them.

**State and code.** `Soc`'s variables carry the names of the members of
`class Soc`; `aphase` joins the four `aphase_*`, a transfer's `n` is
`1 << hsize`. The state is the machine with the clock low and the logic settled,
as it is between two calls. `Step` is the whole of `Soc::step`; unprimed signals
are sampled before the edge and primed ones after it, as the comments of the
code have it. A call of `run` or `step_instruction` is `Call` and then one
`Iterate` per pass of its loop; nothing else can happen meanwhile. Variables
marked *history* are not in the code: they record what the truth is.

**Simulators.** `Soc` is one machine. `SimHost` is the process around several: the
promise `loadRuntime` remembers, each `createSim` before and after its `await`, and
the fault record of `sim/vl_hooks.cpp`, which is a static of the process. Of a
machine it keeps only when it is reset, clocked or disposed of and the fault that
may raise; `SocProofs` shows that `Soc`'s steps are those of a simulator that is
alone in its process.

**Pages.** A handler is one action. In `TimelinePanel` the handlers' loops take
one action per pass, because the snapshots in between are recorded; in `App` a
handler is atomic and the cycles it clocks are the set `Clocked`. A frame of the
browser is `Frame`, which makes the scheduled callbacks due, followed by one
`Tick` per callback; user actions and fetches come between frames.

**The diagram.** `Diagram` composes four layers. Its core is another environment,
of what the diagram shows: operands come from the instruction in M, from the
M|W register or from the register file, whichever is newest; a load has nothing
to forward yet; stalls, bubbles and redirections come as they like, and an
instruction in M may trap, which keeps the one in X from issuing. What the ALU
computes is the constant operator `Alu`. `Snapshot`
is `Soc::snapshot`, `Display` turns it into attributes, `ApplyDisplay` writes
them together with the pipeline panel's rows, and the instance `Panel` of
`RegisterBlink` is fed by the same cycles. A
text is a tuple of its kind and its contents, so two texts are equal when they read
the same. The scene is built one net at a time, so that TLC looks at each wire in a
state of its own. Points are in 1/600 of a pixel: the anchors are given in
percent and spread in halves, thirds and quarters.

**Traces.** A record of the command line feeds both the timeline and the write
events, so `Recording` takes a pass of the recording loop, of `buildTimeline`, of
`validateTrace` and of `writeEvents` in one step; each of these loops looks at one
snapshot at a time, oldest first. Whether a line is in the file is left open in
every pass: that covers the windows of `--trace-from` and `--trace-to` and a file
that has lost lines since.

**The assembler.** A word is the set of its bits that are one; the encoders put
pieces of an immediate at places of it and `disasm` puts them together again,
each translated from its own file. Registers and CSRs go by name, so that the
tables of names and numbers in both files are part of what is checked. Branches
have to be tried at the ends of their reach, a mebibyte apart: a program is held as
a map of the items that matter and a length, and a run of nops only adds to the
length.

**Live reload.** Everything that travels is delivered by an action of its own: file
events, the expiry of the timer, its callback, reload messages, the news that a
stream has closed. A page is away, loading, asking for its stream, open, or deaf:
`onerror` closes the stream for good. A directory that is not
there or cannot be watched when the server starts (`server/dev.ts:98-108`) is one whose
files are "unwatched": live reload promises nothing about it. Users reload and leave, streams fail and
builds start again whenever they like.

**Left out of these modules:** formats, the value of a timeline cell
beyond its stage, `hz3::Snapshot`'s fields that no property reads, the other
29 registers, the MMIO echo to stdout, and the stale data the core's own bus
state machine may drive.

## 3. Runs

| Run | Checks | What it shows |
|---|---|---|
| `soc` | `TypeOK`, `TrackerAgrees`, `ReadsAttributed`, `ShadowAgrees`, `RetirementSeenInM`, `ViewSpec`, `ReadsCoherent`, `CallStopsInTime`, `BreakpointNeverOverrun`, `OutputDelivered`, `StoppedStateIsKept`, `FaultReported` | what hosts read of registers, M and retirements is what the core did, M shows the instruction that was counted, and the SoC implements `RegisterView`; loads and fetches see the bytes that earlier stores and host loads left, across resets; calls stop where they say, output is delivered once, exit and fault stick; in a process with several simulators a host that resets its own before it uses it is told of its faults |
| `reconstruction` | `NeverComplains`, `OccupancyFaithful`, `TraceTrusted` | the timeline of an unbroken record is right and never complains; a trace passes validation exactly if no line is missing inside it, and then yields the writes it spans, all of them |
| `timeline_panel` | `HistoryOfThisRun`, `HistoryComplete` | the panel's history is of this run, ordered and up to date, has every cycle that was not clocked at full speed, and is bounded |
| `timeline_window` | `NoFalseAlarm` (violated) | see section 6 |
| `register_blink` | `EveryWriteReported`, `NewsIsBright`, `NewestIsBrightest`, `NoSpuriousRestart` | highlights lose no write over skipped cycles and rank by age |
| `app` | `ScreenFaithful`, `NoteFaithful`, `MenuAgrees`, `MovesOnlyWhenLabelled`, `RunAdvances`, `RunEnds`, `OneLoop` | the page through clicks, keys, frames, late and failed fetches and faults |
| `diagram` | `WiresConnect`, `TablesInOrder`, `DarkWiresAreSilent`, `SelectedInputIsLive`, `OperandShownIsNewest`, `GuessIsHarmless`, `RowsMatchDiagram`, `FlashFollowsStrobe` | the tables pass their own validators; wires, muxes, texts, the pipeline rows and the register panel agree in every frame, and with the core |
| `diagram_wires` | `WireFromWShowsTheOperand` (violated) | see section 6 |
| `run_pacing` | `PaceIsBounded` | at every speed on offer a run is never more than half a cycle a frame behind the time that passed, nor more than that ahead but for half a cycle for each frame too short for one |
| `run_pacing_slow` | `SpeedMeansWhatItSays` (violated) | see section 6 |
| `assembler` | `OperandsReadBack`, `TargetsReadBack` | what is assembled is shown as it was written, the built-in programs included; a branch or jump is shown with its label's address up to the last word of its reach |
| `dev_server` | `ToldOfChanges` | a page that was connected when a file changed is reloaded once the build is over |

Each property has a mutant: a plausible bug in a definition that models code
(a signal sampled on the wrong side, a changed value taken for a write, a lost
reset) under which TLC finds the property violated.

### Bounds

- *Core*: two program counters, one register beside x0, two values, a bus two
  bytes wide. A register's history does not depend on another's, and what tells
  instructions apart in the code is equality of addresses, for which two suffice.
- *Foci*: in `soc` and `reconstruction` all parts run together, but each behaviour
  is about one of them (`focus`, chosen at the start) and the others are kept
  simple. In `soc` the pipeline stalls, traps and writes while the bus idles; or
  the bus carries loads, stores and fetches, with the host loading and poking
  memory; or the host calls `run` and `step_instruction` and drains the output of
  a program that prints, exits and faults, its instructions moving through X; or the
  machine rests and the process around it (`SimHost`, whose machines are its own)
  creates, clocks, resets and disposes of simulators. In
  `reconstruction` the pipeline stalls and traps, or it flows and writes while
  lines get lost. The first three meet only in a clock edge, of which each drives its
  own variables; the theorems of section 4 are about all combinations.
- *RAM*: two words, the second so that a store to one and a load of the other
  differ; images that fit, that run past the end, and that are loaded below RAM
  (where `uint32_t` wraps, `AddrSpace`).
- *Cycles* (`MaxCycles`, 3 to 6 since a reset; a reset starts again): a store,
  the load after it and its answer take three edges; an instruction that
  stalls in X, then in M, then retires with another behind it takes five.
- *Budgets* of calls 0 and 2: the loop that does not run, and one whose second
  pass may be stopped or not.
- *SimHost*: three calls of `createSim`, so that one can be pending while two
  simulators disturb each other, and two faults that can be told apart; nothing
  else is bounded.
- *Traces*: six cycles, in each of which a register may be written with either of
  two values and the line may be missing.
- *Assembler*: every mnemonic, over four registers, with the immediates at the ends
  of their fields and in between, and each of the 32 registers once; programs of
  two branches or jumps and two labels around a run of nops that ends just inside
  or just outside the reach, both ways. The base is 2^21 and addresses wrap at
  2^23, as TLC has no 2^31; a program is in the middle of the address space in
  both. In every instance a program ends before the address space does (`Fits`):
  past its end the code counts on in doubles and the core wraps.
- *DevServer*: two pages with two streams each, so that a page can have its new
  stream while the server still holds the old one; two undelivered file events,
  of any kind. A build may write at any time but not while two are pending,
  which delays it and loses nothing.
- `HISTORY` 3 and `WINDOW` 2 for 220 and 60; `StepLimit` 3 for 512: the code only
  compares with them.
- `DecayCycles` 3 for 6: levels are counted in its units, so each of the three
  thresholds of the panel is met.
- *App*: one built-in and one fetched program, one fetch at a time, two
  characters printed, frames of at most two cycles; the cycle counter is kept modulo 3,
  larger than a frame, so that a frame that clocks is always seen. Repeated faults
  can leave any number of callbacks behind; with four handles four can be pending,
  and a request beyond them is dropped.
- *Diagram*: one register beside x0 and two values, so that values are equal by
  chance as often as not; a load, a store, a multiplication and a jump, which
  between them use every mux input, every stall but a fence's and both operand
  slots; four cycles between resets, enough for a write to be forwarded from M,
  then from W, then read back from the register file; a trap may be taken of any
  valid instruction in M; the ALU adds, modulo 2. The tables of the model
  and the layout are the whole tables of the code.
- *RunPacing*: the four speeds of the page; times in tenths of a millisecond, for
  displays of 120, 60 and 30 Hz and one frame after a long wait, in any order, four
  frames a run with the speed changed in between. Frames too short for a cycle and
  frames of hundreds occur in one run. The theorem covers all others.

`CHECK_DEADLOCK FALSE` is set where the system stops: a record ends at
`MaxCycles` (`reconstruction`), and a page whose simulator cannot be loaded
shows the error and does nothing more (`App`). In `soc` a process that has
disposed of all its simulators is told from one that is stuck by `Over`.

### Fairness

`App` and `DevServer` state liveness. In `App`, `WF_vars(Frame)` and `WF_vars(Ticks)`: a visible
page that has asked for an animation frame gets one, and the browser calls every
callback of a frame. A hidden page gets none, and then the run stands still, by
the browser's design; `RunAdvances` and `RunEnds` speak of the visible page.
Nothing is assumed of users, the network, the program or the model: they may do
nothing for ever, or act at every opportunity.

In `DevServer`, the system delivers file events (`Watched`), a timer expires
(`Ripen`) and its callback runs (`Notify`), and a message on an open stream
arrives (`Message`). A server that keeps being interrupted by new events need
never get to `Notify`: that is the debounce, and `ToldOfChanges` speaks of builds
that end. Nothing is assumed of builds, users, the network or of when the server
learns that a stream has closed.

## 4. Proofs

Every theorem holds for all values of the constants that satisfy the modules'
assumptions (`CoreAssumption`, `SocAssumption`, ...), which say what the code's
own constants say: RAM lies below the MMIO block, is a whole number of words,
x0 exists, a transfer fits the bus.

**`SocProofs`.** `TypeCorrect` goes by one lemma per operation. Everything a
clock edge does to the tracker is collected once, in `StepActivity`, which says
per register what a step does to its entry; `TrackerFaithful`, `ReadsFaithful`
and the refinement `ImplementsRegisterView` follow from it. `NextCases` divides
the steps into those that clock, those that reset and those that leave the
machine alone, so an invariant about the machine needs three cases, not eight.
`ShadowFaithful` is inductive with the core's own rule for write strobes.
`RetirementsAreSeen` needs `UsedIsTaken`: what the decoder uses M can take, so the
pulse that is counted and the instruction that the shadow takes in belong to one edge.
`ReadsAreCoherent` needs `BusInv`: the
captured address phase is the one on the bus, and RAM is what the history of
stores says; neither is visible in the property. `CallsStopInTime` and
`BreakpointIsPrecise` come from `CallInv`, which
says of a call that has clocked a cycle that none of its reasons to stop holds.
The last section is about `SimHost`. `OneSimulatorOfItsHost` is a refinement: each
step of `Soc` is one of a lone simulator or leaves its fault alone, which
justifies the one fault variable of `Soc` and `App`. `HostInv` adds to `FaultReported` what makes it inductive, and says that how often
the module has been instantiated follows from the promise, which leaves `null` once.
`FaultsAreReported` follows for any number of simulators, and so does
`OneInstanceServesAll`: however many calls of `createSim` wait at the same time, there
is one instance of the module and no simulator without it.

**`ReconstructionProofs`.** `NeverComplains` is about warnings only and is not
inductive. `InStep` says why there are none: after each snapshot `current` is the
row of the instruction in X, `prev` is what the machine is about to do, and
`inM` is the row of the instruction the shadow names. `AbsorbKeeps` shows that a
pass of the loop preserves it. `RowsAreInstructions` says that the rows that issued
are the instructions that left X, one for one. A row has no number of its own among
them, only a place, so `Counted` compares cardinalities: the row of the instruction
in M has as many issued rows up to it as that instruction has predecessors.
`TracesAreTrusted` is about files: `CommitsCounted` ties the counters of the machine
to the commits, `ScanRight` says that the last line read has the counts of the
commits up to its cycle and that the events so far are the commits after the first
line. The cases of a pass are a skipped line (`SkippedKeepsScan`), the first
line of a file (`FirstLine`), and the next one (`NextLine`), after a gap or not.
`RecordingsAreRuns` lets the first two theorems speak of recordings too.

**`RegisterBlinkProofs`.** `BlinkInv`: the counts remembered plus what no frame
has seen make up each register's writes, the cells show the last frame's
highlights, and a register no frame has reported has not been written.
`PaintShows` turns it into what a frame draws, and the four properties follow.

**`RunPacingProofs`.** `PaceKept` holds for any speeds whose quarter of a second is
within the limit of a tick (`PacingAssumption`; the fastest takes 500 cycles of
20000) and for frames of any length. `BudgetOf` says what a frame is given: the rounded
number of cycles, which errs by at most half of one either way, or one cycle if the
frame is worth less than half; that one is what `short` counts, and what
`SpeedMeansWhatItSays` does not allow. Between frames of a run no time is left over
(`NothingLeftOver`).

**`TimelinePanelProofs`.** `HistoryIsOfThisRun` and `HistoryIsComplete` from one
invariant, `PanelInv`. A loop at full speed lets the history fall behind and
records the machine when it ends, so `PanelInv` says which loops may lag
(`runFast` only) and why the machine has been clocked by then; a program that has
exited before the first cycle would break it, and cannot be. `PushShape`,
`PushSound` and `PushAccounts` are the three things a push does: what the history
becomes, that it stays one of this run, and what falls out of it.

**`AppProofs`.** `PageInv` is the page's promise in every state: what is shown is
what the machine says, with no output waiting. It is inductive because a handler
is one action that ends in a paint; the work is in the cycles a handler clocks,
the set `Clocked`, which is defined by a recursive function. `ClockedIs` proves
that the function exists and `ClockedKeeps` that what one cycle keeps any number
keeps. The library's induction theorems take an operator and cannot be used
here; `SetInduction` says the same of a set of numbers and needs only that the
naturals are well-founded. `LoopIsOne` needs `Single`: the one callback that may be
left is the one whose handle the page holds, and no callback is scheduled while
one is due; a fault breaks it (section 6), hence the condition of `OneLoop`.

**`DiagramProofs`.** Two ideas. `OneFrame`: the attributes are the fresh ones or
those of a single consistent snapshot, because a repaint writes every element, and
so `DarkWiresSayNothing`, `SelectionIsLive` and `RowsAgreeWithDiagram` are facts
about the tables, one entry after another; `EndsOfNets` and `MuxDrivers` say which
net ends at which input of a mux, over all the nets there are. `CoreInv`: what the
M|W register still holds has reached the register file, and X's operands are the
ones its select lines name; with it `OperandsShownAreNewest` and
`GuessShowsOperand` hold for every ALU, every instruction set and any number of
registers. `PanelIsRegisterBlink` shows that the panel beside the diagram is the
module `RegisterBlink`, so that `BlinkInv` may be used here, and
`FlashesAreDrawnWrites` then needs `StrobeInv` alone: a write drawn in one frame is
the news of the next.

The wires are proved in two steps. `RouteConnects` is about `route()` alone, for
any two ports on any faces, any waypoints and any canvas: a wire runs from its port
to its port in horizontal and vertical pieces and stays on the canvas, provided the
ends of the two stubs and the waypoints do. A `Line` is a sequence of points each
aligned with the one before; `LinesJoin` puts two of them together, `DogLegTurns` and
`ViaPathTurns` say that each kind of middle is one, and `SimplifyKeepsLines` that
dropping repeated and collinear points leaves one, by `SetInduction` over the points
taken in so far (`KeepGoesOn` is the step). `WiresRunTrue` adds what the page's own
tables say: every net joins an output to an input (`NetsJoinPorts`), every port of
them is on a face of a box (`PortsOnFaces`), a box leaves room for the stubs of its
ports wherever they sit on the face (`StubsOnCanvas`) and the waypoints are on the
canvas; `PathInv` says that what the scene drew last are the wires of one net.
`TablesAreInOrder` is a fact about those tables only, set by set as the two
validators compute them: `DrivenOnce`, `EveryPortIsJoined` and `BoxesApart` are
the ones with some content.

**`AssemblerProofs`.** From bits to programs. `FieldIs` is the lemma everything
rests on: if the bits of a word from `at` up are those of `v` from `lo` up, the
decoder's field is `(v \div 2^lo) % 2^n`. It is an induction over the bits of the
field, bounded by the width of the widest (`BoundedInduction`), with `LastBit` for
the step; `Field` is a recursive function for its sake. `RTypeFields` to
`JTypeFields` then say what each format's fields are, `Pieces` puts a scattered
offset together again and `SignExtended12`, `13` and `21` restore its sign, so that
each class of instructions reads back (`ArithmeticReadsBack`, `LoadReadsBack`,
..., `BranchReadsBack`, `JalReadsBack`) for all registers, immediates and offsets of
`WellFormed` and `InReach`; the tables of the two files are compared entry by entry.
`AssembledIsKept` is about the program: `AsmInv` says that what was returned is what
the items encode to with the labels returned with it, whatever is added or relabelled
later, and that a label is the address of a place in the program, hence even and
within the address space. `OperandsAreReadBack` and `TargetsAreReadBack` follow, at
any base, for any labels and programs of any length.

Only model-checked: the liveness of `App` and `DevServer` (`RunAdvances`, `RunEnds`,
`ToldOfChanges`), which is out of the prover's reach. Every other property of a
passing run is stated by a theorem. What differs between the two is the instance:
TLC's runs fix the constants, and the tables of the diagram are constants of the
code, the same for both.

## 5. Hazards and properties

`PROJECT.json` lists each hazard at its line with the properties that would
catch it. Those without a property, and why:

- Two loads racing: `load` goes on after its fetch whatever happened since. The
  screen stays consistent (`ScreenFaithful`, `NoteFaithful` and `MenuAgrees` are
  checked through it), but the machine may then hold a program other than
  `currentId`. No document says which should
  win.
- A failed fetch has already changed `currentId`.
- The drop-down keeps a choice made before the simulator was ready, which
  `onAction` ignored: it is modelled (`Choose`), and `MenuAgrees` says only that
  menu and program, once they agree, are not parted.
- The pipeline panel says "No stall: an instruction issues this cycle" when no
  stall bit is up, which is also so when a trap is entered: see section 6.
- Memory is not cleared by a load or a reset; `App` abstracts what it holds.
- Several calls of `createSim` wait for one runtime: `OneInstanceServesAll` is a theorem
  about it and no run's property. A runtime that failed to load once stays failed
  (`Settle`, `Reject`), and no document says that a later call should try again.
- A file that changes after a page has fetched it and before the page's stream is
  open is not told to it (`web/index.html:48-53`), nor is anything after the
  stream has failed: `DevServer` has both, and `ToldOfChanges` leaves them out,
  since nothing says otherwise.
- A branch beyond its reach is encoded with an offset cut to its field, and then
  shown with the address it really goes to (`core/rv32.ts:44-47`): `Assembler` has
  such programs, and `TargetsReadBack` is about those within reach.

## 6. Where the code and its comments disagree

With a run:

1. *The reservation table accuses the model* (`timeline_window`). Only the last
   60 snapshots are drawn, and `buildTimeline` starts each time as if M had
   been empty. When an instruction is in M at the edge of the window, the table
   shows "timeline disagreed with the model". The comment above it says that
   means the diagram is out of step with the core; it is not.
2. *The wire of a forward from W* (`diagram_wires`): the mux takes the core's M|W
   register, the wire shows `s.m.result`, which belongs to the instruction now in
   M. `model/datapath.ts:268` takes the two for the same value.
3. *Slow speeds run at the display's rate* (`run_pacing_slow`): a frame clocks at least
   one cycle (`viz/app.ts:241`), so on a 60 Hz display 1, 4 (the default) and 20 Hz
   are all 60, though "the chosen speed means what it says" (`229`). `PaceIsBounded`
   bounds how far a run gets ahead because of it.

Seen while modelling, without a run of their own:

- *Simulators share their fault*: `fault()` of each is said to tell of a fault "from
  inside the model" (`core/sim.ts:109`) and returns the one record of the process,
  which constructing or resetting any of them clears (`sim/vl_hooks.cpp:68`). The
  page, the command line and the tests have one simulator each; `FaultReported` says
  what holds with more.
- *Two loops after a fault*: `tick` asks for a frame after `paint` has stopped the
  run for a fault (`viz/app.ts:251-260`); a reset and a run before that frame
  leave two loops, each reading the other's `lastTick`, though the display is
  said to be painted once per frame (`viz/app.ts:229-230`). `OneLoop` holds up to a
  fault and no further.
- Memory is not cleared by a load, although the comment there says a fresh image
  needs it (`viz/app.ts:153-154`, `sim/soc.h:71-76`).
- `simplify` drops a waypoint at which a wire would turn back on itself
  (`wb_waddr`, `wb_wen`, `hz_selA`, `hz_selB`, `result_sel` and the taps of the
  hazard unit), though waypoints are "corners the wire must pass through"
  (`layout/types.ts:48`).
- The result mux of X shows the ALU in the very cycle a multiplication's result
  leaves X, since only a stall tells it the sequential unit is in use
  (`model/bindings.ts:134`, `145`).
- Stepping an instruction records its last snapshot twice
  (`viz/app.ts:208-209`, `266`), and full speed records one in many (`252`); the
  argument of `buildTimeline` is documented as contiguous (`core/timeline.ts:46`).
- In the cycle a trap is taken no stall cause is up, and yet nothing issues
  (`rtl/hz3_probe.vh:69`); the panel then claims that an instruction does
  (`viz/panels/status.ts:109`).
- The menu shows a program other than the one loaded when it is chosen before the
  simulator is ready (`viz/app.ts:167-169`): nothing sets it back.
- An even number of writes between two frames leaves `data-blink` as it was,
  though it is said to change on every write (`panels/registers.ts:103-104`).
- `RegBlink.read` is documented as read "this cycle" (`core/blink.ts:97`) and is
  true for one cycle more.
- The loops of the page and of the command line (`cli/hz3.ts:117`, `155`, `186`)
  and the trace loop of `sim/main.cpp` do not look at the fault that
  `sim/vl_hooks.cpp:100-103` says callers check. After a run that a fault has
  stopped, `hz3 run` exits with 0 (`cli/hz3.ts:144`) and `hz3_sim` reports an
  exhausted budget (`sim/main.cpp`).
- "The server watches the directories the page loads from" (`server/dev.ts:79-80`):
  it watches `dist` and `web` (`97`), and the page also loads the simulator from
  `build` and a program from `programs`. A rebuilt simulator reloads nothing.
- The server tells a page to reconnect after a second (`server/dev.ts:139`); the page
  closes its stream at the first error (`web/index.html:55`), so one that was
  connected when the server restarted is never reloaded again.
- "Every cycle at which a given register was written, from a trace"
  (`core/trace.ts:63`): not a write in the cycle of the first line, which a trace
  that begins late may have; `cmdBlink` then also judges its first event against a
  value of 0 (`cli/hz3.ts:215`).

## 7. Plan

Done: the core's environment, the probe, the SoC, the tracker with its abstract
view, the process of several simulators, the timeline and its panel, the register
highlights, the page, the pacing, the diagram from its tables to its attributes,
traces, the assembler with its disassembler, and live reload; proofs of every
safety property that a run checks.

Not modelled, and not planned: build scripts and CI, the C programs, the options
and files of the command line, static serving, shapes (`render/shapes.ts`), labels
and the other texts, which hold no state and decide nothing.
