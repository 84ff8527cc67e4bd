---------------------------- MODULE TimelinePanel ----------------------------
(***************************************************************************)
(* The reservation table on the page (src/viz/panels/timeline.ts) and the  *)
(* ways src/viz/app.ts feeds it: every handler that clocks the machine and *)
(* records some of the snapshots it goes through.  A handler runs to its   *)
(* end before the next; its loop is one action per pass.                   *)
(***************************************************************************)
EXTENDS Probe, Timeline, SequencesExt

CONSTANTS
  HISTORY, WINDOW,   \* snapshots kept, snapshots drawn
  Clients,           \* the handlers in use: "stepCycle", "stepInstruction",
                     \* "run" (60 Hz or slower) and "runFast"
  StepLimit,         \* passes of stepInstructionRecording (512)
  Budgets,           \* cycles a frame of the run loop may clock, at least 1
  MaxCycles          \* bound of the model: cycles clocked since a load

ASSUME PanelAssumption ==
  /\ HISTORY \in Nat \ {0} /\ WINDOW \in 1..HISTORY
  /\ StepLimit \in Nat \ {0} /\ Budgets \subseteq Nat \ {0}

VARIABLES
  cycles, exited,
  history,    \* TimelinePanel.history
  table,      \* the timeline last drawn
  loop,       \* the handler that is running and the passes it has left
  past,       \* history: the snapshot of every cycle since the load
  skipped     \* history: the cycles clocked at full speed since the load

panelVars == <<cycles, exited, history, table, loop, past, skipped>>
vars == <<coreVars, shadow, panelVars>>

Snapshot == [cycle |-> cycles,
             x |-> [valid |-> x.valid, pc |-> x.pc, issue |-> Issue],
             m |-> [valid |-> shadow.valid, pc |-> shadow.pc, stall |-> m.stall]]

BuildTimeline(snapshots) == FoldLeft(Absorb, NoTimeline, snapshots)

LastOf(s, n) == SubSeq(s, IF Len(s) > n THEN Len(s) - n + 1 ELSE 1, Len(s))

\* Mutant: the oldest snapshot is dropped by the cycle it was taken in.
PushSinceLast(h, s) ==
  SelectSeq(Append(h, s), LAMBDA old : old.cycle > s.cycle - HISTORY)

Push(h, s) == LastOf(Append(h, s), HISTORY)

Render(h) == BuildTimeline(LastOf(h, WINDOW))

NoLoop == [op |-> "none"]

Init ==
  /\ ProbedInit
  /\ cycles = 0 /\ exited = FALSE
  /\ history = <<>> /\ table = NoTimeline
  /\ loop = NoLoop
  /\ past = <<>> /\ skipped = {}

\* One stepCycle(); the program may ask to exit in any cycle.
Clock ==
  /\ cycles < MaxCycles
  /\ ProbedEdge
  /\ cycles' = cycles + 1
  /\ exited' \in IF exited THEN {TRUE} ELSE BOOLEAN
  /\ past' = Append(past, Snapshot')

\* onAction("stepCycle"): paint records, then draws.
StepCycle ==
  /\ loop = NoLoop /\ "stepCycle" \in Clients
  /\ Clock
  /\ history' = Push(history, Snapshot')
  /\ table' = Render(history')
  /\ UNCHANGED <<loop, skipped>>

StepInstruction ==
  /\ loop = NoLoop /\ "stepInstruction" \in Clients
  /\ cycles + StepLimit <= MaxCycles
  /\ loop' = [op |-> "stepInstruction", left |-> StepLimit]
  /\ UNCHANGED <<coreVars, shadow, cycles, exited, history, table, past, skipped>>

\* stepInstructionRecording: each pass records; the last one paints as well,
\* and paint records the same snapshot.
StepInstructionPass ==
  /\ loop.op = "stepInstruction"
  /\ Clock
  /\ IF x.ret \/ exited' \/ loop.left = 1
       THEN /\ history' = Push(Push(history, Snapshot'), Snapshot')
            /\ table' = Render(history')
            /\ loop' = NoLoop
       ELSE /\ history' = Push(history, Snapshot')
            /\ loop' = [loop EXCEPT !.left = @ - 1]
            /\ UNCHANGED table
  /\ UNCHANGED skipped

\* A frame of the run loop, with the cycles it may clock.
Tick(n) ==
  /\ loop = NoLoop
  /\ cycles + n <= MaxCycles
  /\ \E op \in {"run", "runFast"} \cap Clients : loop' = [op |-> op, left |-> n]
  /\ UNCHANGED <<coreVars, shadow, cycles, exited, history, table, past, skipped>>

TickPass ==
  /\ loop.op \in {"run", "runFast"} /\ loop.left > 0 /\ ~exited
  /\ Clock
  /\ history' = IF loop.op = "run" THEN Push(history, Snapshot') ELSE history
  /\ skipped' = IF loop.op = "runFast" THEN skipped \cup {cycles'} ELSE skipped
  /\ loop' = [loop EXCEPT !.left = @ - 1]
  /\ UNCHANGED table

\* Mutant: at full speed nothing is recorded.
TickPaintsOnly ==
  /\ loop.op \in {"run", "runFast"} /\ (loop.left = 0 \/ exited)
  /\ table' = Render(history)
  /\ loop' = NoLoop
  /\ UNCHANGED <<coreVars, shadow, cycles, exited, history, past, skipped>>

\* The end of tick: at full speed only the tail is recorded.
TickPaints ==
  /\ loop.op \in {"run", "runFast"} /\ (loop.left = 0 \/ exited)
  /\ history' = IF loop.op = "runFast" THEN Push(history, Snapshot) ELSE history
  /\ table' = Render(history')
  /\ loop' = NoLoop
  /\ UNCHANGED <<coreVars, shadow, cycles, exited, past, skipped>>

\* load() and Reset: the machine restarts, the panel is cleared, and the paint
\* that follows does not record.
Load ==
  /\ loop = NoLoop
  /\ ProbedReset
  /\ cycles' = 0 /\ exited' = FALSE /\ past' = <<>> /\ skipped' = {}
  /\ history' = <<>> /\ table' = NoTimeline
  /\ UNCHANGED loop

Next ==
  \/ StepCycle
  \/ StepInstruction
  \/ StepInstructionPass
  \/ \E n \in Budgets : Tick(n)
  \/ TickPass
  \/ TickPaints
  \/ Load

Spec == Init /\ [][Next]_vars

-----------------------------------------------------------------------------

\* However stepping, running and loading alternate, every snapshot kept is one
\* this run went through since its load, oldest first, and the machine's present
\* one is the last of them whenever a handler returns (TimelinePanel.push).
HistoryOfThisRun ==
  /\ \A i \in 1..Len(history) :
       /\ history[i].cycle \in 1..cycles
       /\ history[i] = past[history[i].cycle]
       /\ i > 1 => history[i - 1].cycle <= history[i].cycle
  /\ loop = NoLoop /\ cycles > 0 => Len(history) > 0 /\ Last(history) = Snapshot

\* No cycle clocked below full speed is missing, whichever handler clocked it,
\* until HISTORY newer snapshots have pushed it out, repeats counted; and no more
\* than that are kept (TimelinePanel.push).
HistoryComplete ==
  /\ Len(history) <= HISTORY
  /\ \A c \in 1..cycles \ skipped :
       \/ \E i \in 1..Len(history) : history[i].cycle = c
       \/ Len(history) = HISTORY /\ c < history[1].cycle

\* panels/timeline.ts:90-92: a complaint means the table is out of step with the
\* core.  It never is here, whose shadow is right, so none may appear.
NoFalseAlarm == table.warnings = {}
=============================================================================
