---------------------------- MODULE RegisterBlink ----------------------------
(***************************************************************************)
(* The register panel between frames: BlinkTracker (src/core/blink.ts)     *)
(* turns the tracker's write counts into highlights, RegisterPanel         *)
(* (src/viz/panels/registers.ts) puts them on the cells.  The machine runs *)
(* any number of cycles between two frames.  Levels are counted in units   *)
(* of 1 / DecayCycles, so that a full highlight is DecayCycles.            *)
(***************************************************************************)
EXTENDS RegTracker

CONSTANTS
  Reg, Val,
  DecayCycles, ReadDecayCycles,   \* BlinkOptions: 6 and 2
  MaxCycles                       \* bound of the model: cycles between loads

ASSUME BlinkAssumption ==
  /\ 0 \in Reg /\ Reg \subseteq Nat
  /\ DecayCycles \in Nat \ {0} /\ ReadDecayCycles \in Nat \ {0}
  /\ MaxCycles \in Nat

VARIABLES
  cycle, regs,     \* the machine: Soc::cycles and its RegTracker table
  prevWrites,      \* BlinkTracker: the counts of the last frame, or NoFrame
  prevCycle,
  blinks,          \* what update() returned last
  cells,           \* the attributes of the panel's cells
  unseen,          \* history: writes since the last frame
  reported         \* history: writes reported by the frames since the load

machineVars == <<cycle, regs>>
panelVars   == <<prevWrites, prevCycle, blinks, cells>>
vars == <<machineVars, panelVars, unseen, reported>>

Null    == -1   \* prevWrites === null, for each register; a missing attribute
NoFrame == [r \in Reg |-> Null]
Dark    == [writesDelta |-> 0, level |-> 0, parity |-> 0, read |-> FALSE]

-----------------------------------------------------------------------------
(* regBlink                                                                *)

\* Mutant: the ramp alone, which has forgotten a write many cycles old.
RampOnly(delta, ramp) == ramp

\* Mutant: novelty counts only once the ramp has run out.
RampFirst(delta, ramp) == IF ramp = 0 /\ delta > 0 THEN DecayCycles ELSE ramp

\* The stronger of novelty and recency.
Brightness(delta, ramp) == IF delta > 0 THEN DecayCycles ELSE ramp

\* decayLevel of an event at the given cycle.
Decay(event, now, span) ==
  IF event = NEVER \/ now - event < 0 \/ now - event >= span THEN 0 ELSE span - (now - event)

Delta(writes, prev) ==
  IF prev = Null \/ writes < prev THEN 0 ELSE writes - prev

\* Mutant: any access of the register flips it.
ParityOfAccess(a) == (a.lastWriteCycle + a.lastReadCycle) % 2

Parity(a) == a.writes % 2

RegBlink(a, now, prev) ==
  [writesDelta |-> Delta(a.writes, prev),
   level  |-> Brightness(Delta(a.writes, prev), Decay(a.lastWriteCycle, now, DecayCycles)),
   parity |-> Parity(a),
   read   |-> Decay(a.lastReadCycle, now, ReadDecayCycles) > 0]

-----------------------------------------------------------------------------
(* RegisterPanel.update                                                    *)

DataLevel(level) ==
  IF level = 0 THEN 0
  ELSE IF level * 100 > 66 * DecayCycles THEN 3
  ELSE IF level * 100 > 33 * DecayCycles THEN 2
  ELSE 1

Cell(b) ==
  [dataLevel |-> DataLevel(b.level),
   dataRead  |-> b.read,
   dataBlink |-> IF b.level > 0 THEN b.parity ELSE Null]

-----------------------------------------------------------------------------
(* BlinkTracker.update, and paint                                          *)

\* Mutant: the counts of the first frame are kept as the reference.
RememberFirst(prev, table) ==
  IF prev = NoFrame THEN [r \in Reg |-> table[r].writes] ELSE prev

Remember(prev, table) == [r \in Reg |-> table[r].writes]

\* A frame drawn from the given machine, tracker and history of reports.
Frame(now, table, prev, sofar) ==
  /\ blinks' = [r \in Reg |-> RegBlink(table[r], now, prev[r])]
  /\ cells' = [r \in Reg |-> Cell(blinks'[r])]
  /\ prevWrites' = Remember(prev, table)
  /\ prevCycle' = now
  /\ unseen' = [r \in Reg |-> 0]
  /\ reported' = [r \in Reg |-> sofar[r] + blinks'[r].writesDelta]

Zero == [r \in Reg |-> 0]

Init ==
  /\ cycle = 0 /\ regs = ResetActivity(Reg)
  /\ prevWrites = NoFrame /\ prevCycle = -1
  /\ blinks = [r \in Reg |-> Dark] /\ cells = [r \in Reg |-> Cell(Dark)]
  /\ unseen = Zero /\ reported = Zero

\* A cycle of the machine: at most one write, of any value, and X's operands.
Cycle(rd, v, rs1, rs2) ==
  /\ prevWrites # NoFrame      \* the page is painted before anything is clocked
  /\ cycle < MaxCycles
  /\ cycle' = cycle + 1
  /\ regs' = NoteRead(NoteRead(NoteWrite(regs, rd, v, cycle + 1), rs1, cycle + 1),
                      rs2, cycle + 1)
  /\ unseen' = [r \in Reg |-> IF r = rd /\ r # 0 THEN unseen[r] + 1 ELSE unseen[r]]
  /\ UNCHANGED <<panelVars, reported>>

\* A cycle count that went backwards drops the history.
Paint ==
  /\ Frame(cycle, regs, IF cycle < prevCycle THEN NoFrame ELSE prevWrites, reported)
  /\ UNCHANGED machineVars

\* load() and Reset: the machine restarts, BlinkTracker.reset, and a paint.
Load ==
  /\ cycle' = 0 /\ regs' = ResetActivity(Reg)
  /\ Frame(0, ResetActivity(Reg), NoFrame, Zero)

Next ==
  \/ \E rd \in Reg, v \in Val, rs1 \in Reg, rs2 \in Reg : Cycle(rd, v, rs1, rs2)
  \/ Paint
  \/ Load

Spec == Init /\ [][Next]_vars

-----------------------------------------------------------------------------

\* Skipped cycles lose nothing: what the frames since the load reported and what
\* no frame has seen yet make up every write there was (BlinkTracker).
EveryWriteReported ==
  \A r \in Reg : reported[r] + unseen[r] = regs[r].writes

\* A register written since the last frame is drawn at full brightness, however
\* many cycles ago that was (docs/probe.md, "the maximum").
NewsIsBright ==
  [][Paint => \A r \in Reg : unseen[r] > 0 => cells'[r].dataLevel = 3]_vars

\* No register is drawn brighter than the one written last: what is lit for its
\* novelty is never older than what is lit for its age.
NewestIsBrightest ==
  [][Paint => \A r, s \in Reg :
       regs[r].lastWriteCycle >= regs[s].lastWriteCycle
         => blinks'[r].level >= blinks'[s].level]_vars

\* The animation restarts only for a register written since the last frame: a
\* repaint, a read or another register's write never restarts it
\* (panels/registers.ts:103-104, "never otherwise").
NoSpuriousRestart ==
  [][Paint => \A r \in Reg :
       cells'[r].dataBlink \notin {cells[r].dataBlink, Null} => unseen[r] > 0]_vars
=============================================================================
