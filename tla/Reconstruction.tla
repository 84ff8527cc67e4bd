--------------------------- MODULE Reconstruction ---------------------------
(***************************************************************************)
(* A machine recorded from its reset, cycle by cycle, and the timeline     *)
(* rebuilt from the record.  buildTimeline runs over the finished list; as *)
(* it looks at one snapshot at a time, oldest first, its loop is taken in  *)
(* step with the machine here.                                             *)
(***************************************************************************)
EXTENDS Probe, Timeline, FiniteSets

CONSTANT MaxCycles   \* bound of the model: cycles recorded

VARIABLES
  cycles,
  timeline,   \* buildTimeline's state after the snapshot of this cycle
  truth,      \* history: per instruction that left X, its pc and its cycles in M
  holder      \* history: the entry of truth that the core has in M

recordVars == <<cycles, timeline, truth, holder>>
vars == <<coreVars, shadow, recordVars>>

\* The part of Soc::snapshot the timeline reads.
Snapshot == [cycle |-> cycles,
             x |-> [valid |-> x.valid, pc |-> x.pc, issue |-> Issue],
             m |-> [valid |-> shadow.valid, pc |-> shadow.pc, stall |-> m.stall]]

\* A record starts after the first step; the state before it, looked at here as
\* well, holds no instruction and adds no row.  It may end at any cycle.
Init ==
  /\ ProbedInit
  /\ cycles = 0
  /\ timeline = Absorb(NoTimeline, Snapshot)
  /\ truth = <<>> /\ holder = NoRow

\* The instruction that leaves X enters M, and stays until M lets go of it.
HeldInM(t, h, c) ==
  [i \in 1..Len(t) |-> [t[i] EXCEPT !.inM = IF i = h THEN @ \cup {c} ELSE @]]

Entering == ~m.stall /\ x.use /\ ~m.trapSoon

Truth ==
  /\ holder' = IF Entering THEN Len(truth) + 1 ELSE IF m.stall THEN holder ELSE NoRow
  /\ truth' = HeldInM(IF Entering THEN Append(truth, [pc |-> x.pc, inM |-> {}]) ELSE truth,
                      holder', cycles + 1)

Record ==
  /\ cycles < MaxCycles
  /\ ProbedEdge
  /\ cycles' = cycles + 1
  /\ timeline' = Absorb(timeline, Snapshot')
  /\ Truth

Next == Record
Spec == Init /\ [][Next]_vars

-----------------------------------------------------------------------------

\* The reconstruction derives the contents of M independently of the probe's
\* shadow and never disagrees with it over an unbroken record, whatever stalls,
\* bubbles, traps and repeated addresses the run holds (timeline.ts, warnings).
NeverComplains == timeline.warnings = {}

\* The rows that have issued, and the place of one of them among these.
Issued   == {r \in DOMAIN timeline.rows : timeline.rows[r].done}
Place(r) == Cardinality({q \in Issued : q <= r})

\* The instruction in X that issues this very cycle has not left X yet.
HasLeftX(r) == r \in Issued /\ Place(r) <= Len(truth)

\* The rows that issued are the instructions that left X, one row each and in
\* order, and a row is drawn in M exactly in the cycles its instruction was there:
\* through stalls, traps, bubbles and loops that meet the same address again
\* (timeline.ts, rows).
OccupancyFaithful ==
  /\ Cardinality(Issued) = Len(truth) + (IF Issue THEN 1 ELSE 0)
  /\ \A r \in DOMAIN timeline.rows :
       /\ HasLeftX(r) => timeline.rows[r].pc = truth[Place(r)].pc
       /\ timeline.rows[r].inM = IF HasLeftX(r) THEN truth[Place(r)].inM ELSE {}
=============================================================================
