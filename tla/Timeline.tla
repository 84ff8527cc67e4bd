------------------------------ MODULE Timeline ------------------------------
(***************************************************************************)
(* buildTimeline (src/core/timeline.ts): stage occupancy per instruction,  *)
(* rebuilt from snapshots alone.  A timeline here is the state of its loop *)
(* between two snapshots; rows are named by their index, NoRow is null.    *)
(* What a cell's letter adds to its stage, stalled or not, is left out.    *)
(***************************************************************************)
EXTENDS Integers, Sequences

NoRow  == 0
NoPrev == [stall |-> TRUE, issue |-> FALSE, owner |-> NoRow]

\* Before the first snapshot.  `prev` is null there, which holds M still as a
\* stall does.
NoTimeline == [rows |-> <<>>, current |-> NoRow, inM |-> NoRow, prev |-> NoPrev,
               warnings |-> {}]

NewRow(pc) == [pc |-> pc, done |-> FALSE, inX |-> {}, inM |-> {}]

\* Mutant: M is handed the next instruction even while it is stalled.
InMDespiteStall(t) == IF t.prev.issue THEN t.prev.owner ELSE NoRow

\* M takes what X issued a snapshot ago, or a bubble, unless it was stalled.
InM(t) ==
  IF t.prev.stall THEN t.inM
  ELSE IF t.prev.issue THEN t.prev.owner
  ELSE NoRow

Warnings(t, s) ==
  {w \in {"wrong", "untracked"} :
     /\ s.m.valid
     /\ IF w = "wrong" THEN InM(t) # NoRow /\ t.rows[InM(t)].pc # s.m.pc
                       ELSE InM(t) = NoRow}

\* Mutant: an instruction is new only if its address is.
StartsRowByAddress(t, s) ==
  /\ s.x.valid
  /\ t.current = NoRow \/ t.rows[t.current].pc # s.x.pc

\* X holds a new instruction if it was empty, its address changed, or the one
\* before has issued.
StartsRow(t, s) ==
  /\ s.x.valid
  /\ \/ t.current = NoRow
     \/ t.rows[t.current].pc # s.x.pc
     \/ t.rows[t.current].done

Rows(t, s) == IF StartsRow(t, s) THEN Append(t.rows, NewRow(s.x.pc)) ELSE t.rows

Owner(t, s) ==
  IF ~s.x.valid THEN NoRow
  ELSE IF StartsRow(t, s) THEN Len(t.rows) + 1
  ELSE t.current

Touched(t, s) ==
  [r \in 1..Len(Rows(t, s)) |->
     [pc   |-> Rows(t, s)[r].pc,
      done |-> Rows(t, s)[r].done \/ (r = Owner(t, s) /\ s.x.issue),
      inX  |-> IF r = Owner(t, s) THEN Rows(t, s)[r].inX \cup {s.cycle}
                                  ELSE Rows(t, s)[r].inX,
      inM  |-> IF r = InM(t) THEN Rows(t, s)[r].inM \cup {s.cycle}
                             ELSE Rows(t, s)[r].inM]]

\* One pass of the loop.
Absorb(t, s) ==
  [rows     |-> Touched(t, s),
   current  |-> Owner(t, s),
   inM      |-> InM(t),
   prev     |-> [stall |-> s.m.stall, issue |-> s.x.issue, owner |-> Owner(t, s)],
   warnings |-> t.warnings \cup Warnings(t, s)]
=============================================================================
