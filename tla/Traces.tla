------------------------------- MODULE Traces -------------------------------
(***************************************************************************)
(* What the command line makes of a list of snapshots: validateTrace and   *)
(* writeEvents (src/core/trace.ts), and the marks that cmdBlink            *)
(* (src/cli/hz3.ts) puts on the events.  Their loops look at one snapshot  *)
(* and the one before it, so a scan here is their state between two lines. *)
(* A line is [cycle, retired, regs], a register in it [writes, value];     *)
(* lines that are no snapshots at all are left out.                        *)
(***************************************************************************)
EXTENDS Integers, Sequences

NoLine == [cycle |-> -1]   \* prev and prevWrites are null

NoScan(R) == [prev |-> NoLine, problems |-> {}, events |-> [r \in R |-> <<>>]]

\* validateTrace, on a line and the one before it.
Problems(prev, s) ==
  {p \in {"gap", "retired", "writes"} :
     \/ p = "gap" /\ s.cycle # prev.cycle + 1
     \/ p = "retired" /\ s.retired < prev.retired
     \/ p = "writes" /\ \E r \in DOMAIN s.regs : s.regs[r].writes < prev.regs[r].writes}

\* Mutant: an event is a register whose value has changed.
ChangeIn(prev, s, r) == s.regs[r].value # prev.regs[r].value

\* writeEvents: the write count is what makes a line an event.
WriteIn(prev, s, r) == s.regs[r].writes > prev.regs[r].writes

Event(s, r) == [cycle |-> s.cycle, value |-> s.regs[r].value, writes |-> s.regs[r].writes]

\* One line; the first only serves as the one before the second.
Scan(t, s) ==
  IF t.prev = NoLine THEN [t EXCEPT !.prev = s]
  ELSE [prev     |-> s,
        problems |-> t.problems \cup Problems(t.prev, s),
        events   |-> [r \in DOMAIN t.events |->
                        IF WriteIn(t.prev, s, r) THEN Append(t.events[r], Event(s, r))
                                                 ELSE t.events[r]]]

\* cmdBlink calls an event unchanged if it carries the value of the event before
\* it, and takes a register for zero before its first.
MarkedUnchanged(events, i) ==
  events[i].value = IF i = 1 THEN 0 ELSE events[i - 1].value
=============================================================================
