----------------------------- MODULE Recording ------------------------------
(***************************************************************************)
(* A trace of a run, and what is read back from it.  collect and cmdTrace  *)
(* (src/cli/hz3.ts) and the trace loop of sim/main.cpp clock the machine   *)
(* once per line; --trace-from and --trace-to leave lines out at the ends, *)
(* and a file read back later may have lost lines in between.              *)
(***************************************************************************)
EXTENDS Reconstruction, RegTracker, Traces

VARIABLES
  regs, retired,   \* the machine: the RegTracker table and Soc::retired
  scan,            \* validateTrace and writeEvents, over the lines of the file
  lines,           \* history: the cycles the file has a line of, in order
  commits          \* history: per register, the writes the core has committed

recordingVars == <<vars, regs, retired, scan, lines, commits>>

\* The part of Soc::snapshot that traces are read for.
Line == [cycle   |-> cycles,
         retired |-> retired,
         regs    |-> [r \in Reg |-> [writes |-> regs[r].writes, value |-> regfile[r]]]]

Commit == [cycle |-> cycles + 1, value |-> m.result, writes |-> wrote[m.rd] + 1,
           unchanged |-> m.result = regfile[m.rd]]

RecordingInit ==
  /\ Init
  /\ regs = ResetActivity(Reg) /\ retired = 0
  /\ scan = NoScan(Reg)
  /\ lines = <<>> /\ commits = [r \in Reg |-> <<>>]

\* One pass of a recording loop, whose line is in the file or is not.
Pass(kept) ==
  /\ Record
  /\ regs' = IF m.wen THEN NoteWrite(regs, m.rd, m.result, cycles + 1) ELSE regs
  /\ retired' = IF x.ret THEN retired + 1 ELSE retired
  /\ scan' = IF kept THEN Scan(scan, Line') ELSE scan
  /\ lines' = IF kept THEN Append(lines, cycles + 1) ELSE lines
  /\ commits' = IF m.wen THEN [commits EXCEPT ![m.rd] = Append(@, Commit)] ELSE commits

RecordingNext == \E kept \in BOOLEAN : Pass(kept)

RecordingSpec == RecordingInit /\ [][RecordingNext]_recordingVars

-----------------------------------------------------------------------------

Unbroken == \A i \in 1..Len(lines) - 1 : lines[i + 1] = lines[i] + 1

\* The writes of a register up to a cycle, and those the lines span: the first
\* line only tells what the next are compared with.
Until(r, cycle) == Cardinality({i \in DOMAIN commits[r] : commits[r][i].cycle <= cycle})
Spanned(r) == SubSeq(commits[r], Until(r, lines[1]) + 1, Until(r, lines[Len(lines)]))

Plain(c) == [cycle |-> c.cycle, value |-> c.value, writes |-> c.writes]

\* A trace passes validateTrace exactly if no line is missing between its first
\* and its last, and from one that passes writeEvents recovers every write after
\* its first line, those of an unchanged value included, with cycle, value and
\* count; a trace that begins with the run also tells which left the value as it
\* was (core/trace.ts, cmdBlink).
TraceTrusted ==
  /\ scan.problems = {} <=> Unbroken
  /\ Unbroken /\ lines # <<>> =>
       \A r \in Reg :
         LET read == scan.events[r]
         IN  /\ read = [i \in DOMAIN Spanned(r) |-> Plain(Spanned(r)[i])]
             /\ lines[1] = 1 =>
                  \A i \in DOMAIN read : MarkedUnchanged(read, i) = Spanned(r)[i].unchanged
=============================================================================
