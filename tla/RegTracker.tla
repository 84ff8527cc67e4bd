----------------------------- MODULE RegTracker -----------------------------
(***************************************************************************)
(* hz3::RegTracker (sim/tracker.h): the write and read history of every    *)
(* register, kept from the write strobe and never by comparing values.     *)
(* Operators over the table `act`; the SoC owns the table.                 *)
(***************************************************************************)
EXTENDS Integers

NEVER == -1

\* RegActivity{}: a register nothing has touched since the reset.
Untouched == [writes |-> 0, lastWriteCycle |-> NEVER,
              lastReadCycle |-> NEVER, lastWriteValue |-> 0]

Activity(V) == [writes : Nat, lastWriteCycle : Nat \cup {NEVER},
                lastReadCycle : Nat \cup {NEVER}, lastWriteValue : V]

ResetActivity(R) == [r \in R |-> Untouched]

\* Mutant: a write is noticed by comparing values.
NoteChange(act, rd, value, cycle) ==
  IF rd = 0 \/ value = act[rd].lastWriteValue THEN act
  ELSE [act EXCEPT ![rd] = [writes         |-> act[rd].writes + 1,
                            lastWriteCycle |-> cycle,
                            lastReadCycle  |-> act[rd].lastReadCycle,
                            lastWriteValue |-> value]]

\* A write of the value already there counts like any other; x0 never counts.
NoteWrite(act, rd, value, cycle) ==
  IF rd = 0 THEN act
  ELSE [act EXCEPT ![rd] = [writes         |-> act[rd].writes + 1,
                            lastWriteCycle |-> cycle,
                            lastReadCycle  |-> act[rd].lastReadCycle,
                            lastWriteValue |-> value]]

NoteRead(act, rs, cycle) ==
  IF rs = 0 THEN act
  ELSE [act EXCEPT ![rs].lastReadCycle = cycle]
=============================================================================
