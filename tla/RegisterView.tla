---------------------------- MODULE RegisterView ----------------------------
(***************************************************************************)
(* What the register panel is promised (docs/probe.md, sections 2 and 3):  *)
(* the value of a register, the number of writes to it and the cycle of    *)
(* the last one are one observation.  A write shows up as a whole, in the  *)
(* cycle in which its value does, and every write shows up.                *)
(***************************************************************************)
EXTENDS Integers

CONSTANTS
  Register,   \* the registers on the panel
  Value,      \* their contents
  Never       \* the cycle of a write that has not happened

VARIABLES cycle, value, writes, lastWrite

viewVars == <<cycle, value, writes, lastWrite>>

Blank ==
  /\ cycle = 0
  /\ value = [r \in Register |-> 0]
  /\ writes = [r \in Register |-> 0]
  /\ lastWrite = [r \in Register |-> Never]

Written(r, v) ==
  /\ value' = [value EXCEPT ![r] = v]
  /\ writes' = [writes EXCEPT ![r] = writes[r] + 1]
  /\ lastWrite' = [lastWrite EXCEPT ![r] = cycle + 1]

\* A clock cycle writes at most one register.
Tick ==
  /\ cycle' = cycle + 1
  /\ \/ UNCHANGED <<value, writes, lastWrite>>
     \/ \E r \in Register, v \in Value : Written(r, v)

\* A reset forgets everything at once.
Forget ==
  /\ cycle' = 0
  /\ value' = [r \in Register |-> 0]
  /\ writes' = [r \in Register |-> 0]
  /\ lastWrite' = [r \in Register |-> Never]

ViewSpec == Blank /\ [][Tick \/ Forget]_viewVars
=============================================================================
