----------------------------- MODULE MCDiagram -----------------------------
(***************************************************************************)
(* A small instance of the diagram: one register beside x0, two values.    *)
(***************************************************************************)
EXTENDS Diagram

Front(pc, busy) ==
  [f |-> [pc |-> pc, jumpReq |-> ~busy, cirVld |-> busy], iReq |-> busy, iDphReady |-> busy]

\* A front end that fetches, and one that has just been redirected.
TwoFetches == {Front(0, TRUE), Front(1, FALSE)}

Instr(rs1, rs2, rd, srcA, srcB, unit, memOp, jump) ==
  [rs1 |-> rs1, rs2 |-> rs2, rd |-> rd, srcA |-> srcA, srcB |-> srcB, unit |-> unit,
   memOp |-> memOp, jump |-> jump, pc |-> 1, imm |-> 1]

SomeInstructions ==
  {Instr(1, 1, 1, "reg", "reg", "muldiv", "none", FALSE),   \* a multiplication
   Instr(1, 0, 1, "reg", "imm", "alu", "load", FALSE),      \* a load
   Instr(0, 1, 0, "reg", "imm", "alu", "store", FALSE),     \* a store
   Instr(0, 0, 1, "pc", "imm", "alu", "none", TRUE)}        \* jal

AddBits(a, b) == (a + b) % 2

OneStale == Instr(1, 0, 0, "reg", "imm", "alu", "none", FALSE)

=============================================================================
