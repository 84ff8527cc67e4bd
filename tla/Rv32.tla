-------------------------------- MODULE Rv32 --------------------------------
(***************************************************************************)
(* The encoders of src/core/rv32.ts.  An instruction is a tuple, its       *)
(* mnemonic and then the arguments of the source's function of that name,  *)
(* registers and CSRs by name.  A word is the set of its bits that are     *)
(* one; an immediate is an integer, cut to its field as the code cuts it.  *)
(***************************************************************************)
EXTENDS Integers, TLC

X == [zero |-> 0, ra |-> 1, sp |-> 2, gp |-> 3, tp |-> 4,
      t0 |-> 5, t1 |-> 6, t2 |-> 7, s0 |-> 8, s1 |-> 9,
      a0 |-> 10, a1 |-> 11, a2 |-> 12, a3 |-> 13, a4 |-> 14, a5 |-> 15, a6 |-> 16, a7 |-> 17,
      s2 |-> 18, s3 |-> 19, s4 |-> 20, s5 |-> 21, s6 |-> 22, s7 |-> 23, s8 |-> 24, s9 |-> 25,
      s10 |-> 26, s11 |-> 27, t3 |-> 28, t4 |-> 29, t5 |-> 30, t6 |-> 31]

CSR == [mstatus |-> 768, mtvec |-> 773, mcountinhibit |-> 800,
        mepc |-> 833, mcause |-> 834, mcycle |-> 2816, minstret |-> 2818]

\* n bits of v from bit lo up, put at bit `at` of a word.
Put(v, lo, n, at) == {at + i : i \in {j \in 0..n - 1 : (v \div 2^(lo + j)) % 2 = 1}}

rType(funct7, rs2, rs1, funct3, rd, opcode) ==
  Put(funct7, 0, 7, 25) \cup Put(rs2, 0, 5, 20) \cup Put(rs1, 0, 5, 15)
    \cup Put(funct3, 0, 3, 12) \cup Put(rd, 0, 5, 7) \cup Put(opcode, 0, 7, 0)

iType(imm, rs1, funct3, rd, opcode) ==
  Put(imm, 0, 12, 20) \cup rType(0, 0, rs1, funct3, rd, opcode)

\* Mutant: the immediate in one piece, where an I-type has it.
sTypeAsI(imm, rs2, rs1, funct3, opcode) ==
  Put(imm, 0, 7, 25) \cup rType(0, rs2, rs1, funct3, 0, opcode) \cup Put(imm, 7, 5, 7)

sType(imm, rs2, rs1, funct3, opcode) ==
  Put(imm, 5, 7, 25) \cup Put(imm, 0, 5, 7) \cup rType(0, rs2, rs1, funct3, 0, opcode)

bType(imm, rs2, rs1, funct3, opcode) ==
  Put(imm, 12, 1, 31) \cup Put(imm, 5, 6, 25) \cup Put(imm, 1, 4, 8) \cup Put(imm, 11, 1, 7)
    \cup rType(0, rs2, rs1, funct3, 0, opcode)

\* imm is the part of the argument above its low twelve bits.
uType(imm, rd, opcode) == Put(imm, 0, 20, 12) \cup rType(0, 0, 0, 0, rd, opcode)

\* Mutant: bits 19 to 12 of the offset left where they are, one place off.
jTypeInOrder(imm, rd, opcode) ==
  Put(imm, 20, 1, 31) \cup Put(imm, 1, 10, 21) \cup Put(imm, 11, 8, 12)
    \cup Put(imm, 19, 1, 20) \cup rType(0, 0, 0, 0, rd, opcode)

jType(imm, rd, opcode) ==
  Put(imm, 20, 1, 31) \cup Put(imm, 1, 10, 21) \cup Put(imm, 11, 1, 20)
    \cup Put(imm, 12, 8, 12) \cup rType(0, 0, 0, 0, rd, opcode)

\* funct3, and before it funct7 where there is one.
OpImm  == [addi |-> 0, andi |-> 7, ori |-> 6, xori |-> 4, slli |-> 1, srli |-> 5]
Op     == [add |-> <<0, 0>>, sub |-> <<32, 0>>, and |-> <<0, 7>>, or |-> <<0, 6>>,
           xor |-> <<0, 4>>, sltu |-> <<0, 3>>, mul |-> <<1, 0>>, mulh |-> <<1, 1>>,
           div |-> <<1, 4>>, divu |-> <<1, 5>>, remu |-> <<1, 7>>]
Load   == [lw |-> 2, lbu |-> 4]
Store  == [sw |-> 2, sb |-> 0]
Csr    == [csrrw |-> 1, csrrs |-> 2]
Branch == [beq |-> 0, bne |-> 1, blt |-> 4, bge |-> 5, bltu |-> 6, bgeu |-> 7]
Upper  == [lui |-> 55, auipc |-> 23]

\* The word of an instruction that names no label.
Encode(ins) ==
  LET op == ins[1]
      R(i) == X[ins[i]]
  IN  CASE op \in DOMAIN OpImm -> iType(ins[4], R(3), OpImm[op], R(2), 19)
        [] op \in DOMAIN Op    -> rType(Op[op][1], R(4), R(3), Op[op][2], R(2), 51)
        [] op \in DOMAIN Upper -> uType(ins[3], R(2), Upper[op])
        [] op \in DOMAIN Load  -> iType(ins[4], R(3), Load[op], R(2), 3)
        [] op \in DOMAIN Store -> sType(ins[4], R(2), R(3), Store[op], 35)
        [] op = "jalr"         -> iType(ins[4], R(3), 0, R(2), 103)
        [] op \in DOMAIN Csr   -> iType(CSR[ins[3]], R(4), Csr[op], R(2), 115)
        [] op = "csrrwi"       -> iType(CSR[ins[3]], ins[4], 5, R(2), 115)
        [] op = "ecall"        -> Put(115, 0, 7, 0)
        [] op = "park"         -> bType(0, 0, 0, 0, 99)

\* The word of a branch or jump at an offset from its target.
EncodeReference(ins, offset) ==
  IF ins[1] = "jal" THEN jType(offset, X[ins[2]], 111)
  ELSE bType(offset, X[ins[3]], X[ins[2]], Branch[ins[1]], 99)
=============================================================================
