------------------------------- MODULE Decode -------------------------------
(***************************************************************************)
(* disasm (src/core/decode.ts).  A text is a tuple of the mnemonic and the *)
(* operands in the order they are written; addresses and immediates are    *)
(* numbers, registers and CSRs names.                                      *)
(***************************************************************************)
EXTENDS Integers, Sequences, TLC

CONSTANT AddrSpace   \* addresses wrap here (2^32)

ABI_NAMES == <<"zero", "ra", "sp", "gp", "tp", "t0", "t1", "t2",
               "s0", "s1", "a0", "a1", "a2", "a3", "a4", "a5",
               "a6", "a7", "s2", "s3", "s4", "s5", "s6", "s7",
               "s8", "s9", "s10", "s11", "t3", "t4", "t5", "t6">>

regName(n) == ABI_NAMES[n + 1]

Null == "null"

\* By funct3.
BRANCH  == <<"beq", "bne", Null, Null, "blt", "bge", "bltu", "bgeu">>
LOAD    == <<"lb", "lh", "lw", Null, "lbu", "lhu">>
STORE   == <<"sb", "sh", "sw">>
OPIMM   == <<"addi", "slli", "slti", "sltiu", "xori", Null, "ori", "andi">>
OP      == <<"add", "sll", "slt", "sltu", "xor", "srl", "or", "and">>
MULDIV  == <<"mul", "mulh", "mulhsu", "mulhu", "div", "divu", "rem", "remu">>
CSR_OPS == <<Null, "csrrw", "csrrs", "csrrc", Null, "csrrwi", "csrrsi", "csrrci">>

CSR_NAMES ==
  [mstatus |-> 768, mie |-> 772, mtvec |-> 773, mcountinhibit |-> 800,
   mscratch |-> 832, mepc |-> 833, mcause |-> 834, mtval |-> 835, mip |-> 836,
   mcycle |-> 2816, minstret |-> 2818,
   mvendorid |-> 3857, marchid |-> 3858, mimpid |-> 3859, mhartid |-> 3860]

CsrName(n) ==
  IF \E name \in DOMAIN CSR_NAMES : CSR_NAMES[name] = n
  THEN CHOOSE name \in DOMAIN CSR_NAMES : CSR_NAMES[name] = n
  ELSE ToString(n)

Mnemonic(names, f3) == IF f3 < Len(names) THEN names[f3 + 1] ELSE Null

\* n bits of a word from bit `at` up, as a number: the top i of them, one by one.
Field(w, at, n) ==
  LET top[i \in 0..n] ==
        IF i = 0 THEN 0 ELSE 2 * top[i - 1] + (IF at + n - i \in w THEN 1 ELSE 0)
  IN  top[n]

sx(v, bits) == IF v >= 2^(bits - 1) THEN v - 2^bits ELSE v

iImm(w) == sx(Field(w, 20, 12), 12)
sImm(w) == sx(Field(w, 25, 7) * 32 + Field(w, 7, 5), 12)
bImm(w) == sx(Field(w, 31, 1) * 4096 + Field(w, 7, 1) * 2048
                + Field(w, 25, 6) * 32 + Field(w, 8, 4) * 2, 13)
jImm(w) == sx(Field(w, 31, 1) * 1048576 + Field(w, 12, 8) * 4096
                + Field(w, 20, 1) * 2048 + Field(w, 21, 10) * 2, 21)
uImm(w) == Field(w, 12, 20)

\* Anything it does not know is a .word, also a funct3 that its table has not.
Disasm(w, pc) ==
  LET op == Field(w, 0, 7)
      f3 == Field(w, 12, 3)
      f7 == Field(w, 25, 7)
      rs1 == Field(w, 15, 5)
      rd  == regName(Field(w, 7, 5))
      r1  == regName(rs1)
      r2  == regName(Field(w, 20, 5))
      Address(imm) == (pc + imm) % AddrSpace
      Word == <<".word", w>>
      Named(name, text) == IF name = Null THEN Word ELSE text
  IN  CASE op = 55  -> <<"lui", rd, uImm(w)>>
        [] op = 23  -> <<"auipc", rd, uImm(w)>>
        [] op = 111 -> IF rd = "zero" THEN <<"j", Address(jImm(w))>>
                       ELSE <<"jal", rd, Address(jImm(w))>>
        [] op = 103 -> IF rd = "zero" /\ r1 = "ra" /\ iImm(w) = 0 THEN <<"ret">>
                       ELSE <<"jalr", rd, iImm(w), r1>>
        [] op = 99  -> IF r2 = "zero" /\ f3 = 0 THEN <<"beqz", r1, Address(bImm(w))>>
                       ELSE IF r2 = "zero" /\ f3 = 1 THEN <<"bnez", r1, Address(bImm(w))>>
                       ELSE LET n == Mnemonic(BRANCH, f3)
                            IN  Named(n, <<n, r1, r2, Address(bImm(w))>>)
        [] op = 3   -> LET n == Mnemonic(LOAD, f3) IN Named(n, <<n, rd, iImm(w), r1>>)
        [] op = 35  -> LET n == Mnemonic(STORE, f3) IN Named(n, <<n, r2, sImm(w), r1>>)
        [] op = 19  -> IF w = {0, 1, 4} THEN <<"nop">>
                       ELSE IF f3 = 0 /\ r1 = "zero" THEN <<"li", rd, iImm(w)>>
                       ELSE IF f3 = 0 /\ iImm(w) = 0 THEN <<"mv", rd, r1>>
                       ELSE IF f3 = 1 THEN <<"slli", rd, r1, Field(w, 20, 5)>>
                       ELSE IF f3 = 5 THEN <<IF 30 \in w THEN "srai" ELSE "srli",
                                             rd, r1, Field(w, 20, 5)>>
                       ELSE LET n == Mnemonic(OPIMM, f3) IN Named(n, <<n, rd, r1, iImm(w)>>)
        [] op = 51  -> IF f7 = 1 THEN <<MULDIV[f3 + 1], rd, r1, r2>>
                       ELSE IF f7 = 32 THEN <<IF f3 = 0 THEN "sub" ELSE "sra", rd, r1, r2>>
                       ELSE <<OP[f3 + 1], rd, r1, r2>>
        [] op = 15  -> IF f3 = 1 THEN <<"fence.i">> ELSE <<"fence">>
        [] op = 115 -> IF w \in {{0, 1, 4, 5, 6}, {0, 1, 4, 5, 6, 20}}
                         THEN <<IF 20 \in w THEN "ebreak" ELSE "ecall">>
                       ELSE IF w = {0, 1, 4, 5, 6, 21, 28, 29} THEN <<"mret">>
                       ELSE LET n == Mnemonic(CSR_OPS, f3)
                                csr == CsrName(Field(w, 20, 12))
                            IN  Named(n, <<n, rd, csr, IF f3 >= 5 THEN rs1 ELSE r1>>)
        [] OTHER    -> Word
=============================================================================
