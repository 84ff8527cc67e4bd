---------------------------- MODULE MCAssembler -----------------------------
(***************************************************************************)
(* Programs of one plain instruction, of a few branches and jumps around   *)
(* one run of nops, and the built-in ones.  An instruction's word does not *)
(* depend on its neighbours unless it names a label.                       *)
(***************************************************************************)
EXTENDS Assembler

Regs == {"zero", "ra", "s1", "t6"}
Imms == {-2048, -1, 0, 1, 31, 1365, 2047}

Instructions ==
  ({"addi", "andi", "ori", "xori", "lw", "lbu", "sw", "sb", "jalr"} \X Regs \X Regs \X Imms)
    \cup ({"slli", "srli"} \X Regs \X Regs \X {0, 1, 31})
    \cup ((DOMAIN Op) \X Regs \X Regs \X Regs)
    \cup ((DOMAIN Upper) \X Regs \X {0, 1, 524288, 1048575})
    \cup ((DOMAIN Csr) \X Regs \X (DOMAIN CSR) \X Regs)
    \cup ({"csrrwi"} \X Regs \X (DOMAIN CSR) \X {0, 1, 31})
    \cup {<<"add", r, r, r>> : r \in DOMAIN X}
    \cup {<<"ecall">>}

SomeKinds == {<<"beq", "s1", "zero">>, <<"bne", "t6", "ra">>, <<"bgeu", "zero", "s1">>}

\* Around the reach of a branch, 1024 instructions, and of a jump, 262144.
AroundReach == {1, 513, 1022, 1023, 262142, 262143}

OnlyReferences == \A i \in DOMAIN items : Refers(items[i]) \/ items[i] = Park

MCNext ==
  \/ size = 0 /\ labels = <<>> /\ \E ins \in Plain : Add(ins)
  \/ /\ OnlyReferences
     /\ \/ size = Cardinality(DOMAIN items) /\ \E n \in Runs : AddNops(n)
        \/ \E name \in Labels : Label(name)
        \/ \E kind \in Kinds, target \in Labels : AddBranch(kind, target)
        \/ \E rd \in Links, target \in Labels : AddJal(rd, target)
        \/ AddPark
  \/ Assemble

MCSpec == Init /\ [][MCNext]_vars
=============================================================================
