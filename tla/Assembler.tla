----------------------------- MODULE Assembler ------------------------------
(***************************************************************************)
(* class Program (src/core/rv32.ts) and the page's built-in programs       *)
(* (src/viz/programs.ts), read back by disasm.  A program is long and      *)
(* mostly nops where branches have to reach far, so `items` holds only     *)
(* what is not a nop put in by AddNops.                                    *)
(***************************************************************************)
EXTENDS Rv32, Decode, FiniteSets

CONSTANTS
  Base,        \* where the program goes
  Labels,      \* label names
  Plain,       \* instructions without a label
  Kinds,       \* branches, with their registers
  Links,       \* jal's destinations
  Runs,        \* lengths of a run of nops
  MaxItems     \* bound of the model: items that are not nops of a run

Names == DOMAIN X

\* Immediates that fit their fields.
Imm12 == -2048..2047
Imm5  == 0..31
Imm20 == 0..2^20 - 1

\* Instructions without a label whose operands fit.
WellFormed ==
  (((DOMAIN OpImm \ {"slli", "srli"}) \cup DOMAIN Load \cup DOMAIN Store \cup {"jalr"})
     \X Names \X Names \X Imm12)
    \cup ({"slli", "srli"} \X Names \X Names \X Imm5)
    \cup ((DOMAIN Op) \X Names \X Names \X Names)
    \cup ((DOMAIN Upper) \X Names \X Imm20)
    \cup ((DOMAIN Csr) \X Names \X (DOMAIN CSR) \X Names)
    \cup ({"csrrwi"} \X Names \X (DOMAIN CSR) \X Imm5)
    \cup {<<"ecall">>}

\* The built-in programs fit where they go.
ASSUME AssemblerAssumption ==
  /\ Base \in Nat /\ AddrSpace \in Nat
  /\ Base + 64 <= AddrSpace
  /\ Runs \subseteq Nat /\ MaxItems \in Nat
  /\ Plain \subseteq WellFormed
  /\ Kinds \subseteq (DOMAIN Branch) \X Names \X Names
  /\ Links \subseteq Names

VARIABLES
  items,     \* the emitters, by their place
  size,      \* items.length
  labels,    \* pending: label name to address
  program    \* what assemble() returned last

vars == <<items, size, labels, program>>

AddressOf(i) == Base + 4 * i
Pc == AddressOf(size)

Refers(item) == item[1] \in DOMAIN Branch \cup {"jal"}
Target(item) == item[Len(item)]

NoProgram == [words |-> <<>>, labels |-> <<>>]

-----------------------------------------------------------------------------
(* The built-in programs: their items, and labels by place.                *)

Addi(rd, rs1, imm) == <<"addi", rd, rs1, imm>>
Nop  == Addi("zero", "zero", 0)
Park == <<"park">>

Examples ==
  [forwarding |->
     [items  |-> <<Addi("t0", "zero", 1), Addi("t1", "t0", 1), Addi("t2", "t1", 1),
                   <<"add", "a0", "t2", "t1">>, <<"add", "a1", "a0", "t2">>,
                   <<"sub", "a2", "a1", "a0">>, Park>>,
      labels |-> <<>>],
   loaduse |->
     [items  |-> <<<<"lui", "sp", 526336>>, Addi("t0", "zero", 42), <<"sw", "t0", "sp", 0>>,
                   Nop, Nop, Nop, Nop, <<"lw", "t1", "sp", 0>>, <<"add", "t2", "t1", "t1">>,
                   Addi("a0", "t2", 1), Park>>,
      labels |-> <<>>],
   muldiv |->
     [items  |-> <<Addi("t0", "zero", 1000), Addi("t1", "zero", 7),
                   <<"mul", "t2", "t0", "t1">>, Addi("a0", "t2", 1), Park>>,
      labels |-> <<>>],
   branch |->
     [items  |-> <<Addi("t0", "zero", 5), Addi("t1", "zero", 0), Addi("t1", "t1", 3),
                   Addi("t0", "t0", -1), <<"bne", "t0", "zero", "loop">>,
                   Addi("a0", "t1", 0), Park>>,
      labels |-> [loop |-> 2]],
   samevalue |->
     [items  |-> <<Addi("t0", "zero", 7), Addi("t0", "zero", 7), Addi("t0", "zero", 7),
                   <<"add", "t1", "zero", "zero">>, <<"add", "t1", "zero", "zero">>,
                   <<"add", "t1", "zero", "zero">>, Park>>,
      labels |-> <<>>],
   counters |->
     [items  |-> <<<<"csrrwi", "zero", "mcountinhibit", 0>>, Addi("t0", "zero", 1),
                   Addi("t1", "zero", 2), <<"add", "t2", "t0", "t1">>,
                   <<"mul", "a0", "t2", "t2">>, Park>>,
      labels |-> <<>>]]

Built(e) ==
  /\ items = [i \in 0..Len(e.items) - 1 |-> e.items[i + 1]]
  /\ size = Len(e.items)
  /\ labels = [l \in DOMAIN e.labels |-> AddressOf(e.labels[l])]

-----------------------------------------------------------------------------

\* An empty Program, or one that a built-in program has filled.
Init ==
  /\ \/ items = <<>> /\ size = 0 /\ labels = <<>>
     \/ \E id \in DOMAIN Examples : Built(Examples[id])
  /\ program = NoProgram

\* Bound of the model: a program does not run past the end of the address space.
Fits(n) == AddressOf(size + n) < AddrSpace

Add(item) ==
  /\ Cardinality(DOMAIN items) < MaxItems /\ Fits(1)
  /\ items' = [i \in DOMAIN items \cup {size} |-> IF i = size THEN item ELSE items[i]]
  /\ size' = size + 1
  /\ UNCHANGED <<labels, program>>

AddNops(n) == Fits(n) /\ size' = size + n /\ UNCHANGED <<items, labels, program>>

\* The last of two labels of a name is the one that counts.
Label(name) ==
  /\ labels' = [l \in DOMAIN labels \cup {name} |-> IF l = name THEN Pc ELSE labels[l]]
  /\ UNCHANGED <<items, size, program>>

AddBranch(kind, target) == Add(<<kind[1], kind[2], kind[3], target>>)
AddJal(rd, target) == Add(<<"jal", rd, target>>)
AddPark == Add(Park)

WordOf(i) ==
  IF Refers(items[i]) THEN EncodeReference(items[i], labels[Target(items[i])] - AddressOf(i))
  ELSE Encode(items[i])

\* requireLabel throws over a label that is nowhere, and then nothing is
\* returned.  The Program can be added to and assembled again.
Assemble ==
  /\ \A i \in DOMAIN items : Refers(items[i]) => Target(items[i]) \in DOMAIN labels
  /\ program' = [words |-> [i \in DOMAIN items |-> WordOf(i)], labels |-> labels]
  /\ UNCHANGED <<items, size, labels>>

Next ==
  \/ \E ins \in Plain : Add(ins)
  \/ \E n \in Runs : AddNops(n)
  \/ \E name \in Labels : Label(name)
  \/ \E kind \in Kinds, target \in Labels : AddBranch(kind, target)
  \/ \E rd \in Links, target \in Labels : AddJal(rd, target)
  \/ AddPark
  \/ Assemble

Spec == Init /\ [][Next]_vars

-----------------------------------------------------------------------------

\* The instruction that a text with an alias in it stands for.
Meaning(t) ==
  CASE t[1] = "nop"  -> Nop
    [] t[1] = "li"   -> Addi(t[2], "zero", t[3])
    [] t[1] = "mv"   -> Addi(t[2], t[3], 0)
    [] t[1] = "ret"  -> <<"jalr", "zero", "ra", 0>>
    [] t[1] = "j"    -> <<"jal", "zero", t[2]>>
    [] t[1] = "beqz" -> <<"beq", t[2], "zero", t[3]>>
    [] t[1] = "bnez" -> <<"bne", t[2], "zero", t[3]>>
    [] t[1] \in DOMAIN Load \cup DOMAIN Store \cup {"jalr"} -> <<t[1], t[2], t[4], t[3]>>
    [] OTHER -> t

ReadBack(i) == Meaning(Disasm(program.words[i], AddressOf(i)))

\* Whatever is assembled without a label, the built-in programs included, is
\* shown as it was written: no operand, sign, register or CSR changes between the
\* tables of rv32.ts and those of decode.ts.
OperandsReadBack ==
  \A i \in DOMAIN program.words :
    ~Refers(items[i]) =>
      ReadBack(i) = IF items[i] = Park THEN <<"beq", "zero", "zero", AddressOf(i)>>
                    ELSE items[i]

InReach(item, offset) ==
  IF item[1] = "jal" THEN -(2^20) <= offset /\ offset < 2^20 ELSE -4096 <= offset /\ offset < 4096

\* A branch or jump to a label within its reach, before or behind it, is shown
\* with that label's address: the page names the address the core will go to.
TargetsReadBack ==
  \A i \in DOMAIN program.words :
    /\ Refers(items[i])
    /\ InReach(items[i], program.labels[Target(items[i])] - AddressOf(i))
    => ReadBack(i) = [items[i] EXCEPT ![Len(items[i])] = program.labels[Target(items[i])]]
=============================================================================
