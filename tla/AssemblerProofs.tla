-------------------------- MODULE AssemblerProofs ---------------------------
(***************************************************************************)
(* What is assembled is shown as it was written: for every program that    *)
(* fits the address space, every operand that fits its field and every     *)
(* label within reach.                                                     *)
(***************************************************************************)
EXTENDS Assembler, TLAPS

-----------------------------------------------------------------------------
(* Bits.  No field begins or ends beyond bit 21 of its value.              *)

LEMMA Powers ==
  /\ 2^0 = 1 /\ 2^1 = 2 /\ 2^2 = 4 /\ 2^3 = 8 /\ 2^4 = 16 /\ 2^5 = 32 /\ 2^6 = 64
  /\ 2^7 = 128 /\ 2^8 = 256 /\ 2^9 = 512 /\ 2^10 = 1024 /\ 2^11 = 2048 /\ 2^12 = 4096
  /\ 2^13 = 8192 /\ 2^14 = 16384 /\ 2^15 = 32768 /\ 2^16 = 65536 /\ 2^17 = 131072
  /\ 2^18 = 262144 /\ 2^19 = 524288 /\ 2^20 = 1048576 /\ 2^21 = 2097152
BY SMT

Doubles(k) == 2^k \in Nat \ {0} /\ 2^(k + 1) = 2 * 2^k

LEMMA Doubling ==
  ASSUME NEW k \in 0..20
  PROVE  Doubles(k)
<1>1. Doubles(0) /\ Doubles(1) /\ Doubles(2) /\ Doubles(3)
  BY Powers DEF Doubles
<1>2. Doubles(4) /\ Doubles(5) /\ Doubles(6) /\ Doubles(7) /\ Doubles(8)
  BY Powers DEF Doubles
<1>3. Doubles(9) /\ Doubles(10) /\ Doubles(11) /\ Doubles(12) /\ Doubles(13)
  BY Powers DEF Doubles
<1>4. Doubles(14) /\ Doubles(15) /\ Doubles(16) /\ Doubles(17)
  BY Powers DEF Doubles
<1>5. Doubles(18) /\ Doubles(19) /\ Doubles(20)
  BY Powers DEF Doubles
<1> QED
  BY <1>1, <1>2, <1>3, <1>4, <1>5

LEMMA PowerIsPositive ==
  ASSUME NEW k \in 0..21
  PROVE  2^k \in Nat \ {0}
<1>1. CASE k = 21
  BY <1>1, Powers
<1>2. CASE k \in 0..20
  BY <1>2, Doubling DEF Doubles
<1> QED
  BY <1>1, <1>2

LEMMA Divided ==
  ASSUME NEW y \in Int, NEW d \in Nat \ {0}
  PROVE  /\ y \div d \in Int /\ y % d \in 0..d - 1
         /\ y = d * (y \div d) + (y % d)
BY SMTT(30)

LEMMA RemainderIs ==
  ASSUME NEW y \in Int, NEW d \in Nat \ {0}, NEW s \in Int, NEW t \in 0..d - 1, y = d * s + t
  PROVE  y % d = t
BY SMTT(30)

LEMMA DividedTwice ==
  ASSUME NEW v \in Int, NEW m \in Nat \ {0}
  PROVE  (v \div m) \div 2 = v \div (2 * m)
BY SMTT(30)

\* A number modulo 2m, by its last bit and the others.
LEMMA LastBit ==
  ASSUME NEW y \in Int, NEW m \in Nat \ {0}
  PROVE  y % (2 * m) = 2 * ((y \div 2) % m) + (y % 2)
<1> DEFINE q == y \div 2  b == y % 2  s == q \div m  r == q % m
<1>1. q \in Int /\ b \in 0..1 /\ y = 2 * q + b
  BY Divided
<1>2. s \in Int /\ r \in 0..m - 1 /\ q = m * s + r
  BY <1>1, Divided
<1> HIDE DEF q, b, s, r
<1>3. y = (2 * m) * s + (2 * r + b)
  <2>1. m * s \in Int /\ 2 * (m * s) = (2 * m) * s
    BY <1>2
  <2> QED
    BY <1>1, <1>2, <2>1
<1>4. 2 * m \in Nat \ {0} /\ 2 * r + b \in 0..(2 * m) - 1
  BY <1>1, <1>2
<1>5. y % (2 * m) = 2 * r + b
  BY <1>2, <1>3, <1>4, RemainderIs
<1> QED
  BY <1>5 DEF q, b, r

\* Induction as far as any field goes.
LEMMA BoundedInduction ==
  ASSUME NEW S, 0 \in S, \A k \in 0..20 : k \in S => k + 1 \in S
  PROVE  0..21 \subseteq S
<1>1. 1 \in S /\ 2 \in S /\ 3 \in S /\ 4 \in S /\ 5 \in S /\ 6 \in S /\ 7 \in S
  OBVIOUS
<1>2. 8 \in S /\ 9 \in S /\ 10 \in S /\ 11 \in S /\ 12 \in S /\ 13 \in S /\ 14 \in S
  BY <1>1
<1>3. 15 \in S /\ 16 \in S /\ 17 \in S /\ 18 \in S /\ 19 \in S /\ 20 \in S /\ 21 \in S
  BY <1>2
<1> QED
  BY <1>1, <1>2, <1>3

\* Bit k of a value.
Bit(v, k) == (v \div 2^k) % 2 = 1

LEMMA InPut ==
  ASSUME NEW v, NEW lo \in Nat, NEW n \in Nat, NEW at \in Nat, NEW b \in Nat
  PROVE  b \in Put(v, lo, n, at) <=> b - at \in 0..n - 1 /\ Bit(v, lo + (b - at))
BY DEF Put, Bit

\* Bits `at` up of a word are those of v from lo up.
Holds(w, at, n, v, lo) == \A j \in 0..n - 1 : at + j \in w <=> Bit(v, lo + j)

\* A field that holds the bits of v from lo up reads as that part of v.
LEMMA FieldIs ==
  ASSUME NEW w, NEW at \in Nat, NEW n \in Nat, NEW v \in Int, NEW lo \in Nat, lo + n <= 21,
         Holds(w, at, n, v, lo)
  PROVE  Field(w, at, n) = (v \div 2^lo) % 2^n
<1> DEFINE bit(i) == IF at + n - i \in w THEN 1 ELSE 0
           Step(f) == [i \in 0..n |-> IF i = 0 THEN 0 ELSE 2 * f[i - 1] + bit(i)]
           top(i) == (v \div 2^(lo + n - i)) % 2^i
           F == CHOOSE f : f = Step(f)
           g == [i \in 0..n |-> top(i)]
<1>1. Field(w, at, n) = F[n]
  BY Zenon DEF Field
<1>2. \A i \in 1..n : top(i) = 2 * top(i - 1) + bit(i)
  <2> SUFFICES ASSUME NEW i \in 1..n PROVE top(i) = 2 * top(i - 1) + bit(i)
    OBVIOUS
  <2> DEFINE k == lo + n - i  y == v \div 2^k  m == 2^(i - 1)
  <2>1. k \in 0..20 /\ i - 1 \in 0..20 /\ lo + n - (i - 1) = k + 1 /\ (i - 1) + 1 = i
    OBVIOUS
  <2>2. /\ 2^k \in Nat \ {0} /\ 2^(k + 1) = 2 * 2^k
        /\ m \in Nat \ {0} /\ 2^i = 2 * m
    BY <2>1, Doubling DEF Doubles
  <2>3. y \in Int
    BY <2>2, Divided
  <2>4. y \div 2 = v \div 2^(k + 1)
    BY <2>2, DividedTwice
  <2>5. bit(i) = y % 2
    <3>1. n - i \in 0..n - 1 /\ at + (n - i) = at + n - i /\ lo + (n - i) = k
      OBVIOUS
    <3>2. at + n - i \in w <=> Bit(v, k)
      BY <3>1 DEF Holds
    <3>3. y % 2 \in {0, 1}
      BY <2>3
    <3> QED
      BY <3>2, <3>3 DEF Bit
  <2>6. y % (2 * m) = 2 * ((y \div 2) % m) + (y % 2)
    BY <2>2, <2>3, LastBit
  <2> QED
    BY <2>1, <2>2, <2>4, <2>5, <2>6
<1>3. top(0) = 0
  <2> DEFINE k == lo + n
  <2>1. k \in 0..21
    OBVIOUS
  <2> HIDE DEF k
  <2>2. 2^k \in Nat \ {0}
    BY <2>1, PowerIsPositive, Zenon
  <2>3. (v \div 2^k) \in Int
    BY <2>2, Divided
  <2>4. \A z \in Int : z % 1 = 0
    OBVIOUS
  <2>5. (v \div 2^k) % 2^0 = 0
    BY <2>3, <2>4, Powers
  <2> QED
    BY <2>5 DEF k
<1> HIDE DEF bit, top
<1>4. g = Step(g)
  BY <1>2, <1>3
<1>5. F = Step(F)
  BY <1>4
<1> DEFINE Good == {i \in 0..21 : i <= n => F[i] = g[i]}
<1> HIDE DEF F
<1>6. F[0] = 0 /\ \A i \in 1..n : F[i] = 2 * F[i - 1] + bit(i)
  BY <1>5
<1>7. g[0] = 0 /\ \A i \in 1..n : g[i] = 2 * g[i - 1] + bit(i)
  BY <1>2, <1>3
<1> HIDE DEF g
<1>8. 0 \in Good
  BY <1>6, <1>7
<1>9. \A i \in 0..20 : i \in Good => i + 1 \in Good
  <2> SUFFICES ASSUME NEW i \in 0..20, i \in Good, i + 1 <= n
               PROVE  F[i + 1] = g[i + 1]
    OBVIOUS
  <2>1. i + 1 \in 1..n /\ (i + 1) - 1 = i
    OBVIOUS
  <2> QED
    BY <1>6, <1>7, <2>1
<1>10. n \in Good
  BY <1>8, <1>9, BoundedInduction
<1>11. g[n] = (v \div 2^lo) % 2^n
  BY DEF g, top
<1> QED
  BY <1>1, <1>10, <1>11

LEMMA NoBits ==
  ASSUME NEW k \in 0..20
  PROVE  ~Bit(0, k)
<1>1. \A d \in Nat \ {0} : 0 \div d = 0
  BY SMT
<1>2. 2^k \in Nat \ {0}
  BY Doubling DEF Doubles
<1>3. 0 \div 2^k = 0
  BY <1>1, <1>2, Zenon
<1>4. (0 % 2) # 1
  BY SMT
<1> QED
  BY <1>3, <1>4, Zenon DEF Bit

\* What fits a field of n bits.
Unsigned(n) == 0..2^n - 1

LEMMA UnsignedIs == Unsigned(3) = 0..7 /\ Unsigned(5) = 0..31 /\ Unsigned(7) = 0..127
<1>1. 2^3 - 1 = 7 /\ 2^5 - 1 = 31 /\ 2^7 - 1 = 127
  BY Powers
<1> QED
  BY <1>1, Zenon DEF Unsigned

\* A field that holds all the bits of a number that fits it.
LEMMA LowField ==
  ASSUME NEW w, NEW at \in Nat, NEW n \in 0..20, NEW v \in Int, Holds(w, at, n, v, 0)
  PROVE  Field(w, at, n) = v % 2^n
<1>1. 0 \in Nat /\ 0 + n <= 21 /\ n \in Nat
  OBVIOUS
<1>2. Field(w, at, n) = (v \div 2^0) % 2^n
  BY <1>1, FieldIs, Zenon
<1>3. v \div 2^0 = v
  BY Powers
<1> QED
  BY <1>2, <1>3

LEMMA WholeField ==
  ASSUME NEW w, NEW at \in Nat, NEW v
  PROVE  /\ v \in 0..7 /\ Holds(w, at, 3, v, 0) => Field(w, at, 3) = v
         /\ v \in 0..31 /\ Holds(w, at, 5, v, 0) => Field(w, at, 5) = v
         /\ v \in 0..127 /\ Holds(w, at, 7, v, 0) => Field(w, at, 7) = v
<1>1. v \in 0..7 /\ Holds(w, at, 3, v, 0) => Field(w, at, 3) = v
  BY LowField, Powers
<1>2. v \in 0..31 /\ Holds(w, at, 5, v, 0) => Field(w, at, 5) = v
  BY LowField, Powers
<1>3. v \in 0..127 /\ Holds(w, at, 7, v, 0) => Field(w, at, 7) = v
  BY LowField, Powers
<1> QED
  BY <1>1, <1>2, <1>3

LEMMA WideField ==
  ASSUME NEW w, NEW at \in Nat, NEW v \in Unsigned(20), Holds(w, at, 20, v, 0)
  PROVE  Field(w, at, 20) = v
<1>1. v \in Int /\ 0 <= v /\ v < 2^20
  BY Powers DEF Unsigned
<1>2. Field(w, at, 20) = v % 2^20
  BY <1>1, LowField
<1>3. v % 2^20 = v
  BY <1>1, Powers
<1> QED
  BY <1>2, <1>3

\* A field none of whose bits is up is zero.
LEMMA EmptyField ==
  ASSUME NEW w, NEW at \in Nat
  PROVE  /\ (\A b \in at..at + 2 : b \notin w) => Field(w, at, 3) = 0
         /\ (\A b \in at..at + 4 : b \notin w) => Field(w, at, 5) = 0
         /\ (\A b \in at..at + 11 : b \notin w) => Field(w, at, 12) = 0
<1>1. (\A b \in at..at + 2 : b \notin w) => Holds(w, at, 3, 0, 0)
  BY NoBits DEF Holds
<1>2. (\A b \in at..at + 4 : b \notin w) => Holds(w, at, 5, 0, 0)
  BY NoBits DEF Holds
<1>3. (\A b \in at..at + 11 : b \notin w) => Holds(w, at, 12, 0, 0)
  BY NoBits DEF Holds
<1>4. Holds(w, at, 12, 0, 0) => Field(w, at, 12) = 0
  BY LowField, Powers
<1> QED
  BY <1>1, <1>2, <1>3, <1>4, WholeField

-----------------------------------------------------------------------------
(* What the fields of an encoded word hold, by format.                     *)

LEMMA RTypeBits ==
  ASSUME NEW funct7, NEW rs2, NEW rs1, NEW funct3, NEW rd, NEW opcode, NEW b \in Nat
  PROVE  b \in rType(funct7, rs2, rs1, funct3, rd, opcode) <=>
           \/ b \in 25..31 /\ Bit(funct7, b - 25)
           \/ b \in 20..24 /\ Bit(rs2, b - 20)
           \/ b \in 15..19 /\ Bit(rs1, b - 15)
           \/ b \in 12..14 /\ Bit(funct3, b - 12)
           \/ b \in 7..11 /\ Bit(rd, b - 7)
           \/ b \in 0..6 /\ Bit(opcode, b)
<1>1. b \in Put(funct7, 0, 7, 25) <=> b \in 25..31 /\ Bit(funct7, b - 25)
  BY InPut
<1>2. b \in Put(rs2, 0, 5, 20) <=> b \in 20..24 /\ Bit(rs2, b - 20)
  BY InPut
<1>3. b \in Put(rs1, 0, 5, 15) <=> b \in 15..19 /\ Bit(rs1, b - 15)
  BY InPut
<1>4. b \in Put(funct3, 0, 3, 12) <=> b \in 12..14 /\ Bit(funct3, b - 12)
  BY InPut
<1>5. b \in Put(rd, 0, 5, 7) <=> b \in 7..11 /\ Bit(rd, b - 7)
  BY InPut
<1>6. b \in Put(opcode, 0, 7, 0) <=> b \in 0..6 /\ Bit(opcode, b)
  BY InPut
<1> QED
  BY <1>1, <1>2, <1>3, <1>4, <1>5, <1>6 DEF rType

\* The fields that all formats have in the same place.
Registers(w, rs1, funct3, rd, opcode) ==
  /\ Field(w, 15, 5) = rs1 /\ Field(w, 12, 3) = funct3
  /\ Field(w, 7, 5) = rd /\ Field(w, 0, 7) = opcode

\* What each format of rv32.ts puts into a word, the fields of decode.ts take out.
LEMMA RTypeFields ==
  ASSUME NEW funct7 \in Unsigned(7), NEW rs2 \in Unsigned(5), NEW rs1 \in Unsigned(5), NEW funct3 \in Unsigned(3),
         NEW rd \in Unsigned(5), NEW opcode \in Unsigned(7),
         NEW w, w = rType(funct7, rs2, rs1, funct3, rd, opcode)
  PROVE  /\ Field(w, 25, 7) = funct7 /\ Field(w, 20, 5) = rs2
         /\ Registers(w, rs1, funct3, rd, opcode)
<1>1. \A b \in Nat : b \in w <=>
           \/ b \in 25..31 /\ Bit(funct7, b - 25)
           \/ b \in 20..24 /\ Bit(rs2, b - 20)
           \/ b \in 15..19 /\ Bit(rs1, b - 15)
           \/ b \in 12..14 /\ Bit(funct3, b - 12)
           \/ b \in 7..11 /\ Bit(rd, b - 7)
           \/ b \in 0..6 /\ Bit(opcode, b)
  BY RTypeBits
<1>2. Holds(w, 25, 7, funct7, 0) /\ Holds(w, 20, 5, rs2, 0)
  BY <1>1 DEF Holds
<1>3. Holds(w, 15, 5, rs1, 0) /\ Holds(w, 12, 3, funct3, 0)
  BY <1>1 DEF Holds
<1>4. Holds(w, 7, 5, rd, 0) /\ Holds(w, 0, 7, opcode, 0)
  BY <1>1 DEF Holds
<1>6. Field(w, 25, 7) = funct7 /\ Field(w, 20, 5) = rs2
  BY <1>2, WholeField, UnsignedIs
<1>7. Field(w, 15, 5) = rs1 /\ Field(w, 12, 3) = funct3
  BY <1>3, WholeField, UnsignedIs
<1>8. Field(w, 7, 5) = rd /\ Field(w, 0, 7) = opcode
  BY <1>4, WholeField, UnsignedIs
<1> QED
  BY <1>6, <1>7, <1>8 DEF Registers

-----------------------------------------------------------------------------
(* Immediates.                                                             *)

LEMMA PartField ==
  ASSUME NEW w, NEW at \in Nat, NEW v \in Int
  PROVE  /\ Holds(w, at, 12, v, 0) => Field(w, at, 12) = v % 4096
         /\ Holds(w, at, 5, v, 0) => Field(w, at, 5) = v % 32
         /\ Holds(w, at, 7, v, 5) => Field(w, at, 7) = (v \div 32) % 128
         /\ Holds(w, at, 6, v, 5) => Field(w, at, 6) = (v \div 32) % 64
         /\ Holds(w, at, 4, v, 1) => Field(w, at, 4) = (v \div 2) % 16
         /\ Holds(w, at, 10, v, 1) => Field(w, at, 10) = (v \div 2) % 1024
         /\ Holds(w, at, 8, v, 12) => Field(w, at, 8) = (v \div 4096) % 256
         /\ Holds(w, at, 1, v, 11) => Field(w, at, 1) = (v \div 2048) % 2
         /\ Holds(w, at, 1, v, 12) => Field(w, at, 1) = (v \div 4096) % 2
         /\ Holds(w, at, 1, v, 20) => Field(w, at, 1) = (v \div 2^20) % 2
<1>1. ASSUME NEW n \in 0..20, NEW lo \in 0..20, lo + n <= 21, Holds(w, at, n, v, lo)
      PROVE  Field(w, at, n) = (v \div 2^lo) % 2^n
  <2>1. lo \in Nat /\ n \in Nat
    OBVIOUS
  <2> QED
    BY <1>1, <2>1, FieldIs, Zenon
<1>2. Holds(w, at, 12, v, 0) => Field(w, at, 12) = v % 4096
  BY <1>1, Powers
<1>3. Holds(w, at, 5, v, 0) => Field(w, at, 5) = v % 32
  BY <1>1, Powers
<1>4. Holds(w, at, 7, v, 5) => Field(w, at, 7) = (v \div 32) % 128
  BY <1>1, Powers
<1>5. Holds(w, at, 6, v, 5) => Field(w, at, 6) = (v \div 32) % 64
  BY <1>1, Powers
<1>6. Holds(w, at, 4, v, 1) => Field(w, at, 4) = (v \div 2) % 16
  BY <1>1, Powers
<1>7. Holds(w, at, 10, v, 1) => Field(w, at, 10) = (v \div 2) % 1024
  BY <1>1, Powers
<1>8. Holds(w, at, 8, v, 12) => Field(w, at, 8) = (v \div 4096) % 256
  BY <1>1, Powers
<1>9. Holds(w, at, 1, v, 11) => Field(w, at, 1) = (v \div 2048) % 2
  BY <1>1, Powers
<1>10. Holds(w, at, 1, v, 12) => Field(w, at, 1) = (v \div 4096) % 2
  BY <1>1, Powers
<1>11. Holds(w, at, 1, v, 20) => Field(w, at, 1) = (v \div 2^20) % 2
  BY <1>1, Powers
<1> QED
  BY <1>2, <1>3, <1>4, <1>5, <1>6, <1>7, <1>8, <1>9, <1>10, <1>11

\* An immediate that fits its bits is what sign extension makes of them.
LEMMA SignExtended12 ==
  ASSUME NEW v \in Int, -2048 <= v, v < 2048
  PROVE  sx(v % 4096, 12) = v
BY Powers DEF sx

LEMMA SignExtended13 ==
  ASSUME NEW v \in Int, -4096 <= v, v < 4096
  PROVE  sx(v % 8192, 13) = v
BY Powers DEF sx

LEMMA SignExtended21 ==
  ASSUME NEW v \in Int, -(2^20) <= v, v < 2^20
  PROVE  sx(v % 2^21, 21) = v
BY Powers DEF sx

\* The pieces of an immediate make it up.
LEMMA Pieces ==
  ASSUME NEW v \in Int
  PROVE  /\ ((v \div 32) % 128) * 32 + (v % 32) = v % 4096
         /\ v % 2 = 0 =>
              ((v \div 4096) % 2) * 4096 + ((v \div 2048) % 2) * 2048
                + ((v \div 32) % 64) * 32 + ((v \div 2) % 16) * 2 = v % 8192
         /\ v % 2 = 0 =>
              ((v \div 2^20) % 2) * 2^20 + ((v \div 4096) % 256) * 4096
                + ((v \div 2048) % 2) * 2048 + ((v \div 2) % 1024) * 2 = v % 2^21
<1>1. ((v \div 32) % 128) * 32 + (v % 32) = v % 4096
  BY SMTT(60)
<1>2. v % 2 = 0 =>
        ((v \div 4096) % 2) * 4096 + ((v \div 2048) % 2) * 2048
          + ((v \div 32) % 64) * 32 + ((v \div 2) % 16) * 2 = v % 8192
  BY SMTT(60)
<1>3. v % 2 = 0 =>
        ((v \div 2^20) % 2) * 2^20 + ((v \div 4096) % 256) * 4096
          + ((v \div 2048) % 2) * 2048 + ((v \div 2) % 1024) * 2 = v % 2^21
  BY Powers, SMTT(60)
<1> QED
  BY <1>1, <1>2, <1>3

-----------------------------------------------------------------------------
(* The formats with an immediate.                                          *)

LEMMA ITypeFields ==
  ASSUME NEW imm \in Int, NEW rs1 \in Unsigned(5), NEW funct3 \in Unsigned(3), NEW rd \in Unsigned(5),
         NEW opcode \in Unsigned(7),
         NEW w, w = iType(imm, rs1, funct3, rd, opcode)
  PROVE  /\ Registers(w, rs1, funct3, rd, opcode)
         /\ Field(w, 20, 12) = imm % 4096 /\ Field(w, 20, 5) = imm % 32
         /\ (30 \in w <=> Bit(imm, 10))
<1>1. ASSUME NEW b \in Nat
      PROVE  b \in w <=>
               \/ b \in 20..31 /\ Bit(imm, b - 20)
               \/ b \in 15..19 /\ Bit(rs1, b - 15)
               \/ b \in 12..14 /\ Bit(funct3, b - 12)
               \/ b \in 7..11 /\ Bit(rd, b - 7)
               \/ b \in 0..6 /\ Bit(opcode, b)
  <2>1. b \in Put(imm, 0, 12, 20) <=> (b \in 20..31 /\ Bit(imm, b - 20))
    BY InPut
  <2>2. b \in 25..31 => ~Bit(0, b - 25)
    BY NoBits
  <2>3. b \in 20..24 => ~Bit(0, b - 20)
    BY NoBits
  <2> QED
    BY <2>1, <2>2, <2>3, RTypeBits DEF iType
<1>2. Holds(w, 15, 5, rs1, 0) /\ Holds(w, 12, 3, funct3, 0)
  BY <1>1 DEF Holds
<1>3. Holds(w, 7, 5, rd, 0) /\ Holds(w, 0, 7, opcode, 0)
  BY <1>1 DEF Holds
<1>4. Holds(w, 20, 12, imm, 0) /\ Holds(w, 20, 5, imm, 0)
  BY <1>1 DEF Holds
<1>5. 30 \in w <=> Bit(imm, 10)
  BY <1>1
<1>6. Registers(w, rs1, funct3, rd, opcode)
  BY <1>2, <1>3, WholeField, UnsignedIs DEF Registers
<1>7. Field(w, 20, 12) = imm % 4096 /\ Field(w, 20, 5) = imm % 32
  BY <1>4, PartField
<1> QED
  BY <1>5, <1>6, <1>7

LEMMA STypeFields ==
  ASSUME NEW imm \in Int, NEW rs2 \in Unsigned(5), NEW rs1 \in Unsigned(5), NEW funct3 \in Unsigned(3),
         NEW opcode \in Unsigned(7),
         NEW w, w = sType(imm, rs2, rs1, funct3, opcode)
  PROVE  /\ Field(w, 20, 5) = rs2 /\ Field(w, 15, 5) = rs1 /\ Field(w, 12, 3) = funct3
         /\ Field(w, 0, 7) = opcode
         /\ Field(w, 25, 7) = (imm \div 32) % 128 /\ Field(w, 7, 5) = imm % 32
<1>1. ASSUME NEW b \in Nat
      PROVE  b \in w <=>
               \/ b \in 25..31 /\ Bit(imm, 5 + (b - 25))
               \/ b \in 20..24 /\ Bit(rs2, b - 20)
               \/ b \in 15..19 /\ Bit(rs1, b - 15)
               \/ b \in 12..14 /\ Bit(funct3, b - 12)
               \/ b \in 7..11 /\ Bit(imm, b - 7)
               \/ b \in 0..6 /\ Bit(opcode, b)
  <2>1. b \in Put(imm, 5, 7, 25) <=> (b \in 25..31 /\ Bit(imm, 5 + (b - 25)))
    BY InPut
  <2>2. b \in Put(imm, 0, 5, 7) <=> (b \in 7..11 /\ Bit(imm, b - 7))
    BY InPut
  <2>3. b \in 25..31 => ~Bit(0, b - 25)
    BY NoBits
  <2>4. b \in 7..11 => ~Bit(0, b - 7)
    BY NoBits
  <2> QED
    BY <2>1, <2>2, <2>3, <2>4, RTypeBits DEF sType
<1>2. Holds(w, 20, 5, rs2, 0) /\ Holds(w, 15, 5, rs1, 0)
  BY <1>1 DEF Holds
<1>3. Holds(w, 12, 3, funct3, 0) /\ Holds(w, 0, 7, opcode, 0)
  BY <1>1 DEF Holds
<1>4. Holds(w, 25, 7, imm, 5) /\ Holds(w, 7, 5, imm, 0)
  BY <1>1 DEF Holds
<1>5. Field(w, 20, 5) = rs2 /\ Field(w, 15, 5) = rs1 /\ Field(w, 12, 3) = funct3 /\ Field(w, 0, 7) = opcode
  BY <1>2, <1>3, WholeField, UnsignedIs
<1>6. Field(w, 25, 7) = (imm \div 32) % 128 /\ Field(w, 7, 5) = imm % 32
  BY <1>4, PartField
<1> QED
  BY <1>5, <1>6

LEMMA BTypeFields ==
  ASSUME NEW imm \in Int, NEW rs2 \in Unsigned(5), NEW rs1 \in Unsigned(5), NEW funct3 \in Unsigned(3),
         NEW opcode \in Unsigned(7),
         NEW w, w = bType(imm, rs2, rs1, funct3, opcode)
  PROVE  /\ Field(w, 20, 5) = rs2 /\ Field(w, 15, 5) = rs1 /\ Field(w, 12, 3) = funct3
         /\ Field(w, 0, 7) = opcode
         /\ Field(w, 31, 1) = (imm \div 4096) % 2 /\ Field(w, 7, 1) = (imm \div 2048) % 2
         /\ Field(w, 25, 6) = (imm \div 32) % 64 /\ Field(w, 8, 4) = (imm \div 2) % 16
<1>1. ASSUME NEW b \in Nat
      PROVE  b \in w <=>
               \/ b = 31 /\ Bit(imm, 12)
               \/ b \in 25..30 /\ Bit(imm, 5 + (b - 25))
               \/ b \in 20..24 /\ Bit(rs2, b - 20)
               \/ b \in 15..19 /\ Bit(rs1, b - 15)
               \/ b \in 12..14 /\ Bit(funct3, b - 12)
               \/ b \in 8..11 /\ Bit(imm, 1 + (b - 8))
               \/ b = 7 /\ Bit(imm, 11)
               \/ b \in 0..6 /\ Bit(opcode, b)
  <2>1. b \in Put(imm, 12, 1, 31) <=> (b = 31 /\ Bit(imm, 12))
    BY InPut
  <2>2. b \in Put(imm, 5, 6, 25) <=> (b \in 25..30 /\ Bit(imm, 5 + (b - 25)))
    BY InPut
  <2>3. b \in Put(imm, 1, 4, 8) <=> (b \in 8..11 /\ Bit(imm, 1 + (b - 8)))
    BY InPut
  <2>4. b \in Put(imm, 11, 1, 7) <=> (b = 7 /\ Bit(imm, 11))
    BY InPut
  <2>5. b \in 25..31 => ~Bit(0, b - 25)
    BY NoBits
  <2>6. b \in 7..11 => ~Bit(0, b - 7)
    BY NoBits
  <2> QED
    BY <2>1, <2>2, <2>3, <2>4, <2>5, <2>6, RTypeBits DEF bType
<1>2. Holds(w, 20, 5, rs2, 0) /\ Holds(w, 15, 5, rs1, 0)
  BY <1>1 DEF Holds
<1>3. Holds(w, 12, 3, funct3, 0) /\ Holds(w, 0, 7, opcode, 0)
  BY <1>1 DEF Holds
<1>4. Holds(w, 31, 1, imm, 12) /\ Holds(w, 7, 1, imm, 11)
  BY <1>1 DEF Holds
<1>5. Holds(w, 25, 6, imm, 5) /\ Holds(w, 8, 4, imm, 1)
  BY <1>1 DEF Holds
<1>6. Field(w, 20, 5) = rs2 /\ Field(w, 15, 5) = rs1 /\ Field(w, 12, 3) = funct3 /\ Field(w, 0, 7) = opcode
  BY <1>2, <1>3, WholeField, UnsignedIs
<1>7. Field(w, 31, 1) = (imm \div 4096) % 2 /\ Field(w, 7, 1) = (imm \div 2048) % 2
  BY <1>4, PartField
<1>8. Field(w, 25, 6) = (imm \div 32) % 64 /\ Field(w, 8, 4) = (imm \div 2) % 16
  BY <1>5, PartField
<1> QED
  BY <1>6, <1>7, <1>8

LEMMA UTypeFields ==
  ASSUME NEW imm \in Unsigned(20), NEW rd \in Unsigned(5), NEW opcode \in Unsigned(7),
         NEW w, w = uType(imm, rd, opcode)
  PROVE  /\ Field(w, 7, 5) = rd /\ Field(w, 0, 7) = opcode
         /\ Field(w, 12, 20) = imm
<1>1. ASSUME NEW b \in Nat
      PROVE  b \in w <=>
               \/ b \in 12..31 /\ Bit(imm, b - 12)
               \/ b \in 7..11 /\ Bit(rd, b - 7)
               \/ b \in 0..6 /\ Bit(opcode, b)
  <2>1. b \in Put(imm, 0, 20, 12) <=> (b \in 12..31 /\ Bit(imm, b - 12))
    BY InPut
  <2>2. b \in 25..31 => ~Bit(0, b - 25)
    BY NoBits
  <2>3. b \in 20..24 => ~Bit(0, b - 20)
    BY NoBits
  <2>4. b \in 15..19 => ~Bit(0, b - 15)
    BY NoBits
  <2>5. b \in 12..14 => ~Bit(0, b - 12)
    BY NoBits
  <2> QED
    BY <2>1, <2>2, <2>3, <2>4, <2>5, RTypeBits DEF uType
<1>2. Holds(w, 7, 5, rd, 0) /\ Holds(w, 0, 7, opcode, 0)
  BY <1>1 DEF Holds
<1>3. Holds(w, 12, 20, imm, 0)
  BY <1>1 DEF Holds
<1> QED
  BY <1>2, <1>3, WholeField, UnsignedIs, WideField

LEMMA JTypeFields ==
  ASSUME NEW imm \in Int, NEW rd \in Unsigned(5), NEW opcode \in Unsigned(7),
         NEW w, w = jType(imm, rd, opcode)
  PROVE  /\ Field(w, 7, 5) = rd /\ Field(w, 0, 7) = opcode
         /\ Field(w, 31, 1) = (imm \div 2^20) % 2 /\ Field(w, 12, 8) = (imm \div 4096) % 256
         /\ Field(w, 20, 1) = (imm \div 2048) % 2 /\ Field(w, 21, 10) = (imm \div 2) % 1024
<1>1. ASSUME NEW b \in Nat
      PROVE  b \in w <=>
               \/ b = 31 /\ Bit(imm, 20)
               \/ b \in 21..30 /\ Bit(imm, 1 + (b - 21))
               \/ b = 20 /\ Bit(imm, 11)
               \/ b \in 12..19 /\ Bit(imm, 12 + (b - 12))
               \/ b \in 7..11 /\ Bit(rd, b - 7)
               \/ b \in 0..6 /\ Bit(opcode, b)
  <2>1. b \in Put(imm, 20, 1, 31) <=> (b = 31 /\ Bit(imm, 20))
    BY InPut
  <2>2. b \in Put(imm, 1, 10, 21) <=> (b \in 21..30 /\ Bit(imm, 1 + (b - 21)))
    BY InPut
  <2>3. b \in Put(imm, 11, 1, 20) <=> (b = 20 /\ Bit(imm, 11))
    BY InPut
  <2>4. b \in Put(imm, 12, 8, 12) <=> (b \in 12..19 /\ Bit(imm, 12 + (b - 12)))
    BY InPut
  <2>5. b \in 25..31 => ~Bit(0, b - 25)
    BY NoBits
  <2>6. b \in 20..24 => ~Bit(0, b - 20)
    BY NoBits
  <2>7. b \in 15..19 => ~Bit(0, b - 15)
    BY NoBits
  <2>8. b \in 12..14 => ~Bit(0, b - 12)
    BY NoBits
  <2> QED
    BY <2>1, <2>2, <2>3, <2>4, <2>5, <2>6, <2>7, <2>8, RTypeBits DEF jType
<1>2. Holds(w, 7, 5, rd, 0) /\ Holds(w, 0, 7, opcode, 0)
  BY <1>1 DEF Holds
<1>3. Holds(w, 31, 1, imm, 20) /\ Holds(w, 12, 8, imm, 12)
  BY <1>1 DEF Holds
<1>4. Holds(w, 20, 1, imm, 11) /\ Holds(w, 21, 10, imm, 1)
  BY <1>1 DEF Holds
<1>5. Field(w, 31, 1) = (imm \div 2^20) % 2 /\ Field(w, 12, 8) = (imm \div 4096) % 256
  BY <1>3, PartField
<1>6. Field(w, 20, 1) = (imm \div 2048) % 2 /\ Field(w, 21, 10) = (imm \div 2) % 1024
  BY <1>4, PartField
<1> QED
  BY <1>2, <1>5, <1>6, WholeField, UnsignedIs

-----------------------------------------------------------------------------
(* The tables of rv32.ts and those of decode.ts.                           *)

\* A register's number in rv32.ts has its name in decode.ts.
LEMMA RegisterNames ==
  ASSUME NEW r \in Names
  PROVE  X[r] \in Unsigned(5) /\ regName(X[r]) = r
BY UnsignedIs DEF Names, X, regName, ABI_NAMES

LEMMA CsrNames ==
  ASSUME NEW c \in DOMAIN CSR
  PROVE  CSR[c] \in Int /\ CSR[c] % 4096 = CSR[c] /\ CsrName(CSR[c]) = c
BY DEF CSR, CSR_NAMES, CsrName

LEMMA TableLengths ==
  Len(OPIMM) = 8 /\ Len(LOAD) = 6 /\ Len(STORE) = 3 /\ Len(BRANCH) = 8 /\ Len(CSR_OPS) = 8
BY DEF OPIMM, LOAD, STORE, BRANCH, CSR_OPS

LEMMA OpImmNames ==
  ASSUME NEW op \in DOMAIN OpImm
  PROVE  OpImm[op] \in Unsigned(3) /\ Mnemonic(OPIMM, OpImm[op]) = IF op = "srli" THEN Null ELSE op
<1>1. OpImm[op] \in Unsigned(3)
  BY UnsignedIs DEF OpImm
<1>2. OpImm[op] < Len(OPIMM)
  BY TableLengths DEF OpImm
<1>3. OPIMM[OpImm[op] + 1] = IF op = "srli" THEN Null ELSE op
  BY DEF OpImm, OPIMM, Null
<1> QED
  BY <1>1, <1>2, <1>3 DEF Mnemonic

LEMMA LoadNames ==
  ASSUME NEW op \in DOMAIN Load
  PROVE  Load[op] \in Unsigned(3) /\ Mnemonic(LOAD, Load[op]) = op
<1>1. Load[op] \in Unsigned(3)
  BY UnsignedIs DEF Load
<1>2. Load[op] < Len(LOAD)
  BY TableLengths DEF Load
<1>3. LOAD[Load[op] + 1] = op
  BY DEF Load, LOAD, Null
<1> QED
  BY <1>1, <1>2, <1>3 DEF Mnemonic

LEMMA StoreNames ==
  ASSUME NEW op \in DOMAIN Store
  PROVE  Store[op] \in Unsigned(3) /\ Mnemonic(STORE, Store[op]) = op
<1>1. Store[op] \in Unsigned(3)
  BY UnsignedIs DEF Store
<1>2. Store[op] < Len(STORE)
  BY TableLengths DEF Store
<1>3. STORE[Store[op] + 1] = op
  BY DEF Store, STORE, Null
<1> QED
  BY <1>1, <1>2, <1>3 DEF Mnemonic

LEMMA BranchNames ==
  ASSUME NEW op \in DOMAIN Branch
  PROVE  Branch[op] \in Unsigned(3) /\ Mnemonic(BRANCH, Branch[op]) = op
<1>1. Branch[op] \in Unsigned(3)
  BY UnsignedIs DEF Branch
<1>2. Branch[op] < Len(BRANCH)
  BY TableLengths DEF Branch
<1>3. BRANCH[Branch[op] + 1] = op
  BY DEF Branch, BRANCH, Null
<1> QED
  BY <1>1, <1>2, <1>3 DEF Mnemonic

LEMMA CsrOpNames ==
  ASSUME NEW op \in DOMAIN Csr
  PROVE  Csr[op] \in Unsigned(3) /\ Mnemonic(CSR_OPS, Csr[op]) = op
<1>1. Csr[op] \in Unsigned(3)
  BY UnsignedIs DEF Csr
<1>2. Csr[op] < Len(CSR_OPS)
  BY TableLengths DEF Csr
<1>3. CSR_OPS[Csr[op] + 1] = op
  BY DEF Csr, CSR_OPS, Null
<1> QED
  BY <1>1, <1>2, <1>3 DEF Mnemonic

LEMMA OpNames ==
  ASSUME NEW op \in DOMAIN Op
  PROVE  /\ Op[op][1] \in {0, 1, 32} /\ Op[op][1] \in Unsigned(7) /\ Op[op][2] \in Unsigned(3)
         /\ op = IF Op[op][1] = 1 THEN MULDIV[Op[op][2] + 1]
                 ELSE IF Op[op][1] = 32 THEN IF Op[op][2] = 0 THEN "sub" ELSE "sra"
                 ELSE OP[Op[op][2] + 1]
BY UnsignedIs DEF Op, OP, MULDIV

-----------------------------------------------------------------------------
(* Each instruction's word, read back.  A word is told from its opcode.     *)

LEMMA Mnemonics ==
  /\ DOMAIN OpImm = {"addi", "andi", "ori", "xori", "slli", "srli"}
  /\ DOMAIN Op = {"add", "sub", "and", "or", "xor", "sltu", "mul", "mulh", "div", "divu", "remu"}
  /\ DOMAIN Upper = {"lui", "auipc"} /\ DOMAIN Load = {"lw", "lbu"}
  /\ DOMAIN Store = {"sw", "sb"} /\ DOMAIN Csr = {"csrrw", "csrrs"}
  /\ DOMAIN Branch = {"beq", "bne", "blt", "bge", "bltu", "bgeu"}
BY DEF OpImm, Op, Upper, Load, Store, Csr, Branch

LEMMA Immediate ==
  ASSUME NEW w, NEW imm \in Int, -2048 <= imm, imm < 2048, Field(w, 20, 12) = imm % 4096
  PROVE  iImm(w) = imm
BY SignExtended12 DEF iImm

LEMMA Opcodes ==
  /\ 3 \in Unsigned(7) /\ 19 \in Unsigned(7) /\ 23 \in Unsigned(7) /\ 35 \in Unsigned(7)
  /\ 51 \in Unsigned(7) /\ 55 \in Unsigned(7) /\ 99 \in Unsigned(7) /\ 103 \in Unsigned(7)
  /\ 111 \in Unsigned(7) /\ 115 \in Unsigned(7)
  /\ 0 \in Unsigned(7) /\ 0 \in Unsigned(5) /\ 0 \in Unsigned(3) /\ 1 \in Unsigned(3) /\ 5 \in Unsigned(3)
BY UnsignedIs

LEMMA LoadReadsBack ==
  ASSUME NEW op \in DOMAIN Load, NEW rd \in Names, NEW rs1 \in Names,
         NEW imm \in Int, -2048 <= imm, imm < 2048, NEW pc
  PROVE  Meaning(Disasm(Encode(<<op, rd, rs1, imm>>), pc)) = <<op, rd, rs1, imm>>
<1> DEFINE w == Encode(<<op, rd, rs1, imm>>)
<1>1. w = iType(imm, X[rs1], Load[op], X[rd], 3)
  BY Mnemonics DEF Encode
<1> HIDE DEF w
<1>2. X[rd] \in Unsigned(5) /\ X[rs1] \in Unsigned(5) /\ regName(X[rd]) = rd /\ regName(X[rs1]) = rs1
  BY RegisterNames
<1>3. Load[op] \in Unsigned(3) /\ Mnemonic(LOAD, Load[op]) = op
  BY LoadNames
<1>4. Registers(w, X[rs1], Load[op], X[rd], 3) /\ Field(w, 20, 12) = imm % 4096
  BY <1>1, <1>2, <1>3, Opcodes, ITypeFields
<1>5. iImm(w) = imm
  BY <1>4, Immediate
<1>8. Disasm(w, pc) = <<op, rd, imm, rs1>>
  BY <1>2, <1>3, <1>4, <1>5, Mnemonics DEF Disasm, Registers, Null
<1>9. Meaning(<<op, rd, imm, rs1>>) = <<op, rd, rs1, imm>>
  BY Mnemonics DEF Meaning
<1> QED
  BY <1>8, <1>9 DEF w

LEMMA JumpReadsBack ==
  ASSUME NEW rd \in Names, NEW rs1 \in Names,
         NEW imm \in Int, -2048 <= imm, imm < 2048, NEW pc
  PROVE  Meaning(Disasm(Encode(<<"jalr", rd, rs1, imm>>), pc)) = <<"jalr", rd, rs1, imm>>
<1> DEFINE w == Encode(<<"jalr", rd, rs1, imm>>)
<1>1. w = iType(imm, X[rs1], 0, X[rd], 103)
  BY Mnemonics DEF Encode
<1> HIDE DEF w
<1>2. X[rd] \in Unsigned(5) /\ X[rs1] \in Unsigned(5) /\ regName(X[rd]) = rd /\ regName(X[rs1]) = rs1
  BY RegisterNames
<1>4. Registers(w, X[rs1], 0, X[rd], 103) /\ Field(w, 20, 12) = imm % 4096
  BY <1>1, <1>2, Opcodes, ITypeFields
<1>5. iImm(w) = imm
  BY <1>4, Immediate
<1>8. Disasm(w, pc) = IF rd = "zero" /\ rs1 = "ra" /\ imm = 0 THEN <<"ret">>
                     ELSE <<"jalr", rd, imm, rs1>>
  BY <1>2, <1>4, <1>5 DEF Disasm, Registers
<1>9. Meaning(IF rd = "zero" /\ rs1 = "ra" /\ imm = 0 THEN <<"ret">>
                     ELSE <<"jalr", rd, imm, rs1>>) = <<"jalr", rd, rs1, imm>>
  BY Mnemonics DEF Meaning
<1> QED
  BY <1>8, <1>9 DEF w

LEMMA StoreReadsBack ==
  ASSUME NEW op \in DOMAIN Store, NEW rs2 \in Names, NEW rs1 \in Names,
         NEW imm \in Int, -2048 <= imm, imm < 2048, NEW pc
  PROVE  Meaning(Disasm(Encode(<<op, rs2, rs1, imm>>), pc)) = <<op, rs2, rs1, imm>>
<1> DEFINE w == Encode(<<op, rs2, rs1, imm>>)
<1>1. w = sType(imm, X[rs2], X[rs1], Store[op], 35)
  BY Mnemonics DEF Encode
<1> HIDE DEF w
<1>2. X[rs2] \in Unsigned(5) /\ X[rs1] \in Unsigned(5) /\ regName(X[rs2]) = rs2 /\ regName(X[rs1]) = rs1
  BY RegisterNames
<1>3. Store[op] \in Unsigned(3) /\ Mnemonic(STORE, Store[op]) = op
  BY StoreNames
<1>4. /\ Field(w, 20, 5) = X[rs2] /\ Field(w, 15, 5) = X[rs1] /\ Field(w, 12, 3) = Store[op]
      /\ Field(w, 0, 7) = 35
      /\ Field(w, 25, 7) = (imm \div 32) % 128 /\ Field(w, 7, 5) = imm % 32
  BY <1>1, <1>2, <1>3, Opcodes, STypeFields
<1>5. sImm(w) = imm
  BY <1>4, Pieces, SignExtended12 DEF sImm
<1>8. Disasm(w, pc) = <<op, rs2, imm, rs1>>
  BY <1>2, <1>3, <1>4, <1>5, Mnemonics DEF Disasm, Null
<1>9. Meaning(<<op, rs2, imm, rs1>>) = <<op, rs2, rs1, imm>>
  BY Mnemonics DEF Meaning
<1> QED
  BY <1>8, <1>9 DEF w


\* What a nop's word says, and what no word with a funct3 says.
LEMMA NopWord ==
  /\ Field({0, 1, 4}, 7, 5) = 0 /\ Field({0, 1, 4}, 15, 5) = 0
  /\ Field({0, 1, 4}, 12, 3) = 0 /\ Field({0, 1, 4}, 20, 12) = 0
BY EmptyField

LEMMA SystemWords ==
  ASSUME NEW w \in {{0, 1, 4, 5, 6}, {0, 1, 4, 5, 6, 20}, {0, 1, 4, 5, 6, 21, 28, 29}}
  PROVE  Field(w, 12, 3) = 0
<1>1. \A b \in 12..12 + 2 : b \notin w
  OBVIOUS
<1> QED
  BY <1>1, EmptyField

LEMMA ArithmeticReadsBack ==
  ASSUME NEW op \in DOMAIN OpImm \ {"slli", "srli"}, NEW rd \in Names, NEW rs1 \in Names,
         NEW imm \in Int, -2048 <= imm, imm < 2048, NEW pc
  PROVE  Meaning(Disasm(Encode(<<op, rd, rs1, imm>>), pc)) = <<op, rd, rs1, imm>>
<1> DEFINE w == Encode(<<op, rd, rs1, imm>>)
<1>1. w = iType(imm, X[rs1], OpImm[op], X[rd], 19)
  BY Mnemonics DEF Encode
<1> HIDE DEF w
<1>2. X[rd] \in Unsigned(5) /\ X[rs1] \in Unsigned(5) /\ regName(X[rd]) = rd /\ regName(X[rs1]) = rs1
  BY RegisterNames
<1>3. /\ OpImm[op] \in Unsigned(3) /\ Mnemonic(OPIMM, OpImm[op]) = op
      /\ OpImm[op] \notin {1, 5} /\ (OpImm[op] = 0 <=> op = "addi")
  <2>1. OpImm[op] \notin {1, 5} /\ (OpImm[op] = 0 <=> op = "addi")
    BY DEF OpImm
  <2> QED
    BY <2>1, OpImmNames
<1>4. Registers(w, X[rs1], OpImm[op], X[rd], 19) /\ Field(w, 20, 12) = imm % 4096
  BY <1>1, <1>2, <1>3, Opcodes, ITypeFields
<1>5. iImm(w) = imm
  BY <1>4, Immediate
<1>6. op # Null
  BY Mnemonics DEF Null
<1>7. CASE w = {0, 1, 4}
  <2>1. X[rd] = 0 /\ X[rs1] = 0 /\ OpImm[op] = 0 /\ imm % 4096 = 0
    BY <1>4, <1>7, NopWord DEF Registers
  <2>2. rd = "zero" /\ rs1 = "zero"
    BY <1>2, <2>1 DEF regName, ABI_NAMES
  <2>3. imm = 0 /\ op = "addi"
    BY <1>3, <2>1
  <2>4. Disasm(w, pc) = <<"nop">>
    BY <1>4, <1>7 DEF Disasm, Registers
  <2>5. Meaning(<<"nop">>) = <<"addi", "zero", "zero", 0>>
    BY Mnemonics DEF Meaning, Nop, Addi
  <2> QED
    BY <2>2, <2>3, <2>4, <2>5 DEF w
<1>8. CASE w # {0, 1, 4} /\ op = "addi" /\ rs1 = "zero"
  <2>1. Disasm(w, pc) = <<"li", rd, imm>>
    BY <1>2, <1>3, <1>4, <1>5, <1>8 DEF Disasm, Registers
  <2>2. Meaning(<<"li", rd, imm>>) = <<"addi", rd, "zero", imm>>
    BY Mnemonics DEF Meaning, Addi
  <2> QED
    BY <1>8, <2>1, <2>2 DEF w
<1>9. CASE w # {0, 1, 4} /\ op = "addi" /\ rs1 # "zero" /\ imm = 0
  <2>1. Disasm(w, pc) = <<"mv", rd, rs1>>
    BY <1>2, <1>3, <1>4, <1>5, <1>9 DEF Disasm, Registers
  <2>2. Meaning(<<"mv", rd, rs1>>) = <<"addi", rd, rs1, 0>>
    BY Mnemonics DEF Meaning, Addi
  <2> QED
    BY <1>9, <2>1, <2>2 DEF w
<1>10. CASE w # {0, 1, 4} /\ ~(op = "addi" /\ (rs1 = "zero" \/ imm = 0))
  <2>1. Disasm(w, pc) = <<op, rd, rs1, imm>>
    BY <1>2, <1>3, <1>4, <1>5, <1>6, <1>10 DEF Disasm, Registers
  <2>2. Meaning(<<op, rd, rs1, imm>>) = <<op, rd, rs1, imm>>
    BY Mnemonics DEF Meaning
  <2> QED
    BY <2>1, <2>2 DEF w
<1> QED
  BY <1>7, <1>8, <1>9, <1>10

LEMMA ShiftReadsBack ==
  ASSUME NEW op \in {"slli", "srli"}, NEW rd \in Names, NEW rs1 \in Names,
         NEW imm \in Int, 0 <= imm, imm < 32, NEW pc
  PROVE  Meaning(Disasm(Encode(<<op, rd, rs1, imm>>), pc)) = <<op, rd, rs1, imm>>
<1> DEFINE w == Encode(<<op, rd, rs1, imm>>)
<1>1. w = iType(imm, X[rs1], OpImm[op], X[rd], 19)
  BY Mnemonics DEF Encode
<1> HIDE DEF w
<1>2. X[rd] \in Unsigned(5) /\ X[rs1] \in Unsigned(5) /\ regName(X[rd]) = rd /\ regName(X[rs1]) = rs1
  BY RegisterNames
<1>3. OpImm[op] \in Unsigned(3)
  BY Mnemonics, OpImmNames
<1>4. (op = "slli" /\ OpImm[op] = 1) \/ (op = "srli" /\ OpImm[op] = 5)
  <2>1. OpImm["slli"] = 1 /\ OpImm["srli"] = 5
    BY DEF OpImm
  <2>2. CASE op = "slli"
    BY <2>1, <2>2, Zenon
  <2>3. CASE op = "srli"
    BY <2>1, <2>3, Zenon
  <2> QED
    BY <2>2, <2>3
<1>5. /\ Registers(w, X[rs1], OpImm[op], X[rd], 19) /\ Field(w, 20, 5) = imm % 32
      /\ (30 \in w <=> Bit(imm, 10))
  BY <1>1, <1>2, <1>3, Opcodes, ITypeFields
<1>6. imm % 32 = imm /\ ~Bit(imm, 10)
  BY Powers DEF Bit
<1>7. w # {0, 1, 4}
  BY <1>4, <1>5, NopWord DEF Registers
<1>8. Disasm(w, pc) = <<op, rd, rs1, imm>>
  BY <1>2, <1>4, <1>5, <1>6, <1>7 DEF Disasm, Registers
<1>9. Meaning(<<op, rd, rs1, imm>>) = <<op, rd, rs1, imm>>
  BY Mnemonics DEF Meaning
<1> QED
  BY <1>8, <1>9 DEF w

LEMMA OpReadsBack ==
  ASSUME NEW op \in DOMAIN Op, NEW rd \in Names, NEW rs1 \in Names, NEW rs2 \in Names, NEW pc
  PROVE  Meaning(Disasm(Encode(<<op, rd, rs1, rs2>>), pc)) = <<op, rd, rs1, rs2>>
<1> DEFINE w == Encode(<<op, rd, rs1, rs2>>)
           f7 == Op[op][1]
           f3 == Op[op][2]
<1>1. w = rType(f7, X[rs2], X[rs1], f3, X[rd], 51)
  BY Mnemonics DEF Encode
<1>2. /\ f7 \in Unsigned(7) /\ f3 \in Unsigned(3)
      /\ op = IF f7 = 1 THEN MULDIV[f3 + 1]
              ELSE IF f7 = 32 THEN IF f3 = 0 THEN "sub" ELSE "sra" ELSE OP[f3 + 1]
  BY OpNames
<1> HIDE DEF w, f7, f3
<1>3. /\ X[rd] \in Unsigned(5) /\ X[rs1] \in Unsigned(5) /\ X[rs2] \in Unsigned(5)
      /\ regName(X[rd]) = rd /\ regName(X[rs1]) = rs1 /\ regName(X[rs2]) = rs2
  BY RegisterNames
<1>4. /\ Field(w, 25, 7) = f7 /\ Field(w, 20, 5) = X[rs2]
      /\ Registers(w, X[rs1], f3, X[rd], 51)
  BY <1>1, <1>2, <1>3, Opcodes, RTypeFields
<1>5. Disasm(w, pc) = <<op, rd, rs1, rs2>>
  BY <1>2, <1>3, <1>4 DEF Disasm, Registers
<1>6. Meaning(<<op, rd, rs1, rs2>>) = <<op, rd, rs1, rs2>>
  BY Mnemonics DEF Meaning
<1> QED
  BY <1>5, <1>6 DEF w

LEMMA UpperReadsBack ==
  ASSUME NEW op \in DOMAIN Upper, NEW rd \in Names, NEW imm \in Unsigned(20), NEW pc
  PROVE  Meaning(Disasm(Encode(<<op, rd, imm>>), pc)) = <<op, rd, imm>>
<1> DEFINE w == Encode(<<op, rd, imm>>)
<1>1. w = uType(imm, X[rd], Upper[op])
  BY Mnemonics DEF Encode
<1> HIDE DEF w
<1>2. X[rd] \in Unsigned(5) /\ regName(X[rd]) = rd
  BY RegisterNames
<1>3. (op = "lui" /\ Upper[op] = 55) \/ (op = "auipc" /\ Upper[op] = 23)
  <2>1. Upper["lui"] = 55 /\ Upper["auipc"] = 23
    BY DEF Upper
  <2>2. CASE op = "lui"
    BY <2>1, <2>2, Zenon
  <2>3. CASE op = "auipc"
    BY <2>1, <2>3, Zenon
  <2> QED
    BY <2>2, <2>3, Mnemonics
<1>4. Field(w, 7, 5) = X[rd] /\ Field(w, 0, 7) = Upper[op] /\ Field(w, 12, 20) = imm
  BY <1>1, <1>2, <1>3, Opcodes, UTypeFields
<1>5. Disasm(w, pc) = <<op, rd, imm>>
  BY <1>2, <1>3, <1>4 DEF Disasm, uImm
<1>6. Meaning(<<op, rd, imm>>) = <<op, rd, imm>>
  BY Mnemonics DEF Meaning
<1> QED
  BY <1>5, <1>6 DEF w

LEMMA CsrReadsBack ==
  ASSUME NEW op \in DOMAIN Csr, NEW rd \in Names, NEW csr \in DOMAIN CSR, NEW rs1 \in Names,
         NEW pc
  PROVE  Meaning(Disasm(Encode(<<op, rd, csr, rs1>>), pc)) = <<op, rd, csr, rs1>>
<1> DEFINE w == Encode(<<op, rd, csr, rs1>>)
<1>1. w = iType(CSR[csr], X[rs1], Csr[op], X[rd], 115)
  BY Mnemonics DEF Encode
<1> HIDE DEF w
<1>2. X[rd] \in Unsigned(5) /\ X[rs1] \in Unsigned(5) /\ regName(X[rd]) = rd /\ regName(X[rs1]) = rs1
  BY RegisterNames
<1>3. Csr[op] \in Unsigned(3) /\ Csr[op] \in 1..2 /\ Mnemonic(CSR_OPS, Csr[op]) = op
  BY Mnemonics, CsrOpNames DEF Csr
<1>4. CSR[csr] \in Int /\ CSR[csr] % 4096 = CSR[csr] /\ CsrName(CSR[csr]) = csr
  BY CsrNames
<1>5. Registers(w, X[rs1], Csr[op], X[rd], 115) /\ Field(w, 20, 12) = CSR[csr]
  BY <1>1, <1>2, <1>3, <1>4, Opcodes, ITypeFields
<1>6. w \notin {{0, 1, 4, 5, 6}, {0, 1, 4, 5, 6, 20}, {0, 1, 4, 5, 6, 21, 28, 29}}
  BY <1>3, <1>5, SystemWords DEF Registers
<1>7. op # Null
  BY Mnemonics DEF Null
<1>8. Disasm(w, pc) = <<op, rd, csr, rs1>>
  BY <1>2, <1>3, <1>4, <1>5, <1>6, <1>7 DEF Disasm, Registers
<1>9. Meaning(<<op, rd, csr, rs1>>) = <<op, rd, csr, rs1>>
  BY Mnemonics DEF Meaning
<1> QED
  BY <1>8, <1>9 DEF w

LEMMA CsrImmediateReadsBack ==
  ASSUME NEW rd \in Names, NEW csr \in DOMAIN CSR, NEW z \in Unsigned(5), NEW pc
  PROVE  Meaning(Disasm(Encode(<<"csrrwi", rd, csr, z>>), pc)) = <<"csrrwi", rd, csr, z>>
<1> DEFINE w == Encode(<<"csrrwi", rd, csr, z>>)
<1>1. w = iType(CSR[csr], z, 5, X[rd], 115)
  BY Mnemonics DEF Encode
<1> HIDE DEF w
<1>2. X[rd] \in Unsigned(5) /\ regName(X[rd]) = rd
  BY RegisterNames
<1>3. Mnemonic(CSR_OPS, 5) = "csrrwi"
  <2>1. CSR_OPS[6] = "csrrwi"
    BY DEF CSR_OPS
  <2> QED
    BY <2>1, TableLengths DEF Mnemonic
<1>4. CSR[csr] \in Int /\ CSR[csr] % 4096 = CSR[csr] /\ CsrName(CSR[csr]) = csr
  BY CsrNames
<1>5. Registers(w, z, 5, X[rd], 115) /\ Field(w, 20, 12) = CSR[csr]
  BY <1>1, <1>2, <1>4, Opcodes, ITypeFields
<1>6. w \notin {{0, 1, 4, 5, 6}, {0, 1, 4, 5, 6, 20}, {0, 1, 4, 5, 6, 21, 28, 29}}
  BY <1>5, SystemWords DEF Registers
<1>8. Disasm(w, pc) = <<"csrrwi", rd, csr, z>>
  BY <1>2, <1>3, <1>4, <1>5, <1>6 DEF Disasm, Registers, Null
<1>9. Meaning(<<"csrrwi", rd, csr, z>>) = <<"csrrwi", rd, csr, z>>
  BY Mnemonics DEF Meaning
<1> QED
  BY <1>8, <1>9 DEF w

LEMMA EcallReadsBack ==
  ASSUME NEW pc
  PROVE  Meaning(Disasm(Encode(<<"ecall">>), pc)) = <<"ecall">>
<1> DEFINE w == Encode(<<"ecall">>)
<1>1. w = Put(115, 0, 7, 0)
  BY Mnemonics DEF Encode
<1>2. Encode(<<"ecall">>) = w
  OBVIOUS
<1> HIDE DEF w
<1>3. \A b \in Nat : b \in w <=> b \in 0..6 /\ Bit(115, b)
  BY <1>1, InPut
<1>4. /\ Bit(115, 0) /\ Bit(115, 1) /\ ~Bit(115, 2) /\ ~Bit(115, 3)
      /\ Bit(115, 4) /\ Bit(115, 5) /\ Bit(115, 6)
  BY Powers DEF Bit
<1>5. w \subseteq Nat
  BY <1>1 DEF Put
<1>6. w = {0, 1, 4, 5, 6}
  <2>1. \A b \in 0..6 : Bit(115, b) <=> b \in {0, 1, 4, 5, 6}
    BY <1>4
  <2>2. \A b \in Nat : b \in w <=> b \in {0, 1, 4, 5, 6}
    BY <1>3, <2>1
  <2> QED
    BY <1>5, <2>2
<1>7. Field(w, 0, 7) = 115
  <2>1. Holds(w, 0, 7, 115, 0)
    BY <1>3 DEF Holds
  <2> QED
    BY <2>1, WholeField
<1>8. Disasm(w, pc) = <<"ecall">>
  BY <1>6, <1>7 DEF Disasm
<1>9. Meaning(<<"ecall">>) = <<"ecall">>
  BY Mnemonics DEF Meaning
<1> QED
  BY <1>2, <1>8, <1>9

\* A branch within its reach is shown with its target, beqz and bnez included.
LEMMA BranchReadsBack ==
  ASSUME NEW op \in DOMAIN Branch, NEW rs1 \in Names, NEW rs2 \in Names,
         NEW pc \in Int, NEW offset \in Int, -4096 <= offset, offset < 4096, offset % 2 = 0,
         NEW target \in Nat, target = pc + offset, target < AddrSpace,
         NEW w, w = bType(offset, X[rs2], X[rs1], Branch[op], 99),
         NEW text, text = <<op, rs1, rs2, target>>
  PROVE  Meaning(Disasm(w, pc)) = text
<1>1. /\ X[rs1] \in Unsigned(5) /\ X[rs2] \in Unsigned(5)
      /\ regName(X[rs1]) = rs1 /\ regName(X[rs2]) = rs2
  BY RegisterNames
<1>2. Branch[op] \in Unsigned(3) /\ Mnemonic(BRANCH, Branch[op]) = op
  BY BranchNames
<1>3. (Branch[op] = 0 <=> op = "beq") /\ (Branch[op] = 1 <=> op = "bne")
  BY DEF Branch
<1>4. /\ Field(w, 20, 5) = X[rs2] /\ Field(w, 15, 5) = X[rs1] /\ Field(w, 12, 3) = Branch[op]
      /\ Field(w, 0, 7) = 99
      /\ Field(w, 31, 1) = (offset \div 4096) % 2 /\ Field(w, 7, 1) = (offset \div 2048) % 2
      /\ Field(w, 25, 6) = (offset \div 32) % 64 /\ Field(w, 8, 4) = (offset \div 2) % 16
  BY <1>1, <1>2, Opcodes, BTypeFields
<1>5. bImm(w) = offset
  <2>1. bImm(w) = sx(((offset \div 4096) % 2) * 4096 + ((offset \div 2048) % 2) * 2048
                       + ((offset \div 32) % 64) * 32 + ((offset \div 2) % 16) * 2, 13)
    BY <1>4 DEF bImm
  <2>2. sx(offset % 8192, 13) = offset
    BY SignExtended13
  <2> QED
    BY <2>1, <2>2, Pieces
<1>6. (pc + bImm(w)) % AddrSpace = target
  BY <1>5, AssemblerAssumption
<1>7. op # Null
  BY Mnemonics DEF Null
<1>8. CASE rs2 = "zero" /\ op = "beq"
  <2>1. Disasm(w, pc) = <<"beqz", rs1, target>>
    BY <1>1, <1>3, <1>4, <1>6, <1>8 DEF Disasm
  <2>2. Meaning(<<"beqz", rs1, target>>) = <<"beq", rs1, "zero", target>>
    BY Mnemonics DEF Meaning
  <2> QED
    BY <1>8, <2>1, <2>2
<1>9. CASE rs2 = "zero" /\ op = "bne"
  <2>1. Disasm(w, pc) = <<"bnez", rs1, target>>
    BY <1>1, <1>3, <1>4, <1>6, <1>9 DEF Disasm
  <2>2. Meaning(<<"bnez", rs1, target>>) = <<"bne", rs1, "zero", target>>
    BY Mnemonics DEF Meaning
  <2> QED
    BY <1>9, <2>1, <2>2
<1>10. CASE ~(rs2 = "zero" /\ op \in {"beq", "bne"})
  <2>1. Disasm(w, pc) = <<op, rs1, rs2, target>>
    BY <1>1, <1>2, <1>3, <1>4, <1>6, <1>7, <1>10 DEF Disasm
  <2>2. Meaning(<<op, rs1, rs2, target>>) = <<op, rs1, rs2, target>>
    BY Mnemonics DEF Meaning
  <2> QED
    BY <2>1, <2>2
<1> QED
  BY <1>8, <1>9, <1>10

\* A jump within its reach is shown with its target, j included.
LEMMA JalReadsBack ==
  ASSUME NEW rd \in Names,
         NEW pc \in Int, NEW offset \in Int, -(2^20) <= offset, offset < 2^20, offset % 2 = 0,
         NEW target \in Nat, target = pc + offset, target < AddrSpace,
         NEW w, w = jType(offset, X[rd], 111)
  PROVE  Meaning(Disasm(w, pc)) = <<"jal", rd, target>>
<1>1. X[rd] \in Unsigned(5) /\ regName(X[rd]) = rd
  BY RegisterNames
<1>2. /\ Field(w, 7, 5) = X[rd] /\ Field(w, 0, 7) = 111
      /\ Field(w, 31, 1) = (offset \div 2^20) % 2 /\ Field(w, 12, 8) = (offset \div 4096) % 256
      /\ Field(w, 20, 1) = (offset \div 2048) % 2 /\ Field(w, 21, 10) = (offset \div 2) % 1024
  BY <1>1, Opcodes, JTypeFields
<1>3. jImm(w) = offset
  <2>1. jImm(w) = sx(((offset \div 2^20) % 2) * 2^20 + ((offset \div 4096) % 256) * 4096
                       + ((offset \div 2048) % 2) * 2048 + ((offset \div 2) % 1024) * 2, 21)
    BY <1>2, Powers DEF jImm
  <2>2. sx(offset % 2^21, 21) = offset
    BY SignExtended21
  <2> QED
    BY <2>1, <2>2, Pieces
<1>4. (pc + jImm(w)) % AddrSpace = target
  BY <1>3, AssemblerAssumption
<1>5. CASE rd = "zero"
  <2>1. Disasm(w, pc) = <<"j", target>>
    BY <1>1, <1>2, <1>4, <1>5 DEF Disasm
  <2>2. Meaning(<<"j", target>>) = <<"jal", "zero", target>>
    BY Mnemonics DEF Meaning
  <2> QED
    BY <1>5, <2>1, <2>2
<1>6. CASE rd # "zero"
  <2>1. Disasm(w, pc) = <<"jal", rd, target>>
    BY <1>1, <1>2, <1>4, <1>6 DEF Disasm
  <2>2. Meaning(<<"jal", rd, target>>) = <<"jal", rd, target>>
    BY Mnemonics DEF Meaning
  <2> QED
    BY <2>1, <2>2
<1> QED
  BY <1>5, <1>6

LEMMA ParkReadsBack ==
  ASSUME NEW pc \in Nat, pc < AddrSpace
  PROVE  Meaning(Disasm(Encode(Park), pc)) = <<"beq", "zero", "zero", pc>>
<1>1. "zero" \in Names /\ X["zero"] = 0
  BY DEF Names, X
<1>2. "beq" \in DOMAIN Branch /\ Branch["beq"] = 0
  BY DEF Branch
<1> DEFINE w == Encode(Park)
<1>3. w = bType(0, X["zero"], X["zero"], Branch["beq"], 99)
  BY <1>1, <1>2, Mnemonics DEF Encode, Park
<1> HIDE DEF w
<1>4. Meaning(Disasm(w, pc)) = <<"beq", "zero", "zero", pc>>
  <2>1. PICK text : text = <<"beq", "zero", "zero", pc>>
    OBVIOUS
  <2>2. Meaning(Disasm(w, pc)) = text
    BY <1>1, <1>2, <1>3, <2>1, BranchReadsBack
  <2> QED
    BY <2>1, <2>2
<1> QED
  BY <1>4 DEF w

\* Every instruction without a label whose operands fit is shown as it was written.
LEMMA WellFormedReadsBack ==
  ASSUME NEW item \in WellFormed, NEW pc
  PROVE  /\ Meaning(Disasm(Encode(item), pc)) = item
         /\ ~Refers(item) /\ item # Park
<1>1. CASE item \in (DOMAIN OpImm \ {"slli", "srli"}) \X Names \X Names \X Imm12
  <2>1. PICK op \in DOMAIN OpImm \ {"slli", "srli"}, rd \in Names, rs1 \in Names, imm \in Imm12 :
             item = <<op, rd, rs1, imm>>
    BY <1>1
  <2>2. imm \in Int /\ -2048 <= imm /\ imm < 2048
    BY DEF Imm12
  <2>3. Meaning(Disasm(Encode(item), pc)) = item
    BY <2>1, <2>2, ArithmeticReadsBack
  <2> QED
    BY <2>1, <2>3, Mnemonics DEF Refers, Park
<1>2. CASE item \in (DOMAIN Load) \X Names \X Names \X Imm12
  <2>1. PICK op \in DOMAIN Load, rd \in Names, rs1 \in Names, imm \in Imm12 :
             item = <<op, rd, rs1, imm>>
    BY <1>2
  <2>2. imm \in Int /\ -2048 <= imm /\ imm < 2048
    BY DEF Imm12
  <2>3. Meaning(Disasm(Encode(item), pc)) = item
    BY <2>1, <2>2, LoadReadsBack
  <2> QED
    BY <2>1, <2>3, Mnemonics DEF Refers, Park
<1>3. CASE item \in (DOMAIN Store) \X Names \X Names \X Imm12
  <2>1. PICK op \in DOMAIN Store, rs2 \in Names, rs1 \in Names, imm \in Imm12 :
             item = <<op, rs2, rs1, imm>>
    BY <1>3
  <2>2. imm \in Int /\ -2048 <= imm /\ imm < 2048
    BY DEF Imm12
  <2>3. Meaning(Disasm(Encode(item), pc)) = item
    BY <2>1, <2>2, StoreReadsBack
  <2> QED
    BY <2>1, <2>3, Mnemonics DEF Refers, Park
<1>4. CASE item \in {"jalr"} \X Names \X Names \X Imm12
  <2>1. PICK rd \in Names, rs1 \in Names, imm \in Imm12 : item = <<"jalr", rd, rs1, imm>>
    BY <1>4
  <2>2. imm \in Int /\ -2048 <= imm /\ imm < 2048
    BY DEF Imm12
  <2>3. Meaning(Disasm(Encode(item), pc)) = item
    BY <2>1, <2>2, JumpReadsBack
  <2> QED
    BY <2>1, <2>3, Mnemonics DEF Refers, Park
<1>5. CASE item \in {"slli", "srli"} \X Names \X Names \X Imm5
  <2>1. PICK op \in {"slli", "srli"}, rd \in Names, rs1 \in Names, imm \in Imm5 :
             item = <<op, rd, rs1, imm>>
    BY <1>5
  <2>2. imm \in Int /\ 0 <= imm /\ imm < 32
    BY DEF Imm5
  <2>3. Meaning(Disasm(Encode(item), pc)) = item
    BY <2>1, <2>2, ShiftReadsBack
  <2> QED
    BY <2>1, <2>3, Mnemonics DEF Refers, Park
<1>6. CASE item \in (DOMAIN Op) \X Names \X Names \X Names
  <2>1. PICK op \in DOMAIN Op, rd \in Names, rs1 \in Names, rs2 \in Names :
             item = <<op, rd, rs1, rs2>>
    BY <1>6
  <2>2. Meaning(Disasm(Encode(item), pc)) = item
    BY <2>1, OpReadsBack
  <2> QED
    BY <2>1, <2>2, Mnemonics DEF Refers, Park
<1>7. CASE item \in (DOMAIN Upper) \X Names \X Imm20
  <2>1. PICK op \in DOMAIN Upper, rd \in Names, imm \in Imm20 : item = <<op, rd, imm>>
    BY <1>7
  <2>2. imm \in Unsigned(20)
    BY Zenon DEF Imm20, Unsigned
  <2>3. Meaning(Disasm(Encode(item), pc)) = item
    BY <2>1, <2>2, UpperReadsBack
  <2> QED
    BY <2>1, <2>3, Mnemonics DEF Refers, Park
<1>8. CASE item \in (DOMAIN Csr) \X Names \X (DOMAIN CSR) \X Names
  <2>1. PICK op \in DOMAIN Csr, rd \in Names, csr \in DOMAIN CSR, rs1 \in Names :
             item = <<op, rd, csr, rs1>>
    BY <1>8
  <2>2. Meaning(Disasm(Encode(item), pc)) = item
    BY <2>1, CsrReadsBack
  <2> QED
    BY <2>1, <2>2, Mnemonics DEF Refers, Park
<1>9. CASE item \in {"csrrwi"} \X Names \X (DOMAIN CSR) \X Imm5
  <2>1. PICK rd \in Names, csr \in DOMAIN CSR, z \in Imm5 : item = <<"csrrwi", rd, csr, z>>
    BY <1>9
  <2>2. z \in Unsigned(5)
    BY UnsignedIs DEF Imm5
  <2>3. Meaning(Disasm(Encode(item), pc)) = item
    BY <2>1, <2>2, CsrImmediateReadsBack
  <2> QED
    BY <2>1, <2>3, Mnemonics DEF Refers, Park
<1>10. CASE item = <<"ecall">>
  BY <1>10, EcallReadsBack, Mnemonics DEF Refers, Park
<1>11. item \in ((DOMAIN OpImm \ {"slli", "srli"}) \cup DOMAIN Load \cup DOMAIN Store
                  \cup {"jalr"}) \X Names \X Names \X Imm12
       => \/ item \in (DOMAIN OpImm \ {"slli", "srli"}) \X Names \X Names \X Imm12
          \/ item \in (DOMAIN Load) \X Names \X Names \X Imm12
          \/ item \in (DOMAIN Store) \X Names \X Names \X Imm12
          \/ item \in {"jalr"} \X Names \X Names \X Imm12
  OBVIOUS
<1> QED
  BY <1>1, <1>2, <1>3, <1>4, <1>5, <1>6, <1>7, <1>8, <1>9, <1>10, <1>11 DEF WellFormed

-----------------------------------------------------------------------------
(* The programs.                                                           *)

\* The labels of any program; "loop" is the built-in ones'.
AllLabels == Labels \cup {"loop"}

References ==
  ((DOMAIN Branch) \X Names \X Names \X AllLabels) \cup ({"jal"} \X Names \X AllLabels)

Written == WellFormed \cup References \cup {Park}

Aligned(a) == \E k \in 0..size : a = AddressOf(k)

\* Whatever is added to a Program after it was assembled leaves what was
\* assembled as it is: it goes behind, and its labels have their own copy.
AsmInv ==
  /\ size \in Nat /\ AddressOf(size) < AddrSpace
  /\ DOMAIN items \subseteq 0..size - 1
  /\ \A i \in DOMAIN items : items[i] \in Written
  /\ \A l \in DOMAIN labels : Aligned(labels[l])
  /\ \A l \in DOMAIN program.labels : Aligned(program.labels[l])
  /\ DOMAIN program.words \subseteq DOMAIN items
  /\ \A i \in DOMAIN program.words :
       program.words[i] =
         IF Refers(items[i])
           THEN EncodeReference(items[i], program.labels[Target(items[i])] - AddressOf(i))
           ELSE Encode(items[i])
  /\ \A i \in DOMAIN program.words :
       Refers(items[i]) => Target(items[i]) \in DOMAIN program.labels

LEMMA EmptySequence == DOMAIN <<>> = {}
OBVIOUS

LEMMA NoProgramIsEmpty == DOMAIN NoProgram.words = {} /\ DOMAIN NoProgram.labels = {}
BY EmptySequence DEF NoProgram

\* An example is a program of a few items, and its labels are places in it.
Example(e) ==
  /\ Len(e.items) \in 0..15
  /\ \A k \in 1..Len(e.items) : e.items[k] \in Written
  /\ \A l \in DOMAIN e.labels : e.labels[l] \in 0..Len(e.items)

LEMMA AddiIsWritten ==
  ASSUME NEW rd \in Names, NEW rs1 \in Names, NEW imm \in Imm12
  PROVE  Addi(rd, rs1, imm) \in Written
<1>1. "addi" \in DOMAIN OpImm \ {"slli", "srli"}
  BY Mnemonics
<1> QED
  BY <1>1 DEF Addi, Written, WellFormed

LEMMA ExampleNames ==
  {"zero", "sp", "t0", "t1", "t2", "a0", "a1", "a2"} \subseteq Names
BY DEF Names, X

LEMMA ExampleImmediates ==
  {-1, 0, 1, 2, 3, 5, 7, 42, 1000} \subseteq Imm12 /\ 0 \in Imm5 /\ 526336 \in Imm20
<1>1. 526336 \in Imm20
  BY Powers DEF Imm20
<1> QED
  BY <1>1 DEF Imm12, Imm5

LEMMA OthersWritten ==
  /\ \A op \in {"add", "sub", "mul"}, rd \in Names, rs1 \in Names, rs2 \in Names :
       <<op, rd, rs1, rs2>> \in Written
  /\ <<"lui", "sp", 526336>> \in Written
  /\ <<"sw", "t0", "sp", 0>> \in Written /\ <<"lw", "t1", "sp", 0>> \in Written
  /\ <<"csrrwi", "zero", "mcountinhibit", 0>> \in Written
  /\ <<"bne", "t0", "zero", "loop">> \in Written
  /\ Nop \in Written /\ Park \in Written
<1>1. \A op \in {"add", "sub", "mul"}, rd \in Names, rs1 \in Names, rs2 \in Names :
        <<op, rd, rs1, rs2>> \in (DOMAIN Op) \X Names \X Names \X Names
  BY Mnemonics
<1>2. <<"lui", "sp", 526336>> \in (DOMAIN Upper) \X Names \X Imm20
  BY Mnemonics, ExampleNames, ExampleImmediates
<1>4. /\ <<"sw", "t0", "sp", 0>> \in (DOMAIN Store) \X Names \X Names \X Imm12
      /\ <<"lw", "t1", "sp", 0>> \in (DOMAIN Load) \X Names \X Names \X Imm12
  BY ExampleImmediates, Mnemonics, ExampleNames
<1>5. <<"csrrwi", "zero", "mcountinhibit", 0>> \in {"csrrwi"} \X Names \X (DOMAIN CSR) \X Imm5
  BY ExampleImmediates, ExampleNames DEF CSR
<1>6. <<"bne", "t0", "zero", "loop">> \in (DOMAIN Branch) \X Names \X Names \X AllLabels
  BY Mnemonics, ExampleNames DEF AllLabels
<1>7. Nop \in Written
  BY ExampleImmediates, AddiIsWritten, ExampleNames DEF Nop
<1> QED
  BY <1>1, <1>2, <1>4, <1>5, <1>6, <1>7 DEF Written, WellFormed, References

LEMMA Space == Base \in Nat /\ AddrSpace \in Nat /\ Base + 64 <= AddrSpace
BY AssemblerAssumption

LEMMA BuiltIsRight ==
  ASSUME NEW e, Example(e), Built(e), program = NoProgram
  PROVE  AsmInv
<1> DEFINE n == Len(e.items)
<1>1. n \in 0..15 /\ size = n
  BY DEF Example, Built
<1>2. size \in Nat /\ AddressOf(size) < AddrSpace
  <2>1. size \in 0..15
    BY <1>1
  <2> QED
    BY <2>1, Space DEF AddressOf
<1>3. DOMAIN items = 0..n - 1 /\ \A i \in 0..n - 1 : items[i] = e.items[i + 1]
  BY DEF Built
<1>4. \A i \in DOMAIN items : items[i] \in Written
  BY <1>1, <1>3 DEF Example
<1>5. \A l \in DOMAIN labels : Aligned(labels[l])
  BY <1>1 DEF Example, Built, Aligned
<1> QED
  BY <1>1, <1>2, <1>3, <1>4, <1>5, NoProgramIsEmpty DEF AsmInv

LEMMA ForwardingIsExample == Example(Examples["forwarding"])
<1> DEFINE e == Examples["forwarding"]
<1>1. e.items = <<Addi("t0", "zero", 1), Addi("t1", "t0", 1), Addi("t2", "t1", 1),
                  <<"add", "a0", "t2", "t1">>, <<"add", "a1", "a0", "t2">>,
                  <<"sub", "a2", "a1", "a0">>, Park>>
  BY DEF Examples
<1>2. DOMAIN e.labels = {}
  BY EmptySequence DEF Examples
<1>3. /\ Addi("t0", "zero", 1) \in Written /\ Addi("t1", "t0", 1) \in Written
      /\ Addi("t2", "t1", 1) \in Written
  BY AddiIsWritten, ExampleNames, ExampleImmediates
<1>4. /\ <<"add", "a0", "t2", "t1">> \in Written /\ <<"add", "a1", "a0", "t2">> \in Written
      /\ <<"sub", "a2", "a1", "a0">> \in Written /\ Park \in Written
  BY OthersWritten, ExampleNames
<1> HIDE DEF e
<1>5. Len(e.items) = 7
  BY <1>1
<1>6. \A k \in 1..7 : e.items[k] \in Written
  BY <1>1, <1>3, <1>4
<1> QED
  BY <1>2, <1>5, <1>6 DEF Example, e

LEMMA LoaduseIsExample == Example(Examples["loaduse"])
<1> DEFINE e == Examples["loaduse"]
<1>1. e.items = <<<<"lui", "sp", 526336>>, Addi("t0", "zero", 42), <<"sw", "t0", "sp", 0>>, Nop,
                  Nop, Nop, Nop, <<"lw", "t1", "sp", 0>>, <<"add", "t2", "t1", "t1">>,
                  Addi("a0", "t2", 1), Park>>
  BY DEF Examples
<1>2. DOMAIN e.labels = {}
  BY EmptySequence DEF Examples
<1>3. /\ Addi("t0", "zero", 42) \in Written /\ Addi("a0", "t2", 1) \in Written
  BY AddiIsWritten, ExampleNames, ExampleImmediates
<1>4. /\ <<"lui", "sp", 526336>> \in Written /\ <<"sw", "t0", "sp", 0>> \in Written
      /\ Nop \in Written /\ <<"lw", "t1", "sp", 0>> \in Written
      /\ <<"add", "t2", "t1", "t1">> \in Written /\ Park \in Written
  BY OthersWritten, ExampleNames
<1> HIDE DEF e
<1>5. Len(e.items) = 11
  BY <1>1
<1>6. \A k \in 1..11 : e.items[k] \in Written
  BY <1>1, <1>3, <1>4
<1> QED
  BY <1>2, <1>5, <1>6 DEF Example, e

LEMMA MuldivIsExample == Example(Examples["muldiv"])
<1> DEFINE e == Examples["muldiv"]
<1>1. e.items = <<Addi("t0", "zero", 1000), Addi("t1", "zero", 7), <<"mul", "t2", "t0", "t1">>,
                  Addi("a0", "t2", 1), Park>>
  BY DEF Examples
<1>2. DOMAIN e.labels = {}
  BY EmptySequence DEF Examples
<1>3. /\ Addi("t0", "zero", 1000) \in Written /\ Addi("t1", "zero", 7) \in Written
      /\ Addi("a0", "t2", 1) \in Written
  BY AddiIsWritten, ExampleNames, ExampleImmediates
<1>4. /\ <<"mul", "t2", "t0", "t1">> \in Written /\ Park \in Written
  BY OthersWritten, ExampleNames
<1> HIDE DEF e
<1>5. Len(e.items) = 5
  BY <1>1
<1>6. \A k \in 1..5 : e.items[k] \in Written
  BY <1>1, <1>3, <1>4
<1> QED
  BY <1>2, <1>5, <1>6 DEF Example, e

LEMMA BranchIsExample == Example(Examples["branch"])
<1> DEFINE e == Examples["branch"]
<1>1. e.items = <<Addi("t0", "zero", 5), Addi("t1", "zero", 0), Addi("t1", "t1", 3),
                  Addi("t0", "t0", -1), <<"bne", "t0", "zero", "loop">>, Addi("a0", "t1", 0),
                  Park>>
  BY DEF Examples
<1>2. e.labels = [loop |-> 2]
  BY DEF Examples
<1>3. /\ Addi("t0", "zero", 5) \in Written /\ Addi("t1", "zero", 0) \in Written
      /\ Addi("t1", "t1", 3) \in Written /\ Addi("t0", "t0", -1) \in Written
      /\ Addi("a0", "t1", 0) \in Written
  BY AddiIsWritten, ExampleNames, ExampleImmediates
<1>4. /\ <<"bne", "t0", "zero", "loop">> \in Written /\ Park \in Written
  BY OthersWritten, ExampleNames
<1> HIDE DEF e
<1>5. Len(e.items) = 7
  BY <1>1
<1>6. \A k \in 1..7 : e.items[k] \in Written
  BY <1>1, <1>3, <1>4
<1> QED
  BY <1>2, <1>5, <1>6 DEF Example, e

LEMMA SamevalueIsExample == Example(Examples["samevalue"])
<1> DEFINE e == Examples["samevalue"]
<1>1. e.items = <<Addi("t0", "zero", 7), Addi("t0", "zero", 7), Addi("t0", "zero", 7),
                  <<"add", "t1", "zero", "zero">>, <<"add", "t1", "zero", "zero">>,
                  <<"add", "t1", "zero", "zero">>, Park>>
  BY DEF Examples
<1>2. DOMAIN e.labels = {}
  BY EmptySequence DEF Examples
<1>3. /\ Addi("t0", "zero", 7) \in Written
  BY AddiIsWritten, ExampleNames, ExampleImmediates
<1>4. /\ <<"add", "t1", "zero", "zero">> \in Written /\ Park \in Written
  BY OthersWritten, ExampleNames
<1> HIDE DEF e
<1>5. Len(e.items) = 7
  BY <1>1
<1>6. \A k \in 1..7 : e.items[k] \in Written
  BY <1>1, <1>3, <1>4
<1> QED
  BY <1>2, <1>5, <1>6 DEF Example, e

LEMMA CountersIsExample == Example(Examples["counters"])
<1> DEFINE e == Examples["counters"]
<1>1. e.items = <<<<"csrrwi", "zero", "mcountinhibit", 0>>, Addi("t0", "zero", 1),
                  Addi("t1", "zero", 2), <<"add", "t2", "t0", "t1">>,
                  <<"mul", "a0", "t2", "t2">>, Park>>
  BY DEF Examples
<1>2. DOMAIN e.labels = {}
  BY EmptySequence DEF Examples
<1>3. /\ Addi("t0", "zero", 1) \in Written /\ Addi("t1", "zero", 2) \in Written
  BY AddiIsWritten, ExampleNames, ExampleImmediates
<1>4. /\ <<"csrrwi", "zero", "mcountinhibit", 0>> \in Written
      /\ <<"add", "t2", "t0", "t1">> \in Written /\ <<"mul", "a0", "t2", "t2">> \in Written
      /\ Park \in Written
  BY OthersWritten, ExampleNames
<1> HIDE DEF e
<1>5. Len(e.items) = 6
  BY <1>1
<1>6. \A k \in 1..6 : e.items[k] \in Written
  BY <1>1, <1>3, <1>4
<1> QED
  BY <1>2, <1>5, <1>6 DEF Example, e

LEMMA ExamplesAreExamples ==
  ASSUME NEW id \in DOMAIN Examples
  PROVE  Example(Examples[id])
<1>1. DOMAIN Examples = {"forwarding", "loaduse", "muldiv", "branch", "samevalue", "counters"}
  BY DEF Examples
<1> QED
  BY <1>1, ForwardingIsExample, LoaduseIsExample, MuldivIsExample,
     BranchIsExample, SamevalueIsExample, CountersIsExample

-----------------------------------------------------------------------------
(* Every step keeps what was assembled as it is.                           *)

LEMMA ReferencesRefer ==
  ASSUME NEW item
  PROVE  item \in References => Refers(item)
<1>1. ASSUME NEW op \in DOMAIN Branch, NEW rs1, NEW rs2, NEW l
      PROVE  Refers(<<op, rs1, rs2, l>>)
  BY DEF Refers
<1>2. ASSUME NEW rd, NEW l
      PROVE  Refers(<<"jal", rd, l>>)
  BY DEF Refers
<1> QED
  BY <1>1, <1>2 DEF References

LEMMA InitEstablishes == Init => AsmInv
<1>1. ASSUME items = <<>>, size = 0, labels = <<>>, program = NoProgram
      PROVE  AsmInv
  <2>1. DOMAIN items = {} /\ DOMAIN labels = {}
    BY <1>1, EmptySequence
  <2>2. size \in Nat /\ AddressOf(size) < AddrSpace
    BY <1>1, Space DEF AddressOf
  <2> QED
    BY <1>1, <2>1, <2>2, NoProgramIsEmpty DEF AsmInv
<1>2. ASSUME NEW id \in DOMAIN Examples, Built(Examples[id]), program = NoProgram
      PROVE  AsmInv
  BY <1>2, ExamplesAreExamples, BuiltIsRight
<1> QED
  BY <1>1, <1>2 DEF Init

\* A longer program has the places of a shorter one.
LEMMA StaysAligned ==
  ASSUME NEW a, size \in Nat, size' \in Nat, size <= size', Aligned(a)
  PROVE  Aligned(a)'
<1>1. PICK k \in 0..size : a = AddressOf(k)
  BY DEF Aligned
<1>2. k \in 0..size'
  OBVIOUS
<1> QED
  BY <1>1, <1>2 DEF Aligned, AddressOf

LEMMA AddKeeps ==
  ASSUME AsmInv, NEW item \in Written, Add(item)
  PROVE  AsmInv'
<1>1. /\ items' = [i \in DOMAIN items \cup {size} |-> IF i = size THEN item ELSE items[i]]
      /\ size' = size + 1 /\ labels' = labels /\ program' = program
      /\ AddressOf(size + 1) < AddrSpace
  BY DEF Add, Fits
<1>2. size \in Nat /\ size' \in Nat /\ AddressOf(size') < AddrSpace
  BY <1>1 DEF AsmInv
<1>3. DOMAIN items' = DOMAIN items \cup {size}
  BY <1>1
<1>4. DOMAIN items' \subseteq 0..size' - 1
  BY <1>1, <1>2, <1>3 DEF AsmInv
<1>5. \A i \in DOMAIN items : items'[i] = items[i]
  BY <1>1, <1>2 DEF AsmInv
<1>6. \A i \in DOMAIN items' : items'[i] \in Written
  BY <1>1, <1>3 DEF AsmInv
<1>7. (\A l \in DOMAIN labels : Aligned(labels[l]))'
  BY <1>1, <1>2, StaysAligned DEF AsmInv
<1>8. (\A l \in DOMAIN program.labels : Aligned(program.labels[l]))'
  BY <1>1, <1>2, StaysAligned DEF AsmInv
<1>9. DOMAIN program.words \subseteq DOMAIN items
  BY DEF AsmInv
<1>10. \A i \in DOMAIN program.words :
         /\ items'[i] = items[i]
         /\ program.words[i] =
              IF Refers(items[i])
                THEN EncodeReference(items[i], program.labels[Target(items[i])] - AddressOf(i))
                ELSE Encode(items[i])
         /\ Refers(items[i]) => Target(items[i]) \in DOMAIN program.labels
  BY <1>5, <1>9 DEF AsmInv
<1> QED
  BY <1>1, <1>2, <1>3, <1>4, <1>6, <1>7, <1>8, <1>9, <1>10 DEF AsmInv, AddressOf

LEMMA AddNopsKeeps ==
  ASSUME AsmInv, NEW n \in Runs, AddNops(n)
  PROVE  AsmInv'
<1>1. /\ items' = items /\ labels' = labels /\ program' = program
      /\ size' = size + n /\ AddressOf(size + n) < AddrSpace
  BY DEF AddNops, Fits
<1>2. n \in Nat
  BY AssemblerAssumption
<1>3. size \in Nat /\ size' \in Nat /\ size <= size' /\ AddressOf(size') < AddrSpace
  BY <1>1, <1>2 DEF AsmInv
<1>4. DOMAIN items \subseteq 0..size' - 1
  BY <1>3 DEF AsmInv
<1>5. (\A l \in DOMAIN labels : Aligned(labels[l]))'
  BY <1>1, <1>3, StaysAligned DEF AsmInv
<1>6. (\A l \in DOMAIN program.labels : Aligned(program.labels[l]))'
  BY <1>1, <1>3, StaysAligned DEF AsmInv
<1> QED
  BY <1>1, <1>3, <1>4, <1>5, <1>6 DEF AsmInv, AddressOf

LEMMA LabelKeeps ==
  ASSUME AsmInv, NEW name, Label(name)
  PROVE  AsmInv'
<1>1. /\ labels' = [l \in DOMAIN labels \cup {name} |-> IF l = name THEN Pc ELSE labels[l]]
      /\ items' = items /\ size' = size /\ program' = program
  BY DEF Label
<1>2. Aligned(Pc)
  BY DEF AsmInv, Aligned, Pc
<1>3. \A l \in DOMAIN labels' : Aligned(labels'[l])
  BY <1>1, <1>2 DEF AsmInv
<1> QED
  BY <1>1, <1>3 DEF AsmInv, Aligned, AddressOf

LEMMA AssembleKeeps ==
  ASSUME AsmInv, Assemble
  PROVE  AsmInv'
<1>1. /\ program' = [words |-> [i \in DOMAIN items |-> WordOf(i)], labels |-> labels]
      /\ items' = items /\ size' = size /\ labels' = labels
      /\ \A i \in DOMAIN items : Refers(items[i]) => Target(items[i]) \in DOMAIN labels
  BY DEF Assemble
<1>2. /\ program'.labels = labels /\ DOMAIN program'.words = DOMAIN items
      /\ \A i \in DOMAIN items : program'.words[i] = WordOf(i)
  BY <1>1
<1>3. \A l \in DOMAIN program'.labels : Aligned(program'.labels[l])
  BY <1>2 DEF AsmInv
<1> QED
  BY <1>1, <1>2, <1>3 DEF AsmInv, Aligned, AddressOf, WordOf

LEMMA StepKeeps == AsmInv /\ [Next]_vars => AsmInv'
<1> SUFFICES ASSUME AsmInv, [Next]_vars PROVE AsmInv'
  OBVIOUS
<1>1. ASSUME NEW ins \in Plain, Add(ins) PROVE AsmInv'
  <2>1. ins \in Written
    BY AssemblerAssumption DEF Written
  <2> QED
    BY <1>1, <2>1, AddKeeps
<1>2. ASSUME NEW n \in Runs, AddNops(n) PROVE AsmInv'
  BY <1>2, AddNopsKeeps
<1>3. ASSUME NEW name \in Labels, Label(name) PROVE AsmInv'
  BY <1>3, LabelKeeps
<1>4. ASSUME NEW kind \in Kinds, NEW target \in Labels, AddBranch(kind, target) PROVE AsmInv'
  <2>1. PICK op \in DOMAIN Branch, rs1 \in Names, rs2 \in Names : kind = <<op, rs1, rs2>>
    BY AssemblerAssumption
  <2>2. <<op, rs1, rs2, target>> \in Written
    BY DEF Written, References, AllLabels
  <2>3. Add(<<op, rs1, rs2, target>>)
    BY <1>4, <2>1 DEF AddBranch
  <2> QED
    BY <2>2, <2>3, AddKeeps
<1>5. ASSUME NEW rd \in Links, NEW target \in Labels, AddJal(rd, target) PROVE AsmInv'
  <2>1. rd \in Names
    BY AssemblerAssumption
  <2>2. <<"jal", rd, target>> \in Written
    BY <2>1 DEF Written, References, AllLabels
  <2> QED
    BY <1>5, <2>2, AddKeeps DEF AddJal
<1>6. ASSUME AddPark PROVE AsmInv'
  BY <1>6, AddKeeps DEF AddPark, Written
<1>7. ASSUME Assemble PROVE AsmInv'
  BY <1>7, AssembleKeeps
<1>8. CASE UNCHANGED vars
  BY <1>8 DEF vars, AsmInv, Aligned, AddressOf
<1> QED
  BY <1>1, <1>2, <1>3, <1>4, <1>5, <1>6, <1>7, <1>8 DEF Next

\* The list of instructions stays within the words laid out, every label is the
\* address of one of them, and what was returned still is what its items encode to.
THEOREM AssembledIsKept == Spec => []AsmInv
BY InitEstablishes, StepKeeps, PTL DEF Spec

-----------------------------------------------------------------------------
(* The results.                                                            *)

LEMMA PlacesFit ==
  ASSUME AsmInv, NEW i \in DOMAIN items
  PROVE  AddressOf(i) \in Nat /\ AddressOf(i) < AddrSpace
BY Space DEF AsmInv, AddressOf

\* Whatever is assembled without a label is shown as it was written.
THEOREM OperandsAreReadBack == Spec => []OperandsReadBack
<1>1. AsmInv => OperandsReadBack
  <2> SUFFICES ASSUME AsmInv, NEW i \in DOMAIN program.words, ~Refers(items[i])
               PROVE  ReadBack(i) = IF items[i] = Park THEN <<"beq", "zero", "zero", AddressOf(i)>>
                                    ELSE items[i]
    BY DEF OperandsReadBack
  <2>1. i \in DOMAIN items /\ program.words[i] = Encode(items[i]) /\ items[i] \in Written
    BY DEF AsmInv
  <2>2. CASE items[i] = Park
    BY <2>1, <2>2, PlacesFit, ParkReadsBack DEF ReadBack
  <2>3. CASE items[i] \in WellFormed
    BY <2>1, <2>3, WellFormedReadsBack DEF ReadBack
  <2> QED
    BY <2>1, <2>2, <2>3, ReferencesRefer DEF Written
<1> QED
  BY <1>1, AssembledIsKept, PTL

\* Every branch or jump to a label within its reach is shown with the
\* address of that label.
THEOREM TargetsAreReadBack == Spec => []TargetsReadBack
<1>1. AsmInv => TargetsReadBack
  <2> SUFFICES ASSUME AsmInv, NEW i \in DOMAIN program.words, Refers(items[i]),
                      InReach(items[i], program.labels[Target(items[i])] - AddressOf(i))
               PROVE  ReadBack(i) = [items[i] EXCEPT ![Len(items[i])] =
                                       program.labels[Target(items[i])]]
    BY DEF TargetsReadBack
  <2> DEFINE target == program.labels[Target(items[i])]
             offset == target - AddressOf(i)
  <2>1. /\ i \in DOMAIN items /\ items[i] \in Written /\ i \in 0..size - 1 /\ size \in Nat
        /\ program.words[i] = EncodeReference(items[i], offset)
        /\ Aligned(target)
    BY DEF AsmInv
  <2>2. AddressOf(i) \in Nat
    BY <2>1, PlacesFit
  <2>3. PICK k \in 0..size : target = AddressOf(k)
    BY <2>1 DEF Aligned
  <2> HIDE DEF target
  <2>4. target \in Nat /\ target < AddrSpace
    BY <2>1, <2>3, Space DEF AsmInv, AddressOf
  <2>5. offset \in Int /\ offset % 2 = 0 /\ target = AddressOf(i) + offset
    BY <2>1, <2>3, Space DEF AddressOf
  <2>6. items[i] \in References
    BY <2>1, WellFormedReadsBack, Mnemonics DEF Written, Refers, Park
  <2> HIDE DEF offset
  <2>7. InReach(items[i], offset)
    BY DEF offset, target
  <2>8. CASE items[i] \in (DOMAIN Branch) \X Names \X Names \X AllLabels
    <3>1. PICK op \in DOMAIN Branch, rs1 \in Names, rs2 \in Names, l \in AllLabels :
               items[i] = <<op, rs1, rs2, l>>
      BY <2>8
    <3>2. op # "jal"
      BY Mnemonics
    <3>3. -4096 <= offset /\ offset < 4096
      BY <2>7, <3>1, <3>2 DEF InReach
    <3>4. program.words[i] = bType(offset, X[rs2], X[rs1], Branch[op], 99)
      BY <2>1, <3>1, <3>2 DEF EncodeReference
    <3>5. ReadBack(i) = <<op, rs1, rs2, target>>
      <4>1. PICK text : text = <<op, rs1, rs2, target>>
        OBVIOUS
      <4>2. AddressOf(i) \in Int
        BY <2>2
      <4>3. Meaning(Disasm(program.words[i], AddressOf(i))) = text
        BY SMTT(60), <2>4, <2>5, <3>3, <3>4, <4>1, <4>2, BranchReadsBack
      <4> QED
        BY <4>1, <4>3 DEF ReadBack
    <3>6. [items[i] EXCEPT ![Len(items[i])] = target] = <<op, rs1, rs2, target>>
      BY <3>1
    <3> QED
      BY <3>5, <3>6 DEF target
  <2>9. CASE items[i] \in {"jal"} \X Names \X AllLabels
    <3>1. PICK rd \in Names, l \in AllLabels : items[i] = <<"jal", rd, l>>
      BY <2>9
    <3>2. -(2^20) <= offset /\ offset < 2^20
      BY <2>7, <3>1 DEF InReach
    <3>3. program.words[i] = jType(offset, X[rd], 111)
      BY <2>1, <3>1 DEF EncodeReference
    <3>4. ReadBack(i) = <<"jal", rd, target>>
      BY <2>2, <2>4, <2>5, <3>2, <3>3, JalReadsBack DEF ReadBack
    <3>5. [items[i] EXCEPT ![Len(items[i])] = target] = <<"jal", rd, target>>
      BY <3>1
    <3> QED
      BY <3>4, <3>5 DEF target
  <2> QED
    BY <2>6, <2>8, <2>9 DEF References
<1> QED
  BY <1>1, AssembledIsKept, PTL
=============================================================================
