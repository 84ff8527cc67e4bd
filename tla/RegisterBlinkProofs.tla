------------------------ MODULE RegisterBlinkProofs ------------------------
(***************************************************************************)
(* Nothing written between two frames is lost, dimmed or shown twice.      *)
(***************************************************************************)
EXTENDS RegisterBlink, TLAPS

Attributes == [dataLevel : 0..3, dataRead : BOOLEAN, dataBlink : {0, 1, Null}]

BlinkTypeOK ==
  /\ cycle \in Nat
  /\ regs \in [Reg -> Activity(Val \cup {0})]
  /\ prevWrites \in [Reg -> Nat \cup {Null}]
  /\ prevCycle \in Int
  /\ cells \in [Reg -> Attributes]
  /\ unseen \in [Reg -> Nat] /\ reported \in [Reg -> Nat]

\* A register no frame has been drawn of.
Unpainted(r) ==
  /\ prevWrites[r] = Null
  /\ regs[r] = Untouched /\ unseen[r] = 0 /\ reported[r] = 0
  /\ cells[r].dataBlink = Null

\* The reference counts are the writes the frames have accounted for; what was
\* written after the last frame is exactly what it has not seen; and a cell that
\* shows no animation has nothing left to show.
Accounted(r) ==
  /\ prevWrites[r] \in Nat
  /\ prevWrites[r] + unseen[r] = regs[r].writes
  /\ reported[r] = prevWrites[r]
  /\ unseen[r] > 0 <=> regs[r].lastWriteCycle > prevCycle
  /\ unseen[r] = 0 =>
       \/ cells[r].dataBlink = regs[r].writes % 2
       \/ cells[r].dataBlink = Null /\ Decay(regs[r].lastWriteCycle, cycle, DecayCycles) = 0

BlinkInv ==
  /\ BlinkTypeOK
  /\ prevCycle <= cycle
  /\ \A r \in Reg : regs[r].lastWriteCycle <= cycle
  /\ (\A r \in Reg : Unpainted(r)) \/ (\A r \in Reg : Accounted(r))

-----------------------------------------------------------------------------

LEMMA DecayRange ==
  ASSUME NEW e \in Nat \cup {NEVER}, NEW now \in Nat, NEW span \in Nat \ {0}
  PROVE  Decay(e, now, span) \in 0..span
BY DEF Decay, NEVER

\* A highlight never grows with time, nor with the age of its event.
LEMMA DecayAges ==
  ASSUME NEW e \in Nat \cup {NEVER}, NEW now \in Nat, NEW span \in Nat \ {0}, e <= now
  PROVE  Decay(e, now + 1, span) <= Decay(e, now, span)
BY DEF Decay, NEVER

LEMMA DecayRanks ==
  ASSUME NEW e \in Nat \cup {NEVER}, NEW f \in Nat \cup {NEVER}, NEW now \in Nat,
         NEW span \in Nat \ {0}, e <= f, f <= now
  PROVE  Decay(e, now, span) <= Decay(f, now, span)
BY DEF Decay, NEVER

LEMMA DataLevelRange ==
  ASSUME NEW l \in 0..DecayCycles
  PROVE  DataLevel(l) \in 0..3 /\ DataLevel(DecayCycles) = 3
BY BlinkAssumption DEF DataLevel

\* What a frame draws of one register.
LEMMA BlinkOf ==
  ASSUME NEW a \in Activity(Val \cup {0}), NEW now \in Nat, NEW prev \in Nat \cup {Null}
  PROVE  /\ RegBlink(a, now, prev).writesDelta \in Nat
         /\ RegBlink(a, now, prev).level \in 0..DecayCycles
         /\ RegBlink(a, now, prev).parity = a.writes % 2
         /\ RegBlink(a, now, prev).parity \in {0, 1}
         /\ RegBlink(a, now, prev).read \in BOOLEAN
         /\ RegBlink(a, now, prev).writesDelta
              = IF prev = Null \/ a.writes < prev THEN 0 ELSE a.writes - prev
         /\ RegBlink(a, now, prev).level
              = IF RegBlink(a, now, prev).writesDelta > 0 THEN DecayCycles
                ELSE Decay(a.lastWriteCycle, now, DecayCycles)
         /\ Decay(a.lastWriteCycle, now, DecayCycles) \in 0..DecayCycles
<1> DEFINE ramp == Decay(a.lastWriteCycle, now, DecayCycles)
<1>1. a.writes \in Nat /\ a.lastWriteCycle \in Nat \cup {NEVER} /\ a.lastReadCycle \in Nat \cup {NEVER}
  BY DEF Activity
<1>2. ramp \in 0..DecayCycles
  BY <1>1, DecayRange, BlinkAssumption
<1>3. Decay(a.lastReadCycle, now, ReadDecayCycles) \in 0..ReadDecayCycles
  BY <1>1, DecayRange, BlinkAssumption
<1>4. Delta(a.writes, prev) \in Nat
  BY <1>1 DEF Delta, Null
<1>5. Brightness(Delta(a.writes, prev), ramp) \in 0..DecayCycles
  BY <1>2, <1>4, BlinkAssumption DEF Brightness
<1>6. a.writes % 2 \in {0, 1}
  BY <1>1
<1> QED
  BY <1>2, <1>3, <1>4, <1>5, <1>6 DEF RegBlink, Parity, Brightness, Delta

LEMMA CellType ==
  ASSUME NEW b, b.level \in 0..DecayCycles, b.parity \in {0, 1}, b.read \in BOOLEAN
  PROVE  /\ Cell(b) \in Attributes
         /\ Cell(b).dataLevel = DataLevel(b.level)
         /\ Cell(b).dataBlink = IF b.level > 0 THEN b.parity ELSE Null
BY DataLevelRange DEF Cell, Attributes

\* A reference count, and what the frames have reported, for one register.
Comparable(a, prev, sofar) ==
  \/ prev = Null /\ a = Untouched /\ sofar = 0
  \/ prev \in Nat /\ prev <= a.writes /\ sofar = prev

\* A frame accounts for every register, given counts to compare with that are
\* missing or right.
LEMMA FrameKeeps ==
  ASSUME NEW now \in Nat, NEW table \in [Reg -> Activity(Val \cup {0})],
         NEW prev \in [Reg -> Nat \cup {Null}], NEW sofar \in [Reg -> Nat],
         Frame(now, table, prev, sofar), cycle' = now, regs' = table,
         \A r \in Reg : table[r].lastWriteCycle <= now,
         \A r \in Reg : Comparable(table[r], prev[r], sofar[r])
  PROVE  BlinkInv'
<1>1. \A r \in Reg : table[r].writes \in Nat
  BY DEF Activity
<1>2. /\ prevWrites' = [r \in Reg |-> table[r].writes]
      /\ prevCycle' = now
      /\ unseen' = [r \in Reg |-> 0]
  BY DEF Frame, Remember
<1>3. ASSUME NEW r \in Reg
      PROVE  /\ cells'[r] \in Attributes
             /\ reported'[r] = table[r].writes
             /\ \/ cells'[r].dataBlink = table[r].writes % 2
                \/ /\ cells'[r].dataBlink = Null
                   /\ Decay(table[r].lastWriteCycle, now, DecayCycles) = 0
  <2> DEFINE b == RegBlink(table[r], now, prev[r])
             ramp == Decay(table[r].lastWriteCycle, now, DecayCycles)
  <2>1. /\ b.writesDelta \in Nat /\ b.level \in 0..DecayCycles
        /\ b.parity = table[r].writes % 2 /\ b.parity \in {0, 1}
        /\ b.read \in BOOLEAN
        /\ b.writesDelta = IF prev[r] = Null \/ table[r].writes < prev[r]
                           THEN 0 ELSE table[r].writes - prev[r]
        /\ b.level = IF b.writesDelta > 0 THEN DecayCycles ELSE ramp
        /\ ramp \in 0..DecayCycles
    <3>1. prev[r] \in Nat \cup {Null} /\ table[r] \in Activity(Val \cup {0})
      OBVIOUS
    <3> QED
      BY <3>1, BlinkOf
  <2>2. cells'[r] = Cell(b) /\ reported'[r] = sofar[r] + b.writesDelta
    BY DEF Frame
  <2> HIDE DEF b, ramp
  <2>3. Untouched.writes = 0
    BY DEF Untouched
  <2>4. reported'[r] = table[r].writes
    BY <1>1, <2>1, <2>2, <2>3 DEF Null, Comparable
  <2>5. /\ Cell(b) \in Attributes
        /\ Cell(b).dataBlink = IF b.level > 0 THEN b.parity ELSE Null
    BY <2>1, CellType
  <2>6. b.level > 0 \/ ramp = 0
    BY <2>1, BlinkAssumption
  <2> QED
    BY <2>1, <2>2, <2>4, <2>5, <2>6 DEF ramp
<1>4. cells' \in [Reg -> Attributes] /\ reported' \in [Reg -> Nat]
  <2>1. cells' = [r \in Reg |-> cells'[r]] /\ reported' = [r \in Reg |-> reported'[r]]
    BY DEF Frame
  <2> QED
    BY <1>1, <1>3, <2>1
<1>5. BlinkTypeOK'
  <2>1. prevWrites' \in [Reg -> Nat \cup {Null}] /\ unseen' \in [Reg -> Nat]
    BY <1>1, <1>2
  <2>2. cycle' \in Nat /\ prevCycle' \in Int
    BY <1>2
  <2>3. regs' \in [Reg -> Activity(Val \cup {0})]
    OBVIOUS
  <2> QED
    BY <1>4, <2>1, <2>2, <2>3 DEF BlinkTypeOK
<1>6. ASSUME NEW r \in Reg PROVE Accounted(r)'
  BY <1>1, <1>2, <1>3 DEF Accounted, Activity, NEVER
<1> QED
  BY <1>2, <1>5, <1>6 DEF BlinkInv

LEMMA UntouchedTable ==
  /\ ResetActivity(Reg) \in [Reg -> Activity(Val \cup {0})]
  /\ \A r \in Reg : ResetActivity(Reg)[r] = Untouched
  /\ Untouched.lastWriteCycle = NEVER
BY DEF ResetActivity, Activity, Untouched, NEVER

LEMMA InitBlinkInv == Init => BlinkInv
<1> SUFFICES ASSUME Init PROVE BlinkInv
  OBVIOUS
<1>1. Cell(Dark) \in Attributes /\ Cell(Dark).dataBlink = Null
  BY BlinkAssumption DEF Cell, Dark, DataLevel, Attributes
<1>2. BlinkTypeOK
  <2>1. cells \in [Reg -> Attributes] /\ prevWrites \in [Reg -> Nat \cup {Null}]
    BY <1>1 DEF Init, NoFrame
  <2>2. unseen \in [Reg -> Nat] /\ reported \in [Reg -> Nat]
    BY DEF Init, Zero
  <2>3. cycle \in Nat /\ prevCycle \in Int /\ regs \in [Reg -> Activity(Val \cup {0})]
    BY UntouchedTable DEF Init
  <2> QED
    BY <2>1, <2>2, <2>3 DEF BlinkTypeOK
<1>3. \A r \in Reg : Unpainted(r) /\ regs[r].lastWriteCycle <= cycle
  BY <1>1, UntouchedTable DEF Init, Unpainted, NoFrame, Zero, NEVER
<1> QED
  BY <1>2, <1>3 DEF BlinkInv, Init

LEMMA NoteWriteEffect ==
  ASSUME NEW act \in [Reg -> Activity(Val \cup {0})], NEW rd \in Reg, NEW v \in Val, NEW c \in Nat
  PROVE  NoteWrite(act, rd, v, c) \in [Reg -> Activity(Val \cup {0})]
BY DEF NoteWrite, Activity

LEMMA NoteWriteFields ==
  ASSUME NEW act \in [Reg -> Activity(Val \cup {0})], NEW rd \in Reg, NEW v, NEW c, NEW r \in Reg
  PROVE  /\ NoteWrite(act, rd, v, c)[r].writes
              = IF r = rd /\ r # 0 THEN act[r].writes + 1 ELSE act[r].writes
         /\ NoteWrite(act, rd, v, c)[r].lastWriteCycle
              = IF r = rd /\ r # 0 THEN c ELSE act[r].lastWriteCycle
BY DEF NoteWrite, Activity

LEMMA NoteReadEffect ==
  ASSUME NEW act \in [Reg -> Activity(Val \cup {0})], NEW rs \in Reg, NEW c \in Nat
  PROVE  NoteRead(act, rs, c) \in [Reg -> Activity(Val \cup {0})]
BY DEF NoteRead, Activity

LEMMA NoteReadFields ==
  ASSUME NEW act \in [Reg -> Activity(Val \cup {0})], NEW rs \in Reg, NEW c, NEW r \in Reg
  PROVE  /\ NoteRead(act, rs, c)[r].writes = act[r].writes
         /\ NoteRead(act, rs, c)[r].lastWriteCycle = act[r].lastWriteCycle
BY DEF NoteRead, Activity

\* What a cycle does to one register.
LEMMA CycleActivity ==
  ASSUME BlinkTypeOK, NEW rd \in Reg, NEW v \in Val, NEW rs1 \in Reg, NEW rs2 \in Reg,
         Cycle(rd, v, rs1, rs2)
  PROVE  /\ regs' \in [Reg -> Activity(Val \cup {0})]
         /\ \A r \in Reg :
              /\ regs'[r].writes = IF r = rd /\ r # 0 THEN regs[r].writes + 1 ELSE regs[r].writes
              /\ regs'[r].lastWriteCycle
                   = IF r = rd /\ r # 0 THEN cycle + 1 ELSE regs[r].lastWriteCycle
<1> DEFINE W == NoteWrite(regs, rd, v, cycle + 1)
           R == NoteRead(W, rs1, cycle + 1)
<1>1. regs' = NoteRead(R, rs2, cycle + 1)
  BY DEF Cycle
<1>2. regs \in [Reg -> Activity(Val \cup {0})]
  BY DEF BlinkTypeOK
<1>3. cycle + 1 \in Nat
  <2>1. cycle \in Nat
    BY DEF BlinkTypeOK
  <2> QED
    BY <2>1
<1>4. W \in [Reg -> Activity(Val \cup {0})]
  BY <1>2, <1>3, NoteWriteEffect
<1>5. R \in [Reg -> Activity(Val \cup {0})]
  BY <1>3, <1>4, NoteReadEffect
<1>6. regs' \in [Reg -> Activity(Val \cup {0})]
  BY <1>1, <1>3, <1>5, NoteReadEffect
<1>7. ASSUME NEW r \in Reg
      PROVE  /\ regs'[r].writes = IF r = rd /\ r # 0 THEN regs[r].writes + 1 ELSE regs[r].writes
             /\ regs'[r].lastWriteCycle
                  = IF r = rd /\ r # 0 THEN cycle + 1 ELSE regs[r].lastWriteCycle
  <2>1. /\ W[r].writes = IF r = rd /\ r # 0 THEN regs[r].writes + 1 ELSE regs[r].writes
        /\ W[r].lastWriteCycle = IF r = rd /\ r # 0 THEN cycle + 1 ELSE regs[r].lastWriteCycle
    BY <1>2, NoteWriteFields
  <2>2. R[r].writes = W[r].writes /\ R[r].lastWriteCycle = W[r].lastWriteCycle
    BY <1>4, NoteReadFields
  <2>3. regs'[r].writes = R[r].writes /\ regs'[r].lastWriteCycle = R[r].lastWriteCycle
    BY <1>1, <1>5, NoteReadFields
  <2> QED
    BY <2>1, <2>2, <2>3
<1> QED
  BY <1>6, <1>7

LEMMA CycleKeeps ==
  ASSUME BlinkInv, NEW rd \in Reg, NEW v \in Val, NEW rs1 \in Reg, NEW rs2 \in Reg,
         Cycle(rd, v, rs1, rs2)
  PROVE  BlinkInv'
<1>1. /\ BlinkTypeOK /\ prevCycle <= cycle
      /\ \A r \in Reg : regs[r].lastWriteCycle <= cycle
  BY DEF BlinkInv
<1>2. \A r \in Reg : Accounted(r)
  BY DEF BlinkInv, BlinkTypeOK, Cycle, Unpainted, NoFrame
<1>3. /\ regs' \in [Reg -> Activity(Val \cup {0})]
      /\ \A r \in Reg :
           /\ regs'[r].writes = IF r = rd /\ r # 0 THEN regs[r].writes + 1 ELSE regs[r].writes
           /\ regs'[r].lastWriteCycle
                = IF r = rd /\ r # 0 THEN cycle + 1 ELSE regs[r].lastWriteCycle
  BY <1>1, CycleActivity
<1>4. /\ cycle' = cycle + 1
      /\ unseen' = [r \in Reg |-> IF r = rd /\ r # 0 THEN unseen[r] + 1 ELSE unseen[r]]
      /\ UNCHANGED <<prevWrites, prevCycle, cells, reported>>
  BY DEF Cycle, panelVars
<1>5. BlinkTypeOK'
  <2>1. unseen' \in [Reg -> Nat] /\ cycle' \in Nat
    BY <1>1, <1>4 DEF BlinkTypeOK
  <2> QED
    BY <1>1, <1>3, <1>4, <2>1 DEF BlinkTypeOK
<1>6. \A r \in Reg : regs[r].writes \in Nat /\ regs[r].lastWriteCycle \in Nat \cup {NEVER}
  BY <1>1 DEF BlinkTypeOK, Activity
<1>7. ASSUME NEW r \in Reg PROVE Accounted(r)' /\ regs'[r].lastWriteCycle <= cycle'
  <2>1. CASE r = rd /\ r # 0
    <3>1. /\ regs'[r].writes = regs[r].writes + 1 /\ regs'[r].lastWriteCycle = cycle + 1
          /\ unseen'[r] = unseen[r] + 1
      BY <1>3, <1>4, <2>1
    <3>2. unseen[r] \in Nat /\ cycle \in Nat /\ prevCycle \in Int
      BY <1>1 DEF BlinkTypeOK
    <3> QED
      BY <1>1, <1>2, <1>4, <1>6, <3>1, <3>2 DEF Accounted
  <2>2. CASE ~(r = rd /\ r # 0)
    <3>1. /\ regs'[r].writes = regs[r].writes /\ unseen'[r] = unseen[r]
          /\ regs'[r].lastWriteCycle = regs[r].lastWriteCycle
      BY <1>3, <1>4, <2>2
    <3>2. cycle \in Nat /\ prevCycle \in Int
      BY <1>1 DEF BlinkTypeOK
    <3>3. /\ Decay(regs[r].lastWriteCycle, cycle + 1, DecayCycles)
               <= Decay(regs[r].lastWriteCycle, cycle, DecayCycles)
          /\ Decay(regs[r].lastWriteCycle, cycle + 1, DecayCycles) \in 0..DecayCycles
      <4>1. /\ regs[r].lastWriteCycle \in Nat \cup {NEVER} /\ regs[r].lastWriteCycle <= cycle
            /\ cycle + 1 \in Nat /\ DecayCycles \in Nat \ {0}
        BY <1>1, <1>6, <3>2, BlinkAssumption
      <4>2. Decay(regs[r].lastWriteCycle, cycle + 1, DecayCycles)
              <= Decay(regs[r].lastWriteCycle, cycle, DecayCycles)
        BY <3>2, <4>1, DecayAges
      <4> QED
        BY <4>1, <4>2, DecayRange
    <3>4. Decay(regs[r].lastWriteCycle, cycle, DecayCycles) = 0
            => Decay(regs[r].lastWriteCycle, cycle + 1, DecayCycles) = 0
      <4>1. Decay(regs[r].lastWriteCycle, cycle, DecayCycles) \in 0..DecayCycles
        BY <1>6, <3>2, DecayRange, BlinkAssumption
      <4> QED
        BY <3>3, <4>1, BlinkAssumption
    <3>5. regs'[r].lastWriteCycle <= cycle'
      BY <1>1, <1>4, <1>6, <3>1, <3>2 DEF NEVER
    <3> QED
      BY <1>2, <1>4, <3>1, <3>4, <3>5 DEF Accounted
  <2> QED
    BY <2>1, <2>2
<1>8. prevCycle' <= cycle'
  BY <1>1, <1>4 DEF BlinkTypeOK
<1> QED
  BY <1>5, <1>7, <1>8 DEF BlinkInv

LEMMA BlinkInvariant == Spec => []BlinkInv
<1>1. BlinkInv /\ [Next]_vars => BlinkInv'
  <2> SUFFICES ASSUME BlinkInv, [Next]_vars PROVE BlinkInv'
    OBVIOUS
  <2>0. BlinkTypeOK /\ prevCycle <= cycle
    BY DEF BlinkInv
  <2>1. ASSUME NEW rd \in Reg, NEW v \in Val, NEW rs1 \in Reg, NEW rs2 \in Reg,
               Cycle(rd, v, rs1, rs2)
        PROVE  BlinkInv'
    BY <2>1, CycleKeeps
  <2>2. CASE Paint
    <3> PICK now, table, prev, sofar :
           now = cycle /\ table = regs /\ prev = prevWrites /\ sofar = reported
      OBVIOUS
    <3>1. Frame(now, table, prev, sofar) /\ cycle' = now /\ regs' = table
      <4>1. ~(cycle < prevCycle)
        BY <2>0 DEF BlinkTypeOK
      <4> QED
        BY <2>2, <4>1 DEF Paint, machineVars
    <3>2. \A r \in Reg : regs[r].writes \in Nat
      BY <2>0 DEF BlinkTypeOK, Activity
    <3>3. \A r \in Reg : Comparable(table[r], prev[r], sofar[r])
      BY <2>0, <3>2 DEF BlinkInv, BlinkTypeOK, Unpainted, Accounted, Comparable
    <3>4. \A r \in Reg : table[r].lastWriteCycle <= now
      BY DEF BlinkInv
    <3>5. /\ now \in Nat /\ table \in [Reg -> Activity(Val \cup {0})]
          /\ prev \in [Reg -> Nat \cup {Null}] /\ sofar \in [Reg -> Nat]
      BY <2>0 DEF BlinkTypeOK
    <3> QED
      BY <3>1, <3>3, <3>4, <3>5, FrameKeeps
  <2>3. CASE Load
    <3> DEFINE T == ResetActivity(Reg)
    <3>1. Frame(0, T, NoFrame, Zero) /\ cycle' = 0 /\ regs' = T
      BY <2>3 DEF Load
    <3>2. /\ NoFrame \in [Reg -> Nat \cup {Null}] /\ Zero \in [Reg -> Nat]
          /\ \A r \in Reg : NoFrame[r] = Null /\ Zero[r] = 0
      BY DEF NoFrame, Zero
    <3>3. T \in [Reg -> Activity(Val \cup {0})]
          /\ \A r \in Reg : T[r] = Untouched /\ T[r].lastWriteCycle <= 0
      BY UntouchedTable DEF NEVER
    <3>4. \A r \in Reg : Comparable(Untouched, NoFrame[r], Zero[r])
      BY <3>2 DEF Comparable
    <3> HIDE DEF T
    <3> QED
      BY <3>1, <3>2, <3>3, <3>4, FrameKeeps
  <2>4. CASE UNCHANGED vars
    BY <2>4 DEF BlinkInv, BlinkTypeOK, Unpainted, Accounted, vars, machineVars, panelVars
  <2> QED
    BY <2>1, <2>2, <2>3, <2>4 DEF Next
<1> QED
  BY <1>1, InitBlinkInv, PTL DEF Spec

-----------------------------------------------------------------------------

\* The frames since a load report every write but those no frame has seen.
THEOREM WritesAreReported == Spec => []EveryWriteReported
<1>1. BlinkInv => EveryWriteReported
  BY DEF BlinkInv, BlinkTypeOK, Unpainted, Accounted, Untouched, EveryWriteReported, Activity
<1> QED
  BY <1>1, BlinkInvariant, PTL

\* What a repaint shows of one register: its news, and full if it has news, else its age.
LEMMA PaintShows ==
  ASSUME BlinkInv, Paint, NEW r \in Reg
  PROVE  /\ regs[r].lastWriteCycle \in Nat \cup {NEVER} /\ regs[r].lastWriteCycle <= cycle
         /\ cycle \in Nat /\ unseen[r] \in Nat
         /\ blinks'[r].writesDelta = unseen[r]
         /\ blinks'[r].level = IF unseen[r] > 0 THEN DecayCycles
                               ELSE Decay(regs[r].lastWriteCycle, cycle, DecayCycles)
         /\ Decay(regs[r].lastWriteCycle, cycle, DecayCycles) \in 0..DecayCycles
         /\ cells'[r].dataLevel = DataLevel(blinks'[r].level)
         /\ cells'[r].dataBlink = IF blinks'[r].level > 0 THEN regs[r].writes % 2 ELSE Null
<1>1. BlinkTypeOK /\ prevCycle <= cycle /\ regs[r].lastWriteCycle <= cycle
  BY DEF BlinkInv
<1>2. cycle \in Nat /\ unseen[r] \in Nat /\ prevCycle \in Int
  BY <1>1 DEF BlinkTypeOK
<1>3. prevWrites[r] \in Nat \cup {Null} /\ regs[r] \in Activity(Val \cup {0})
  BY <1>1 DEF BlinkTypeOK
<1>4. regs[r].writes \in Nat /\ regs[r].lastWriteCycle \in Nat \cup {NEVER}
  BY <1>3 DEF Activity
<1>5. blinks'[r] = RegBlink(regs[r], cycle, prevWrites[r]) /\ cells'[r] = Cell(blinks'[r])
  <2>1. ~(cycle < prevCycle)
    BY <1>1, <1>2
  <2> QED
    BY <2>1 DEF Paint, Frame
<1> DEFINE b == RegBlink(regs[r], cycle, prevWrites[r])
           ramp == Decay(regs[r].lastWriteCycle, cycle, DecayCycles)
<1>6. /\ b.writesDelta \in Nat /\ b.level \in 0..DecayCycles
      /\ b.parity = regs[r].writes % 2 /\ b.parity \in {0, 1}
      /\ b.read \in BOOLEAN
      /\ b.writesDelta = IF prevWrites[r] = Null \/ regs[r].writes < prevWrites[r]
                         THEN 0 ELSE regs[r].writes - prevWrites[r]
      /\ b.level = IF b.writesDelta > 0 THEN DecayCycles ELSE ramp
      /\ ramp \in 0..DecayCycles
  BY <1>2, <1>3, BlinkOf
<1> HIDE DEF b, ramp
<1>7. \/ prevWrites[r] = Null /\ unseen[r] = 0
      \/ prevWrites[r] \in Nat /\ prevWrites[r] + unseen[r] = regs[r].writes
  BY DEF BlinkInv, Unpainted, Accounted
<1>8. b.writesDelta = unseen[r]
  BY <1>2, <1>4, <1>6, <1>7 DEF Null
<1>9. /\ Cell(b).dataLevel = DataLevel(b.level)
      /\ Cell(b).dataBlink = IF b.level > 0 THEN b.parity ELSE Null
  BY <1>6, CellType
<1> QED
  BY <1>1, <1>2, <1>4, <1>5, <1>6, <1>8, <1>9 DEF b, ramp

\* A register written since the last frame is drawn at full brightness.
THEOREM NewsIsDrawnBright == Spec => NewsIsBright
<1>1. BlinkInv => [Paint => \A r \in Reg : unseen[r] > 0 => cells'[r].dataLevel = 3]_vars
  <2> SUFFICES ASSUME BlinkInv, Paint, NEW r \in Reg, unseen[r] > 0
               PROVE  cells'[r].dataLevel = 3
    OBVIOUS
  <2>1. blinks'[r].level = DecayCycles /\ cells'[r].dataLevel = DataLevel(blinks'[r].level)
    BY PaintShows
  <2>2. DecayCycles \in 0..DecayCycles
    BY BlinkAssumption
  <2> QED
    BY <2>1, <2>2, DataLevelRange
<1> QED
  BY <1>1, BlinkInvariant, PTL DEF NewsIsBright

\* The register written last is never drawn dimmer than another.
THEOREM NewestIsDrawnBrightest == Spec => NewestIsBrightest
<1>1. BlinkInv => [Paint => \A r, s \in Reg :
        regs[r].lastWriteCycle >= regs[s].lastWriteCycle
          => blinks'[r].level >= blinks'[s].level]_vars
  <2> SUFFICES ASSUME BlinkInv, Paint, NEW r \in Reg, NEW s \in Reg,
                      regs[r].lastWriteCycle >= regs[s].lastWriteCycle
               PROVE  blinks'[r].level >= blinks'[s].level
    OBVIOUS
  <2> DEFINE shown(q) == Decay(regs[q].lastWriteCycle, cycle, DecayCycles)
  <2>1. /\ regs[r].lastWriteCycle \in Nat \cup {NEVER} /\ regs[r].lastWriteCycle <= cycle
        /\ cycle \in Nat /\ unseen[r] \in Nat
        /\ blinks'[r].level = IF unseen[r] > 0 THEN DecayCycles ELSE shown(r)
        /\ shown(r) \in 0..DecayCycles
    BY PaintShows
  <2>2. /\ regs[s].lastWriteCycle \in Nat \cup {NEVER}
        /\ unseen[s] \in Nat
        /\ blinks'[s].level = IF unseen[s] > 0 THEN DecayCycles ELSE shown(s)
        /\ shown(s) \in 0..DecayCycles
    BY PaintShows
  <2>3. shown(s) <= shown(r)
    BY <2>1, <2>2, DecayRanks, BlinkAssumption DEF NEVER
  <2>4. unseen[s] > 0 => unseen[r] > 0
    <3>1. CASE \A q \in Reg : Unpainted(q)
      BY <3>1 DEF Unpainted
    <3>2. CASE \A q \in Reg : Accounted(q)
      <4>1. prevCycle \in Int
        BY DEF BlinkInv, BlinkTypeOK
      <4> QED
        BY <2>1, <2>2, <3>2, <4>1 DEF Accounted, NEVER
    <3> QED
      BY <3>1, <3>2 DEF BlinkInv
  <2> HIDE DEF shown
  <2> QED
    BY <2>1, <2>2, <2>3, <2>4, BlinkAssumption
<1> QED
  BY <1>1, BlinkInvariant, PTL DEF NewestIsBrightest

\* The animation restarts only for a register written since the last frame.
THEOREM RestartsAreWrites == Spec => NoSpuriousRestart
<1>1. BlinkInv => [Paint => \A r \in Reg :
        cells'[r].dataBlink \notin {cells[r].dataBlink, Null} => unseen[r] > 0]_vars
  <2> SUFFICES ASSUME BlinkInv, Paint, NEW r \in Reg, ~(unseen[r] > 0)
               PROVE  cells'[r].dataBlink \in {cells[r].dataBlink, Null}
    OBVIOUS
  <2> DEFINE ramp == Decay(regs[r].lastWriteCycle, cycle, DecayCycles)
  <2>1. /\ unseen[r] \in Nat
        /\ blinks'[r].level = ramp
        /\ cells'[r].dataBlink = IF blinks'[r].level > 0 THEN regs[r].writes % 2 ELSE Null
    BY PaintShows
  <2> HIDE DEF ramp
  <2>2. unseen[r] = 0
    BY <2>1
  <2>3. CASE Unpainted(r)
    <3>1. Decay(NEVER, cycle, DecayCycles) = 0
      BY DEF Decay
    <3>2. ramp = 0
      BY <2>3, <3>1 DEF Unpainted, Untouched, ramp
    <3> QED
      BY <2>1, <3>2
  <2>4. CASE Accounted(r)
    <3>1. cells[r].dataBlink = regs[r].writes % 2 \/ ramp = 0
      BY <2>2, <2>4 DEF Accounted, ramp
    <3> QED
      BY <2>1, <3>1
  <2> QED
    BY <2>3, <2>4 DEF BlinkInv
<1> QED
  BY <1>1, BlinkInvariant, PTL DEF NoSpuriousRestart
=============================================================================
