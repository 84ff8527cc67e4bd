----------------------------- MODULE SocProofs -----------------------------
(***************************************************************************)
(* The properties of SocProperties, proved for every register count, bus   *)
(* width, RAM size and program.                                            *)
(***************************************************************************)
EXTENDS SocProperties, SimHost, SequenceTheorems, TLAPS

-----------------------------------------------------------------------------
(* Types.                                                                  *)

LEMMA CoreInitType == CoreInit => CoreTypeOK
BY CoreAssumption, SMT DEF CoreInit, CoreTypeOK, StarvedX, QuietM, IdleBus, FetchBus, Bubble,
   Slot, ZeroWord, Word, Reg

LEMMA CoreResetType == CoreReset => CoreTypeOK'
BY CoreAssumption, SMT DEF CoreReset, CoreTypeOK, StarvedX, QuietM, IdleBus, FetchBus, Bubble,
   Slot, ZeroWord, Word, Reg

LEMMA CoreEdgeType ==
  ASSUME CoreTypeOK, CoreEdge
  PROVE  CoreTypeOK'
<1>1. x' \in StageX /\ m' \in StageM
  BY CoreAssumption DEF CoreEdge
<1>2. xm' \in Slot
  BY DEF CoreEdge, CoreTypeOK, NextSlot, Bubble, Slot, StageX
<1>3. regfile' \in [Reg -> Val]
  BY DEF CoreEdge, CoreTypeOK, StageM
<1>4. wrote' \in [Reg -> Nat]
  BY DEF CoreEdge, CoreTypeOK, StageM
<1>5. bus' \in BusTraffic /\ dphase' \in BusTraffic /\ hwdata' \in Word
  BY DEF CoreEdge, CoreTypeOK
<1> QED
  BY <1>1, <1>2, <1>3, <1>4, <1>5 DEF CoreTypeOK

LEMMA NoteWriteType ==
  ASSUME NEW act \in [Reg -> Activity(Val)], NEW rd \in Reg, NEW v \in Val, NEW c \in Nat
  PROVE  NoteWrite(act, rd, v, c) \in [Reg -> Activity(Val)]
BY DEF NoteWrite, Activity

LEMMA NoteReadType ==
  ASSUME NEW act \in [Reg -> Activity(Val)], NEW rs \in Reg, NEW c \in Nat
  PROVE  NoteRead(act, rs, c) \in [Reg -> Activity(Val)]
BY DEF NoteRead, Activity

LEMMA OverwriteType ==
  ASSUME NEW ram \in [RamOffset -> Byte], NEW off \in Nat, NEW n \in 1..Lanes,
         NEW data \in Word
  PROVE  Overwrite(ram, off, n, data) \in [RamOffset -> Byte]
<1> SUFFICES ASSUME NEW a \in RamOffset, a \in off..off + n - 1
             PROVE  data[a - off] \in Byte
  BY DEF Overwrite
<1>1. n \in 1..Lanes /\ Lanes \in Nat
  BY CoreAssumption
<1>2. a - off \in 0..Lanes - 1
  BY <1>1 DEF RamOffset
<1> QED
  BY <1>2 DEF Word

LEMMA WordAtType ==
  ASSUME NEW ram \in [RamOffset -> Byte], NEW off \in RamOffset
  PROVE  WordAt(ram, off) \in Word
<1> SUFFICES ASSUME NEW i \in 0..Lanes - 1
             PROVE  (off - (off % Lanes)) + i \in RamOffset
  BY DEF WordAt, Word
<1>1. Lanes \in Nat \ {0} /\ MemSize \in Nat
  BY CoreAssumption, SocAssumption
<1>2. (off - (off % Lanes)) + Lanes <= MemSize
  BY SocAssumption
<1>3. off % Lanes \in 0..Lanes - 1 /\ off % Lanes <= off
  BY <1>1 DEF RamOffset
<1> QED
  BY <1>1, <1>2, <1>3 DEF RamOffset

LEMMA PrintItemType ==
  ASSUME NEW addr \in Nat, NEW data \in Word
  PROVE  PrintItem(addr, data) \in Seq(Printed)
<1>1. [char |-> data[0]] \in Printed
  BY CoreAssumption DEF Word, Printed
<1>2. [u32 |-> data] \in Printed
  BY DEF Printed
<1> QED
  BY <1>1, <1>2 DEF PrintItem

LEMMA InitType == Init => TypeOK
<1> SUFFICES ASSUME Init PROVE TypeOK
  OBVIOUS
<1>1. CoreTypeOK
  BY CoreInitType DEF Init, ProbedInit
<1>2. regs \in [Reg -> Activity(Val)]
  BY CoreAssumption DEF Init, ResetActivity, Untouched, Activity, NEVER
<1>3. mem \in [RamOffset -> Byte] /\ stored \in [RamOffset -> Byte]
  BY CoreAssumption DEF Init
<1>4. hrdata \in Word /\ exit_code \in Word
  BY CoreAssumption DEF Init, ZeroWord, Word
<1>5. MachineTypeOK
  <2>1. shadow \in Slot /\ aphase \in BusTraffic
    BY <1>1 DEF Init, ProbedInit, CoreTypeOK, Bubble, Slot
  <2>2. output \in Seq(Printed) /\ printed \in Seq(Printed) /\ drained \in Seq(Printed)
    BY DEF Init
  <2>3. cycles \in Nat /\ retired \in Nat /\ exited \in BOOLEAN
    BY DEF Init
  <2> QED
    BY <1>2, <1>3, <1>4, <2>1, <2>2, <2>3 DEF Init, MachineTypeOK
<1>6. CallTypeOK
  BY DEF Init, CallTypeOK, NoCall, NoResult, Results
<1> QED
  BY <1>1, <1>5, <1>6 DEF TypeOK

LEMMA ServiceType ==
  ASSUME MachineTypeOK, NEW wdata \in Word, ServiceDataPhase(aphase, wdata)
  PROVE  /\ mem' \in [RamOffset -> Byte]
         /\ hrdata' \in Word
         /\ output' \in Seq(Printed)
         /\ exited' \in BOOLEAN
         /\ exit_code' \in Word
<1> USE DEF MachineTypeOK
<1>0. aphase.addr \in Nat /\ aphase.n \in 1..Lanes
  BY CoreAssumption
<1>1. CASE ~aphase.active /\ UNCHANGED <<mem, hrdata, output, exited, exit_code>>
  BY <1>1
<1>2. CASE BusWrite(aphase, wdata) /\ UNCHANGED hrdata
  <2>1. mem' \in [RamOffset -> Byte]
    <3>1. CASE InRam(aphase.addr)
      <4>1. aphase.addr - MemBase \in Nat
        BY <1>0, <3>1, SocAssumption DEF InRam
      <4> QED
        BY <1>0, <1>2, <3>1, <4>1, OverwriteType DEF BusWrite
    <3>2. CASE ~InRam(aphase.addr)
      BY <1>2, <3>2 DEF BusWrite
    <3> QED
      BY <3>1, <3>2
  <2>2. output' \in Seq(Printed)
    BY <1>0, <1>2, PrintItemType, ConcatProperties DEF BusWrite
  <2>3. exited' \in BOOLEAN /\ exit_code' \in Word
    BY <1>2 DEF BusWrite
  <2> QED
    BY <1>2, <2>1, <2>2, <2>3
<1>3. CASE hrdata' = BusRead(aphase.addr) /\ UNCHANGED <<mem, output, exited, exit_code>>
  <2>1. CASE InRam(aphase.addr)
    <3>1. aphase.addr - MemBase \in RamOffset
      BY <1>0, <2>1, SocAssumption DEF InRam, RamOffset
    <3> QED
      BY <1>3, <2>1, <3>1, WordAtType DEF BusRead
  <2>2. CASE ~InRam(aphase.addr)
    BY <1>3, <2>2, CoreAssumption DEF BusRead, ZeroWord, Word
  <2> QED
    BY <2>1, <2>2
<1> QED
  BY <1>1, <1>2, <1>3 DEF ServiceDataPhase

LEMMA HistoryType ==
  ASSUME MachineTypeOK, CoreTypeOK', History
  PROVE  /\ stored' \in [RamOffset -> Byte]
         /\ printed' \in Seq(Printed)
         /\ drained' \in Seq(Printed)
<1>1. dphase'.addr \in Nat /\ dphase'.n \in 1..Lanes /\ hwdata' \in Word
  BY CoreAssumption DEF CoreTypeOK
<1>2. stored' \in [RamOffset -> Byte]
  <2>1. CASE Stores(dphase') /\ InRam(dphase'.addr)
    <3>1. dphase'.addr - MemBase \in Nat
      BY <1>1, <2>1, SocAssumption DEF InRam
    <3> QED
      BY <1>1, <2>1, <3>1, OverwriteType DEF History, MachineTypeOK
  <2>2. CASE ~(Stores(dphase') /\ InRam(dphase'.addr))
    BY <2>2 DEF History, MachineTypeOK
  <2> QED
    BY <2>1, <2>2
<1>3. printed' \in Seq(Printed)
  BY <1>1, PrintItemType, ConcatProperties DEF History, MachineTypeOK
<1> QED
  BY <1>2, <1>3 DEF History, MachineTypeOK

LEMMA StepType ==
  ASSUME TypeOK, Step
  PROVE  CoreTypeOK' /\ MachineTypeOK'
<1> USE DEF TypeOK
<1>1. CoreTypeOK'
  BY CoreEdgeType DEF Step, ProbedEdge
<1>2. x \in StageX /\ x' \in StageX /\ m \in StageM /\ hwdata' \in Word
  BY <1>1 DEF CoreTypeOK
<1>3. shadow' \in Slot
  BY <1>2 DEF Step, ProbedEdge, ShadowEdge, Issue, MachineTypeOK, Slot, StageX
<1>4. cycles' \in Nat /\ retired' \in Nat
  BY DEF Step, CountRetirements, MachineTypeOK
<1>5. regs' \in [Reg -> Activity(Val)]
  <2>1. cycles + 1 \in Nat
    BY DEF MachineTypeOK
  <2>2. Written(regs) \in [Reg -> Activity(Val)]
    BY <1>2, <2>1, NoteWriteType DEF Written, MachineTypeOK, StageM
  <2>3. Read(Written(regs)) \in [Reg -> Activity(Val)]
    BY <1>2, <2>1, <2>2, NoteReadType DEF Read, StageX
  <2> QED
    BY <2>3 DEF Step
<1>6. /\ mem' \in [RamOffset -> Byte]
      /\ hrdata' \in Word
      /\ output' \in Seq(Printed)
      /\ exited' \in BOOLEAN
      /\ exit_code' \in Word
  BY <1>2, ServiceType DEF Step
<1>7. /\ stored' \in [RamOffset -> Byte]
      /\ printed' \in Seq(Printed)
      /\ drained' \in Seq(Printed)
  BY <1>1, HistoryType DEF Step
<1>8. aphase' \in BusTraffic
  BY <1>1 DEF Step, CaptureAddressPhase, CoreTypeOK
<1>9. fault' \in FaultKinds \cup {"none"}
  BY DEF Step, RaiseFault, MachineTypeOK
<1> QED
  BY <1>1, <1>3, <1>4, <1>5, <1>6, <1>7, <1>8, <1>9 DEF MachineTypeOK

LEMMA IterateCallType ==
  ASSUME TypeOK, Iterate
  PROVE  CallTypeOK'
<1>1. call \in Calls
  BY DEF Iterate, Idle, TypeOK, CallTypeOK
<1>2. cycles' \in Nat /\ retired' \in Nat /\ cycles' = cycles + 1
      /\ retired' \in {retired, retired + 1}
  BY StepType DEF Iterate, MachineTypeOK, Step, CountRetirements
<1>3. StopReason \in {"none", "Cycles", "Exit", "Breakpoint", "Retired", "Fault"}
  BY DEF StopReason
<1>4. CASE StopReason = "none"
  <2>1. call.left # 1
    BY <1>4 DEF StopReason
  <2>2. call.left - 1 \in Nat \ {0}
    BY <1>1, <2>1 DEF Calls
  <2>3. call' = [call EXCEPT !.left = call.left - 1] /\ result' = result
    BY <1>4 DEF Iterate
  <2> QED
    BY <1>1, <2>2, <2>3 DEF TypeOK, CallTypeOK, Calls
<1>5. CASE StopReason # "none"
  <2>1. call' = NoCall
    BY <1>5 DEF Iterate
  <2>2. result' = [reason |-> StopReason, cycles |-> cycles' - call.c0,
                   retired |-> retired' - call.r0]
    BY <1>5 DEF Iterate
  <2>3. cycles' - call.c0 \in Int /\ retired' - call.r0 \in Int
    BY <1>1, <1>2 DEF Calls
  <2>4. result' \in Results
    BY <1>3, <2>2, <2>3 DEF Results
  <2> QED
    BY <2>1, <2>4 DEF CallTypeOK
<1> QED
  BY <1>4, <1>5

LEMMA CallType ==
  ASSUME TypeOK, NEW op \in {"run", "step_instruction"}, NEW n \in Budgets,
         NEW bp \in Pc \cup {NoBreak}, Call(op, n, bp)
  PROVE  TypeOK'
<1>1. CoreTypeOK' /\ MachineTypeOK'
  BY DEF Call, TypeOK, CoreTypeOK, MachineTypeOK, coreVars
<1>2. cycles \in Nat /\ retired \in Nat /\ n \in Nat
  BY SocAssumption DEF TypeOK, MachineTypeOK
<1>3. CASE n = 0
  BY <1>1, <1>3 DEF Call, TypeOK, CallTypeOK, Results
<1>4. CASE n # 0
  <2>1. call' = [op |-> op, left |-> n, bp |-> bp, c0 |-> cycles, r0 |-> retired]
        /\ result' = NoResult
    BY <1>4 DEF Call
  <2>2. call' \in Calls
    BY <1>2, <1>4, <2>1 DEF Calls
  <2> QED
    BY <1>1, <2>1, <2>2 DEF TypeOK, CallTypeOK, NoResult, Results
<1> QED
  BY <1>3, <1>4

LEMMA ResetType ==
  ASSUME TypeOK, HardReset
  PROVE  TypeOK'
<1>1. CoreTypeOK'
  BY CoreResetType DEF HardReset, ProbedReset
<1>2. regs' \in [Reg -> Activity(Val)]
  BY CoreAssumption DEF HardReset, ResetActivity, Untouched, Activity, NEVER
<1>3. hrdata' \in Word /\ exit_code' \in Word
  BY CoreAssumption DEF HardReset, ZeroWord, Word
<1>4. shadow' \in Slot /\ aphase' \in BusTraffic
  BY <1>1 DEF HardReset, ProbedReset, CaptureAddressPhase, CoreTypeOK, Bubble, Slot
<1>5. output' \in Seq(Printed) /\ printed' \in Seq(Printed) /\ drained' \in Seq(Printed)
  BY DEF HardReset
<1>6. cycles' \in Nat /\ retired' \in Nat /\ exited' \in BOOLEAN
  BY DEF HardReset
<1>7. MachineTypeOK'
  BY <1>2, <1>3, <1>4, <1>5, <1>6 DEF HardReset, MachineTypeOK, TypeOK
<1>8. CallTypeOK'
  BY DEF HardReset, TypeOK, CallTypeOK, NoResult, Results
<1> QED
  BY <1>1, <1>7, <1>8 DEF TypeOK

LEMMA LoadedType ==
  ASSUME NEW ram \in [RamOffset -> Byte], NEW image \in Images, NEW off \in Nat
  PROVE  Loaded(ram, image, off) \in [RamOffset -> Byte]
<1>1. image \in Seq(Byte)
  BY SocAssumption
<1>2. \A i \in DOMAIN image : image[i] \in Byte
  BY <1>1
<1> QED
  BY <1>2 DEF Loaded

LEMMA LoadBinType ==
  ASSUME TypeOK, NEW image \in Images, NEW addr \in LoadAddrs, LoadBin(image, addr)
  PROVE  TypeOK'
<1>1. LoadOffset(addr) \in Nat
  BY SocAssumption DEF LoadOffset, IO_EXIT
<1>2. mem' \in [RamOffset -> Byte] /\ stored' \in [RamOffset -> Byte]
  BY <1>1, LoadedType DEF LoadBin, TypeOK, MachineTypeOK
<1>3. CoreTypeOK'
  BY DEF LoadBin, TypeOK, CoreTypeOK, coreVars
<1>4. MachineTypeOK'
  BY <1>2 DEF LoadBin, TypeOK, MachineTypeOK
<1>5. CallTypeOK'
  BY DEF LoadBin, TypeOK, CallTypeOK, NoResult, Results
<1> QED
  BY <1>3, <1>4, <1>5 DEF TypeOK

LEMMA WriteMemType ==
  ASSUME TypeOK, NEW addr \in PokeAddrs, NEW data \in Word, WriteMem(addr, data)
  PROVE  TypeOK'
<1>1. mem' \in [RamOffset -> Byte] /\ stored' \in [RamOffset -> Byte]
  <2>1. CASE InRam(addr)
    <3>1. addr - MemBase \in Nat /\ Lanes \in 1..Lanes
      <4>1. addr \in Nat /\ MemBase \in Nat /\ Lanes \in Nat \ {0}
        BY CoreAssumption, SocAssumption
      <4> QED
        BY <2>1, <4>1 DEF InRam
    <3>2. /\ mem' = Overwrite(mem, addr - MemBase, Lanes, data)
          /\ stored' = Overwrite(stored, addr - MemBase, Lanes, data)
      BY <2>1 DEF WriteMem
    <3> QED
      BY <3>1, <3>2, OverwriteType DEF TypeOK, MachineTypeOK
  <2>2. CASE ~InRam(addr)
    BY <2>2 DEF WriteMem, TypeOK, MachineTypeOK
  <2> QED
    BY <2>1, <2>2
<1>2. CoreTypeOK'
  BY DEF WriteMem, TypeOK, CoreTypeOK, coreVars
<1>3. MachineTypeOK'
  BY <1>1 DEF WriteMem, TypeOK, MachineTypeOK
<1>4. CallTypeOK'
  BY DEF WriteMem, TypeOK, CallTypeOK, NoResult, Results
<1> QED
  BY <1>2, <1>3, <1>4 DEF TypeOK

LEMMA DrainType ==
  ASSUME TypeOK, DrainOutput
  PROVE  TypeOK'
<1>1. drained' \in Seq(Printed) /\ output' \in Seq(Printed)
  BY ConcatProperties DEF DrainOutput, TypeOK, MachineTypeOK
<1>2. CoreTypeOK'
  BY DEF DrainOutput, TypeOK, CoreTypeOK, coreVars
<1>3. MachineTypeOK'
  BY <1>1 DEF DrainOutput, TypeOK, MachineTypeOK
<1>4. CallTypeOK'
  BY DEF DrainOutput, TypeOK, CallTypeOK, NoResult, Results
<1> QED
  BY <1>2, <1>3, <1>4 DEF TypeOK

LEMMA StutterType == TypeOK /\ UNCHANGED vars => TypeOK'
BY DEF TypeOK, CoreTypeOK, MachineTypeOK, CallTypeOK, vars, coreVars, socVars

\* Every variable of the core and of the SoC stays within its type, whatever
\* the core presents and the host calls.
THEOREM TypeCorrect == Spec => []TypeOK
<1>1. Init => TypeOK
  BY InitType
<1>2. TypeOK /\ [Next]_vars => TypeOK'
  <2> SUFFICES ASSUME TypeOK, [Next]_vars PROVE TypeOK'
    OBVIOUS
  <2>1. CASE StepCycle
    BY <2>1, StepType DEF StepCycle, TypeOK, CallTypeOK, NoResult, Results
  <2>2. ASSUME NEW n \in Budgets, NEW bp \in Pc \cup {NoBreak}, CallRun(n, bp)
        PROVE  TypeOK'
    BY <2>2, CallType DEF CallRun
  <2>3. ASSUME NEW n \in Budgets, CallStepInstruction(n)
        PROVE  TypeOK'
    BY <2>3, CallType DEF CallStepInstruction
  <2>4. CASE Iterate
    BY <2>4, StepType, IterateCallType DEF Iterate, TypeOK
  <2>5. CASE HardReset
    BY <2>5, ResetType
  <2>6. ASSUME NEW image \in Images, NEW addr \in LoadAddrs, LoadBin(image, addr)
        PROVE  TypeOK'
    BY <2>6, LoadBinType
  <2>7. ASSUME NEW addr \in PokeAddrs, NEW data \in Word, WriteMem(addr, data)
        PROVE  TypeOK'
    BY <2>7, WriteMemType
  <2>8. CASE DrainOutput
    BY <2>8, DrainType
  <2>9. CASE UNCHANGED vars
    BY <2>9, StutterType
  <2> QED
    BY <2>1, <2>2, <2>3, <2>4, <2>5, <2>6, <2>7, <2>8, <2>9 DEF Next
<1> QED
  BY <1>1, <1>2, PTL DEF Spec

-----------------------------------------------------------------------------
(* The register tracker against the register file.                         *)

LEMMA NoteWriteFields ==
  ASSUME NEW act \in [Reg -> Activity(Val)], NEW rd \in Reg \ {0}, NEW v, NEW c,
         NEW r \in Reg
  PROVE  NoteWrite(act, rd, v, c)[r]
           = IF r = rd
             THEN [writes |-> act[rd].writes + 1, lastWriteCycle |-> c,
                   lastReadCycle |-> act[rd].lastReadCycle, lastWriteValue |-> v]
             ELSE act[r]
BY DEF NoteWrite

LEMMA NoteReadFields ==
  ASSUME NEW act \in [Reg -> Activity(Val)], NEW rs \in Reg, NEW c, NEW r \in Reg
  PROVE  /\ NoteRead(act, rs, c)[r].writes = act[r].writes
         /\ NoteRead(act, rs, c)[r].lastWriteCycle = act[r].lastWriteCycle
         /\ NoteRead(act, rs, c)[r].lastWriteValue = act[r].lastWriteValue
         /\ NoteRead(act, rs, c)[r].lastReadCycle
              = IF r = rs /\ r # 0 THEN c ELSE act[r].lastReadCycle
BY DEF NoteRead, Activity

\* What one step does to the activity of one register.
LEMMA StepActivity ==
  ASSUME TypeOK, Step, NEW r \in Reg \ {0}
  PROVE  /\ regs'[r].writes = IF m.wen /\ m.rd = r THEN regs[r].writes + 1
                                                   ELSE regs[r].writes
         /\ regs'[r].lastWriteCycle = IF m.wen /\ m.rd = r THEN cycles + 1
                                                           ELSE regs[r].lastWriteCycle
         /\ regs'[r].lastWriteValue = IF m.wen /\ m.rd = r THEN m.result
                                                           ELSE regs[r].lastWriteValue
         /\ regs'[r].lastReadCycle = IF x'.valid /\ r \in {x'.rs1, x'.rs2}
                                     THEN cycles + 1 ELSE regs[r].lastReadCycle
<1> DEFINE W == Written(regs)
           R == NoteRead(W, x'.rs1, cycles + 1)
<1>1. /\ regs \in [Reg -> Activity(Val)] /\ cycles + 1 \in Nat
      /\ m \in StageM /\ x' \in StageX
  BY CoreAssumption DEF TypeOK, MachineTypeOK, CoreTypeOK, Step, ProbedEdge, CoreEdge
<1>2. x'.rs1 \in Reg /\ x'.rs2 \in Reg /\ m.rd \in Reg /\ m.result \in Val
  BY <1>1 DEF StageX, StageM
<1>3. m.wen => m.rd \in Reg \ {0}
  BY <1>1 DEF StageM
<1>4. W \in [Reg -> Activity(Val)]
  BY <1>1, <1>2, NoteWriteType DEF Written
<1>5. R \in [Reg -> Activity(Val)]
  BY <1>1, <1>2, <1>4, NoteReadType
<1>6. /\ W[r].writes = IF m.wen /\ m.rd = r THEN regs[r].writes + 1 ELSE regs[r].writes
      /\ W[r].lastWriteCycle = IF m.wen /\ m.rd = r THEN cycles + 1
                                                    ELSE regs[r].lastWriteCycle
      /\ W[r].lastWriteValue = IF m.wen /\ m.rd = r THEN m.result
                                                    ELSE regs[r].lastWriteValue
      /\ W[r].lastReadCycle = regs[r].lastReadCycle
  <2>1. CASE m.wen
    <3>1. W = NoteWrite(regs, m.rd, m.result, cycles + 1)
      BY <2>1 DEF Written
    <3>2. W[r] = IF r = m.rd
                 THEN [writes |-> regs[m.rd].writes + 1, lastWriteCycle |-> cycles + 1,
                       lastReadCycle |-> regs[m.rd].lastReadCycle,
                       lastWriteValue |-> m.result]
                 ELSE regs[r]
      BY <1>1, <1>3, <2>1, <3>1, NoteWriteFields
    <3> HIDE DEF W
    <3>3. CASE r = m.rd
      BY <2>1, <3>2, <3>3
    <3>4. CASE r # m.rd
      BY <2>1, <3>2, <3>4
    <3> QED
      BY <3>3, <3>4
  <2>2. CASE ~m.wen
    BY <2>2 DEF Written
  <2> QED
    BY <2>1, <2>2
<1>7. regs' = IF x'.valid THEN NoteRead(R, x'.rs2, cycles + 1) ELSE W
  BY DEF Step, Read
<1> HIDE DEF W, R
<1>8. CASE ~x'.valid
  BY <1>6, <1>7, <1>8
<1>9. CASE x'.valid
  <2>1. /\ R[r].writes = W[r].writes
        /\ R[r].lastWriteCycle = W[r].lastWriteCycle
        /\ R[r].lastWriteValue = W[r].lastWriteValue
        /\ R[r].lastReadCycle = IF r = x'.rs1 THEN cycles + 1 ELSE W[r].lastReadCycle
    BY <1>2, <1>4, NoteReadFields DEF R
  <2>2. /\ regs'[r].writes = R[r].writes
        /\ regs'[r].lastWriteCycle = R[r].lastWriteCycle
        /\ regs'[r].lastWriteValue = R[r].lastWriteValue
        /\ regs'[r].lastReadCycle = IF r = x'.rs2 THEN cycles + 1 ELSE R[r].lastReadCycle
    BY <1>2, <1>5, <1>7, <1>9, NoteReadFields
  <2> QED
    BY <1>6, <1>9, <2>1, <2>2
<1> QED
  BY <1>8, <1>9

\* The actions that neither clock nor reset the machine leave this alone.
Unclocked ==
  UNCHANGED <<coreVars, shadow, cycles, retired, regs, aphase, exited, exit_code, fault>>

LEMMA NextCases ==
  ASSUME [Next]_vars
  PROVE  Step \/ HardReset \/ Unclocked
BY DEF Next, StepCycle, CallRun, CallStepInstruction, Call, Iterate, LoadBin, WriteMem, DrainOutput,
       Unclocked, vars, coreVars, socVars

\* Every architectural write is counted once, and the value its strobe carried
\* is the one in the register file.
THEOREM TrackerFaithful == Spec => []TrackerAgrees
<1>1. Init => TrackerAgrees
  BY DEF Init, ProbedInit, CoreInit, ResetActivity, Untouched, TrackerAgrees
<1>2. TypeOK /\ TrackerAgrees /\ [Next]_vars => TrackerAgrees'
  <2> SUFFICES ASSUME TypeOK, TrackerAgrees, [Next]_vars, NEW r \in Reg \ {0}
               PROVE  regs'[r].writes = wrote'[r] /\ regfile'[r] = regs'[r].lastWriteValue
    BY DEF TrackerAgrees
  <2>1. CASE Step
    <3>1. regfile \in [Reg -> Val] /\ wrote \in [Reg -> Nat]
      BY DEF TypeOK, CoreTypeOK
    <3>2. /\ regfile'[r] = IF m.wen /\ m.rd = r THEN m.result ELSE regfile[r]
          /\ wrote'[r] = IF m.wen /\ m.rd = r THEN wrote[r] + 1 ELSE wrote[r]
      BY <2>1, <3>1 DEF Step, ProbedEdge, CoreEdge
    <3> QED
      BY <2>1, <3>2, StepActivity DEF TrackerAgrees
  <2>2. CASE HardReset
    BY <2>2 DEF HardReset, ProbedReset, CoreReset, ResetActivity, Untouched
  <2>3. CASE Unclocked
    BY <2>3 DEF Unclocked, coreVars, TrackerAgrees
  <2> QED
    BY <2>1, <2>2, <2>3, NextCases
<1> QED
  BY <1>1, <1>2, TypeCorrect, PTL DEF Spec

\* A register is outlined as read exactly in the cycles in which X names it.
THEOREM ReadsFaithful == Spec => []ReadsAttributed
<1> DEFINE Past == \A r \in Reg \ {0} : regs[r].lastReadCycle <= cycles
           IInv == ReadsAttributed /\ Past
<1>1. Init => IInv
  BY DEF Init, ProbedInit, CoreInit, StarvedX, ResetActivity, Untouched, NEVER, ReadsAttributed
<1>2. TypeOK /\ IInv /\ [Next]_vars => IInv'
  <2> SUFFICES ASSUME TypeOK, IInv, [Next]_vars, NEW r \in Reg \ {0}
               PROVE  /\ regs'[r].lastReadCycle <= cycles'
                      /\ regs'[r].lastReadCycle = cycles' <=> x'.valid /\ r \in {x'.rs1, x'.rs2}
    BY DEF ReadsAttributed
  <2>0. cycles \in Nat /\ regs[r].lastReadCycle \in Int /\ regs[r].lastReadCycle <= cycles
    BY DEF TypeOK, MachineTypeOK, Activity, NEVER
  <2>1. CASE Step
    <3>1. cycles' = cycles + 1
      BY <2>1 DEF Step
    <3>2. CASE x'.valid /\ r \in {x'.rs1, x'.rs2}
      <4>1. regs'[r].lastReadCycle = cycles + 1
        BY <2>1, <3>2, StepActivity
      <4> QED
        BY <2>0, <3>1, <3>2, <4>1
    <3>3. CASE ~(x'.valid /\ r \in {x'.rs1, x'.rs2})
      <4>1. regs'[r].lastReadCycle = regs[r].lastReadCycle
        BY <2>1, <3>3, StepActivity
      <4> QED
        BY <2>0, <3>1, <3>3, <4>1
    <3> QED
      BY <3>2, <3>3
  <2>2. CASE HardReset
    BY <2>2 DEF HardReset, ProbedReset, CoreReset, StarvedX, ResetActivity, Untouched, NEVER
  <2>3. CASE Unclocked
    BY <2>3 DEF Unclocked, coreVars, ReadsAttributed
  <2> QED
    BY <2>1, <2>2, <2>3, NextCases
<1>3. IInv => ReadsAttributed
  OBVIOUS
<1> HIDE DEF IInv
<1> QED
  BY <1>1, <1>2, <1>3, TypeCorrect, PTL DEF Spec

-----------------------------------------------------------------------------
(* The probe against the pipeline it shadows.                              *)

\* The X|M shadow names the instruction that is really in M, through stalls,
\* traps and resets, and no write fires over a slot it calls empty.
THEOREM ShadowFaithful == Spec => []ShadowAgrees
<1>1. Init => ShadowAgrees
  BY DEF Init, ProbedInit, CoreInit, QuietM, Bubble, ShadowAgrees
<1>2. ShadowAgrees /\ [Next]_vars => ShadowAgrees'
  <2> SUFFICES ASSUME ShadowAgrees, [Next]_vars PROVE ShadowAgrees'
    OBVIOUS
  <2>1. CASE Step
    <3>1. m'.wen => xm'.valid
      BY <2>1 DEF Step, ProbedEdge, CoreEdge, Presented
    <3>2. xm' = NextSlot /\ shadow' = IF m.stall THEN shadow
                    ELSE [valid |-> Issue, pc |-> IF Issue THEN x.pc ELSE shadow.pc]
      BY <2>1 DEF Step, ProbedEdge, CoreEdge, ShadowEdge
    <3>3. CASE m.stall
      BY <3>1, <3>2, <3>3 DEF NextSlot, ShadowAgrees
    <3>4. CASE ~m.stall /\ Issue
      BY <3>1, <3>2, <3>4 DEF NextSlot, Issue, ShadowAgrees
    <3>5. CASE ~m.stall /\ ~Issue
      BY <3>1, <3>2, <3>5 DEF NextSlot, Issue, Bubble, ShadowAgrees
    <3> QED
      BY <3>3, <3>4, <3>5
  <2>2. CASE HardReset
    BY <2>2 DEF HardReset, ProbedReset, CoreReset, QuietM, Bubble, ShadowAgrees
  <2>3. CASE Unclocked
    BY <2>3 DEF Unclocked, coreVars, ShadowAgrees
  <2> QED
    BY <2>1, <2>2, <2>3, NextCases
<1> QED
  BY <1>1, <1>2, PTL DEF Spec

\* What the decoder uses, M can take.
UsedIsTaken == x.use => ~m.stall

LEMMA UsedIsTakenAlways == Spec => []UsedIsTaken
<1>1. Init => UsedIsTaken
  BY DEF Init, ProbedInit, CoreInit, QuietM, UsedIsTaken
<1>2. UsedIsTaken /\ [Next]_vars => UsedIsTaken'
  <2> SUFFICES ASSUME UsedIsTaken, [Next]_vars PROVE UsedIsTaken'
    OBVIOUS
  <2>1. CASE Step
    BY <2>1 DEF Step, ProbedEdge, CoreEdge, Presented, UsedIsTaken
  <2>2. CASE HardReset
    BY <2>2 DEF HardReset, ProbedReset, CoreReset, QuietM, UsedIsTaken
  <2>3. CASE Unclocked
    BY <2>3 DEF Unclocked, coreVars, UsedIsTaken
  <2> QED
    BY <2>1, <2>2, <2>3, NextCases
<1> QED
  BY <1>1, <1>2, PTL DEF Spec

\* Only the edges of the clock count up.
LEMMA ClockedSteps ==
  ASSUME TypeOK, [Next]_vars, Clocked
  PROVE  Step
<1>1. cycles \in Nat
  BY DEF TypeOK, MachineTypeOK
<1>2. cycles' # 0 /\ cycles' # cycles
  BY <1>1 DEF Clocked
<1>3. ~HardReset /\ ~Unclocked
  BY <1>2 DEF HardReset, Unclocked
<1> QED
  BY <1>3, NextCases

\* The instruction that the count goes up for is the one that M shows after the same
\* edge, unless a trap takes its place.
THEOREM RetirementsAreSeen == Spec => RetirementSeenInM
<1>1. TypeOK /\ UsedIsTaken /\ [Next]_vars
        => [Clocked /\ retired' # retired
              => /\ retired' = retired + 1
                 /\ m.trapSoon \/ (shadow'.valid /\ shadow'.pc = x.pc)]_vars
  <2> SUFFICES ASSUME TypeOK, UsedIsTaken, [Next]_vars, Clocked, retired' # retired
               PROVE  /\ retired' = retired + 1
                      /\ m.trapSoon \/ (shadow'.valid /\ shadow'.pc = x.pc)
    OBVIOUS
  <2>1. Step
    BY ClockedSteps
  <2>2. x.ret /\ retired' = retired + 1
    BY <2>1 DEF Step, CountRetirements
  <2>3. x.use /\ ~m.stall
    BY <2>2 DEF TypeOK, CoreTypeOK, StageX, UsedIsTaken
  <2>4. shadow' = [valid |-> Issue, pc |-> IF Issue THEN x.pc ELSE shadow.pc]
    BY <2>1, <2>3 DEF Step, ProbedEdge, ShadowEdge
  <2> QED
    BY <2>2, <2>3, <2>4 DEF Issue
<1> QED
  BY <1>1, TypeCorrect, UsedIsTakenAlways, PTL DEF Spec, RetirementSeenInM

-----------------------------------------------------------------------------
(* The bus: what is in flight is what the core presented, and RAM is what  *)
(* its stores made of it.                                                  *)

BusInv == aphase = bus /\ mem = stored

\* A store reaches RAM, the console and exit in one data phase; nothing else does.
LEMMA StepBus ==
  ASSUME BusInv, Step
  PROVE  /\ BusInv'
         /\ output' = IF Stores(bus) THEN output \o PrintItem(bus.addr, hwdata') ELSE output
         /\ printed' = IF Stores(bus) THEN printed \o PrintItem(bus.addr, hwdata') ELSE printed
         /\ drained' = drained
         /\ bus.active /\ ~bus.write => hrdata' = BusRead(bus.addr) /\ mem' = mem
<1>1. dphase' = bus /\ aphase' = bus' /\ ServiceDataPhase(bus, hwdata')
  BY DEF Step, ProbedEdge, CoreEdge, CaptureAddressPhase, BusInv
<1>2. /\ stored' = IF Stores(bus) /\ InRam(bus.addr)
                   THEN Overwrite(stored, bus.addr - MemBase, bus.n, hwdata') ELSE stored
      /\ printed' = IF Stores(bus) THEN printed \o PrintItem(bus.addr, hwdata') ELSE printed
      /\ drained' = drained
  BY <1>1 DEF Step, History
<1>3. CASE Stores(bus)
  <2>1. BusWrite(bus, hwdata')
    BY <1>1, <1>3 DEF ServiceDataPhase, Stores
  <2> QED
    BY <1>1, <1>2, <1>3, <2>1 DEF BusWrite, BusInv, Stores
<1>4. CASE ~Stores(bus)
  BY <1>1, <1>2, <1>4 DEF ServiceDataPhase, BusInv, Stores
<1> QED
  BY <1>3, <1>4

LEMMA BusInvariant == Spec => []BusInv
<1>1. Init => BusInv
  BY DEF Init, BusInv
<1>2. BusInv /\ [Next]_vars => BusInv'
  <2> SUFFICES ASSUME BusInv, [Next]_vars PROVE BusInv'
    OBVIOUS
  <2>1. CASE Step
    BY <2>1, StepBus
  <2>2. CASE HardReset
    BY <2>2 DEF HardReset, CaptureAddressPhase, BusInv
  <2>3. ASSUME NEW image \in Images, NEW addr \in LoadAddrs, LoadBin(image, addr)
        PROVE  BusInv'
    BY <2>3 DEF LoadBin, BusInv, coreVars
  <2>4. ASSUME NEW addr \in PokeAddrs, NEW data \in Word, WriteMem(addr, data)
        PROVE  BusInv'
    BY <2>4 DEF WriteMem, BusInv, coreVars
  <2>5. CASE UNCHANGED <<aphase, bus, mem, stored>>
    BY <2>5 DEF BusInv
  <2> QED
    BY <2>1, <2>2, <2>3, <2>4, <2>5 DEF Next, StepCycle, CallRun, CallStepInstruction, Call, Iterate,
       DrainOutput, vars, coreVars, socVars
<1> QED
  BY <1>1, <1>2, PTL DEF Spec

\* Every load and fetch is answered with the bytes the program's earlier stores
\* and the host's images left in RAM.
THEOREM ReadsAreCoherent == Spec => ReadsCoherent
<1>1. TypeOK /\ BusInv /\ [Next]_vars
        => [Clocked /\ dphase'.active /\ ~dphase'.write
              => hrdata' = IF InRam(dphase'.addr)
                           THEN WordAt(stored', dphase'.addr - MemBase)
                           ELSE ZeroWord]_vars
  <2> SUFFICES ASSUME TypeOK, BusInv, [Next]_vars, Clocked, dphase'.active, ~dphase'.write
               PROVE  hrdata' = IF InRam(dphase'.addr)
                                THEN WordAt(stored', dphase'.addr - MemBase)
                                ELSE ZeroWord
    OBVIOUS
  <2>1. Step
    BY ClockedSteps
  <2>2. dphase' = bus
    BY <2>1 DEF Step, ProbedEdge, CoreEdge
  <2>3. BusInv' /\ hrdata' = BusRead(bus.addr) /\ mem' = mem
    BY <2>1, <2>2, StepBus
  <2> QED
    BY <2>2, <2>3 DEF BusRead, BusInv
<1> QED
  BY <1>1, TypeCorrect, BusInvariant, PTL DEF Spec, ReadsCoherent

-----------------------------------------------------------------------------
(* The console.                                                            *)

\* What the program printed reaches the host once and in order.
THEOREM OutputIsDelivered == Spec => []OutputDelivered
<1>1. Init => OutputDelivered
  BY DEF Init, OutputDelivered
<1>2. TypeOK /\ TypeOK' /\ BusInv /\ OutputDelivered /\ [Next]_vars => OutputDelivered'
  <2> SUFFICES ASSUME TypeOK, TypeOK', BusInv, OutputDelivered, [Next]_vars
               PROVE  OutputDelivered'
    OBVIOUS
  <2>0. output \in Seq(Printed) /\ drained \in Seq(Printed)
    BY DEF TypeOK, MachineTypeOK
  <2>1. CASE Step
    <3>1. CASE Stores(bus)
      <4>1. PrintItem(bus.addr, hwdata') \in Seq(Printed)
        <5>1. bus.addr \in Nat /\ hwdata' \in Word
          BY CoreAssumption DEF TypeOK, CoreTypeOK
        <5> QED
          BY <5>1, PrintItemType
      <4>2. (drained \o output) \o PrintItem(bus.addr, hwdata')
              = drained \o (output \o PrintItem(bus.addr, hwdata'))
        BY <2>0, <4>1, ConcatAssociative
      <4> QED
        BY <2>1, <3>1, <4>2, StepBus DEF OutputDelivered
    <3>2. CASE ~Stores(bus)
      BY <2>1, <3>2, StepBus DEF OutputDelivered
    <3> QED
      BY <3>1, <3>2
  <2>2. CASE HardReset
    BY <2>2 DEF HardReset, OutputDelivered
  <2>3. CASE DrainOutput
    <3>1. (drained \o output) \o <<>> = drained \o output
      BY <2>0, ConcatProperties, ConcatEmptySeq
    <3> QED
      BY <2>3, <3>1 DEF DrainOutput, OutputDelivered
  <2>4. CASE UNCHANGED <<output, printed, drained>>
    BY <2>4 DEF OutputDelivered
  <2> QED
    BY <2>1, <2>2, <2>3, <2>4 DEF Next, StepCycle, CallRun, CallStepInstruction, Call, Iterate,
       LoadBin, WriteMem, vars, socVars
<1> QED
  BY <1>1, <1>2, TypeCorrect, BusInvariant, PTL DEF Spec

-----------------------------------------------------------------------------
(* Calls.                                                                  *)

\* Why an unfinished call has not stopped: nothing it looks for has happened.
CallInv ==
  /\ call # NoCall => call.c0 <= cycles
  /\ CallStopsInTime
  /\ call.op = "run" /\ cycles > call.c0 => ~(x.valid /\ x.pc = call.bp)

LEMMA CallInvariant == Spec => []CallInv
<1> USE DEF CallInv, CallStopsInTime
<1>1. Init => CallInv
  BY DEF Init, NoCall, NoResult
<1>2. TypeOK /\ CallInv /\ [Next]_vars => CallInv'
  <2> SUFFICES ASSUME TypeOK, CallInv, [Next]_vars PROVE CallInv'
    OBVIOUS
  <2>0. cycles \in Nat /\ retired \in Nat
    BY DEF TypeOK, MachineTypeOK
  <2>1. ASSUME NEW op \in {"run", "step_instruction"}, NEW n \in Budgets,
               NEW bp \in Pc \cup {NoBreak}, Call(op, n, bp)
        PROVE  CallInv'
    <3>1. CASE n = 0
      BY <2>1, <3>1 DEF Call, NoCall
    <3>2. CASE n # 0
      BY <2>0, <2>1, <3>2 DEF Call, NoCall, NoResult
    <3> QED
      BY <3>1, <3>2
  <2>2. CASE Iterate
    <3>0. /\ call \in Calls /\ call # NoCall /\ cycles' = cycles + 1
          /\ retired' \in {retired, retired + 1}
      BY <2>2 DEF Iterate, Idle, Step, CountRetirements, TypeOK, CallTypeOK
    <3>1. CASE StopReason = "none"
      <4>1. call' = [call EXCEPT !.left = call.left - 1] /\ result' = result
        BY <2>2, <3>1 DEF Iterate
      <4>2. /\ fault' = "none" /\ ~exited'
            /\ call.op = "run" => ~(x'.valid /\ x'.pc = call.bp)
            /\ call.op = "step_instruction" => retired' = call.r0
        BY <3>1 DEF StopReason
      <4> QED
        BY <2>0, <3>0, <4>1, <4>2 DEF Calls
    <3>2. CASE StopReason # "none"
      <4>1. /\ call' = NoCall
            /\ result' = [reason |-> StopReason, cycles |-> cycles' - call.c0,
                          retired |-> retired' - call.r0]
        BY <2>2, <3>2 DEF Iterate
      <4>2. StopReason = "Retired" => retired' - call.r0 = 1
        BY <2>0, <3>0 DEF StopReason, Calls
      <4> QED
        BY <4>1, <4>2 DEF NoCall
    <3> QED
      BY <3>1, <3>2
  <2>3. CASE call = NoCall /\ call' = NoCall /\ result' \in {result, NoResult}
    BY <2>3 DEF NoCall, NoResult
  <2>4. CASE UNCHANGED vars
    BY <2>4 DEF vars, coreVars, socVars
  <2> QED
    BY <2>1, <2>2, <2>3, <2>4 DEF Next, StepCycle, CallRun, CallStepInstruction, HardReset,
       LoadBin, WriteMem, DrainOutput, Idle
<1> QED
  BY <1>1, <1>2, TypeCorrect, PTL DEF Spec

\* A call that goes on is not running over a fault, an exit or, for step_instruction(),
\* a retirement; the last of these stops it with exactly one instruction.
THEOREM CallsStopInTime == Spec => []CallStopsInTime
<1>1. CallInv => CallStopsInTime
  BY DEF CallInv
<1> QED
  BY <1>1, CallInvariant, PTL

\* run() never lets the breakpointed instruction leave X past its first cycle.
THEOREM BreakpointIsPrecise == Spec => BreakpointNeverOverrun
<1>1. TypeOK /\ CallInv => [Clocked /\ call.op = "run"
                              => (cycles > call.c0 => ~(Issue /\ x.pc = call.bp))]_vars
  BY DEF TypeOK, CoreTypeOK, StageX, CallInv, Issue
<1> QED
  BY <1>1, CallInvariant, TypeCorrect, PTL DEF BreakpointNeverOverrun

\* Nothing but a reset forgets the first exit code or the first fault.
THEOREM StoppedStateKept == Spec => StoppedStateIsKept
<1>1. [Next]_vars => [~HardReset => /\ exited => exited' /\ exit_code' = exit_code
                                    /\ fault # "none" => fault' = fault]_vars
  <2> SUFFICES ASSUME [Next]_vars, ~HardReset
               PROVE  /\ exited => exited' /\ exit_code' = exit_code
                      /\ fault # "none" => fault' = fault
    OBVIOUS
  <2>1. CASE Step
    <3>1. exited => exited' /\ exit_code' = exit_code
      BY <2>1 DEF Step, ServiceDataPhase, BusWrite
    <3> QED
      BY <2>1, <3>1 DEF Step, RaiseFault
  <2>2. CASE Unclocked
    BY <2>2 DEF Unclocked
  <2> QED
    BY <2>1, <2>2, NextCases
<1> QED
  BY <1>1, PTL DEF Spec, StoppedStateIsKept

-----------------------------------------------------------------------------
(* The register panel: the SoC implements RegisterView.                    *)

\* Value, write count and write cycle of a register change as one observation.
THEOREM ImplementsRegisterView == Spec => ViewSpec
<1>1. Init => View!Blank
  BY DEF Init, ProbedInit, CoreInit, ResetActivity, Untouched, Reg, View!Blank
<1>2. TypeOK /\ [Next]_vars => [View!Tick \/ View!Forget]_(View!viewVars)
  <2> SUFFICES ASSUME TypeOK, [Next]_vars
               PROVE  View!Tick \/ View!Forget \/ UNCHANGED View!viewVars
    OBVIOUS
  <2>1. CASE Step
    <3>1. cycles' = cycles + 1
      BY <2>1 DEF Step
    <3>2. regfile' = IF m.wen THEN [regfile EXCEPT ![m.rd] = m.result] ELSE regfile
      BY <2>1 DEF Step, ProbedEdge, CoreEdge
    <3>3. regfile \in [Reg -> Val] /\ m \in StageM
      BY DEF TypeOK, CoreTypeOK
    <3>4. CASE m.wen
      <4>1. m.rd \in Reg \ {0} /\ m.result \in Val
        BY <3>3, <3>4 DEF StageM
      <4>2. \A r \in Reg \ {0} :
              /\ regfile'[r] = IF r = m.rd THEN m.result ELSE regfile[r]
              /\ regs'[r].writes = IF r = m.rd THEN regs[r].writes + 1 ELSE regs[r].writes
              /\ regs'[r].lastWriteCycle
                   = IF r = m.rd THEN cycles + 1 ELSE regs[r].lastWriteCycle
        <5> SUFFICES ASSUME NEW r \in Reg \ {0}
                     PROVE /\ regfile'[r] = IF r = m.rd THEN m.result ELSE regfile[r]
                           /\ regs'[r].writes
                                = IF r = m.rd THEN regs[r].writes + 1 ELSE regs[r].writes
                           /\ regs'[r].lastWriteCycle
                                = IF r = m.rd THEN cycles + 1 ELSE regs[r].lastWriteCycle
          OBVIOUS
        <5>1. regfile'[r] = IF r = m.rd THEN m.result ELSE regfile[r]
          BY <3>2, <3>3, <3>4, <4>1
        <5>2. /\ regs'[r].writes = IF m.wen /\ m.rd = r THEN regs[r].writes + 1
                                                        ELSE regs[r].writes
              /\ regs'[r].lastWriteCycle = IF m.wen /\ m.rd = r THEN cycles + 1
                                                            ELSE regs[r].lastWriteCycle
          BY <2>1, StepActivity
        <5> QED
          BY <3>4, <5>1, <5>2
      <4>3. PICK rd \in Reg \ {0}, v \in Val : rd = m.rd /\ v = m.result
        BY <4>1
      <4>4. View!Written(rd, v)
        BY <4>2, <4>3 DEF View!Written
      <4> QED
        BY <3>1, <4>3, <4>4 DEF View!Tick
    <3>5. CASE ~m.wen
      <4>1. \A r \in Reg \ {0} : /\ regfile'[r] = regfile[r]
                                 /\ regs'[r].writes = regs[r].writes
                                 /\ regs'[r].lastWriteCycle = regs[r].lastWriteCycle
        BY <2>1, <3>2, <3>5, StepActivity
      <4>2. /\ [r \in Reg \ {0} |-> regfile'[r]] = [r \in Reg \ {0} |-> regfile[r]]
            /\ [r \in Reg \ {0} |-> regs'[r].writes] = [r \in Reg \ {0} |-> regs[r].writes]
            /\ [r \in Reg \ {0} |-> regs'[r].lastWriteCycle]
                 = [r \in Reg \ {0} |-> regs[r].lastWriteCycle]
        BY <4>1
      <4> QED
        BY <3>1, <4>2 DEF View!Tick
    <3> QED
      BY <3>4, <3>5
  <2>2. CASE HardReset
    BY <2>2 DEF HardReset, ProbedReset, CoreReset, ResetActivity, Untouched, Reg, View!Forget
  <2>3. CASE Unclocked
    BY <2>3 DEF Unclocked, coreVars, View!viewVars
  <2> QED
    BY <2>1, <2>2, <2>3, NextCases
<1> QED
  BY <1>1, <1>2, TypeCorrect, PTL DEF Spec, ViewSpec, View!ViewSpec

-----------------------------------------------------------------------------
(* Several machines in one process, over one fault record.                 *)

\* The machine as the only simulator of its process.
Lone == INSTANCE SimHost WITH
  Sims <- {0}, Faults <- FaultKinds, NoFault <- "none",
  runtimePromise <- "fulfilled", sims <- [s \in {0} |-> "live"], g_fault <- fault,
  imports <- 1, own <- [s \in {0} |-> fault], last <- 0, alone <- TRUE

\* The fault variable of a machine on its own is the record of a process that holds
\* no other: each of its steps is a clocking or a reset of the one simulator.
THEOREM OneSimulatorOfItsHost == Spec => [][Lone!HostNext]_(Lone!hostVars)
<1>1. TypeOK /\ [Next]_vars => [Lone!HostNext]_(Lone!hostVars)
  <2> SUFFICES ASSUME TypeOK, [Next]_vars PROVE [Lone!HostNext]_(Lone!hostVars)
    OBVIOUS
  <2>1. CASE Step
    <3>1. PICK raised \in FaultKinds \cup {"none"} :
               fault' = IF fault = "none" THEN raised ELSE fault
      BY <2>1, SocAssumption DEF Step, RaiseFault
    <3>2. Lone!Clock(0)
      BY <3>1 DEF Lone!Clock, Lone!Live, Lone!Record
    <3> QED
      BY <3>2 DEF Lone!HostNext
  <2>2. CASE HardReset
    <3>1. Lone!Reset(0)
      BY <2>2 DEF HardReset, Lone!Reset, Lone!HardResetOf, Lone!Live
    <3> QED
      BY <3>1 DEF Lone!HostNext
  <2>3. CASE Unclocked
    BY <2>3 DEF Unclocked, Lone!hostVars
  <2> QED
    BY <2>1, <2>2, <2>3, NextCases
<1> QED
  BY <1>1, TypeCorrect, PTL DEF Spec

HostTypeOK ==
  /\ runtimePromise \in {"null", "pending", "fulfilled", "rejected"}
  /\ sims \in [Sims -> {"none", "awaiting", "live", "disposed", "rejected"}]
  /\ g_fault \in Faults \cup {NoFault}
  /\ imports \in Nat
  /\ own \in [Sims -> Faults \cup {NoFault}]
  /\ last \in Sims /\ alone \in BOOLEAN

HostInv ==
  /\ HostTypeOK
  /\ imports = IF runtimePromise = "null" THEN 0 ELSE 1
  /\ \A s \in Sims : Live(s) => runtimePromise = "fulfilled"
  /\ FaultReported

LEMMA HostInvariant == HostSpec => []HostInv
<1> USE SimHostAssumption
<1>1. HostInit => HostInv
  BY DEF HostInit, HostInv, HostTypeOK, FaultReported, Live
<1>2. HostInv /\ [HostNext]_hostVars => HostInv'
  <2> SUFFICES ASSUME HostInv, [HostNext]_hostVars PROVE HostInv'
    OBVIOUS
  <2> USE DEF HostInv, HostTypeOK
  <2>1. CASE Settle
    BY <2>1 DEF Settle, FaultReported, Live
  <2>2. ASSUME NEW s \in Sims, CreateSim(s) PROVE HostInv'
    BY <2>2 DEF CreateSim, LoadRuntime, FaultReported, Live
  <2>3. ASSUME NEW s \in Sims, Construct(s) PROVE HostInv'
    BY <2>3 DEF Construct, HardResetOf, FaultReported, Live
  <2>4. ASSUME NEW s \in Sims, Reject(s) PROVE HostInv'
    BY <2>4 DEF Reject, FaultReported, Live
  <2>5. ASSUME NEW s \in Sims, Reset(s) PROVE HostInv'
    BY <2>5 DEF Reset, HardResetOf, FaultReported, Live
  <2>6. ASSUME NEW s \in Sims, Clock(s) PROVE HostInv'
    BY <2>6 DEF Clock, Record, FaultReported, Live
  <2>7. ASSUME NEW s \in Sims, Dispose(s) PROVE HostInv'
    BY <2>7 DEF Dispose, FaultReported, Live
  <2>8. CASE UNCHANGED hostVars
    BY <2>8 DEF hostVars, FaultReported, Live
  <2> QED
    BY <2>1, <2>2, <2>3, <2>4, <2>5, <2>6, <2>7, <2>8 DEF HostNext
<1> QED
  BY <1>1, <1>2, PTL DEF HostSpec

\* However many calls of createSim race, they share one instance of the module.
THEOREM OneInstanceServesAll == HostSpec => []OneInstance
<1>1. HostInv => OneInstance
  BY DEF HostInv, HostTypeOK, OneInstance
<1> QED
  BY <1>1, HostInvariant, PTL

\* Whoever resets a simulator before using it is told of its faults, and of no
\* others while it is the only one that is clocked.
THEOREM FaultsAreReported == HostSpec => []FaultReported
<1>1. HostInv => FaultReported
  BY DEF HostInv
<1> QED
  BY <1>1, HostInvariant, PTL
=============================================================================
