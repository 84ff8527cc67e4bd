-------------------------------- MODULE Soc --------------------------------
(***************************************************************************)
(* class Soc (sim/soc.h): the wrapper that clocks the core and its probe,  *)
(* answers its bus, counts its retirements and register writes, and runs   *)
(* it until something stops it.  One loop iteration of run() or            *)
(* step_instruction() is one action; between two iterations of a call      *)
(* nothing else happens, the program being single-threaded.                *)
(***************************************************************************)
EXTENDS Probe, RegTracker, Sequences

CONSTANTS
  MemBase, MemSize,  \* RAM: MEM_BASE and MEM_SIZE
  IoBase,            \* the MMIO block: IO_BASE
  AddrSpace,         \* addresses wrap here (2^32)
  NoBreak,           \* NO_BREAK
  FaultKinds,        \* Finish, Stop, Fatal
  Images, LoadAddrs, \* load_bin arguments: byte sequences and places for them
  PokeAddrs,         \* write_mem arguments: whole words, as every caller asks for
  Budgets,           \* max_cycles arguments
  MaxCycles          \* bound of the model: cycles clocked since a reset

IO_PRINT_CHAR == IoBase
IO_PRINT_U32  == IoBase + 4
IO_EXIT       == IoBase + 8
RamOffset     == 0..MemSize - 1
InRam(addr)   == addr >= MemBase /\ addr < MemBase + MemSize

ASSUME SocAssumption ==
  /\ MemBase \in Nat /\ MemSize \in Nat /\ IoBase \in Nat
  /\ MemBase + MemSize <= IoBase
  /\ AddrSpace \in Nat /\ IO_EXIT < AddrSpace
  /\ \A a \in RamOffset : (a - (a % Lanes)) + Lanes <= MemSize
  /\ NoBreak \notin Pc
  /\ "none" \notin FaultKinds
  /\ Images \subseteq Seq(Byte)
  /\ LoadAddrs \subseteq 0..AddrSpace - 1
  /\ \A a \in PokeAddrs : a \in Nat /\ (InRam(a) => (a - MemBase) % Lanes = 0)
  /\ Budgets \subseteq Nat
  /\ MaxCycles \in Nat

VARIABLES
  cycles, retired, exited, exit_code,
  regs,       \* the RegTracker table
  mem,        \* RAM
  hrdata,     \* the read data lines
  aphase,     \* the captured address phase
  output,     \* MMIO characters and words not drained yet
  fault,      \* hz3::fault(): the first $finish, $stop or $fatal
  call,       \* the run() or step_instruction() on the stack
  result,     \* the RunResult of the call that has just returned
  stored,     \* history: RAM as the core's stores and the host's loads left it
  printed,    \* history: what the program stored to the print registers
  drained     \* history: what drain_output has handed to the host

socVars == <<cycles, retired, exited, exit_code, regs, mem, hrdata,
             aphase, output, fault, call, result, stored, printed, drained>>
vars == <<coreVars, shadow, socVars>>

NoCall   == [op |-> "none"]
NoResult == [reason |-> "none", cycles |-> 0, retired |-> 0]

-----------------------------------------------------------------------------
(* The bus.  The address phase captured in one cycle is answered in the    *)
(* next; data lines carry a store's bytes from lane 0 up.                  *)

WordAt(ram, off) == [i \in 0..Lanes - 1 |-> ram[(off - (off % Lanes)) + i]]

BusRead(addr) ==
  IF InRam(addr) THEN WordAt(mem, addr - MemBase) ELSE ZeroWord

Stores(t) == t.active /\ t.write

Overwrite(ram, off, n, data) ==
  [a \in RamOffset |-> IF a \in off..off + n - 1 THEN data[a - off] ELSE ram[a]]

PrintItem(addr, data) ==
  IF addr = IO_PRINT_CHAR THEN <<[char |-> data[0]]>>
  ELSE IF addr = IO_PRINT_U32 THEN <<[u32 |-> data]>>
  ELSE <<>>

BusWrite(t, wdata) ==
  /\ mem' = IF InRam(t.addr) THEN Overwrite(mem, t.addr - MemBase, t.n, wdata) ELSE mem
  /\ output' = output \o PrintItem(t.addr, wdata)
  /\ IF t.addr = IO_EXIT /\ ~exited
       THEN exited' = TRUE /\ exit_code' = wdata
       ELSE UNCHANGED <<exited, exit_code>>

ServiceDataPhase(t, wdata) ==
  \/ /\ ~t.active
     /\ UNCHANGED <<mem, hrdata, output, exited, exit_code>>
  \/ /\ Stores(t)
     /\ BusWrite(t, wdata)
     /\ UNCHANGED hrdata
  \/ /\ t.active /\ ~t.write
     /\ hrdata' = BusRead(t.addr)
     /\ UNCHANGED <<mem, output, exited, exit_code>>

\* Mutant: captured while the clock is low.
CaptureBeforeEdge == aphase' = bus

CaptureAddressPhase == aphase' = bus'

\* What the core's own transfers did to the world, in the order it made them.
History ==
  /\ stored' = IF Stores(dphase') /\ InRam(dphase'.addr)
               THEN Overwrite(stored, dphase'.addr - MemBase, dphase'.n, hwdata')
               ELSE stored
  /\ printed' = IF Stores(dphase') THEN printed \o PrintItem(dphase'.addr, hwdata') ELSE printed
  /\ UNCHANGED drained

-----------------------------------------------------------------------------
(* Soc::step: one clock cycle.                                             *)

\* Mutant: record() keeps the latest fault.
LatestFault == fault' \in FaultKinds \cup {fault}

\* record() keeps the first fault; any eval() may raise one.
RaiseFault == fault' \in IF fault = "none" THEN FaultKinds \cup {"none"} ELSE {fault}

\* Mutants: each signal sampled on the wrong side of the edge.
WrittenAfterEdge(act) ==
  IF m'.wen THEN NoteWrite(act, m'.rd, m'.result, cycles + 1) ELSE act
ReadBeforeEdge(act) ==
  IF x.valid THEN NoteRead(NoteRead(act, x.rs1, cycles + 1), x.rs2, cycles + 1) ELSE act

\* The strobe is sampled before the edge, the operands of X after it.
Written(act) == IF m.wen THEN NoteWrite(act, m.rd, m.result, cycles + 1) ELSE act
Read(act)    == IF x'.valid
                THEN NoteRead(NoteRead(act, x'.rs1, cycles + 1), x'.rs2, cycles + 1)
                ELSE act

\* Mutant: the pulse is sampled after the edge.
CountAfterEdge == retired' = IF x'.ret THEN retired + 1 ELSE retired

CountRetirements == retired' = IF x.ret THEN retired + 1 ELSE retired

Step ==
  /\ cycles < MaxCycles
  /\ ProbedEdge
  /\ cycles' = cycles + 1
  /\ CountRetirements
  /\ ServiceDataPhase(aphase, hwdata')
  /\ CaptureAddressPhase
  /\ regs' = Read(Written(regs))
  /\ RaiseFault
  /\ History

-----------------------------------------------------------------------------
(* Calls of the host: bridge.cpp, main.cpp and the tests.                  *)

Idle == call = NoCall

StepCycle ==
  /\ Idle
  /\ Step
  /\ result' = NoResult
  /\ UNCHANGED call

\* Mutant: the loop body runs before its bound is tested.
CallAtLeastOnce(op, n, bp) ==
  /\ Idle
  /\ cycles + n <= MaxCycles
  /\ call' = [op |-> op, left |-> n, bp |-> bp, c0 |-> cycles, r0 |-> retired]
  /\ result' = NoResult
  /\ UNCHANGED <<coreVars, shadow, cycles, retired, exited, exit_code, regs, mem,
                 hrdata, aphase, output, fault, stored, printed, drained>>

\* A loop of zero iterations returns at once.
Call(op, n, bp) ==
  /\ Idle
  /\ cycles + n <= MaxCycles
  /\ IF n = 0
       THEN call' = NoCall /\ result' = [reason |-> "Cycles", cycles |-> 0, retired |-> 0]
       ELSE /\ call' = [op |-> op, left |-> n, bp |-> bp, c0 |-> cycles, r0 |-> retired]
            /\ result' = NoResult
  /\ UNCHANGED <<coreVars, shadow, cycles, retired, exited, exit_code, regs, mem,
                 hrdata, aphase, output, fault, stored, printed, drained>>

CallRun(n, bp)         == Call("run", n, bp)
CallStepInstruction(n) == Call("step_instruction", n, NoBreak)

\* Mutant: the conditions are tested on the machine as it was before the step.
StopReasonBeforeStep ==
  IF fault # "none" THEN "Fault"
  ELSE IF exited THEN "Exit"
  ELSE IF call.op = "run" /\ x.valid /\ x.pc = call.bp THEN "Breakpoint"
  ELSE IF call.op = "step_instruction" /\ retired # call.r0 THEN "Retired"
  ELSE IF call.left = 1 THEN "Cycles"
  ELSE "none"

\* Why the loop stops after this step, checked in the order of the source.
StopReason ==
  IF fault' # "none" THEN "Fault"
  ELSE IF exited' THEN "Exit"
  ELSE IF call.op = "run" /\ x'.valid /\ x'.pc = call.bp THEN "Breakpoint"
  ELSE IF call.op = "step_instruction" /\ retired' # call.r0 THEN "Retired"
  ELSE IF call.left = 1 THEN "Cycles"
  ELSE "none"

Iterate ==
  /\ ~Idle
  /\ Step
  /\ IF StopReason = "none"
       THEN call' = [call EXCEPT !.left = @ - 1] /\ UNCHANGED result
       ELSE /\ call' = NoCall
            /\ result' = [reason |-> StopReason, cycles |-> cycles' - call.c0,
                          retired |-> retired' - call.r0]

\* Faults are cleared before the core is clocked through its reset.
HardReset ==
  /\ Idle
  /\ ProbedReset
  /\ cycles' = 0 /\ retired' = 0
  /\ exited' = FALSE /\ exit_code' = ZeroWord
  /\ regs' = ResetActivity(Reg)
  /\ hrdata' = ZeroWord
  /\ CaptureAddressPhase
  /\ output' = <<>> /\ printed' = <<>> /\ drained' = <<>>
  /\ fault' \in FaultKinds \cup {"none"}
  /\ result' = NoResult
  /\ UNCHANGED <<mem, stored, call>>

\* off is a uint32_t: an address below RAM wraps past its end.
LoadOffset(addr) == (addr - MemBase) % AddrSpace

Loaded(ram, image, off) ==
  [a \in RamOffset |-> IF a - off + 1 \in DOMAIN image THEN image[a - off + 1] ELSE ram[a]]

LoadBin(image, addr) ==
  /\ Idle
  /\ mem' = Loaded(mem, image, LoadOffset(addr))
  /\ stored' = Loaded(stored, image, LoadOffset(addr))
  /\ result' = NoResult
  /\ UNCHANGED <<coreVars, shadow, cycles, retired, exited, exit_code, regs, hrdata,
                 aphase, output, fault, call, printed, drained>>

WriteMem(addr, data) ==
  /\ Idle
  /\ IF InRam(addr)
       THEN /\ mem' = Overwrite(mem, addr - MemBase, Lanes, data)
            /\ stored' = Overwrite(stored, addr - MemBase, Lanes, data)
       ELSE UNCHANGED <<mem, stored>>
  /\ result' = NoResult
  /\ UNCHANGED <<coreVars, shadow, cycles, retired, exited, exit_code, regs, hrdata,
                 aphase, output, fault, call, printed, drained>>

\* Mutant: the output is handed over but not given up.
PeekOutput ==
  /\ Idle
  /\ drained' = drained \o output
  /\ result' = NoResult
  /\ UNCHANGED <<coreVars, shadow, cycles, retired, exited, exit_code, regs, mem, hrdata,
                 aphase, output, fault, call, stored, printed>>

DrainOutput ==
  /\ Idle
  /\ output' = <<>>
  /\ drained' = drained \o output
  /\ result' = NoResult
  /\ UNCHANGED <<coreVars, shadow, cycles, retired, exited, exit_code, regs, mem, hrdata,
                 aphase, fault, call, stored, printed>>

\* The constructor: zeroed RAM, then hard_reset.
Init ==
  /\ ProbedInit
  /\ cycles = 0 /\ retired = 0
  /\ exited = FALSE /\ exit_code = ZeroWord
  /\ regs = ResetActivity(Reg)
  /\ mem = [a \in RamOffset |-> 0]
  /\ hrdata = ZeroWord
  /\ aphase = bus
  /\ output = <<>> /\ printed = <<>> /\ drained = <<>>
  /\ fault \in FaultKinds \cup {"none"}
  /\ call = NoCall /\ result = NoResult
  /\ stored = mem

Next ==
  \/ StepCycle
  \/ \E n \in Budgets, bp \in Pc \cup {NoBreak} : CallRun(n, bp)
  \/ \E n \in Budgets : CallStepInstruction(n)
  \/ Iterate
  \/ HardReset
  \/ \E image \in Images, addr \in LoadAddrs : LoadBin(image, addr)
  \/ \E addr \in PokeAddrs, data \in Word : WriteMem(addr, data)
  \/ DrainOutput

Spec == Init /\ [][Next]_vars
=============================================================================
