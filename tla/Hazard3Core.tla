---------------------------- MODULE Hazard3Core ----------------------------
(***************************************************************************)
(* The Hazard3 core, seen through the ports rtl/hz3_top.v gives it.  The   *)
(* core itself is a submodule that this repository only clocks, so it is   *)
(* an environment here: every cycle it presents arbitrary signals, subject *)
(* only to the rules that rtl/hz3_probe.vh, sim/soc.h and the native tests *)
(* rely on.  What holds for this core holds for the real one.              *)
(*                                                                         *)
(* The state is the machine as it stands with the clock low and the        *)
(* combinational logic settled: what a clock edge is about to commit.      *)
(***************************************************************************)
EXTENDS Integers

CONSTANTS
  Pc,         \* program counters; one also stands for the instruction there
  NumRegs,    \* architectural registers, x0 included (32)
  Val,        \* register contents
  Byte,       \* memory contents
  Lanes,      \* byte lanes of the data bus (4)
  XferBytes,  \* transfer sizes in bytes, 1 << hsize
  XSignals,   \* what stage X may present: part of StageX
  MSignals,   \* what stage M may present: part of StageM
  BusTraffic  \* the address phases a program may present: htrans active or idle
              \* (the other lines are then stale), hwrite, haddr and the size

Reg  == 0..NumRegs - 1
Word == [0..Lanes - 1 -> Byte]

ZeroWord == [i \in 0..Lanes - 1 |-> 0]

(***************************************************************************)
(* The decoder uses an instruction only if there is one and M can take it, *)
(* and only a used instruction can retire.  X re-presents its operands     *)
(* while it waits.                                                         *)
(***************************************************************************)
StageX == {s \in [valid : BOOLEAN, pc : Pc, rs1 : Reg, rs2 : Reg,
                  use : BOOLEAN, ret : BOOLEAN] :
             /\ s.use => s.valid
             /\ s.ret => s.use}

(***************************************************************************)
(* The write enable is gated on a nonzero rd; while it is low, rd and the  *)
(* result lines still carry something.                                     *)
(***************************************************************************)
StageM == {s \in [stall : BOOLEAN, trapSoon : BOOLEAN, wen : BOOLEAN,
                  rd : Reg, result : Val] : s.wen => s.rd # 0}

ASSUME CoreAssumption ==
  /\ Pc \subseteq Nat
  /\ NumRegs \in Nat \ {0}
  /\ 0 \in Val
  /\ 0 \in Byte
  /\ Lanes \in Nat \ {0}
  /\ XferBytes \subseteq 1..Lanes
  /\ XSignals \subseteq StageX /\ (\E s \in XSignals : ~s.valid)
  /\ MSignals \subseteq StageM /\ (\E s \in MSignals : ~s.stall /\ ~s.trapSoon /\ ~s.wen)
  /\ BusTraffic \subseteq [active : BOOLEAN, write : BOOLEAN, addr : Nat, n : XferBytes]
  /\ \A t \in BusTraffic : t.active => t.addr % t.n = 0
  /\ \E t \in BusTraffic : ~t.active

VARIABLES
  x,        \* stage X: valid, pc, source registers, decoder use, x_instr_ret
  m,        \* stage M: stall, m_trap_enter_soon, write port (wen, rd, result)
  xm,       \* the core's own X|M pipeline register: a real instruction or a bubble
  regfile,  \* the architectural register file
  wrote,    \* history: write strobes committed since reset, per register
  bus,      \* the AHB address phase presented this cycle
  dphase,   \* the transfer whose data phase is this cycle
  hwdata    \* the write data lines

coreVars == <<x, m, xm, regfile, wrote, bus, dphase, hwdata>>

Presented(sx, sm, slot) ==
  /\ sx.use => ~sm.stall
  /\ sm.wen => slot.valid      \* a bubble is an X|M register with rd = x0

Bubble == [valid |-> FALSE, pc |-> 0]
Slot   == [valid : BOOLEAN, pc : Pc \cup {0}]

(***************************************************************************)
(* One rising edge.  X hands its instruction to M unless M is stalled or a *)
(* trap is about to be taken, and what M presents is committed.            *)
(***************************************************************************)
NextSlot ==
  IF m.stall THEN xm
  ELSE IF x.use /\ ~m.trapSoon THEN [valid |-> TRUE, pc |-> x.pc]
  ELSE Bubble

CoreEdge ==
  /\ xm' = NextSlot
  /\ x' \in XSignals
  /\ m' \in {s \in MSignals : Presented(x', s, NextSlot)}
  /\ regfile' = IF m.wen THEN [regfile EXCEPT ![m.rd] = m.result] ELSE regfile
  /\ wrote' = IF m.wen THEN [wrote EXCEPT ![m.rd] = @ + 1] ELSE wrote
  /\ dphase' = bus
  /\ bus' \in BusTraffic
  /\ hwdata' \in IF bus.active /\ bus.write THEN Word ELSE {hwdata}

(***************************************************************************)
(* The core held in reset for some edges and let go: the front end is      *)
(* starved, both stages are empty, registers are zero (RESET_REGFILE), and *)
(* the first address phase is a fetch or nothing.                          *)
(***************************************************************************)
StarvedX  == {s \in XSignals : ~s.valid}
QuietM    == {s \in MSignals : ~s.stall /\ ~s.trapSoon /\ ~s.wen}
IdleBus   == {t \in BusTraffic : ~t.active}
FetchBus  == {t \in BusTraffic : t.active => ~t.write}

CoreInit ==
  /\ x \in StarvedX
  /\ m \in QuietM
  /\ xm = Bubble
  /\ regfile = [r \in Reg |-> 0]
  /\ wrote = [r \in Reg |-> 0]
  /\ dphase \in IdleBus
  /\ bus \in FetchBus
  /\ hwdata = ZeroWord

CoreReset ==
  /\ x' \in StarvedX
  /\ m' \in QuietM
  /\ xm' = Bubble
  /\ regfile' = [r \in Reg |-> 0]
  /\ wrote' = [r \in Reg |-> 0]
  /\ dphase' \in IdleBus
  /\ bus' \in FetchBus
  /\ hwdata' = ZeroWord

CoreTypeOK ==
  /\ x \in StageX
  /\ m \in StageM
  /\ xm \in Slot
  /\ regfile \in [Reg -> Val]
  /\ wrote \in [Reg -> Nat]
  /\ bus \in BusTraffic
  /\ dphase \in BusTraffic
  /\ hwdata \in Word
=============================================================================
