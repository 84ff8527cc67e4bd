--------------------------- MODULE SocProperties ---------------------------
(***************************************************************************)
(* What the wrapper owes its hosts, for every core that obeys Hazard3Core. *)
(***************************************************************************)
EXTENDS Soc

Printed == [char : Byte] \cup [u32 : Word]

Calls == [op : {"run", "step_instruction"}, left : Nat \ {0}, bp : Pc \cup {NoBreak},
          c0 : Nat, r0 : Nat]

Results == [reason : {"none", "Cycles", "Exit", "Breakpoint", "Retired", "Fault"},
            cycles : Int, retired : Int]

MachineTypeOK ==
  /\ shadow \in Slot
  /\ cycles \in Nat /\ retired \in Nat
  /\ exited \in BOOLEAN /\ exit_code \in Word
  /\ regs \in [Reg -> Activity(Val)]
  /\ mem \in [RamOffset -> Byte] /\ stored \in [RamOffset -> Byte]
  /\ hrdata \in Word
  /\ aphase \in BusTraffic
  /\ output \in Seq(Printed) /\ printed \in Seq(Printed) /\ drained \in Seq(Printed)
  /\ fault \in FaultKinds \cup {"none"}

CallTypeOK ==
  /\ call \in Calls \cup {NoCall}
  /\ result \in Results

\* Every variable of the core and of the SoC stays within its type.
TypeOK == CoreTypeOK /\ MachineTypeOK /\ CallTypeOK

Clocked == cycles' = cycles + 1

\* sim/tracker.h counts every architectural write, those of an unchanged value
\* included, and the value its strobe carried is the one in the register file.
TrackerAgrees ==
  \A r \in Reg \ {0} :
    /\ regs[r].writes = wrote[r]
    /\ regfile[r] = regs[r].lastWriteValue

\* The register panel sees value, write count and write cycle change together:
\* the SoC implements RegisterView (docs/probe.md, timing convention).
View == INSTANCE RegisterView WITH
  Register  <- Reg \ {0},
  Value     <- Val,
  Never     <- NEVER,
  cycle     <- cycles,
  value     <- [r \in Reg \ {0} |-> regfile[r]],
  writes    <- [r \in Reg \ {0} |-> regs[r].writes],
  lastWrite <- [r \in Reg \ {0} |-> regs[r].lastWriteCycle]

ViewSpec == View!ViewSpec

\* A register is outlined as read in a cycle exactly if the instruction X is
\* consuming in that very cycle names it, stalled or not (Soc::step, noteRead).
ReadsAttributed ==
  \A r \in Reg \ {0} :
    regs[r].lastReadCycle = cycles <=> x.valid /\ r \in {x.rs1, x.rs2}

\* The probe's X|M shadow names the instruction the core really has in M, and
\* no write strobe fires over a slot the shadow calls empty (rtl/hz3_probe.vh).
ShadowAgrees ==
  /\ shadow.valid = xm.valid
  /\ xm.valid => shadow.pc = xm.pc
  /\ m.wen => shadow.valid

\* The instruction that the count goes up for is the one that M shows after the same
\* edge, unless a trap takes its place: the count that Soc::step keeps from a pulse and
\* the stage that the probe shadows never come apart, through stalls and bubbles.
RetirementSeenInM ==
  [][Clocked /\ retired' # retired
       => /\ retired' = retired + 1
          /\ m.trapSoon \/ (shadow'.valid /\ shadow'.pc = x.pc)]_vars

\* A load or fetch is answered with the bytes the program's own earlier stores
\* and the host's images left in RAM, whatever address phase follows it and
\* whatever a reset interrupted; outside RAM it reads zero (Soc::bus_read).
ReadsCoherent ==
  [][Clocked /\ dphase'.active /\ ~dphase'.write
       => hrdata' = IF InRam(dphase'.addr)
                    THEN WordAt(stored', dphase'.addr - MemBase)
                    ELSE ZeroWord]_vars

\* The host drains what the program printed since the reset once and in order,
\* and nothing printed before it (Soc::drain_output, hard_reset).
OutputDelivered == printed = drained \o output

\* However long a stopped machine is clocked, only a reset forgets its first
\* exit code and its first fault (bus_write, hz3::record).
StoppedStateIsKept ==
  [][~HardReset => /\ exited => exited' /\ exit_code' = exit_code
                   /\ fault # "none" => fault' = fault]_vars

\* run() stops while the breakpointed instruction is still in X: past the first
\* cycle of the call, which may resume from it, no edge lets it leave.
BreakpointNeverOverrun ==
  [][Clocked /\ call.op = "run" => (cycles > call.c0 => ~(Issue /\ x.pc = call.bp))]_vars

\* A call goes on only while nothing has stopped it: once it has clocked a cycle, it
\* is not left running over a fault or an exit, and step_instruction() never clocks past
\* its first retirement and reports one only with exactly one instruction.
CallStopsInTime ==
  /\ call # NoCall /\ cycles > call.c0 => fault = "none" /\ ~exited
  /\ call.op = "step_instruction" => retired = call.r0
  /\ result.reason = "Retired" => result.retired = 1
=============================================================================
