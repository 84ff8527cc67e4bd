------------------------------- MODULE MCSoc -------------------------------
(***************************************************************************)
(* Small instances of the SoC and of the process that holds simulators.    *)
(* RAM is two two-byte words at 4..7, the MMIO block starts at 12.  What   *)
(* the pipeline, the bus, the host and the process do matters to different *)
(* properties, and to let all of them do their worst at once would         *)
(* multiply the states for nothing: each behaviour is about one of them,   *)
(* its focus, and keeps the others simple.  The process has machines of    *)
(* its own, and the one machine of Soc rests meanwhile.                    *)
(***************************************************************************)
EXTENDS SocProperties, SimHost

VARIABLE focus

\* Of the stages' signals the ones that differ to the SoC: an empty X shows one
\* address, and what M's result lines carry without a strobe is 0 for x0 or 1
\* for x1.
TidyX == {s \in StageX : /\ s.rs1 <= s.rs2
                         /\ ~s.valid => s.pc = 4}
TidyM == {s \in StageM : ~s.wen => s.rd = s.result}

\* An empty pipeline; and one whose instructions come and go without a register.
StillX == {s \in TidyX : ~s.valid /\ s.rs2 = 0}
StillM == {s \in TidyM : ~s.stall /\ ~s.trapSoon /\ ~s.wen /\ s.rd = 0}
PlainX == {s \in TidyX : s.rs2 = 0}

IdleLines == [active |-> FALSE, write |-> TRUE, addr |-> 4, n |-> 1]
NoTraffic == {IdleLines}

Access(W, A, S) == [active : {TRUE}, write : W, addr : A, n : S]

\* Byte and word accesses to RAM, the first address past it, no more.
MemoryTraffic ==
  NoTraffic
    \cup Access(BOOLEAN, {4, 6}, {1, 2})
    \cup Access(BOOLEAN, {5}, {1})
    \cup Access({FALSE}, {8}, {2})

\* A core that prints and asks to exit.
HostTraffic == NoTraffic \cup Access({TRUE}, {12, 16, 20}, {1})

AllTraffic == MemoryTraffic \cup HostTraffic

SomeImages == {<<1, 0, 1>>}

Foci == {"pipeline", "bus", "host", "process"}

FocusX(f) ==
  CASE f = "pipeline" -> TidyX [] f \in {"bus", "process"} -> StillX [] f = "host" -> PlainX
FocusM(f) == IF f = "pipeline" THEN TidyM ELSE StillM
FocusBus(f) ==
  CASE f \in {"pipeline", "process"} -> NoTraffic
    [] f = "bus" -> MemoryTraffic
    [] f = "host" -> HostTraffic

FocusCycles(f) == IF f = "pipeline" THEN MaxCycles ELSE MaxCycles - 1

\* The host's programs print one character or word, and exit with one of two
\* codes; only they fault.
Simple(f) ==
  /\ f = "host" => hwdata'[1] = 0 /\ (Stores(dphase') /\ dphase'.addr # 20 => hwdata'[0] = 1)
  /\ f # "host" => fault' = "none"

Edge ==
  /\ focus # "process"
  /\ x' \in FocusX(focus) /\ m' \in FocusM(focus) /\ bus' \in FocusBus(focus)
  /\ \/ StepCycle
     \/ Iterate
     \/ HardReset
  /\ cycles' <= FocusCycles(focus)
  /\ Simple(focus)

HostCall ==
  /\ focus = "host"
  /\ \/ \E n \in Budgets, bp \in Pc \cup {NoBreak} : CallRun(n, bp)
     \/ \E n \in Budgets : CallStepInstruction(n)
     \/ DrainOutput
  /\ cycles + (IF call' = NoCall THEN 0 ELSE call'.left) <= FocusCycles(focus)

HostStore ==
  /\ focus = "bus"
  /\ \/ \E image \in Images, addr \in LoadAddrs : LoadBin(image, addr)
     \/ \E addr \in PokeAddrs, data \in Word : data[0] # data[1] /\ WriteMem(addr, data)

\* A process whose simulators have all been disposed of, or never came to be, is over.
Over == (\A s \in Sims : sims[s] \in {"disposed", "rejected"}) /\ UNCHANGED hostVars

Process == focus = "process" /\ (HostNext \/ Over)

MCInit ==
  /\ focus \in Foci
  /\ Init /\ HostInit
  /\ x \in FocusX(focus) /\ m \in FocusM(focus) /\ bus \in FocusBus(focus)
  /\ focus # "host" => fault = "none"
  /\ focus # "process" => last = CHOOSE s \in Sims : TRUE

MCNext ==
  \/ (Edge \/ HostCall \/ HostStore) /\ UNCHANGED <<focus, hostVars>>
  \/ Process /\ UNCHANGED <<focus, vars>>

MCSpec == MCInit /\ [][MCNext]_<<vars, hostVars, focus>>
=============================================================================
