------------------------------ MODULE SimHost -------------------------------
(***************************************************************************)
(* A process that holds simulators: createSim and loadRuntime              *)
(* (src/core/sim.ts), class Hz3Sim over class Sim (sim/bridge.cpp), and    *)
(* the fault record they share (sim/vl_hooks.cpp).  Of a simulator only    *)
(* its faults matter here; Soc is about the rest, one simulator at a time. *)
(***************************************************************************)
EXTENDS Naturals

CONSTANTS
  Sims,     \* one for each call of createSim
  Faults,   \* what $finish, $stop and $fatal record
  NoFault   \* SimFault{}

ASSUME SimHostAssumption == NoFault \notin Faults

VARIABLES
  runtimePromise,  \* "null", "pending", "fulfilled" or "rejected"
  sims,            \* what has become of each createSim and of what it returned
  g_fault,         \* the fault record
  imports,         \* history: how often the module has been instantiated
  own,             \* history: the first fault from inside each since its reset
  last,            \* history: the simulator that was reset last
  alone            \* history: no other has been clocked since

hostVars == <<runtimePromise, sims, g_fault, imports, own, last, alone>>

Live(s) == sims[s] = "live"

-----------------------------------------------------------------------------

LoadRuntime ==
  IF runtimePromise = "null" THEN runtimePromise' = "pending" /\ imports' = imports + 1
  ELSE UNCHANGED <<runtimePromise, imports>>

CreateSim(s) ==
  /\ sims[s] = "none"
  /\ LoadRuntime
  /\ sims' = [sims EXCEPT ![s] = "awaiting"]
  /\ UNCHANGED <<g_fault, own, last, alone>>

\* The import settles, once: a runtime that failed to load stays failed.
Settle ==
  /\ runtimePromise = "pending"
  /\ runtimePromise' \in {"fulfilled", "rejected"}
  /\ UNCHANGED <<sims, g_fault, imports, own, last, alone>>

\* record() keeps the first fault, whoever raised it.
Record(fault) == IF g_fault = NoFault THEN fault ELSE g_fault

\* Mutant: each hard_reset leaves the record as it finds it.
ResetKeepingFault(s) ==
  \E fault \in Faults \cup {NoFault} :
    /\ g_fault' = Record(fault)
    /\ own' = [own EXCEPT ![s] = fault]
    /\ last' = s /\ alone' = TRUE

\* Soc::hard_reset clears the record and clocks the core, which may raise a fault.
HardResetOf(s) ==
  \E fault \in Faults \cup {NoFault} :
    /\ g_fault' = fault
    /\ own' = [own EXCEPT ![s] = fault]
    /\ last' = s /\ alone' = TRUE

\* createSim goes on after its await: the constructor resets.
Construct(s) ==
  /\ sims[s] = "awaiting" /\ runtimePromise = "fulfilled"
  /\ sims' = [sims EXCEPT ![s] = "live"]
  /\ HardResetOf(s)
  /\ UNCHANGED <<runtimePromise, imports>>

Reject(s) ==
  /\ sims[s] = "awaiting" /\ runtimePromise = "rejected"
  /\ sims' = [sims EXCEPT ![s] = "rejected"]
  /\ UNCHANGED <<runtimePromise, g_fault, imports, own, last, alone>>

Reset(s) ==
  /\ Live(s)
  /\ HardResetOf(s)
  /\ UNCHANGED <<runtimePromise, sims, imports>>

\* stepCycle, run and stepInstruction: run and stepInstruction look at the record
\* after each cycle, whoever filled it, so at most their last one raises a fault.
Clock(s) ==
  /\ Live(s)
  /\ \E fault \in Faults \cup {NoFault} :
       /\ g_fault' = Record(fault)
       /\ own' = [own EXCEPT ![s] = IF @ = NoFault THEN fault ELSE @]
  /\ alone' = (alone /\ s = last)
  /\ UNCHANGED <<runtimePromise, sims, imports, last>>

\* A second dispose() does nothing, and every other call then throws.
Dispose(s) ==
  /\ Live(s)
  /\ sims' = [sims EXCEPT ![s] = "disposed"]
  /\ UNCHANGED <<runtimePromise, g_fault, imports, own, last, alone>>

HostInit ==
  /\ runtimePromise = "null" /\ imports = 0
  /\ sims = [s \in Sims |-> "none"]
  /\ g_fault = NoFault
  /\ own = [s \in Sims |-> NoFault]
  /\ last \in Sims /\ alone = TRUE

HostNext ==
  \/ Settle
  \/ \E s \in Sims : CreateSim(s)
  \/ \E s \in Sims : Construct(s)
  \/ \E s \in Sims : Reject(s)
  \/ \E s \in Sims : Reset(s)
  \/ \E s \in Sims : Clock(s)
  \/ \E s \in Sims : Dispose(s)

HostSpec == HostInit /\ [][HostNext]_hostVars

-----------------------------------------------------------------------------

\* "Once per process/page" (sim.ts:29): however many calls of createSim wait at the
\* same time, there is one instance of the module, and no simulator without it.
OneInstance ==
  /\ imports <= 1
  /\ \A s \in Sims : Live(s) => runtimePromise = "fulfilled"

\* A host that resets a simulator before it uses it, as they all do, is told of its
\* faults: of any that others have left behind it is not, nor does the disposal of
\* another hide one.  If no other is clocked meanwhile it is told of nothing else.
FaultReported ==
  Live(last) =>
    /\ own[last] # NoFault => g_fault # NoFault
    /\ alone => g_fault = own[last]
=============================================================================
