------------------------------- MODULE Probe -------------------------------
(***************************************************************************)
(* rtl/hz3_probe.vh: the observability taps.  All are reads of the core    *)
(* but one: the X|M shadow is a register of the probe's own, clocked like  *)
(* the core's xm_* and meant never to drift from it.                       *)
(***************************************************************************)
EXTENDS Hazard3Core

VARIABLE shadow   \* probe_m_valid, probe_m_pc

\* Mutant: an instruction killed by a trap still enters the shadow.
IssueDespiteTrap == x.use

Issue == x.use /\ ~m.trapSoon

ShadowEdge ==
  shadow' = IF m.stall THEN shadow
            ELSE [valid |-> Issue, pc |-> IF Issue THEN x.pc ELSE shadow.pc]

ProbedInit  == CoreInit /\ shadow = Bubble
ProbedEdge  == CoreEdge /\ ShadowEdge
ProbedReset == CoreReset /\ shadow' = Bubble
=============================================================================
