--------------------------- MODULE MCTimelinePanel ---------------------------
(***************************************************************************)
(* Two addresses; no registers, no bus.                                    *)
(***************************************************************************)
EXTENDS TimelinePanel

\* A retirement is an issue; traps are left to MCReconstruction.
PlainX == {s \in StageX : s.rs1 = 0 /\ s.rs2 = 0 /\ s.ret = s.use /\ (~s.valid => s.pc = 4)}
PlainM == {s \in StageM : ~s.trapSoon /\ ~s.wen /\ s.rd = 0 /\ s.result = 0}
NoTraffic == {[active |-> FALSE, write |-> TRUE, addr |-> 4, n |-> 1]}
=============================================================================
