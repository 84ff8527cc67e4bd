-------------------------- MODULE MCReconstruction --------------------------
(***************************************************************************)
(* Records of a few cycles.  What the timeline has to tell apart are       *)
(* stalls, traps and addresses, what a trace has to tell apart are writes  *)
(* and missing lines: each behaviour is about one of the two, its focus.   *)
(***************************************************************************)
EXTENDS Recording

VARIABLE focus

PlainX == {s \in StageX : s.rs1 = 0 /\ s.rs2 = 0 /\ s.ret = s.use /\ (~s.valid => s.pc = 4)}
PlainM == {s \in StageM : ~s.wen => s.rd = 0 /\ s.result = 0}
NoTraffic == {[active |-> FALSE, write |-> TRUE, addr |-> 4, n |-> 1]}

\* Writes come from a pipeline that flows.
FlowingX == {s \in PlainX : s.use = s.valid /\ s.pc = 4}
FlowingM == {s \in PlainM : ~s.stall /\ ~s.trapSoon}
SilentM  == {s \in PlainM : ~s.wen}

MCInit == focus \in {"timeline", "trace"} /\ RecordingInit

MCNext ==
  /\ \/ /\ focus = "timeline"
        /\ m' \in SilentM
        /\ Pass(TRUE)
     \/ /\ focus = "trace"
        /\ x' \in FlowingX /\ m' \in FlowingM
        /\ \E kept \in BOOLEAN : Pass(kept)
  /\ UNCHANGED focus

MCSpec == MCInit /\ [][MCNext]_<<recordingVars, focus>>
=============================================================================
