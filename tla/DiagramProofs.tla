---------------------------- MODULE DiagramProofs ----------------------------
(***************************************************************************)
(* What the page shows, for every register file, every instruction and     *)
(* every value: the tables of the diagram agree with one another, with the *)
(* core, and with the register panel beside it.                            *)
(***************************************************************************)
EXTENDS Diagram, SequenceTheorems, FiniteSetTheorems, WellFoundedInduction, TLAPS

\* A snapshot that agrees with itself, and what the page makes of one.
Consistent(s) ==
  /\ s.x.issue => s.x.valid /\ ~s.x.stall
  /\ s.m.dphase <=> s.m.memOp # "none"

Drawn(s) ==
  [components |-> [c \in DOMAIN Components |-> ComputeDisplay(s).components[c]],
   nets       |-> [n \in DOMAIN Nets |-> ComputeDisplay(s).nets[n]]]

(***************************************************************************)
(* The attributes are those of one frame, never of several: the fresh      *)
(* ones, or what a single snapshot says.                                   *)
(***************************************************************************)
OneFrame ==
  \/ attrs = FreshAttrs /\ rows = FreshRows
  \/ \E s : Consistent(s) /\ attrs = Drawn(s) /\ rows = StatusRows(s)

-----------------------------------------------------------------------------
(* The tables                                                              *)

LEMMA PartNames ==
  ASSUME NEW s
  PROVE  DOMAIN ComputeDisplay(s).components = DOMAIN Components
BY DEF ComputeDisplay, ExecuteParts, FetchParts, MemoryParts, Components, Beside

LEMMA NetNames ==
  ASSUME NEW s
  PROVE  DOMAIN ComputeDisplay(s).nets = DOMAIN Nets
BY DEF ComputeDisplay, ExecuteNets, FetchNets, MemoryNets, Nets, Beside

LEMMA PartsDrawn ==
  ASSUME NEW s
  PROVE  /\ Drawn(s).components.cir = FetchParts(s).cir
         /\ Drawn(s).components.decode = ExecuteParts(s).decode
         /\ Drawn(s).components.regfile = RegfilePart(s)
         /\ Drawn(s).components.bypassA = BypassPart(SelA(s), s.x.rs1Bypass)
         /\ Drawn(s).components.bypassB = BypassPart(SelB(s), s.x.rs2Bypass)
         /\ Drawn(s).components.opA = OperandMux(s, OpAFromPc(s), s.x.opA)
         /\ Drawn(s).components.opB = OperandMux(s, OpBFromImm(s), s.x.opB)
         /\ Drawn(s).components.xres = ExecuteParts(s).xres
         /\ Drawn(s).components.hazard = ExecuteParts(s).hazard
         /\ Drawn(s).components.xm = MemoryParts(s).xm
         /\ Drawn(s).components.resultMux = MemoryParts(s).resultMux
         /\ Drawn(s).components.wb = MemoryParts(s).wb
<1> DEFINE d == ComputeDisplay(s).components
<1>1. /\ d.cir = FetchParts(s).cir /\ d.decode = ExecuteParts(s).decode
      /\ d.regfile = RegfilePart(s)
      /\ d.bypassA = BypassPart(SelA(s), s.x.rs1Bypass)
      /\ d.bypassB = BypassPart(SelB(s), s.x.rs2Bypass)
  BY DEF ComputeDisplay, ExecuteParts, FetchParts, MemoryParts, Beside
<1>2. /\ d.opA = OperandMux(s, OpAFromPc(s), s.x.opA)
      /\ d.opB = OperandMux(s, OpBFromImm(s), s.x.opB)
      /\ d.xres = ExecuteParts(s).xres /\ d.hazard = ExecuteParts(s).hazard
  BY DEF ComputeDisplay, ExecuteParts, FetchParts, MemoryParts, Beside
<1>3. /\ d.xm = MemoryParts(s).xm /\ d.resultMux = MemoryParts(s).resultMux
      /\ d.wb = MemoryParts(s).wb
  BY DEF ComputeDisplay, ExecuteParts, FetchParts, MemoryParts, Beside
<1> HIDE DEF d
<1>4. \A c \in DOMAIN Components : Drawn(s).components[c] = d[c]
  BY DEF Drawn, d
<1>5. {"cir", "decode", "regfile", "bypassA", "bypassB", "opA", "opB", "xres", "hazard",
       "xm", "resultMux", "wb"} \subseteq DOMAIN Components
  BY DEF Components
<1> QED
  BY <1>1, <1>2, <1>3, <1>4, <1>5

LEMMA NetsDrawn ==
  ASSUME NEW s
  PROVE  /\ Drawn(s).nets.rf_rd1 = ExecuteNets(s).rf_rd1
         /\ Drawn(s).nets.rf_rd2 = ExecuteNets(s).rf_rd2
         /\ Drawn(s).nets.fwd_m = ExecuteNets(s).fwd_m
         /\ Drawn(s).nets.fwd_w = ExecuteNets(s).fwd_w
         /\ Drawn(s).nets.bypA_opA = ExecuteNets(s).bypA_opA
         /\ Drawn(s).nets.bypB_opB = ExecuteNets(s).bypB_opB
         /\ Drawn(s).nets.xpc_opA = ExecuteNets(s).xpc_opA
         /\ Drawn(s).nets.imm_opB = ExecuteNets(s).imm_opB
         /\ Drawn(s).nets.alu_out = ExecuteNets(s).alu_out
         /\ Drawn(s).nets.muldiv_out = ExecuteNets(s).muldiv_out
         /\ Drawn(s).nets.xres_xm = ExecuteNets(s).xres_xm
         /\ Drawn(s).nets.xm_to_result = MemoryNets(s).xm_to_result
         /\ Drawn(s).nets.dmem_rdata = MemoryNets(s).dmem_rdata
<1> DEFINE d == ComputeDisplay(s).nets
<1>1. /\ d.rf_rd1 = ExecuteNets(s).rf_rd1 /\ d.rf_rd2 = ExecuteNets(s).rf_rd2
      /\ d.fwd_m = ExecuteNets(s).fwd_m /\ d.fwd_w = ExecuteNets(s).fwd_w
  BY DEF ComputeDisplay, ExecuteNets, FetchNets, MemoryNets, Beside
<1>2. /\ d.bypA_opA = ExecuteNets(s).bypA_opA /\ d.bypB_opB = ExecuteNets(s).bypB_opB
      /\ d.xpc_opA = ExecuteNets(s).xpc_opA /\ d.imm_opB = ExecuteNets(s).imm_opB
  BY DEF ComputeDisplay, ExecuteNets, FetchNets, MemoryNets, Beside
<1>3. /\ d.alu_out = ExecuteNets(s).alu_out /\ d.muldiv_out = ExecuteNets(s).muldiv_out
      /\ d.xres_xm = ExecuteNets(s).xres_xm
  BY DEF ComputeDisplay, ExecuteNets, FetchNets, MemoryNets, Beside
<1>4. /\ d.xm_to_result = MemoryNets(s).xm_to_result
      /\ d.dmem_rdata = MemoryNets(s).dmem_rdata
  BY DEF ComputeDisplay, ExecuteNets, FetchNets, MemoryNets, Beside
<1> HIDE DEF d
<1>5. \A n \in DOMAIN Nets : Drawn(s).nets[n] = d[n]
  BY DEF Drawn, d
<1>6. {"rf_rd1", "rf_rd2", "fwd_m", "fwd_w", "bypA_opA", "bypB_opB", "xpc_opA", "imm_opB",
       "alu_out", "muldiv_out", "xres_xm", "xm_to_result", "dmem_rdata"} \subseteq DOMAIN Nets
  BY DEF Nets
<1> QED
  BY <1>1, <1>2, <1>3, <1>4, <1>5, <1>6

\* A dark wire is blank, whatever the snapshot says.
Quiet(d) == ~d.active => d.value = Blank /\ d.emphasis = "none"

LEMMA CarriesQuiet ==
  /\ \A active, value : Quiet(Carries(active, value))
  /\ \A active : Quiet(Silent(active))
  /\ \A active, value : Quiet(Emphasised(active, value))
BY DEF Quiet, Carries, Silent, Emphasised, When, Blank

LEMMA NetsQuiet ==
  ASSUME NEW s, NEW n \in DOMAIN Nets
  PROVE  Quiet(ComputeDisplay(s).nets[n])
<1>1. \A k \in DOMAIN FetchNets(s) : Quiet(FetchNets(s)[k])
  BY CarriesQuiet DEF FetchNets
<1>2. \A k \in DOMAIN MemoryNets(s) : Quiet(MemoryNets(s)[k])
  BY CarriesQuiet DEF MemoryNets
<1>3. \A k \in DOMAIN ExecuteNets(s) : Quiet(ExecuteNets(s)[k])
  <2>1. Quiet(ExecuteNets(s).fwd_w)
    BY DEF ExecuteNets, Emphasised, Carries, Quiet, When, Blank
  <2>2. Quiet(ExecuteNets(s).bypB_opB)
    BY CarriesQuiet DEF ExecuteNets, Carries, Quiet
  <2>3. ASSUME NEW k \in DOMAIN ExecuteNets(s), k # "fwd_w", k # "bypB_opB"
        PROVE  Quiet(ExecuteNets(s)[k])
    BY <2>3, CarriesQuiet DEF ExecuteNets
  <2> QED
    BY <2>1, <2>2, <2>3
<1>4. n \in DOMAIN ComputeDisplay(s).nets
  BY NetNames
<1> QED
  BY <1>1, <1>2, <1>3, <1>4 DEF ComputeDisplay, Beside

-----------------------------------------------------------------------------
(* Who drives the inputs of the muxes                                      *)

\* The nets that drive the inputs of the muxes, in the order of the inputs.
MuxNets ==
  [bypassA   |-> <<"rf_rd1", "fwd_m", "fwd_w">>,
   bypassB   |-> <<"rf_rd2", "fwd_m", "fwd_w">>,
   opA       |-> <<"bypA_opA", "xpc_opA">>,
   opB       |-> <<"bypB_opB", "imm_opB">>,
   xres      |-> <<"alu_out", "muldiv_out">>,
   resultMux |-> <<"xm_to_result", "dmem_rdata">>]

In == <<"in0", "in1", "in2">>

\* No other net ends at one of those inputs.  A net has at most three ends.
LEMMA AtMostThreeEnds ==
  ASSUME NEW n \in DOMAIN Nets
  PROVE  DOMAIN Nets[n].to \subseteq {1, 2, 3} /\ 1 \in DOMAIN Nets[n].to
<1>1. ASSUME NEW k \in DOMAIN Nets[n].to
      PROVE  k \in {1, 2, 3}
  BY SMTT(60) DEF Nets, Net
<1>2. 1 \in DOMAIN Nets[n].to
  BY SMTT(60) DEF Nets, Net
<1> QED
  BY <1>1, <1>2

LEMMA FirstEnds ==
  ASSUME NEW n \in DOMAIN Nets, NEW c \in DOMAIN MuxNets
  PROVE  /\ Nets[n].to[1] = <<c, "in0">> => n = MuxNets[c][1]
         /\ Nets[n].to[1] = <<c, "in1">> => n = MuxNets[c][2]
         /\ Nets[n].to[1] = <<c, "in2">> => n = MuxNets[c][3]
<1>1. Nets[n].to[1] = <<c, "in0">> => n = MuxNets[c][1]
  BY SMTT(60) DEF Nets, Net, MuxNets
<1>2. Nets[n].to[1] = <<c, "in1">> => n = MuxNets[c][2]
  BY SMTT(60) DEF Nets, Net, MuxNets
<1>3. Nets[n].to[1] = <<c, "in2">> => n = MuxNets[c][3]
  BY SMTT(60) DEF Nets, Net, MuxNets
<1> QED
  BY <1>1, <1>2, <1>3

LEMMA SecondEnds ==
  ASSUME NEW n \in DOMAIN Nets, NEW c \in DOMAIN MuxNets, 2 \in DOMAIN Nets[n].to
  PROVE  /\ Nets[n].to[2] = <<c, "in0">> => n = MuxNets[c][1]
         /\ Nets[n].to[2] = <<c, "in1">> => n = MuxNets[c][2]
         /\ Nets[n].to[2] = <<c, "in2">> => n = MuxNets[c][3]
<1>1. Nets[n].to[2] = <<c, "in0">> => n = MuxNets[c][1]
  BY SMTT(60) DEF Nets, Net, MuxNets
<1>2. Nets[n].to[2] = <<c, "in1">> => n = MuxNets[c][2]
  BY SMTT(60) DEF Nets, Net, MuxNets
<1>3. Nets[n].to[2] = <<c, "in2">> => n = MuxNets[c][3]
  BY SMTT(60) DEF Nets, Net, MuxNets
<1> QED
  BY <1>1, <1>2, <1>3

LEMMA ThirdEnds ==
  ASSUME NEW n \in DOMAIN Nets, NEW c \in DOMAIN MuxNets, 3 \in DOMAIN Nets[n].to,
         NEW p \in {"in0", "in1", "in2"}
  PROVE  Nets[n].to[3] # <<c, p>>
BY SMTT(60) DEF Nets, Net, MuxNets

LEMMA EndsOfNets ==
  ASSUME NEW n \in DOMAIN Nets, NEW k \in DOMAIN Nets[n].to, NEW c \in DOMAIN MuxNets
  PROVE  /\ Nets[n].to[k] = <<c, "in0">> => n = MuxNets[c][1]
         /\ Nets[n].to[k] = <<c, "in1">> => n = MuxNets[c][2]
         /\ Nets[n].to[k] = <<c, "in2">> => n = MuxNets[c][3]
BY AtMostThreeEnds, FirstEnds, SecondEnds, ThirdEnds

\* Each of them does end there, bypassB's as their second end.
LEMMA NetsReachMuxes ==
  ASSUME NEW c \in DOMAIN MuxNets, NEW i \in DOMAIN MuxNets[c]
  PROVE  /\ MuxNets[c][i] \in DOMAIN Nets
         /\ \E k \in DOMAIN Nets[MuxNets[c][i]].to : Nets[MuxNets[c][i]].to[k] = <<c, In[i]>>
<1>1. CASE c = "bypassA"
  <2>1. i \in {1, 2, 3}
    BY <1>1 DEF MuxNets
  <2>2. /\ "rf_rd1" \in DOMAIN Nets /\ Nets.rf_rd1.to[1] = <<"bypassA", "in0">>
        /\ 1 \in DOMAIN Nets.rf_rd1.to
    BY DEF Nets, Net
  <2>3. /\ "fwd_m" \in DOMAIN Nets /\ Nets.fwd_m.to[1] = <<"bypassA", "in1">>
        /\ 1 \in DOMAIN Nets.fwd_m.to
    BY DEF Nets, Net
  <2>4. /\ "fwd_w" \in DOMAIN Nets /\ Nets.fwd_w.to[1] = <<"bypassA", "in2">>
        /\ 1 \in DOMAIN Nets.fwd_w.to
    BY DEF Nets, Net
  <2> QED
    BY <1>1, <2>1, <2>2, <2>3, <2>4 DEF MuxNets, In
<1>2. CASE c = "bypassB"
  <2>1. i \in {1, 2, 3}
    BY <1>2 DEF MuxNets
  <2>2. /\ "rf_rd2" \in DOMAIN Nets /\ Nets.rf_rd2.to[1] = <<"bypassB", "in0">>
        /\ 1 \in DOMAIN Nets.rf_rd2.to
    BY DEF Nets, Net
  <2>3. /\ "fwd_m" \in DOMAIN Nets /\ Nets.fwd_m.to[2] = <<"bypassB", "in1">>
        /\ 2 \in DOMAIN Nets.fwd_m.to
    BY DEF Nets, Net
  <2>4. /\ "fwd_w" \in DOMAIN Nets /\ Nets.fwd_w.to[2] = <<"bypassB", "in2">>
        /\ 2 \in DOMAIN Nets.fwd_w.to
    BY DEF Nets, Net
  <2> QED
    BY <1>2, <2>1, <2>2, <2>3, <2>4 DEF MuxNets, In
<1>3. CASE c \notin {"bypassA", "bypassB"}
  <2>1. i \in {1, 2} /\ c \in {"opA", "opB", "xres", "resultMux"}
    BY <1>3 DEF MuxNets
  <2>2. \A n \in {"bypA_opA", "xpc_opA", "bypB_opB", "imm_opB", "alu_out", "muldiv_out",
                  "xm_to_result", "dmem_rdata"} : n \in DOMAIN Nets /\ 1 \in DOMAIN Nets[n].to
    BY AtMostThreeEnds DEF Nets
  <2>3. /\ Nets.bypA_opA.to[1] = <<"opA", "in0">> /\ Nets.xpc_opA.to[1] = <<"opA", "in1">>
        /\ Nets.bypB_opB.to[1] = <<"opB", "in0">> /\ Nets.imm_opB.to[1] = <<"opB", "in1">>
        /\ Nets.alu_out.to[1] = <<"xres", "in0">> /\ Nets.muldiv_out.to[1] = <<"xres", "in1">>
    BY DEF Nets, Net
  <2>4. /\ Nets.xm_to_result.to[1] = <<"resultMux", "in0">>
        /\ Nets.dmem_rdata.to[1] = <<"resultMux", "in1">>
    BY DEF Nets, Net
  <2> QED
    BY <2>1, <2>2, <2>3, <2>4 DEF MuxNets, In
<1> QED
  BY <1>1, <1>2, <1>3

LEMMA MuxDrivers ==
  ASSUME NEW c \in DOMAIN MuxNets, NEW i \in DOMAIN MuxNets[c]
  PROVE  Driver(c, In[i]) = MuxNets[c][i]
<1>1. i \in {1, 2, 3}
  BY DEF MuxNets
<1>2. \A n \in DOMAIN Nets :
        (\E k \in DOMAIN Nets[n].to : Nets[n].to[k] = <<c, In[i]>>) => n = MuxNets[c][i]
  BY <1>1, EndsOfNets DEF In
<1> QED
  BY <1>2, NetsReachMuxes DEF Driver

LEMMA SelectedNetIs ==
  ASSUME NEW c \in DOMAIN MuxNets, NEW k \in Nat, k + 1 \in DOMAIN MuxNets[c]
  PROVE  SelectedNet(c, k) = MuxNets[c][k + 1]
BY MuxDrivers DEF SelectedNet, In

-----------------------------------------------------------------------------
(* One frame                                                               *)

LEMMA SnapshotConsistent ==
  ASSUME NEW sx, NEW sm, NEW sfetch
  PROVE  Consistent(Snapshot(sx, sm, sfetch))
BY DEF Consistent, Snapshot, Issues

LEMMA PaintIsOneFrame ==
  ASSUME NEW sx, NEW sm, NEW sfetch, PaintDiagram(sx, sm, sfetch)
  PROVE  OneFrame' /\ attrs' = Drawn(Snapshot(sx, sm, sfetch))
<1> DEFINE s == Snapshot(sx, sm, sfetch)
<1>1. attrs' = Drawn(s) /\ rows' = StatusRows(s)
  BY DEF PaintDiagram, ApplyDisplay, Written, Drawn
<1>2. Consistent(s)
  BY SnapshotConsistent
<1> HIDE DEF s
<1>3. OneFrame'
  BY <1>1, <1>2 DEF OneFrame
<1> QED
  BY <1>1, <1>3 DEF s

LEMMA FrameInvariant == Spec => []OneFrame
<1>1. Init => OneFrame
  BY DEF Init, OneFrame
<1>2. OneFrame /\ [Next]_vars => OneFrame'
  <2> SUFFICES ASSUME OneFrame, [Next]_vars PROVE OneFrame'
    OBVIOUS
  <2>1. CASE UNCHANGED shown
    BY <2>1 DEF OneFrame, shown
  <2>2. CASE Paint
    BY <2>2, PaintIsOneFrame DEF Paint
  <2>3. CASE Load
    BY <2>3, PaintIsOneFrame DEF Load
  <2> QED
    BY <2>1, <2>2, <2>3 DEF Next, BuildNet, Cycle, vars
<1> QED
  BY <1>1, <1>2, PTL DEF Spec

-----------------------------------------------------------------------------
(* What one frame shows                                                    *)

\* A wire drawn dark says nothing, whatever the frames before it showed.
THEOREM DarkWiresSayNothing == Spec => []DarkWiresAreSilent
<1>1. OneFrame => DarkWiresAreSilent
  <2> SUFFICES ASSUME OneFrame, NEW n \in DOMAIN Nets
               PROVE  Quiet(attrs.nets[n])
    BY DEF DarkWiresAreSilent, Quiet
  <2>1. CASE attrs = FreshAttrs
    BY <2>1, CarriesQuiet DEF FreshAttrs
  <2>2. ASSUME NEW s, attrs = Drawn(s)
        PROVE  Quiet(attrs.nets[n])
    <3>1. attrs.nets[n] = ComputeDisplay(s).nets[n]
      BY <2>2 DEF Drawn
    <3> QED
      BY <3>1, NetsQuiet
  <2> QED
    BY <2>1, <2>2 DEF OneFrame
<1> QED
  BY <1>1, FrameInvariant, PTL

LEMMA LeastOfSeven ==
  ASSUME NEW S, S \subseteq {1, 2, 3, 4, 5, 6, 7}, S # {}
  PROVE  \E k \in S : \A j \in S : k <= j
<1>1. CASE 1 \in S
  BY <1>1
<1>2. CASE 1 \notin S /\ 2 \in S
  BY <1>2
<1>3. CASE S \cap {1, 2} = {} /\ 3 \in S
  BY <1>3
<1>4. CASE S \cap {1, 2, 3} = {} /\ 4 \in S
  BY <1>4
<1>5. CASE S \subseteq {5, 6, 7} /\ 5 \in S
  BY <1>5
<1>6. CASE S \subseteq {6, 7} /\ 6 \in S
  BY <1>6
<1>7. CASE S = {7}
  BY <1>7
<1> QED
  BY <1>1, <1>2, <1>3, <1>4, <1>5, <1>6, <1>7

\* No cause of a stall reads as if the instruction went on.
LEMMA StallIsNoIssue ==
  ASSUME NEW causes
  PROVE  StallReason(causes) # "issues"
<1> DEFINE P == STALL_PRIORITY
           named == {k \in DOMAIN P : P[k] \in causes}
           i == CHOOSE k \in named : \A j \in named : k <= j
<1>1. DOMAIN P = 1..7 /\ \A k \in 1..7 : P[k] # "issues"
  BY DEF STALL_PRIORITY
<1> HIDE DEF P
<1>2. named # {} => \E k \in named : \A j \in named : k <= j
  <2>1. named \subseteq {1, 2, 3, 4, 5, 6, 7}
    BY <1>1
  <2> HIDE DEF named
  <2> QED
    BY <2>1, LeastOfSeven
<1>3. named # {} => i \in 1..7
  <2>1. named \subseteq 1..7
    BY <1>1
  <2> HIDE DEF named
  <2> QED
    BY <1>2, <2>1
<1>4. StallReason(causes) = IF named = {} THEN "none" ELSE P[i]
  BY DEF StallReason, P
<1> HIDE DEF named, i
<1> QED
  BY <1>1, <1>3, <1>4

\* The panel's rows and the diagram's parts say the same of each stage.
THEOREM RowsAgreeWithDiagram == Spec => []RowsMatchDiagram
<1>1. ASSUME attrs = FreshAttrs, rows = FreshRows
      PROVE  RowsMatchDiagram
  <2>1. \A c \in {"decode", "xm", "cir", "hazard", "wb"} : attrs.components[c].state = "idle"
    BY <1>1 DEF FreshAttrs, Components, Part
  <2>2. ~attrs.nets.xres_xm.active
    BY <1>1 DEF FreshAttrs, Nets, Silent, Carries
  <2>3. \A r \in {"F", "X", "M"} : rows[r].state = "idle" /\ rows[r].note = Blank
    BY <1>1 DEF FreshRows, Row
  <2>4. Blank # Name("issues")
    BY DEF Blank, Name
  <2> QED
    BY <2>1, <2>2, <2>3, <2>4 DEF RowsMatchDiagram
<1>2. ASSUME NEW s, Consistent(s), attrs = Drawn(s), rows = StatusRows(s)
      PROVE  RowsMatchDiagram
  <2> DEFINE part == attrs.components
  <2>0. /\ part.decode = ExecuteParts(s).decode /\ part.xm = MemoryParts(s).xm
        /\ part.cir = FetchParts(s).cir /\ part.hazard = ExecuteParts(s).hazard
        /\ part.wb = MemoryParts(s).wb
        /\ attrs.nets.xres_xm = ExecuteNets(s).xres_xm
    BY <1>2, PartsDrawn, NetsDrawn
  <2>1. rows.X.state = part.decode.state
    BY <1>2, <2>0 DEF StatusRows, ExecuteRow, Row, ExecuteParts, Part
  <2>2. rows.M.state = part.xm.state
    BY <1>2, <2>0 DEF StatusRows, MemoryRow, Row, MemoryParts, Part
  <2>3. rows.F.state = "bubble" <=> part.cir.state = "bubble"
    <3>1. rows.F.state = IF s.f.cirVld THEN "active" ELSE "bubble"
      BY <1>2 DEF StatusRows, FetchRow, Row
    <3>2. part.cir.state = IF ~s.f.cirVld THEN "bubble"
                           ELSE IF XStalled(s) THEN "stalled" ELSE "active"
      BY <2>0 DEF FetchParts, Part
    <3> QED
      BY <3>1, <3>2
  <2>4. part.hazard.state = "stalled" => rows.X.note = part.hazard.value
    BY <1>2, <2>0 DEF StatusRows, ExecuteRow, Row, ExecuteParts, Part, XStalled
  <2>5. rows.X.note = Name("issues") <=> attrs.nets.xres_xm.active
    <3>1. rows.X.note = IF s.x.stall THEN Name(StallReason(s.x.causes))
                        ELSE When(s.x.issue, Name("issues"))
      BY <1>2 DEF StatusRows, ExecuteRow, Row
    <3>2. attrs.nets.xres_xm.active = (s.x.valid /\ s.x.issue)
      BY <2>0 DEF ExecuteNets, Carries
    <3>3. Name(StallReason(s.x.causes)) # Name("issues")
      BY StallIsNoIssue DEF Name
    <3>4. Blank # Name("issues")
      BY DEF Blank, Name
    <3> QED
      BY <1>2, <3>1, <3>2, <3>3, <3>4 DEF Consistent, When
  <2>6. part.wb.state = "writing" => rows.M.note = Hex(part.wb.value[3])
    <3>1. part.wb.state = "writing" =>
            s.m.regWen /\ part.wb.value = <<"update", s.m.rd, s.m.result>>
      BY <2>0 DEF MemoryParts, Part, When, Update
    <3>2. s.m.regWen => rows.M.note = Hex(s.m.result)
      BY <1>2 DEF StatusRows, MemoryRow, Row
    <3> QED
      BY <3>1, <3>2
  <2> QED
    BY <2>1, <2>2, <2>3, <2>4, <2>5, <2>6 DEF RowsMatchDiagram
<1>3. OneFrame => RowsMatchDiagram
  BY <1>1, <1>2 DEF OneFrame
<1> QED
  BY <1>3, FrameInvariant, PTL

\* The inputs a mux may show, by what selects them.
LEMMA BypassRange ==
  ASSUME NEW code
  PROVE  BypassInput(code) \in {-1, 0, 1, 2}
BY DEF BypassInput

\* The input that a mux shows as selected comes in on a wire drawn live.
THEOREM SelectionIsLive == Spec => []SelectedInputIsLive
<1> DEFINE Muxes == {"bypassA", "bypassB", "opA", "opB", "xres", "resultMux"}
           Live(c) == LET d == attrs.components[c]
                      IN  d.selected >= 0 /\ d.state # "bubble" /\ ~Operandless(c, attrs)
                            => attrs.nets[SelectedNet(c, d.selected)].active
<1>1. ASSUME attrs = FreshAttrs, NEW c \in Muxes
      PROVE  Live(c)
  <2>1. attrs.components[c].selected = -2
    BY <1>1 DEF FreshAttrs, Components, Part, Undefined
  <2> QED
    BY <2>1
<1>2. ASSUME NEW s, Consistent(s), attrs = Drawn(s)
      PROVE  \A c \in Muxes : Live(c)
  <2> DEFINE part == attrs.components
             net == attrs.nets
  <2>a. SelA(s) \in {-1, 0, 1, 2} /\ SelB(s) \in {-1, 0, 1, 2}
    BY BypassRange DEF SelA, SelB
  <2>b. /\ part.bypassA = BypassPart(SelA(s), s.x.rs1Bypass)
        /\ part.bypassB = BypassPart(SelB(s), s.x.rs2Bypass)
        /\ part.opA = OperandMux(s, OpAFromPc(s), s.x.opA)
        /\ part.opB = OperandMux(s, OpBFromImm(s), s.x.opB)
        /\ part.xres = ExecuteParts(s).xres /\ part.resultMux = MemoryParts(s).resultMux
    BY <1>2, PartsDrawn
  <2>c. /\ net.rf_rd1 = ExecuteNets(s).rf_rd1 /\ net.rf_rd2 = ExecuteNets(s).rf_rd2
        /\ net.fwd_m = ExecuteNets(s).fwd_m /\ net.fwd_w = ExecuteNets(s).fwd_w
        /\ net.bypA_opA = ExecuteNets(s).bypA_opA /\ net.bypB_opB = ExecuteNets(s).bypB_opB
        /\ net.xpc_opA = ExecuteNets(s).xpc_opA /\ net.imm_opB = ExecuteNets(s).imm_opB
        /\ net.alu_out = ExecuteNets(s).alu_out /\ net.muldiv_out = ExecuteNets(s).muldiv_out
        /\ net.xm_to_result = MemoryNets(s).xm_to_result
        /\ net.dmem_rdata = MemoryNets(s).dmem_rdata
    BY <1>2, NetsDrawn
  <2> HIDE DEF part, net
  <2>d. /\ SelectedNet("bypassA", 0) = "rf_rd1" /\ SelectedNet("bypassA", 1) = "fwd_m"
        /\ SelectedNet("bypassA", 2) = "fwd_w"
        /\ SelectedNet("bypassB", 0) = "rf_rd2" /\ SelectedNet("bypassB", 1) = "fwd_m"
        /\ SelectedNet("bypassB", 2) = "fwd_w"
    BY SelectedNetIs DEF MuxNets
  <2>e. /\ SelectedNet("opA", 0) = "bypA_opA" /\ SelectedNet("opA", 1) = "xpc_opA"
        /\ SelectedNet("opB", 0) = "bypB_opB" /\ SelectedNet("opB", 1) = "imm_opB"
        /\ SelectedNet("xres", 0) = "alu_out" /\ SelectedNet("xres", 1) = "muldiv_out"
        /\ SelectedNet("resultMux", 0) = "xm_to_result"
        /\ SelectedNet("resultMux", 1) = "dmem_rdata"
    BY SelectedNetIs DEF MuxNets
  <2>1. Live("bypassA")
    <3>1. part.bypassA.selected = SelA(s)
      BY <2>b DEF BypassPart, Choice
    <3>2. SelA(s) = 0 => net.rf_rd1.active
      <4>1. net.rf_rd1.active = (SelA(s) = 0)
        BY <2>c DEF ExecuteNets, Carries
      <4> QED
        BY <4>1, Zenon
    <3>4. SelA(s) = 1 => net.fwd_m.active = TRUE
      BY <2>c DEF ExecuteNets, Carries, Emphasised, Forwards
    <3>3. SelA(s) = 2 => net.fwd_w.active = TRUE
      BY <2>c DEF ExecuteNets, Carries, Emphasised, Forwards
    <3> QED
      BY <2>a, <2>d, <3>1, <3>2, <3>3, <3>4 DEF part, net
  <2>2. Live("bypassB")
    <3>1. part.bypassB.selected = SelB(s)
      BY <2>b DEF BypassPart, Choice
    <3>2. SelB(s) = 0 => net.rf_rd2.active
      <4>1. net.rf_rd2.active = (SelB(s) = 0)
        BY <2>c DEF ExecuteNets, Carries
      <4> QED
        BY <4>1, Zenon
    <3>4. SelB(s) = 1 => net.fwd_m.active = TRUE
      BY <2>c DEF ExecuteNets, Carries, Emphasised, Forwards
    <3>3. SelB(s) = 2 => net.fwd_w.active = TRUE
      BY <2>c DEF ExecuteNets, Carries, Emphasised, Forwards
    <3> QED
      BY <2>a, <2>d, <3>1, <3>2, <3>3, <3>4 DEF part, net
  <2>3. Live("opA")
    <3>1. part.opA.state # "bubble" =>
            s.x.valid /\ part.opA.selected = IF OpAFromPc(s) THEN 1 ELSE 0
      BY <2>b DEF OperandMux, Choice, XState
    <3>2. s.x.valid => net.xpc_opA.active
      BY <2>c DEF ExecuteNets, Carries
    <3>4. SelA(s) >= 0 => net.bypA_opA.active
      <4>1. net.bypA_opA.active = (SelA(s) >= 0)
        BY <2>c DEF ExecuteNets, Carries
      <4> QED
        BY <4>1, Zenon
    <3>3. part.bypassA.selected = SelA(s)
      BY <2>b DEF BypassPart, Choice
    <3>5. part.opA.state # "bubble" /\ part.opA.selected = 1 => net.xpc_opA.active
      BY <3>1, <3>2
    <3>6. SelectedNet("opA", 0) = "bypA_opA" /\ SelectedNet("opA", 1) = "xpc_opA"
      BY <2>e
    <3>7. part.opA.state # "bubble" => part.opA.selected \in {0, 1}
      BY <3>1
    <3>8. ~Operandless("opA", attrs) => net.bypA_opA.active
      <4>1. ~Operandless("opA", attrs) => part.bypassA.selected # -1
        BY DEF Operandless, part
      <4>2. part.bypassA.selected # -1 => SelA(s) >= 0
        BY <2>a, <3>3
      <4> QED
        BY <3>4, <4>1, <4>2, Zenon
    <3> QED
      BY <3>5, <3>6, <3>7, <3>8 DEF part, net
  <2>4. Live("opB")
    <3>1. part.opB.state # "bubble" =>
            s.x.valid /\ part.opB.selected = IF OpBFromImm(s) THEN 1 ELSE 0
      BY <2>b DEF OperandMux, Choice, XState
    <3>2. OpBFromImm(s) => net.imm_opB.active
      BY <2>c DEF ExecuteNets, Carries
    <3>4. SelB(s) >= 0 => net.bypB_opB.active
      <4>1. CASE IsStore(s)
        BY <2>c, <4>1 DEF ExecuteNets, Carries
      <4>2. CASE ~IsStore(s)
        <5>1. net.bypB_opB.active = (SelB(s) >= 0)
          BY <2>c, <4>2 DEF ExecuteNets, Carries
        <5> QED
          BY <5>1, Zenon
      <4> QED
        BY <4>1, <4>2
    <3>3. part.bypassB.selected = SelB(s)
      BY <2>b DEF BypassPart, Choice
    <3>5. part.opB.state # "bubble" /\ part.opB.selected = 1 => net.imm_opB.active
      BY <3>1, <3>2
    <3>6. SelectedNet("opB", 0) = "bypB_opB" /\ SelectedNet("opB", 1) = "imm_opB"
      BY <2>e
    <3>7. part.opB.state # "bubble" => part.opB.selected \in {0, 1}
      BY <3>1
    <3>8. ~Operandless("opB", attrs) => net.bypB_opB.active
      <4>1. ~Operandless("opB", attrs) => part.bypassB.selected # -1
        BY DEF Operandless, part
      <4>2. part.bypassB.selected # -1 => SelB(s) >= 0
        BY <2>a, <3>3
      <4> QED
        BY <3>4, <4>1, <4>2, Zenon
    <3> QED
      BY <3>5, <3>6, <3>7, <3>8 DEF part, net
  <2>5. Live("xres")
    <3>1. part.xres.state # "bubble" =>
            s.x.valid /\ part.xres.selected = IF UsingMuldiv(s) THEN 1 ELSE 0
      BY <2>b DEF ExecuteParts, Choice, XState
    <3>2. /\ s.x.valid => net.alu_out.active
          /\ UsingMuldiv(s) => net.muldiv_out.active
      BY <2>c DEF ExecuteNets, Silent, Carries
    <3> QED
      BY <2>e, <3>1, <3>2 DEF part, net
  <2>6. Live("resultMux")
    <3>1. part.resultMux.selected =
            IF ~s.m.valid THEN -1 ELSE IF IsLoad(s) THEN 1 ELSE 0
      BY <2>b DEF MemoryParts, Choice
    <3>2. /\ net.xm_to_result.active = s.m.valid
          /\ IsLoad(s) /\ s.m.dphase => net.dmem_rdata.active
      <4>1. /\ net.xm_to_result.active = s.m.valid
            /\ net.dmem_rdata.active = (IsLoad(s) /\ s.m.dphase)
        BY <2>c DEF MemoryNets, Carries
      <4> QED
        BY <4>1, Zenon
    <3>3. IsLoad(s) => s.m.dphase
      BY <1>2 DEF Consistent, IsLoad
    <3>4. part.resultMux.selected = 0 => net.xm_to_result.active
      BY <3>1, <3>2
    <3>5. part.resultMux.selected = 1 => net.dmem_rdata.active
      BY <3>1, <3>2, <3>3
    <3>6. part.resultMux.selected \in {-1, 0, 1}
      BY <3>1
    <3> QED
      BY <2>e, <3>4, <3>5, <3>6 DEF part, net
  <2> HIDE DEF Live
  <2> QED
    BY <2>1, <2>2, <2>3, <2>4, <2>5, <2>6
<1>3. OneFrame => SelectedInputIsLive
  BY <1>1, <1>2 DEF OneFrame, SelectedInputIsLive
<1> QED
  BY <1>3, FrameInvariant, PTL

-----------------------------------------------------------------------------
(* The core                                                                *)

\* Stage M holds a destination and values of the machine; it writes no x0.
MFits(sm) ==
  /\ sm.rd \in Reg /\ sm.xmResult \in Val /\ sm.result \in Val
  /\ sm.wen => sm.rd # 0

\* Stage X holds an instruction, its operands taken from where its lines say.
XFits(sx, sm, smw, sf) ==
  /\ sx.i \in Instructions \cup {Stale}
  /\ sx.linesA = Lines(sx.i.rs1, sx.i.srcA, sm, smw)
  /\ sx.linesB = Lines(sx.i.rs2, sx.i.srcB, sm, smw)
  /\ sx.rs1Bypass = Operand(sx.linesA, sx.i.rs1, sm, smw, sf)
  /\ sx.rs2Bypass = Operand(sx.linesB, sx.i.rs2, sm, smw, sf)
  /\ sx.opA = OpA(sx.i, sx.rs1Bypass)
  /\ sx.opB = OpB(sx.i, sx.rs2Bypass)
  /\ sx.sum \in Val

\* What M|W still holds has reached the register file.
CoreInv ==
  /\ file \in [Reg -> Val]
  /\ mw.rd \in Reg /\ mw.result \in Val
  /\ mw.rd # 0 => file[mw.rd] = mw.result
  /\ MFits(m)
  /\ XFits(x, m, mw, file)

LEMMA InstructionFields ==
  ASSUME NEW i \in Instructions \cup {Stale}
  PROVE  i.rs1 \in Reg /\ i.rs2 \in Reg /\ i.rd \in Reg /\ i.pc \in Val /\ i.imm \in Val
BY DiagramAssumption

LEMMA InMFits ==
  ASSUME NEW valid, NEW rd \in Reg, NEW memOp, NEW v \in Val,
         NEW sm \in InM(valid, rd, memOp, v)
  PROVE  MFits(sm)
<1>1. /\ sm \in [valid : {valid}, rd : {rd}, memOp : {memOp}, xmResult : {v},
                 result : IF memOp = "load" THEN Val ELSE {v},
                 stall : BOOLEAN, trapSoon : BOOLEAN, wen : BOOLEAN]
      /\ sm.wen = (rd # 0 /\ ~sm.stall /\ ~sm.trapSoon)
  BY DEF InM
<1>2. sm.rd = rd /\ sm.xmResult = v /\ sm.result \in Val
  BY <1>1
<1> QED
  BY <1>1, <1>2 DEF MFits

LEMMA OperandInVal ==
  ASSUME NEW lines, NEW r \in Reg, NEW sm, NEW smw, NEW sf \in [Reg -> Val],
         sm.xmResult \in Val, smw.result \in Val
  PROVE  Operand(lines, r, sm, smw, sf) \in Val
BY DiagramAssumption DEF Operand

LEMMA InXFits ==
  ASSUME NEW valid, NEW i \in Instructions \cup {Stale}, NEW sm, NEW smw,
         NEW sf \in [Reg -> Val], sm.xmResult \in Val, smw.result \in Val,
         NEW sx \in InX(valid, i, sm, smw, sf)
  PROVE  XFits(sx, sm, smw, sf) /\ sx.i = i
<1> DEFINE linesA == Lines(i.rs1, i.srcA, sm, smw)
           linesB == Lines(i.rs2, i.srcB, sm, smw)
           a == Operand(linesA, i.rs1, sm, smw, sf)
           b == Operand(linesB, i.rs2, sm, smw, sf)
<1>1. PICK causes \in Causes(valid, i, sm) :
        sx = [valid |-> valid, i |-> i, causes |-> causes, linesA |-> linesA,
              linesB |-> linesB, rs1Bypass |-> a, rs2Bypass |-> b, opA |-> OpA(i, a),
              opB |-> OpB(i, b),
              sum |-> IF valid THEN Alu(OpA(i, a), OpB(i, b)) ELSE 0]
  BY DEF InX
<1>2. a \in Val /\ b \in Val
  BY InstructionFields, OperandInVal
<1> HIDE DEF a, b, linesA, linesB
<1>3. OpA(i, a) \in Val /\ OpB(i, b) \in Val
  BY <1>2, InstructionFields DEF OpA, OpB
<1>4. sx.sum \in Val
  BY <1>1, <1>3, DiagramAssumption
<1>5. /\ sx.i = i /\ sx.linesA = linesA /\ sx.linesB = linesB
      /\ sx.rs1Bypass = a /\ sx.rs2Bypass = b
      /\ sx.opA = OpA(i, a) /\ sx.opB = OpB(i, b)
  BY <1>1
<1> QED
  BY <1>4, <1>5 DEF XFits, a, b, linesA, linesB

LEMMA FillFits ==
  ASSUME NEW sm, NEW smw, NEW sf \in [Reg -> Val], NEW sx, NEW sfetch,
         sm.xmResult \in Val, smw.result \in Val, FillX(sm, smw, sf, sx, sfetch)
  PROVE  XFits(sx, sm, smw, sf)
<1>1. PICK i \in Instructions \cup {Stale} :
        \E valid \in BOOLEAN : sx \in InX(valid, i, sm, smw, sf)
  BY DEF FillX
<1> QED
  BY <1>1, InXFits

LEMMA EmptyFileFits ==
  /\ EmptyFile \in [Reg -> Val]
  /\ NoWrite.rd = 0 /\ NoWrite.result = 0
  /\ 0 \in Reg /\ 0 \in Val
BY DiagramAssumption DEF EmptyFile, NoWrite

\* What the reset leaves fits.
LEMMA ResetFits ==
  ASSUME NEW sm, NEW sx, NEW sf, AfterReset(sm, sx, sf)
  PROVE  MFits(sm) /\ XFits(sx, sm, NoWrite, EmptyFile)
<1>1. MFits(sm)
  BY EmptyFileFits, InMFits DEF AfterReset, EmptyM
<1> QED
  BY <1>1, EmptyFileFits, FillFits DEF AfterReset, MFits

LEMMA NextMFits ==
  ASSUME CoreInv, NEW sm \in NextM
  PROVE  MFits(sm)
<1>0. /\ m.rd \in Reg /\ m.xmResult \in Val /\ x.i.rd \in Reg /\ x.sum \in Val
      /\ 0 \in Reg /\ 0 \in Val
  BY InstructionFields, EmptyFileFits DEF CoreInv, MFits, XFits
<1>1. CASE sm \in InM(m.valid, m.rd, m.memOp, m.xmResult)
  BY <1>0, <1>1, InMFits
<1>2. CASE sm \in EmptyM(m.xmResult)
  BY <1>0, <1>2, InMFits DEF EmptyM
<1>3. ASSUME NEW v \in IF x.i.unit = "muldiv" THEN Val ELSE {x.sum},
             sm \in InM(TRUE, x.i.rd, x.i.memOp, v)
      PROVE  MFits(sm)
  <2>1. v \in Val
    BY <1>0
  <2> QED
    BY <1>0, <1>3, <2>1, InMFits
<1> QED
  BY <1>1, <1>2, <1>3 DEF NextM

LEMMA EdgeFits ==
  ASSUME CoreInv, CoreEdge
  PROVE  CoreInv'
<1>1. /\ file \in [Reg -> Val] /\ mw.rd \in Reg /\ mw.result \in Val
      /\ mw.rd # 0 => file[mw.rd] = mw.result
      /\ m.rd \in Reg /\ m.result \in Val
  BY DEF CoreInv, MFits
<1>2. MFits(m')
  BY NextMFits DEF CoreEdge
<1>3. /\ file' \in [Reg -> Val] /\ mw'.rd \in Reg /\ mw'.result \in Val
      /\ mw'.rd # 0 => file'[mw'.rd] = mw'.result
  <2>1. CASE m.wen
    <3>1. mw' = [rd |-> m.rd, result |-> m.result] /\ file' = [file EXCEPT ![m.rd] = m.result]
      BY <2>1 DEF CoreEdge, NextMW, NextFile
    <3> QED
      BY <1>1, <3>1
  <2>2. CASE ~m.wen
    <3>1. mw' \in {mw, NoWrite} /\ file' = file
      BY <2>2 DEF CoreEdge, NextMW, NextFile
    <3> QED
      BY <1>1, <3>1, EmptyFileFits
  <2> QED
    BY <2>1, <2>2
<1>4. XFits(x', m', mw', file')
  BY <1>2, <1>3, FillFits DEF CoreEdge, MFits
<1> QED
  BY <1>2, <1>3, <1>4 DEF CoreInv, MFits, XFits

LEMMA CoreInvariant == Spec => []CoreInv
<1>1. Init => CoreInv
  BY ResetFits, EmptyFileFits DEF Init, CoreInv
<1>2. CoreInv /\ [Next]_vars => CoreInv'
  <2> SUFFICES ASSUME CoreInv, [Next]_vars PROVE CoreInv'
    OBVIOUS
  <2>1. CASE UNCHANGED coreVars
    BY <2>1 DEF CoreInv, MFits, XFits, coreVars
  <2>2. CASE Cycle
    BY <2>2, EdgeFits DEF Cycle
  <2>3. CASE Load
    <3>1. AfterReset(m', x', fetch') /\ mw' = NoWrite /\ file' = EmptyFile
      BY <2>3 DEF Load
    <3>2. MFits(m') /\ XFits(x', m', mw', file')
      BY <3>1, ResetFits
    <3> QED
      BY <3>1, <3>2, EmptyFileFits DEF CoreInv, MFits, XFits
  <2> QED
    BY <2>1, <2>2, <2>3 DEF Next, BuildNet, Paint, vars, coreVars
<1> QED
  BY <1>1, <1>2, PTL DEF Spec

-----------------------------------------------------------------------------
(* The operands                                                            *)


\* The line that is up selects the newest value of the register.
LEMMA LinesSelectNewest ==
  ASSUME CoreInv, NEW r \in Reg, NEW source
  PROVE  LET lines == Lines(r, source, m, mw)
             input == BypassInput(BypassCode(lines))
             value == Operand(lines, r, m, mw, file)
         IN  /\ input >= 0 => value = Newest(r)
             /\ input = 1 => value = m.xmResult
<1> DEFINE lines == Lines(r, source, m, mw)
           input == BypassInput(BypassCode(lines))
           value == Operand(lines, r, m, mw, file)
<1>0. mw.rd # 0 => file[mw.rd] = mw.result
  BY DEF CoreInv
<1>1. CASE r = 0
  <2>1. lines \in {{"regs"}, {}}
    BY <1>1 DEF Lines
  <2>2. value = 0 /\ Newest(r) = 0
    BY <1>1, <2>1 DEF Operand, Newest
  <2>3. input \in {0, -1}
    BY <2>1 DEF BypassCode, BypassInput
  <2> QED
    BY <2>2, <2>3
<1>2. CASE r # 0 /\ r = m.rd
  <2>1. lines = {"xm"}
    BY <1>2 DEF Lines
  <2> QED
    BY <1>2, <2>1 DEF Operand, Newest
<1>3. CASE r # 0 /\ r # m.rd /\ r = mw.rd
  <2>1. lines = {"mw"}
    BY <1>3 DEF Lines
  <2>2. value = mw.result
    BY <2>1 DEF Operand
  <2>3. input = 2
    BY <2>1 DEF BypassCode, BypassInput
  <2> QED
    BY <1>0, <1>3, <2>2, <2>3 DEF Newest
<1>4. CASE r # 0 /\ r # m.rd /\ r # mw.rd
  <2>1. lines = {"regs"}
    BY <1>4 DEF Lines
  <2>2. value = file[r]
    BY <1>4, <2>1 DEF Operand
  <2>3. input = 0
    BY <2>1 DEF BypassCode, BypassInput
  <2> QED
    BY <1>4, <2>2, <2>3 DEF Newest
<1> QED
  BY <1>1, <1>2, <1>3, <1>4

\* The fields of a snapshot that the operands are drawn from.
LEMMA SnapshotFields ==
  ASSUME NEW sx, NEW sm, NEW sfetch, NEW s, s = Snapshot(sx, sm, sfetch)
  PROVE  /\ s.x.valid = sx.valid /\ s.x.pc = sx.i.pc /\ s.x.imm = sx.i.imm
         /\ s.x.bypassA = BypassCode(sx.linesA) /\ s.x.bypassB = BypassCode(sx.linesB)
         /\ s.x.rs1Bypass = sx.rs1Bypass /\ s.x.rs2Bypass = sx.rs2Bypass
         /\ s.x.opA = sx.opA /\ s.x.opB = sx.opB
         /\ s.m.xmResult = sm.xmResult
         /\ s.m.regWen = sm.wen /\ s.m.rd = sm.rd /\ s.m.result = sm.result
BY DEF Snapshot

\* The bypass muxes show the newest value of the register, and so does the wire.
THEOREM OperandsShownAreNewest == Spec => OperandShownIsNewest
<1> DEFINE Op == {[mux |-> "bypassA", r |-> x.i.rs1], [mux |-> "bypassB", r |-> x.i.rs2]}
           Shown(op) ==
             LET d == attrs'.components[op.mux]
             IN  x.valid /\ "load-use" \notin x.causes /\ d.selected >= 0
                   => /\ d.value = Hex(Newest(op.r))
                      /\ d.selected # 2 =>
                           attrs'.nets[SelectedNet(op.mux, d.selected)].value = d.value
<1>1. ASSUME CoreInv, Paint
      PROVE  \A op \in Op : Shown(op)
  <2> DEFINE part == attrs'.components
             net == attrs'.nets
  <2> PICK s : s = Snapshot(x, m, fetch)
    OBVIOUS
  <2>1. attrs' = Drawn(s)
    BY <1>1, PaintIsOneFrame DEF Paint
  <2>2. /\ s.x.rs1Bypass = x.rs1Bypass /\ s.x.rs2Bypass = x.rs2Bypass
        /\ s.m.xmResult = m.xmResult
        /\ SelA(s) = BypassInput(BypassCode(x.linesA))
        /\ SelB(s) = BypassInput(BypassCode(x.linesB))
    BY SnapshotFields DEF SelA, SelB
  <2>3. SelA(s) \in {-1, 0, 1, 2} /\ SelB(s) \in {-1, 0, 1, 2}
    BY BypassRange DEF SelA, SelB
  <2>4. x.i.rs1 \in Reg /\ x.i.rs2 \in Reg
    BY <1>1, InstructionFields DEF CoreInv, XFits
  <2>5. /\ SelA(s) >= 0 => x.rs1Bypass = Newest(x.i.rs1)
        /\ SelA(s) = 1 => x.rs1Bypass = m.xmResult
    BY <1>1, <2>2, <2>4, LinesSelectNewest DEF CoreInv, XFits
  <2>6. /\ SelB(s) >= 0 => x.rs2Bypass = Newest(x.i.rs2)
        /\ SelB(s) = 1 => x.rs2Bypass = m.xmResult
    BY <1>1, <2>2, <2>4, LinesSelectNewest DEF CoreInv, XFits
  <2>7. /\ part.bypassA = BypassPart(SelA(s), s.x.rs1Bypass)
        /\ part.bypassB = BypassPart(SelB(s), s.x.rs2Bypass)
    BY <2>1, PartsDrawn
  <2>8. /\ net.rf_rd1 = ExecuteNets(s).rf_rd1 /\ net.rf_rd2 = ExecuteNets(s).rf_rd2
        /\ net.fwd_m = ExecuteNets(s).fwd_m
    BY <2>1, NetsDrawn
  <2> HIDE DEF part, net
  <2>9. /\ SelectedNet("bypassA", 0) = "rf_rd1" /\ SelectedNet("bypassA", 1) = "fwd_m"
        /\ SelectedNet("bypassB", 0) = "rf_rd2" /\ SelectedNet("bypassB", 1) = "fwd_m"
    BY SelectedNetIs DEF MuxNets
  <2>10. SelA(s) = 1 \/ SelB(s) = 1 => net.fwd_m.value = Hex(m.xmResult)
    BY <2>2, <2>8 DEF ExecuteNets, Emphasised, Carries, When, Forwards
  <2>11. Shown([mux |-> "bypassA", r |-> x.i.rs1])
    <3>1. /\ part.bypassA.selected = SelA(s)
          /\ SelA(s) >= 0 => part.bypassA.value = Hex(x.rs1Bypass)
      BY <2>2, <2>7 DEF BypassPart, Choice, When
    <3>2. SelA(s) = 0 => net.rf_rd1.value = Hex(x.rs1Bypass)
      BY <2>2, <2>8 DEF ExecuteNets, Carries, When
    <3> QED
      BY <2>3, <2>5, <2>9, <2>10, <3>1, <3>2 DEF part, net
  <2>12. Shown([mux |-> "bypassB", r |-> x.i.rs2])
    <3>1. /\ part.bypassB.selected = SelB(s)
          /\ SelB(s) >= 0 => part.bypassB.value = Hex(x.rs2Bypass)
      BY <2>2, <2>7 DEF BypassPart, Choice, When
    <3>2. SelB(s) = 0 => net.rf_rd2.value = Hex(x.rs2Bypass)
      BY <2>2, <2>8 DEF ExecuteNets, Carries, When
    <3> QED
      BY <2>3, <2>6, <2>9, <2>10, <3>1, <3>2 DEF part, net
  <2> QED
    BY <2>11, <2>12
<1>2. CoreInv => [Paint => \A op \in Op : Shown(op)]_vars
  BY <1>1
<1> QED
  BY <1>2, CoreInvariant, PTL DEF OperandShownIsNewest

\* The operand muxes' guess shows an input that carries the operand.
THEOREM GuessShowsOperand == Spec => GuessIsHarmless
<1> DEFINE Guessed ==
      LET a == attrs'.components.opA  b == attrs'.components.opB
      IN  /\ a.value = Hex(IF a.selected = 1 THEN x.i.pc ELSE x.rs1Bypass)
          /\ b.value = Hex(IF b.selected = 1 THEN x.i.imm ELSE x.rs2Bypass)
<1>1. ASSUME CoreInv, Paint, x.valid
      PROVE  Guessed
  <2> DEFINE part == attrs'.components
  <2> PICK s : s = Snapshot(x, m, fetch)
    OBVIOUS
  <2>1. attrs' = Drawn(s)
    BY <1>1, PaintIsOneFrame DEF Paint
  <2>2. /\ s.x.valid = x.valid /\ s.x.pc = x.i.pc /\ s.x.imm = x.i.imm
        /\ s.x.rs1Bypass = x.rs1Bypass /\ s.x.rs2Bypass = x.rs2Bypass
        /\ s.x.opA = x.opA /\ s.x.opB = x.opB
    BY SnapshotFields
  <2>3. /\ part.opA = OperandMux(s, OpAFromPc(s), s.x.opA)
        /\ part.opB = OperandMux(s, OpBFromImm(s), s.x.opB)
    BY <2>1, PartsDrawn
  <2>4. x.opA \in {x.i.pc, x.rs1Bypass} /\ x.opB \in {x.i.imm, x.rs2Bypass}
    BY <1>1 DEF CoreInv, XFits, OpA, OpB
  <2> HIDE DEF part
  <2>5. /\ part.opA.value = Hex(x.opA)
        /\ part.opA.selected = IF OpAFromPc(s) THEN 1 ELSE 0
    BY <1>1, <2>2, <2>3 DEF OperandMux, Choice, When
  <2>6. /\ part.opB.value = Hex(x.opB)
        /\ part.opB.selected = IF OpBFromImm(s) THEN 1 ELSE 0
    BY <1>1, <2>2, <2>3 DEF OperandMux, Choice, When
  <2>7. OpAFromPc(s) <=> x.opA = x.i.pc /\ x.opA # x.rs1Bypass
    BY <1>1, <2>2 DEF OpAFromPc
  <2>8. OpBFromImm(s) <=> x.opB = x.i.imm /\ x.opB # x.rs2Bypass
    BY <1>1, <2>2 DEF OpBFromImm
  <2>9. part.opA.value = Hex(IF part.opA.selected = 1 THEN x.i.pc ELSE x.rs1Bypass)
    BY <2>4, <2>5, <2>7
  <2>10. part.opB.value = Hex(IF part.opB.selected = 1 THEN x.i.imm ELSE x.rs2Bypass)
    BY <2>4, <2>6, <2>8
  <2> QED
    BY <2>9, <2>10 DEF part
<1>2. CoreInv => [Paint /\ x.valid => Guessed]_vars
  BY <1>1
<1> QED
  BY <1>2, CoreInvariant, PTL DEF GuessIsHarmless

-----------------------------------------------------------------------------
(* The register panel beside it                                            *)

BP == INSTANCE RegisterBlinkProofs

LEMMA PanelAssumption == BP!BlinkAssumption
BY DiagramAssumption DEF BP!BlinkAssumption

\* RegisterBlinkProofs is about the very module that the page's panel instantiates.
LEMMA SameFrame ==
  /\ \A now, table, prev, sofar :
       Panel!Frame(now, table, prev, sofar) <=> BP!Frame(now, table, prev, sofar)
  /\ Panel!NoFrame = BP!NoFrame /\ Panel!Zero = BP!Zero
  /\ Panel!ResetActivity(Reg) = BP!ResetActivity(Reg)
<1>1. \A e, now, span : Panel!Decay(e, now, span) = BP!Decay(e, now, span)
  BY DEF Panel!Decay, BP!Decay, Panel!NEVER, BP!NEVER
<1>2. \A w, prev : Panel!Delta(w, prev) = BP!Delta(w, prev)
  BY DEF Panel!Delta, BP!Delta, Panel!Null, BP!Null
<1>3. \A a, now, prev : Panel!RegBlink(a, now, prev) = BP!RegBlink(a, now, prev)
  BY <1>1, <1>2 DEF Panel!RegBlink, BP!RegBlink, Panel!Brightness, BP!Brightness,
                    Panel!Parity, BP!Parity
<1>4. \A b : Panel!Cell(b) = BP!Cell(b)
  BY DEF Panel!Cell, BP!Cell, Panel!DataLevel, BP!DataLevel, Panel!Null, BP!Null
<1>5. \A now, table, prev, sofar :
        Panel!Frame(now, table, prev, sofar) <=> BP!Frame(now, table, prev, sofar)
  BY <1>3, <1>4 DEF Panel!Frame, BP!Frame, Panel!Remember, BP!Remember
<1>6. Panel!NoFrame = BP!NoFrame /\ Panel!Zero = BP!Zero
  BY DEF Panel!NoFrame, BP!NoFrame, Panel!Null, BP!Null, Panel!Zero, BP!Zero
<1>7. Panel!ResetActivity(Reg) = BP!ResetActivity(Reg)
  BY DEF Panel!ResetActivity, BP!ResetActivity, Panel!Untouched, BP!Untouched,
         Panel!NEVER, BP!NEVER
<1> QED
  BY <1>5, <1>6, <1>7

LEMMA SamePanel ==
  /\ Panel!Init <=> BP!Init
  /\ \A rd, v, rs1, rs2 : Panel!Cycle(rd, v, rs1, rs2) <=> BP!Cycle(rd, v, rs1, rs2)
  /\ Panel!Paint <=> BP!Paint
  /\ Panel!Load <=> BP!Load
  /\ UNCHANGED panelVars => UNCHANGED BP!vars
<1>1. Panel!Init <=> BP!Init
  <2>1. Panel!Dark = BP!Dark /\ Panel!Cell(Panel!Dark) = BP!Cell(BP!Dark)
    BY DEF Panel!Dark, BP!Dark, Panel!Cell, BP!Cell, Panel!DataLevel, BP!DataLevel,
           Panel!Null, BP!Null
  <2> QED
    BY <2>1, SameFrame DEF Panel!Init, BP!Init
<1>2. ASSUME NEW rd, NEW v, NEW rs1, NEW rs2
      PROVE  Panel!Cycle(rd, v, rs1, rs2) <=> BP!Cycle(rd, v, rs1, rs2)
  <2>1. \A t, r, w, c : Panel!NoteWrite(t, r, w, c) = BP!NoteWrite(t, r, w, c)
    BY DEF Panel!NoteWrite, BP!NoteWrite
  <2>2. \A t, r, c : Panel!NoteRead(t, r, c) = BP!NoteRead(t, r, c)
    BY DEF Panel!NoteRead, BP!NoteRead
  <2> QED
    BY <2>1, <2>2, SameFrame DEF Panel!Cycle, BP!Cycle, Panel!panelVars, BP!panelVars
<1>3. Panel!Paint <=> BP!Paint
  BY SameFrame DEF Panel!Paint, BP!Paint, Panel!machineVars, BP!machineVars
<1>4. Panel!Load <=> BP!Load
  BY SameFrame DEF Panel!Load, BP!Load
<1>5. UNCHANGED panelVars => UNCHANGED BP!vars
  BY DEF BP!vars, BP!machineVars, BP!panelVars, panelVars
<1> QED
  BY <1>1, <1>2, <1>3, <1>4, <1>5

\* A cycle of the page writes a register of the machine with one of its values.
LEMMA CycleIsOfPanel ==
  ASSUME CoreInv, CoreInv', Cycle
  PROVE  \E rd \in Reg, v \in Val, rs1 \in Reg, rs2 \in Reg :
           /\ BP!Cycle(rd, v, rs1, rs2)
           /\ rd = (IF m.wen THEN m.rd ELSE 0)
<1> DEFINE rd == IF m.wen THEN m.rd ELSE 0
           rs1 == IF x'.valid THEN x'.i.rs1 ELSE 0
           rs2 == IF x'.valid THEN x'.i.rs2 ELSE 0
<1>1. rd \in Reg /\ m.result \in Val
  BY EmptyFileFits DEF CoreInv, MFits
<1>2. x'.i \in Instructions \cup {Stale}
  BY DEF CoreInv, XFits
<1>3. rs1 \in Reg /\ rs2 \in Reg
  BY <1>2, InstructionFields, EmptyFileFits
<1>4. BP!Cycle(rd, m.result, rs1, rs2)
  BY SamePanel DEF Cycle
<1> HIDE DEF rs1, rs2
<1> QED
  BY <1>1, <1>3, <1>4

\* The panel beside the diagram is the panel by itself: RegisterBlink.
THEOREM PanelIsRegisterBlink == Spec => BP!Spec
<1>1. Init => BP!Init
  BY SamePanel DEF Init
<1>2. CoreInv /\ CoreInv' /\ [Next]_vars => [BP!Next]_BP!vars
  <2> SUFFICES ASSUME CoreInv, CoreInv', [Next]_vars
               PROVE  BP!Next \/ UNCHANGED BP!vars
    OBVIOUS
  <2>1. CASE UNCHANGED panelVars
    BY <2>1, SamePanel
  <2>2. CASE Cycle
    BY <2>2, CycleIsOfPanel DEF BP!Next
  <2>3. CASE Paint
    BY <2>3, SamePanel DEF Paint, BP!Next
  <2>4. CASE Load
    BY <2>4, SamePanel DEF Load, BP!Next
  <2> QED
    BY <2>1, <2>2, <2>3, <2>4 DEF Next, BuildNet, vars
<1> QED
  BY <1>1, <1>2, CoreInvariant, PTL DEF Spec, BP!Spec

LEMMA PanelInvariant == Spec => []BP!BlinkInv
BY PanelIsRegisterBlink, PanelAssumption, BP!BlinkInvariant, PTL

\* What the last frame drew as being written is the machine's strobe, until the
\* next cycle makes of it the one register no frame has seen the write of.
StrobeInv ==
  /\ cycle = prevCycle => Promised = IF m.wen THEN {m.rd} ELSE {}
  /\ cycle = prevCycle + 1 => \A r \in Reg : unseen[r] > 0 <=> r \in Promised

LEMMA PaintPromises ==
  ASSUME NEW sx, NEW sm, NEW sfetch, PaintDiagram(sx, sm, sfetch), sm.rd \in Reg
  PROVE  Promised' = IF sm.wen THEN {sm.rd} ELSE {}
<1> PICK s : s = Snapshot(sx, sm, sfetch)
  OBVIOUS
<1>0. attrs' = Drawn(s)
  BY PaintIsOneFrame
<1>1. attrs'.components.regfile = RegfilePart(s)
  BY <1>0, PartsDrawn
<1>2. s.m.regWen = sm.wen /\ s.m.rd = sm.rd
  BY SnapshotFields
<1> DEFINE d == attrs'.components.regfile
<1>3. d.state = "writing" <=> sm.wen
  BY <1>1, <1>2 DEF RegfilePart, Part
<1>4. sm.wen => d.value[2] = sm.rd
  BY <1>1, <1>2 DEF RegfilePart, Part, When, Update
<1>5. Promised' = {r \in Reg : d.state = "writing" /\ d.value[2] = r}
  BY DEF Promised
<1> HIDE DEF d
<1> QED
  BY <1>3, <1>4, <1>5

LEMMA StrobeInvariant == Spec => []StrobeInv
<1>1. Init => StrobeInv
  <2> SUFFICES ASSUME Init PROVE StrobeInv
    OBVIOUS
  <2>1. cycle = 0 /\ prevCycle = -1 /\ \A r \in Reg : unseen[r] = 0
    BY SamePanel DEF Init, BP!Init, BP!Zero
  <2>2. attrs.components.regfile.state = "idle"
    BY DEF Init, FreshAttrs, Components, Part
  <2> QED
    BY <2>1, <2>2 DEF StrobeInv, Promised
<1>2. StrobeInv /\ CoreInv /\ CoreInv' /\ BP!BlinkInv /\ BP!BlinkInv' /\ [Next]_vars => StrobeInv'
  <2> SUFFICES ASSUME StrobeInv, CoreInv, CoreInv', BP!BlinkInv, BP!BlinkInv', [Next]_vars
               PROVE  StrobeInv'
    OBVIOUS
  <2>0. cycle \in Nat /\ prevCycle \in Int /\ prevCycle <= cycle
    BY DEF BP!BlinkInv, BP!BlinkTypeOK
  <2>1. CASE UNCHANGED <<panelVars, attrs, m>>
    BY <2>1 DEF StrobeInv, Promised, panelVars
  <2>2. CASE Cycle
    <3>1. PICK rd \in Reg, v \in Val, rs1 \in Reg, rs2 \in Reg :
             BP!Cycle(rd, v, rs1, rs2) /\ rd = (IF m.wen THEN m.rd ELSE 0)
      BY <2>2, CycleIsOfPanel
    <3>2. /\ cycle' = cycle + 1 /\ prevCycle' = prevCycle
          /\ \A r \in Reg : unseen'[r] = IF r = rd /\ r # 0 THEN unseen[r] + 1 ELSE unseen[r]
      BY <3>1 DEF BP!Cycle, BP!panelVars
    <3>3. Promised' = Promised
      BY <2>2 DEF Cycle, shown, Promised
    <3>4. cycle' # prevCycle'
      BY <2>0, <3>2
    <3>5. ASSUME cycle' = prevCycle' + 1, NEW r \in Reg
          PROVE  unseen'[r] > 0 <=> r \in Promised'
      <4>1. cycle = prevCycle
        BY <2>0, <3>2, <3>5
      <4>2. unseen[r] = 0
        <5>1. unseen[r] \in Nat
          BY DEF BP!BlinkInv, BP!BlinkTypeOK
        <5>2. BP!Unpainted(r) \/ BP!Accounted(r)
          BY DEF BP!BlinkInv
        <5>3. regs[r].lastWriteCycle <= cycle
          BY DEF BP!BlinkInv
        <5>4. regs[r].lastWriteCycle \in Int
          BY DEF BP!BlinkInv, BP!BlinkTypeOK, BP!Activity, BP!NEVER
        <5> QED
          BY <2>0, <4>1, <5>1, <5>2, <5>3, <5>4 DEF BP!Unpainted, BP!Accounted
      <4>3. Promised = IF m.wen THEN {m.rd} ELSE {}
        BY <4>1 DEF StrobeInv
      <4>4. m.wen => m.rd # 0
        BY DEF CoreInv, MFits
      <4> QED
        BY <3>1, <3>2, <3>3, <4>2, <4>3, <4>4
    <3> QED
      BY <3>4, <3>5 DEF StrobeInv
  <2>3. CASE Paint
    <3>1. prevCycle' = cycle' /\ cycle' = cycle /\ m' = m
      BY <2>3, SamePanel DEF Paint, BP!Paint, BP!Frame, BP!machineVars, coreVars
    <3>2. Promised' = IF m'.wen THEN {m'.rd} ELSE {}
      BY <2>3, <3>1, PaintPromises DEF Paint, CoreInv, MFits
    <3> QED
      BY <2>0, <3>1, <3>2 DEF StrobeInv
  <2>4. CASE Load
    <3>1. prevCycle' = 0 /\ cycle' = 0
      BY <2>4, SamePanel DEF Load, BP!Load, BP!Frame
    <3>2. Promised' = IF m'.wen THEN {m'.rd} ELSE {}
      <4>1. m'.rd \in Reg
        BY DEF CoreInv, MFits
      <4> QED
        BY <2>4, <4>1, PaintPromises DEF Load
    <3> QED
      BY <3>1, <3>2 DEF StrobeInv
  <2> QED
    BY <2>1, <2>2, <2>3, <2>4 DEF Next, BuildNet, vars, coreVars, shown
<1> QED
  BY <1>1, <1>2, CoreInvariant, PanelInvariant, PTL DEF Spec

\* The registers that flash are the one the last frame drew as being written.
THEOREM FlashesAreDrawnWrites == Spec => FlashFollowsStrobe
<1>1. ASSUME StrobeInv, BP!BlinkInv, Paint, cycle = prevCycle + 1
      PROVE  {r \in Reg : blinks'[r].writesDelta > 0} = Promised
  <2>1. BP!Paint
    BY <1>1, SamePanel DEF Paint
  <2>2. \A r \in Reg : blinks'[r].writesDelta = unseen[r]
    BY <1>1, <2>1, PanelAssumption, BP!PaintShows
  <2>3. \A r \in Reg : unseen[r] > 0 <=> r \in Promised
    BY <1>1 DEF StrobeInv
  <2>4. Promised \subseteq Reg
    BY DEF Promised
  <2> QED
    BY <2>2, <2>3, <2>4
<1>2. StrobeInv /\ BP!BlinkInv =>
        [Paint /\ cycle = prevCycle + 1
           => {r \in Reg : blinks'[r].writesDelta > 0} = Promised]_vars
  BY <1>1
<1> QED
  BY <1>2, StrobeInvariant, PanelInvariant, PTL DEF FlashFollowsStrobe

-----------------------------------------------------------------------------
(* Counting                                                                *)

LEMMA LeastNatural ==
  ASSUME NEW S \in SUBSET Nat, S # {}
  PROVE  \E n \in S : \A k \in S : n <= k
<1>1. \E R : /\ \E n \in S : \A k \in S : <<k, n>> \notin R
             /\ \A k, n \in S : k < n => <<k, n>> \in R
  <2> DEFINE R == OpToRel(<, Nat)
  <2>1. IsWellFoundedOn(R, Nat)
    BY NatLessThanWellFounded, Zenon
  <2>2. \A k, n \in S : k < n => <<k, n>> \in R
    BY DEF OpToRel
  <2> HIDE DEF R
  <2>3. \E n \in S : \A k \in S : <<k, n>> \notin R
    BY <2>1, WFMin
  <2> QED
    BY <2>2, <2>3, Zenon
<1>2. PICK R : /\ \E n \in S : \A k \in S : <<k, n>> \notin R
               /\ \A k, n \in S : k < n => <<k, n>> \in R
  BY <1>1
<1>3. PICK n \in S : \A k \in S : <<k, n>> \notin R
  BY <1>2
<1>4. \A k \in S : ~(k < n)
  BY <1>2, <1>3
<1> QED
  BY <1>4

\* A set of numbers that has 0 and each number's successor has them all.
LEMMA SetInduction ==
  ASSUME NEW S \in SUBSET Nat, 0 \in S, \A n \in S : n + 1 \in S
  PROVE  S = Nat
<1>1. SUFFICES ASSUME Nat \ S # {} PROVE FALSE
  OBVIOUS
<1>2. PICK n \in Nat \ S : \A k \in Nat \ S : n <= k
  BY <1>1, LeastNatural
<1>3. n - 1 \in Nat /\ n - 1 \in S
  BY <1>2
<1> QED
  BY <1>2, <1>3

-----------------------------------------------------------------------------
(* Wires, for any canvas and any layout                                    *)

\* The points of a canvas of w by h units.
Area(w, h) == (0..w) \X (0..h)

Aligned(p, q) == p[1] = q[1] \/ p[2] = q[2]

\* A line from p to q over points of S, in horizontal and vertical pieces.
Line(s, p, q, S) ==
  /\ s \in Seq(S) /\ Len(s) \in Nat \ {0}
  /\ s[1] = p /\ s[Len(s)] = q
  /\ \A j \in 2..Len(s) : Aligned(s[j - 1], s[j])

LEMMA OnePoint ==
  ASSUME NEW S, NEW p \in S
  PROVE  Line(<<p>>, p, p, S)
BY DEF Line

LEMMA LinesJoin ==
  ASSUME NEW S, NEW s, NEW p, NEW q, NEW t, NEW u, NEW v,
         Line(s, p, q, S), Line(t, u, v, S), Aligned(q, u)
  PROVE  Line(s \o t, p, v, S)
<1> DEFINE st == s \o t
<1>1. s \in Seq(S) /\ t \in Seq(S) /\ Len(s) \in Nat \ {0} /\ Len(t) \in Nat \ {0}
  BY DEF Line
<1>2. /\ st \in Seq(S) /\ Len(st) = Len(s) + Len(t)
      /\ \A i \in 1..Len(s) + Len(t) : st[i] = IF i <= Len(s) THEN s[i] ELSE t[i - Len(s)]
  BY <1>1, ConcatProperties
<1> HIDE DEF st
<1>3. st[1] = p /\ st[Len(st)] = v
  <2>1. 1 \in 1..Len(s) + Len(t) /\ Len(st) \in 1..Len(s) + Len(t)
    BY <1>1, <1>2
  <2>2. st[1] = s[1] /\ st[Len(st)] = t[Len(t)]
    BY <1>1, <1>2, <2>1
  <2> QED
    BY <2>2 DEF Line
<1>4. ASSUME NEW j \in 2..Len(st) PROVE Aligned(st[j - 1], st[j])
  <2> /\ j \in 2..Len(s) + Len(t) /\ j - 1 \in 1..Len(s) + Len(t)
      /\ st[j] = IF j <= Len(s) THEN s[j] ELSE t[j - Len(s)]
      /\ st[j - 1] = IF j - 1 <= Len(s) THEN s[j - 1] ELSE t[(j - 1) - Len(s)]
    BY <1>1, <1>2, SMTT(30)
  <2>1. CASE j <= Len(s)
    <3>1. st[j - 1] = s[j - 1] /\ st[j] = s[j] /\ j \in 2..Len(s)
      BY <1>1, <2>1
    <3> QED
      BY <3>1 DEF Line
  <2>2. CASE j = Len(s) + 1
    <3>1. st[j - 1] = s[Len(s)] /\ st[j] = t[1]
      BY <1>1, <2>2
    <3> QED
      BY <3>1 DEF Line
  <2>3. CASE j > Len(s) + 1
    <3> DEFINE k == j - Len(s)
    <3>1. (j - 1) - Len(s) = k - 1 /\ k \in 2..Len(t)
      BY <1>1, <2>3, SMTT(30)
    <3>2. st[j] = t[k] /\ st[j - 1] = t[k - 1]
      BY <1>1, <2>3, <3>1
    <3> QED
      BY <3>1, <3>2 DEF Line
  <2> QED
    BY <1>1, <1>2, <1>4, <2>1, <2>2, <2>3
<1> QED
  BY <1>1, <1>2, <1>3, <1>4 DEF Line, st

\* What simplify keeps goes on to the next point.
LEMMA KeepGoesOn ==
  ASSUME NEW S, NEW out, NEW from, NEW last, NEW p \in S,
         Line(out, from, last, S), Aligned(last, p)
  PROVE  Line(Keep(out, p), from, p, S)
<1> DEFINE n == Len(out)
<1>1. out \in Seq(S) /\ n \in Nat \ {0} /\ out[1] = from /\ out[n] = last
  BY DEF Line
<1>2. CASE out[n] = p
  BY <1>1, <1>2 DEF Keep
<1>3. CASE out[n] # p /\ n > 1 /\ Collinear(out[n - 1], out[n], p)
  <2> DEFINE new == [out EXCEPT ![n] = p]
  <2>1. Keep(out, p) = new
    BY <1>1, <1>3 DEF Keep
  <2>2. /\ new \in Seq(S) /\ Len(new) = n
        /\ \A j \in 1..n : new[j] = IF j = n THEN p ELSE out[j]
    BY <1>1, ExceptSeq
  <2> HIDE DEF new
  <2>3. Aligned(out[n - 1], p)
    BY <1>3 DEF Collinear, Aligned
  <2>4. ASSUME NEW j \in 2..n PROVE Aligned(new[j - 1], new[j])
    <3>1. new[j - 1] = out[j - 1] /\ new[j] = IF j = n THEN p ELSE out[j]
      BY <1>1, <2>2
    <3>2. Aligned(out[j - 1], out[j])
      BY DEF Line
    <3> QED
      BY <2>3, <3>1, <3>2
  <2> QED
    BY <1>1, <1>3, <2>1, <2>2, <2>4 DEF Line
<1>4. CASE out[n] # p /\ ~(n > 1 /\ Collinear(out[n - 1], out[n], p))
  <2>1. Keep(out, p) = Append(out, p)
    BY <1>1, <1>4 DEF Keep
  <2>2. Append(out, p) = out \o <<p>>
    BY <1>1, AppendIsConcat
  <2> QED
    BY <2>1, <2>2, LinesJoin, OnePoint
<1> QED
  BY <1>2, <1>3, <1>4

\* The function that Simplify is defined by exists.
LEMMA SimplifyIs ==
  ASSUME NEW points, Len(points) \in Nat
  PROVE  \E f : /\ f = [n \in 0..Len(points) |->
                          IF n = 0 THEN <<>> ELSE Keep(f[n - 1], points[n])]
                /\ Simplify(points) = f[Len(points)]
<1> DEFINE Runs(i, f) == f = [n \in 0..i |-> IF n = 0 THEN <<>> ELSE Keep(f[n - 1], points[n])]
           Good == {i \in Nat : \E f : Runs(i, f)}
<1>1. 0 \in Good
  <2>1. Runs(0, [n \in 0..0 |-> <<>>])
    OBVIOUS
  <2> QED
    BY <2>1
<1>2. ASSUME NEW i \in Good PROVE i + 1 \in Good
  <2>1. PICK f : Runs(i, f)
    OBVIOUS
  <2> DEFINE g == [n \in 0..i + 1 |-> IF n = i + 1 THEN Keep(f[i], points[i + 1]) ELSE f[n]]
  <2>2. ASSUME NEW n \in 0..i + 1
        PROVE  g[n] = IF n = 0 THEN <<>> ELSE Keep(g[n - 1], points[n])
    BY <2>1
  <2>3. Runs(i + 1, g)
    BY <2>2
  <2> QED
    BY <2>3, i + 1 \in Nat
<1>3. Good = Nat
  <2> HIDE DEF Good
  <2>1. Good \in SUBSET Nat
    BY DEF Good
  <2> QED
    BY <1>1, <1>2, <2>1, SetInduction
<1>4. \E f : Runs(Len(points), f)
  BY <1>3
<1> DEFINE F == CHOOSE f : Runs(Len(points), f)
<1>5. Runs(Len(points), F)
  BY <1>4
<1>6. Simplify(points) = F[Len(points)]
  BY Zenon DEF Simplify
<1> QED
  BY <1>5, <1>6

LEMMA SimplifyKeepsLines ==
  ASSUME NEW S, NEW points, NEW p, NEW q, Line(points, p, q, S)
  PROVE  Line(Simplify(points), p, q, S)
<1> DEFINE len == Len(points)
<1>1. /\ points \in Seq(S) /\ len \in Nat \ {0} /\ points[1] = p /\ points[len] = q
      /\ \A j \in 2..len : Aligned(points[j - 1], points[j])
  BY DEF Line
<1>2. PICK f : /\ f = [n \in 0..len |-> IF n = 0 THEN <<>> ELSE Keep(f[n - 1], points[n])]
               /\ Simplify(points) = f[len]
  BY <1>1, SimplifyIs
<1>3. f[0] = <<>> /\ \A n \in 1..len : f[n] = Keep(f[n - 1], points[n])
  <2> DEFINE E(n) == IF n = 0 THEN <<>> ELSE Keep(f[n - 1], points[n])
  <2>1. \A n \in 0..len : f[n] = E(n)
    <3>1. f = [n \in 0..len |-> E(n)]
      BY <1>2
    <3> HIDE DEF E
    <3> QED
      BY <3>1
  <2> QED
    BY <1>1, <2>1
<1> DEFINE Good == {n \in Nat : n \in 1..len => Line(f[n], p, points[n], S)}
<1>4. 0 \in Good
  BY <1>1
<1>5. ASSUME NEW n \in Good PROVE n + 1 \in Good
  <2> SUFFICES ASSUME n + 1 \in 1..len PROVE Line(f[n + 1], p, points[n + 1], S)
    OBVIOUS
  <2>1. points[n + 1] \in S
    BY <1>1, ElementOfSeq
  <2>2. CASE n = 0
    <3>1. 1 \in 1..len /\ 1 - 1 = 0
      BY <1>1
    <3>2. f[1] = Keep(<<>>, points[1])
      BY <1>3, <3>1
    <3>3. Keep(<<>>, points[1]) = <<points[1]>>
      BY DEF Keep
    <3>4. Line(<<points[1]>>, points[1], points[1], S)
      BY <2>1, <2>2, OnePoint
    <3> QED
      BY <1>1, <2>2, <3>2, <3>3, <3>4
  <2>3. CASE n # 0
    <3>1. n \in 1..len /\ n + 1 \in 2..len /\ (n + 1) - 1 = n
      BY <1>1, <2>3
    <3>2. Line(f[n], p, points[n], S)
      BY <1>5, <3>1
    <3>3. Aligned(points[n], points[n + 1])
      BY <1>1, <3>1
    <3>4. f[n + 1] = Keep(f[n], points[n + 1])
      BY <1>3, <3>1
    <3> QED
      BY <2>1, <3>2, <3>3, <3>4, KeepGoesOn
  <2> QED
    BY <2>2, <2>3
<1>6. Good = Nat
  <2> HIDE DEF Good
  <2>1. Good \in SUBSET Nat
    BY DEF Good
  <2> QED
    BY <1>4, <1>5, <2>1, SetInduction
<1>7. Line(f[len], p, points[len], S)
  BY <1>1, <1>6
<1> QED
  BY <1>1, <1>2, <1>7

LEMMA ElbowTurns ==
  ASSUME NEW w \in Nat, NEW h \in Nat, NEW p \in Area(w, h), NEW q \in Area(w, h),
         NEW hf \in BOOLEAN
  PROVE  /\ Elbow(p, q, hf) \in Area(w, h)
         /\ Aligned(p, Elbow(p, q, hf)) /\ Aligned(Elbow(p, q, hf), q)
BY DEF Elbow, Area, Aligned

LEMMA DogLegTurns ==
  ASSUME NEW w \in Nat, NEW h \in Nat, NEW a \in Area(w, h), NEW b \in Area(w, h),
         NEW hf \in BOOLEAN
  PROVE  \E p, q : Line(DogLeg(a, b, hf), p, q, Area(w, h)) /\ Aligned(a, p) /\ Aligned(q, b)
<1>1. /\ a[1] \in 0..w /\ a[2] \in 0..h /\ b[1] \in 0..w /\ b[2] \in 0..h
      /\ \A i \in 0..w, j \in 0..h : <<i, j>> \in Area(w, h)
  BY DEF Area
<1>2. (a[1] + b[1]) \div 2 \in 0..w /\ (a[2] + b[2]) \div 2 \in 0..h
  BY <1>1
<1>3. ASSUME NEW p \in Area(w, h), NEW q \in Area(w, h), Aligned(p, q)
      PROVE  Line(<<p, q>>, p, q, Area(w, h))
  BY <1>3 DEF Line
<1>4. CASE hf
  <2> DEFINE mx == (a[1] + b[1]) \div 2
  <2>1. DogLeg(a, b, hf) = << <<mx, a[2]>>, <<mx, b[2]>> >>
    BY <1>4 DEF DogLeg
  <2>2. Line(<< <<mx, a[2]>>, <<mx, b[2]>> >>, <<mx, a[2]>>, <<mx, b[2]>>, Area(w, h))
    BY <1>1, <1>2, <1>3 DEF Aligned
  <2> QED
    BY <2>1, <2>2 DEF Aligned
<1>5. CASE ~hf
  <2> DEFINE my == (a[2] + b[2]) \div 2
  <2>1. DogLeg(a, b, hf) = << <<a[1], my>>, <<b[1], my>> >>
    BY <1>5 DEF DogLeg
  <2>2. Line(<< <<a[1], my>>, <<b[1], my>> >>, <<a[1], my>>, <<b[1], my>>, Area(w, h))
    BY <1>1, <1>2, <1>3 DEF Aligned
  <2> QED
    BY <2>1, <2>2 DEF Aligned
<1> QED
  BY <1>4, <1>5

LEMMA ViaPathTurns ==
  ASSUME NEW w \in Nat, NEW h \in Nat, NEW a \in Area(w, h), NEW b \in Area(w, h),
         NEW via \in Seq(Area(w, h)), NEW hf \in BOOLEAN
  PROVE  \E p, q : /\ Line(ViaPath(a, b, via, hf), p, q, Area(w, h))
                   /\ Aligned(a, p) /\ Aligned(q, b)
<1> DEFINE n == Len(via)
           stops == <<a>> \o via \o <<b>>
           turn(k) == Elbow(stops[k], stops[k + 1], hf)
           line == ViaPath(a, b, via, hf)
<1>1. n \in Nat
  OBVIOUS
<1>2. /\ stops \in Seq(Area(w, h)) /\ Len(stops) = n + 2
      /\ stops[1] = a /\ stops[n + 2] = b
  <2>1. /\ <<a>> \o via \in Seq(Area(w, h)) /\ Len(<<a>> \o via) = n + 1
        /\ (<<a>> \o via)[1] = a
    BY ConcatProperties
  <2>2. <<b>> \in Seq(Area(w, h)) /\ Len(<<b>>) = 1 /\ <<b>>[1] = b
    OBVIOUS
  <2> HIDE DEF n
  <2>3. \A i \in 1..n + 2 : stops[i] = IF i <= n + 1 THEN (<<a>> \o via)[i] ELSE <<b>>[i - (n + 1)]
    BY <1>1, <2>1, <2>2, ConcatProperties
  <2>4. stops \in Seq(Area(w, h)) /\ Len(stops) = n + 2
    BY <1>1, <2>1, <2>2, ConcatProperties
  <2> QED
    BY <1>1, <2>1, <2>2, <2>3, <2>4
<1> HIDE DEF n, stops
<1>3. \A k \in 1..n + 2 : stops[k] \in Area(w, h)
  BY <1>1, <1>2, ElementOfSeq
<1>4. \A k \in 1..n + 1 : /\ turn(k) \in Area(w, h)
                          /\ Aligned(stops[k], turn(k)) /\ Aligned(turn(k), stops[k + 1])
  <2> SUFFICES ASSUME NEW k \in 1..n + 1
               PROVE  /\ turn(k) \in Area(w, h)
                      /\ Aligned(stops[k], turn(k)) /\ Aligned(turn(k), stops[k + 1])
    OBVIOUS
  <2>1. k \in 1..n + 2 /\ k + 1 \in 1..n + 2
    BY <1>1
  <2>2. stops[k] \in Area(w, h) /\ stops[k + 1] \in Area(w, h)
    BY <1>3, <2>1
  <2> QED
    BY <2>2, ElbowTurns
<1>5. line = [j \in 1..2 * n + 1 |->
                IF j % 2 = 1 THEN Elbow(stops[(j + 1) \div 2], stops[(j + 3) \div 2], hf)
                ELSE stops[(j + 2) \div 2]]
  BY DEF ViaPath, n, stops
<1>6. \A k \in 1..n + 1 : line[2 * k - 1] = turn(k)
  <2> SUFFICES ASSUME NEW k \in 1..n + 1 PROVE line[2 * k - 1] = turn(k)
    OBVIOUS
  <2>1. /\ 2 * k - 1 \in 1..2 * n + 1 /\ (2 * k - 1) % 2 = 1
        /\ ((2 * k - 1) + 1) \div 2 = k /\ ((2 * k - 1) + 3) \div 2 = k + 1
    BY <1>1
  <2> QED
    BY <1>5, <2>1
<1>7. \A k \in 1..n : line[2 * k] = stops[k + 1]
  <2> SUFFICES ASSUME NEW k \in 1..n PROVE line[2 * k] = stops[k + 1]
    OBVIOUS
  <2>1. 2 * k \in 1..2 * n + 1 /\ (2 * k) % 2 = 0 /\ (2 * k + 2) \div 2 = k + 1
    BY <1>1
  <2> QED
    BY <1>5, <2>1
<1>8. \A j \in 1..2 * n + 1 : \/ \E k \in 1..n + 1 : j = 2 * k - 1
                              \/ \E k \in 1..n : j = 2 * k
  <2> SUFFICES ASSUME NEW j \in 1..2 * n + 1
               PROVE  \/ \E k \in 1..n + 1 : j = 2 * k - 1
                      \/ \E k \in 1..n : j = 2 * k
    OBVIOUS
  <2>1. CASE j % 2 = 1
    <3>1. (j + 1) \div 2 \in 1..n + 1 /\ j = 2 * ((j + 1) \div 2) - 1
      BY <1>1, <2>1
    <3> QED
      BY <3>1
  <2>2. CASE j % 2 # 1
    <3>1. j \div 2 \in 1..n /\ j = 2 * (j \div 2)
      BY <1>1, <2>2
    <3> QED
      BY <3>1
  <2> QED
    BY <2>1, <2>2
<1> HIDE DEF line, turn
<1>9. \A j \in 1..2 * n + 1 : line[j] \in Area(w, h)
  <2>1. \A k \in 1..n + 1 : line[2 * k - 1] \in Area(w, h)
    BY <1>4, <1>6
  <2>2. \A k \in 1..n : k + 1 \in 1..n + 2
    BY <1>1
  <2>3. \A k \in 1..n : line[2 * k] \in Area(w, h)
    BY <1>3, <1>7, <2>2
  <2> QED
    BY <1>8, <2>1, <2>3
<1>10. line \in Seq(Area(w, h)) /\ Len(line) = 2 * n + 1
  <2>1. line \in [1..2 * n + 1 -> Area(w, h)]
    BY <1>5, <1>9
  <2>2. 2 * n + 1 \in Nat
    BY <1>1
  <2> QED
    BY <2>1, <2>2
<1>11. ASSUME NEW j \in 2..2 * n + 1 PROVE Aligned(line[j - 1], line[j])
  <2>1. CASE \E k \in 1..n + 1 : j = 2 * k - 1
    <3>1. PICK k \in 1..n + 1 : j = 2 * k - 1
      BY <2>1
    <3>2. k - 1 \in 1..n /\ j - 1 = 2 * (k - 1) /\ (k - 1) + 1 = k
      BY <1>1, <3>1
    <3> QED
      BY <1>4, <1>6, <1>7, <3>1, <3>2
  <2>2. CASE \E k \in 1..n : j = 2 * k
    <3>1. PICK k \in 1..n : j = 2 * k
      BY <2>2
    <3>2. k \in 1..n + 1 /\ j - 1 = 2 * k - 1
      BY <1>1, <3>1
    <3> QED
      BY <1>4, <1>6, <1>7, <3>1, <3>2
  <2>3. j \in 1..2 * n + 1
    BY <1>1
  <2> QED
    BY <1>8, <2>1, <2>2, <2>3
<1>12. Line(line, turn(1), turn(n + 1), Area(w, h))
  <2>1. line[1] = turn(1) /\ line[2 * n + 1] = turn(n + 1)
    <3>1. 1 \in 1..n + 1 /\ 2 * 1 - 1 = 1 /\ n + 1 \in 1..n + 1 /\ 2 * (n + 1) - 1 = 2 * n + 1
      BY <1>1
    <3> QED
      BY <1>6, <3>1
  <2> QED
    BY <1>1, <1>10, <1>11, <2>1 DEF Line
<1>13. Aligned(a, turn(1)) /\ Aligned(turn(n + 1), b)
  <2>1. 1 \in 1..n + 1 /\ n + 1 \in 1..n + 1 /\ (n + 1) + 1 = n + 2
    BY <1>1
  <2> QED
    BY <1>2, <1>4, <2>1
<1> QED
  BY <1>12, <1>13 DEF line

Sides == {"n", "s", "w", "e"}

\* route(): from any port to any other, by any waypoints or none, a wire starts and ends
\* where it should, runs in horizontal and vertical pieces only (layout/route.ts:4-6) and
\* stays on the canvas, provided the ports' stubs and the waypoints do.
THEOREM RouteConnects ==
  ASSUME NEW w \in Nat, NEW h \in Nat, NEW from \in Area(w, h), NEW to \in Area(w, h),
         NEW fromSide \in Sides, NEW toSide \in Sides, NEW via \in Seq(Area(w, h)),
         StubEnd(from, fromSide) \in Area(w, h), StubEnd(to, toSide) \in Area(w, h)
  PROVE  Line(Route(from, fromSide, to, toSide, via), from, to, Area(w, h))
<1> DEFINE a == StubEnd(from, fromSide)
           b == StubEnd(to, toSide)
           hf == fromSide \in {"e", "w"}
           middle == IF via # <<>> THEN ViaPath(a, b, via, hf) ELSE DogLeg(a, b, hf)
<1>1. \E p, q : Line(middle, p, q, Area(w, h)) /\ Aligned(a, p) /\ Aligned(q, b)
  <2>1. a \in Area(w, h) /\ b \in Area(w, h) /\ hf \in BOOLEAN
    OBVIOUS
  <2> HIDE DEF a, b, hf
  <2> QED
    BY <2>1, ViaPathTurns, DogLegTurns
<1>2. PICK p, q : Line(middle, p, q, Area(w, h)) /\ Aligned(a, p) /\ Aligned(q, b)
  BY <1>1
<1>3. \A c, d \in Area(w, h) : Aligned(c, d) => Line(<<c, d>>, c, d, Area(w, h))
  BY DEF Line
<1>4. Line(<<from, a>>, from, a, Area(w, h)) /\ Line(<<b, to>>, b, to, Area(w, h))
  BY <1>3 DEF StubEnd, Sides, Aligned
<1> HIDE DEF middle, a, b
<1>5. Line(<<from, a>> \o middle, from, q, Area(w, h))
  BY <1>2, <1>4, LinesJoin
<1>6. Line(<<from, a>> \o middle \o <<b, to>>, from, to, Area(w, h))
  BY <1>2, <1>4, <1>5, LinesJoin
<1>7. Line(Simplify(<<from, a>> \o middle \o <<b, to>>), from, to, Area(w, h))
  BY <1>6, SimplifyKeepsLines
<1> QED
  BY <1>7 DEF Route, middle, a, b

-----------------------------------------------------------------------------
(* The wires of the datapath                                               *)

LEMMA PartsHaveBoxes == DOMAIN Box = DOMAIN Components
BY DEF Box, Components

\* Every box is on the canvas and leaves room for the stubs of its ports.
LEMMA RoomForStubs ==
  ASSUME NEW c \in DOMAIN Box
  PROVE  /\ Box[c] \in Int \X Int \X Int \X Int
         /\ Box[c][1] >= 14 /\ Box[c][1] + Box[c][3] + 14 <= Canvas.w
         /\ Box[c][2] >= 14 /\ Box[c][2] + Box[c][4] + 14 <= Canvas.h
         /\ Box[c][3] > 0 /\ Box[c][4] > 0
<1>1. Box[c] \in Int \X Int \X Int \X Int
  BY SMTT(60) DEF Box
<1>2. Box[c][1] >= 14 /\ Box[c][1] + Box[c][3] + 14 <= Canvas.w
  BY SMTT(60) DEF Box, Canvas
<1>3. Box[c][2] >= 14 /\ Box[c][2] + Box[c][4] + 14 <= Canvas.h
  BY SMTT(60) DEF Box, Canvas
<1>4. Box[c][3] > 0 /\ Box[c][4] > 0
  BY SMTT(60) DEF Box
<1> QED
  BY <1>1, <1>2, <1>3, <1>4

\* A place on a face.
Anchors == [side : Sides, at : 0..Unit]

LEMMA PlacedOnFaces ==
  ASSUME NEW c \in DOMAIN Placed, NEW p \in DOMAIN Placed[c]
  PROVE  Placed[c][p] \in Anchors
<1>1. \A side \in Sides, percent \in 0..100 : At(side, percent) \in Anchors
  BY DEF At, Anchors, Unit
<1> DEFINE Good(a) == a \in Anchors
<1>2. \A side \in Sides, percent \in 0..100 : Good(At(side, percent))
  BY <1>1
<1> HIDE DEF Good
<1>3. Good(Placed[c][p])
  BY <1>2, SMTT(90) DEF Placed, Sides
<1> QED
  BY <1>3 DEF Good

\* A mux has its data inputs first, then the one that selects among them.
LEMMA MuxPorts ==
  /\ Mux(2) = [ins |-> <<"in0", "in1", "sel">>, outs |-> <<"out">>]
  /\ Mux(3) = [ins |-> <<"in0", "in1", "in2", "sel">>, outs |-> <<"out">>]
<1> DEFINE Names == {"in0", "in1", "in2", "sel"}
           in == <<"in0", "in1", "in2">>
           sel == <<"sel">>
           three == <<"in0", "in1", "sel">>
           four == <<"in0", "in1", "in2", "sel">>
<1>1. in \in Seq(Names) /\ Len(in) = 3 /\ sel \in Seq(Names) /\ Len(sel) = 1 /\ sel[1] = "sel"
  OBVIOUS
<1>2. /\ three \in Seq(Names) /\ Len(three) = 3
      /\ three[1] = in[1] /\ three[2] = in[2] /\ three[3] = "sel"
  OBVIOUS
<1>3. /\ four \in Seq(Names) /\ Len(four) = 4
      /\ four[1] = in[1] /\ four[2] = in[2] /\ four[3] = in[3] /\ four[4] = "sel"
  OBVIOUS
<1> HIDE DEF in, sel, three, four, Names
<1>4. ASSUME NEW n \in {2, 3}
      PROVE  /\ SubSeq(in, 1, n) \o sel \in Seq(Names) /\ Len(SubSeq(in, 1, n) \o sel) = n + 1
             /\ \A i \in 1..n : (SubSeq(in, 1, n) \o sel)[i] = in[i]
             /\ (SubSeq(in, 1, n) \o sel)[n + 1] = "sel"
  <2> DEFINE s == SubSeq(in, 1, n)
  <2>1. s \in Seq(Names) /\ Len(s) = n /\ \A i \in 1..n : s[i] = in[i]
    <3>1. \A i \in 1..n : in[i] \in Names
      BY <1>1, ElementOfSeq
    <3>2. /\ s \in Seq(Names) /\ Len(s) = IF 1 <= n THEN n - 1 + 1 ELSE 0
          /\ \A i \in 1..n - 1 + 1 : s[i] = in[1 + i - 1]
      BY <3>1, SubSeqProperties
    <3> QED
      BY <3>2
  <2> HIDE DEF s
  <2>2. /\ s \o sel \in Seq(Names) /\ Len(s \o sel) = n + 1
        /\ \A i \in 1..n + 1 : (s \o sel)[i] = IF i <= n THEN s[i] ELSE sel[i - n]
    <3>1. /\ s \o sel \in Seq(Names) /\ Len(s \o sel) = Len(s) + Len(sel)
          /\ \A i \in 1..Len(s) + Len(sel) :
               (s \o sel)[i] = IF i <= Len(s) THEN s[i] ELSE sel[i - Len(s)]
      BY <1>1, <2>1, ConcatProperties
    <3> QED
      BY <1>1, <2>1, <3>1
  <2>3. \A i \in 1..n : (s \o sel)[i] = in[i]
    BY <2>1, <2>2
  <2>4. (s \o sel)[n + 1] = "sel"
    BY <1>1, <2>2
  <2> QED
    BY <2>2, <2>3, <2>4 DEF s
<1>5. SubSeq(in, 1, 2) \o sel = three
  <2> DEFINE s == SubSeq(in, 1, 2) \o sel
  <2>1. s \in Seq(Names) /\ Len(s) = 3 /\ s[1] = in[1] /\ s[2] = in[2] /\ s[3] = "sel"
    BY <1>4
  <2> HIDE DEF s
  <2>2. s = three
    BY <1>2, <2>1, SeqEqual
  <2> QED
    BY <2>2 DEF s
<1>6. SubSeq(in, 1, 3) \o sel = four
  <2> DEFINE s == SubSeq(in, 1, 3) \o sel
  <2>1. /\ s \in Seq(Names) /\ Len(s) = 4
        /\ s[1] = in[1] /\ s[2] = in[2] /\ s[3] = in[3] /\ s[4] = "sel"
    BY <1>4
  <2> HIDE DEF s
  <2>2. s = four
    BY <1>3, <2>1, SeqEqual
  <2> QED
    BY <2>2 DEF s
<1> QED
  BY <1>5, <1>6 DEF Mux, in, sel, three, four

\* The ports of a part, in the order they are declared.
LEMMA PortsAreSequences ==
  ASSUME NEW c \in DOMAIN Components
  PROVE  /\ Len(Components[c].ins) \in Nat
         /\ DOMAIN Components[c].ins = 1..Len(Components[c].ins)
         /\ Len(Components[c].outs) \in Nat
         /\ DOMAIN Components[c].outs = 1..Len(Components[c].outs)
<1> DEFINE mux2 == [ins |-> <<"in0", "in1", "sel">>, outs |-> <<"out">>]
           mux3 == [ins |-> <<"in0", "in1", "in2", "sel">>, outs |-> <<"out">>]
<1>1. Mux(2) = mux2 /\ Mux(3) = mux3
  BY MuxPorts
<1>2. Len(Components[c].ins) \in Nat /\ DOMAIN Components[c].ins = 1..Len(Components[c].ins)
  BY <1>1, SMTT(60) DEF Components
<1>3. Len(Components[c].outs) \in Nat /\ DOMAIN Components[c].outs = 1..Len(Components[c].outs)
  BY <1>1, SMTT(60) DEF Components
<1> QED
  BY <1>2, <1>3

LEMMA SpreadOnFaces ==
  ASSUME NEW side \in Sides, NEW n \in Nat, NEW i \in 0..n
  PROVE  Spread(side, i, n) \in Anchors
<1>1. (i * Unit) \div (n + 1) \in 0..Unit
  BY SMTT(30) DEF Unit
<1> QED
  BY <1>1 DEF Spread, Anchors

\* Every port of every part has a place on a face of its box.
LEMMA PortsOnFaces ==
  ASSUME NEW c \in DOMAIN Components, NEW p,
         \/ \E i \in DOMAIN Components[c].ins : Components[c].ins[i] = p
         \/ \E i \in DOMAIN Components[c].outs : Components[c].outs[i] = p
  PROVE  Anchor(c, p) \in Anchors
<1> DEFINE ins == Components[c].ins
           outs == Components[c].outs
           data == {i \in DOMAIN ins : ins[i] # "sel"}
           place == CHOOSE i \in DOMAIN ins : ins[i] = p
           upto == {i \in data : i <= place}
           out == CHOOSE i \in DOMAIN outs : outs[i] = p
<1>1. /\ Len(ins) \in Nat /\ DOMAIN ins = 1..Len(ins)
      /\ Len(outs) \in Nat /\ DOMAIN outs = 1..Len(outs)
  BY PortsAreSequences
<1>2. Cardinality(upto) \in 0..Cardinality(data) /\ Cardinality(data) \in Nat
  <2>1. IsFiniteSet(1..Len(ins))
    <3>1. 1 \in Int /\ Len(ins) \in Int
      BY <1>1
    <3> HIDE DEF ins
    <3> QED
      BY <3>1, FS_Interval
  <2>2. data \subseteq 1..Len(ins) /\ upto \subseteq data
    BY <1>1
  <2> HIDE DEF data, upto
  <2>3. IsFiniteSet(data) /\ IsFiniteSet(upto)
    BY <2>1, <2>2, FS_Subset
  <2>4. Cardinality(upto) <= Cardinality(data)
    BY <2>2, <2>3, FS_Subset
  <2> QED
    BY <2>3, <2>4, FS_CardinalityType
<1> HIDE DEF data, upto
<1>3. CASE p = "sel"
  <2>1. DefaultAnchor(c, p) = Spread("n", 1, 1)
    BY <1>3 DEF DefaultAnchor
  <2> QED
    BY <2>1, SpreadOnFaces, PlacedOnFaces DEF Anchor, Sides
<1>4. CASE p # "sel" /\ \E i \in DOMAIN ins : ins[i] = p
  <2>1. DefaultAnchor(c, p) = Spread("w", Cardinality(upto), Cardinality(data))
    BY <1>4 DEF DefaultAnchor, upto, data, Range
  <2> QED
    BY <1>2, <2>1, SpreadOnFaces, PlacedOnFaces DEF Anchor, Sides
<1>5. CASE p # "sel" /\ ~(\E i \in DOMAIN ins : ins[i] = p)
  <2>1. DefaultAnchor(c, p) = Spread("e", out, Len(outs))
    BY <1>5 DEF DefaultAnchor, Range
  <2>2. out \in 1..Len(outs)
    BY <1>1, <1>5
  <2> QED
    BY <1>1, <2>1, <2>2, SpreadOnFaces, PlacedOnFaces DEF Anchor, Sides
<1> QED
  BY <1>3, <1>4, <1>5

-----------------------------------------------------------------------------
\* A port as the model declares it, and joined by a net.
Output(c, p, n) ==
  /\ c \in DOMAIN Components
  /\ \E i \in DOMAIN Components[c].outs : Components[c].outs[i] = p
  /\ n \in DOMAIN Nets /\ Nets[n].from = <<c, p>>

Input(c, p, n, k) ==
  /\ c \in DOMAIN Components
  /\ \E i \in DOMAIN Components[c].ins : Components[c].ins[i] = p
  /\ n \in DOMAIN Nets /\ k \in DOMAIN Nets[n].to /\ Nets[n].to[k] = <<c, p>>

LEMMA Outputs ==
  /\ Output("pc", "q", "pc_imem") /\ Output("imem", "data", "imem_cir")
  /\ Output("cir", "q", "cir_decode") /\ Output("decode", "rs1", "rs1_addr")
  /\ Output("decode", "rs2", "rs2_addr") /\ Output("decode", "rd", "rd_to_xm")
  /\ Output("decode", "memop", "memop_to_xm") /\ Output("decode", "imm", "imm_opB")
  /\ Output("decode", "selA", "selA") /\ Output("decode", "selB", "selB")
  /\ Output("decode", "useMul", "xres_sel") /\ Output("hazard", "selA", "hz_selA")
  /\ Output("hazard", "selB", "hz_selB") /\ Output("hazard", "stall", "hz_stall")
  /\ Output("xpc", "q", "xpc_opA") /\ Output("regfile", "rd1", "rf_rd1")
  /\ Output("regfile", "rd2", "rf_rd2") /\ Output("bypassA", "out", "bypA_opA")
  /\ Output("bypassB", "out", "bypB_opB") /\ Output("opA", "out", "opA_alu")
  /\ Output("opB", "out", "opB_alu") /\ Output("alu", "out", "alu_out")
  /\ Output("muldiv", "out", "muldiv_out") /\ Output("xres", "out", "xres_xm")
  /\ Output("branch", "redirect", "branch_pc") /\ Output("xm", "q_result", "fwd_m")
  /\ Output("xm", "q_rd", "xm_rd") /\ Output("xm", "q_memop", "result_sel")
  /\ Output("dmem", "rdata", "dmem_rdata") /\ Output("resultMux", "out", "fwd_w")
  /\ Output("wb", "waddr", "wb_waddr") /\ Output("wb", "wen", "wb_wen")
<1>1. /\ Output("pc", "q", "pc_imem") /\ Output("imem", "data", "imem_cir")
      /\ Output("cir", "q", "cir_decode") /\ Output("decode", "rs1", "rs1_addr")
  BY MuxPorts, SMTT(60) DEF Output, Components, Nets, Net
<1>2. /\ Output("decode", "rs2", "rs2_addr") /\ Output("decode", "rd", "rd_to_xm")
      /\ Output("decode", "memop", "memop_to_xm") /\ Output("decode", "imm", "imm_opB")
  BY MuxPorts, SMTT(60) DEF Output, Components, Nets, Net
<1>3. /\ Output("decode", "selA", "selA") /\ Output("decode", "selB", "selB")
      /\ Output("decode", "useMul", "xres_sel") /\ Output("hazard", "selA", "hz_selA")
  BY MuxPorts, SMTT(60) DEF Output, Components, Nets, Net
<1>4. /\ Output("hazard", "selB", "hz_selB") /\ Output("hazard", "stall", "hz_stall")
      /\ Output("xpc", "q", "xpc_opA") /\ Output("regfile", "rd1", "rf_rd1")
  BY MuxPorts, SMTT(60) DEF Output, Components, Nets, Net
<1>5. /\ Output("regfile", "rd2", "rf_rd2") /\ Output("bypassA", "out", "bypA_opA")
      /\ Output("bypassB", "out", "bypB_opB") /\ Output("opA", "out", "opA_alu")
  BY MuxPorts, SMTT(60) DEF Output, Components, Nets, Net
<1>6. /\ Output("opB", "out", "opB_alu") /\ Output("alu", "out", "alu_out")
      /\ Output("muldiv", "out", "muldiv_out") /\ Output("xres", "out", "xres_xm")
  BY MuxPorts, SMTT(60) DEF Output, Components, Nets, Net
<1>7. /\ Output("branch", "redirect", "branch_pc") /\ Output("xm", "q_result", "fwd_m")
      /\ Output("xm", "q_rd", "xm_rd") /\ Output("xm", "q_memop", "result_sel")
  BY MuxPorts, SMTT(60) DEF Output, Components, Nets, Net
<1>8. /\ Output("dmem", "rdata", "dmem_rdata") /\ Output("resultMux", "out", "fwd_w")
      /\ Output("wb", "waddr", "wb_waddr") /\ Output("wb", "wen", "wb_wen")
  BY MuxPorts, SMTT(60) DEF Output, Components, Nets, Net
<1> QED
  BY <1>1, <1>2, <1>3, <1>4, <1>5, <1>6, <1>7, <1>8

LEMMA Inputs ==
  /\ Input("pc", "redirect", "branch_pc", 1) /\ Input("imem", "addr", "pc_imem", 1)
  /\ Input("cir", "d", "imem_cir", 1) /\ Input("cir", "hold", "hz_stall", 1)
  /\ Input("decode", "instr", "cir_decode", 1)
  /\ Input("hazard", "rs1", "rs1_addr", 2) /\ Input("hazard", "rs2", "rs2_addr", 2)
  /\ Input("hazard", "xmRd", "xm_rd", 2) /\ Input("hazard", "mwRd", "wb_waddr", 2)
  /\ Input("regfile", "ra1", "rs1_addr", 1) /\ Input("regfile", "ra2", "rs2_addr", 1)
  /\ Input("regfile", "wd", "fwd_w", 3) /\ Input("regfile", "wa", "wb_waddr", 1)
  /\ Input("regfile", "we", "wb_wen", 1) /\ Input("bypassA", "in0", "rf_rd1", 1)
  /\ Input("bypassA", "in1", "fwd_m", 1) /\ Input("bypassA", "in2", "fwd_w", 1)
  /\ Input("bypassA", "sel", "hz_selA", 1) /\ Input("bypassB", "in0", "rf_rd2", 1)
  /\ Input("bypassB", "in1", "fwd_m", 2) /\ Input("bypassB", "in2", "fwd_w", 2)
  /\ Input("bypassB", "sel", "hz_selB", 1) /\ Input("opA", "sel", "selA", 1)
  /\ Input("opA", "in0", "bypA_opA", 1) /\ Input("opA", "in1", "xpc_opA", 1)
  /\ Input("opB", "in1", "imm_opB", 1) /\ Input("opB", "sel", "selB", 1)
  /\ Input("opB", "in0", "bypB_opB", 1) /\ Input("alu", "a", "opA_alu", 1)
  /\ Input("alu", "b", "opB_alu", 1) /\ Input("muldiv", "a", "opA_alu", 2)
  /\ Input("muldiv", "b", "opB_alu", 2) /\ Input("xres", "sel", "xres_sel", 1)
  /\ Input("xres", "in0", "alu_out", 1) /\ Input("xres", "in1", "muldiv_out", 1)
  /\ Input("branch", "target", "xpc_opA", 2) /\ Input("branch", "cond", "alu_out", 3)
  /\ Input("xm", "d_rd", "rd_to_xm", 1) /\ Input("xm", "d_memop", "memop_to_xm", 1)
  /\ Input("xm", "d_result", "xres_xm", 1) /\ Input("dmem", "wdata", "bypB_opB", 2)
  /\ Input("dmem", "addr", "alu_out", 2)
  /\ Input("resultMux", "in0", "xm_to_result", 1)
  /\ Input("resultMux", "in1", "dmem_rdata", 1)
  /\ Input("resultMux", "sel", "result_sel", 1) /\ Input("wb", "rd", "xm_rd", 1)
<1>1. /\ Input("pc", "redirect", "branch_pc", 1) /\ Input("imem", "addr", "pc_imem", 1)
      /\ Input("cir", "d", "imem_cir", 1) /\ Input("cir", "hold", "hz_stall", 1)
  BY MuxPorts, SMTT(60) DEF Input, Components, Nets, Net
<1>2. /\ Input("decode", "instr", "cir_decode", 1)
      /\ Input("hazard", "rs1", "rs1_addr", 2) /\ Input("hazard", "rs2", "rs2_addr", 2)
  BY MuxPorts, SMTT(60) DEF Input, Components, Nets, Net
<1>3. /\ Input("hazard", "xmRd", "xm_rd", 2) /\ Input("hazard", "mwRd", "wb_waddr", 2)
      /\ Input("regfile", "ra1", "rs1_addr", 1) /\ Input("regfile", "ra2", "rs2_addr", 1)
  BY MuxPorts, SMTT(60) DEF Input, Components, Nets, Net
<1>4. /\ Input("regfile", "wd", "fwd_w", 3) /\ Input("regfile", "wa", "wb_waddr", 1)
      /\ Input("regfile", "we", "wb_wen", 1) /\ Input("bypassA", "in0", "rf_rd1", 1)
  BY MuxPorts, SMTT(60) DEF Input, Components, Nets, Net
<1>5. /\ Input("bypassA", "in1", "fwd_m", 1) /\ Input("bypassA", "in2", "fwd_w", 1)
      /\ Input("bypassA", "sel", "hz_selA", 1) /\ Input("bypassB", "in0", "rf_rd2", 1)
  BY MuxPorts, SMTT(60) DEF Input, Components, Nets, Net
<1>6. /\ Input("bypassB", "in1", "fwd_m", 2) /\ Input("bypassB", "in2", "fwd_w", 2)
      /\ Input("bypassB", "sel", "hz_selB", 1) /\ Input("opA", "sel", "selA", 1)
  BY MuxPorts, SMTT(60) DEF Input, Components, Nets, Net
<1>7. /\ Input("opA", "in0", "bypA_opA", 1) /\ Input("opA", "in1", "xpc_opA", 1)
      /\ Input("opB", "in1", "imm_opB", 1) /\ Input("opB", "sel", "selB", 1)
  BY MuxPorts, SMTT(60) DEF Input, Components, Nets, Net
<1>8. /\ Input("opB", "in0", "bypB_opB", 1) /\ Input("alu", "a", "opA_alu", 1)
      /\ Input("alu", "b", "opB_alu", 1) /\ Input("muldiv", "a", "opA_alu", 2)
  BY MuxPorts, SMTT(60) DEF Input, Components, Nets, Net
<1>9. /\ Input("muldiv", "b", "opB_alu", 2) /\ Input("xres", "sel", "xres_sel", 1)
      /\ Input("xres", "in0", "alu_out", 1) /\ Input("xres", "in1", "muldiv_out", 1)
  BY MuxPorts, SMTT(60) DEF Input, Components, Nets, Net
<1>10. /\ Input("branch", "target", "xpc_opA", 2) /\ Input("branch", "cond", "alu_out", 3)
       /\ Input("xm", "d_rd", "rd_to_xm", 1) /\ Input("xm", "d_memop", "memop_to_xm", 1)
  BY MuxPorts, SMTT(60) DEF Input, Components, Nets, Net
<1>11. /\ Input("xm", "d_result", "xres_xm", 1) /\ Input("dmem", "wdata", "bypB_opB", 2)
       /\ Input("dmem", "addr", "alu_out", 2)
  BY MuxPorts, SMTT(60) DEF Input, Components, Nets, Net
<1>12. /\ Input("resultMux", "in0", "xm_to_result", 1)
       /\ Input("resultMux", "in1", "dmem_rdata", 1)
  BY MuxPorts, SMTT(60) DEF Input, Components, Nets, Net
<1>13. /\ Input("resultMux", "sel", "result_sel", 1) /\ Input("wb", "rd", "xm_rd", 1)
  BY MuxPorts, SMTT(60) DEF Input, Components, Nets, Net
<1> QED
  BY <1>1, <1>2, <1>3, <1>4, <1>5, <1>6, <1>7, <1>8, <1>9, <1>10, <1>11, <1>12, <1>13

Sends(c, p) == \E n : Output(c, p, n)
Takes(c, p) == \E n, k : Input(c, p, n, k)

LEMMA NetsJoinPorts ==
  ASSUME NEW n \in DOMAIN Nets
  PROVE  /\ Sends(Nets[n].from[1], Nets[n].from[2])
         /\ \A k \in DOMAIN Nets[n].to : Takes(Nets[n].to[k][1], Nets[n].to[k][2])
<1>1. Sends(Nets[n].from[1], Nets[n].from[2])
  BY Outputs, SMTT(60) DEF Nets, Net, Sends
<1>2. Takes(Nets[n].to[1][1], Nets[n].to[1][2])
  BY Inputs, SMTT(60) DEF Nets, Net, Takes
<1>3. 2 \in DOMAIN Nets[n].to => Takes(Nets[n].to[2][1], Nets[n].to[2][2])
  BY Inputs, SMTT(60) DEF Nets, Net, Takes
<1>4. 3 \in DOMAIN Nets[n].to => Takes(Nets[n].to[3][1], Nets[n].to[3][2])
  BY Inputs, SMTT(60) DEF Nets, Net, Takes
<1> QED
  BY <1>1, <1>2, <1>3, <1>4, AtMostThreeEnds

LEMMA EveryPortIsJoined ==
  ASSUME NEW c \in DOMAIN Components
  PROVE  /\ \A i \in DOMAIN Components[c].outs : Sends(c, Components[c].outs[i])
         /\ \A i \in DOMAIN Components[c].ins : Takes(c, Components[c].ins[i])
<1>1. ASSUME NEW i \in DOMAIN Components[c].outs PROVE Sends(c, Components[c].outs[i])
  <2>1. CASE c = "decode"
    BY <2>1, Outputs, SMTT(60) DEF Components, Sends
  <2>2. CASE c # "decode"
    BY <2>2, Outputs, MuxPorts, SMTT(60) DEF Components, Sends
  <2> QED
    BY <2>1, <2>2
<1>2. \A i \in DOMAIN Components[c].ins : Takes(c, Components[c].ins[i])
  BY Inputs, MuxPorts, SMTT(60) DEF Components, Takes
<1> QED
  BY <1>1, <1>2

LEMMA PlacedPortsExist ==
  ASSUME NEW c \in DOMAIN Placed, NEW p \in DOMAIN Placed[c]
  PROVE  Sends(c, p) \/ Takes(c, p)
BY Inputs, Outputs, SMTT(60) DEF Placed, Sends, Takes

Picture == Area(Canvas.w * Unit, Canvas.h * Unit)

\* A place along a face of a box, with room for a stub at either end.
LEMMA AlongFace ==
  ASSUME NEW from \in Int, NEW size \in Int, NEW limit \in Int, NEW at \in 0..600,
         from >= 14, size > 0, from + size + 14 <= limit
  PROVE  from * 600 + size * at \in 0..limit * 600
<1>1. size * at \in Int /\ 0 <= size * at /\ size * at <= size * 600
  BY SMTT(30)
<1> DEFINE prod == size * at
<1> HIDE DEF prod
<1>2. from * 600 + prod \in 0..limit * 600
  BY <1>1 DEF prod
<1> QED
  BY <1>2 DEF prod

\* A port is on the canvas, and so is the end of its stub.
LEMMA StubsOnCanvas ==
  ASSUME NEW c \in DOMAIN Components, NEW p, Anchor(c, p) \in Anchors
  PROVE  /\ PointOf(c, p) \in Picture
         /\ StubEnd(PointOf(c, p), Anchor(c, p).side) \in Picture
<1> DEFINE b == Box[c]
           a == Anchor(c, p)
           W == Canvas.w
           H == Canvas.h
           xAt == b[1] * 600 + b[3] * a.at
           yAt == b[2] * 600 + b[4] * a.at
<1>1. /\ b[1] \in Int /\ b[2] \in Int /\ b[3] \in Int /\ b[4] \in Int
      /\ W \in Int /\ H \in Int /\ b[3] > 0 /\ b[4] > 0
      /\ b[1] >= 14 /\ b[1] + b[3] + 14 <= W /\ b[2] >= 14 /\ b[2] + b[4] + 14 <= H
  BY PartsHaveBoxes, RoomForStubs DEF Canvas
<1>2. a.side \in Sides /\ a.at \in 0..600
  BY DEF Anchors, Unit
<1>3. PointOf(c, p) = CASE a.side = "n" -> <<xAt, b[2] * 600>>
                        [] a.side = "s" -> <<xAt, (b[2] + b[4]) * 600>>
                        [] a.side = "w" -> <<b[1] * 600, yAt>>
                        [] a.side = "e" -> <<(b[1] + b[3]) * 600, yAt>>
  BY DEF PointOf, Unit
<1>4. Picture = (0..W * 600) \X (0..H * 600) /\ STUB = 14 * 600
  BY DEF Picture, Area, Unit, STUB
<1> HIDE DEF W, H, b
<1>5. xAt \in 0..W * 600 /\ yAt \in 0..H * 600
  <2> DEFINE at == a.at
             left == b[1]
             top == b[2]
             width == b[3]
             height == b[4]
  <2>1. at \in 0..600
    BY <1>2
  <2>2. /\ left \in Int /\ top \in Int /\ width \in Int /\ height \in Int
        /\ W \in Int /\ H \in Int /\ width > 0 /\ height > 0
        /\ left >= 14 /\ left + width + 14 <= W /\ top >= 14 /\ top + height + 14 <= H
    BY <1>1
  <2> HIDE DEF a, at, left, top, width, height
  <2>3. left * 600 + width * at \in 0..W * 600
    BY <2>1, <2>2, AlongFace
  <2>4. top * 600 + height * at \in 0..H * 600
    BY <2>1, <2>2, AlongFace
  <2> QED
    BY <2>3, <2>4 DEF at, left, top, width, height
<1>6. a = Anchor(c, p)
  OBVIOUS
<1> HIDE DEF a, xAt, yAt
<1>7. CASE a.side = "n"
  <2>1. PointOf(c, p) = <<xAt, b[2] * 600>>
    BY <1>3, <1>7
  <2>2. StubEnd(<<xAt, b[2] * 600>>, "n") = <<xAt, b[2] * 600 - 14 * 600>>
    BY <1>4 DEF StubEnd
  <2> QED
    BY <1>1, <1>4, <1>5, <1>6, <1>7, <2>1, <2>2
<1>8. CASE a.side = "s"
  <2>1. PointOf(c, p) = <<xAt, (b[2] + b[4]) * 600>>
    BY <1>3, <1>8
  <2>2. StubEnd(<<xAt, (b[2] + b[4]) * 600>>, "s") = <<xAt, (b[2] + b[4]) * 600 + 14 * 600>>
    BY <1>4 DEF StubEnd
  <2> QED
    BY <1>1, <1>4, <1>5, <1>6, <1>8, <2>1, <2>2
<1>9. CASE a.side = "w"
  <2>1. PointOf(c, p) = <<b[1] * 600, yAt>>
    BY <1>3, <1>9
  <2>2. StubEnd(<<b[1] * 600, yAt>>, "w") = <<b[1] * 600 - 14 * 600, yAt>>
    BY <1>4 DEF StubEnd
  <2> QED
    BY <1>1, <1>4, <1>5, <1>6, <1>9, <2>1, <2>2
<1>10. CASE a.side = "e"
  <2>1. PointOf(c, p) = <<(b[1] + b[3]) * 600, yAt>>
    BY <1>3, <1>10
  <2>2. StubEnd(<<(b[1] + b[3]) * 600, yAt>>, "e") = <<(b[1] + b[3]) * 600 + 14 * 600, yAt>>
    BY <1>4 DEF StubEnd
  <2> QED
    BY <1>1, <1>4, <1>5, <1>6, <1>10, <2>1, <2>2
<1> QED
  BY <1>2, <1>7, <1>8, <1>9, <1>10 DEF Sides

\* The waypoints are on the canvas.
Pixel(p) ==
  /\ p[1] \in Int /\ 0 <= p[1] /\ p[1] <= Canvas.w
  /\ p[2] \in Int /\ 0 <= p[2] /\ p[2] <= Canvas.h

Waypoints(s) ==
  /\ s = <<>> \/ s = <<s[1]>> \/ s = <<s[1], s[2]>>
  /\ 1 \in DOMAIN s => Pixel(s[1])
  /\ 2 \in DOMAIN s => Pixel(s[2])

LEMMA SharedWaypoints ==
  ASSUME NEW net \in DOMAIN Shared
  PROVE  Waypoints(Shared[net])
<1>1. Shared[net] = <<Shared[net][1]>> \/ Shared[net] = <<Shared[net][1], Shared[net][2]>>
  BY SMTT(60) DEF Shared
<1>2. Pixel(Shared[net][1])
  BY SMTT(60) DEF Shared, Pixel, Canvas
<1>3. 2 \in DOMAIN Shared[net] => Pixel(Shared[net][2])
  BY SMTT(60) DEF Shared, Pixel, Canvas
<1> QED
  BY <1>1, <1>2, <1>3 DEF Waypoints

LEMMA OwnWaypoints ==
  ASSUME NEW n \in DOMAIN Own, NEW k \in DOMAIN Nets[n].to
  PROVE  Waypoints(Own[n][k])
<1>1. Waypoints(Own[n][1])
  <2>1. LET s == Own[n][1] IN s = <<>> \/ s = <<s[1]>> \/ s = <<s[1], s[2]>>
    BY SMTT(60) DEF Own
  <2>2. 1 \in DOMAIN Own[n][1] => Pixel(Own[n][1][1])
    BY SMTT(60) DEF Own, Pixel, Canvas
  <2>3. ~(2 \in DOMAIN Own[n][1])
    BY SMTT(60) DEF Own
  <2> QED
    BY <2>1, <2>2, <2>3 DEF Waypoints
<1>2. Waypoints(Own[n][2])
  <2>1. LET s == Own[n][2] IN s = <<>> \/ s = <<s[1]>> \/ s = <<s[1], s[2]>>
    BY SMTT(60) DEF Own
  <2>2. 1 \in DOMAIN Own[n][2] => Pixel(Own[n][2][1])
    BY SMTT(60) DEF Own, Pixel, Canvas
  <2>3. 2 \in DOMAIN Own[n][2] => Pixel(Own[n][2][2])
    BY SMTT(60) DEF Own, Pixel, Canvas
  <2> QED
    BY <2>1, <2>2, <2>3 DEF Waypoints
<1>3. 3 \in DOMAIN Nets[n].to => Waypoints(Own[n][3])
  <2>1. 3 \in DOMAIN Nets[n].to => n = "alu_out"
    BY SMTT(60) DEF Own, Nets, Net
  <2>2. Own["alu_out"][3] = << <<738, 480>> >>
    BY SMTT(60) DEF Own
  <2>3. Waypoints(Own["alu_out"][3])
    BY <2>2, SMT DEF Waypoints, Pixel, Canvas
  <2> QED
    BY <2>1, <2>3
<1>4. n \in DOMAIN Nets
  BY SMTT(60) DEF Own, Nets
<1> QED
  BY <1>1, <1>2, <1>3, <1>4, AtMostThreeEnds

LEMMA WaypointsOnCanvas ==
  ASSUME NEW n \in DOMAIN Nets, NEW k \in DOMAIN Nets[n].to
  PROVE  Via(n, k) \in Seq(Picture)
<1> DEFINE px == IF n \in DOMAIN Own THEN Own[n][k]
                 ELSE IF n \in DOMAIN Shared THEN Shared[n] ELSE <<>>
<1>1. Waypoints(<<>>)
  BY DEF Waypoints
<1>2. Waypoints(px)
  BY <1>1, SharedWaypoints, OwnWaypoints
<1>3. Via(n, k) = [i \in DOMAIN px |-> <<px[i][1] * Unit, px[i][2] * Unit>>]
  BY DEF Via
<1> HIDE DEF px
<1>4. /\ Len(px) \in Nat /\ DOMAIN px = 1..Len(px)
      /\ DOMAIN px \subseteq {1, 2}
  <2>1. CASE px = <<>>
    BY <2>1
  <2>2. CASE px = <<px[1]>>
    <3> DEFINE d == px[1]
    <3>1. px = <<d>>
      BY <2>2
    <3> HIDE DEF d
    <3> QED
      BY <3>1
  <2>3. CASE px = <<px[1], px[2]>>
    <3> DEFINE d == px[1]
               e == px[2]
    <3>1. px = <<d, e>>
      BY <2>3
    <3> HIDE DEF d, e
    <3> QED
      BY <3>1
  <2> QED
    BY <1>2, <2>1, <2>2, <2>3 DEF Waypoints
<1>5. \A i \in DOMAIN px : Pixel(px[i])
  BY <1>2, <1>4 DEF Waypoints
<1>6. ASSUME NEW d, Pixel(d)
      PROVE  <<d[1] * Unit, d[2] * Unit>> \in Picture
  <2>1. Canvas.w \in Int /\ Canvas.h \in Int
    BY DEF Canvas
  <2> DEFINE W == Canvas.w
             H == Canvas.h
             i == d[1]
             j == d[2]
  <2>2. Picture = (0..W * 600) \X (0..H * 600) /\ Unit = 600
    BY DEF Picture, Area, Unit
  <2>3. i \in 0..W /\ j \in 0..H
    BY <1>6, <2>1 DEF Pixel
  <2>4. W \in Int /\ H \in Int
    BY <2>1
  <2> HIDE DEF W, H, i, j
  <2>5. i * 600 \in 0..W * 600 /\ j * 600 \in 0..H * 600
    BY <2>3, <2>4, SMT
  <2>6. <<i * 600, j * 600>> \in Picture
    BY <2>2, <2>5
  <2> QED
    BY <2>2, <2>6 DEF i, j
<1>7. Via(n, k) \in [1..Len(px) -> Picture]
  BY <1>3, <1>4, <1>5, <1>6
<1> QED
  BY <1>4, <1>7

\* The wires drawn last are those of one net, each with its ends.
WiresOf(n) ==
  [k \in DOMAIN Nets[n].to |->
     [from |-> Nets[n].from, to |-> Nets[n].to[k], points |-> Wire(n, k)]]

PathInv ==
  /\ mounted \subseteq DOMAIN Nets
  /\ path = <<>> \/ \E n \in DOMAIN Nets : path = WiresOf(n)

LEMMA PathInvariant == Spec => []PathInv
<1>1. Init => PathInv
  BY DEF Init, PathInv
<1>2. PathInv /\ [Next]_vars => PathInv'
  <2> SUFFICES ASSUME PathInv, [Next]_vars PROVE PathInv'
    OBVIOUS
  <2>1. CASE BuildNet
    <3>1. PICK n \in DOMAIN Nets : mounted' = mounted \cup {n} /\ path' = WiresOf(n)
      BY <2>1 DEF BuildNet, Ready, PathInv, WiresOf
    <3> QED
      BY <3>1 DEF PathInv
  <2>2. CASE Load
    BY <2>2 DEF Load, PathInv
  <2>3. CASE UNCHANGED sceneVars
    BY <2>3 DEF PathInv, sceneVars
  <2> QED
    BY <2>1, <2>2, <2>3 DEF Next, Cycle, Paint, vars
<1> QED
  BY <1>1, <1>2, PTL DEF Spec

\* The wires of the datapath, each from its port to its port, in horizontal and vertical
\* pieces and on the canvas (layout/route.ts:4-6).
THEOREM WiresRunTrue == Spec => []WiresConnect
<1>1. ASSUME NEW n \in DOMAIN Nets, NEW k \in DOMAIN Nets[n].to
      PROVE  Line(Wire(n, k), PointOf(Nets[n].from[1], Nets[n].from[2]),
                  PointOf(Nets[n].to[k][1], Nets[n].to[k][2]), Picture)
  <2> DEFINE from == Nets[n].from
             to == Nets[n].to[k]
             fromAnchor == Anchor(from[1], from[2])
             toAnchor == Anchor(to[1], to[2])
  <2>1. Sends(from[1], from[2]) /\ Takes(to[1], to[2])
    BY NetsJoinPorts
  <2>2. /\ from[1] \in DOMAIN Components /\ to[1] \in DOMAIN Components
        /\ fromAnchor \in Anchors /\ toAnchor \in Anchors
    BY <2>1, PortsOnFaces DEF Sends, Takes, Output, Input
  <2>3. /\ PointOf(from[1], from[2]) \in Picture /\ PointOf(to[1], to[2]) \in Picture
        /\ StubEnd(PointOf(from[1], from[2]), fromAnchor.side) \in Picture
        /\ StubEnd(PointOf(to[1], to[2]), toAnchor.side) \in Picture
    BY <2>2, StubsOnCanvas
  <2>4. fromAnchor.side \in Sides /\ toAnchor.side \in Sides
    BY <2>2 DEF Anchors
  <2>5. Via(n, k) \in Seq(Picture)
    BY WaypointsOnCanvas
  <2>6. Canvas.w * Unit \in Nat /\ Canvas.h * Unit \in Nat
    BY DEF Canvas, Unit
  <2> DEFINE W == Canvas.w * Unit
             H == Canvas.h * Unit
  <2>7. Picture = Area(W, H)
    BY DEF Picture
  <2> HIDE DEF W, H, from, to, fromAnchor, toAnchor
  <2>8. Line(Route(PointOf(from[1], from[2]), fromAnchor.side, PointOf(to[1], to[2]),
                   toAnchor.side, Via(n, k)),
             PointOf(from[1], from[2]), PointOf(to[1], to[2]), Area(W, H))
    BY <2>3, <2>4, <2>5, <2>6, <2>7, RouteConnects DEF W, H
  <2> QED
    BY <2>7, <2>8 DEF Wire, from, to, fromAnchor, toAnchor
<1>2. ASSUME NEW s, NEW p, NEW q, Line(s, p, q, Picture)
      PROVE  /\ s[1] = p /\ s[Len(s)] = q
             /\ \A j \in 2..Len(s) : \E axis \in 1..2 : s[j][axis] = s[j - 1][axis]
             /\ \A j \in DOMAIN s : OnCanvas(s[j])
  <2>1. \A j \in 2..Len(s) : \E axis \in 1..2 : s[j][axis] = s[j - 1][axis]
    <3>1. \A c, d : Aligned(c, d) => \E axis \in 1..2 : d[axis] = c[axis]
      BY DEF Aligned
    <3> QED
      BY <1>2, <3>1 DEF Line
  <2>2. \A j \in DOMAIN s : s[j] \in Picture
    BY <1>2, LenProperties, ElementOfSeq DEF Line
  <2>3. \A c \in Picture : OnCanvas(c)
    BY DEF Picture, Area, OnCanvas
  <2> QED
    BY <1>2, <2>1, <2>2, <2>3 DEF Line
<1>3. PathInv => WiresConnect
  <2> SUFFICES ASSUME PathInv, NEW k \in DOMAIN path
               PROVE  LET s == path[k].points
                      IN  /\ s[1] = PointOf(path[k].from[1], path[k].from[2])
                          /\ s[Len(s)] = PointOf(path[k].to[1], path[k].to[2])
                          /\ \A j \in 2..Len(s) : \E axis \in 1..2 : s[j][axis] = s[j - 1][axis]
                          /\ \A j \in DOMAIN s : OnCanvas(s[j])
    BY DEF WiresConnect
  <2>1. path # <<>>
    OBVIOUS
  <2>2. PICK n \in DOMAIN Nets : path = WiresOf(n)
    BY <2>1 DEF PathInv
  <2>3. /\ k \in DOMAIN Nets[n].to /\ path[k].points = Wire(n, k)
        /\ path[k].from = Nets[n].from /\ path[k].to = Nets[n].to[k]
    BY <2>2 DEF WiresOf
  <2> QED
    BY <1>1, <1>2, <2>3
<1> QED
  BY <1>3, PathInvariant, PTL

-----------------------------------------------------------------------------
(* The tables agree with one another                                       *)

\* No port of an input is the end of two nets, nor of one net twice.
LEMMA DrivenOnce ==
  ASSUME NEW n1 \in DOMAIN Nets, NEW k1 \in DOMAIN Nets[n1].to,
         NEW n2 \in DOMAIN Nets, NEW k2 \in DOMAIN Nets[n2].to,
         Nets[n1].to[k1] = Nets[n2].to[k2]
  PROVE  n1 = n2 /\ k1 = k2
<1>1. CASE k1 = 1 /\ k2 = 1
  BY <1>1, SMTT(90) DEF Nets, Net
<1>2. CASE k1 = 1 /\ k2 = 2
  BY <1>2, SMTT(90) DEF Nets, Net
<1>3. CASE k1 = 1 /\ k2 = 3
  BY <1>3, SMTT(90) DEF Nets, Net
<1>4. CASE k1 = 2 /\ k2 = 1
  BY <1>4, SMTT(90) DEF Nets, Net
<1>5. CASE k1 = 2 /\ k2 = 2
  BY <1>5, SMTT(90) DEF Nets, Net
<1>6. CASE k1 = 2 /\ k2 = 3
  BY <1>6, SMTT(90) DEF Nets, Net
<1>7. CASE k1 = 3 /\ k2 = 1
  BY <1>7, SMTT(90) DEF Nets, Net
<1>8. CASE k1 = 3 /\ k2 = 2
  BY <1>8, SMTT(90) DEF Nets, Net
<1>9. CASE k1 = 3 /\ k2 = 3
  BY <1>9, SMTT(90) DEF Nets, Net
<1> QED
  BY <1>1, <1>2, <1>3, <1>4, <1>5, <1>6, <1>7, <1>8, <1>9, AtMostThreeEnds

LEMMA EndsArePairs ==
  ASSUME NEW n \in DOMAIN Nets
  PROVE  /\ Nets[n].from = <<Nets[n].from[1], Nets[n].from[2]>>
         /\ \A k \in DOMAIN Nets[n].to : Nets[n].to[k] = <<Nets[n].to[k][1], Nets[n].to[k][2]>>
<1>1. Nets[n].from = <<Nets[n].from[1], Nets[n].from[2]>>
  BY SMTT(60) DEF Nets, Net
<1>2. Nets[n].to[1] = <<Nets[n].to[1][1], Nets[n].to[1][2]>>
  BY SMTT(60) DEF Nets, Net
<1>3. 2 \in DOMAIN Nets[n].to => Nets[n].to[2] = <<Nets[n].to[2][1], Nets[n].to[2][2]>>
  BY SMTT(60) DEF Nets, Net
<1>4. 3 \in DOMAIN Nets[n].to => Nets[n].to[3] = <<Nets[n].to[3][1], Nets[n].to[3][2]>>
  BY SMTT(60) DEF Nets, Net
<1> QED
  BY <1>1, <1>2, <1>3, <1>4, AtMostThreeEnds

LEMMA ModelInOrder == ModelErrors = {} /\ ModelWarnings = {}
<1>1. \A n \in DOMAIN Nets : Nets[n].from \in PortsOf("outs")
  <2> SUFFICES ASSUME NEW n \in DOMAIN Nets PROVE Nets[n].from \in PortsOf("outs")
    OBVIOUS
  <2>1. PICK c, i : /\ c \in DOMAIN Components /\ i \in DOMAIN Components[c].outs
                    /\ Nets[n].from = <<c, Components[c].outs[i]>>
    BY NetsJoinPorts, EndsArePairs DEF Sends, Output
  <2> QED
    BY <2>1 DEF PortsOf
<1>2. \A n \in DOMAIN Nets : \A k \in DOMAIN Nets[n].to : Nets[n].to[k] \in PortsOf("ins")
  <2> SUFFICES ASSUME NEW n \in DOMAIN Nets, NEW k \in DOMAIN Nets[n].to
               PROVE  Nets[n].to[k] \in PortsOf("ins")
    OBVIOUS
  <2>1. PICK c, i : /\ c \in DOMAIN Components /\ i \in DOMAIN Components[c].ins
                    /\ Nets[n].to[k] = <<c, Components[c].ins[i]>>
    BY NetsJoinPorts, EndsArePairs DEF Takes, Input
  <2> QED
    BY <2>1 DEF PortsOf
<1>3. \A d \in Destinations : /\ d[1] \in DOMAIN Nets /\ d[2] \in DOMAIN Nets[d[1]].to
                              /\ d = <<d[1], d[2]>> /\ EndOf(d) = Nets[d[1]].to[d[2]]
  BY DEF Destinations, EndOf
<1>4. \A n \in DOMAIN Nets : Nets[n].to # <<>>
  BY AtMostThreeEnds
<1>5. \A d \in Destinations : \A e \in Destinations \ {d} : EndOf(e) # EndOf(d)
  BY <1>3, DrivenOnce
<1>6. ModelErrors = {}
  <2>1. \A n : ~(n \in {i \in DOMAIN Nets : Nets[i].from \notin PortsOf("outs")})
    BY <1>1
  <2>2. \A d : ~(d \in {i \in Destinations : EndOf(i) \notin PortsOf("ins")})
    BY <1>2, <1>3
  <2>3. \A n : ~(n \in {i \in DOMAIN Nets : Nets[i].to = <<>>})
    BY <1>4
  <2>4. \A d : ~(d \in {i \in Destinations : \E e \in Destinations \ {i} : EndOf(e) = EndOf(i)})
    BY <1>5
  <2> QED
    BY <2>1, <2>2, <2>3, <2>4, Zenon DEF ModelErrors
<1>7. ASSUME NEW c \in DOMAIN Components, NEW i \in DOMAIN Components[c].outs
      PROVE  \E n \in DOMAIN Nets : Nets[n].from = <<c, Components[c].outs[i]>>
  <2>1. Sends(c, Components[c].outs[i])
    BY EveryPortIsJoined
  <2> QED
    BY <2>1 DEF Sends, Output
<1>8. ASSUME NEW c \in DOMAIN Components, NEW i \in DOMAIN Components[c].ins
      PROVE  \E d \in Destinations : EndOf(d) = <<c, Components[c].ins[i]>>
  <2>1. PICK n, k : Input(c, Components[c].ins[i], n, k)
    BY EveryPortIsJoined DEF Takes
  <2>2. <<n, k>> \in Destinations /\ EndOf(<<n, k>>) = <<c, Components[c].ins[i]>>
    BY <2>1 DEF Destinations, EndOf, Input
  <2> QED
    BY <2>2
<1>9. ModelWarnings = {}
  <2>1. ASSUME NEW e \in PortsOf("outs")
        PROVE  e \in {Nets[n].from : n \in DOMAIN Nets}
    <3>1. PICK c \in DOMAIN Components : e \in {<<c, Components[c]["outs"][i]>> :
                                                 i \in DOMAIN Components[c]["outs"]}
      BY DEF PortsOf
    <3>2. PICK i \in DOMAIN Components[c].outs : e = <<c, Components[c].outs[i]>>
      BY <3>1
    <3> QED
      BY <1>7, <3>2
  <2>2. ASSUME NEW e \in PortsOf("ins")
        PROVE  e \in {EndOf(d) : d \in Destinations}
    <3>1. PICK c \in DOMAIN Components : e \in {<<c, Components[c]["ins"][i]>> :
                                                 i \in DOMAIN Components[c]["ins"]}
      BY DEF PortsOf
    <3>2. PICK i \in DOMAIN Components[c].ins : e = <<c, Components[c].ins[i]>>
      BY <3>1
    <3> QED
      BY <1>8, <3>2
  <2>3. \A e : ~(e \in (PortsOf("ins") \cup PortsOf("outs"))
                         \ ({Nets[n].from : n \in DOMAIN Nets} \cup {EndOf(d) : d \in Destinations}))
    BY <2>1, <2>2
  <2> QED
    BY <2>3, Zenon DEF ModelWarnings
<1> QED
  BY <1>6, <1>9

LEMMA BoxesApart ==
  ASSUME NEW c \in DOMAIN Box, NEW d \in DOMAIN Box \ {c}
  PROVE  ~Overlaps(Box[c], Box[d])
BY SMTT(100) DEF Box, Overlaps

LEMMA NamesKnown ==
  /\ DOMAIN Placed \subseteq DOMAIN Components
  /\ DOMAIN Shared \cup DOMAIN Own \subseteq DOMAIN Nets
BY SMTT(60) DEF Placed, Components, Shared, Own, Nets

LEMMA LayoutInOrder == LayoutErrors = {} /\ LayoutWarnings = {}
<1>1. ASSUME NEW c \in DOMAIN Placed
      PROVE  DOMAIN Placed[c] \subseteq Range(Components[c].ins \o Components[c].outs)
  <2> SUFFICES ASSUME NEW p \in DOMAIN Placed[c]
               PROVE  p \in Range(Components[c].ins \o Components[c].outs)
    OBVIOUS
  <2> DEFINE ins == Components[c].ins
             outs == Components[c].outs
  <2>1. /\ Len(ins) \in Nat /\ DOMAIN ins = 1..Len(ins)
        /\ Len(outs) \in Nat /\ DOMAIN outs = 1..Len(outs)
    BY NamesKnown, PortsAreSequences
  <2>2. \/ \E i \in DOMAIN ins : ins[i] = p
        \/ \E i \in DOMAIN outs : outs[i] = p
    BY PlacedPortsExist DEF Sends, Takes, Output, Input
  <2> HIDE DEF ins, outs
  <2>3. /\ DOMAIN (ins \o outs) = 1..Len(ins) + Len(outs)
        /\ \A i \in 1..Len(ins) : (ins \o outs)[i] = ins[i]
        /\ \A i \in 1..Len(outs) : (ins \o outs)[Len(ins) + i] = outs[i]
    BY <2>1
  <2>4. p \in Range(ins \o outs)
    <3>1. CASE \E i \in DOMAIN ins : ins[i] = p
      <4>1. PICK i \in 1..Len(ins) : ins[i] = p
        BY <2>1, <3>1
      <4>2. i \in DOMAIN (ins \o outs) /\ (ins \o outs)[i] = p
        BY <2>1, <2>3, <4>1
      <4> QED
        BY <4>2 DEF Range
    <3>2. CASE \E i \in DOMAIN outs : outs[i] = p
      <4>1. PICK i \in 1..Len(outs) : outs[i] = p
        BY <2>1, <3>2
      <4>2. Len(ins) + i \in DOMAIN (ins \o outs) /\ (ins \o outs)[Len(ins) + i] = p
        BY <2>1, <2>3, <4>1
      <4> QED
        BY <4>2 DEF Range
    <3> QED
      BY <2>2, <3>1, <3>2
  <2> QED
    BY <2>4 DEF ins, outs
<1>2. LayoutErrors = {}
  <2>1. \A c : ~(c \in DOMAIN Components \ DOMAIN Box)
    BY PartsHaveBoxes
  <2>2. \A c : ~(c \in (DOMAIN Box \cup DOMAIN Placed) \ DOMAIN Components)
    BY PartsHaveBoxes, NamesKnown
  <2>3. \A c : ~(c \in {d \in DOMAIN Placed \cap DOMAIN Components :
                  ~(DOMAIN Placed[d] \subseteq Range(Components[d].ins \o Components[d].outs))})
    BY <1>1
  <2>4. \A c : ~(c \in {d \in DOMAIN Box : Box[d][3] <= 0 \/ Box[d][4] <= 0})
    <3>1. ASSUME NEW c \in DOMAIN Box PROVE ~(Box[c][3] <= 0 \/ Box[c][4] <= 0)
      <4> DEFINE width == Box[c][3]
                 height == Box[c][4]
      <4>1. width \in Int /\ height \in Int /\ width > 0 /\ height > 0
        BY RoomForStubs
      <4> HIDE DEF width, height
      <4>2. ~(width <= 0 \/ height <= 0)
        BY <4>1
      <4> QED
        BY <4>2 DEF width, height
    <3> QED
      BY <3>1
  <2>5. \A n : ~(n \in (DOMAIN Shared \cup DOMAIN Own) \ DOMAIN Nets)
    BY NamesKnown
  <2> QED
    BY <2>1, <2>2, <2>3, <2>4, <2>5, Zenon DEF LayoutErrors
<1>3. ASSUME NEW c \in DOMAIN Box PROVE ~OutsideCanvas(Box[c])
  <2> DEFINE b == Box[c]
             left == b[1]
             top == b[2]
             width == b[3]
             height == b[4]
             W == Canvas.w
             H == Canvas.h
  <2>1. /\ left \in Int /\ top \in Int /\ width \in Int /\ height \in Int
        /\ W \in Int /\ H \in Int /\ width > 0 /\ height > 0
        /\ left >= 14 /\ left + width + 14 <= W /\ top >= 14 /\ top + height + 14 <= H
    BY RoomForStubs DEF Canvas
  <2>2. OutsideCanvas(b) <=> left < 0 \/ top < 0 \/ left + width > W \/ top + height > H
    BY DEF OutsideCanvas
  <2> HIDE DEF b, left, top, width, height, W, H
  <2>3. ~OutsideCanvas(b)
    BY <2>1, <2>2
  <2> QED
    BY <2>3 DEF b
<1>4. LayoutWarnings = {}
  <2>1. \A c : ~(c \in {d \in DOMAIN Box : OutsideCanvas(Box[d])})
    BY <1>3
  <2>2. \A c : ~(c \in {d \in DOMAIN Box : \E e \in DOMAIN Box \ {d} : Overlaps(Box[d], Box[e])})
    BY BoxesApart
  <2> QED
    BY <2>1, <2>2, Zenon DEF LayoutWarnings
<1> QED
  BY <1>2, <1>4

\* validateDatapath and validateLayout have nothing to say of the page's own tables
\* (App.buildDiagram): every port has its net, every input one driver, every part a box
\* on the canvas that touches no other.
THEOREM TablesAreInOrder == Spec => []TablesInOrder
<1>1. TablesInOrder
  BY ModelInOrder, LayoutInOrder DEF TablesInOrder
<1> QED
  BY <1>1, PTL
=============================================================================
