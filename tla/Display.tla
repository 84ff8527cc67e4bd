------------------------------ MODULE Display ------------------------------
(***************************************************************************)
(* What a snapshot means for each part and wire of the diagram:            *)
(* computeDisplay (src/viz/model/bindings.ts), and the two encodings it    *)
(* decodes: the source of an operand and the reasons for a stall.          *)
(* A text is a tuple that starts with its kind; texts whose contents no    *)
(* property tells apart (addresses, instruction words) are Some.           *)
(***************************************************************************)
EXTENDS Integers, Sequences

Blank == <<>>
Some  == <<"text">>
Hex(v)       == <<"hex", v>>
RegName(r)   == <<"reg", r>>
Update(r, v) == <<"update", r, v>>
Name(n)      == <<"name", n>>

When(condition, text) == IF condition THEN text ELSE Blank

-----------------------------------------------------------------------------
(* Encodings                                                               *)

\* Which line of the one-hot select is up (p_x_bypass_a and _b).
BypassCode(lines) ==
  IF "xm" \in lines THEN "M"
  ELSE IF "mw" \in lines THEN "W"
  ELSE IF "regs" \in lines THEN "Regfile"
  ELSE "None"

\* Mutant: the two forwarding inputs the other way round.
BypassInputSwapped(code) ==
  CASE code = "Regfile" -> 0 [] code = "M" -> 2 [] code = "W" -> 1 [] OTHER -> -1

\* The input of the bypass mux that a code selects; -1 for none.
BypassInput(code) ==
  CASE code = "Regfile" -> 0 [] code = "M" -> 1 [] code = "W" -> 2 [] OTHER -> -1

\* The most telling of several causes comes first.
STALL_PRIORITY ==
  <<"load-use", "muldiv", "bus-address-phase", "fence", "jump-not-ready",
    "downstream-m", "starved">>

StallReason(causes) ==
  LET named == {i \in DOMAIN STALL_PRIORITY : STALL_PRIORITY[i] \in causes}
  IN  IF named = {} THEN "none"
      ELSE STALL_PRIORITY[CHOOSE i \in named : \A j \in named : i <= j]

-----------------------------------------------------------------------------
(* Displays                                                                *)

Undefined == -2   \* no "selected": the part is not a mux

Part(state, value)             == [state |-> state, value |-> value, selected |-> Undefined]
Choice(state, selected, value) == [state |-> state, value |-> value, selected |-> selected]

Carries(active, value) ==
  [active |-> active, emphasis |-> "none", value |-> When(active, value)]
Silent(active) == Carries(active, Blank)
Emphasised(active, value) ==
  [Carries(active, value) EXCEPT !.emphasis = IF active THEN "highlight" ELSE "none"]

XStalled(s) == s.x.valid /\ s.x.stall

XState(s) ==
  IF ~s.x.valid THEN "bubble" ELSE IF s.x.stall THEN "stalled" ELSE "active"

SelA(s) == BypassInput(s.x.bypassA)
SelB(s) == BypassInput(s.x.bypassB)

\* Mutant: only operand A is looked at.
ForwardsA(s, input) == SelA(s) = input

Forwards(s, input) == SelA(s) = input \/ SelB(s) = input

\* Mutant: compared with the address being fetched.
OpAFromFetch(s) == s.x.valid /\ s.x.opA = s.f.pc /\ s.x.opA # s.x.rs1Bypass

\* The select bits are not in the snapshot: they are guessed from the values.
OpAFromPc(s) == s.x.valid /\ s.x.opA = s.x.pc /\ s.x.opA # s.x.rs1Bypass
OpBFromImm(s) == s.x.valid /\ s.x.opB = s.x.imm /\ s.x.opB # s.x.rs2Bypass

UsingMuldiv(s) == s.x.valid /\ "muldiv" \in s.x.causes

IsLoad(s) == s.m.memOp = "load"
IsStore(s) == s.m.memOp = "store"

FetchParts(s) ==
  [pc   |-> Part(IF s.f.jumpReq THEN "writing" ELSE "active", Some),
   imem |-> Part(IF s.bus.iReq THEN "active" ELSE "idle", When(s.bus.iReq, Some)),
   cir  |-> Part(IF ~s.f.cirVld THEN "bubble" ELSE IF XStalled(s) THEN "stalled" ELSE "active",
                 IF s.f.cirVld THEN Some ELSE Name("-"))]

FetchNets(s) ==
  [pc_imem    |-> Carries(s.bus.iReq, Some),
   imem_cir   |-> Carries(s.bus.iDphReady, Some),
   cir_decode |-> Carries(s.f.cirVld, Some)]

BypassPart(input, value) ==
  Choice(IF input >= 1 THEN "writing" ELSE IF input = 0 THEN "active" ELSE "idle",
         input, When(input >= 0, Hex(value)))

\* Mutant: any instruction with a destination in M counts as writing it.
RegfileByDestination(s) ==
  Part(IF s.m.valid /\ s.m.rd # 0 THEN "writing" ELSE IF s.x.valid THEN "active" ELSE "idle",
       When(s.m.valid /\ s.m.rd # 0, Update(s.m.rd, s.m.result)))

RegfilePart(s) ==
  Part(IF s.m.regWen THEN "writing" ELSE IF s.x.valid THEN "active" ELSE "idle",
       When(s.m.regWen, Update(s.m.rd, s.m.result)))

OperandMux(s, other, value) ==
  Choice(XState(s), IF ~s.x.valid THEN -1 ELSE IF other THEN 1 ELSE 0,
         When(s.x.valid, Hex(value)))

ExecuteParts(s) ==
  [decode  |-> Part(XState(s), When(s.x.valid, RegName(s.x.rd))),
   xpc     |-> Part(IF s.x.valid THEN "active" ELSE "idle", Hex(s.x.pc)),
   regfile |-> RegfilePart(s),
   bypassA |-> BypassPart(SelA(s), s.x.rs1Bypass),
   bypassB |-> BypassPart(SelB(s), s.x.rs2Bypass),
   opA     |-> OperandMux(s, OpAFromPc(s), s.x.opA),
   opB     |-> OperandMux(s, OpBFromImm(s), s.x.opB),
   alu     |-> Part(IF s.x.valid /\ ~UsingMuldiv(s) THEN "active" ELSE "idle",
                    When(s.x.valid, Hex(s.x.aluResult))),
   muldiv  |-> Part(IF UsingMuldiv(s) THEN "stalled" ELSE "idle", When(UsingMuldiv(s), Some)),
   xres    |-> Choice(XState(s), IF UsingMuldiv(s) THEN 1 ELSE 0,
                      When(s.x.valid, Hex(s.x.aluResult))),
   branch  |-> Part(IF s.x.jumpReq THEN "writing" ELSE IF s.x.valid THEN "active" ELSE "idle",
                    When(s.x.jumpReq, Some)),
   hazard  |-> Part(IF XStalled(s) THEN "stalled"
                    ELSE IF Forwards(s, 1) \/ Forwards(s, 2) THEN "writing" ELSE "active",
                    IF s.x.stall THEN Name(StallReason(s.x.causes))
                    ELSE When(Forwards(s, 1) \/ Forwards(s, 2), Name("forwarding")))]

ExecuteNets(s) ==
  [rs1_addr    |-> Carries(s.x.valid /\ s.x.rs1 # 0, RegName(s.x.rs1)),
   rs2_addr    |-> Carries(s.x.valid /\ s.x.rs2 # 0, RegName(s.x.rs2)),
   rd_to_xm    |-> Carries(s.x.valid /\ s.x.rd # 0, RegName(s.x.rd)),
   memop_to_xm |-> Carries(s.x.valid /\ s.x.memOp # "none", Name(s.x.memOp)),
   imm_opB     |-> Carries(OpBFromImm(s), Hex(s.x.imm)),
   selA        |-> Silent(s.x.valid),
   selB        |-> Silent(s.x.valid),
   xres_sel    |-> Silent(UsingMuldiv(s)),
   rf_rd1      |-> Carries(SelA(s) = 0, Hex(s.x.rs1Bypass)),
   rf_rd2      |-> Carries(SelB(s) = 0, Hex(s.x.rs2Bypass)),
   fwd_m       |-> Emphasised(Forwards(s, 1), Hex(s.m.xmResult)),
   fwd_w       |-> [Emphasised(Forwards(s, 2), Blank) EXCEPT
                      !.active = Forwards(s, 2) \/ s.m.regWen,
                      !.value = When(Forwards(s, 2) \/ s.m.regWen, Hex(s.m.result))],
   hz_selA     |-> Silent(SelA(s) >= 1),
   hz_selB     |-> Silent(SelB(s) >= 1),
   hz_stall    |-> Emphasised(s.x.stall, Name(StallReason(s.x.causes))),
   xm_rd       |-> Carries(s.m.valid /\ s.m.rd # 0, RegName(s.m.rd)),
   bypA_opA    |-> Carries(SelA(s) >= 0, Hex(s.x.rs1Bypass)),
   bypB_opB    |-> IF IsStore(s)
                   THEN [Carries(TRUE, Hex(s.bus.dWdata)) EXCEPT !.emphasis = "highlight"]
                   ELSE Carries(SelB(s) >= 0, Hex(s.x.rs2Bypass)),
   xpc_opA     |-> Carries(s.x.valid, Hex(s.x.pc)),
   opA_alu     |-> Carries(s.x.valid, Hex(s.x.opA)),
   opB_alu     |-> Carries(s.x.valid, Hex(s.x.opB)),
   alu_out     |-> Carries(s.x.valid, Hex(s.x.aluResult)),
   muldiv_out  |-> Silent(UsingMuldiv(s)),
   xres_xm     |-> Carries(s.x.valid /\ s.x.issue, Hex(s.x.aluResult)),
   branch_pc   |-> Emphasised(s.x.jumpReq, Some)]

MemoryParts(s) ==
  [xm        |-> Part(IF ~s.m.valid THEN "bubble" ELSE IF s.m.stall THEN "stalled" ELSE "active",
                      IF s.m.valid THEN Hex(s.m.xmResult) ELSE Name("-")),
   dmem      |-> Part(IF ~s.m.dphase THEN "idle" ELSE IF s.m.busStall THEN "stalled" ELSE "active",
                      When(s.m.dphase, Some)),
   resultMux |-> Choice(IF s.m.valid THEN "active" ELSE "idle",
                        IF ~s.m.valid THEN -1 ELSE IF IsLoad(s) THEN 1 ELSE 0,
                        When(s.m.valid, Hex(s.m.result))),
   wb        |-> Part(IF s.m.regWen THEN "writing" ELSE "idle",
                      When(s.m.regWen, Update(s.m.rd, s.m.result)))]

MemoryNets(s) ==
  [xm_to_result |-> Carries(s.m.valid, Hex(s.m.xmResult)),
   dmem_rdata   |-> Carries(IsLoad(s) /\ s.m.dphase, Some),
   result_sel   |-> Silent(s.m.valid),
   wb_waddr     |-> Carries(s.m.regWen, RegName(s.m.rd)),
   wb_wen       |-> Emphasised(s.m.regWen, Name("1"))]

\* Two stages' parts of the display as one.
Beside(d, e) == [k \in DOMAIN d \cup DOMAIN e |-> IF k \in DOMAIN d THEN d[k] ELSE e[k]]

ComputeDisplay(s) ==
  [components |-> Beside(FetchParts(s), Beside(ExecuteParts(s), MemoryParts(s))),
   nets       |-> Beside(FetchNets(s), Beside(ExecuteNets(s), MemoryNets(s)))]

-----------------------------------------------------------------------------
(* The pipeline panel (src/viz/panels/status.ts): a row per stage.         *)

Row(state, instr, note) == [state |-> state, instr |-> instr, note |-> note]

FetchRow(s) ==
  Row(IF s.f.cirVld THEN "active" ELSE "bubble",
      IF s.f.cirVld THEN Some ELSE Name("buffer empty"), When(s.f.jumpReq, Some))

\* Mutant: a stall hides that there is nothing to stall.
ExecuteRowStallFirst(s) ==
  Row(IF s.x.stall THEN "stalled" ELSE IF ~s.x.valid THEN "bubble" ELSE "active",
      IF s.x.valid THEN Some ELSE Name("bubble"),
      IF s.x.stall THEN Name(StallReason(s.x.causes)) ELSE When(s.x.issue, Name("issues")))

ExecuteRow(s) ==
  Row(XState(s), IF s.x.valid THEN Some ELSE Name("bubble"),
      IF s.x.stall THEN Name(StallReason(s.x.causes)) ELSE When(s.x.issue, Name("issues")))

MemoryRow(s) ==
  Row(IF ~s.m.valid THEN "bubble" ELSE IF s.m.stall THEN "stalled" ELSE "active",
      IF s.m.valid THEN Some ELSE Name("bubble"),
      IF s.m.regWen THEN Hex(s.m.result) ELSE When(s.m.stall, Name("stalled")))

StatusRows(s) == [F |-> FetchRow(s), X |-> ExecuteRow(s), M |-> MemoryRow(s)]

\* The rows as they are built.
FreshRows == [stage \in {"F", "X", "M"} |-> Row("idle", Blank, Blank)]
=============================================================================
