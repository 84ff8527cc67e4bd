------------------------------ MODULE Diagram ------------------------------
(***************************************************************************)
(* The datapath diagram on the page: built once, wire by wire, from the    *)
(* model and the layout (render/scene.ts), then repainted from a snapshot  *)
(* together with the register panel (App.paint).  The core is external:    *)
(* here it is what the diagram shows of it, the sources of the operands,   *)
(* the stalls and the results on their way to the register file.           *)
(***************************************************************************)
EXTENDS Display, Layout

CONSTANTS
  Reg, Val,
  Fetches,        \* what fetch may present: [f : ..., bus : ...] of a snapshot
  Instructions,   \* what decode may present
  Stale,          \* what it presents while X is starved
  Alu(_, _),      \* what the ALU makes of its operands
  DecayCycles, ReadDecayCycles, MaxCycles

ASSUME DiagramAssumption ==
  /\ 0 \in Val /\ 0 \in Reg /\ Reg \subseteq Nat
  /\ DecayCycles \in Nat \ {0} /\ ReadDecayCycles \in Nat \ {0} /\ MaxCycles \in Nat
  /\ \A a, b \in Val : Alu(a, b) \in Val
  /\ \A i \in Instructions \cup {Stale} : {i.rs1, i.rs2, i.rd} \subseteq Reg /\ {i.pc, i.imm} \subseteq Val

VARIABLES
  file,     \* the architectural registers
  mw,       \* the core's M|W register: the write of the last edge
  m,        \* stage M: what a snapshot shows of it
  x,        \* stage X: the instruction, its operands and where they came from
  fetch,    \* the front end's part of a snapshot
  cycle, regs, prevWrites, prevCycle, blinks, cells, unseen, reported, \* RegisterBlink
  mounted,  \* the nets built so far; all of them once the scene is mounted
  path,     \* the points of the wires of the net just built
  attrs,    \* the attributes and texts of the mounted elements
  rows      \* the rows of the pipeline panel

coreVars  == <<file, mw, m, x, fetch>>
panelVars == <<cycle, regs, prevWrites, prevCycle, blinks, cells, unseen, reported>>
sceneVars == <<mounted, path>>
shown     == <<attrs, rows>>
vars == <<coreVars, panelVars, sceneVars, shown>>

Panel == INSTANCE RegisterBlink

-----------------------------------------------------------------------------
(* The core.  An operand comes from the youngest older instruction that    *)
(* writes its register: the one in M, the one that has just left M, or the *)
(* register file.  A load in M has no result to forward yet: X waits.      *)

Lines(r, source, sm, smw) ==
  IF r = 0 THEN IF source = "reg" THEN {"regs"} ELSE {}
  ELSE IF r = sm.rd THEN {"xm"}
  ELSE IF r = smw.rd THEN {"mw"}
  ELSE {"regs"}

Operand(lines, r, sm, smw, sf) ==
  IF "xm" \in lines THEN sm.xmResult
  ELSE IF "mw" \in lines THEN smw.result
  ELSE IF r = 0 THEN 0 ELSE sf[r]

Awaits(i, sm) == sm.memOp = "load" /\ sm.rd \in {i.rs1, i.rs2} \ {0}

\* The operands of the ALU: the core's own selection, not the page's guess.
OpA(i, bypassed) == IF i.srcA = "pc" THEN i.pc ELSE bypassed
OpB(i, bypassed) == IF i.srcB = "imm" THEN i.imm ELSE bypassed

\* What an instruction may wait for in its own unit, or at its own interface.
OwnCauses(i) ==
  CASE i.unit = "muldiv" -> {"muldiv"}
    [] i.memOp # "none"  -> {"bus-address-phase"}
    [] i.jump            -> {"jump-not-ready"}
    [] OTHER             -> {}

Causes(valid, i, sm) ==
  {own \cup (IF sm.stall THEN {"downstream-m"} ELSE {})
       \cup (IF valid THEN {} ELSE {"starved"})
       \cup (IF valid /\ Awaits(i, sm) THEN {"load-use"} ELSE {}) :
   own \in IF valid THEN SUBSET OwnCauses(i) ELSE {{}}}

\* A trap about to be taken kills the instruction in X.
Stalled(causes) == causes \ {"starved"} # {}
Issues(sx, sm) == sx.valid /\ ~Stalled(sx.causes) /\ ~sm.trapSoon

\* An instruction i in X, over the given M, M|W and register file.
InX(valid, i, sm, smw, sf) ==
  LET linesA == Lines(i.rs1, i.srcA, sm, smw)
      linesB == Lines(i.rs2, i.srcB, sm, smw)
      a == Operand(linesA, i.rs1, sm, smw, sf)
      b == Operand(linesB, i.rs2, sm, smw, sf)
  IN  {[valid |-> valid, i |-> i, causes |-> causes, linesA |-> linesA, linesB |-> linesB,
        rs1Bypass |-> a, rs2Bypass |-> b, opA |-> OpA(i, a), opB |-> OpB(i, b),
        sum |-> IF valid THEN Alu(OpA(i, a), OpB(i, b)) ELSE 0]
         : causes \in Causes(valid, i, sm)}

\* X is starved while the CIR is empty; it then still shows an instruction.
FillX(sm, smw, sf, sx, sfetch) ==
  /\ \/ \E i \in Instructions : sx \in InX(TRUE, i, sm, smw, sf)
     \/ sx \in InX(FALSE, Stale, sm, smw, sf)
  /\ sfetch \in Fetches
  /\ sx.valid => sfetch.f.cirVld

\* What M may show of the instruction in it: data comes when it does not stall.
\* An instruction that traps does not write.  (The interrupt lines are tied low.)
InM(valid, rd, memOp, xmResult) ==
  {s \in [valid : {valid}, rd : {rd}, memOp : {memOp}, xmResult : {xmResult},
          result : IF memOp = "load" THEN Val ELSE {xmResult},
          stall : BOOLEAN, trapSoon : BOOLEAN, wen : BOOLEAN] :
     /\ s.trapSoon => valid
     /\ s.stall => memOp # "none" \/ s.trapSoon
     /\ s.wen = (rd # 0 /\ ~s.stall /\ ~s.trapSoon)}

EmptyM(v) == InM(FALSE, 0, "none", v)

NextM ==
  IF m.stall THEN InM(m.valid, m.rd, m.memOp, m.xmResult)
  ELSE IF Issues(x, m) THEN UNION {InM(TRUE, x.i.rd, x.i.memOp, v) :
                               v \in IF x.i.unit = "muldiv" THEN Val ELSE {x.sum}}
  ELSE EmptyM(m.xmResult)

NoWrite == [rd |-> 0, result |-> 0]

\* Whether the register outlives a cycle without a write is the core's affair.
NextMW == IF m.wen THEN {[rd |-> m.rd, result |-> m.result]} ELSE {mw, NoWrite}
NextFile == IF m.wen THEN [file EXCEPT ![m.rd] = m.result] ELSE file

CoreEdge ==
  /\ file' = NextFile
  /\ mw' \in NextMW
  /\ m' \in NextM
  /\ FillX(m', mw', file', x', fetch')

EmptyFile == [r \in Reg |-> 0]
AfterReset(sm, sx, sf) ==
  /\ sm \in EmptyM(0)
  /\ FillX(sm, NoWrite, EmptyFile, sx, sf)
  /\ ~sx.valid

-----------------------------------------------------------------------------
(* The snapshot                                                            *)

Snapshot(sx, sm, sfetch) ==
  LET i == sx.i
  IN  [f   |-> sfetch.f,
       bus |-> [iReq |-> sfetch.iReq, iDphReady |-> sfetch.iDphReady, dWdata |-> sm.xmResult],
       x   |-> [valid |-> sx.valid, issue |-> Issues(sx, sm),
                rs1 |-> i.rs1, rs2 |-> i.rs2, rd |-> i.rd, pc |-> i.pc, imm |-> i.imm,
                memOp |-> i.memOp, jumpReq |-> sx.valid /\ i.jump,
                bypassA |-> BypassCode(sx.linesA), bypassB |-> BypassCode(sx.linesB),
                rs1Bypass |-> sx.rs1Bypass, rs2Bypass |-> sx.rs2Bypass,
                opA |-> sx.opA, opB |-> sx.opB,
                aluResult |-> sx.sum, stall |-> Stalled(sx.causes), causes |-> sx.causes],
       m   |-> [valid |-> sm.valid, rd |-> sm.rd, memOp |-> sm.memOp, xmResult |-> sm.xmResult,
                result |-> sm.result, stall |-> sm.stall, busStall |-> sm.stall,
                dphase |-> sm.memOp # "none", regWen |-> sm.wen]]

-----------------------------------------------------------------------------
(* The page                                                                *)

\* Mutant: a text is written only where the display has one.
OnlyNewTexts(old, d) == [d EXCEPT !.value = IF d.value = Blank THEN old.value ELSE d.value]

\* A display written onto an element: everything is written, an absent text as "".
Written(old, d) == d

ApplyDisplay(d) ==
  attrs' = [components |-> [c \in DOMAIN Components |->
                              Written(attrs.components[c], d.components[c])],
            nets       |-> [n \in DOMAIN Nets |-> Written(attrs.nets[n], d.nets[n])]]

\* Elements as the scene is mounted: idle, dark and without text.
FreshAttrs ==
  [components |-> [c \in DOMAIN Components |-> Part("idle", Blank)],
   nets       |-> [n \in DOMAIN Nets |-> Silent(FALSE)]]

PaintDiagram(sx, sm, sfetch) ==
  LET s == Snapshot(sx, sm, sfetch)
  IN  /\ ApplyDisplay(ComputeDisplay(s))
      /\ rows' = StatusRows(s)

Init ==
  /\ file = EmptyFile /\ mw = NoWrite
  /\ AfterReset(m, x, fetch)
  /\ Panel!Init
  /\ mounted = {} /\ path = <<>>
  /\ attrs = FreshAttrs /\ rows = FreshRows

Ready == mounted = DOMAIN Nets

\* buildNet: the wires of one net.  The order of the nets does not matter.
BuildNet ==
  /\ ~Ready
  /\ LET n == CHOOSE n \in DOMAIN Nets \ mounted : TRUE
     IN  /\ mounted' = mounted \cup {n}
         /\ path' = [k \in DOMAIN Nets[n].to |->
                       [from |-> Nets[n].from, to |-> Nets[n].to[k], points |-> Wire(n, k)]]
  /\ UNCHANGED <<coreVars, panelVars, shown>>

\* One clock cycle.  The strobe is sampled before the edge, X's operands after it.
Cycle ==
  /\ Ready
  /\ CoreEdge
  /\ Panel!Cycle(IF m.wen THEN m.rd ELSE 0, m.result,
                 IF x'.valid THEN x'.i.rs1 ELSE 0, IF x'.valid THEN x'.i.rs2 ELSE 0)
  /\ UNCHANGED <<sceneVars, shown>>

Paint ==
  /\ Ready
  /\ UNCHANGED <<coreVars, sceneVars>>
  /\ PaintDiagram(x, m, fetch)
  /\ Panel!Paint

\* load() and Reset.
Load ==
  /\ Ready
  /\ file' = EmptyFile /\ mw' = NoWrite
  /\ AfterReset(m', x', fetch')
  /\ PaintDiagram(x', m', fetch')
  /\ Panel!Load
  /\ path' = <<>>
  /\ UNCHANGED mounted

Next == BuildNet \/ Cycle \/ Paint \/ Load

Spec == Init /\ [][Next]_vars

-----------------------------------------------------------------------------

\* A wire drawn dark says nothing: no value of an earlier frame stays on it,
\* however many frames ago it was lit (render/dom.ts, "no diffing").
DarkWiresAreSilent ==
  \A n \in DOMAIN Nets :
    ~attrs.nets[n].active => attrs.nets[n].value = Blank /\ attrs.nets[n].emphasis = "none"

\* The net that drives the input a mux shows as selected.
SelectedNet(c, k) == Driver(c, <<"in0", "in1", "in2">>[k + 1])

Operandless(c, a) ==
  \/ c = "opA" /\ a.components.bypassA.selected = -1
  \/ c = "opB" /\ a.components.bypassB.selected = -1

\* A mux never shows an input whose wire is drawn dark: the numbering of the
\* model's inputs, the choice of the bindings and the activity of the nets, three
\* tables in three files, agree (bindings.ts:47-51).  A mux whose other operand is
\* no register, or which is drawn as a bubble, shows a default input.
SelectedInputIsLive ==
  \A c \in {"bypassA", "bypassB", "opA", "opB", "xres", "resultMux"} :
    LET d == attrs.components[c]
    IN  d.selected >= 0 /\ d.state # "bubble" /\ ~Operandless(c, attrs)
          => attrs.nets[SelectedNet(c, d.selected)].active

\* The newest value of a register that X may use.
Newest(r) == IF r = 0 THEN 0 ELSE IF r = m.rd THEN m.xmResult ELSE file[r]

\* The bypass muxes show the newest value of the register (datapath.ts:140), and
\* where that is the register file's or M's, so does the wire it comes in on.
OperandShownIsNewest ==
  [][Paint =>
       \A op \in {[mux |-> "bypassA", r |-> x.i.rs1], [mux |-> "bypassB", r |-> x.i.rs2]} :
         LET d == attrs'.components[op.mux]
         IN  x.valid /\ "load-use" \notin x.causes /\ d.selected >= 0
               => /\ d.value = Hex(Newest(op.r))
                  /\ d.selected # 2 => attrs'.nets[SelectedNet(op.mux, d.selected)].value = d.value
    ]_vars

\* "The value being written back this cycle, handed straight to execute"
\* (datapath.ts:268): what a forward from W shows on its wire is the operand that
\* the mux takes from it.
WireFromWShowsTheOperand ==
  \A c \in {"bypassA", "bypassB"} :
    attrs.components[c].selected = 2 => attrs.nets.fwd_w.value = attrs.components[c].value

\* The operand muxes guess their select bit, "exact for every case that matters"
\* (bindings.ts:120-122): the input they show carries the operand they show.
GuessIsHarmless ==
  [][Paint /\ x.valid =>
       LET a == attrs'.components.opA  b == attrs'.components.opB
       IN  /\ a.value = Hex(IF a.selected = 1 THEN x.i.pc ELSE x.rs1Bypass)
           /\ b.value = Hex(IF b.selected = 1 THEN x.i.imm ELSE x.rs2Bypass)]_vars

\* The registers the last frame drew as being written.
Promised ==
  LET d == attrs.components.regfile
  IN  {r \in Reg : d.state = "writing" /\ d.value[2] = r}

\* The diagram draws a write while it is about to happen and the register panel
\* flashes once it has: in frames one cycle apart, the registers that flash are the
\* one the diagram drew, though the two read different signals (bindings.ts:97-98).
FlashFollowsStrobe ==
  [][Paint /\ cycle = prevCycle + 1
       => {r \in Reg : blinks'[r].writesDelta > 0} = Promised]_vars

\* The pipeline panel and the diagram are two tables in two files over the same
\* snapshot: they agree on the state of X and M, on an empty CIR, on why X waits
\* and on whether its result goes on to M, and on what M writes (panels/status.ts).
RowsMatchDiagram ==
  LET part == attrs.components
  IN  /\ rows.X.state = part.decode.state
      /\ rows.M.state = part.xm.state
      /\ rows.F.state = "bubble" <=> part.cir.state = "bubble"
      /\ part.hazard.state = "stalled" => rows.X.note = part.hazard.value
      /\ rows.X.note = Name("issues") <=> attrs.nets.xres_xm.active
      /\ part.wb.state = "writing" => rows.M.note = Hex(part.wb.value[3])

\* What the page checks of its tables before it draws them is in order: each input
\* has one driver and each port a net, in the right direction, and each part has a
\* place of its own on the canvas (App.buildDiagram).  The muxes and the wires rely
\* on it without looking again.
TablesInOrder ==
  ModelErrors \cup ModelWarnings \cup LayoutErrors \cup LayoutWarnings = {}

OnCanvas(p) == p[1] \in 0..Canvas.w * Unit /\ p[2] \in 0..Canvas.h * Unit

\* Each wire runs from its source port to its destination port in horizontal and
\* vertical pieces, whatever waypoints it goes by (layout/route.ts:4-6), and never
\* leaves the picture.
WiresConnect ==
  \A k \in DOMAIN path :
    LET w == path[k].points
    IN  /\ w[1] = PointOf(path[k].from[1], path[k].from[2])
        /\ w[Len(w)] = PointOf(path[k].to[1], path[k].to[2])
        /\ \A j \in 2..Len(w) : \E axis \in 1..2 : w[j][axis] = w[j - 1][axis]
        /\ \A j \in DOMAIN w : OnCanvas(w[j])
=============================================================================
