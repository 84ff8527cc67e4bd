------------------------------- MODULE Layout -------------------------------
(***************************************************************************)
(* Where the parts sit (src/viz/layout/datapath-layout.ts), where their    *)
(* ports are (layout/types.ts) and how a wire gets from one to another     *)
(* (layout/route.ts).  Tables are in pixels and percent; points are in     *)
(* units of 1 / Unit of a pixel, in which every point is an integer.       *)
(***************************************************************************)
EXTENDS Datapath, FiniteSets, Functions

Unit   == 600
Canvas == [w |-> 1280, h |-> 720]

Box ==
  [pc     |-> <<56, 64, 140, 40>>,    imem      |-> <<46, 150, 160, 56>>,
   cir    |-> <<56, 248, 140, 58>>,   decode    |-> <<262, 146, 122, 168>>,
   regfile |-> <<262, 372, 146, 126>>, hazard   |-> <<470, 556, 176, 96>>,
   xpc    |-> <<262, 66, 122, 34>>,   bypassA   |-> <<486, 300, 30, 92>>,
   bypassB |-> <<486, 424, 30, 92>>,  opA       |-> <<566, 314, 26, 64>>,
   opB    |-> <<566, 438, 26, 64>>,   alu       |-> <<646, 322, 78, 132>>,
   muldiv |-> <<640, 484, 128, 60>>,  xres      |-> <<818, 356, 26, 64>>,
   branch |-> <<700, 60, 152, 48>>,   xm        |-> <<946, 330, 62, 120>>,
   dmem   |-> <<946, 486, 164, 56>>,  resultMux |-> <<1176, 372, 26, 68>>,
   wb     |-> <<1040, 592, 168, 58>>]

\* Anchors that the layout places: the side of the box and how far along it.
At(side, percent) == [side |-> side, at |-> percent * (Unit \div 100)]

Placed ==
  [pc     |-> [q |-> At("s", 50), redirect |-> At("n", 50)],
   imem   |-> [addr |-> At("n", 50), data |-> At("s", 50)],
   cir    |-> [d |-> At("n", 50), q |-> At("e", 50), hold |-> At("w", 50)],
   decode |-> [instr |-> At("w", 20), rs1 |-> At("s", 22), rs2 |-> At("s", 55),
               rd |-> At("e", 10), memop |-> At("e", 26), imm |-> At("e", 46),
               selA |-> At("e", 64), selB |-> At("e", 80), useMul |-> At("e", 94)],
   regfile |-> [ra1 |-> At("n", 18), ra2 |-> At("n", 42), wa |-> At("w", 30),
                wd |-> At("w", 58), we |-> At("w", 84), rd1 |-> At("e", 28), rd2 |-> At("e", 68)],
   hazard |-> [rs1 |-> At("w", 20), rs2 |-> At("w", 40), xmRd |-> At("e", 30),
               mwRd |-> At("e", 65), selA |-> At("n", 30), selB |-> At("n", 62),
               stall |-> At("w", 82)],
   xpc    |-> [q |-> At("e", 50)],
   muldiv |-> [a |-> At("w", 30), b |-> At("w", 70)],
   branch |-> [target |-> At("w", 50), cond |-> At("s", 30), redirect |-> At("n", 50)],
   xm     |-> [d_result |-> At("w", 25), d_rd |-> At("w", 55), d_memop |-> At("w", 82),
               q_result |-> At("n", 40), q_rd |-> At("e", 45), q_memop |-> At("e", 80)],
   dmem   |-> [addr |-> At("w", 30), wdata |-> At("w", 72), rdata |-> At("e", 50)],
   resultMux |-> [sel |-> At("s", 50)],
   wb     |-> [rd |-> At("e", 50), waddr |-> At("w", 32), wen |-> At("w", 72)]]

\* The i-th of n ports on a face.
Spread(side, i, n) == [side |-> side, at |-> (i * Unit) \div (n + 1)]

\* defaultAnchors: a select on the north face, other inputs spread over the
\* west face and outputs over the east one.
DefaultAnchor(c, p) ==
  LET ins   == Components[c].ins
      outs  == Components[c].outs
      data  == {i \in DOMAIN ins : ins[i] # "sel"}
      place == CHOOSE i \in DOMAIN ins : ins[i] = p
  IN  CASE p = "sel" -> Spread("n", 1, 1)
        [] p # "sel" /\ p \in Range(ins) ->
             Spread("w", Cardinality({i \in data : i <= place}), Cardinality(data))
        [] OTHER -> Spread("e", CHOOSE i \in DOMAIN outs : outs[i] = p, Len(outs))

Anchor(c, p) ==
  IF c \in DOMAIN Placed /\ p \in DOMAIN Placed[c] THEN Placed[c][p] ELSE DefaultAnchor(c, p)

\* anchorPoint.
PointOf(c, p) ==
  LET b == Box[c]  a == Anchor(c, p)
  IN  CASE a.side = "n" -> <<b[1] * Unit + b[3] * a.at, b[2] * Unit>>
        [] a.side = "s" -> <<b[1] * Unit + b[3] * a.at, (b[2] + b[4]) * Unit>>
        [] a.side = "w" -> <<b[1] * Unit, b[2] * Unit + b[4] * a.at>>
        [] a.side = "e" -> <<(b[1] + b[3]) * Unit, b[2] * Unit + b[4] * a.at>>

-----------------------------------------------------------------------------
(* Waypoints, by net and destination.                                      *)

Shared ==
  [cir_decode |-> << <<232, 180>> >>,
   fwd_m |-> << <<470, 258>> >>,
   xm_to_result |-> << <<1162, 300>> >>,
   fwd_w |-> << <<1232, 690>> >>,
   wb_waddr |-> << <<1026, 664>>, <<226, 664>> >>,
   wb_wen |-> << <<1014, 676>>, <<214, 676>> >>,
   hz_selA |-> << <<452, 286>> >>,
   hz_selB |-> << <<440, 410>> >>,
   hz_stall |-> << <<30, 604>> >>,
   branch_pc |-> << <<776, 30>>, <<126, 30>> >>,
   result_sel |-> << <<1189, 470>> >>]

Own ==
  [rs1_addr |-> << <<>>, << <<236, 330>>, <<236, 576>> >> >>,
   rs2_addr |-> << <<>>, << <<248, 342>>, <<248, 596>> >> >>,
   xpc_opA  |-> << << <<540, 83>> >>, <<>> >>,
   alu_out  |-> << <<>>, << <<900, 500>> >>, << <<738, 480>> >> >>,
   bypB_opB |-> << <<>>, << <<620, 570>>, <<900, 570>> >> >>,
   xm_rd    |-> << <<>>, << <<700, 578>> >> >>]

Via(net, k) ==
  LET px == IF net \in DOMAIN Own THEN Own[net][k]
            ELSE IF net \in DOMAIN Shared THEN Shared[net] ELSE <<>>
  IN  [i \in DOMAIN px |-> <<px[i][1] * Unit, px[i][2] * Unit>>]

-----------------------------------------------------------------------------
(* route                                                                   *)

STUB == 14 * Unit

\* The end of the stub that leaves a port (outwardNormal).
StubEnd(p, side) ==
  CASE side = "n" -> <<p[1], p[2] - STUB>>
    [] side = "s" -> <<p[1], p[2] + STUB>>
    [] side = "w" -> <<p[1] - STUB, p[2]>>
    [] side = "e" -> <<p[1] + STUB, p[2]>>

DogLeg(a, b, horizontalFirst) ==
  IF horizontalFirst
  THEN LET mx == (a[1] + b[1]) \div 2 IN << <<mx, a[2]>>, <<mx, b[2]>> >>
  ELSE LET my == (a[2] + b[2]) \div 2 IN << <<a[1], my>>, <<b[1], my>> >>

\* The corner on the way from p to q.
Elbow(p, q, horizontalFirst) == IF horizontalFirst THEN <<q[1], p[2]>> ELSE <<p[1], q[2]>>

\* Mutant: the last waypoint is not closed onto the destination's stub.
ViaPathOpen(a, b, via, horizontalFirst) ==
  LET stops == <<a>> \o via
  IN  [j \in 1..2 * Len(via) |->
         IF j % 2 = 1 THEN Elbow(stops[(j + 1) \div 2], stops[(j + 3) \div 2], horizontalFirst)
         ELSE stops[(j + 2) \div 2]]

\* Every second point is a waypoint, the others are the corners in between.
ViaPath(a, b, via, horizontalFirst) ==
  LET stops == <<a>> \o via \o <<b>>
  IN  [j \in 1..2 * Len(via) + 1 |->
         IF j % 2 = 1 THEN Elbow(stops[(j + 1) \div 2], stops[(j + 3) \div 2], horizontalFirst)
         ELSE stops[(j + 2) \div 2]]

\* simplify drops repeated points, then the middle one of three in a line.  The point
\* kept last is in both passes the one looked at last, so one pass does for both.
Collinear(a, b, c) == \E axis \in 1..2 : a[axis] = b[axis] /\ b[axis] = c[axis]

Keep(out, p) ==
  LET last == Len(out)
  IN  IF last > 0 /\ out[last] = p THEN out
      ELSE IF last > 1 /\ Collinear(out[last - 1], out[last], p) THEN [out EXCEPT ![last] = p]
      ELSE Append(out, p)

Simplify(points) ==
  LET kept[n \in 0..Len(points)] == IF n = 0 THEN <<>> ELSE Keep(kept[n - 1], points[n])
  IN  kept[Len(points)]

Route(from, fromSide, to, toSide, via) ==
  LET a == StubEnd(from, fromSide)
      b == StubEnd(to, toSide)
      horizontalFirst == fromSide \in {"e", "w"}
      middle == IF via # <<>> THEN ViaPath(a, b, via, horizontalFirst)
                ELSE DogLeg(a, b, horizontalFirst)
  IN  Simplify(<<from, a>> \o middle \o <<b, to>>)

\* The wire of a net to its k-th destination (buildNet).
Wire(net, k) ==
  LET from == Nets[net].from
      to   == Nets[net].to[k]
  IN  Route(PointOf(from[1], from[2]), Anchor(from[1], from[2]).side,
            PointOf(to[1], to[2]), Anchor(to[1], to[2]).side, Via(net, k))

-----------------------------------------------------------------------------
(* validateLayout                                                          *)

LayoutErrors ==
  {<<"no layout", c>> : c \in DOMAIN Components \ DOMAIN Box}
    \cup {<<"unknown component", c>> : c \in (DOMAIN Box \cup DOMAIN Placed) \ DOMAIN Components}
    \cup {<<"no such port", c>> :
             c \in {c \in DOMAIN Placed \cap DOMAIN Components :
                     ~(DOMAIN Placed[c] \subseteq Range(Components[c].ins \o Components[c].outs))}}
    \cup {<<"degenerate", c>> : c \in {c \in DOMAIN Box : Box[c][3] <= 0 \/ Box[c][4] <= 0}}
    \cup {<<"unknown net", n>> : n \in (DOMAIN Shared \cup DOMAIN Own) \ DOMAIN Nets}

OutsideCanvas(b) ==
  b[1] < 0 \/ b[2] < 0 \/ b[1] + b[3] > Canvas.w \/ b[2] + b[4] > Canvas.h

Overlaps(a, b) ==
  a[1] < b[1] + b[3] /\ b[1] < a[1] + a[3] /\ a[2] < b[2] + b[4] /\ b[2] < a[2] + a[4]

LayoutWarnings ==
  {<<"outside the canvas", c>> : c \in {c \in DOMAIN Box : OutsideCanvas(Box[c])}}
    \cup {<<"overlaps", c>> :
             c \in {c \in DOMAIN Box : \E d \in DOMAIN Box \ {c} : Overlaps(Box[c], Box[d])}}
=============================================================================
