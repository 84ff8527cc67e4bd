------------------------------ MODULE Datapath ------------------------------
(***************************************************************************)
(* The datapath as the diagram describes it (src/viz/model/datapath.ts):   *)
(* the parts, their ports in the order they are declared, and the nets.    *)
(***************************************************************************)
EXTENDS Integers, Sequences

\* Mutant: one data input too few.
MuxShort(n) == [ins  |-> SubSeq(<<"in0", "in1", "in2">>, 1, n - 1) \o <<"sel">>, outs |-> <<"out">>]

\* mux(): data inputs in0, in1, ..., then sel; one output.
Mux(n) == [ins  |-> SubSeq(<<"in0", "in1", "in2">>, 1, n) \o <<"sel">>, outs |-> <<"out">>]

Components ==
  [pc        |-> [ins |-> <<"redirect">>, outs |-> <<"q">>],
   imem      |-> [ins |-> <<"addr">>, outs |-> <<"data">>],
   cir       |-> [ins |-> <<"d", "hold">>, outs |-> <<"q">>],
   decode    |-> [ins |-> <<"instr">>, outs |-> <<"rs1", "rs2", "rd", "imm", "selA", "selB",
                                                  "useMul", "memop">>],
   hazard    |-> [ins |-> <<"rs1", "rs2", "xmRd", "mwRd">>, outs |-> <<"selA", "selB", "stall">>],
   xpc       |-> [ins |-> <<>>, outs |-> <<"q">>],
   regfile   |-> [ins |-> <<"ra1", "ra2", "wa", "wd", "we">>, outs |-> <<"rd1", "rd2">>],
   bypassA   |-> Mux(3),
   bypassB   |-> Mux(3),
   opA       |-> Mux(2),
   opB       |-> Mux(2),
   alu       |-> [ins |-> <<"a", "b">>, outs |-> <<"out">>],
   muldiv    |-> [ins |-> <<"a", "b">>, outs |-> <<"out">>],
   xres      |-> Mux(2),
   branch    |-> [ins |-> <<"target", "cond">>, outs |-> <<"redirect">>],
   xm        |-> [ins |-> <<"d_result", "d_rd", "d_memop">>,
                  outs |-> <<"q_result", "q_rd", "q_memop">>],
   dmem      |-> [ins |-> <<"addr", "wdata">>, outs |-> <<"rdata">>],
   resultMux |-> Mux(2),
   wb        |-> [ins |-> <<"rd">>, outs |-> <<"waddr", "wen">>]]

\* A net from one output port to one or more input ports.
Net(from, to) == [from |-> from, to |-> to]

Nets ==
  [pc_imem      |-> Net(<<"pc", "q">>, << <<"imem", "addr">> >>),
   imem_cir     |-> Net(<<"imem", "data">>, << <<"cir", "d">> >>),
   cir_decode   |-> Net(<<"cir", "q">>, << <<"decode", "instr">> >>),
   rs1_addr     |-> Net(<<"decode", "rs1">>, << <<"regfile", "ra1">>, <<"hazard", "rs1">> >>),
   rs2_addr     |-> Net(<<"decode", "rs2">>, << <<"regfile", "ra2">>, <<"hazard", "rs2">> >>),
   rd_to_xm     |-> Net(<<"decode", "rd">>, << <<"xm", "d_rd">> >>),
   memop_to_xm  |-> Net(<<"decode", "memop">>, << <<"xm", "d_memop">> >>),
   imm_opB      |-> Net(<<"decode", "imm">>, << <<"opB", "in1">> >>),
   selA         |-> Net(<<"decode", "selA">>, << <<"opA", "sel">> >>),
   selB         |-> Net(<<"decode", "selB">>, << <<"opB", "sel">> >>),
   xres_sel     |-> Net(<<"decode", "useMul">>, << <<"xres", "sel">> >>),
   rf_rd1       |-> Net(<<"regfile", "rd1">>, << <<"bypassA", "in0">> >>),
   rf_rd2       |-> Net(<<"regfile", "rd2">>, << <<"bypassB", "in0">> >>),
   fwd_m        |-> Net(<<"xm", "q_result">>, << <<"bypassA", "in1">>, <<"bypassB", "in1">> >>),
   fwd_w        |-> Net(<<"resultMux", "out">>, << <<"bypassA", "in2">>, <<"bypassB", "in2">>,
                                                   <<"regfile", "wd">> >>),
   hz_selA      |-> Net(<<"hazard", "selA">>, << <<"bypassA", "sel">> >>),
   hz_selB      |-> Net(<<"hazard", "selB">>, << <<"bypassB", "sel">> >>),
   hz_stall     |-> Net(<<"hazard", "stall">>, << <<"cir", "hold">> >>),
   xm_rd        |-> Net(<<"xm", "q_rd">>, << <<"wb", "rd">>, <<"hazard", "xmRd">> >>),
   bypA_opA     |-> Net(<<"bypassA", "out">>, << <<"opA", "in0">> >>),
   bypB_opB     |-> Net(<<"bypassB", "out">>, << <<"opB", "in0">>, <<"dmem", "wdata">> >>),
   xpc_opA      |-> Net(<<"xpc", "q">>, << <<"opA", "in1">>, <<"branch", "target">> >>),
   opA_alu      |-> Net(<<"opA", "out">>, << <<"alu", "a">>, <<"muldiv", "a">> >>),
   opB_alu      |-> Net(<<"opB", "out">>, << <<"alu", "b">>, <<"muldiv", "b">> >>),
   alu_out      |-> Net(<<"alu", "out">>, << <<"xres", "in0">>, <<"dmem", "addr">>,
                                             <<"branch", "cond">> >>),
   muldiv_out   |-> Net(<<"muldiv", "out">>, << <<"xres", "in1">> >>),
   xres_xm      |-> Net(<<"xres", "out">>, << <<"xm", "d_result">> >>),
   branch_pc    |-> Net(<<"branch", "redirect">>, << <<"pc", "redirect">> >>),
   xm_to_result |-> Net(<<"xm", "q_result">>, << <<"resultMux", "in0">> >>),
   dmem_rdata   |-> Net(<<"dmem", "rdata">>, << <<"resultMux", "in1">> >>),
   result_sel   |-> Net(<<"xm", "q_memop">>, << <<"resultMux", "sel">> >>),
   wb_waddr     |-> Net(<<"wb", "waddr">>, << <<"regfile", "wa">>, <<"hazard", "mwRd">> >>),
   wb_wen       |-> Net(<<"wb", "wen">>, << <<"regfile", "we">> >>)]

\* The net that drives an input port.
Driver(component, port) ==
  CHOOSE n \in DOMAIN Nets : \E k \in DOMAIN Nets[n].to : Nets[n].to[k] = <<component, port>>

-----------------------------------------------------------------------------
(* validateDatapath.  Two parts, ports or nets of one name cannot be       *)
(* written in the tables above.                                            *)

PortsOf(side) ==
  UNION {{<<c, Components[c][side][i]>> : i \in DOMAIN Components[c][side]} : c \in DOMAIN Components}

Destinations == UNION {{<<n, k>> : k \in DOMAIN Nets[n].to} : n \in DOMAIN Nets}
EndOf(d) == Nets[d[1]].to[d[2]]

ModelErrors ==
  {<<"no such output", n>> : n \in {n \in DOMAIN Nets : Nets[n].from \notin PortsOf("outs")}}
    \cup {<<"no such input", d>> : d \in {d \in Destinations : EndOf(d) \notin PortsOf("ins")}}
    \cup {<<"no destinations", n>> : n \in {n \in DOMAIN Nets : Nets[n].to = <<>>}}
    \cup {<<"driven twice", EndOf(d)>> :
             d \in {d \in Destinations : \E e \in Destinations \ {d} : EndOf(e) = EndOf(d)}}

ModelWarnings ==
  {<<"not connected", p>> :
     p \in (PortsOf("ins") \cup PortsOf("outs"))
             \ ({Nets[n].from : n \in DOMAIN Nets} \cup {EndOf(d) : d \in Destinations})}
=============================================================================
