--------------------------- MODULE MCRegisterBlink ---------------------------
(***************************************************************************)
(* x0 and two registers, a ramp of three cycles.                           *)
(***************************************************************************)
EXTENDS RegisterBlink
=============================================================================
