----------------------------- MODULE MCRunPacing -----------------------------
(***************************************************************************)
(* The speeds on offer, and frames of displays of 120, 60 and 30 Hz and    *)
(* one after a long wait.                                                  *)
(***************************************************************************)
EXTENDS RunPacing
=============================================================================
