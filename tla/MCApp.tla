-------------------------------- MODULE MCApp --------------------------------
(***************************************************************************)
(* Values for TLC: one program of the page and one that is fetched.        *)
(***************************************************************************)
EXTENDS App

CONSTANTS p, q
=============================================================================
