----------------------------- MODULE MCDevServer ----------------------------
(***************************************************************************)
(* Two tabs, of which each may have reloaded while the server still holds  *)
(* its previous stream.                                                    *)
(***************************************************************************)
EXTENDS DevServer
CONSTANTS p, q
=============================================================================
