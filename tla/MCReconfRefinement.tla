------------------------- MODULE MCReconfRefinement -------------------------
(* Instance of ReconfRefinement for TLC.                                   *)
EXTENDS ReconfRefinement, MCReconfCtrl

=============================================================================
