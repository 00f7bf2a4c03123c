---------------------------- MODULE MCReconfPath ----------------------------
(***************************************************************************)
(* Instances of ReconfPath for TLC.                                        *)
(***************************************************************************)
EXTENDS ReconfPath

Shape(need, body, cut) == [need |-> need, body |-> body, cut |-> cut]

(* Queries, reads and writes with and without excess lines, a header       *)
(* without a command, and writes with too little payload.                  *)
OnePacket ==
  {Shape(0, 1, 0), Shape(0, 3, 0), Shape(1, 2, 0), Shape(1, 3, 0),
   Shape(2, 3, 0), Shape(0, 0, 0), Shape(1, 1, 0), Shape(2, 2, 0)}

=============================================================================
